\* Every method, every answer of the core and those that differ in one key,
\* with a completion that may come after the object is gone.
CONSTANTS
  MaxDeviations = 1
  Completions = {a1}
  MaxPairs = 2
SPECIFICATION Spec
INVARIANTS
  ResultsFreedOnce
  AnswersAsEvaluated
  FailuresExplained
  Rereadable
  OptionsReachCore
  EventsArrive
