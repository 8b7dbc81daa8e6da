-------------------------- MODULE StatsigApiProofs --------------------------
(***************************************************************************)
(* Proofs about StatsigApi: for every number of completions and whatever   *)
(* the core answers.                                                       *)
(*                                                                         *)
(* CallInv says what became of the string of a call from how far the call  *)
(* is; why a call ended as it did, and under which options it runs, are    *)
(* then each preserved by every step.  TextInv says that a text the core   *)
(* means to give is what it writes of its content, ValueInv that a struct  *)
(* holds values of its fields: with them the lemmas on the formats show    *)
(* that answers arrive and that what is written again can be read.         *)
(***************************************************************************)
EXTENDS StatsigApi, TLAPS, SequenceTheorems

ResultOf == [idle |-> {"null"}, asked |-> {"null"}, answered |-> {"allocated"},
             copied |-> {"freed"}, done |-> {"null", "allocated", "freed"}]

CallInv ==
  /\ pc \in {"idle", "asked", "answered", "copied", "done"}
  /\ result \in ResultOf[pc]
  /\ pc = "done" /\ result = "allocated" => answer = "out_of_memory"
  /\ pc # "done" => answer = "none"

AsyncInv ==
  \A a \in Completions :
    async[a].string \in CASE async[a].owed = "called" -> {"null", "allocated"}
                          [] async[a].owed = "done" -> {"null", "freed"}
                          [] OTHER -> {"null"}

Completion == [owed : {"nothing", "plain", "string", "called", "done"},
               string : {"null", "allocated", "freed", "freed_twice"}]

ApiInv == /\ async \in [Completions -> Completion]
          /\ CallInv /\ AsyncInv

LEMMA InitApi == Init => ApiInv
  BY DEF Init, Idle, ApiInv, CallInv, AsyncInv, Completion, ResultOf

(* A method starts a call, ends it before the core is asked, or, for       *)
(* logEvent, has no answer.                                                *)
LEMMA MethodSteps ==
  Method => \/ \E t \in {"FeatureGate", "DynamicConfig", "Experiment", "Layer", "bool",
                         "ExperimentGroupsResult", "List", "string"},
                  O \in {{NoOptions}, CheckGateOptions, GetExperimentOptions} :
                 Ask(t, O)
            \/ LogEvent
  BY DEF Method, GetFeatureGate, GetDynamicConfig, GetExperiment, GetLayer, CheckGate,
         GetExperimentByGroupName, GetExperimentByGroupIdAdvanced,
         GetExperimentGroups, GetFeatureGateList, GetDynamicConfigList,
         GetExperimentList, GetAutotuneList, GetLayerList,
         InitializeWithDetailsBlocking, GetDynamicConfigOptions, GetLayerOptions

LEMMA MethodApi == ApiInv /\ Method => ApiInv'
<1> SUFFICES ASSUME ApiInv, Method PROVE ApiInv'
  OBVIOUS
<1> USE DEF ApiInv, CallInv, AsyncInv, ResultOf
<1>1. ASSUME NEW t, NEW O, Ask(t, O) PROVE ApiInv'
  BY <1>1 DEF Ask
<1>2. CASE LogEvent
  BY <1>2 DEF LogEvent
<1> QED
  BY <1>1, <1>2, MethodSteps

LEMMA BodyApi == ApiInv /\ Body => ApiInv'
<1> SUFFICES ASSUME ApiInv, Body PROVE ApiInv'
  OBVIOUS
<1> USE DEF ApiInv, CallInv, AsyncInv, ResultOf, End
<1>1. CASE ReturnBool \/ CoreAnswersNull
  BY <1>1 DEF ReturnBool, CoreAnswersNull
<1>2. CASE CoreAnswers
  BY <1>2 DEF CoreAnswers
<1>3. CASE CopyAndFree
  BY <1>3 DEF CopyAndFree, Freed
<1>4. CASE CopyFails
  BY <1>4 DEF CopyFails
<1>5. CASE Parse
  BY <1>5 DEF Parse
<1>6. CASE ReturnString \/ Return
  BY <1>6 DEF ReturnString, Return
<1> QED
  BY <1>1, <1>2, <1>3, <1>4, <1>5, <1>6 DEF Body

LEMMA AsyncApi ==
  ASSUME ApiInv, NEW a \in Completions, Async(a)
  PROVE  ApiInv'
<1> USE DEF ApiInv, CallInv, AsyncInv, Completion
<1>1. CASE Initialize(a) \/ Shutdown(a) \/ FlushEvents(a) \/ InitializeWithDetails(a)
  BY <1>1 DEF Initialize, Shutdown, FlushEvents, InitializeWithDetails, StartAsync,
     callVars
<1>2. CASE CoreCompletes(a)
  BY <1>2 DEF CoreCompletes, callVars
<1>3. CASE Complete(a)
  BY <1>3 DEF Complete, Freed, callVars
<1> QED
  BY <1>1, <1>2, <1>3 DEF Async

LEMMA ElseApi == ApiInv /\ (Destroy \/ UNCHANGED vars) => ApiInv'
  BY DEF ApiInv, CallInv, AsyncInv, Destroy, vars, callVars

LEMMA StepApi == ApiInv /\ [Next]_vars => ApiInv'
  BY MethodApi, BodyApi, AsyncApi, ElseApi DEF Next, AllDone

(* How far a call is determines what its string is, in every state.        *)
THEOREM ApiInvariance == Spec => []ApiInv
  BY InitApi, StepApi, PTL DEF Spec

(* No string of the core is freed twice, and only one whose text could not *)
(* be copied is forgotten.                                                 *)
THEOREM ResultsFreed == Spec => []ResultsFreedOnce
<1>1. ApiInv => ResultsFreedOnce
  BY DEF ApiInv, CallInv, AsyncInv, ResultOf, ResultsFreedOnce
<1> QED
  BY <1>1, ApiInvariance, PTL

-----------------------------------------------------------------------------
(* Why calls end as they do.                                               *)

LEMMA StepFailures == ApiInv /\ FailuresExplained /\ [Next]_vars => FailuresExplained'
<1> SUFFICES ASSUME ApiInv, FailuresExplained, [Next]_vars PROVE FailuresExplained'
  OBVIOUS
<1> USE DEF ApiInv, CallInv, ResultOf, FailuresExplained, End
<1>1. ASSUME NEW t, NEW O, Ask(t, O) PROVE FailuresExplained'
  BY <1>1 DEF Ask
<1>2. CASE LogEvent
  BY <1>2 DEF LogEvent
<1>3. CASE ReturnBool \/ CoreAnswersNull
  BY <1>3 DEF ReturnBool, CoreAnswersNull
<1>4. CASE CoreAnswers \/ CopyAndFree \/ CopyFails
  BY <1>4 DEF CoreAnswers, CopyAndFree, CopyFails
<1>5. CASE Parse
  BY <1>5 DEF Parse
<1>6. CASE ReturnString \/ Return
  BY <1>6 DEF ReturnString, Return
<1>7. ASSUME NEW a \in Completions, Async(a) PROVE FailuresExplained'
  BY <1>7 DEF Async, Initialize, Shutdown, FlushEvents, InitializeWithDetails,
     StartAsync, CoreCompletes, Complete, callVars
<1>8. CASE Destroy \/ UNCHANGED vars
  BY <1>8 DEF Destroy, vars, callVars
<1> QED
  BY <1>1, <1>2, <1>3, <1>4, <1>5, <1>6, <1>7, <1>8, MethodSteps DEF Next, Body, AllDone

(* A method throws only for options that cannot be written or an answer    *)
(* that cannot be read, and makes up an empty result only for no answer,   *)
(* or for a list that cannot be read.                                      *)
THEOREM FailuresHaveReasons == Spec => []FailuresExplained
<1>1. Init => FailuresExplained
  BY DEF Init, Idle, FailuresExplained
<1> QED
  BY <1>1, StepFailures, ApiInvariance, PTL DEF Spec

-----------------------------------------------------------------------------
(* Options.                                                                *)

LEMMA OptionTypes ==
  ASSUME NEW O \in {{NoOptions}, CheckGateOptions, GetExperimentOptions}, NEW o \in O,
         NEW k \in OptKeys
  PROVE  o[k] # "absent" /\ (o[k] = "nullopt" => k \notin Flags)
<1> USE DEF OptKeys, Flags, NoOptions
<1>1. CASE O = {NoOptions}
  BY <1>1
<1>2. CASE O = CheckGateOptions
  BY <1>2 DEF CheckGateOptions
<1>3. CASE O = GetExperimentOptions
  BY <1>3 DEF GetExperimentOptions
<1> QED
  BY <1>1, <1>2, <1>3

(* What is written of an option and completed by the core is the option.   *)
LEMMA OptionArrives ==
  ASSUME NEW o, NEW k \in OptKeys, o[k] \notin {"absent", "unset"},
         o[k] = "nullopt" => k \notin Flags, NEW d \in Serialized(o)
  PROVE  CoreOptions(d)[k] = IF o[k] # "none" THEN o[k]
                             ELSE IF k \in Flags THEN "false" ELSE "nullopt"
<1>1. d[k] = IF o[k] \in {"none", "nullopt"} THEN "absent" ELSE o[k]
  BY DEF Serialized
<1> QED
  BY <1>1 DEF CoreOptions

LEMMA StepOptions == OptionsReachCore /\ [Next]_vars => OptionsReachCore'
<1> SUFFICES ASSUME OptionsReachCore, [Next]_vars PROVE OptionsReachCore'
  OBVIOUS
<1> USE DEF OptionsReachCore, End
<1>1. ASSUME NEW t, NEW O \in {{NoOptions}, CheckGateOptions, GetExperimentOptions},
             Ask(t, O)
      PROVE  OptionsReachCore'
  <2>1. PICK o \in O :
          /\ asked' = o
          /\ \/ pc' = "done"
             \/ \E d \in Serialized(o) : told' = CoreOptions(d)
    BY <1>1 DEF Ask
  <2> QED
    BY <2>1, OptionTypes, OptionArrives
<1>2. CASE LogEvent
  BY <1>2 DEF LogEvent
<1>3. CASE ReturnBool \/ CoreAnswersNull
  BY <1>3 DEF ReturnBool, CoreAnswersNull
<1>4. CASE CoreAnswers \/ CopyAndFree \/ CopyFails
  BY <1>4 DEF CoreAnswers, CopyAndFree, CopyFails
<1>5. CASE Parse \/ ReturnString \/ Return
  BY <1>5 DEF Parse, ReturnString, Return
<1>6. ASSUME NEW a \in Completions, Async(a) PROVE OptionsReachCore'
  BY <1>6 DEF Async, Initialize, Shutdown, FlushEvents, InitializeWithDetails,
     StartAsync, CoreCompletes, Complete, callVars
<1>7. CASE Destroy \/ UNCHANGED vars
  BY <1>7 DEF Destroy, vars, callVars
<1> QED
  BY <1>1, <1>2, <1>3, <1>4, <1>5, <1>6, <1>7, MethodSteps DEF Next, Body, AllDone

(* The core evaluates under the options the application gave.              *)
THEOREM OptionsReach == Spec => []OptionsReachCore
<1>1. Init => OptionsReachCore
  BY DEF Init, Idle, OptionsReachCore
<1> QED
  BY <1>1, StepOptions, PTL DEF Spec

-----------------------------------------------------------------------------
(* The formats: what the core writes of a struct is what its reader finds, *)
(* and so is what to_json writes.                                          *)

LEMMA Spelled ==
  ASSUME NEW a, NEW b
  PROVE  /\ Len(<<a>>) = 1 /\ <<a>>[1] = a /\ DOMAIN <<a>> = {1}
         /\ Len(<<a, b>>) = 2 /\ <<a, b>>[1] = a /\ <<a, b>>[2] = b
         /\ DOMAIN <<a, b>> = {1, 2}
OBVIOUS

(* Fields that have a second spelling, and the first spelling of a field.  *)
Twice(t, f) == t = "Experiment" /\ f \in DOMAIN Camel
First(t, f) == IF t = "Layer" /\ f = "value" THEN "__value" ELSE f

LEMMA CamelKeys ==
  /\ DOMAIN Camel = {"rule_id", "id_type", "group_name", "is_experiment_active"}
  /\ \A f, g \in DOMAIN Camel : Camel[f] = Camel[g] => f = g
  /\ \A f \in DOMAIN Camel : Camel[f] \notin Fields("Experiment")
BY DEF Camel, Fields, Common

LEMMA FirstKeys ==
  ASSUME NEW t \in Types, NEW f \in Fields(t), NEW g \in Fields(t),
         First(t, f) = First(t, g)
  PROVE  f = g
BY DEF First, Types, Fields, Common

LEMMA SpellingsOf ==
  ASSUME NEW t, NEW f
  PROVE  /\ Spellings(t, f)[1] = First(t, f)
         /\ Twice(t, f) => Len(Spellings(t, f)) = 2 /\ Spellings(t, f)[2] = Camel[f]
         /\ ~Twice(t, f) => Len(Spellings(t, f)) = 1
         /\ 1 \in DOMAIN Spellings(t, f)
         /\ Twice(t, f) => 2 \in DOMAIN Spellings(t, f)
<1>1. CASE Twice(t, f)
  <2>1. Spellings(t, f) = <<f, Camel[f]>>
    BY <1>1 DEF Spellings, Twice
  <2> QED
    BY <1>1, <2>1, Spelled DEF First, Twice
<1>2. CASE ~Twice(t, f)
  <2>1. Spellings(t, f) = <<First(t, f)>>
    BY <1>2 DEF Spellings, Twice, First
  <2> QED
    BY <1>2, <2>1, Spelled
<1> QED
  BY <1>1, <1>2

LEMMA KeysOf ==
  ASSUME NEW t, NEW f \in Fields(t)
  PROVE  First(t, f) \in Keys(t) /\ (Twice(t, f) => Camel[f] \in Keys(t))
BY SpellingsOf DEF Keys

LEMMA FoundAt ==
  ASSUME NEW t, NEW f, NEW d
  PROVE  Found(t, f, d) =
           IF Twice(t, f) /\ d[First(t, f)] \in {"absent", "null"}
             THEN d[Camel[f]] ELSE d[First(t, f)]
BY SpellingsOf DEF Found

LEMMA KeyOfField ==
  ASSUME NEW t, NEW f, NEW style \in Styles(t)
  PROVE  KeyOf(t, style, f) =
           IF style = "camel" /\ Twice(t, f) THEN Camel[f] ELSE First(t, f)
BY SpellingsOf DEF KeyOf

(* No two fields of a type share a key in a style.                         *)
LEMMA KeysDiffer ==
  ASSUME NEW t \in Types, NEW style \in Styles(t), NEW f \in Fields(t),
         NEW g \in Fields(t), KeyOf(t, style, f) = KeyOf(t, style, g)
  PROVE  f = g
<1>1. CASE t # "Experiment"
  BY <1>1, KeyOfField, FirstKeys DEF Twice
<1>2. CASE t = "Experiment"
  <2>1. First(t, f) = f /\ First(t, g) = g
    BY <1>2 DEF First
  <2> QED
    BY <1>2, <2>1, KeyOfField, CamelKeys DEF Twice
<1> QED
  BY <1>1, <1>2

(* What the core writes of a field is found by its reader.                 *)
Said(t, style, nothing, s, f) ==
  IF s[f] = "default" /\ f \in Optional(t, style) THEN nothing ELSE s[f]

LEMMA WrittenAt ==
  ASSUME NEW t \in Types, NEW style \in Styles(t), NEW nothing, NEW s,
         NEW f \in Fields(t)
  PROVE  CoreWrites(t, style, nothing, s)[KeyOf(t, style, f)]
           = Said(t, style, nothing, s, f)
<1> DEFINE k == KeyOf(t, style, f)
           g == CHOOSE x \in Fields(t) : k = KeyOf(t, style, x)
<1>1. k \in Keys(t)
  BY KeyOfField, KeysOf
<1>2. g \in Fields(t) /\ k = KeyOf(t, style, g)
  OBVIOUS
<1>3. g = f
  BY <1>2, KeysDiffer
<1>4. CoreWrites(t, style, nothing, s)[k] =
        IF s[g] = "default" /\ g \in Optional(t, style) THEN nothing ELSE s[g]
  BY <1>1 DEF CoreWrites
<1> QED
  BY <1>3, <1>4 DEF Said

LEMMA NotWritten ==
  ASSUME NEW t \in Types, NEW style \in Styles(t), NEW nothing, NEW s,
         NEW k \in Keys(t), \A f \in Fields(t) : k # KeyOf(t, style, f)
  PROVE  CoreWrites(t, style, nothing, s)[k] = "absent"
BY DEF CoreWrites

(* If the core has nothing to say, the reader finds nothing too.           *)
LEMMA FoundAsSaid ==
  ASSUME NEW t \in Types, NEW style \in Styles(t), NEW nothing \in {"null", "absent"},
         NEW s, NEW f \in Fields(t), s[f] \notin {"null", "absent"}
  PROVE  LET found == Found(t, f, CoreWrites(t, style, nothing, s)) IN
         IF s[f] = "default" /\ f \in Optional(t, style)
           THEN found \in {"null", "absent"} ELSE found = s[f]
<1> DEFINE d == CoreWrites(t, style, nothing, s)
           said == Said(t, style, nothing, s, f)
<1>0. said = IF s[f] = "default" /\ f \in Optional(t, style) THEN nothing ELSE s[f]
  BY DEF Said
<1>1. d[KeyOf(t, style, f)] = said
  BY WrittenAt
<1>2. Found(t, f, d) = IF Twice(t, f) /\ d[First(t, f)] \in {"absent", "null"}
                         THEN d[Camel[f]] ELSE d[First(t, f)]
  BY FoundAt
<1>3. KeyOf(t, style, f) = IF style = "camel" /\ Twice(t, f) THEN Camel[f] ELSE First(t, f)
  BY KeyOfField
<1>4. ASSUME Twice(t, f), style = "camel" PROVE d[First(t, f)] = "absent"
  <2>1. First(t, f) = f /\ t = "Experiment"
    BY <1>4 DEF First, Twice
  <2>2. ASSUME NEW g \in Fields(t) PROVE f # KeyOf(t, style, g)
    BY <1>4, <2>1, KeyOfField, CamelKeys DEF Twice, First
  <2> QED
    BY <2>1, <2>2, NotWritten, KeysOf
<1>5. ASSUME Twice(t, f), style # "camel" PROVE d[Camel[f]] = "absent"
  <2>1. t = "Experiment"
    BY <1>5 DEF Twice
  <2>2. ASSUME NEW g \in Fields(t) PROVE Camel[f] # KeyOf(t, style, g)
    BY <1>5, <2>1, KeyOfField, CamelKeys DEF Twice, First
  <2> QED
    BY <1>5, <2>2, NotWritten, KeysOf
<1> HIDE DEF d, said
<1>6. IF s[f] = "default" /\ f \in Optional(t, style)
        THEN Found(t, f, d) \in {"null", "absent"} ELSE Found(t, f, d) = s[f]
  BY <1>0, <1>1, <1>2, <1>3, <1>4, <1>5
<1> QED
  BY <1>6 DEF d

(* What the core leaves out may be left out.                               *)
LEMMA OptionalTolerated ==
  ASSUME NEW t \in Types, NEW style \in Styles(t), NEW f \in Fields(t),
         f \in Optional(t, style)
  PROVE  /\ {"null", "absent"} \subseteq Tolerated[Policy(t, f)]
         /\ ~(t = "Layer" /\ f = "is_experiment_active")
BY DEF Types, Styles, Fields, Common, Optional, Policy, Tolerated

LEMMA ContentValues ==
  ASSUME NEW t, NEW s \in Contents(t), NEW f \in Fields(t)
  PROVE  s[f] \in Values(f)
BY DEF Contents, Values

LEMMA FieldNames ==
  \A t \in Types : \A f \in Fields(t) : {"null", "absent"} \cap Values(f) = {}
BY DEF Types, Fields, Common, Values

(* Every answer the core means to give is read as it was meant.            *)
LEMMA Understood ==
  ASSUME NEW t \in Types, NEW style \in Styles(t), NEW nothing \in {"null", "absent"},
         NEW s \in Contents(t)
  PROVE  LET d == CoreWrites(t, style, nothing, s) IN
         Accepts(t, d) /\ FromJson(t, d) = s
<1> DEFINE d == CoreWrites(t, style, nothing, s)
<1>1. ASSUME NEW f \in Fields(t)
      PROVE  /\ s[f] \in Values(f) /\ s[f] \notin {"null", "absent"}
             /\ IF s[f] = "default" /\ f \in Optional(t, style)
                  THEN Found(t, f, d) \in {"null", "absent"}
                  ELSE Found(t, f, d) = s[f]
  BY ContentValues, FieldNames, FoundAsSaid
<1> HIDE DEF d
<1>2. Accepts(t, d)
  BY <1>1, OptionalTolerated DEF Accepts
<1>3. ASSUME NEW f \in Fields(t) PROVE FromJson(t, d)[f] = s[f]
  <2>1. FromJson(t, d)[f] =
          IF Found(t, f, d) \in Values(f) THEN Found(t, f, d)
          ELSE IF t = "Layer" /\ f = "is_experiment_active" THEN "indeterminate"
          ELSE "default"
    BY DEF FromJson
  <2> QED
    BY <1>1, <2>1, FieldNames, OptionalTolerated
<1>4. s = [f \in Fields(t) |-> s[f]]
  BY DEF Contents
<1>5. FromJson(t, d) = [f \in Fields(t) |-> FromJson(t, d)[f]]
  BY DEF FromJson
<1>6. FromJson(t, d) = s
  BY <1>3, <1>4, <1>5
<1> QED
  BY <1>2, <1>6 DEF d


(* What to_json writes is found again; the second spellings never are.     *)
LEMMA FoundAsWritten ==
  ASSUME NEW t \in Writable, NEW s, NEW f \in Fields(t), s[f] \in Values(f)
  PROVE  Found(t, f, ToJson(t, s)) =
           IF f \notin Written(t) THEN "absent"
           ELSE IF f = "is_experiment_active" /\ s[f] = "default" THEN "null"
           ELSE IF s[f] = "details" THEN "untimed"
           ELSE s[f]
<1> DEFINE d == ToJson(t, s)
           w == IF f \notin Written(t) THEN "absent"
                ELSE IF f = "is_experiment_active" /\ s[f] = "default" THEN "null"
                ELSE IF s[f] = "details" THEN "untimed"
                ELSE s[f]
<1>1. t \in Types /\ First(t, f) = f /\ f \in Keys(t)
  BY KeysOf DEF Writable, First
<1>2. d[f] = w
  BY <1>1 DEF ToJson
<1>3. Twice(t, f) => d[Camel[f]] = "absent"
  <2>1. Twice(t, f) => Camel[f] \in Keys(t) /\ Camel[f] \notin Written(t)
    BY KeysOf DEF Twice, Camel, Written, Common
  <2> QED
    BY <2>1 DEF ToJson
<1>4. Twice(t, f) /\ w \in {"absent", "null"} => f \notin Written(t)
  BY <1>1, FieldNames DEF Twice, Written, Common
<1>5. Found(t, f, d) = IF Twice(t, f) /\ d[f] \in {"absent", "null"}
                         THEN d[Camel[f]] ELSE d[f]
  BY <1>1, FoundAt
<1> HIDE DEF d
<1>6. Found(t, f, d) = w
  BY <1>2, <1>3, <1>4, <1>5
<1> QED
  BY <1>6 DEF d

(* What an application writes with to_json it can read again.              *)
LEMMA WrittenReadable ==
  ASSUME NEW t \in Writable, NEW s, \A f \in Fields(t) : s[f] \in Values(f)
  PROVE  LET d == ToJson(t, s) IN
         /\ Accepts(t, d)
         /\ FromJson(t, d) = [f \in Fields(t) |->
              IF f \notin Written(t) THEN "default"
              ELSE IF s[f] = "details" THEN "untimed" ELSE s[f]]
<1> DEFINE d == ToJson(t, s)
           w(f) == IF f \notin Written(t) THEN "default"
                   ELSE IF s[f] = "details" THEN "untimed" ELSE s[f]
<1>1. ASSUME NEW f \in Fields(t)
      PROVE  Found(t, f, d) =
           IF f \notin Written(t) THEN "absent"
           ELSE IF f = "is_experiment_active" /\ s[f] = "default" THEN "null"
           ELSE IF s[f] = "details" THEN "untimed"
           ELSE s[f]
  BY FoundAsWritten
<1> HIDE DEF d
<1>2. ASSUME NEW f \in Fields(t)
      PROVE  /\ f \notin Written(t) => "absent" \in Tolerated[Policy(t, f)]
             /\ f = "is_experiment_active" => "null" \in Tolerated[Policy(t, f)]
             /\ s[f] = "details" => "untimed" \in Values(f)
             /\ t # "Layer" /\ t \in Types
  <2>1. t \in {"FeatureGate", "DynamicConfig", "Experiment", "ExperimentGroupsResult"}
    BY DEF Writable, Types
  <2>2. /\ f \notin Written(t) => "absent" \in Tolerated[Policy(t, f)]
        /\ f = "is_experiment_active" => "null" \in Tolerated[Policy(t, f)]
    BY <2>1 DEF Written, Fields, Common, Policy, Tolerated
  <2>3. s[f] = "details" => "untimed" \in Values(f)
    BY <2>1 DEF Fields, Common, Values
  <2> QED
    BY <2>1, <2>2, <2>3 DEF Types
<1>3. Accepts(t, d)
  BY <1>1, <1>2 DEF Accepts
<1>4. ASSUME NEW f \in Fields(t) PROVE FromJson(t, d)[f] = w(f)
  <2>1. FromJson(t, d)[f] = IF Found(t, f, d) \in Values(f) THEN Found(t, f, d)
                            ELSE "default"
    BY <1>2 DEF FromJson
  <2>2. {"null", "absent"} \cap Values(f) = {}
    BY <1>2, FieldNames
  <2> QED
    BY <1>1, <1>2, <2>1, <2>2
<1>5. FromJson(t, d) = [f \in Fields(t) |-> FromJson(t, d)[f]]
  BY DEF FromJson
<1>6. FromJson(t, d) = [f \in Fields(t) |-> w(f)]
  BY <1>4, <1>5
<1> QED
  BY <1>3, <1>6 DEF d


-----------------------------------------------------------------------------
(* Answers.  A text the core means to give is what it writes of some       *)
(* content, from the moment it is behind `result`; before that there is    *)
(* none.                                                                   *)

Meant(t, x) ==
  \E style \in Styles(t), nothing \in {"null", "absent"} :
    x.content \in Contents(t) /\ x.doc = CoreWrites(t, style, nothing, x.content)

TextInv ==
  /\ pc \in {"idle", "asked"} => text = NoText
  /\ text.expected => type \in Types /\ text.parses /\ Meant(type, text)

LEMMA NoTextYet == ~NoText.expected
  BY DEF NoText

LEMMA TextsMeant ==
  ASSUME NEW t, NEW x \in Texts(t), x.expected
  PROVE  x.parses /\ Meant(t, x)
  BY DEF Texts, NoText, Meant

LEMMA MeantUnderstood ==
  ASSUME NEW t \in Types, NEW x, Meant(t, x)
  PROVE  Accepts(t, x.doc) /\ FromJson(t, x.doc) = x.content
  BY Understood DEF Meant

LEMMA StepText ==
  TextInv /\ AnswersAsEvaluated /\ [Next]_vars => TextInv' /\ AnswersAsEvaluated'
<1> DEFINE Goal == TextInv' /\ AnswersAsEvaluated'
<1> SUFFICES ASSUME TextInv, AnswersAsEvaluated, [Next]_vars PROVE Goal
  OBVIOUS
<1> USE NoTextYet DEF TextInv, AnswersAsEvaluated, End
<1>1. ASSUME NEW t, NEW O, Ask(t, O) PROVE Goal
  BY <1>1 DEF Ask
<1>2. ASSUME LogEvent PROVE Goal
  BY <1>2 DEF LogEvent
<1>3. ASSUME ReturnBool \/ CoreAnswersNull PROVE Goal
  BY <1>3 DEF ReturnBool, CoreAnswersNull
<1>4. ASSUME CoreAnswers PROVE Goal
  <2>1. text' \in (IF type \in Types THEN Texts(type) ELSE {NoText})
        /\ pc' = "answered" /\ type' = type
    BY <1>4 DEF CoreAnswers
  <2>2. text'.expected => type \in Types /\ text'.parses /\ Meant(type, text')
    BY <2>1, TextsMeant
  <2> QED
    BY <2>1, <2>2
<1>5. ASSUME CopyAndFree \/ CopyFails PROVE Goal
  BY <1>5 DEF CopyAndFree, CopyFails
<1>6. ASSUME Parse PROVE Goal
  <2>1. text.expected => Accepts(type, text.doc) /\ FromJson(type, text.doc) = text.content
    BY MeantUnderstood
  <2> QED
    BY <1>6, <2>1 DEF Parse
<1>7. ASSUME ReturnString PROVE Goal
  BY <1>7 DEF ReturnString, Types
<1>8. ASSUME Return PROVE Goal
  BY <1>8 DEF Return
<1>9. ASSUME (\E a \in Completions : Async(a)) \/ Destroy \/ UNCHANGED vars PROVE Goal
  BY <1>9 DEF Async, Initialize, Shutdown, FlushEvents, InitializeWithDetails,
     StartAsync, CoreCompletes, Complete, Destroy, vars, callVars
<1> HIDE DEF Goal
<1> QED
  BY <1>1, <1>2, <1>3, <1>4, <1>5, <1>6, <1>7, <1>8, <1>9, MethodSteps
     DEF Next, Body, AllDone

(* An answer the core means to give reaches the application field by       *)
(* field: it is neither thrown away nor replaced by an empty one.          *)
THEOREM AnswersReach == Spec => []AnswersAsEvaluated
<1>1. Init => TextInv /\ AnswersAsEvaluated
  BY NoTextYet DEF Init, Idle, TextInv, AnswersAsEvaluated
<1> QED
  BY <1>1, StepText, PTL DEF Spec

-----------------------------------------------------------------------------
(* Writing a struct again.  All from_json makes of a field is a value of   *)
(* it, except the flag of a Layer, which has no to_json.                   *)

ValueInv ==
  answer = "value" =>
    /\ type \in Types
    /\ type # "Layer" => \A f \in Fields(type) : value[f] \in Values(f)

LEMMA ReadValues ==
  ASSUME NEW t \in Types \ {"Layer"}, NEW d, NEW f \in Fields(t)
  PROVE  FromJson(t, d)[f] \in Values(f)
<1>1. FromJson(t, d)[f] = IF Found(t, f, d) \in Values(f) THEN Found(t, f, d) ELSE "default"
  BY DEF FromJson
<1> QED
  BY <1>1 DEF Values

LEMMA StepValue == ApiInv /\ ValueInv /\ [Next]_vars => ValueInv'
<1> SUFFICES ASSUME ApiInv, ValueInv, [Next]_vars PROVE ValueInv'
  OBVIOUS
<1>0. pc # "done" => answer = "none"
  BY DEF ApiInv, CallInv
<1> USE <1>0 DEF ValueInv, End
<1>1. ASSUME NEW t, NEW O, Ask(t, O) PROVE ValueInv'
  BY <1>1 DEF Ask
<1>2. ASSUME LogEvent PROVE ValueInv'
  BY <1>2 DEF LogEvent
<1>3. ASSUME ReturnBool \/ CoreAnswersNull PROVE ValueInv'
  BY <1>3 DEF ReturnBool, CoreAnswersNull
<1>4. ASSUME CoreAnswers \/ CopyAndFree \/ CopyFails PROVE ValueInv'
  BY <1>4 DEF CoreAnswers, CopyAndFree, CopyFails
<1>5. ASSUME Parse PROVE ValueInv'
  BY <1>5, ReadValues DEF Parse
<1>6. ASSUME ReturnString \/ Return PROVE ValueInv'
  BY <1>6 DEF ReturnString, Return
<1>7. ASSUME (\E a \in Completions : Async(a)) \/ Destroy \/ UNCHANGED vars PROVE ValueInv'
  BY <1>7 DEF Async, Initialize, Shutdown, FlushEvents, InitializeWithDetails,
     StartAsync, CoreCompletes, Complete, Destroy, vars, callVars
<1> QED
  BY <1>1, <1>2, <1>3, <1>4, <1>5, <1>6, <1>7, MethodSteps DEF Next, Body, AllDone

(* What to_json writes of a struct a method returned is accepted by        *)
(* from_json, and loses the keys to_json leaves out and no other.          *)
THEOREM RereadsWhatItWrites == Spec => []Rereadable
<1>1. Init => ValueInv
  BY DEF Init, Idle, ValueInv
<1>2. ValueInv => Rereadable
  BY WrittenReadable DEF ValueInv, Rereadable, Writable
<1> QED
  BY <1>1, <1>2, StepValue, ApiInvariance, PTL DEF Spec

-----------------------------------------------------------------------------
(* Events.                                                                 *)

Plain(e) ==
  "special" \notin {e.eventName, e.metadata} \cup {e.value[i] : i \in DOMAIN e.value}

LEMMA EventShape ==
  ASSUME NEW e \in Events
  PROVE  /\ e = [eventName |-> e.eventName, value |-> e.value, metadata |-> e.metadata]
         /\ e.eventName \in EventTexts /\ e.metadata \in EventTexts \cup {"empty"}
         /\ \E n \in 0 .. MaxPairs : e.value \in [1 .. n -> EventTexts]
  BY DEF Events

LEMMA Length ==
  ASSUME NEW S, NEW n \in Nat, NEW v \in [1 .. n -> S]
  PROVE  Len(v) = n
<1>1. v \in Seq(S)
  BY SeqDef
<1>2. Len(v) \in Nat /\ DOMAIN v = 1 .. Len(v)
  BY <1>1, LenProperties
<1>3. 1 .. Len(v) = 1 .. n
  BY <1>2
<1> QED
  BY <1>2, <1>3

LEMMA Odd ==
  ASSUME NEW n \in Nat \ {0}
  PROVE  /\ 1 % 2 = 1
         /\ 2 * n - 1 \in Nat /\ ((2 * n - 1) + 1) \div 2 = n /\ 1 \in 1 .. 2 * n - 1
         /\ \A i \in 1 .. 2 * n - 1 : (i + 1) \div 2 \in 1 .. n
         /\ \A i \in 1 .. n : /\ 2 * i - 1 \in 1 .. 2 * n - 1 /\ (2 * i - 1) % 2 = 1
                              /\ ((2 * i - 1) + 1) \div 2 = i
OBVIOUS

(* What the core reads of the values in a text, and when it can.           *)
Entries(x) == IF x = <<"absent">> THEN <<>>
              ELSE [i \in 1 .. (Len(x) + 1) \div 2 |-> x[2 * i - 1]]

Separated(x) ==
  \A i \in DOMAIN x :
    IF i % 2 = 1 THEN x[i] \in {"plain", "absent"} ELSE x[i] = ","

(* The entries end up at the odd places, and a comma at each of the others. *)
Joined(n, v, w) ==
  /\ n \in Nat \ {0} /\ v \in [1 .. n -> {"plain"}]
  /\ w = [i \in 1 .. 2 * n - 1 |-> w[i]]
  /\ \A i \in 1 .. 2 * n - 1 :
       w[i] = IF i % 2 = 1 THEN v[(i + 1) \div 2] ELSE ","

LEMMA Commas ==
  ASSUME NEW n, NEW v, NEW w, Joined(n, v, w)
  PROVE  /\ Len(v) = n /\ v # <<>> /\ Separated(w) /\ Entries(w) = v
<1>0. /\ n \in Nat \ {0} /\ v \in [1 .. n -> {"plain"}]
      /\ w = [i \in 1 .. 2 * n - 1 |-> w[i]]
      /\ \A i \in 1 .. 2 * n - 1 :
           w[i] = IF i % 2 = 1 THEN v[(i + 1) \div 2] ELSE ","
  BY DEF Joined
<1>1. Len(v) = n
  BY <1>0, Length
<1>2. v # <<>>
  <2>1. Len(<<>>) = 0
    OBVIOUS
  <2> QED
    BY <1>0, <1>1, <2>1
<1>4. \A i \in 1 .. 2 * n - 1 : w[i] = IF i % 2 = 1 THEN "plain" ELSE ","
  <2>1. \A i \in 1 .. n : v[i] = "plain"
    BY <1>0
  <2> QED
    BY <1>0, <2>1, Odd
<1>5. w \in [1 .. 2 * n - 1 -> {"plain", ","}]
  BY <1>0, <1>4
<1>6. Len(w) = 2 * n - 1
  BY <1>0, <1>5, Length, Odd
<1>7. w # <<"absent">>
  <2>1. w[1] = "plain"
    BY <1>0, <1>4, Odd
  <2>2. <<"absent">>[1] = "absent"
    OBVIOUS
  <2> QED
    BY <2>1, <2>2
<1>8. \A i \in 1 .. n : w[2 * i - 1] = v[i]
  BY <1>0, Odd
<1>9. v = [i \in 1 .. n |-> w[2 * i - 1]]
  BY <1>0, <1>8
<1>10. (Len(w) + 1) \div 2 = n
  BY <1>0, <1>6, Odd
<1>11. DOMAIN w = 1 .. 2 * n - 1
  BY <1>5
<1>12. Separated(w)
  BY <1>4, <1>11 DEF Separated
<1>13. Entries(w) = v
  BY <1>7, <1>9, <1>10 DEF Entries
<1> QED
  BY <1>1, <1>2, <1>12, <1>13

(* The core reads the text of an event without special texts, and reads    *)
(* the event in it.                                                        *)
LEMMA EventRead ==
  ASSUME NEW e \in Events, Plain(e)
  PROVE  LET t == EventText(e) IN CoreParsesEvent(t) /\ CoreEvent(t) = e
<1> DEFINE t == EventText(e)
           w == [i \in 1 .. 2 * Len(e.value) - 1 |->
                   IF i % 2 = 1 THEN e.value[(i + 1) \div 2] ELSE ","]
           v == IF e.value = <<>> THEN <<"absent">> ELSE w
<1>1. t = [eventName |-> e.eventName, value |-> v,
           metadata |-> IF e.metadata = "empty" THEN "absent" ELSE e.metadata]
  BY DEF EventText
<1>2. e.eventName = "plain" /\ e.metadata \in {"plain", "empty"}
  BY EventShape DEF Plain, EventTexts
<1>3. Separated(v) /\ Entries(v) = e.value
  <2>1. PICK n \in Nat : e.value \in [1 .. n -> EventTexts]
    BY EventShape, ApiAssumption
  <2>2. CASE n = 0
    <3>1. e.value = <<>>
      BY <2>1, <2>2
    <3>2. v = <<"absent">>
      BY <3>1
    <3>3. DOMAIN <<"absent">> = {1} /\ <<"absent">>[1] = "absent" /\ 1 % 2 = 1
      OBVIOUS
    <3> QED
      BY <3>1, <3>2, <3>3 DEF Separated, Entries
  <2>3. CASE n # 0
    <3>1. e.value \in [1 .. n -> {"plain"}]
      BY <2>1 DEF Plain, EventTexts
    <3>2. Len(e.value) = n
      BY <2>1, Length
    <3>3. /\ w = [i \in 1 .. 2 * n - 1 |-> w[i]]
          /\ \A i \in 1 .. 2 * n - 1 :
               w[i] = IF i % 2 = 1 THEN e.value[(i + 1) \div 2] ELSE ","
      BY <3>2
    <3>4. Joined(n, e.value, w)
      BY <2>3, <3>1, <3>3 DEF Joined
    <3> HIDE DEF w
    <3>5. e.value # <<>> /\ Separated(w) /\ Entries(w) = e.value
      BY <3>4, Commas
    <3> QED
      BY <3>5
  <2> QED
    BY <2>2, <2>3
<1> HIDE DEF v
<1>4. /\ t.eventName = e.eventName /\ t.value = v
      /\ t.metadata = IF e.metadata = "empty" THEN "absent" ELSE e.metadata
  BY <1>1
<1>5. CoreEvent(t) = [eventName |-> t.eventName, value |-> Entries(t.value),
                      metadata |-> IF t.metadata = "absent" THEN "empty" ELSE t.metadata]
  BY DEF CoreEvent, Entries
<1> HIDE DEF t
<1>6. CoreParsesEvent(t)
  BY <1>2, <1>3, <1>4 DEF CoreParsesEvent, Separated
<1>7. CoreEvent(t) = e
  BY <1>2, <1>3, <1>4, <1>5, EventShape
<1> QED
  BY <1>6, <1>7 DEF t

LEMMA StepEvents == EventsArrive /\ [Next]_vars => EventsArrive'
<1> SUFFICES ASSUME EventsArrive, [Next]_vars PROVE EventsArrive'
  OBVIOUS
<1> USE DEF EventsArrive, End
<1>1. ASSUME NEW t \in {"FeatureGate", "DynamicConfig", "Experiment", "Layer", "bool",
                        "ExperimentGroupsResult", "List", "string"},
             NEW O, Ask(t, O)
      PROVE  EventsArrive'
  BY <1>1 DEF Ask
<1>2. ASSUME LogEvent PROVE EventsArrive'
  <2>1. PICK e \in Events :
          /\ asked' = e
          /\ told' = IF CoreParsesEvent(EventText(e)) THEN {CoreEvent(EventText(e))} ELSE {}
    BY <1>2 DEF LogEvent
  <2> QED
    BY <2>1, EventRead DEF Plain
<1>3. ASSUME ReturnBool \/ CoreAnswersNull PROVE EventsArrive'
  BY <1>3 DEF ReturnBool, CoreAnswersNull
<1>4. ASSUME CoreAnswers \/ CopyAndFree \/ CopyFails PROVE EventsArrive'
  BY <1>4 DEF CoreAnswers, CopyAndFree, CopyFails
<1>5. ASSUME Parse \/ ReturnString \/ Return PROVE EventsArrive'
  BY <1>5 DEF Parse, ReturnString, Return
<1>6. ASSUME (\E a \in Completions : Async(a)) \/ Destroy \/ UNCHANGED vars
      PROVE  EventsArrive'
  BY <1>6 DEF Async, Initialize, Shutdown, FlushEvents, InitializeWithDetails,
     StartAsync, CoreCompletes, Complete, Destroy, vars, callVars
<1> QED
  BY <1>1, <1>2, <1>3, <1>4, <1>5, <1>6, MethodSteps DEF Next, Body, AllDone

(* An event without texts that need escapes is logged as it was given,     *)
(* whatever number of values it has.                                       *)
THEOREM EventsLogged == Spec => []EventsArrive
<1>1. Init => EventsArrive
  BY DEF Init, Idle, EventsArrive
<1> QED
  BY <1>1, StepEvents, PTL DEF Spec

=============================================================================
