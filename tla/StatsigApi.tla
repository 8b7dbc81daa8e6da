----------------------------- MODULE StatsigApi -----------------------------
(***************************************************************************)
(* statsig.cpp: what the methods of a Statsig object hand to the core,     *)
(* what they make of its answer, and who frees the string it comes in.     *)
(*                                                                         *)
(* Calls of several threads share nothing in this code but the ref, so one *)
(* call at a time is modelled, and with it the completions of asynchronous *)
(* calls, which run at any later time, also after the object is gone.      *)
(***************************************************************************)
EXTENDS ResultFormat

CONSTANTS
  Completions, \* asynchronous calls
  MaxPairs     \* bound: entries in the value of an event

ASSUME ApiAssumption == MaxPairs \in Nat

VARIABLES
  alive,   \* has the object not been destroyed yet?
  pc,      \* where the call in progress is
  type,    \* the type it returns
  asked,   \* the options or the event the application gave
  told,    \* the options it evaluates with, or the events it logged
  text,    \* what the core answered
  result,  \* `result`: nullptr, still allocated, or what became of it
  answer,  \* how the call ended
  value,   \* the struct it returned, if any
  async    \* how far each asynchronous call and its string are

callVars == <<pc, type, asked, told, text, result, answer, value>>
vars == <<alive, callVars, async>>

-----------------------------------------------------------------------------
(* Options.  "unset" is a member without an initializer that was not       *)
(* assigned; "none" a member the struct does not have, or no struct.       *)

Flags    == {"disable_exposure_logging", "enforce_overrides", "enforce_targeting"}
OptKeys  == Flags \cup {"user_persisted_values"}
NoOptions == [k \in OptKeys |-> "none"]

CheckGateOptions ==
  {NoOptions} \cup
  {[NoOptions EXCEPT !["disable_exposure_logging"] = x] : x \in {"true", "false", "unset"}}

GetDynamicConfigOptions == CheckGateOptions

GetExperimentOptions ==
  {NoOptions} \cup
  {[k \in OptKeys |-> IF k \in Flags THEN flags[k] ELSE values] :
     flags \in [Flags -> {"true", "false"}],
     values \in {"nullopt", "empty", "some", "not_utf8"}}

GetLayerOptions == GetExperimentOptions

(* Mutant: no persisted values are written as an empty map.                *)
Serialized_EmptyMap(o) ==
  {[k \in OptKeys |-> IF o[k] = "unset" THEN memory
                     ELSE IF o[k] = "none" THEN "absent"
                     ELSE IF o[k] = "nullopt" THEN "empty"
                     ELSE o[k]] : memory \in {"true", "false"}}

(* The texts to_json and dump may make of them: a flag nobody assigned has *)
(* either value, and persisted values are written only if there are any.   *)
Serialized(o) ==
  {[k \in OptKeys |-> IF o[k] = "unset" THEN memory
                     ELSE IF o[k] \in {"none", "nullopt"} THEN "absent"
                     ELSE o[k]] : memory \in {"true", "false"}}

(* The core's defaults for keys it does not find (external).               *)
CoreOptions(d) ==
  [k \in OptKeys |-> IF d[k] # "absent" THEN d[k]
                     ELSE IF k \in Flags THEN "false" ELSE "nullopt"]

-----------------------------------------------------------------------------
(* Events.  A text is "plain", or it needs escapes in JSON.                *)

EventTexts == {"plain", "special"}

Events ==
  [eventName : EventTexts,
   value     : UNION {[1 .. n -> EventTexts] : n \in 0 .. MaxPairs},
   metadata  : EventTexts \cup {"empty"}]

(* Mutant: `first` is never reset.                                         *)
EventText_NoComma(e) ==
  [eventName |-> e.eventName,
   value     |-> IF e.value = <<>> THEN <<"absent">> ELSE e.value,
   metadata  |-> IF e.metadata = "empty" THEN "absent" ELSE e.metadata]

(* The text logEvent puts together: entries with commas between them, keys *)
(* without a value left out, and nothing escaped.                          *)
EventText(e) ==
  [eventName |-> e.eventName,
   value     |-> IF e.value = <<>> THEN <<"absent">>
                 ELSE [i \in 1 .. 2 * Len(e.value) - 1 |->
                         IF i % 2 = 1 THEN e.value[(i + 1) \div 2] ELSE ","],
   metadata  |-> IF e.metadata = "empty" THEN "absent" ELSE e.metadata]

(* The core's parser (external).                                           *)
CoreParsesEvent(t) ==
  /\ "special" \notin {t.eventName, t.metadata}
  /\ \A i \in DOMAIN t.value :
       IF i % 2 = 1 THEN t.value[i] \in {"plain", "absent"} ELSE t.value[i] = ","

CoreEvent(t) ==
  [eventName |-> t.eventName,
   value     |-> IF t.value = <<"absent">> THEN <<>>
                 ELSE [i \in 1 .. (Len(t.value) + 1) \div 2 |-> t.value[2 * i - 1]],
   metadata  |-> IF t.metadata = "absent" THEN "empty" ELSE t.metadata]

-----------------------------------------------------------------------------
NoText == [parses |-> FALSE, expected |-> FALSE, doc |-> <<>>, content |-> <<>>]

(* What may be behind `result`: an answer the core means to give, one      *)
(* nobody expects, or no JSON at all.                                      *)
Texts(t) ==
  {NoText}
  \cup {[parses |-> TRUE, expected |-> FALSE, doc |-> d, content |-> <<>>] :
          d \in Unexpected(t)}
  \cup {[parses |-> TRUE, expected |-> TRUE,
         doc |-> CoreWrites(t, style, nothing, s), content |-> s] :
          style \in Styles(t), nothing \in {"null", "absent"}, s \in Contents(t)}

Results == {"null", "allocated", "freed", "freed_twice"}
Freed(r) == IF r = "allocated" THEN "freed" ELSE "freed_twice"

Idle == /\ pc = "idle" /\ type = "none" /\ asked = "none" /\ told = "none"
        /\ text = NoText /\ result = "null" /\ answer = "none" /\ value = <<>>

Init ==
  /\ alive = TRUE
  /\ Idle
  /\ async = [a \in Completions |-> [owed |-> "nothing", string |-> "null"]]

(* A method is called, its options become text, and the core is asked.     *)
(* Persisted values that are not UTF-8 make dump throw before that.        *)
Ask(t, options) ==
  /\ alive /\ pc = "idle"
  /\ \E o \in options :
       /\ type' = t
       /\ asked' = o
       /\ IF "not_utf8" \in {o[k] : k \in OptKeys}
            THEN pc' = "done" /\ answer' = "threw" /\ UNCHANGED told
            ELSE /\ pc' = "asked" /\ UNCHANGED answer
                 /\ \E d \in Serialized(o) : told' = CoreOptions(d)
  /\ UNCHANGED <<alive, text, result, value, async>>

GetFeatureGate   == Ask("FeatureGate", CheckGateOptions)
GetDynamicConfig == Ask("DynamicConfig", GetDynamicConfigOptions)
GetExperiment    == Ask("Experiment", GetExperimentOptions)
GetLayer         == Ask("Layer", GetLayerOptions)
CheckGate        == Ask("bool", CheckGateOptions)

GetExperimentByGroupName       == Ask("Experiment", {NoOptions})
GetExperimentByGroupIdAdvanced == Ask("Experiment", {NoOptions})
GetExperimentGroups            == Ask("ExperimentGroupsResult", {NoOptions})

GetFeatureGateList   == Ask("List", {NoOptions})
GetDynamicConfigList == Ask("List", {NoOptions})
GetExperimentList    == Ask("List", {NoOptions})
GetAutotuneList      == Ask("List", {NoOptions})
GetLayerList         == Ask("List", {NoOptions})

InitializeWithDetailsBlocking == Ask("string", {NoOptions})

LogEvent ==
  /\ alive /\ pc = "idle"
  /\ \E e \in Events :
       LET t == EventText(e) IN
       /\ asked' = e
       /\ told' = IF CoreParsesEvent(t) THEN {CoreEvent(t)} ELSE {}
  /\ pc' = "done" /\ type' = "void" /\ answer' = "plain"
  /\ UNCHANGED <<alive, text, result, value, async>>

-----------------------------------------------------------------------------
End(how) == pc' = "done" /\ answer' = how

(* checkGate has no string: it returns what the core says.                 *)
ReturnBool ==
  /\ pc = "asked" /\ type = "bool"
  /\ End("plain")
  /\ UNCHANGED <<alive, type, asked, told, text, result, value, async>>

(* The core answers with nullptr: an empty struct, list or string.         *)
CoreAnswersNull ==
  /\ pc = "asked" /\ type # "bool"
  /\ End("default")
  /\ UNCHANGED <<alive, type, asked, told, text, result, value, async>>

CoreAnswers ==
  /\ pc = "asked" /\ type # "bool"
  /\ pc' = "answered"
  /\ result' = "allocated"
  /\ text' \in IF type \in Types THEN Texts(type) ELSE {NoText}
  /\ UNCHANGED <<alive, type, asked, told, answer, value, async>>

(* Mutant: the string is parsed first and freed afterwards.                *)
CopyAndFree_AfterParse ==
  /\ pc = "answered"
  /\ pc' = "copied"
  /\ result' = IF type \in Types /\ (text.parses => ~Accepts(type, text.doc))
                 THEN result ELSE Freed(result)
  /\ UNCHANGED <<alive, type, asked, told, text, answer, value, async>>

(* The text is copied into a std::string and the core's string freed.      *)
CopyAndFree ==
  /\ pc = "answered"
  /\ pc' = "copied"
  /\ result' = Freed(result)
  /\ UNCHANGED <<alive, type, asked, told, text, answer, value, async>>

CopyFails ==
  /\ pc = "answered"
  /\ End("out_of_memory")
  /\ UNCHANGED <<alive, type, asked, told, text, result, value, async>>

(* The lists and the groups catch exceptions and fall back.                *)
Catches(t) == t \in {"List", "ExperimentGroupsResult"}

(* Mutant: the shape is checked outside the try block.                     *)
Parse_TryParseOnly ==
  /\ pc = "copied" /\ type \in Types
  /\ IF text.parses /\ Accepts(type, text.doc)
       THEN End("value") /\ value' = FromJson(type, text.doc)
       ELSE /\ End(IF Catches(type) /\ ~text.parses THEN "default" ELSE "threw")
            /\ UNCHANGED value
  /\ UNCHANGED <<alive, type, asked, told, text, result, async>>

(* json::parse and from_json, in the constructor of the struct.            *)
Parse ==
  /\ pc = "copied" /\ type \in Types
  /\ IF text.parses /\ Accepts(type, text.doc)
       THEN End("value") /\ value' = FromJson(type, text.doc)
       ELSE End(IF Catches(type) THEN "default" ELSE "threw") /\ UNCHANGED value
  /\ UNCHANGED <<alive, type, asked, told, text, result, async>>

(* The details of an initialization are returned as they are.              *)
ReturnString ==
  /\ pc = "copied" /\ type = "string"
  /\ End("plain")
  /\ UNCHANGED <<alive, type, asked, told, text, result, value, async>>

Return ==
  /\ pc = "done"
  /\ pc' = "idle" /\ type' = "none" /\ asked' = "none" /\ told' = "none"
  /\ text' = NoText /\ result' = "null" /\ answer' = "none" /\ value' = <<>>
  /\ UNCHANGED <<alive, async>>

-----------------------------------------------------------------------------
(* initialize, shutdown and flushEvents owe a plain completion,            *)
(* initializeWithDetails one with a string.  Each returns at once.         *)
StartAsync(a, owes) ==
  /\ alive /\ pc = "idle"
  /\ async[a].owed = "nothing"
  /\ async' = [async EXCEPT ![a].owed = owes]
  /\ UNCHANGED <<alive, callVars>>

Initialize(a)            == StartAsync(a, "plain")
Shutdown(a)              == StartAsync(a, "plain")
FlushEvents(a)           == StartAsync(a, "plain")
InitializeWithDetails(a) == StartAsync(a, "string")

(* The core calls the lambda it was given, on a thread of its own.         *)
CoreCompletes(a) ==
  /\ async[a].owed \in {"plain", "string"}
  /\ \E s \in {"null"} \cup (IF async[a].owed = "string" THEN {"allocated"} ELSE {}) :
       async' = [async EXCEPT ![a] = [owed |-> "called", string |-> s]]
  /\ UNCHANGED <<alive, callVars>>

(* The lambda has nothing of the call or the object to turn to; it frees   *)
(* the string if there is one, and ends.                                   *)
Complete(a) ==
  /\ async[a].owed = "called"
  /\ async' = [async EXCEPT ![a] =
                 [owed |-> "done", string |-> IF @.string = "null" THEN "null"
                                              ELSE Freed(@.string)]]
  /\ UNCHANGED <<alive, callVars>>

(* The object is destroyed between two calls; completions may be owed.     *)
Destroy ==
  /\ alive /\ pc = "idle"
  /\ alive' = FALSE
  /\ UNCHANGED <<callVars, async>>

-----------------------------------------------------------------------------
Method ==
  \/ GetFeatureGate \/ GetDynamicConfig \/ GetExperiment \/ GetLayer \/ CheckGate
  \/ GetExperimentByGroupName \/ GetExperimentByGroupIdAdvanced
  \/ GetExperimentGroups \/ GetFeatureGateList \/ GetDynamicConfigList
  \/ GetExperimentList \/ GetAutotuneList \/ GetLayerList
  \/ InitializeWithDetailsBlocking \/ LogEvent

Body ==
  \/ ReturnBool \/ CoreAnswersNull \/ CoreAnswers \/ CopyAndFree \/ CopyFails
  \/ Parse \/ ReturnString \/ Return

Async(a) ==
  \/ Initialize(a) \/ Shutdown(a) \/ FlushEvents(a)
  \/ InitializeWithDetails(a) \/ CoreCompletes(a) \/ Complete(a)

AllDone ==
  /\ ~alive
  /\ \A a \in Completions : async[a].owed \in {"nothing", "done"}
  /\ UNCHANGED vars

Next == Method \/ Body \/ (\E a \in Completions : Async(a)) \/ Destroy \/ AllDone

Spec == Init /\ [][Next]_vars

-----------------------------------------------------------------------------
(* Each string of the core is freed exactly once: on every path of a call, *)
(* the throwing ones included, unless copying it failed, and by every      *)
(* completion, also of an object that is gone.                             *)
ResultsFreedOnce ==
  /\ result # "freed_twice"
  /\ pc = "done" /\ answer # "out_of_memory" => result # "allocated"
  /\ \A a \in Completions :
       /\ async[a].string # "freed_twice"
       /\ async[a].owed = "done" => async[a].string # "allocated"

(* An answer of the core reaches the application field by field, whichever *)
(* key style it is written in and whichever keys it leaves out; none is    *)
(* thrown away or replaced by an empty one.                                *)
AnswersAsEvaluated ==
  pc = "done" /\ text.expected /\ answer # "out_of_memory" =>
    answer = "value" /\ value = text.content

(* A method throws only for options that are not UTF-8 or an answer it     *)
(* cannot read; methods that return lists never do for an answer.  An      *)
(* empty result means that the core had none, or a list was not readable.  *)
FailuresExplained ==
  /\ answer = "threw" =>
       \/ \E k \in OptKeys : asked[k] = "not_utf8"
       \/ ~Catches(type) /\ (text.parses => ~Accepts(type, text.doc))
  /\ answer = "default" =>
       \/ result = "null"
       \/ Catches(type) /\ (text.parses => ~Accepts(type, text.doc))

(* What the application writes with to_json it can read again, and all     *)
(* that is lost are the keys to_json does not write and the time at which  *)
(* the core received its configuration.                                    *)
Rereadable ==
  answer = "value" /\ type \in Writable =>
    LET d == ToJson(type, value) IN
    /\ Accepts(type, d)
    /\ FromJson(type, d) = [f \in Fields(type) |->
         IF f \notin Written(type) THEN "default"
         ELSE IF value[f] = "details" THEN "untimed" ELSE value[f]]

(* The core evaluates under the options the application gave: a flag is    *)
(* what it was set to, or false if no options were given, and "nullopt     *)
(* means the caller has no persisted values ... pass an empty map for a    *)
(* user with nothing stored" (options.h:184) are told apart.               *)
OptionsReachCore ==
  pc \in {"asked", "answered", "copied"} =>
    \A k \in OptKeys :
      asked[k] # "unset" =>
        told[k] = IF asked[k] # "none" THEN asked[k]
                  ELSE IF k \in Flags THEN "false" ELSE "nullopt"

(* An event whose texts need no escapes is logged as it was given, with    *)
(* any number of values and with or without metadata.                      *)
EventsArrive ==
  type = "void" =>
    \/ told = {asked}
    \/ "special" \in {asked.eventName, asked.metadata}
         \cup {asked.value[i] : i \in DOMAIN asked.value}

=============================================================================
