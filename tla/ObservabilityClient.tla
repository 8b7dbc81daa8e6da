------------------------- MODULE ObservabilityClient ------------------------
(***************************************************************************)
(* observability_client.cpp: the dispatch functions the native core calls  *)
(* through the trampolines of a slot, on top of the slot pool.             *)
(*                                                                         *)
(* A call carries a kind (which trampoline), and for every kind but "init" *)
(* a buffer allocated by the core whose ownership passes to the dispatch   *)
(* function.  What the buffer says is abstracted to whether the JSON the   *)
(* dispatcher expects can be parsed from it.                               *)
(***************************************************************************)
EXTENDS SlotPool

CONSTANTS
  CallKinds,    \* the trampolines the core calls in this instance
  CallbackSets  \* the sets of callbacks an application may provide

MetricKinds == {"increment", "gauge", "dist"}
Kinds       == {"init", "error", "should_enable"} \cup MetricKinds

ASSUME ObservabilityAssumption ==
  CallKinds \subseteq Kinds /\ CallbackSets \subseteq SUBSET Kinds

VARIABLES
  given,    \* the callbacks that are set in each client's struct
  kind,     \* the trampoline each call entered
  args,     \* args_ptr: nullptr, still allocated, or what became of it
  payload,  \* can the text behind args_ptr be parsed?
  text,     \* the local copy (`raw`, `tag`) once consume_args made it
  outcome   \* how the dispatch ended

dispatchVars == <<kind, args, payload, text, outcome>>
vars == <<poolVars, given, dispatchVars>>

Texts    == {"unread", "wellformed", "malformed"}
Args     == {"null", "allocated", "freed", "freed_twice"}
Outcomes == {"none", "dropped", "rejected", "delivered", "threw", "escaped"}

TypeOK ==
  /\ PoolTypeOK
  /\ given \in [Clients -> SUBSET Kinds]
  /\ kind \in [Calls -> Kinds]
  /\ args \in [Calls -> Args]
  /\ payload \in [Calls -> Texts \ {"unread"}]
  /\ text \in [Calls -> Texts]
  /\ outcome \in [Calls -> Outcomes]

Init ==
  /\ PoolInit
  /\ given = [c \in Clients |-> {}]
  /\ kind = [k \in Calls |-> "init"]
  /\ args = [k \in Calls |-> "null"]
  /\ payload = [k \in Calls |-> "malformed"]
  /\ text = [k \in Calls |-> "unread"]
  /\ outcome = [k \in Calls |-> "none"]

-----------------------------------------------------------------------------
(* The object: the pool's constructor and destructor.  The callbacks are   *)
(* fixed when the constructor moves them into the shared struct.           *)

Construct_(c) ==
  /\ Construct(c)
  /\ IF phase[c] = "unborn"
       THEN \E fs \in CallbackSets : given' = [given EXCEPT ![c] = fs]
       ELSE UNCHANGED given
  /\ UNCHANGED dispatchVars

Lifecycle(c) ==
  \/ Construct_(c)
  \/ /\ Attach(c) \/ Detach(c) \/ Destroy(c)
     /\ UNCHANGED <<given, dispatchVars>>

-----------------------------------------------------------------------------
(* The core calls a trampoline of c.                                       *)

Trampoline(k, c) ==
  /\ Enter(k, c)
  /\ \E d \in CallKinds, a \in {"null", "allocated"},
        p \in Texts \ {"unread"} :
       /\ d = "init" => a = "null"
       /\ a = "null" => p = "malformed"
       /\ kind' = [kind EXCEPT ![k] = d]
       /\ args' = [args EXCEPT ![k] = a]
       /\ payload' = [payload EXCEPT ![k] = p]
  /\ UNCHANGED <<given, text, outcome>>

(* Taking the lock and copying the shared_ptr.                             *)
FetchCallbacks(k) ==
  /\ LockForLoad(k) \/ LoadCallbacks(k)
  /\ UNCHANGED <<given, dispatchVars>>

Finish(k, how) ==
  /\ Return(k)
  /\ outcome' = [outcome EXCEPT ![k] = how]

(* Mutant: the nullptr test is missing.                                    *)
Freed_NoNullTest(a) ==
  IF a = "null" THEN "freed_null" ELSE IF a = "allocated" THEN "freed" ELSE "freed_twice"

(* free_args: nothing for nullptr, otherwise the buffer goes back.         *)
Freed(a) ==
  IF a = "null" THEN "null" ELSE IF a = "allocated" THEN "freed" ELSE "freed_twice"

FreeArgs(k) == args' = [args EXCEPT ![k] = Freed(@)]

(* The callback the call is for, in the struct that was found.             *)
IsSet(k) == cbs[k] # None /\ kind[k] \in given[cbs[k]]

(* Mutant: the early return forgets the buffer.                            *)
DropUnset_NoFree(k) ==
  /\ pc[k] = "loaded" /\ text[k] = "unread"
  /\ ~IsSet(k)
  /\ Finish(k, "dropped")
  /\ UNCHANGED <<given, kind, args, payload, text>>

(* No callbacks in the slot any more, or this one is unset.                *)
DropUnset(k) ==
  /\ pc[k] = "loaded" /\ text[k] = "unread"
  /\ ~IsSet(k)
  /\ FreeArgs(k)
  /\ Finish(k, "dropped")
  /\ UNCHANGED <<given, kind, payload, text>>

(* consume_args copies the text and frees the buffer.                      *)
ConsumeArgs(k) ==
  /\ pc[k] = "loaded" /\ text[k] = "unread"
  /\ IsSet(k)
  /\ text' = [text EXCEPT ![k] = payload[k]]
  /\ FreeArgs(k)
  /\ UNCHANGED <<poolVars, given, kind, payload, outcome>>

(* The copy may fail to allocate.  consume_args is called before the try   *)
(* block, so std::bad_alloc leaves the dispatch function.                  *)
ConsumeFails(k) ==
  /\ pc[k] = "loaded" /\ text[k] = "unread"
  /\ IsSet(k)
  /\ args[k] = "allocated"
  /\ Finish(k, "escaped")
  /\ UNCHANGED <<given, kind, args, payload, text>>

(* json::parse, or reading a field of the wrong type, throws inside it.    *)
ParseFails(k) ==
  /\ pc[k] = "loaded" /\ text[k] = "malformed"
  /\ Finish(k, "rejected")
  /\ UNCHANGED <<given, kind, args, payload, text>>

InvokeParsed(k) ==
  /\ text[k] = "wellformed"
  /\ Invoke(k)
  /\ UNCHANGED <<given, dispatchVars>>

(* The callback returns, or throws and the exception is swallowed.         *)
CallbackEnds(k) ==
  /\ pc[k] = "running"
  /\ \E how \in {"delivered", "threw"} : Finish(k, how)
  /\ UNCHANGED <<given, kind, args, payload, text>>

DispatchInit(k) ==
  /\ kind[k] = "init"
  /\ \/ DropUnset(k)
     \/ IsSet(k) /\ Invoke(k) /\ UNCHANGED <<given, dispatchVars>>
     \/ CallbackEnds(k)

DispatchMetric(k) ==
  /\ kind[k] \in MetricKinds
  /\ \/ DropUnset(k)
     \/ ConsumeArgs(k)
     \/ ConsumeFails(k)
     \/ ParseFails(k)
     \/ InvokeParsed(k)
     \/ CallbackEnds(k)

DispatchError(k) ==
  /\ kind[k] = "error"
  /\ \/ DropUnset(k)
     \/ ConsumeArgs(k)
     \/ ConsumeFails(k)
     \/ ParseFails(k)
     \/ InvokeParsed(k)
     \/ CallbackEnds(k)

(* Mutant: the tag is parsed as JSON like the other payloads.              *)
DispatchShouldEnable_Parsed(k) ==
  /\ kind[k] = "should_enable"
  /\ \/ DropUnset(k)
     \/ ConsumeArgs(k)
     \/ ConsumeFails(k)
     \/ ParseFails(k)
     \/ InvokeParsed(k)
     \/ CallbackEnds(k)

(* The tag is passed raw and never parsed.  The core is told false unless  *)
(* the callback itself returned an answer.                                 *)
DispatchShouldEnable(k) ==
  /\ kind[k] = "should_enable"
  /\ \/ DropUnset(k)
     \/ ConsumeArgs(k)
     \/ ConsumeFails(k)
     \/ /\ text[k] # "unread"
        /\ Invoke(k)
        /\ UNCHANGED <<given, dispatchVars>>
     \/ CallbackEnds(k)

Dispatch(k) ==
  \/ FetchCallbacks(k)
  \/ DispatchInit(k)
  \/ DispatchMetric(k)
  \/ DispatchError(k)
  \/ DispatchShouldEnable(k)

-----------------------------------------------------------------------------
Next ==
  \/ \E c \in Clients : Lifecycle(c)
  \/ \E k \in Calls, c \in Clients : Trampoline(k, c)
  \/ \E k \in Calls : Dispatch(k)
  \/ Settled /\ UNCHANGED vars

Spec == Init /\ [][Next]_vars

-----------------------------------------------------------------------------
(* The buffer of a call is never freed twice, and once the call is back in *)
(* the core it has been freed, on every early return, rejection and        *)
(* swallowed exception, unless the dispatch itself was unwound.            *)
ArgsFreedOnce ==
  \A k \in Calls :
    /\ args[k] # "freed_twice"
    /\ pc[k] = "returned" /\ outcome[k] # "escaped"
         => args[k] \in {"null", "freed"}

(* A call ends without reaching a callback only for a reason the object's  *)
(* owner can know: the callback was not provided, the object had given its *)
(* slot back, or the core sent text that cannot be parsed.                 *)
NoSilentLoss ==
  \A k \in Calls :
    /\ outcome[k] = "dropped"
         => \/ kind[k] \notin given[origin[k]]
            \/ phase[origin[k]] \in {"cleared", "dead"}
    /\ outcome[k] = "rejected"
         => kind[k] \in MetricKinds \cup {"error"} /\ payload[k] = "malformed"

(* "Every dispatch_* guard swallows all exceptions ... unwinding across    *)
(* the FFI boundary is undefined behavior" (observability_client.cpp:88).  *)
NothingEscapes == \A k \in Calls : outcome[k] # "escaped"

=============================================================================
