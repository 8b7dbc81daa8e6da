-------------------------- MODULE PersistentStorage -------------------------
(***************************************************************************)
(* persistent_storage.cpp: load, save and delete_value as the native core  *)
(* calls them, on top of this file's own slot pool.                        *)
(*                                                                         *)
(* Calls run on native threads and nest: a user callback may evaluate a    *)
(* config itself, and the core then calls the storage again on the same    *)
(* thread.  A load answers with a pointer into a thread_local string that  *)
(* the core copies as soon as the call is back.                            *)
(*                                                                         *)
(* The text of a call is abstracted to what the dispatchers tell apart:    *)
(* nothing, text without the fields they check, text whose "data" does not *)
(* convert to StickyValues, and text they accept.  A stored value is named *)
(* by the load that serialized it.                                         *)
(***************************************************************************)
EXTENDS SlotPool, SequencesExt

CONSTANTS
  Threads,      \* native threads
  CallKinds,    \* the trampolines the core calls in this instance
  CallbackSets  \* the sets of callbacks an application may provide

Kinds == {"load", "save", "delete"}

ASSUME StorageAssumption ==
  /\ CallKinds \subseteq Kinds
  /\ CallbackSets \subseteq SUBSET Kinds
  /\ None \notin Threads

VARIABLES
  given,    \* the callbacks that are set in each storage's struct
  kind,     \* the trampoline each call entered
  thread,   \* the thread it runs on
  args,     \* args_ptr: nullptr, still allocated, or what became of it
  payload,  \* what the text behind args_ptr says
  read,     \* has consume_args made the local copy?
  outcome,  \* how the dispatch ended
  reply,    \* what a load hands back: nullptr or a pointer into the buffer
  got,      \* the value the core copied out of that pointer
  stack,    \* the calls in progress on each thread, innermost last
  buffer    \* the thread_local string of dispatch_load

dispatchVars == <<kind, thread, args, payload, read, outcome, reply>>
coreVars     == <<got, stack>>
vars == <<poolVars, given, dispatchVars, coreVars, buffer>>

Payloads == {"empty", "bad_shape", "bad_data", "good"}
Args     == {"null", "allocated", "freed", "freed_twice"}
Outcomes == {"none", "dropped", "rejected", "failed", "absent", "threw", "delivered"}

TypeOK ==
  /\ PoolTypeOK
  /\ given \in [Clients -> SUBSET Kinds]
  /\ kind \in [Calls -> Kinds]
  /\ thread \in [Calls -> Threads \cup {None}]
  /\ args \in [Calls -> Args]
  /\ payload \in [Calls -> Payloads]
  /\ read \in [Calls -> BOOLEAN]
  /\ outcome \in [Calls -> Outcomes]
  /\ reply \in [Calls -> {"nullptr", "buffer"}]
  /\ got \in [Calls -> Calls \cup {None}]
  /\ \A t \in Threads : stack[t] \in Seq(Calls)
  /\ buffer \in [Threads -> Calls \cup {None}]

Init ==
  /\ PoolInit
  /\ given = [c \in Clients |-> {}]
  /\ kind = [k \in Calls |-> "load"]
  /\ thread = [k \in Calls |-> None]
  /\ args = [k \in Calls |-> "null"]
  /\ payload = [k \in Calls |-> "empty"]
  /\ read = [k \in Calls |-> FALSE]
  /\ outcome = [k \in Calls |-> "none"]
  /\ reply = [k \in Calls |-> "nullptr"]
  /\ got = [k \in Calls |-> None]
  /\ stack = [t \in Threads |-> <<>>]
  /\ buffer = [t \in Threads |-> None]

-----------------------------------------------------------------------------
(* The object.                                                             *)

OnlyPool == UNCHANGED <<given, dispatchVars, coreVars, buffer>>

(* The constructor; the callbacks are fixed when it moves them into the    *)
(* shared struct.                                                          *)
ConstructStorage(c) ==
  /\ Construct(c)
  /\ IF phase[c] = "unborn"
       THEN \E fs \in CallbackSets : given' = [given EXCEPT ![c] = fs]
       ELSE UNCHANGED given
  /\ UNCHANGED <<dispatchVars, coreVars, buffer>>

DestroyStorage(c) == Destroy(c) /\ OnlyPool

UseStorage(c) == (Attach(c) \/ Detach(c)) /\ OnlyPool

Lifecycle(c) == ConstructStorage(c) \/ DestroyStorage(c) \/ UseStorage(c)

-----------------------------------------------------------------------------
(* The core calls a trampoline of c on thread t: at the bottom of the      *)
(* thread, or from user code that an outer dispatch runs there.  That is   *)
(* the callback itself, or, if the dispatch holds the last reference when  *)
(* it ends, the destructors of what the callbacks captured.                *)

RunsUserCode(k) ==
  /\ pc[k] = "running"
  /\ reply[k] = "nullptr" \/ holders[cbs[k]] = {k}

MayEnter(t) == stack[t] # <<>> => RunsUserCode(Last(stack[t]))

Trampoline(k, c, t) ==
  /\ MayEnter(t)
  /\ Enter(k, c)
  /\ \E d \in CallKinds, p \in Payloads,
        a \in {"null", "allocated"} :
       /\ a = "null" => p = "empty"
       /\ d = "load" => p \in {"empty", "good"}
       /\ d = "delete" => p # "bad_data"
       /\ kind' = [kind EXCEPT ![k] = d]
       /\ args' = [args EXCEPT ![k] = a]
       /\ payload' = [payload EXCEPT ![k] = p]
  /\ thread' = [thread EXCEPT ![k] = t]
  /\ stack' = [stack EXCEPT ![t] = Append(@, k)]
  /\ UNCHANGED <<given, read, outcome, reply, got, buffer>>

Innermost(k) ==
  \E t \in Threads : stack[t] # <<>> /\ Last(stack[t]) = k

(* Taking the lock and copying the shared_ptr.                             *)
FetchCallbacks(k) == (LockForLoad(k) \/ LoadCallbacks(k)) /\ OnlyPool

Finish(k, how) ==
  /\ Return(k)
  /\ outcome' = [outcome EXCEPT ![k] = how]

(* Mutant: the nullptr test is missing.                                    *)
Freed_NoNullTest(a) ==
  IF a = "null" THEN "freed_null" ELSE IF a = "allocated" THEN "freed" ELSE "freed_twice"

(* free_args: nothing for nullptr, otherwise the buffer goes back.         *)
Freed(a) ==
  IF a = "null" THEN "null" ELSE IF a = "allocated" THEN "freed" ELSE "freed_twice"

FreeArgs(k) == args' = [args EXCEPT ![k] = Freed(@)]

IsSet(k) == cbs[k] # None /\ kind[k] \in given[cbs[k]]

-----------------------------------------------------------------------------
(* What the three dispatchers share.                                       *)

(* No callbacks in the slot any more, or this one is unset.                *)
DropUnset(k) ==
  /\ pc[k] = "loaded" /\ ~read[k]
  /\ ~IsSet(k)
  /\ FreeArgs(k)
  /\ Finish(k, "dropped")
  /\ UNCHANGED <<given, kind, thread, payload, read, reply, coreVars, buffer>>

(* Mutant: the core's buffer is not given back.                            *)
ConsumeArgs_NoFree(k) ==
  /\ pc[k] = "loaded" /\ ~read[k]
  /\ IsSet(k)
  /\ read' = [read EXCEPT ![k] = TRUE]
  /\ UNCHANGED <<poolVars, given, kind, thread, args, payload, outcome, reply,
                 coreVars, buffer>>

(* consume_args copies the text and frees the core's buffer.               *)
ConsumeArgs(k) ==
  /\ pc[k] = "loaded" /\ ~read[k]
  /\ IsSet(k)
  /\ read' = [read EXCEPT ![k] = TRUE]
  /\ FreeArgs(k)
  /\ UNCHANGED <<poolVars, given, kind, thread, payload, outcome, reply,
                 coreVars, buffer>>

EndWith(k, how) ==
  /\ Finish(k, how)
  /\ UNCHANGED <<given, kind, thread, args, payload, read, reply, coreVars,
                 buffer>>

(* The copy cannot be allocated: std::bad_alloc reaches the catch of the   *)
(* dispatcher, past the free_args that follows the copy.                   *)
ConsumeFails(k) ==
  /\ pc[k] = "loaded" /\ ~read[k]
  /\ IsSet(k)
  /\ args[k] = "allocated"
  /\ EndWith(k, "failed")

InvokeCallback(k) ==
  /\ read[k]
  /\ Invoke(k)
  /\ OnlyPool

(* The callback throws, or what it returned does not serialize, and the    *)
(* exception is swallowed.                                                 *)
CallbackThrows(k) ==
  /\ pc[k] = "running" /\ reply[k] = "nullptr"
  /\ EndWith(k, "threw")

Consume(k) == DropUnset(k) \/ ConsumeArgs(k) \/ ConsumeFails(k)

(* Mutant: the buffer is static, one for all threads.                      *)
ReplyWithBuffer_Static(k) ==
  /\ pc[k] = "running" /\ reply[k] = "nullptr"
  /\ buffer' = [t \in Threads |-> k]
  /\ reply' = [reply EXCEPT ![k] = "buffer"]
  /\ UNCHANGED <<poolVars, given, kind, thread, args, payload, read, outcome,
                 coreVars>>

(* load() is back with a value: it is serialized into the thread's buffer. *)
ReplyWithBuffer(k) ==
  /\ pc[k] = "running" /\ reply[k] = "nullptr"
  /\ buffer' = [buffer EXCEPT ![thread[k]] = k]
  /\ reply' = [reply EXCEPT ![k] = "buffer"]
  /\ UNCHANGED <<poolVars, given, kind, thread, args, payload, read, outcome,
                 coreVars>>

DispatchLoad(k) ==
  /\ kind[k] = "load"
  /\ \/ Consume(k)
     \/ \* the key is empty
        /\ pc[k] = "loaded" /\ read[k] /\ payload[k] = "empty"
        /\ EndWith(k, "rejected")
     \/ payload[k] # "empty" /\ InvokeCallback(k)
     \/ CallbackThrows(k)
     \/ \* nothing stored
        /\ pc[k] = "running" /\ reply[k] = "nullptr"
        /\ EndWith(k, "absent")
     \/ ReplyWithBuffer(k)
     \/ \* the pointer is returned; the locals are destroyed first
        reply[k] = "buffer" /\ EndWith(k, "delivered")

DispatchSave(k) ==
  /\ kind[k] = "save"
  /\ \/ Consume(k)
     \/ /\ pc[k] = "loaded" /\ read[k]
        /\ payload[k] \in {"empty", "bad_shape"}
        /\ EndWith(k, "rejected")
     \/ /\ pc[k] = "loaded" /\ read[k] /\ payload[k] = "bad_data"
        /\ EndWith(k, "failed")
     \/ payload[k] = "good" /\ InvokeCallback(k)
     \/ CallbackThrows(k)
     \/ pc[k] = "running" /\ EndWith(k, "delivered")

(* Mutant: the shape test of save, copied: "data" is required.             *)
DispatchDelete_NeedsData(k) ==
  /\ kind[k] = "delete"
  /\ \/ Consume(k)
     \/ pc[k] = "loaded" /\ read[k] /\ EndWith(k, "rejected")
     \/ CallbackThrows(k)

DispatchDelete(k) ==
  /\ kind[k] = "delete"
  /\ \/ Consume(k)
     \/ /\ pc[k] = "loaded" /\ read[k]
        /\ payload[k] \in {"empty", "bad_shape"}
        /\ EndWith(k, "rejected")
     \/ payload[k] = "good" /\ InvokeCallback(k)
     \/ CallbackThrows(k)
     \/ pc[k] = "running" /\ EndWith(k, "delivered")

Dispatch(k) ==
  /\ Innermost(k)
  /\ \/ FetchCallbacks(k)
     \/ DispatchLoad(k)
     \/ DispatchSave(k)
     \/ DispatchDelete(k)

-----------------------------------------------------------------------------
(* The core resumes: it copies the text behind the pointer before it runs  *)
(* anything else on the thread.                                            *)
CoreResumes(k) ==
  /\ Innermost(k)
  /\ pc[k] = "returned"
  /\ stack' = [stack EXCEPT ![thread[k]] = Front(@)]
  /\ IF reply[k] = "buffer"
       THEN got' = [got EXCEPT ![k] = buffer[thread[k]]]
       ELSE UNCHANGED got
  /\ UNCHANGED <<poolVars, given, dispatchVars, buffer>>

CallsDone == Settled /\ \A t \in Threads : stack[t] = <<>>

Next ==
  \/ \E c \in Clients : Lifecycle(c)
  \/ \E k \in Calls, c \in Clients, t \in Threads : Trampoline(k, c, t)
  \/ \E k \in Calls : Dispatch(k) \/ CoreResumes(k)
  \/ CallsDone /\ UNCHANGED vars

Spec == Init /\ [][Next]_vars

(* A started constructor or destructor runs on, and so does a started      *)
(* dispatch: the threads are scheduled, and user callbacks return.         *)
Fairness ==
  /\ \A c \in Clients : WF_vars(Started(c) /\ Lifecycle(c))
  /\ \A k \in Calls : WF_vars(Dispatch(k) \/ CoreResumes(k))

FairSpec == Spec /\ Fairness

-----------------------------------------------------------------------------
(* The core reads, for every load, exactly what that load serialized: not  *)
(* the value of another thread, and not the value of a load that the       *)
(* callback itself caused ("safe against reentrant loads"); a load without *)
(* a value never leaves the core with an old one.                          *)
LoadRepliesOwn ==
  \A k \in Calls :
    /\ got[k] # None => got[k] = k
    /\ got[k] # None <=> outcome[k] = "delivered" /\ kind[k] = "load"
                           /\ \A t \in Threads : k \notin Range(stack[t])

(* The core's buffer is freed exactly once, on every early return, check   *)
(* and swallowed exception, unless copying it failed.                      *)
ArgsFreedOnce ==
  \A k \in Calls :
    /\ args[k] # "freed_twice"
    /\ pc[k] = "returned" => \/ args[k] \in {"null", "freed"}
                             \/ outcome[k] = "failed" /\ ~read[k]

(* "Takes ownership of the FFI-allocated `args_ptr` (frees it via          *)
(* free_string)" (persistent_storage.cpp:47): no dispatch ends with the    *)
(* buffer still allocated.                                                 *)
ArgsAlwaysFreed ==
  \A k \in Calls : pc[k] = "returned" => args[k] # "allocated"

(* A call is lost only if the callback was not provided or the storage had *)
(* given its slot back, turned away only for what its text says, and gives *)
(* up before the callback only if "data" does not convert or the text      *)
(* cannot be copied: in all other cases a well-formed save or delete of a  *)
(* live storage reaches its callback.                                      *)
NoSilentLoss ==
  \A k \in Calls :
    /\ outcome[k] = "dropped"
         => \/ kind[k] \notin given[origin[k]]
            \/ phase[origin[k]] \in {"cleared", "dead"}
    /\ outcome[k] = "rejected" => payload[k] \in {"empty", "bad_shape"}
    /\ outcome[k] = "failed"
         => \/ ~read[k]
            \/ kind[k] = "save" /\ payload[k] = "bad_data"

(* Every call is answered, nested ones included: the core gets control     *)
(* back on the thread it called from.                                      *)
CallsAnswered ==
  \A t \in Threads : stack[t] # <<>> ~> stack[t] = <<>>

=============================================================================
