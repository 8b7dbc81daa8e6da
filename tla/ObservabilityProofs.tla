------------------------- MODULE ObservabilityProofs ------------------------
(***************************************************************************)
(* Proofs about ObservabilityClient, for every number of clients, calls    *)
(* and slots and every choice of callbacks.                                *)
(*                                                                         *)
(* A step of the client is a step of its slot pool or leaves the pool      *)
(* alone, so all that is proved of SlotPool holds of the client            *)
(* (UsesPool).  The dispatch functions add DispatchInv: what is known of   *)
(* the buffer of a call from how far the call is, and why a call ended as  *)
(* it did.                                                                 *)
(***************************************************************************)
EXTENDS ObservabilityClient, SlotPoolProofs

DispatchTypeOK ==
  /\ given \in [Clients -> SUBSET Kinds]
  /\ kind \in [Calls -> Kinds]
  /\ args \in [Calls -> Args]
  /\ payload \in [Calls -> Texts \ {"unread"}]
  /\ text \in [Calls -> Texts]
  /\ outcome \in [Calls -> Outcomes]

(* A lookup finds nothing only if the slot was given back.                 *)
LookupInv ==
  \A k \in Calls :
    pc[k] \in {"loaded", "running"} /\ cbs[k] = None
      => phase[origin[k]] \in {"cleared", "dead"}

BufferInv ==
  \A k \in Calls :
    /\ kind[k] = "init" => args[k] = "null" /\ text[k] = "unread"
    /\ pc[k] \in {"idle", "entered", "loading"} => text[k] = "unread"
    /\ pc[k] # "returned" /\ text[k] = "unread" => args[k] \in {"null", "allocated"}
    /\ text[k] # "unread" => text[k] = payload[k] /\ args[k] \in {"null", "freed"}
    /\ pc[k] = "running" => kind[k] = "init" \/ text[k] # "unread"
    /\ outcome[k] # "none" => pc[k] = "returned"

DispatchInv ==
  DispatchTypeOK /\ LookupInv /\ BufferInv /\ ArgsFreedOnce /\ NoSilentLoss

-----------------------------------------------------------------------------
(* The pool beneath the dispatch functions.                                *)

LEMMA StepOfPool == [Next]_vars => [PoolNext]_poolVars
<1> SUFFICES ASSUME [Next]_vars PROVE [PoolNext]_poolVars
  OBVIOUS
<1>1. ASSUME NEW c \in Clients, Lifecycle(c) PROVE PoolNext
  BY <1>1 DEF Lifecycle, Construct_, PoolNext, ClientStep
<1>2. ASSUME NEW k \in Calls, NEW c \in Clients, Trampoline(k, c) PROVE PoolNext
  BY <1>2 DEF Trampoline, PoolNext, CallStep
<1>3. ASSUME NEW k \in Calls, Dispatch(k) PROVE PoolNext \/ UNCHANGED poolVars
  BY <1>3 DEF Dispatch, FetchCallbacks, DispatchInit, DispatchMetric,
     DispatchError, DispatchShouldEnable, DropUnset, ConsumeArgs, ConsumeFails,
     ParseFails, InvokeParsed, CallbackEnds, Finish, PoolNext, CallStep
<1>4. CASE UNCHANGED vars
  BY <1>4 DEF vars
<1> QED
  BY <1>1, <1>2, <1>3, <1>4 DEF Next

(* Every behaviour of the client is one of its slot pool.                  *)
THEOREM UsesPool == Spec => PoolSpec
<1>1. Init => PoolInit
  BY DEF Init
<1> QED
  BY <1>1, StepOfPool, PTL DEF Spec, PoolSpec

(* In particular, it is a registry for the application that keeps its      *)
(* objects alive.                                                          *)
THEOREM IsRegistry ==
  ASSUME KeepAlive
  PROVE  Spec => ImplementsRegistry
  BY UsesPool, Refinement, PTL

LEMMA PoolHolds == Spec => []PoolInv
  BY UsesPool, Invariance, PTL

-----------------------------------------------------------------------------
(* The dispatch functions: one lemma per action.                           *)

LEMMA InitDispatch == Init => DispatchInv
<1> SUFFICES ASSUME Init PROVE DispatchInv
  OBVIOUS
<1> USE DEF Init, PoolInit
<1>1. DispatchTypeOK
  BY DEF DispatchTypeOK, Kinds, MetricKinds, Args, Texts, Outcomes
<1>2. LookupInv /\ BufferInv
  BY DEF LookupInv, BufferInv
<1>3. ArgsFreedOnce /\ NoSilentLoss
  BY DEF ArgsFreedOnce, NoSilentLoss
<1> QED
  BY <1>1, <1>2, <1>3 DEF DispatchInv

(* An object that was called has been constructed and only moves on.       *)
LEMMA LifecycleDispatch ==
  ASSUME PoolInv, DispatchInv, NEW c \in Clients, Lifecycle(c)
  PROVE  DispatchInv'
<1> USE ObservabilityAssumption
    DEF DispatchInv, PoolInv, PoolTypeOK, Lifecycle, Construct_, dispatchVars,
        callVars
<1>1. UNCHANGED <<callVars, dispatchVars>>
  BY DEF Construct, MakeCallbacks, LockForClaim, ClaimSlot, PoolExhausted,
     CreateAccepted, CreateRefused, LockForRetract, Retract, ReleaseSlot, Attach,
     Detach, Destroy, BeginDestroy, LockForClear, Clear, DropMember
<1>2. \A d \in Clients :
        /\ phase[d] # "unborn" => given'[d] = given[d]
        /\ phase[d] \in {"cleared", "dead"} => phase'[d] \in {"cleared", "dead"}
  BY DEF DispatchTypeOK, Construct, Step, MakeCallbacks, LockForClaim, ClaimSlot,
     PoolExhausted, CreateAccepted, CreateRefused, LockForRetract, Retract,
     ReleaseSlot, Attach, Detach, Destroy, BeginDestroy, LockForClear, Clear,
     DropMember, clientVars
<1>3. DispatchTypeOK'
  BY <1>1 DEF DispatchTypeOK
<1>4. \A k \in Calls :
        pc[k] # "idle" => origin[k] \in Clients /\ phase[origin[k]] # "unborn"
  BY DEF CallInv, TrampInv
<1>5. LookupInv'
  BY <1>1, <1>2, <1>4 DEF LookupInv
<1>6. BufferInv' /\ ArgsFreedOnce'
  BY <1>1 DEF BufferInv, ArgsFreedOnce
<1>7. NoSilentLoss'
  BY <1>1, <1>2, <1>4 DEF NoSilentLoss, BufferInv
<1> QED
  BY <1>3, <1>5, <1>6, <1>7

LEMMA TrampolineDispatch ==
  ASSUME PoolInv, DispatchInv, NEW k \in Calls, NEW c \in Clients, Trampoline(k, c)
  PROVE  DispatchInv'
<1> USE ObservabilityAssumption
    DEF DispatchInv, PoolInv, PoolTypeOK, DispatchTypeOK, Trampoline, Enter, Move,
        clientVars
<1>1. DispatchTypeOK'
  BY DEF Kinds, MetricKinds, Args, Texts
<1>2. LookupInv'
  BY DEF LookupInv
<1>3. BufferInv'
  BY DEF BufferInv, Texts
<1>4. ArgsFreedOnce' /\ NoSilentLoss'
  BY DEF ArgsFreedOnce, NoSilentLoss, BufferInv
<1> QED
  BY <1>1, <1>2, <1>3, <1>4

(* load_callbacks misses only what Clear has removed.                      *)
LEMMA FetchCallbacksDispatch ==
  ASSUME PoolInv, DispatchInv, NEW k \in Calls, FetchCallbacks(k)
  PROVE  DispatchInv'
<1> USE DEF DispatchInv, PoolInv, PoolTypeOK, DispatchTypeOK, FetchCallbacks,
            LockForLoad, LoadCallbacks, Move, clientVars, dispatchVars
<1>1. DispatchTypeOK'
  OBVIOUS
<1>2. LookupInv'
  BY PoolAssumption DEF LookupInv, CallInv, TrampInv, SlotInv, SlotOwnership
<1>3. BufferInv'
  BY DEF BufferInv
<1>4. ArgsFreedOnce' /\ NoSilentLoss'
  BY DEF ArgsFreedOnce, NoSilentLoss, BufferInv
<1> QED
  BY <1>1, <1>2, <1>3, <1>4

LEMMA DropUnsetDispatch ==
  ASSUME PoolInv, DispatchInv, NEW k \in Calls, DropUnset(k)
  PROVE  DispatchInv'
<1> USE DEF DispatchInv, PoolInv, PoolTypeOK, DispatchTypeOK, DropUnset, Finish,
            Return, Move, FreeArgs, Freed, clientVars
<1>1. DispatchTypeOK'
  BY DEF Args, Outcomes
<1>2. LookupInv'
  BY DEF LookupInv
<1>3. BufferInv'
  BY DEF BufferInv
<1>4. ArgsFreedOnce'
  BY DEF ArgsFreedOnce, BufferInv, Args
<1>5. NoSilentLoss'
  BY DEF NoSilentLoss, LookupInv, IsSet, CallInv
<1> QED
  BY <1>1, <1>2, <1>3, <1>4, <1>5

LEMMA ConsumeArgsDispatch ==
  ASSUME PoolInv, DispatchInv, NEW k \in Calls, ConsumeArgs(k), kind[k] # "init"
  PROVE  DispatchInv'
<1> USE DEF DispatchInv, PoolInv, PoolTypeOK, DispatchTypeOK, ConsumeArgs,
            FreeArgs, Freed, poolVars, clientVars, callVars
<1>1. DispatchTypeOK'
  BY DEF Args, Texts
<1>2. LookupInv'
  BY DEF LookupInv
<1>3. BufferInv'
  BY DEF BufferInv, Texts
<1>4. ArgsFreedOnce' /\ NoSilentLoss'
  BY DEF ArgsFreedOnce, NoSilentLoss, BufferInv
<1> QED
  BY <1>1, <1>2, <1>3, <1>4

LEMMA ConsumeFailsDispatch ==
  ASSUME PoolInv, DispatchInv, NEW k \in Calls, ConsumeFails(k)
  PROVE  DispatchInv'
<1> USE DEF DispatchInv, PoolInv, PoolTypeOK, DispatchTypeOK, ConsumeFails, Finish,
            Return, Move, clientVars
<1>1. DispatchTypeOK'
  BY DEF Outcomes
<1>2. LookupInv'
  BY DEF LookupInv
<1>3. BufferInv'
  BY DEF BufferInv
<1>4. ArgsFreedOnce' /\ NoSilentLoss'
  BY DEF ArgsFreedOnce, NoSilentLoss
<1> QED
  BY <1>1, <1>2, <1>3, <1>4

LEMMA ParseFailsDispatch ==
  ASSUME PoolInv, DispatchInv, NEW k \in Calls, ParseFails(k),
         kind[k] \in MetricKinds \cup {"error"}
  PROVE  DispatchInv'
<1> USE DEF DispatchInv, PoolInv, PoolTypeOK, DispatchTypeOK, ParseFails, Finish,
            Return, Move, clientVars
<1>1. DispatchTypeOK'
  BY DEF Outcomes
<1>2. LookupInv'
  BY DEF LookupInv
<1>3. BufferInv'
  BY DEF BufferInv
<1>4. ArgsFreedOnce' /\ NoSilentLoss'
  BY DEF ArgsFreedOnce, NoSilentLoss, BufferInv
<1> QED
  BY <1>1, <1>2, <1>3, <1>4

LEMMA InvokeDispatch ==
  ASSUME PoolInv, DispatchInv, NEW k \in Calls,
         Invoke(k), UNCHANGED <<given, dispatchVars>>,
         kind[k] = "init" \/ text[k] # "unread"
  PROVE  DispatchInv'
<1> USE DEF DispatchInv, PoolInv, PoolTypeOK, DispatchTypeOK, Invoke, Move,
            clientVars, dispatchVars
<1>1. DispatchTypeOK' /\ LookupInv'
  BY DEF LookupInv
<1>2. BufferInv'
  BY DEF BufferInv
<1>3. ArgsFreedOnce' /\ NoSilentLoss'
  BY DEF ArgsFreedOnce, NoSilentLoss
<1> QED
  BY <1>1, <1>2, <1>3

LEMMA CallbackEndsDispatch ==
  ASSUME PoolInv, DispatchInv, NEW k \in Calls, CallbackEnds(k)
  PROVE  DispatchInv'
<1> USE DEF DispatchInv, PoolInv, PoolTypeOK, DispatchTypeOK, CallbackEnds, Finish,
            Return, Move, clientVars
<1>1. DispatchTypeOK'
  BY DEF Outcomes
<1>2. LookupInv'
  BY DEF LookupInv
<1>3. BufferInv'
  BY DEF BufferInv
<1>4. ArgsFreedOnce' /\ NoSilentLoss'
  BY DEF ArgsFreedOnce, NoSilentLoss, BufferInv
<1> QED
  BY <1>1, <1>2, <1>3, <1>4

LEMMA StepDispatch == PoolInv /\ DispatchInv /\ [Next]_vars => DispatchInv'
<1> SUFFICES ASSUME PoolInv, DispatchInv, [Next]_vars PROVE DispatchInv'
  OBVIOUS
<1>1. ASSUME NEW k \in Calls, Dispatch(k) PROVE DispatchInv'
  <2>1. CASE FetchCallbacks(k)
    BY <2>1, FetchCallbacksDispatch
  <2>2. CASE DispatchInit(k)
    BY <2>2, DropUnsetDispatch, InvokeDispatch, CallbackEndsDispatch
       DEF DispatchInit
  <2>3. CASE DispatchMetric(k) \/ DispatchError(k)
    BY <2>3, DropUnsetDispatch, ConsumeArgsDispatch, ConsumeFailsDispatch,
       ParseFailsDispatch, InvokeDispatch, CallbackEndsDispatch
       DEF DispatchMetric, DispatchError, InvokeParsed, MetricKinds
  <2>4. CASE DispatchShouldEnable(k)
    BY <2>4, DropUnsetDispatch, ConsumeArgsDispatch, ConsumeFailsDispatch,
       InvokeDispatch, CallbackEndsDispatch DEF DispatchShouldEnable
  <2> QED
    BY <1>1, <2>1, <2>2, <2>3, <2>4 DEF Dispatch
<1>2. CASE UNCHANGED vars
  BY <1>2 DEF vars, poolVars, clientVars, callVars, dispatchVars, DispatchInv,
     DispatchTypeOK, LookupInv, BufferInv, ArgsFreedOnce, NoSilentLoss
<1> QED
  BY <1>1, <1>2, LifecycleDispatch, TrampolineDispatch DEF Next

-----------------------------------------------------------------------------
(* DispatchInv and with it all its parts hold in every reachable state.    *)
THEOREM DispatchInvariance == Spec => [](PoolInv /\ DispatchInv)
  BY InitDispatch, StepDispatch, PoolHolds, PTL DEF Spec

(* Every variable keeps its type.                                          *)
THEOREM ClientTypes == Spec => []TypeOK
<1>1. PoolInv /\ DispatchInv => TypeOK
  BY DEF PoolInv, DispatchInv, DispatchTypeOK, TypeOK
<1> QED
  BY <1>1, DispatchInvariance, PTL

(* No buffer of the core is freed twice or forgotten.                      *)
THEOREM BuffersFreed == Spec => []ArgsFreedOnce
<1>1. PoolInv /\ DispatchInv => ArgsFreedOnce
  BY DEF DispatchInv
<1> QED
  BY <1>1, DispatchInvariance, PTL

(* No call is lost without a reason the owner can know.                    *)
THEOREM NothingLost == Spec => []NoSilentLoss
<1>1. PoolInv /\ DispatchInv => NoSilentLoss
  BY DEF DispatchInv
<1> QED
  BY <1>1, DispatchInvariance, PTL

=============================================================================
