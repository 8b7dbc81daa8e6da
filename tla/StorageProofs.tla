---------------------------- MODULE StorageProofs ---------------------------
(***************************************************************************)
(* Proofs about PersistentStorage, for every number of storages, calls,    *)
(* threads and slots, every nesting of calls and every choice of callbacks.*)
(*                                                                         *)
(* As for ObservabilityClient, a step of the storage is a step of its slot *)
(* pool or leaves the pool alone (UsesPool), and DispatchInv says what is  *)
(* known of a call from how far it is.  NestInv adds what the thread_local *)
(* buffer depends on: the calls in progress on a thread are a stack of     *)
(* callbacks with one dispatch on top, and only that one can have its      *)
(* answer in the buffer, as long as nothing runs user code after the       *)
(* answer was written, which the keep-alive rule guarantees.               *)
(***************************************************************************)
EXTENDS PersistentStorage, SlotPoolProofs, SequenceTheorems

DispatchTypeOK ==
  /\ given \in [Clients -> SUBSET Kinds]
  /\ kind \in [Calls -> Kinds]
  /\ thread \in [Calls -> Threads \cup {None}]
  /\ args \in [Calls -> Args]
  /\ payload \in [Calls -> Payloads]
  /\ read \in [Calls -> BOOLEAN]
  /\ outcome \in [Calls -> Outcomes]
  /\ reply \in [Calls -> {"nullptr", "buffer"}]
  /\ got \in [Calls -> Calls \cup {None}]
  /\ stack \in [Threads -> Seq(Calls)]
  /\ buffer \in [Threads -> Calls \cup {None}]

(* A lookup finds nothing only if the slot was given back.                 *)
LookupInv ==
  \A k \in Calls :
    pc[k] \in {"loaded", "running"} /\ cbs[k] = None
      => phase[origin[k]] \in {"cleared", "dead"}

BufferInv ==
  \A k \in Calls :
    /\ pc[k] \in {"idle", "entered", "loading"} => ~read[k]
    /\ pc[k] # "returned" /\ ~read[k] => args[k] \in {"null", "allocated"}
    /\ read[k] => args[k] \in {"null", "freed"}
    /\ pc[k] = "running" \/ reply[k] = "buffer" => read[k]
    /\ outcome[k] # "none" => pc[k] = "returned"

DispatchInv == LookupInv /\ BufferInv /\ ArgsFreedOnce /\ NoSilentLoss

(* A call is on the stack of its own thread, once.                         *)
StackInv ==
  \A t \in Threads : \A i \in 1 .. Len(stack[t]) :
    /\ thread[stack[t][i]] = t /\ pc[stack[t][i]] # "idle"
    /\ \A j \in 1 .. Len(stack[t]) : stack[t][i] = stack[t][j] => i = j

(* The same for a reader: no two places on the stacks hold the same call.  *)
OneStack ==
  \A s, t \in Threads : \A i \in 1 .. Len(stack[s]), j \in 1 .. Len(stack[t]) :
    stack[s][i] = stack[t][j] => s = t /\ i = j

Types == DispatchTypeOK /\ StackInv

(* Below the top are callbacks that have not answered, and an answer on a  *)
(* stack is in the buffer.                                                 *)
NestInv ==
  \A t \in Threads : \A i \in 1 .. Len(stack[t]) :
    /\ i # Len(stack[t])
         => pc[stack[t][i]] = "running" /\ reply[stack[t][i]] = "nullptr"
    /\ reply[stack[t][i]] = "buffer" => buffer[t] = stack[t][i]

OnStack(k) == \E t \in Threads : \E i \in 1 .. Len(stack[t]) : stack[t][i] = k

ReplyInv ==
  \A k \in Calls :
    /\ got[k] # None => got[k] = k
    /\ got[k] # None <=> reply[k] = "buffer" /\ ~OnStack(k)
    /\ reply[k] = "buffer"
         => /\ kind[k] = "load"
            /\ \/ pc[k] = "running"
               \/ pc[k] = "returned" /\ outcome[k] = "delivered"
    /\ outcome[k] = "delivered" /\ kind[k] = "load" => reply[k] = "buffer"
    /\ pc[k] \notin {"idle", "returned"} => OnStack(k)

-----------------------------------------------------------------------------
(* The pool beneath the dispatch functions.                                *)

LEMMA StepOfPool == [Next]_vars => [PoolNext]_poolVars
<1> SUFFICES ASSUME [Next]_vars PROVE [PoolNext]_poolVars
  OBVIOUS
<1>1. ASSUME NEW c \in Clients, Lifecycle(c) PROVE PoolNext
  BY <1>1 DEF Lifecycle, ConstructStorage, DestroyStorage, UseStorage, PoolNext,
     ClientStep
<1>2. ASSUME NEW k \in Calls, NEW c \in Clients, NEW t \in Threads,
             Trampoline(k, c, t)
      PROVE  PoolNext
  BY <1>2 DEF Trampoline, PoolNext, CallStep
<1>3. ASSUME NEW k \in Calls, Dispatch(k) PROVE PoolNext \/ UNCHANGED poolVars
  BY <1>3 DEF Dispatch, FetchCallbacks, DispatchLoad, DispatchSave, DispatchDelete,
     Consume, DropUnset, ConsumeArgs, ConsumeFails, InvokeCallback, CallbackThrows,
     ReplyWithBuffer, EndWith, Finish, PoolNext, CallStep
<1>4. ASSUME NEW k \in Calls, CoreResumes(k) PROVE UNCHANGED poolVars
  BY <1>4 DEF CoreResumes
<1>5. CASE UNCHANGED vars
  BY <1>5 DEF vars
<1> QED
  BY <1>1, <1>2, <1>3, <1>4, <1>5 DEF Next

(* Every behaviour of the storage is one of its slot pool.                 *)
THEOREM UsesPool == Spec => PoolSpec
<1>1. Init => PoolInit
  BY DEF Init
<1> QED
  BY <1>1, StepOfPool, PTL DEF Spec, PoolSpec

(* In particular, it is a registry for the application that keeps its      *)
(* objects alive.                                                          *)
THEOREM IsRegistry ==
  ASSUME KeepAlive
  PROVE  Spec => ImplementsRegistry
  BY UsesPool, Refinement, PTL

LEMMA PoolHolds == Spec => []PoolInv
  BY UsesPool, Invariance, PTL

-----------------------------------------------------------------------------
(* Types.                                                                  *)

LEMMA FrontType ==
  ASSUME NEW s \in Seq(Calls), s # <<>>
  PROVE  /\ Len(s) \in Nat \ {0}
         /\ Last(s) \in Calls
         /\ Front(s) \in Seq(Calls)
         /\ Len(Front(s)) = Len(s) - 1
         /\ \A i \in 1 .. Len(s) - 1 : Front(s)[i] = s[i]
<1>1. Len(s) \in Nat \ {0}
  BY EmptySeq
<1>2. \A i \in 1 .. Len(s) : s[i] \in Calls
  BY ElementOfSeq
<1>3. PICK n \in Nat : n = Len(s) - 1
  BY <1>1
<1>4. \A i \in 1 .. n : s[i] \in Calls
  BY <1>2, <1>3
<1>5. Front(s) = SubSeq(s, 1, n)
  BY <1>3 DEF Front
<1>6. /\ Front(s) \in Seq(Calls)
      /\ Len(Front(s)) = IF 1 <= n THEN n - 1 + 1 ELSE 0
      /\ \A i \in 1 .. n - 1 + 1 : Front(s)[i] = s[1 + i - 1]
  BY <1>4, <1>5, SubSeqProperties, Z3
<1> HIDE DEF Front
<1>7. Len(Front(s)) = n
  BY <1>6
<1>8. ASSUME NEW i \in 1 .. n PROVE Front(s)[i] = s[i]
  <2>1. i \in 1 .. n - 1 + 1 /\ 1 + i - 1 = i
    OBVIOUS
  <2> QED
    BY <2>1, <1>6
<1>9. Last(s) \in Calls
  BY <1>1, <1>2 DEF Last
<1> QED
  BY <1>1, <1>3, <1>6, <1>7, <1>8, <1>9

LEMMA Top ==
  ASSUME Types, NEW k \in Calls, Innermost(k)
  PROVE  \E t \in Threads :
           /\ thread[k] = t /\ stack[t] # <<>>
           /\ Len(stack[t]) \in Nat \ {0}
           /\ stack[t][Len(stack[t])] = k
<1>1. PICK t \in Threads : stack[t] # <<>> /\ Last(stack[t]) = k
  BY DEF Innermost
<1>2. stack[t] \in Seq(Calls)
  BY DEF Types, DispatchTypeOK
<1>3. Len(stack[t]) \in Nat \ {0}
  BY <1>1, <1>2, FrontType
<1>4. stack[t][Len(stack[t])] = k
  BY <1>1 DEF Last
<1>5. Len(stack[t]) \in 1 .. Len(stack[t])
  BY <1>3
<1>6. thread[k] = t
  BY <1>4, <1>5 DEF Types, StackInv
<1> QED
  BY <1>1, <1>3, <1>4, <1>6

LEMMA InitTypes == Init => Types
<1>1. Init => DispatchTypeOK
  BY DEF Init, DispatchTypeOK, Kinds, Args, Payloads, Outcomes
<1>2. Init => \A t \in Threads : Len(stack[t]) = 0
  BY DEF Init
<1> QED
  BY <1>1, <1>2 DEF Types, StackInv

LEMMA LifecycleTypes ==
  ASSUME Types, PoolInv, NEW c \in Clients, Lifecycle(c)
  PROVE  Types'
<1> USE StorageAssumption DEF Types
<1>1. UNCHANGED <<dispatchVars, coreVars, buffer, callVars>>
  BY DEF Lifecycle, ConstructStorage, DestroyStorage, UseStorage, OnlyPool,
     Construct, MakeCallbacks, LockForClaim, ClaimSlot, PoolExhausted,
     CreateAccepted, CreateRefused, LockForRetract, Retract, ReleaseSlot, Attach,
     Detach, Destroy, BeginDestroy, LockForClear, Clear, DropMember
<1>2. given' = given \/ \E fs \in CallbackSets : given' = [given EXCEPT ![c] = fs]
  BY DEF Lifecycle, ConstructStorage, DestroyStorage, UseStorage, OnlyPool
<1>3. given' \in [Clients -> SUBSET Kinds]
  BY <1>2 DEF DispatchTypeOK
<1>4. DispatchTypeOK'
  BY <1>1, <1>3 DEF DispatchTypeOK, dispatchVars, coreVars
<1> QED
  BY <1>1, <1>4 DEF StackInv, dispatchVars, coreVars, callVars

(* The stack after a call was pushed.                                      *)
LEMMA Pushed ==
  ASSUME Types, NEW k \in Calls, NEW c \in Clients, NEW t \in Threads,
         Trampoline(k, c, t)
  PROVE  /\ stack'[t] \in Seq(Calls)
         /\ Len(stack[t]) \in Nat
         /\ Len(stack'[t]) = Len(stack[t]) + 1
         /\ \A i \in 1 .. Len(stack[t]) : stack'[t][i] = stack[t][i]
         /\ stack'[t][Len(stack[t]) + 1] = k
         /\ \A u \in Threads \ {t} : stack'[u] = stack[u]
         /\ stack' \in [Threads -> Seq(Calls)]
<1>1. stack[t] \in Seq(Calls) /\ stack \in [Threads -> Seq(Calls)]
  BY DEF Types, DispatchTypeOK
<1>2. stack' = [stack EXCEPT ![t] = Append(stack[t], k)]
  BY DEF Trampoline
<1>3. /\ Append(stack[t], k) \in Seq(Calls)
      /\ Len(Append(stack[t], k)) = Len(stack[t]) + 1
      /\ \A i \in 1 .. Len(stack[t]) : Append(stack[t], k)[i] = stack[t][i]
      /\ Append(stack[t], k)[Len(stack[t]) + 1] = k
  BY <1>1, AppendProperties
<1>4. Len(stack[t]) \in Nat
  BY <1>1
<1> QED
  BY <1>1, <1>2, <1>3, <1>4

LEMMA TrampolineTypes ==
  ASSUME Types, PoolInv, NEW k \in Calls, NEW c \in Clients, NEW t \in Threads,
         Trampoline(k, c, t)
  PROVE  Types'
<1>1. DispatchTypeOK'
  BY StorageAssumption, Pushed DEF Types, DispatchTypeOK, Trampoline, Args
<1>2. ASSUME NEW u \in Threads, NEW i \in 1 .. Len(stack'[u])
      PROVE  /\ thread'[stack'[u][i]] = u /\ pc'[stack'[u][i]] # "idle"
             /\ \A j \in 1 .. Len(stack'[u]) : stack'[u][i] = stack'[u][j] => i = j
  <2> USE DEF Trampoline, Enter, Move, Types, DispatchTypeOK, PoolInv, PoolTypeOK
  <2>1. thread'[k] = t /\ pc'[k] # "idle"
    OBVIOUS
  <2>2. \A j \in Calls \ {k} : thread'[j] = thread[j] /\ pc'[j] = pc[j]
    OBVIOUS
  <2>0. \A v \in Threads : \A j \in 1 .. Len(stack[v]) : stack[v][j] # k
    BY DEF StackInv
  <2>3. CASE u = t /\ i = Len(stack[t]) + 1
    <3>1. stack'[u][i] = k
      BY <2>3, Pushed
    <3>2. \A j \in 1 .. Len(stack'[u]) : stack'[u][j] = k => j = i
      BY <2>0, <2>3, Pushed
    <3> QED
      BY <2>1, <2>3, <3>1, <3>2
  <2>4. CASE u # t \/ i \in 1 .. Len(stack[t])
    <3>1. i \in 1 .. Len(stack[u]) /\ stack'[u][i] = stack[u][i]
      BY <1>2, <2>4, Pushed
    <3>2. stack[u][i] \in Calls
      BY <3>1, ElementOfSeq
    <3>3. thread[stack[u][i]] = u /\ pc[stack[u][i]] # "idle"
      BY <3>1 DEF StackInv
    <3>4. stack[u][i] # k
      BY <2>0, <3>1
    <3>5. ASSUME NEW j \in 1 .. Len(stack'[u]), stack'[u][i] = stack'[u][j]
          PROVE  i = j
      <4>1. CASE u = t /\ j = Len(stack[t]) + 1
        BY <3>1, <3>4, <3>5, <4>1, Pushed
      <4>2. CASE ~(u = t /\ j = Len(stack[t]) + 1)
        <5>1. j \in 1 .. Len(stack[u]) /\ stack'[u][j] = stack[u][j]
          BY <3>5, <4>2, Pushed
        <5> QED
          BY <3>1, <3>5, <5>1 DEF StackInv
      <4> QED
        BY <4>1, <4>2
    <3> QED
      BY <2>2, <3>1, <3>2, <3>3, <3>4, <3>5
  <2> QED
    BY <2>3, <2>4, Pushed
<1> QED
  BY <1>1, <1>2 DEF Types, StackInv

(* A dispatch moves on its own call and leaves the stacks alone.           *)
LEMMA DispatchMoves ==
  ASSUME Types, PoolInv, NEW k \in Calls, Dispatch(k)
  PROVE  /\ UNCHANGED <<given, kind, thread, payload, got, stack>>
         /\ \E p \in PCs \ {"idle"} : pc' = [pc EXCEPT ![k] = p]
<1> USE DEF Types, DispatchTypeOK, PoolInv, PoolTypeOK, Move, PCs
<1>1. ASSUME NEW how \in Outcomes, Finish(k, how)
      PROVE  \E p \in PCs \ {"idle"} : pc' = [pc EXCEPT ![k] = p]
  BY <1>1 DEF Finish, Return
<1>2. CASE FetchCallbacks(k)
  BY <1>2 DEF FetchCallbacks, LockForLoad, LoadCallbacks, OnlyPool, dispatchVars,
     coreVars
<1>3. CASE InvokeCallback(k)
  BY <1>3 DEF InvokeCallback, Invoke, OnlyPool, dispatchVars, coreVars
<1>4. CASE DropUnset(k)
  BY <1>1, <1>4 DEF DropUnset, coreVars, Outcomes
<1>5. CASE \E how \in Outcomes : EndWith(k, how)
  BY <1>1, <1>5 DEF EndWith, coreVars
<1>6. CASE ConsumeArgs(k) \/ ReplyWithBuffer(k)
  <2>1. pc[k] \in {"loaded", "running"} /\ UNCHANGED pc
    BY <1>6 DEF ConsumeArgs, ReplyWithBuffer, poolVars, callVars
  <2>2. pc' = [pc EXCEPT ![k] = pc[k]]
    BY <2>1
  <2> QED
    BY <1>6, <2>1, <2>2 DEF ConsumeArgs, ReplyWithBuffer, coreVars
<1> QED
  BY <1>2, <1>3, <1>4, <1>5, <1>6
     DEF Dispatch, DispatchLoad, DispatchSave, DispatchDelete, Consume,
         ConsumeFails, CallbackThrows, Outcomes

LEMMA EndWithType ==
  ASSUME DispatchTypeOK, NEW k \in Calls, NEW how \in Outcomes, EndWith(k, how)
  PROVE  DispatchTypeOK'
  BY DEF DispatchTypeOK, EndWith, Finish, coreVars

LEMMA DispatchTypes ==
  ASSUME Types, PoolInv, NEW k \in Calls, Dispatch(k)
  PROVE  Types'
<1>1. DispatchTypeOK'
  <2> USE DEF Types, DispatchTypeOK, dispatchVars, coreVars
  <2>1. CASE FetchCallbacks(k) \/ InvokeCallback(k)
    BY <2>1 DEF FetchCallbacks, InvokeCallback, OnlyPool
  <2>2. CASE DropUnset(k)
    BY <2>2 DEF DropUnset, Finish, FreeArgs, Freed, Args, Outcomes
  <2>3. CASE ConsumeArgs(k)
    BY <2>3 DEF ConsumeArgs, FreeArgs, Freed, Args
  <2>4. CASE \E how \in Outcomes : EndWith(k, how)
    BY <2>4, EndWithType
  <2>5. CASE ReplyWithBuffer(k)
    BY <2>5 DEF ReplyWithBuffer
  <2> QED
    BY <2>1, <2>2, <2>3, <2>4, <2>5
       DEF Dispatch, DispatchLoad, DispatchSave, DispatchDelete, Consume,
           ConsumeFails, CallbackThrows, Outcomes
<1>2. \A t \in Threads : \A i \in 1 .. Len(stack[t]) : stack[t][i] \in Calls
  BY ElementOfSeq DEF Types, DispatchTypeOK
<1>3. StackInv'
  BY <1>2, DispatchMoves DEF Types, StackInv, PoolInv, PoolTypeOK
<1> QED
  BY <1>1, <1>3 DEF Types

(* The stack after the top was popped.                                     *)
LEMMA Popped ==
  ASSUME Types, NEW k \in Calls, CoreResumes(k)
  PROVE  \E t \in Threads :
           /\ thread[k] = t
           /\ Len(stack[t]) \in Nat \ {0}
           /\ stack[t][Len(stack[t])] = k
           /\ Len(stack'[t]) = Len(stack[t]) - 1
           /\ \A i \in 1 .. Len(stack[t]) - 1 : stack'[t][i] = stack[t][i]
           /\ \A u \in Threads \ {t} : stack'[u] = stack[u]
           /\ stack' \in [Threads -> Seq(Calls)]
<1>1. PICK t \in Threads : /\ thread[k] = t /\ stack[t] # <<>>
                           /\ Len(stack[t]) \in Nat \ {0}
                           /\ stack[t][Len(stack[t])] = k
  BY Top DEF CoreResumes
<1>2. stack[t] \in Seq(Calls) /\ stack \in [Threads -> Seq(Calls)]
  BY DEF Types, DispatchTypeOK
<1>3. stack' = [stack EXCEPT ![t] = Front(stack[t])]
  BY <1>1 DEF CoreResumes
<1>4. /\ Front(stack[t]) \in Seq(Calls)
      /\ Len(Front(stack[t])) = Len(stack[t]) - 1
      /\ \A i \in 1 .. Len(stack[t]) - 1 : Front(stack[t])[i] = stack[t][i]
  BY <1>1, <1>2, FrontType
<1> HIDE DEF Front
<1>5. stack'[t] = Front(stack[t]) /\ \A u \in Threads \ {t} : stack'[u] = stack[u]
  BY <1>2, <1>3
<1>6. stack' \in [Threads -> Seq(Calls)]
  BY <1>2, <1>3, <1>4
<1> QED
  BY <1>1, <1>4, <1>5, <1>6

LEMMA CoreResumesTypes ==
  ASSUME Types, NEW k \in Calls, CoreResumes(k)
  PROVE  Types'
<1>1. PICK t \in Threads :
        /\ thread[k] = t
        /\ Len(stack[t]) \in Nat \ {0}
        /\ Len(stack'[t]) = Len(stack[t]) - 1
        /\ \A i \in 1 .. Len(stack[t]) - 1 : stack'[t][i] = stack[t][i]
        /\ \A u \in Threads \ {t} : stack'[u] = stack[u]
        /\ stack' \in [Threads -> Seq(Calls)]
  BY Popped
<1>2. UNCHANGED <<given, kind, thread, args, payload, read, outcome, reply, buffer, pc>>
  BY DEF CoreResumes, dispatchVars, poolVars, callVars
<1>3. got' \in [Calls -> Calls \cup {None}]
  BY <1>1 DEF CoreResumes, Types, DispatchTypeOK
<1>4. DispatchTypeOK'
  BY <1>1, <1>2, <1>3 DEF Types, DispatchTypeOK
<1>5. ASSUME NEW u \in Threads, NEW i \in 1 .. Len(stack'[u])
      PROVE  i \in 1 .. Len(stack[u]) /\ stack'[u][i] = stack[u][i]
  BY <1>1
<1>6. StackInv'
  BY <1>2, <1>5 DEF Types, StackInv
<1> QED
  BY <1>4, <1>6 DEF Types

LEMMA StepTypes == Types /\ PoolInv /\ [Next]_vars => Types'
<1>1. Types /\ UNCHANGED vars => Types'
  BY DEF Types, DispatchTypeOK, StackInv, vars, poolVars, callVars, dispatchVars,
     coreVars
<1> QED
  BY <1>1, LifecycleTypes, TrampolineTypes, DispatchTypes, CoreResumesTypes DEF Next

LEMMA TypesHold == Spec => [](PoolInv /\ Types)
  BY InitTypes, StepTypes, PoolHolds, PTL DEF Spec

-----------------------------------------------------------------------------
(* Buffers of the core and lost calls.                                     *)

LEMMA InitDispatch == Init => DispatchInv
  BY DEF Init, PoolInit, DispatchInv, LookupInv, BufferInv, ArgsFreedOnce,
         NoSilentLoss

(* An object that was called has been constructed and only moves on.       *)
LEMMA LifecycleDispatch ==
  ASSUME PoolInv, Types, DispatchInv, NEW c \in Clients, Lifecycle(c)
  PROVE  DispatchInv'
<1> USE DEF DispatchInv, PoolInv, PoolTypeOK, Types
<1>1. UNCHANGED <<callVars, dispatchVars>>
  BY DEF Lifecycle, ConstructStorage, DestroyStorage, UseStorage, OnlyPool,
     Construct, MakeCallbacks, LockForClaim, ClaimSlot, PoolExhausted,
     CreateAccepted, CreateRefused, LockForRetract, Retract, ReleaseSlot, Attach,
     Detach, Destroy, BeginDestroy, LockForClear, Clear, DropMember
<1>2. ASSUME NEW d \in Clients
      PROVE  /\ phase[d] # "unborn" => given'[d] = given[d]
             /\ phase[d] \in {"cleared", "dead"} => phase'[d] \in {"cleared", "dead"}
  <2>1. phase[d] # "unborn" => given'[d] = given[d]
    BY DEF Lifecycle, ConstructStorage, DestroyStorage, UseStorage, OnlyPool,
       DispatchTypeOK
  <2>2. phase[d] \in {"cleared", "dead"} => phase'[d] \in {"cleared", "dead"}
    BY DEF Lifecycle, ConstructStorage, DestroyStorage, UseStorage, Construct, Step,
       MakeCallbacks, LockForClaim, ClaimSlot, PoolExhausted, CreateAccepted,
       CreateRefused, LockForRetract, Retract, ReleaseSlot, Attach, Detach, Destroy,
       BeginDestroy, LockForClear, Clear, DropMember, clientVars
  <2> QED
    BY <2>1, <2>2
<1>3. \A k \in Calls :
        pc[k] # "idle" => origin[k] \in Clients /\ phase[origin[k]] # "unborn"
  BY DEF CallInv, TrampInv
<1>4. LookupInv'
  BY <1>1, <1>2, <1>3 DEF LookupInv, callVars
<1>5. BufferInv' /\ ArgsFreedOnce'
  BY <1>1 DEF BufferInv, ArgsFreedOnce, callVars, dispatchVars
<1>6. NoSilentLoss'
  BY <1>1, <1>2, <1>3 DEF NoSilentLoss, BufferInv, callVars, dispatchVars
<1> QED
  BY <1>4, <1>5, <1>6

LEMMA TrampolineDispatch ==
  ASSUME PoolInv, Types, DispatchInv, NEW k \in Calls, NEW c \in Clients,
         NEW t \in Threads, Trampoline(k, c, t)
  PROVE  DispatchInv'
<1>1. pc[k] = "idle" /\ pc' = [pc EXCEPT ![k] = "entered"]
  BY DEF Trampoline, Enter, Move
<1>2. UNCHANGED <<phase, cbs, given, read, outcome, reply>>
  BY DEF Trampoline, Enter, clientVars
<1>3. \E a \in {"null", "allocated"} : args' = [args EXCEPT ![k] = a]
  BY DEF Trampoline
<1>4. \A j \in Calls \ {k} : origin'[j] = origin[j] /\ kind'[j] = kind[j]
                              /\ payload'[j] = payload[j]
  BY DEF Trampoline, Enter, PoolInv, PoolTypeOK, Types, DispatchTypeOK
<1>5. pc \in [Calls -> PCs] /\ args \in [Calls -> Args]
  BY DEF PoolInv, PoolTypeOK, Types, DispatchTypeOK
<1>6. ~read[k] /\ outcome[k] = "none"
  BY <1>1 DEF DispatchInv, BufferInv
<1>7. LookupInv'
  BY <1>1, <1>2, <1>4, <1>5 DEF DispatchInv, LookupInv
<1>8. BufferInv'
  BY <1>1, <1>2, <1>3, <1>5, <1>6 DEF DispatchInv, BufferInv
<1>9. ArgsFreedOnce' /\ NoSilentLoss'
  BY <1>1, <1>2, <1>3, <1>4, <1>5, <1>6
     DEF DispatchInv, ArgsFreedOnce, NoSilentLoss
<1> QED
  BY <1>7, <1>8, <1>9 DEF DispatchInv

(* load_callbacks misses only what Clear has removed.                      *)
LEMMA FetchCallbacksDispatch ==
  ASSUME PoolInv, Types, DispatchInv, NEW k \in Calls, FetchCallbacks(k)
  PROVE  DispatchInv'
<1> USE DEF DispatchInv, PoolInv, PoolTypeOK, FetchCallbacks, OnlyPool, LockForLoad,
            LoadCallbacks, Move, clientVars, dispatchVars
<1>1. LookupInv'
  BY PoolAssumption DEF LookupInv, CallInv, TrampInv, SlotInv, SlotOwnership
<1>2. BufferInv'
  BY DEF BufferInv
<1>3. ArgsFreedOnce' /\ NoSilentLoss'
  BY DEF ArgsFreedOnce, NoSilentLoss, BufferInv
<1> QED
  BY <1>1, <1>2, <1>3

LEMMA DropUnsetDispatch ==
  ASSUME PoolInv, Types, DispatchInv, NEW k \in Calls, DropUnset(k)
  PROVE  DispatchInv'
<1> USE DEF DispatchInv, PoolInv, PoolTypeOK, Types, DispatchTypeOK, DropUnset,
            Finish, Return, Move, FreeArgs, Freed, clientVars
<1>1. LookupInv'
  BY DEF LookupInv
<1>2. BufferInv'
  BY DEF BufferInv
<1>3. ArgsFreedOnce'
  BY DEF ArgsFreedOnce, BufferInv, Args
<1>4. NoSilentLoss'
  BY DEF NoSilentLoss, LookupInv, IsSet, CallInv
<1> QED
  BY <1>1, <1>2, <1>3, <1>4

LEMMA ConsumeArgsDispatch ==
  ASSUME PoolInv, Types, DispatchInv, NEW k \in Calls, ConsumeArgs(k)
  PROVE  DispatchInv'
<1> USE DEF DispatchInv, Types, DispatchTypeOK, ConsumeArgs, FreeArgs, Freed,
            poolVars, clientVars, callVars
<1>1. LookupInv'
  BY DEF LookupInv
<1>2. BufferInv'
  BY DEF BufferInv
<1>3. ArgsFreedOnce' /\ NoSilentLoss'
  BY DEF ArgsFreedOnce, NoSilentLoss, BufferInv
<1> QED
  BY <1>1, <1>2, <1>3

(* Every other end: the text was copied, or copying it failed.             *)
LEMMA EndWithDispatch ==
  ASSUME PoolInv, Types, DispatchInv, NEW k \in Calls,
         NEW how \in Outcomes \ {"none", "dropped"}, EndWith(k, how),
         read[k] \/ how = "failed",
         how = "rejected" => payload[k] \in {"empty", "bad_shape"},
         how = "failed" => (kind[k] = "save" /\ payload[k] = "bad_data") \/ ~read[k]
  PROVE  DispatchInv'
<1> USE DEF DispatchInv, PoolInv, PoolTypeOK, Types, DispatchTypeOK, EndWith, Finish,
            Return, Move, clientVars
<1>1. LookupInv'
  BY DEF LookupInv
<1>2. BufferInv'
  BY DEF BufferInv
<1>3. ArgsFreedOnce'
  BY DEF ArgsFreedOnce, BufferInv
<1>4. NoSilentLoss'
  BY DEF NoSilentLoss, Outcomes
<1> QED
  BY <1>1, <1>2, <1>3, <1>4

LEMMA InvokeCallbackDispatch ==
  ASSUME PoolInv, Types, DispatchInv, NEW k \in Calls, InvokeCallback(k)
  PROVE  DispatchInv'
<1> USE DEF DispatchInv, PoolInv, PoolTypeOK, InvokeCallback, OnlyPool, Invoke, Move,
            clientVars, dispatchVars
<1>1. LookupInv'
  BY DEF LookupInv
<1>2. BufferInv'
  BY DEF BufferInv
<1>3. ArgsFreedOnce' /\ NoSilentLoss'
  BY DEF ArgsFreedOnce, NoSilentLoss
<1> QED
  BY <1>1, <1>2, <1>3

LEMMA ElseDispatch ==
  ASSUME Types, DispatchInv, NEW k \in Calls, CoreResumes(k) \/ ReplyWithBuffer(k)
  PROVE  DispatchInv'
<1>1. CASE CoreResumes(k)
  BY <1>1 DEF DispatchInv, LookupInv, BufferInv, ArgsFreedOnce, NoSilentLoss,
     CoreResumes, poolVars, clientVars, callVars, dispatchVars
<1>2. CASE ReplyWithBuffer(k)
  BY <1>2 DEF DispatchInv, LookupInv, BufferInv, ArgsFreedOnce, NoSilentLoss, Types,
     DispatchTypeOK, ReplyWithBuffer, poolVars, clientVars, callVars
<1> QED
  BY <1>1, <1>2

LEMMA StepDispatch == PoolInv /\ Types /\ DispatchInv /\ [Next]_vars => DispatchInv'
<1> SUFFICES ASSUME PoolInv, Types, DispatchInv, [Next]_vars PROVE DispatchInv'
  OBVIOUS
<1>1. ASSUME NEW k \in Calls, Dispatch(k) PROVE DispatchInv'
  <2>1. pc[k] = "running" => read[k]
    BY DEF DispatchInv, BufferInv
  <2>2. reply[k] = "buffer" => read[k]
    BY DEF DispatchInv, BufferInv
  <2> QED
    BY <1>1, <2>1, <2>2, FetchCallbacksDispatch, DropUnsetDispatch,
       ConsumeArgsDispatch, EndWithDispatch, InvokeCallbackDispatch, ElseDispatch
       DEF Dispatch, DispatchLoad, DispatchSave, DispatchDelete, Consume,
           ConsumeFails, CallbackThrows, Outcomes
<1>2. CASE UNCHANGED vars
  BY <1>2 DEF DispatchInv, LookupInv, BufferInv, ArgsFreedOnce, NoSilentLoss, vars,
     poolVars, clientVars, callVars, dispatchVars
<1> QED
  BY <1>1, <1>2, LifecycleDispatch, TrampolineDispatch, ElseDispatch DEF Next

-----------------------------------------------------------------------------
(* Nested calls and the thread_local buffer, under the keep-alive rule.    *)

Nesting == NestInv /\ ReplyInv

LEMMA StackElements ==
  ASSUME Types, NEW t \in Threads
  PROVE  /\ stack[t] \in Seq(Calls)
         /\ Len(stack[t]) \in Nat
         /\ stack[t] = <<>> <=> Len(stack[t]) = 0
         /\ \A i \in 1 .. Len(stack[t]) : stack[t][i] \in Calls
<1>1. stack[t] \in Seq(Calls)
  BY DEF Types, DispatchTypeOK
<1> QED
  BY <1>1, ElementOfSeq, EmptySeq

(* A dispatch that has answered runs no user code: the object it found     *)
(* still owns the callbacks.                                               *)
LEMMA AnsweredIsQuiet ==
  ASSUME KeepAlive, PoolInv, Types, NEW k \in Calls, RunsUserCode(k)
  PROVE  pc[k] = "running" /\ reply[k] = "nullptr"
<1>1. pc[k] = "running"
  BY DEF RunsUserCode
<1>2. cbs[k] \in Clients /\ phase[cbs[k]] = "live"
  BY <1>1 DEF PoolInv, PoolTypeOK, CallInv, KeepInv
<1>3. "object" \in holders[cbs[k]]
  BY <1>2 DEF PoolInv, HolderInv
<1>4. "object" # k
  BY PoolAssumption
<1> QED
  BY <1>1, <1>3, <1>4 DEF RunsUserCode

LEMMA InitNesting == Init => Nesting
<1>1. Init => \A t \in Threads : Len(stack[t]) = 0
  BY DEF Init
<1> QED
  BY <1>1 DEF Init, PoolInit, Nesting, NestInv, ReplyInv, OnStack

LEMMA SameNesting ==
  ASSUME Nesting,
         UNCHANGED <<pc, kind, thread, outcome, reply, got, stack, buffer>>
  PROVE  Nesting'
  BY DEF Nesting, NestInv, ReplyInv, OnStack

LEMMA LifecycleNesting ==
  ASSUME Nesting, NEW c \in Clients, Lifecycle(c)
  PROVE  Nesting'
<1>1. UNCHANGED <<dispatchVars, coreVars, buffer, callVars>>
  BY DEF Lifecycle, ConstructStorage, DestroyStorage, UseStorage, OnlyPool,
     Construct, MakeCallbacks, LockForClaim, ClaimSlot, PoolExhausted,
     CreateAccepted, CreateRefused, LockForRetract, Retract, ReleaseSlot, Attach,
     Detach, Destroy, BeginDestroy, LockForClear, Clear, DropMember
<1> QED
  BY <1>1, SameNesting DEF dispatchVars, coreVars, callVars

LEMMA TrampolineNesting ==
  ASSUME KeepAlive, PoolInv, Types, DispatchInv, Nesting,
         NEW k \in Calls, NEW c \in Clients, NEW t \in Threads, Trampoline(k, c, t)
  PROVE  Nesting'
<1>1. pc[k] = "idle" /\ pc' = [pc EXCEPT ![k] = "entered"]
  BY DEF Trampoline, Enter, Move
<1>2. UNCHANGED <<outcome, reply, got, buffer>>
  BY DEF Trampoline
<1>3. \A j \in Calls \ {k} : kind'[j] = kind[j] /\ pc'[j] = pc[j]
  BY <1>1 DEF Trampoline, Types, DispatchTypeOK, PoolInv, PoolTypeOK
<1>4. pc'[k] = "entered"
  BY <1>1 DEF PoolInv, PoolTypeOK
<1>5. reply[k] = "nullptr" /\ outcome[k] = "none" /\ got[k] = None
  BY <1>1 DEF Nesting, ReplyInv, Types, DispatchTypeOK, DispatchInv, BufferInv
<1>6. ~OnStack(k)
  BY <1>1 DEF OnStack, Types, StackInv
<1> DEFINE n == Len(stack[t])
<1>7. n \in Nat /\ (n # 0 => /\ pc[stack[t][n]] = "running"
                            /\ reply[stack[t][n]] = "nullptr")
  <2>1. n # 0 => RunsUserCode(stack[t][n])
    BY StackElements DEF Trampoline, MayEnter, Last
  <2> QED
    BY <2>1, StackElements, AnsweredIsQuiet
<1>8. /\ Len(stack'[t]) = n + 1
      /\ \A i \in 1 .. n : stack'[t][i] = stack[t][i] /\ stack[t][i] # k
      /\ stack'[t][n + 1] = k
      /\ \A u \in Threads \ {t} : stack'[u] = stack[u]
  BY <1>6, Pushed DEF OnStack
<1>9. NestInv'
  <2> SUFFICES ASSUME NEW u \in Threads, NEW i \in 1 .. Len(stack'[u])
      PROVE  /\ i # Len(stack'[u])
                  => pc'[stack'[u][i]] = "running" /\ reply'[stack'[u][i]] = "nullptr"
             /\ reply'[stack'[u][i]] = "buffer" => buffer'[u] = stack'[u][i]
    BY DEF NestInv
  <2> HIDE DEF n
  <2>1. CASE u # t
    <3>1. stack'[u] = stack[u]
      BY <1>8, <2>1
    <3>2. stack[u][i] \in Calls \ {k}
      BY <1>6, <3>1, StackElements DEF OnStack
    <3> QED
      BY <1>2, <1>3, <3>1, <3>2 DEF Nesting, NestInv
  <2>2. CASE u = t /\ i = n + 1
    <3>1. stack'[t][i] = k /\ Len(stack'[t]) = n + 1
      BY <1>8, <2>2
    <3> QED
      BY <1>2, <1>5, <2>2, <3>1
  <2>3. CASE u = t /\ i \in 1 .. n
    <3>1. stack'[t][i] = stack[t][i] /\ stack[t][i] \in Calls \ {k}
      BY <1>8, <2>3, StackElements DEF n
    <3>2. pc[stack[t][i]] = "running" /\ reply[stack[t][i]] = "nullptr"
      BY <1>7, <2>3 DEF Nesting, NestInv, n
    <3> QED
      BY <1>2, <1>3, <1>8, <2>3, <3>1, <3>2
  <2> QED
    BY <1>7, <1>8, <2>1, <2>2, <2>3
<1>10. \A j \in Calls \ {k} : OnStack(j)' <=> OnStack(j)
  <2>1. ASSUME NEW j \in Calls \ {k}, OnStack(j) PROVE OnStack(j)'
    <3>0. PICK u \in Threads : \E i \in 1 .. Len(stack[u]) : stack[u][i] = j
      BY <2>1 DEF OnStack
    <3>1. PICK i \in 1 .. Len(stack[u]) : stack[u][i] = j
      BY <3>0
    <3>2. i \in 1 .. Len(stack'[u]) /\ stack'[u][i] = j
      BY <1>7, <1>8, <3>1
    <3> QED
      BY <3>2 DEF OnStack
  <2>2. ASSUME NEW j \in Calls \ {k}, OnStack(j)' PROVE OnStack(j)
    <3>0. PICK u \in Threads : \E i \in 1 .. Len(stack'[u]) : stack'[u][i] = j
      BY <2>2 DEF OnStack
    <3>1. PICK i \in 1 .. Len(stack'[u]) : stack'[u][i] = j
      BY <3>0
    <3>2. i \in 1 .. Len(stack[u]) /\ stack[u][i] = j
      BY <1>7, <1>8, <3>1
    <3> QED
      BY <3>2 DEF OnStack
  <2> QED
    BY <2>1, <2>2
<1>11. OnStack(k)'
  <2>1. n + 1 \in 1 .. Len(stack'[t]) /\ stack'[t][n + 1] = k
    BY <1>7, <1>8
  <2> QED
    BY <2>1 DEF OnStack
<1>12. ReplyInv'
  <2> SUFFICES ASSUME NEW j \in Calls
      PROVE  /\ got'[j] # None => got'[j] = j
             /\ got'[j] # None <=> reply'[j] = "buffer" /\ ~OnStack(j)'
             /\ reply'[j] = "buffer"
                  => /\ kind'[j] = "load"
                     /\ \/ pc'[j] = "running"
                        \/ pc'[j] = "returned" /\ outcome'[j] = "delivered"
             /\ outcome'[j] = "delivered" /\ kind'[j] = "load" => reply'[j] = "buffer"
             /\ pc'[j] \notin {"idle", "returned"} => OnStack(j)'
    BY DEF ReplyInv
  <2>1. CASE j = k
    BY <1>2, <1>4, <1>5, <1>11, <2>1
  <2>2. CASE j # k
    BY <1>2, <1>3, <1>10, <2>2 DEF Nesting, ReplyInv
  <2> QED
    BY <2>1, <2>2
<1> QED
  BY <1>9, <1>12 DEF Nesting

(* What a dispatch does to the answer of its own call.                     *)
Answers(k) ==
  /\ kind[k] = "load" /\ pc[k] = "running" /\ pc'[k] = "running"
  /\ reply' = [reply EXCEPT ![k] = "buffer"]
  /\ buffer' = [buffer EXCEPT ![thread[k]] = k]
  /\ UNCHANGED outcome

GoesOn(k) ==
  /\ UNCHANGED <<reply, buffer, outcome>>
  /\ reply[k] = "nullptr"
  /\ pc'[k] # "returned"

Ends(k) ==
  /\ UNCHANGED <<reply, buffer>>
  /\ \E how \in Outcomes \ {"none"} :
       /\ outcome' = [outcome EXCEPT ![k] = how]
       /\ reply[k] = "buffer" => how = "delivered"
       /\ how = "delivered" /\ kind[k] = "load" => reply[k] = "buffer"
  /\ pc'[k] = "returned"

LEMMA DispatchAnswers ==
  ASSUME PoolInv, Types, DispatchInv, Nesting, NEW k \in Calls, Dispatch(k)
  PROVE  /\ pc[k] \in {"entered", "loading", "loaded", "running"}
         /\ Answers(k) \/ GoesOn(k) \/ Ends(k)
<1>1. pc \in [Calls -> PCs] /\ reply \in [Calls -> {"nullptr", "buffer"}]
  BY DEF PoolInv, PoolTypeOK, Types, DispatchTypeOK
<1>2. reply[k] = "buffer"
        => kind[k] = "load" /\ (pc[k] = "running" \/ pc[k] = "returned")
  BY DEF Nesting, ReplyInv
<1>3. ASSUME NEW how \in Outcomes \ {"none"}, EndWith(k, how),
             reply[k] = "buffer" => how = "delivered",
             how = "delivered" /\ kind[k] = "load" => reply[k] = "buffer"
      PROVE  pc[k] \in {"loaded", "running"} /\ Ends(k)
  BY <1>1, <1>3 DEF EndWith, Finish, Return, Move, Ends
<1>4. CASE FetchCallbacks(k) \/ InvokeCallback(k)
  BY <1>1, <1>2, <1>4 DEF FetchCallbacks, InvokeCallback, LockForLoad, LoadCallbacks,
     Invoke, Move, OnlyPool, dispatchVars, GoesOn
<1>5. CASE DropUnset(k)
  <2>1. /\ pc[k] = "loaded" /\ pc'[k] = "returned" /\ UNCHANGED <<reply, buffer>>
        /\ outcome' = [outcome EXCEPT ![k] = "dropped"]
    BY <1>1, <1>5 DEF DropUnset, Finish, Return, Move
  <2>2. reply[k] = "nullptr" /\ "dropped" \in Outcomes \ {"none"}
    BY <1>1, <1>2, <2>1 DEF Outcomes
  <2>3. Ends(k)
    BY <2>1, <2>2 DEF Ends
  <2> QED
    BY <2>1, <2>3
<1>6. CASE ConsumeArgs(k)
  BY <1>1, <1>2, <1>6 DEF ConsumeArgs, GoesOn, poolVars, callVars
<1>7. CASE ReplyWithBuffer(k) /\ kind[k] = "load"
  BY <1>7 DEF ReplyWithBuffer, Answers, poolVars, callVars
<1>8. CASE ConsumeFails(k) \/ CallbackThrows(k)
  BY <1>1, <1>2, <1>3, <1>8 DEF ConsumeFails, CallbackThrows, Outcomes
<1>9. CASE DispatchLoad(k) \/ DispatchSave(k) \/ DispatchDelete(k)
  BY <1>1, <1>2, <1>3, <1>4, <1>5, <1>6, <1>7, <1>8, <1>9
     DEF DispatchLoad, DispatchSave, DispatchDelete, Consume, Outcomes
<1> QED
  BY <1>4, <1>9 DEF Dispatch

LEMMA DispatchNesting ==
  ASSUME PoolInv, Types, DispatchInv, Nesting, NEW k \in Calls, Dispatch(k)
  PROVE  Nesting'
<1>1. PICK t \in Threads : /\ thread[k] = t
                           /\ Len(stack[t]) \in Nat \ {0}
                           /\ stack[t][Len(stack[t])] = k
  BY Top DEF Dispatch
<1>2. UNCHANGED <<kind, thread, got, stack>>
  BY DispatchMoves
<1>3. \A j \in Calls \ {k} :
        pc'[j] = pc[j] /\ reply'[j] = reply[j] /\ outcome'[j] = outcome[j]
  <2>1. /\ pc \in [Calls -> PCs] /\ outcome \in [Calls -> Outcomes]
        /\ reply \in [Calls -> {"nullptr", "buffer"}]
    BY DEF PoolInv, PoolTypeOK, Types, DispatchTypeOK
  <2>2. \E p : pc' = [pc EXCEPT ![k] = p]
    BY DispatchMoves
  <2>3. reply' = reply \/ \E r : reply' = [reply EXCEPT ![k] = r]
    BY DispatchAnswers DEF Answers, GoesOn, Ends
  <2>4. outcome' = outcome \/ \E how : outcome' = [outcome EXCEPT ![k] = how]
    BY DispatchAnswers DEF Answers, GoesOn, Ends
  <2> QED
    BY <2>1, <2>2, <2>3, <2>4
<1>4. \A u \in Threads \ {t} : buffer'[u] = buffer[u]
  <2>1. buffer \in [Threads -> Calls \cup {None}]
    BY DEF Types, DispatchTypeOK
  <2>2. buffer' = buffer \/ buffer' = [buffer EXCEPT ![t] = k]
    BY <1>1, DispatchAnswers DEF Answers, GoesOn, Ends
  <2> QED
    BY <2>1, <2>2
<1>5. \A u \in Threads : \A i \in 1 .. Len(stack[u]) :
        /\ stack[u][i] \in Calls
        /\ stack[u][i] = k => u = t /\ i = Len(stack[t])
  <2> SUFFICES ASSUME NEW u \in Threads, NEW i \in 1 .. Len(stack[u])
      PROVE  /\ stack[u][i] \in Calls
             /\ stack[u][i] = k => u = t /\ i = Len(stack[t])
    OBVIOUS
  <2>1. stack[u][i] \in Calls /\ thread[stack[u][i]] = u
    BY StackElements DEF Types, StackInv
  <2>2. Len(stack[t]) \in 1 .. Len(stack[t])
    BY <1>1
  <2> QED
    BY <1>1, <2>1, <2>2 DEF Types, StackInv
<1>6. reply'[k] = "buffer" => buffer'[t] = k
  <2>1. Len(stack[t]) \in 1 .. Len(stack[t])
    BY <1>1
  <2>2. reply[k] = "buffer" => buffer[t] = k
    BY <1>1, <2>1 DEF Nesting, NestInv
  <2> QED
    BY <1>1, <2>2, DispatchAnswers
       DEF Types, DispatchTypeOK, Answers, GoesOn, Ends
<1>7. ASSUME NEW i \in 1 .. Len(stack[t]), i # Len(stack[t])
      PROVE  reply[stack[t][i]] = "nullptr"
  BY <1>7 DEF Nesting, NestInv
<1>8. NestInv'
  <2> SUFFICES ASSUME NEW u \in Threads, NEW i \in 1 .. Len(stack[u])
      PROVE  /\ i # Len(stack[u])
                  => pc'[stack[u][i]] = "running" /\ reply'[stack[u][i]] = "nullptr"
             /\ reply'[stack[u][i]] = "buffer" => buffer'[u] = stack[u][i]
    BY <1>2 DEF NestInv
  <2>1. CASE u = t /\ i = Len(stack[t])
    BY <1>1, <1>6, <2>1 DEF Nesting, NestInv
  <2>2. CASE ~(u = t /\ i = Len(stack[t]))
    <3>1. stack[u][i] \in Calls \ {k}
      BY <1>5, <2>2
    <3> QED
      BY <1>3, <1>4, <1>7, <2>2, <3>1 DEF Nesting, NestInv
  <2> QED
    BY <2>1, <2>2
<1>9. OnStack(k)
  <2>1. Len(stack[t]) \in 1 .. Len(stack[t])
    BY <1>1
  <2> QED
    BY <1>1, <2>1 DEF OnStack
<1>10. \A j \in Calls : OnStack(j)' <=> OnStack(j)
  BY <1>2 DEF OnStack
<1>11. ReplyInv'
  <2> SUFFICES ASSUME NEW j \in Calls
      PROVE  /\ got'[j] # None => got'[j] = j
             /\ got'[j] # None <=> reply'[j] = "buffer" /\ ~OnStack(j)'
             /\ reply'[j] = "buffer"
                  => /\ kind'[j] = "load"
                     /\ \/ pc'[j] = "running"
                        \/ pc'[j] = "returned" /\ outcome'[j] = "delivered"
             /\ outcome'[j] = "delivered" /\ kind'[j] = "load" => reply'[j] = "buffer"
             /\ pc'[j] \notin {"idle", "returned"} => OnStack(j)'
    BY DEF ReplyInv
  <2>1. CASE j # k
    BY <1>2, <1>3, <1>10, <2>1 DEF Nesting, ReplyInv
  <2>2. CASE j = k
    <3>1. got'[k] = None /\ OnStack(k)'
      BY <1>2, <1>9, <1>10 DEF Nesting, ReplyInv
    <3>2. outcome[k] = "none"
      BY DispatchAnswers DEF DispatchInv, BufferInv
    <3>3. reply'[k] = "buffer"
            => /\ kind[k] = "load"
               /\ pc'[k] = "running" \/ (pc'[k] = "returned" /\ outcome'[k] = "delivered")
      BY DispatchAnswers
         DEF Answers, GoesOn, Ends, Nesting, ReplyInv, Types, DispatchTypeOK
    <3>4. outcome'[k] = "delivered" /\ kind[k] = "load" => reply'[k] = "buffer"
      BY <3>2, DispatchAnswers DEF Answers, GoesOn, Ends, Types, DispatchTypeOK
    <3> QED
      BY <1>2, <2>2, <3>1, <3>3, <3>4
  <2> QED
    BY <2>1, <2>2
<1> QED
  BY <1>8, <1>11 DEF Nesting

LEMMA CoreResumesNesting ==
  ASSUME PoolInv, Types, Nesting, NEW k \in Calls, CoreResumes(k)
  PROVE  Nesting'
<1>1. PICK t \in Threads :
        /\ thread[k] = t
        /\ Len(stack[t]) \in Nat \ {0}
        /\ stack[t][Len(stack[t])] = k
        /\ Len(stack'[t]) = Len(stack[t]) - 1
        /\ \A i \in 1 .. Len(stack[t]) - 1 : stack'[t][i] = stack[t][i]
        /\ \A u \in Threads \ {t} : stack'[u] = stack[u]
  BY Popped
<1>2. UNCHANGED <<kind, thread, outcome, reply, buffer, pc>> /\ pc[k] = "returned"
  BY DEF CoreResumes, dispatchVars, poolVars, callVars
<1>3. Len(stack[t]) \in 1 .. Len(stack[t])
  BY <1>1
<1>4. ASSUME NEW u \in Threads, NEW i \in 1 .. Len(stack'[u])
      PROVE  /\ i \in 1 .. Len(stack[u]) /\ stack'[u][i] = stack[u][i]
             /\ u = t => i # Len(stack[t])
  BY <1>1
<1>5. NestInv'
  <2> SUFFICES ASSUME NEW u \in Threads, NEW i \in 1 .. Len(stack'[u])
      PROVE  /\ i # Len(stack'[u])
                  => pc[stack'[u][i]] = "running" /\ reply[stack'[u][i]] = "nullptr"
             /\ reply[stack'[u][i]] = "buffer" => buffer[u] = stack'[u][i]
    BY <1>2 DEF NestInv
  <2>1. i # Len(stack'[u])
          => pc[stack'[u][i]] = "running" /\ reply[stack'[u][i]] = "nullptr"
    BY <1>1, <1>4 DEF Nesting, NestInv
  <2>2. reply[stack'[u][i]] = "buffer" => buffer[u] = stack'[u][i]
    BY <1>4 DEF Nesting, NestInv
  <2> QED
    BY <2>1, <2>2
<1>6. OnStack(k) /\ ~OnStack(k)'
  <2>1. OnStack(k)
    BY <1>1, <1>3 DEF OnStack
  <2>2. ASSUME NEW u \in Threads, NEW i \in 1 .. Len(stack'[u])
        PROVE  stack'[u][i] # k
    <3>1. CASE u = t
      BY <1>1, <1>3, <1>4, <3>1 DEF Types, StackInv
    <3>2. CASE u # t
      BY <1>1, <1>4, <3>2 DEF Types, StackInv
    <3> QED
      BY <3>1, <3>2
  <2> QED
    BY <2>1, <2>2 DEF OnStack
<1>7. \A j \in Calls \ {k} : OnStack(j)' <=> OnStack(j)
  <2>1. ASSUME NEW j \in Calls \ {k}, OnStack(j)' PROVE OnStack(j)
    BY <1>4, <2>1 DEF OnStack
  <2>2. ASSUME NEW j \in Calls \ {k}, OnStack(j) PROVE OnStack(j)'
    <3>1. PICK u \in Threads : \E i \in 1 .. Len(stack[u]) : stack[u][i] = j
      BY <2>2 DEF OnStack
    <3>2. PICK i \in 1 .. Len(stack[u]) : stack[u][i] = j
      BY <3>1
    <3>3. i \in 1 .. Len(stack'[u]) /\ stack'[u][i] = j
      BY <1>1, <3>2
    <3> QED
      BY <3>3 DEF OnStack
  <2> QED
    BY <2>1, <2>2
<1>8. /\ reply[k] = "buffer" => got'[k] = k
      /\ reply[k] # "buffer" => got'[k] = None
      /\ \A j \in Calls \ {k} : got'[j] = got[j]
  <2>1. got \in [Calls -> Calls \cup {None}]
    BY DEF Types, DispatchTypeOK
  <2>2. reply[k] = "buffer" => buffer[t] = k
    BY <1>1, <1>3 DEF Nesting, NestInv
  <2>3. got[k] = None
    BY <1>6 DEF Nesting, ReplyInv
  <2> QED
    BY <1>1, <2>1, <2>2, <2>3 DEF CoreResumes
<1>9. ReplyInv'
  <2> SUFFICES ASSUME NEW j \in Calls
      PROVE  /\ got'[j] # None => got'[j] = j
             /\ got'[j] # None <=> reply[j] = "buffer" /\ ~OnStack(j)'
             /\ reply[j] = "buffer"
                  => /\ kind[j] = "load"
                     /\ \/ pc[j] = "running"
                        \/ pc[j] = "returned" /\ outcome[j] = "delivered"
             /\ outcome[j] = "delivered" /\ kind[j] = "load" => reply[j] = "buffer"
             /\ pc[j] \notin {"idle", "returned"} => OnStack(j)'
    BY <1>2 DEF ReplyInv
  <2>1. CASE j = k
    BY <1>2, <1>6, <1>8, <2>1, PoolAssumption DEF Nesting, ReplyInv
  <2>2. CASE j # k
    BY <1>7, <1>8, <2>2 DEF Nesting, ReplyInv
  <2> QED
    BY <2>1, <2>2
<1> QED
  BY <1>5, <1>9 DEF Nesting

LEMMA StepNesting ==
  KeepAlive /\ PoolInv /\ Types /\ DispatchInv /\ Nesting /\ [Next]_vars => Nesting'
<1>1. Nesting /\ UNCHANGED vars => Nesting'
  BY SameNesting DEF vars, poolVars, callVars, dispatchVars, coreVars
<1> QED
  BY <1>1, LifecycleNesting, TrampolineNesting, DispatchNesting, CoreResumesNesting
     DEF Next

-----------------------------------------------------------------------------
(* The invariants of the pool and of the dispatch functions hold in every  *)
(* reachable state.                                                        *)
THEOREM DispatchInvariance == Spec => [](PoolInv /\ Types /\ DispatchInv)
  BY InitDispatch, StepDispatch, TypesHold, PTL DEF Spec

(* So does the one about nested loads, if storages are kept alive while    *)
(* they are in use.                                                        *)
THEOREM NestingInvariance ==
  ASSUME KeepAlive
  PROVE  Spec => [](Types /\ Nesting)
<1>1. PoolInv /\ Types /\ DispatchInv /\ Nesting /\ [Next]_vars => Nesting'
  BY StepNesting
<1> QED
  BY <1>1, InitNesting, DispatchInvariance, PTL DEF Spec

(* Every variable keeps its type, and a call in progress has one place: it *)
(* is on the stack of one thread, once, however calls nest and whatever    *)
(* storages are destroyed under them.                                      *)
THEOREM StorageTypes == Spec => [](TypeOK /\ OneStack)
<1>1. PoolInv /\ Types => TypeOK
  BY DEF PoolInv, Types, DispatchTypeOK, TypeOK
<1>2. Types => OneStack
  BY DEF Types, StackInv, OneStack
<1> QED
  BY <1>1, <1>2, DispatchInvariance, PTL

(* No buffer of the core is freed twice, and one is forgotten only if its  *)
(* text could not be copied.                                               *)
THEOREM BuffersFreed == Spec => []ArgsFreedOnce
<1>1. DispatchInv => ArgsFreedOnce
  BY DEF DispatchInv
<1> QED
  BY <1>1, DispatchInvariance, PTL

(* No call is lost or turned away without a reason the owner can know.     *)
THEOREM NothingLost == Spec => []NoSilentLoss
<1>1. DispatchInv => NoSilentLoss
  BY DEF DispatchInv
<1> QED
  BY <1>1, DispatchInvariance, PTL

(* Whatever is nested on whatever threads, the core copies the answer of   *)
(* the load it made.                                                       *)
THEOREM RepliesOwn ==
  ASSUME KeepAlive
  PROVE  Spec => []LoadRepliesOwn
<1>1. Types /\ Nesting => LoadRepliesOwn
  <2> SUFFICES ASSUME Types, Nesting, NEW k \in Calls
      PROVE  /\ got[k] # None => got[k] = k
             /\ got[k] # None
                  <=> /\ outcome[k] = "delivered" /\ kind[k] = "load"
                      /\ \A t \in Threads : k \notin Range(stack[t])
    BY DEF LoadRepliesOwn
  <2>1. OnStack(k) <=> \E t \in Threads : k \in Range(stack[t])
    <3>1. \A t \in Threads : DOMAIN stack[t] = 1 .. Len(stack[t])
      BY StackElements
    <3> QED
      BY <3>1 DEF OnStack, Range
  <2> QED
    BY <2>1 DEF Nesting, ReplyInv
<1> QED
  BY <1>1, NestingInvariance, PTL

=============================================================================
