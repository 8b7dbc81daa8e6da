--------------------------- MODULE SlotPoolProofs ---------------------------
(***************************************************************************)
(* Proofs about SlotPool, for every number of objects, calls and slots.    *)
(*                                                                         *)
(* The safety properties of SlotPool are not inductive one by one; PoolInv *)
(* is the conjunction that is.  It says who holds the mutex (MutexInv),    *)
(* in which phases an object has a slot (SlotInv), that the trampolines an *)
(* adapter holds are those of that slot until it is given back (TrampInv), *)
(* who owns the callbacks (HolderInv), and what is known of a call         *)
(* (CallInv), in particular under the keep-alive rule (KeepInv).           *)
(***************************************************************************)
EXTENDS SlotPool, FiniteSetTheorems, TLAPS

InLock == {"scanning", "retracting", "clearing"}

MutexInv ==
  /\ \A c \in Clients : mutex = c <=> phase[c] \in InLock
  /\ \A k \in Calls : mutex = k <=> pc[k] = "loading"

SlotInv ==
  /\ SlotOwnership
  /\ \A c \in Clients :
       /\ phase[c] \in {"claimed", "refused", "retracting", "releasing", "clearing"}
            => slot[c] # NoSlot
       /\ phase[c] \in {"unborn", "claiming", "scanning", "cleared", "dead"}
            => slot[c] = NoSlot

TrampInv ==
  \A c \in Clients :
    /\ ref[c] => phase[c] = "live" /\ tramp[c] # NoSlot
    /\ c \in inUse => tramp[c] # NoSlot
    /\ tramp[c] # NoSlot =>
         /\ phase[c] \in {"live", "releasing", "clearing", "cleared", "dead"}
         /\ phase[c] \notin {"cleared", "dead"} => slot[c] = tramp[c]
         /\ phase[c] = "live" => ref[c]

HolderInv ==
  \A c \in Clients :
    /\ "slot" \in holders[c] <=> slot[c] # NoSlot
    /\ "object" \in holders[c] <=> phase[c] \notin {"unborn", "dead"}
    /\ phase[c] = "unborn" => holders[c] = {}
    /\ \A k \in Calls : k \in holders[c] <=> cbs[k] = c

CallInv ==
  \A k \in Calls :
    /\ cbs[k] # None => pc[k] \in {"loaded", "running"}
    /\ pc[k] # "idle" => origin[k] \in Clients /\ tramp[origin[k]] # NoSlot
    /\ cbs[k] \notin {None, origin[k]}
         => phase[origin[k]] \in {"cleared", "dead"}

KeepInv ==
  KeepAlive =>
    /\ \A c \in inUse : phase[c] = "live"
    /\ \A k \in Calls :
         /\ pc[k] \notin {"idle", "returned"} => phase[origin[k]] = "live"
         /\ pc[k] \in {"loaded", "running"} => cbs[k] = origin[k]

PoolInv ==
  PoolTypeOK /\ MutexInv /\ SlotInv /\ TrampInv /\ HolderInv /\ CallInv /\ KeepInv


-----------------------------------------------------------------------------
(* The initial states satisfy the invariant.                               *)

LEMMA InitInv == PoolInit => PoolInv
<1> SUFFICES ASSUME PoolInit PROVE PoolInv
  OBVIOUS
<1> USE PoolAssumption DEF PoolInit, NoSlot
<1>1. PoolTypeOK
  BY DEF PoolTypeOK, Slots, Phases, PCs
<1>2. MutexInv
  BY DEF MutexInv, InLock
<1>3. SlotInv
  BY DEF SlotInv, SlotOwnership, Slots
<1>4. TrampInv /\ HolderInv
  BY DEF TrampInv, HolderInv
<1>5. CallInv /\ KeepInv
  BY DEF CallInv, KeepInv
<1> QED
  BY <1>1, <1>2, <1>3, <1>4, <1>5 DEF PoolInv

-----------------------------------------------------------------------------
(* Every action preserves it: one lemma per action, one step per conjunct  *)
(* the action can disturb, and one step for those it cannot.               *)

LEMMA MakeCallbacksInv ==
  ASSUME PoolInv, NEW c \in Clients, MakeCallbacks(c)
  PROVE  PoolInv'
<1> USE PoolAssumption
    DEF PoolInv, PoolTypeOK, Slots, NoSlot, clientVars, callVars,
        MakeCallbacks, Step
<1>1. PoolTypeOK'
  BY DEF Phases, PCs
<1>2. MutexInv'
  BY DEF MutexInv, InLock
<1>3. SlotInv'
  BY DEF SlotInv, SlotOwnership
<1>4. TrampInv'
  BY DEF TrampInv
<1>5. HolderInv'
  BY DEF HolderInv
<1>6. CallInv'
  BY DEF CallInv
<1>7. KeepInv'
  BY DEF KeepInv
<1> QED
  BY <1>1, <1>2, <1>3, <1>4, <1>5, <1>6, <1>7

LEMMA LockForClaimInv ==
  ASSUME PoolInv, NEW c \in Clients, LockForClaim(c)
  PROVE  PoolInv'
<1> USE PoolAssumption
    DEF PoolInv, PoolTypeOK, Slots, NoSlot, clientVars, callVars,
        LockForClaim, Step, Lock
<1>1. PoolTypeOK'
  BY DEF Phases, PCs
<1>2. MutexInv'
  BY DEF MutexInv, InLock
<1>3. SlotInv'
  BY DEF SlotInv, SlotOwnership
<1>4. TrampInv'
  BY DEF TrampInv
<1>5. HolderInv'
  BY DEF HolderInv
<1>6. CallInv'
  BY DEF CallInv
<1>7. KeepInv'
  BY DEF KeepInv
<1> QED
  BY <1>1, <1>2, <1>3, <1>4, <1>5, <1>6, <1>7

LEMMA ClaimSlotInv ==
  ASSUME PoolInv, NEW c \in Clients, ClaimSlot(c)
  PROVE  PoolInv'
<1> USE PoolAssumption
    DEF PoolInv, PoolTypeOK, Slots, NoSlot, clientVars, callVars,
        ClaimSlot, Step, Unlock
<1>1. PoolTypeOK'
  BY DEF Phases, PCs
<1>2. MutexInv'
  BY DEF MutexInv, InLock
<1>3. SlotInv'
  BY DEF SlotInv, SlotOwnership
<1>4. TrampInv'
  BY DEF TrampInv
<1>5. HolderInv'
  BY DEF HolderInv
<1>6. CallInv'
  BY DEF CallInv
<1>7. KeepInv'
  BY DEF KeepInv
<1> QED
  BY <1>1, <1>2, <1>3, <1>4, <1>5, <1>6, <1>7

LEMMA PoolExhaustedInv ==
  ASSUME PoolInv, NEW c \in Clients, PoolExhausted(c)
  PROVE  PoolInv'
<1> USE PoolAssumption
    DEF PoolInv, PoolTypeOK, Slots, NoSlot, clientVars, callVars,
        PoolExhausted, Step, Unlock
<1>1. PoolTypeOK'
  BY DEF Phases, PCs
<1>2. MutexInv'
  BY DEF MutexInv, InLock
<1>3. SlotInv'
  BY DEF SlotInv, SlotOwnership
<1>4. TrampInv'
  BY DEF TrampInv
<1>5. HolderInv'
  BY DEF HolderInv
<1>6. CallInv'
  BY DEF CallInv
<1>7. KeepInv'
  BY DEF KeepInv
<1> QED
  BY <1>1, <1>2, <1>3, <1>4, <1>5, <1>6, <1>7

LEMMA CreateAcceptedInv ==
  ASSUME PoolInv, NEW c \in Clients, CreateAccepted(c)
  PROVE  PoolInv'
<1> USE PoolAssumption
    DEF PoolInv, PoolTypeOK, Slots, NoSlot, clientVars, callVars,
        CreateAccepted, Step
<1>1. PoolTypeOK'
  BY DEF Phases, PCs
<1>2. MutexInv'
  BY DEF MutexInv, InLock
<1>3. SlotInv'
  BY DEF SlotInv, SlotOwnership
<1>4. TrampInv'
  BY DEF TrampInv, SlotInv
<1>5. HolderInv'
  BY DEF HolderInv
<1>6. CallInv'
  BY DEF CallInv, SlotInv
<1>7. KeepInv'
  BY DEF KeepInv
<1> QED
  BY <1>1, <1>2, <1>3, <1>4, <1>5, <1>6, <1>7

LEMMA CreateRefusedInv ==
  ASSUME PoolInv, NEW c \in Clients, CreateRefused(c)
  PROVE  PoolInv'
<1> USE PoolAssumption
    DEF PoolInv, PoolTypeOK, Slots, NoSlot, clientVars, callVars,
        CreateRefused, Step
<1>1. PoolTypeOK'
  BY DEF Phases, PCs
<1>2. MutexInv'
  BY DEF MutexInv, InLock
<1>3. SlotInv'
  BY DEF SlotInv, SlotOwnership
<1>4. TrampInv'
  BY DEF TrampInv
<1>5. HolderInv'
  BY DEF HolderInv
<1>6. CallInv'
  BY DEF CallInv
<1>7. KeepInv'
  BY DEF KeepInv
<1> QED
  BY <1>1, <1>2, <1>3, <1>4, <1>5, <1>6, <1>7

LEMMA LockForRetractInv ==
  ASSUME PoolInv, NEW c \in Clients, LockForRetract(c)
  PROVE  PoolInv'
<1> USE PoolAssumption
    DEF PoolInv, PoolTypeOK, Slots, NoSlot, clientVars, callVars,
        LockForRetract, Step, Lock
<1>1. PoolTypeOK'
  BY DEF Phases, PCs
<1>2. MutexInv'
  BY DEF MutexInv, InLock
<1>3. SlotInv'
  BY DEF SlotInv, SlotOwnership
<1>4. TrampInv'
  BY DEF TrampInv
<1>5. HolderInv'
  BY DEF HolderInv
<1>6. CallInv'
  BY DEF CallInv
<1>7. KeepInv'
  BY DEF KeepInv
<1> QED
  BY <1>1, <1>2, <1>3, <1>4, <1>5, <1>6, <1>7

LEMMA RetractInv ==
  ASSUME PoolInv, NEW c \in Clients, Retract(c)
  PROVE  PoolInv'
<1> USE PoolAssumption
    DEF PoolInv, PoolTypeOK, Slots, NoSlot, clientVars, callVars,
        Retract, Step, ReleaseSlot, Unlock
<1>1. PoolTypeOK'
  BY DEF Phases, PCs
<1>2. MutexInv'
  BY DEF MutexInv, InLock
<1>3. SlotInv'
  BY DEF SlotInv, SlotOwnership
<1>4. TrampInv'
  BY DEF TrampInv
<1>5. HolderInv'
  BY DEF HolderInv
<1>6. CallInv'
  BY DEF CallInv
<1>7. KeepInv'
  BY DEF KeepInv
<1> QED
  BY <1>1, <1>2, <1>3, <1>4, <1>5, <1>6, <1>7

LEMMA AttachInv ==
  ASSUME PoolInv, NEW c \in Clients, Attach(c)
  PROVE  PoolInv'
<1> USE PoolAssumption
    DEF PoolInv, PoolTypeOK, Slots, NoSlot, clientVars, callVars,
        Attach
<1>1. PoolTypeOK'
  BY DEF Phases, PCs
<1>2. TrampInv'
  BY DEF TrampInv
<1>3. KeepInv'
  BY DEF KeepInv, TrampInv
<1>4. MutexInv' /\ SlotInv' /\ HolderInv' /\ CallInv'
  BY DEF MutexInv, InLock, SlotInv, SlotOwnership, HolderInv, CallInv
<1> QED
  BY <1>1, <1>2, <1>3, <1>4

LEMMA DetachInv ==
  ASSUME PoolInv, NEW c \in Clients, Detach(c)
  PROVE  PoolInv'
<1> USE PoolAssumption
    DEF PoolInv, PoolTypeOK, Slots, NoSlot, clientVars, callVars,
        Detach
<1>1. PoolTypeOK'
  BY DEF Phases, PCs
<1>2. TrampInv'
  BY DEF TrampInv
<1>3. KeepInv'
  BY DEF KeepInv
<1>4. MutexInv' /\ SlotInv' /\ HolderInv' /\ CallInv'
  BY DEF MutexInv, InLock, SlotInv, SlotOwnership, HolderInv, CallInv
<1> QED
  BY <1>1, <1>2, <1>3, <1>4

LEMMA BeginDestroyInv ==
  ASSUME PoolInv, NEW c \in Clients, BeginDestroy(c)
  PROVE  PoolInv'
<1> USE PoolAssumption
    DEF PoolInv, PoolTypeOK, Slots, NoSlot, clientVars, callVars,
        BeginDestroy, Step, MayDestroy, Pending
<1>1. PoolTypeOK'
  BY DEF Phases, PCs
<1>2. MutexInv'
  BY DEF MutexInv, InLock
<1>3. SlotInv'
  BY DEF SlotInv, SlotOwnership
<1>4. TrampInv'
  BY DEF TrampInv
<1>5. HolderInv'
  BY DEF HolderInv
<1>6. CallInv'
  BY DEF CallInv
<1>7. KeepInv'
  BY DEF KeepInv
<1> QED
  BY <1>1, <1>2, <1>3, <1>4, <1>5, <1>6, <1>7

LEMMA LockForClearInv ==
  ASSUME PoolInv, NEW c \in Clients, LockForClear(c)
  PROVE  PoolInv'
<1> USE PoolAssumption
    DEF PoolInv, PoolTypeOK, Slots, NoSlot, clientVars, callVars,
        LockForClear, Step, Lock
<1>1. PoolTypeOK'
  BY DEF Phases, PCs
<1>2. MutexInv'
  BY DEF MutexInv, InLock
<1>3. SlotInv'
  BY DEF SlotInv, SlotOwnership
<1>4. TrampInv'
  BY DEF TrampInv
<1>5. HolderInv'
  BY DEF HolderInv
<1>6. CallInv'
  BY DEF CallInv
<1>7. KeepInv'
  BY DEF KeepInv
<1> QED
  BY <1>1, <1>2, <1>3, <1>4, <1>5, <1>6, <1>7

LEMMA ClearInv ==
  ASSUME PoolInv, NEW c \in Clients, Clear(c)
  PROVE  PoolInv'
<1> USE PoolAssumption
    DEF PoolInv, PoolTypeOK, Slots, NoSlot, clientVars, callVars,
        Clear, Step, ReleaseSlot, Unlock
<1>1. PoolTypeOK'
  BY DEF Phases, PCs
<1>2. MutexInv'
  BY DEF MutexInv, InLock
<1>3. SlotInv'
  BY DEF SlotInv, SlotOwnership
<1>4. TrampInv'
  BY DEF TrampInv
<1>5. HolderInv'
  BY DEF HolderInv
<1>6. CallInv'
  BY DEF CallInv
<1>7. KeepInv'
  BY DEF KeepInv
<1> QED
  BY <1>1, <1>2, <1>3, <1>4, <1>5, <1>6, <1>7

LEMMA DropMemberInv ==
  ASSUME PoolInv, NEW c \in Clients, DropMember(c)
  PROVE  PoolInv'
<1> USE PoolAssumption
    DEF PoolInv, PoolTypeOK, Slots, NoSlot, clientVars, callVars,
        DropMember, Step
<1>1. PoolTypeOK'
  BY DEF Phases, PCs
<1>2. MutexInv'
  BY DEF MutexInv, InLock
<1>3. SlotInv'
  BY DEF SlotInv, SlotOwnership
<1>4. TrampInv'
  BY DEF TrampInv
<1>5. HolderInv'
  BY DEF HolderInv
<1>6. CallInv'
  BY DEF CallInv
<1>7. KeepInv'
  BY DEF KeepInv
<1> QED
  BY <1>1, <1>2, <1>3, <1>4, <1>5, <1>6, <1>7

LEMMA EnterInv ==
  ASSUME PoolInv, NEW k \in Calls, NEW c \in Clients, Enter(k, c)
  PROVE  PoolInv'
<1> USE PoolAssumption
    DEF PoolInv, PoolTypeOK, Slots, NoSlot, clientVars, callVars,
        Enter, Move
<1>1. PoolTypeOK'
  BY DEF Phases, PCs
<1>2. MutexInv'
  BY DEF MutexInv, InLock
<1>3. CallInv'
  BY DEF CallInv, TrampInv
<1>4. KeepInv'
  BY DEF KeepInv, TrampInv
<1>5. SlotInv' /\ TrampInv' /\ HolderInv'
  BY DEF SlotInv, SlotOwnership, TrampInv, HolderInv
<1> QED
  BY <1>1, <1>2, <1>3, <1>4, <1>5

LEMMA LockForLoadInv ==
  ASSUME PoolInv, NEW k \in Calls, LockForLoad(k)
  PROVE  PoolInv'
<1> USE PoolAssumption
    DEF PoolInv, PoolTypeOK, Slots, NoSlot, clientVars, callVars,
        LockForLoad, Move, Lock
<1>1. PoolTypeOK'
  BY DEF Phases, PCs
<1>2. MutexInv'
  BY DEF MutexInv, InLock
<1>3. CallInv'
  BY DEF CallInv
<1>4. KeepInv'
  BY DEF KeepInv
<1>5. SlotInv' /\ TrampInv' /\ HolderInv'
  BY DEF SlotInv, SlotOwnership, TrampInv, HolderInv
<1> QED
  BY <1>1, <1>2, <1>3, <1>4, <1>5

LEMMA LoadCallbacksInv ==
  ASSUME PoolInv, NEW k \in Calls, LoadCallbacks(k)
  PROVE  PoolInv'
<1> USE PoolAssumption
    DEF PoolInv, PoolTypeOK, Slots, NoSlot, clientVars, callVars,
        LoadCallbacks, Move, Unlock
<1>1. PoolTypeOK'
  BY DEF Phases, PCs, CallInv
<1>2. MutexInv'
  BY DEF MutexInv, InLock
<1>3. HolderInv'
  BY DEF HolderInv, CallInv, SlotInv, SlotOwnership
<1>4. CallInv'
  BY DEF CallInv, SlotInv, SlotOwnership, TrampInv
<1>5. KeepInv'
  BY DEF KeepInv, SlotInv, SlotOwnership, TrampInv, CallInv
<1>6. SlotInv' /\ TrampInv'
  BY DEF SlotInv, SlotOwnership, TrampInv
<1> QED
  BY <1>1, <1>2, <1>3, <1>4, <1>5, <1>6

LEMMA InvokeInv ==
  ASSUME PoolInv, NEW k \in Calls, Invoke(k)
  PROVE  PoolInv'
<1> USE PoolAssumption
    DEF PoolInv, PoolTypeOK, Slots, NoSlot, clientVars, callVars,
        Invoke, Move
<1>1. PoolTypeOK'
  BY DEF Phases, PCs
<1>2. MutexInv'
  BY DEF MutexInv, InLock
<1>3. CallInv'
  BY DEF CallInv
<1>4. KeepInv'
  BY DEF KeepInv
<1>5. SlotInv' /\ TrampInv' /\ HolderInv'
  BY DEF SlotInv, SlotOwnership, TrampInv, HolderInv
<1> QED
  BY <1>1, <1>2, <1>3, <1>4, <1>5

LEMMA ReturnInv ==
  ASSUME PoolInv, NEW k \in Calls, Return(k)
  PROVE  PoolInv'
<1> USE PoolAssumption
    DEF PoolInv, PoolTypeOK, Slots, NoSlot, clientVars, callVars,
        Return, Move
<1>1. PoolTypeOK'
  BY DEF Phases, PCs
<1>2. MutexInv'
  BY DEF MutexInv, InLock
<1>3. HolderInv'
  BY DEF HolderInv
<1>4. CallInv'
  BY DEF CallInv
<1>5. KeepInv'
  BY DEF KeepInv
<1>6. SlotInv' /\ TrampInv'
  BY DEF SlotInv, SlotOwnership, TrampInv
<1> QED
  BY <1>1, <1>2, <1>3, <1>4, <1>5, <1>6

LEMMA StutterInv ==
  ASSUME PoolInv, UNCHANGED poolVars
  PROVE  PoolInv'
BY DEF poolVars, clientVars, callVars, PoolInv, PoolTypeOK, MutexInv, SlotInv,
       SlotOwnership, TrampInv, HolderInv, CallInv, KeepInv

LEMMA InductiveStep == PoolInv /\ [PoolNext]_poolVars => PoolInv'
<1> SUFFICES ASSUME PoolInv, [PoolNext]_poolVars PROVE PoolInv'
  OBVIOUS
<1>1. ASSUME NEW c \in Clients, ClientStep(c) PROVE PoolInv'
  <2>1. CASE Construct(c)
    BY <2>1, MakeCallbacksInv, LockForClaimInv, ClaimSlotInv, PoolExhaustedInv,
       CreateAcceptedInv, CreateRefusedInv, LockForRetractInv, RetractInv
       DEF Construct
  <2>2. CASE Attach(c) \/ Detach(c)
    BY <2>2, AttachInv, DetachInv
  <2>3. CASE Destroy(c)
    BY <2>3, BeginDestroyInv, LockForClearInv, ClearInv, DropMemberInv
       DEF Destroy
  <2> QED
    BY <1>1, <2>1, <2>2, <2>3 DEF ClientStep
<1>2. ASSUME NEW k \in Calls, CallStep(k) PROVE PoolInv'
  BY <1>2, EnterInv, LockForLoadInv, LoadCallbacksInv, InvokeInv, ReturnInv
     DEF CallStep
<1>3. CASE UNCHANGED poolVars
  BY <1>3, StutterInv
<1> QED
  BY <1>1, <1>2, <1>3 DEF PoolNext

(* The invariant holds in every reachable state.                           *)
THEOREM Invariance == PoolSpec => []PoolInv
  BY InitInv, InductiveStep, PTL DEF PoolSpec

-----------------------------------------------------------------------------
(* What the invariant gives.                                               *)

(* Every variable keeps its type.                                          *)
THEOREM TypeCorrectness == PoolSpec => []PoolTypeOK
<1>1. PoolInv => PoolTypeOK
  BY DEF PoolInv
<1> QED
  BY <1>1, Invariance, PTL

(* Mutual exclusion of claim_slot, release_slot and load_callbacks.        *)
THEOREM MutualExclusion == PoolSpec => []TableNotRaced
<1>1. PoolInv => TableNotRaced
  BY DEF PoolInv, MutexInv, InLock, TableNotRaced, Critical
<1> QED
  BY <1>1, Invariance, PTL

(* The array and the objects' slot_ members agree.                         *)
THEOREM Ownership == PoolSpec => []SlotOwnership
<1>1. PoolInv => SlotOwnership
  BY DEF PoolInv, SlotInv
<1> QED
  BY <1>1, Invariance, PTL

(* A registered object is reached by the trampolines the core holds.       *)
THEOREM Registration == PoolSpec => []RegisteredIsRouted
<1>1. PoolInv => RegisteredIsRouted
  BY DEF PoolInv, PoolTypeOK, SlotInv, SlotOwnership, TrampInv,
         RegisteredIsRouted
<1> QED
  BY <1>1, Invariance, PTL

(* Callbacks in use by a dispatch have an owner, so they are not destroyed.*)
THEOREM InFlight == PoolSpec => []InFlightStaysValid
<1>1. PoolInv => InFlightStaysValid
  BY DEF PoolInv, PoolTypeOK, HolderInv, InFlightStaysValid
<1> QED
  BY <1>1, Invariance, PTL

(* A call goes astray only after its object gave the slot back ...         *)
THEOREM Misrouting == PoolSpec => []MisroutedOnlyAfterRelease
<1>1. PoolInv => MisroutedOnlyAfterRelease
  BY DEF PoolInv, CallInv, MisroutedOnlyAfterRelease
<1> QED
  BY <1>1, Invariance, PTL

(* ... and never, nor is it dropped, if objects are kept alive while in    *)
(* use.                                                                    *)
THEOREM Routing == PoolSpec => []RoutedToOwner
<1>1. PoolInv => RoutedToOwner
  BY DEF PoolInv, KeepInv, RoutedToOwner
<1> QED
  BY <1>1, Invariance, PTL

(* Callbacks are destroyed when the object and the last dispatch are gone. *)
THEOREM NoLeak == PoolSpec => []NothingLeaked
<1>1. PoolInv => NothingLeaked
  <2> SUFFICES ASSUME PoolInv,
                      NEW c \in Clients, phase[c] = "dead",
                      \A k \in Calls : cbs[k] # c
               PROVE  holders[c] = {}
    BY DEF NothingLeaked
  <2>1. "slot" \notin holders[c] /\ "object" \notin holders[c]
    BY DEF PoolInv, SlotInv, HolderInv
  <2>2. \A k \in Calls : k \notin holders[c]
    BY DEF PoolInv, HolderInv
  <2>3. holders[c] \subseteq Calls \cup {"object", "slot"}
    BY DEF PoolInv, PoolTypeOK
  <2> QED
    BY <2>1, <2>2, <2>3
<1> QED
  BY <1>1, Invariance, PTL

(* No step that takes or releases slots_mutex destroys callbacks.          *)
THEOREM OutsideLock == PoolSpec => DestroyedOutsideLock
<1>1. ASSUME PoolInv, [PoolNext]_poolVars
      PROVE  \A c \in Clients :
               holders[c] # {} /\ holders'[c] = {} => mutex' = mutex
  <2> SUFFICES ASSUME NEW d \in Clients, holders[d] # {}, mutex' # mutex
               PROVE  holders'[d] # {}
    OBVIOUS
  <2> USE DEF PoolInv, PoolTypeOK
  <2>1. ASSUME NEW c \in Clients, ClaimSlot(c) PROVE holders'[d] # {}
    BY <2>1 DEF ClaimSlot
  <2>2. ASSUME NEW c \in Clients, Retract(c) \/ Clear(c)
        PROVE  holders'[d] # {}
    <3>1. "object" \in holders[c]
      BY <1>1, <2>2 DEF Retract, Clear, Step, HolderInv
    <3> QED
      BY <1>1, <2>2, <3>1 DEF Retract, Clear, ReleaseSlot
  <2>3. ASSUME NEW k \in Calls, LoadCallbacks(k) PROVE holders'[d] # {}
    BY <2>3 DEF LoadCallbacks
  <2>4. ASSUME NEW c \in Clients, ClientStep(c),
               ~ClaimSlot(c), ~Retract(c), ~Clear(c)
        PROVE  holders'[d] # {}
    BY <2>4 DEF ClientStep, Construct, Destroy, MakeCallbacks, LockForClaim,
       PoolExhausted, CreateAccepted, CreateRefused, LockForRetract, Attach,
       Detach, BeginDestroy, LockForClear, DropMember
  <2>5. ASSUME NEW k \in Calls, CallStep(k), ~LoadCallbacks(k)
        PROVE  holders'[d] # {}
    BY <2>5 DEF CallStep, Enter, LockForLoad, Invoke, Return
  <2>6. CASE UNCHANGED poolVars
    BY <2>6 DEF poolVars
  <2> QED
    BY <1>1, <2>1, <2>2, <2>3, <2>4, <2>5, <2>6 DEF PoolNext
<1>2. PoolInv /\ [PoolNext]_poolVars
        => [\A c \in Clients :
              holders[c] # {} /\ holders'[c] = {} => mutex' = mutex]_poolVars
  BY <1>1
<1> QED
  BY <1>2, Invariance, PTL DEF PoolSpec, DestroyedOutsideLock

-----------------------------------------------------------------------------
(* When every index is occupied, MaxSlots objects own one each.            *)
LEMMA FullPool ==
  ASSUME PoolInv, \A i \in Slots : slots[i] # None
  PROVE  Cardinality({d \in Clients : slot[d] # NoSlot}) = MaxSlots
<1> DEFINE Owners == {d \in Clients : slot[d] # NoSlot}
<1> USE PoolAssumption DEF PoolInv, PoolTypeOK, SlotInv, SlotOwnership, NoSlot
<1>1. IsFiniteSet(Slots) /\ Cardinality(Slots) = MaxSlots
  BY FS_Interval DEF Slots
<1>2. \A i \in Slots : slots[i] \in Owners
  BY DEF Slots
<1>3. slots \in Bijection(Slots, Owners)
  <2>1. slots \in [Slots -> Owners]
    BY <1>2
  <2>2. \A i, j \in Slots : slots[i] = slots[j] => i = j
    OBVIOUS
  <2>3. \A d \in Owners : \E i \in Slots : slots[i] = d
    OBVIOUS
  <2> QED
    BY <2>1, <2>2, <2>3 DEF Bijection, Injection, Surjection, IsInjective
<1>4. ExistsBijection(Slots, Owners)
  BY <1>3 DEF ExistsBijection
<1> QED
  BY <1>1, <1>4, FS_Bijection

(* A constructor finds the pool exhausted only if MaxSlots other objects   *)
(* own an index.                                                           *)
THEOREM Exhaustion == PoolSpec => RefusedOnlyWhenFull
<1> DEFINE Full(c) ==
      phase[c] = "scanning" /\ phase'[c] = "live"
        => Cardinality({d \in Clients \ {c} : slot[d] # NoSlot}) = MaxSlots
<1>1. ASSUME PoolInv, [PoolNext]_poolVars, NEW c \in Clients PROVE Full(c)
  <2> SUFFICES ASSUME phase[c] = "scanning", phase'[c] = "live"
               PROVE  Cardinality({d \in Clients \ {c} : slot[d] # NoSlot})
                        = MaxSlots
    OBVIOUS
  <2>1. PoolExhausted(c)
    <3> USE DEF PoolInv, PoolTypeOK
    <3>1. PICK d \in Clients : ClientStep(d)
      BY <1>1 DEF PoolNext, poolVars, clientVars, CallStep, Enter,
         LockForLoad, LoadCallbacks, Invoke, Return
    <3>2. Construct(d) \/ Destroy(d)
      BY <3>1 DEF ClientStep, Attach, Detach
    <3>3. \E from, to : Step(d, from, to)
      BY <3>2 DEF Construct, Destroy, MakeCallbacks, LockForClaim, ClaimSlot,
         PoolExhausted, CreateAccepted, CreateRefused, LockForRetract, Retract,
         BeginDestroy, LockForClear, Clear, DropMember
    <3>4. d = c
      BY <1>1, <3>3 DEF Step
    <3> QED
      BY <1>1, <3>2, <3>4 DEF Construct, Destroy, Step, MakeCallbacks,
         LockForClaim, ClaimSlot, CreateAccepted, CreateRefused,
         LockForRetract, Retract, BeginDestroy, LockForClear, Clear, DropMember
  <2>2. slot[c] = NoSlot
    BY <1>1 DEF PoolInv, SlotInv
  <2>3. {d \in Clients \ {c} : slot[d] # NoSlot}
          = {d \in Clients : slot[d] # NoSlot}
    BY <2>2
  <2> QED
    BY <1>1, <2>1, <2>3, FullPool DEF PoolExhausted
<1>2. PoolInv /\ [PoolNext]_poolVars => [\A c \in Clients : Full(c)]_poolVars
  BY <1>1
<1> QED
  BY <1>2, Invariance, PTL DEF PoolSpec, RefusedOnlyWhenFull

-----------------------------------------------------------------------------
(* SlotPool implements CallbackRegistry, if the application keeps each     *)
(* object alive while it is in use.  PoolInv makes the application's view  *)
(* of an object a matter of its phase and its ref alone (StageOfLife), so  *)
(* that what a step of the pool does to the owners of the callbacks shows  *)
(* only where it should.  Then every step is a step of the registry or     *)
(* changes nothing it knows of.                                            *)

Stage(p, registered) ==
  IF p = "unborn" THEN "absent"
  ELSE IF p = "dead" THEN "gone"
  ELSE IF registered THEN "registered"
  ELSE IF p \in {"claiming", "scanning", "claimed", "refused",
                 "retracting", "live"} THEN "built"
  ELSE "retired"

(* A dead object's callbacks are gone: nobody is inside them.              *)
LEMMA Abandoned ==
  ASSUME KeepAlive, PoolInv, NEW c \in Clients, phase[c] = "dead"
  PROVE  holders[c] = {}
<1>1. "slot" \notin holders[c] /\ "object" \notin holders[c]
  BY DEF PoolInv, SlotInv, HolderInv
<1>2. \A k \in Calls : cbs[k] # c
  BY PoolAssumption DEF PoolInv, PoolTypeOK, CallInv, KeepInv
<1>3. holders[c] \subseteq Calls \cup {"object", "slot"}
  BY DEF PoolInv, PoolTypeOK
<1> QED
  BY <1>1, <1>2, <1>3 DEF PoolInv, HolderInv

LEMMA StageOfLife ==
  KeepAlive /\ PoolInv => \A c \in Clients : Life(c) = Stage(phase[c], ref[c])
<1> SUFFICES ASSUME KeepAlive, PoolInv, NEW c \in Clients
             PROVE  Life(c) = Stage(phase[c], ref[c])
  OBVIOUS
<1>1. ref[c] => phase[c] = "live"
  BY DEF PoolInv, TrampInv
<1>2. phase[c] \in Phases /\ ref[c] \in BOOLEAN
  BY DEF PoolInv, PoolTypeOK
<1>3. phase[c] = "dead" => holders[c] = {}
  BY Abandoned
<1>4. phase[c] \notin {"unborn", "dead"} => holders[c] # {}
  BY DEF PoolInv, HolderInv
<1> QED
  BY <1>1, <1>2, <1>3, <1>4 DEF Life, Stage, Phases

(* The same of the next state.                                             *)
LEMMA StageOfNextLife ==
  KeepAlive /\ PoolInv'
    => \A c \in Clients : Life(c)' = Stage(phase'[c], ref'[c])
<1> DEFINE F == KeepAlive /\ PoolInv
                 => \A c \in Clients : Life(c) = Stage(phase[c], ref[c])
<1>1. F
  BY StageOfLife
<1> HIDE DEF F
<1>2. F'
  BY <1>1, PTL
<1> QED
  BY <1>2 DEF F, Stage

-----------------------------------------------------------------------------
(* Steps of objects: each takes one object to its next stage of life, or   *)
(* no object anywhere.                                                     *)

CallView == <<[k \in Calls |-> At(k)], origin,
              [k \in Calls |-> IF pc[k] = "running" THEN cbs[k] ELSE None]>>

(* The calls look the same after any step that leaves their variables.     *)
LEMMA SameCalls == UNCHANGED <<pc, origin, cbs>> => UNCHANGED CallView
  BY DEF CallView, At

LEMMA MakeCallbacksBuilds ==
  ASSUME KeepAlive, PoolInv, PoolInv', NEW c \in Clients, MakeCallbacks(c)
  PROVE  Registry!Build(c)
<1> USE DEF MakeCallbacks, Step, clientVars, callVars
<1>1. Life(c) = "absent" /\ Life(c)' = "built"
  BY StageOfLife, StageOfNextLife DEF Stage, PoolInv, PoolTypeOK, TrampInv
<1>2. \A d \in Clients \ {c} : Life(d)' = Life(d)
  BY StageOfLife, StageOfNextLife DEF Stage, PoolInv, PoolTypeOK
<1>3. UNCHANGED CallView
  BY SameCalls
<1> QED
  BY <1>1, <1>2, <1>3 DEF CallView, Registry!Build, Registry!Becomes

LEMMA CreateAcceptedRegisters ==
  ASSUME KeepAlive, PoolInv, PoolInv', NEW c \in Clients, CreateAccepted(c)
  PROVE  Registry!Register(c)
<1> USE DEF CreateAccepted, Step, clientVars, callVars
<1>1. Life(c) = "built" /\ Life(c)' = "registered"
  BY StageOfLife, StageOfNextLife DEF Stage, PoolInv, PoolTypeOK, TrampInv
<1>2. \A d \in Clients \ {c} : Life(d)' = Life(d)
  BY StageOfLife, StageOfNextLife DEF Stage, PoolInv, PoolTypeOK
<1>3. UNCHANGED CallView
  BY SameCalls
<1> QED
  BY <1>1, <1>2, <1>3 DEF CallView, Registry!Register, Registry!Becomes

(* The application destroys only what is not in use.                       *)
LEMMA BeginDestroyRetires ==
  ASSUME KeepAlive, PoolInv, PoolInv', NEW c \in Clients, BeginDestroy(c)
  PROVE  Registry!Retire(c)
<1> USE DEF BeginDestroy, Step, clientVars, callVars
<1>1. Life(c) \in {"built", "registered"} /\ Life(c)' = "retired"
  BY StageOfLife, StageOfNextLife DEF Stage, PoolInv, PoolTypeOK
<1>2. \A d \in Clients \ {c} : Life(d)' = Life(d)
  BY StageOfLife, StageOfNextLife DEF Stage, PoolInv, PoolTypeOK
<1>3. UNCHANGED CallView
  BY SameCalls
<1>4. \A k \in Calls : ~Registry!InProgress(k, c)
  BY DEF MayDestroy, Pending, Registry!InProgress, At
<1> QED
  BY <1>1, <1>2, <1>3, <1>4 DEF CallView, Registry!Retire, Registry!Becomes

(* The member callbacks_ is the last owner.                                *)
LEMMA DropMemberVanishes ==
  ASSUME KeepAlive, PoolInv, PoolInv', NEW c \in Clients, DropMember(c)
  PROVE  Registry!Vanish(c)
<1> USE DEF DropMember, Step, clientVars, callVars
<1>1. Life(c) = "retired" /\ Life(c)' = "gone"
  BY StageOfLife, StageOfNextLife DEF Stage, PoolInv, PoolTypeOK, TrampInv
<1>2. \A d \in Clients \ {c} : Life(d)' = Life(d)
  BY StageOfLife, StageOfNextLife DEF Stage, PoolInv, PoolTypeOK
<1>3. UNCHANGED CallView
  BY SameCalls
<1>4. \A k \in Calls : pc[k] = "running" => cbs[k] # c
  BY DEF PoolInv, KeepInv
<1>5. None # c
  BY PoolAssumption
<1> QED
  BY <1>1, <1>2, <1>3, <1>4, <1>5 DEF CallView, Registry!Vanish, Registry!Becomes

LEMMA OtherClientStepsStutter ==
  ASSUME KeepAlive, PoolInv, PoolInv', NEW c \in Clients, ClientStep(c),
         ~MakeCallbacks(c), ~CreateAccepted(c), ~BeginDestroy(c), ~DropMember(c)
  PROVE  UNCHANGED Registry!vars
<1> USE DEF ClientStep, Construct, Destroy, Step, clientVars, callVars,
            LockForClaim, ClaimSlot, PoolExhausted, CreateRefused, LockForRetract,
            Retract, ReleaseSlot, Attach, Detach, LockForClear, Clear
<1>1. \A d \in Clients : Stage(phase'[d], ref'[d]) = Stage(phase[d], ref[d])
  BY DEF Stage, PoolInv, PoolTypeOK, TrampInv
<1>2. \A d \in Clients : Life(d)' = Life(d)
  BY <1>1, StageOfLife, StageOfNextLife
<1>3. UNCHANGED CallView
  BY SameCalls
<1> QED
  BY <1>2, <1>3 DEF CallView, Registry!vars

-----------------------------------------------------------------------------
(* Steps of calls: no object changes its stage.                            *)

LEMMA SameObjects ==
  KeepAlive /\ PoolInv /\ PoolInv' /\ UNCHANGED <<phase, ref>>
    => UNCHANGED [c \in Clients |-> Life(c)]
  BY StageOfLife, StageOfNextLife

(* An object the core can reach is registered.                             *)
LEMMA ReachedIsRegistered ==
  ASSUME KeepAlive, PoolInv, NEW c \in Clients,
         phase[c] = "live", tramp[c] # NoSlot
  PROVE  Life(c) = "registered"
  BY StageOfLife DEF Stage, PoolInv, TrampInv

LEMMA EnterCalls ==
  ASSUME KeepAlive, PoolInv, PoolInv',
         NEW k \in Calls, NEW c \in Clients, Enter(k, c)
  PROVE  Registry!Call(k, c)
<1> USE DEF Enter, Move, clientVars, PoolInv, PoolTypeOK
<1>1. UNCHANGED [d \in Clients |-> Life(d)]
  BY SameObjects
<1>2. Life(c) = "registered"
  BY ReachedIsRegistered DEF TrampInv, KeepInv
<1>3. At(k) = "idle"
  BY DEF At
<1>4. [j \in Calls |-> At(j)]' = [[j \in Calls |-> At(j)] EXCEPT ![k] = "called"]
  BY DEF At
<1>5. UNCHANGED [j \in Calls |-> IF pc[j] = "running" THEN cbs[j] ELSE None]
  OBVIOUS
<1> QED
  BY <1>1, <1>2, <1>3, <1>4, <1>5 DEF Registry!Call

LEMMA InvokeArrives ==
  ASSUME KeepAlive, PoolInv, PoolInv', NEW k \in Calls, Invoke(k)
  PROVE  Registry!Arrive(k)
<1> USE DEF Invoke, Move, clientVars, PoolInv, PoolTypeOK
<1>1. UNCHANGED [d \in Clients |-> Life(d)]
  BY SameObjects
<1>2. origin[k] \in Clients /\ Life(origin[k]) = "registered"
  BY ReachedIsRegistered DEF CallInv, KeepInv
<1>3. At(k) = "called"
  BY DEF At
<1>4. [j \in Calls |-> At(j)]' = [[j \in Calls |-> At(j)] EXCEPT ![k] = "inside"]
  BY DEF At
<1>5. cbs[k] = origin[k]
  BY DEF KeepInv
<1>6. [j \in Calls |-> IF pc[j] = "running" THEN cbs[j] ELSE None]'
        = [[j \in Calls |-> IF pc[j] = "running" THEN cbs[j] ELSE None]
             EXCEPT ![k] = origin[k]]
  BY <1>5
<1> QED
  BY <1>1, <1>2, <1>3, <1>4, <1>6 DEF Registry!Arrive

LEMMA ReturnFinishes ==
  ASSUME KeepAlive, PoolInv, PoolInv', NEW k \in Calls, Return(k)
  PROVE  Registry!Finish(k)
<1> USE DEF Return, Move, clientVars, PoolInv, PoolTypeOK
<1>1. UNCHANGED [d \in Clients |-> Life(d)]
  BY SameObjects
<1>2. At(k) \in {"called", "inside"}
  BY DEF At
<1>3. [j \in Calls |-> At(j)]' = [[j \in Calls |-> At(j)] EXCEPT ![k] = "back"]
  BY DEF At
<1>4. [j \in Calls |-> IF pc[j] = "running" THEN cbs[j] ELSE None]'
        = [[j \in Calls |-> IF pc[j] = "running" THEN cbs[j] ELSE None]
             EXCEPT ![k] = None]
  OBVIOUS
<1>5. UNCHANGED origin
  OBVIOUS
<1> HIDE DEF Return, Move, PoolInv, PoolTypeOK
<1> QED
  BY <1>1, <1>2, <1>3, <1>4, <1>5 DEF Registry!Finish

LEMMA LookupStutters ==
  ASSUME KeepAlive, PoolInv, PoolInv', NEW k \in Calls,
         LockForLoad(k) \/ LoadCallbacks(k)
  PROVE  UNCHANGED Registry!vars
<1> USE DEF LockForLoad, LoadCallbacks, Move, clientVars, PoolInv, PoolTypeOK
<1>1. UNCHANGED [d \in Clients |-> Life(d)]
  BY SameObjects
<1>2. UNCHANGED CallView
  BY DEF CallView, At, CallInv
<1> QED
  BY <1>1, <1>2 DEF CallView, Registry!vars

-----------------------------------------------------------------------------
LEMMA InitialView == PoolInit => Registry!Init
  BY DEF PoolInit, Registry!Init, Life, At

LEMMA StepView ==
  KeepAlive /\ PoolInv /\ PoolInv' /\ [PoolNext]_poolVars
    => [Registry!Next]_(Registry!vars)
<1> SUFFICES ASSUME KeepAlive, PoolInv, PoolInv', [PoolNext]_poolVars
             PROVE  Registry!Next \/ UNCHANGED Registry!vars
  OBVIOUS
<1>1. ASSUME NEW c \in Clients, ClientStep(c)
      PROVE  Registry!Next \/ UNCHANGED Registry!vars
  BY <1>1, MakeCallbacksBuilds, CreateAcceptedRegisters, BeginDestroyRetires,
     DropMemberVanishes, OtherClientStepsStutter DEF Registry!Next
<1>2. ASSUME NEW k \in Calls, CallStep(k)
      PROVE  Registry!Next \/ UNCHANGED Registry!vars
  BY <1>2, EnterCalls, InvokeArrives, ReturnFinishes, LookupStutters
     DEF CallStep, Registry!Next
<1>3. CASE UNCHANGED poolVars
  BY <1>3, SameObjects, SameCalls
     DEF poolVars, clientVars, callVars, CallView, Registry!vars
<1> QED
  BY <1>1, <1>2, <1>3 DEF PoolNext

(* With the objects an application keeps alive, the pool is a registry.    *)
THEOREM Refinement ==
  ASSUME KeepAlive
  PROVE  PoolSpec => ImplementsRegistry
<1>1. KeepAlive /\ PoolInv /\ PoolInv' /\ [PoolNext]_poolVars
        => [Registry!Next]_(Registry!vars)
  BY StepView
<1> QED
  BY <1>1, InitialView, Invariance, PTL
     DEF PoolSpec, ImplementsRegistry, Registry!Spec

=============================================================================
