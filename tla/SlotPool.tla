------------------------------ MODULE SlotPool ------------------------------
(***************************************************************************)
(* The trampoline slot pool that observability_client.cpp and              *)
(* persistent_storage.cpp both contain (the two copies are the same code   *)
(* over two separate static arrays).                                       *)
(*                                                                         *)
(* The native core only accepts context-free function pointers, so every   *)
(* registered object claims an index of a fixed array and hands the core   *)
(* the static functions generated for that index.  When the core calls one *)
(* of them, the callbacks are looked up again by index.  Objects are built *)
(* and destroyed by application threads while native threads are inside    *)
(* the trampolines; one mutex protects the array and nothing else.         *)
(*                                                                         *)
(* A client is one incarnation of an ObservabilityClient (PersistentStorage*)
(* ) object, and also names the callbacks it allocates with make_shared.   *)
(* A call is one invocation of a trampoline by the native core.            *)
(***************************************************************************)
EXTENDS Integers, FiniteSets

CONSTANTS
  Clients,    \* incarnations of the C++ object
  Calls,      \* invocations of a trampoline by the native core
  MaxSlots,   \* kMaxSlots
  None,       \* nullptr / nobody
  KeepAlive   \* does the application obey "keep the instance alive for as
              \* long as the owning Statsig instance is in use"?

ASSUME PoolAssumption ==
  /\ MaxSlots \in Nat \ {0}
  /\ None \notin Clients \cup Calls
  /\ Clients \cap Calls = {}
  /\ {"object", "slot"} \cap Calls = {}
  /\ KeepAlive \in BOOLEAN

VARIABLES
  slots,    \* slots(): the array of CallbacksPtr, None for nullptr
  mutex,    \* slots_mutex(): the client or call holding it, or None
  phase,    \* where each object is in its constructor or destructor
  slot,     \* slot_
  ref,      \* ref_ # 0
  holders,  \* the shared_ptrs that keep each client's callbacks alive
  tramp,    \* native side: the index whose trampolines an adapter holds
  inUse,    \* native side: adapters a running Statsig instance has cloned
  pc,       \* where each call is
  origin,   \* the client whose adapter the core called
  cbs       \* the local `cbs` of the dispatch function

clientVars == <<phase, slot, ref, tramp, inUse>>
callVars   == <<pc, origin, cbs>>
poolVars   == <<slots, mutex, holders, clientVars, callVars>>

-----------------------------------------------------------------------------
Slots  == 0 .. MaxSlots - 1
NoSlot == -1

Phases == {"unborn", "claiming", "scanning", "claimed", "refused",
           "retracting", "live", "releasing", "clearing", "cleared", "dead"}

PCs == {"idle", "entered", "loading", "loaded", "running", "returned"}

PoolTypeOK ==
  /\ slots \in [Slots -> Clients \cup {None}]
  /\ mutex \in Clients \cup Calls \cup {None}
  /\ phase \in [Clients -> Phases]
  /\ slot \in [Clients -> Slots \cup {NoSlot}]
  /\ ref \in [Clients -> BOOLEAN]
  /\ holders \in [Clients -> SUBSET (Calls \cup {"object", "slot"})]
  /\ tramp \in [Clients -> Slots \cup {NoSlot}]
  /\ inUse \in SUBSET Clients
  /\ pc \in [Calls -> PCs]
  /\ origin \in [Calls -> Clients \cup {None}]
  /\ cbs \in [Calls -> Clients \cup {None}]

PoolInit ==
  /\ slots = [s \in Slots |-> None]
  /\ mutex = None
  /\ phase = [c \in Clients |-> "unborn"]
  /\ slot = [c \in Clients |-> NoSlot]
  /\ ref = [c \in Clients |-> FALSE]
  /\ holders = [c \in Clients |-> {}]
  /\ tramp = [c \in Clients |-> NoSlot]
  /\ inUse = {}
  /\ pc = [k \in Calls |-> "idle"]
  /\ origin = [k \in Calls |-> None]
  /\ cbs = [k \in Calls |-> None]

-----------------------------------------------------------------------------
(* The lock_guard of claim_slot, release_slot and load_callbacks.          *)

Lock(x) == mutex = None /\ mutex' = x
Unlock  == mutex' = None

Step(c, from, to) == phase[c] = from /\ phase' = [phase EXCEPT ![c] = to]
Move(k, from, to) == pc[k] = from /\ pc' = [pc EXCEPT ![k] = to]

(* The constructor.  The member callbacks_ is initialised first and is the *)
(* first owner of the callbacks.                                           *)

MakeCallbacks(c) ==
  /\ Step(c, "unborn", "claiming")
  /\ holders' = [holders EXCEPT ![c] = {"object"}]
  /\ UNCHANGED <<slots, mutex, slot, ref, tramp, inUse, callVars>>

LockForClaim(c) ==
  /\ Step(c, "claiming", "scanning")
  /\ Lock(c)
  /\ UNCHANGED <<slots, holders, slot, ref, tramp, inUse, callVars>>

(* Mutants: the index is off by one; the nullptr test is missing.          *)
ClaimSlot_OffByOne(c) ==
  /\ Step(c, "scanning", "claimed")
  /\ \E i \in Slots :
       /\ slots[i] = None
       /\ slots' = [slots EXCEPT ![i] = c]
       /\ slot' = [slot EXCEPT ![c] = i + 1]
  /\ holders' = [holders EXCEPT ![c] = @ \cup {"slot"}]
  /\ Unlock
  /\ UNCHANGED <<ref, tramp, inUse, callVars>>

ClaimSlot_Overwrites(c) ==
  /\ Step(c, "scanning", "claimed")
  /\ slots' = [slots EXCEPT ![0] = c]
  /\ slot' = [slot EXCEPT ![c] = 0]
  /\ holders' = [holders EXCEPT ![c] = @ \cup {"slot"}]
  /\ Unlock
  /\ UNCHANGED <<ref, tramp, inUse, callVars>>

(* claim_slot found a free index: the first one of the array.              *)
ClaimSlot(c) ==
  /\ Step(c, "scanning", "claimed")
  /\ \E i \in Slots :
       /\ slots[i] = None
       /\ \A j \in 0 .. i - 1 : slots[j] # None
       /\ slots' = [slots EXCEPT ![i] = c]
       /\ slot' = [slot EXCEPT ![c] = i]
  /\ holders' = [holders EXCEPT ![c] = @ \cup {"slot"}]
  /\ Unlock
  /\ UNCHANGED <<ref, tramp, inUse, callVars>>

(* Mutant: returning -1 without unlocking.                                 *)
PoolExhausted_KeepsLock(c) ==
  /\ Step(c, "scanning", "live")
  /\ \A i \in Slots : slots[i] # None
  /\ UNCHANGED <<slots, mutex, holders, slot, ref, tramp, inUse, callVars>>

(* claim_slot returned -1: the constructor logs and leaves the object      *)
(* unregistered (ref() is 0).                                              *)
PoolExhausted(c) ==
  /\ Step(c, "scanning", "live")
  /\ \A i \in Slots : slots[i] # None
  /\ Unlock
  /\ UNCHANGED <<slots, holders, slot, ref, tramp, inUse, callVars>>

(* Mutant: the trampolines of the next index are registered.               *)
CreateAccepted_NextIndex(c) ==
  /\ Step(c, "claimed", "live")
  /\ ref' = [ref EXCEPT ![c] = TRUE]
  /\ tramp' = [tramp EXCEPT ![c] = (slot[c] + 1) % MaxSlots]
  /\ UNCHANGED <<slots, mutex, holders, slot, inUse, callVars>>

(* observability_client_create returned a ref: the core now holds the      *)
(* trampolines of this index.                                              *)
CreateAccepted(c) ==
  /\ Step(c, "claimed", "live")
  /\ ref' = [ref EXCEPT ![c] = TRUE]
  /\ tramp' = [tramp EXCEPT ![c] = slot[c]]
  /\ UNCHANGED <<slots, mutex, holders, slot, inUse, callVars>>

(* It returned 0: the constructor gives the slot back.                     *)
CreateRefused(c) ==
  /\ Step(c, "claimed", "refused")
  /\ UNCHANGED <<slots, mutex, holders, slot, ref, tramp, inUse, callVars>>

LockForRetract(c) ==
  /\ Step(c, "refused", "retracting")
  /\ Lock(c)
  /\ UNCHANGED <<slots, holders, slot, ref, tramp, inUse, callVars>>

(* Mutant: the entry of the array is not reset.                            *)
ReleaseSlot_KeepsEntry(c) ==
  /\ slot' = [slot EXCEPT ![c] = NoSlot]
  /\ Unlock
  /\ UNCHANGED <<slots, holders, ref, tramp, inUse, callVars>>

(* What release_slot does with the lock held, and the slot_ = -1 after it. *)
ReleaseSlot(c) ==
  /\ slots' = [slots EXCEPT ![slot[c]] = None]
  /\ holders' = [holders EXCEPT ![c] = @ \ {"slot"}]
  /\ slot' = [slot EXCEPT ![c] = NoSlot]
  /\ Unlock
  /\ UNCHANGED <<ref, tramp, inUse, callVars>>

Retract(c) == Step(c, "retracting", "live") /\ ReleaseSlot(c)

Construct(c) ==
  \/ MakeCallbacks(c)
  \/ LockForClaim(c)
  \/ ClaimSlot(c)
  \/ PoolExhausted(c)
  \/ CreateAccepted(c)
  \/ CreateRefused(c)
  \/ LockForRetract(c)
  \/ Retract(c)

-----------------------------------------------------------------------------
(* The Statsig instances that use an adapter (native core, external).      *)

Pending(c) == {k \in Calls : origin[k] = c /\ pc[k] \notin {"idle", "returned"}}

(* statsig_create clones the adapter behind the ref of the options.        *)
Attach(c) ==
  /\ ref[c]
  /\ inUse' = inUse \cup {c}
  /\ UNCHANGED <<slots, mutex, holders, phase, slot, ref, tramp, callVars>>

(* The instance has shut down and is gone: no call of it is in progress.   *)
Detach(c) ==
  /\ c \in inUse
  /\ Pending(c) = {}
  /\ inUse' = inUse \ {c}
  /\ UNCHANGED <<slots, mutex, holders, phase, slot, ref, tramp, callVars>>

-----------------------------------------------------------------------------
(* The destructor: the native ref is released first, then the slot, and    *)
(* the member callbacks_ goes last.                                        *)

MayDestroy(c) == KeepAlive => c \notin inUse /\ Pending(c) = {}

(* Mutants: the native ref is not released; the callbacks are dropped      *)
(* before the slot.                                                        *)
BeginDestroy_KeepsRef(c) ==
  /\ MayDestroy(c)
  /\ Step(c, "live", IF slot[c] = NoSlot THEN "cleared" ELSE "releasing")
  /\ UNCHANGED <<slots, mutex, holders, slot, ref, tramp, inUse, callVars>>

BeginDestroy_DropsCallbacks(c) ==
  /\ MayDestroy(c)
  /\ Step(c, "live", IF slot[c] = NoSlot THEN "cleared" ELSE "releasing")
  /\ ref' = [ref EXCEPT ![c] = FALSE]
  /\ holders' = [holders EXCEPT ![c] = @ \ {"object"}]
  /\ UNCHANGED <<slots, mutex, slot, tramp, inUse, callVars>>

(* release_slot returns at once for an object that holds no slot.          *)
BeginDestroy(c) ==
  /\ MayDestroy(c)
  /\ Step(c, "live", IF slot[c] = NoSlot THEN "cleared" ELSE "releasing")
  /\ ref' = [ref EXCEPT ![c] = FALSE]
  /\ UNCHANGED <<slots, mutex, holders, slot, tramp, inUse, callVars>>

LockForClear(c) ==
  /\ Step(c, "releasing", "clearing")
  /\ Lock(c)
  /\ UNCHANGED <<slots, holders, slot, ref, tramp, inUse, callVars>>

Clear(c) == Step(c, "clearing", "cleared") /\ ReleaseSlot(c)

DropMember(c) ==
  /\ Step(c, "cleared", "dead")
  /\ holders' = [holders EXCEPT ![c] = @ \ {"object"}]
  /\ UNCHANGED <<slots, mutex, slot, ref, tramp, inUse, callVars>>

Destroy(c) ==
  \/ BeginDestroy(c)
  \/ LockForClear(c)
  \/ Clear(c)
  \/ DropMember(c)

-----------------------------------------------------------------------------
(* One call of a trampoline.                                               *)

(* The core calls a function pointer it holds for c: through the ref, or   *)
(* through the clone a running Statsig instance keeps.                     *)
Enter(k, c) ==
  /\ ref[c] \/ c \in inUse
  /\ Move(k, "idle", "entered")
  /\ origin' = [origin EXCEPT ![k] = c]
  /\ UNCHANGED <<slots, mutex, holders, clientVars, cbs>>

(* Mutant: load_callbacks does not lock.                                   *)
LockForLoad_Unlocked(k) ==
  /\ Move(k, "entered", "loading")
  /\ UNCHANGED <<slots, mutex, holders, clientVars, origin, cbs>>

LockForLoad(k) ==
  /\ Move(k, "entered", "loading")
  /\ Lock(k)
  /\ UNCHANGED <<slots, holders, clientVars, origin, cbs>>

(* Mutants: a plain pointer is returned; the mutex is not released.        *)
LoadCallbacks_PlainPointer(k) ==
  /\ Move(k, "loading", "loaded")
  /\ cbs' = [cbs EXCEPT ![k] = slots[tramp[origin[k]]]]
  /\ Unlock
  /\ UNCHANGED <<slots, holders, clientVars, origin>>

LoadCallbacks_KeepsLock(k) ==
  LET found == slots[tramp[origin[k]]] IN
  /\ Move(k, "loading", "loaded")
  /\ cbs' = [cbs EXCEPT ![k] = found]
  /\ holders' = [c \in Clients |->
                   IF c = found THEN holders[c] \cup {k} ELSE holders[c]]
  /\ UNCHANGED <<slots, mutex, clientVars, origin>>

(* load_callbacks returns a copy of the shared_ptr in the slot.            *)
LoadCallbacks(k) ==
  LET found == slots[tramp[origin[k]]] IN
  /\ Move(k, "loading", "loaded")
  /\ cbs' = [cbs EXCEPT ![k] = found]
  /\ holders' = [c \in Clients |->
                   IF c = found THEN holders[c] \cup {k} ELSE holders[c]]
  /\ Unlock
  /\ UNCHANGED <<slots, clientVars, origin>>

(* The dispatch function calls the user's std::function.                   *)
Invoke(k) ==
  /\ cbs[k] # None
  /\ Move(k, "loaded", "running")
  /\ UNCHANGED <<slots, mutex, holders, clientVars, origin, cbs>>

(* It returns, on any path: the local `cbs` is destroyed.                  *)
Return(k) ==
  /\ \/ Move(k, "loaded", "returned")
     \/ Move(k, "running", "returned")
  /\ cbs' = [cbs EXCEPT ![k] = None]
  /\ holders' = [c \in Clients |-> holders[c] \ {k}]
  /\ UNCHANGED <<slots, mutex, clientVars, origin>>

-----------------------------------------------------------------------------
ClientStep(c) == Construct(c) \/ Attach(c) \/ Detach(c) \/ Destroy(c)

CallStep(k) ==
  \/ \E c \in Clients : Enter(k, c)
  \/ LockForLoad(k)
  \/ LoadCallbacks(k)
  \/ Invoke(k)
  \/ Return(k)

(* Nothing is in the middle of anything: the program may stop here.        *)
Settled ==
  /\ \A c \in Clients : phase[c] \in {"unborn", "live", "dead"}
  /\ \A k \in Calls : pc[k] \in {"idle", "returned"}

PoolNext ==
  \/ \E c \in Clients : ClientStep(c)
  \/ \E k \in Calls : CallStep(k)
  \/ Settled /\ UNCHANGED poolVars

PoolSpec == PoolInit /\ [][PoolNext]_poolVars

(* Inside a constructor or destructor.                                     *)
Started(c) == phase[c] \notin {"unborn", "live"}

-----------------------------------------------------------------------------
(* Safety.                                                                 *)

Critical ==
  {c \in Clients : phase[c] \in {"scanning", "retracting", "clearing"}}
    \cup {k \in Calls : pc[k] = "loading"}

(* No two threads are inside claim_slot, release_slot or load_callbacks at *)
(* the same time, and the one that is holds slots_mutex: the array of      *)
(* shared_ptrs is never read while it is written.                          *)
TableNotRaced == \A x \in Critical : mutex = x

(* The array and the objects agree: an occupied index belongs to one       *)
(* object, which knows the index and has not given it back, and every      *)
(* object that believes it has an index finds its own callbacks there.     *)
SlotOwnership ==
  /\ \A s \in Slots : slots[s] # None => slot[slots[s]] = s
  /\ \A c \in Clients : slot[c] # NoSlot => slots[slot[c]] = c

(* As long as the core can reach an object through its ref, the            *)
(* trampolines it was given lead to that object's callbacks: the           *)
(* destructor releases the ref before the slot, the constructor registers  *)
(* only after the claim.                                                   *)
RegisteredIsRouted ==
  \A c \in Clients : ref[c] => slots[tramp[c]] = c

(* A dispatch never holds callbacks that have been destroyed, whatever     *)
(* happens to the object meanwhile ("in-flight callbacks stay valid even   *)
(* if this client is destroyed concurrently").                             *)
InFlightStaysValid ==
  \A k \in Calls : cbs[k] # None => holders[cbs[k]] # {}

(* A call made for one object reaches another object's callbacks only if   *)
(* the first one has already given its slot back.                          *)
MisroutedOnlyAfterRelease ==
  \A k \in Calls :
    cbs[k] \notin {None, origin[k]} => phase[origin[k]] \in {"cleared", "dead"}

(* An application that keeps each object alive while it is in use never    *)
(* sees a call go to another object's callbacks or get lost.               *)
RoutedToOwner ==
  KeepAlive => \A k \in Calls :
                 pc[k] \in {"loaded", "running"} => cbs[k] = origin[k]

(* Callbacks outlive every std::shared_ptr to them and no longer: once the *)
(* object is dead and no dispatch is inside them, nothing holds them.      *)
NothingLeaked ==
  \A c \in Clients :
    phase[c] = "dead" /\ (\A k \in Calls : cbs[k] # c) => holders[c] = {}

-----------------------------------------------------------------------------
(* Action properties.                                                      *)

(* The user's callbacks are never destroyed by a step that holds           *)
(* slots_mutex (their destructors are user code and could come back for    *)
(* the mutex).  The steps of a critical section are those that release it. *)
DestroyedOutsideLock ==
  [][\A c \in Clients :
       holders[c] # {} /\ holders'[c] = {} => mutex' = mutex]_poolVars

(* A constructor gives up on the pool only while kMaxSlots other objects   *)
(* have a slot of their own: a released slot is always found again.        *)
RefusedOnlyWhenFull ==
  [][\A c \in Clients :
       phase[c] = "scanning" /\ phase'[c] = "live"
         => Cardinality({d \in Clients \ {c} : slot[d] # NoSlot}) = MaxSlots
    ]_poolVars

-----------------------------------------------------------------------------
(* The application's view: where an object and its callbacks are in their  *)
(* life, and whose callbacks a call is in.                                 *)

Life(c) ==
  IF phase[c] = "unborn" THEN "absent"
  ELSE IF holders[c] = {} THEN "gone"
  ELSE IF ref[c] THEN "registered"
  ELSE IF phase[c] \in {"claiming", "scanning", "claimed", "refused",
                       "retracting", "live"} THEN "built"
  ELSE "retired"

At(k) == IF pc[k] = "idle" THEN "idle"
         ELSE IF pc[k] = "running" THEN "inside"
         ELSE IF pc[k] = "returned" THEN "back"
         ELSE "called"

Registry == INSTANCE CallbackRegistry WITH
  life   <- [c \in Clients |-> Life(c)],
  at     <- [k \in Calls |-> At(k)],
  target <- origin,
  inside <- [k \in Calls |-> IF pc[k] = "running" THEN cbs[k] ELSE None]

(* Under the keep-alive rule the pool, with its indices that are used      *)
(* again, its table, its lock and its reference counts, is nothing but a   *)
(* registry: no call gets into callbacks of another object or into ones    *)
(* that are gone, whatever objects come and go meanwhile.                  *)
ImplementsRegistry == Registry!Spec

-----------------------------------------------------------------------------
(* Liveness.                                                               *)

(* Constructors and destructors finish, although calls and one another     *)
(* compete for the mutex.                                                  *)
ObjectsSettle == \A c \in Clients : Started(c) ~> phase[c] \in {"live", "dead"}

=============================================================================
