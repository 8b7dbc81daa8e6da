-------------------------- MODULE CallbackRegistry --------------------------
(***************************************************************************)
(* What ObservabilityClient and PersistentStorage promise an application   *)
(* that keeps each object alive while it is in use: an object is           *)
(* registered or not, a call made for a registered object goes into the    *)
(* callbacks of that object or into none, and callbacks are gone only when *)
(* no call is, or will be, inside them.  There are no slots, trampolines,  *)
(* locks or reference counts here; SlotPool implements this with them.     *)
(***************************************************************************)
CONSTANTS Clients, Calls, None

VARIABLES
  life,    \* of each object with its callbacks
  at,      \* how far each call is
  target,  \* the object it was made for
  inside   \* the object whose callbacks it runs

vars == <<life, at, target, inside>>

Init ==
  /\ life = [c \in Clients |-> "absent"]
  /\ at = [k \in Calls |-> "idle"]
  /\ target = [k \in Calls |-> None]
  /\ inside = [k \in Calls |-> None]

Becomes(c, stages, stage) ==
  /\ life[c] \in stages
  /\ life' = [life EXCEPT ![c] = stage]

InProgress(k, c) == target[k] = c /\ at[k] \in {"called", "inside"}

Build(c)    == Becomes(c, {"absent"}, "built") /\ UNCHANGED <<at, target, inside>>
Register(c) == Becomes(c, {"built"}, "registered") /\ UNCHANGED <<at, target, inside>>

(* The destructor begins: nothing is in progress for the object.           *)
Retire(c) ==
  /\ Becomes(c, {"built", "registered"}, "retired")
  /\ \A k \in Calls : ~InProgress(k, c)
  /\ UNCHANGED <<at, target, inside>>

(* The callbacks are destroyed, with nobody inside them.                   *)
Vanish(c) ==
  /\ Becomes(c, {"retired"}, "gone")
  /\ \A k \in Calls : inside[k] # c
  /\ UNCHANGED <<at, target, inside>>

Call(k, c) ==
  /\ at[k] = "idle"
  /\ life[c] = "registered"
  /\ at' = [at EXCEPT ![k] = "called"]
  /\ target' = [target EXCEPT ![k] = c]
  /\ UNCHANGED <<life, inside>>

Arrive(k) ==
  /\ at[k] = "called"
  /\ life[target[k]] = "registered"
  /\ at' = [at EXCEPT ![k] = "inside"]
  /\ inside' = [inside EXCEPT ![k] = target[k]]
  /\ UNCHANGED <<life, target>>

(* A call may end without a callback: the application need not set all.    *)
Finish(k) ==
  /\ at[k] \in {"called", "inside"}
  /\ at' = [at EXCEPT ![k] = "back"]
  /\ inside' = [inside EXCEPT ![k] = None]
  /\ UNCHANGED <<life, target>>

Next ==
  \/ \E c \in Clients : Build(c) \/ Register(c) \/ Retire(c) \/ Vanish(c)
  \/ \E k \in Calls : Arrive(k) \/ Finish(k) \/ \E c \in Clients : Call(k, c)

Spec == Init /\ [][Next]_vars

=============================================================================
