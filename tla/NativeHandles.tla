---------------------------- MODULE NativeHandles ---------------------------
(***************************************************************************)
(* Who owns which object of the native core.                               *)
(*                                                                         *)
(* A Statsig object (statsig.cpp) owns an instance of the core through     *)
(* ref_; it can be moved, copy-assigned (which leaves it without an        *)
(* instance) and destroyed.  A User and a StatsigOptions (user.cpp,        *)
(* options.cpp) own their native data through ref; they declare only a     *)
(* constructor and a destructor, so the compiler adds a member-wise copy   *)
(* constructor and copy assignment.  Both classes behave alike and are     *)
(* called handles here.                                                    *)
(*                                                                         *)
(* A Layer (layer.h) keeps the ref of the instance that evaluated it       *)
(* without owning it, and logs an exposure there when a parameter is read. *)
(*                                                                         *)
(* Objects and Handles are the places (variables, temporaries) such values *)
(* live in; a place is used again after a destruction.                     *)
(***************************************************************************)
EXTENDS FiniteSets

CONSTANTS
  Objects,    \* places of Statsig objects
  Handles,    \* places of User and StatsigOptions objects
  Layers,     \* places of Layer objects
  Instances,  \* refs statsig_create can return
  Data,       \* refs statsig_user_create_... and ..._options_create_... return
  NoRef       \* the ref 0

ASSUME HandlesAssumption ==
  /\ NoRef \notin Instances \cup Data
  /\ Instances \cap Data = {}
  /\ Objects \cap Handles = {}

VARIABLES
  alive,   \* the places that hold a constructed object
  ref,     \* ref_ (ref) of each object
  native,  \* what the core has behind each ref
  aliased, \* history: data whose ref got into a handle by other means than
           \* build(), or was overwritten in one
  layer,   \* the Layer objects: statsig_ref_, whether there are parameters
           \* in value, and where they came from (history)
  logged   \* the exposure the core logged last: which instance logged it,
           \* and of which layer

ownerVars == <<alive, ref, native, aliased>>
layerVars == <<layer, logged>>
vars == <<ownerVars, layerVars>>

-----------------------------------------------------------------------------
Places == Objects \cup Handles
Refs   == Instances \cup Data

(* evaluated: by the instance `of`; default: never filled; parsed: filled  *)
(* by from_json without the constructor.                                   *)
LayerValues ==
  [ref    : Instances \cup {NoRef},
   filled : BOOLEAN,
   source : {"evaluated", "default", "parsed"},
   of     : Instances \cup {NoRef}]

EmptyLayer(r) ==
  [ref |-> r, filled |-> FALSE, source |-> "default", of |-> NoRef]

Unread == [by |-> NoRef, source |-> "default", of |-> NoRef]

OwnersTypeOK ==
  /\ alive \subseteq Places
  /\ ref \in [Places -> Refs \cup {NoRef}]
  /\ \A o \in Objects : ref[o] \in Instances \cup {NoRef}
  /\ \A h \in Handles : ref[h] \in Data \cup {NoRef}
  /\ native \in [Refs -> {"unused", "live", "released", "released_again"}]
  /\ aliased \subseteq Data

LayersTypeOK ==
  /\ layer \in [Layers -> LayerValues]
  /\ logged \in [by     : Instances \cup {NoRef},
                source : {"evaluated", "default", "parsed"},
                of     : Instances \cup {NoRef}]

TypeOK == OwnersTypeOK /\ LayersTypeOK

Init ==
  /\ alive = {}
  /\ ref = [p \in Places |-> NoRef]
  /\ native = [r \in Refs |-> "unused"]
  /\ aliased = {}
  /\ layer = [l \in Layers |-> EmptyLayer(NoRef)]
  /\ logged = Unread

-----------------------------------------------------------------------------
(* The core: a ref is handed out once, or not at all; releasing it drops   *)
(* the object behind it.                                                   *)

Create(r) == [native EXCEPT ![r] = "live"]

Release(r) ==
  [x \in Refs |->
     IF x # r THEN native[x]
     ELSE IF native[x] = "live" THEN "released" ELSE "released_again"]

(* `if (ref_ != 0) statsig_release(ref_)` and its two siblings.            *)
Released(r) == IF r = NoRef THEN native ELSE Release(r)

Fresh(p, kindRefs) ==
  /\ p \notin alive
  /\ alive' = alive \cup {p}
  /\ \E r \in kindRefs \cup {NoRef} :
       /\ r # NoRef => native[r] = "unused"
       /\ ref' = [ref EXCEPT ![p] = r]
       /\ native' = IF r = NoRef THEN native ELSE Create(r)

-----------------------------------------------------------------------------
(* Statsig.                                                                *)

(* Both constructors; statsig_create may fail and return 0.                *)
Construct(o) == Fresh(o, Instances) /\ UNCHANGED aliased

MoveConstruct(o, other) ==
  /\ other \in alive /\ o \notin alive
  /\ alive' = alive \cup {o}
  /\ ref' = [ref EXCEPT ![o] = ref[other], ![other] = NoRef]
  /\ UNCHANGED <<native, aliased>>

(* Mutant: `other` keeps the ref that was taken from it.                   *)
MoveAssign_KeepsOther(o, other) ==
  /\ {o, other} \subseteq alive
  /\ IF o = other
       THEN UNCHANGED <<ref, native>>
       ELSE /\ native' = Released(ref[o])
            /\ ref' = [ref EXCEPT ![o] = ref[other]]
  /\ UNCHANGED <<alive, aliased>>

(* Mutant: the instance the target had is overwritten.                     *)
MoveAssign_NoRelease(o, other) ==
  /\ {o, other} \subseteq alive
  /\ IF o = other
       THEN UNCHANGED ref
       ELSE ref' = [ref EXCEPT ![o] = ref[other], ![other] = NoRef]
  /\ UNCHANGED <<alive, native, aliased>>

(* Nothing happens when an object is assigned to itself.                   *)
MoveAssign(o, other) ==
  /\ {o, other} \subseteq alive
  /\ IF o = other
       THEN UNCHANGED <<ref, native>>
       ELSE /\ native' = Released(ref[o])
            /\ ref' = [ref EXCEPT ![o] = ref[other], ![other] = NoRef]
  /\ UNCHANGED <<alive, aliased>>

(* Copy assignment does not share: the target is left without an instance. *)
CopyAssign(o, other) ==
  /\ {o, other} \subseteq alive
  /\ IF o = other
       THEN UNCHANGED <<ref, native>>
       ELSE /\ native' = Released(ref[o])
            /\ ref' = [ref EXCEPT ![o] = NoRef]
  /\ UNCHANGED <<alive, aliased>>

Destruct(o) ==
  /\ o \in alive
  /\ native' = Released(ref[o])
  /\ alive' = alive \ {o}
  /\ ref' = [ref EXCEPT ![o] = NoRef]
  /\ UNCHANGED aliased

-----------------------------------------------------------------------------
(* User and StatsigOptions.                                                *)

(* Mutants: build() calls the wrong constructor of the core; it keeps the  *)
(* handle in a local whose destructor runs.                                *)
Build_WrongCreate(h) == Fresh(h, Instances) /\ UNCHANGED aliased

Build_DestroysLocal(h) ==
  /\ h \notin alive
  /\ alive' = alive \cup {h}
  /\ \E r \in Data :
       /\ native[r] = "unused"
       /\ ref' = [ref EXCEPT ![h] = r]
       /\ native' = [native EXCEPT ![r] = "released"]
  /\ UNCHANGED aliased

(* build() serializes the builder, creates the native data and returns the *)
(* handle without a copy.                                                  *)
Build(h) == Fresh(h, Data) /\ UNCHANGED aliased

(* `StatsigOptions options;` leaves ref uninitialized (`StatsigOptions() =  *)
(* default`): any ref may be found there.                                  *)
DefaultInit(h) ==
  /\ h \notin alive
  /\ alive' = alive \cup {h}
  /\ \E r \in Data \cup {NoRef} :
       /\ ref' = [ref EXCEPT ![h] = r]
       /\ aliased' = aliased \cup ({r} \ {NoRef})
  /\ UNCHANGED native

(* The implicit copy constructor.                                          *)
CopyHandle(h, other) ==
  /\ other \in alive /\ h \notin alive
  /\ alive' = alive \cup {h}
  /\ ref' = [ref EXCEPT ![h] = ref[other]]
  /\ aliased' = aliased \cup ({ref[other]} \ {NoRef})
  /\ UNCHANGED native

(* The implicit copy assignment: the data of the target is forgotten.      *)
AssignHandle(h, other) ==
  /\ {h, other} \subseteq alive
  /\ h # other
  /\ ref' = [ref EXCEPT ![h] = ref[other]]
  /\ aliased' = aliased \cup ({ref[h], ref[other]} \ {NoRef})
  /\ UNCHANGED <<alive, native>>

DestroyHandle(h) ==
  /\ h \in alive
  /\ native' = Released(ref[h])
  /\ alive' = alive \ {h}
  /\ ref' = [ref EXCEPT ![h] = NoRef]
  /\ UNCHANGED aliased

-----------------------------------------------------------------------------
(* Layer.                                                                  *)

(* `Layer layer;` leaves statsig_ref_ uninitialized, unlike `Layer()`.     *)
DeclareLayer(l) ==
  /\ \E r \in Instances \cup {NoRef} :
       layer' = [layer EXCEPT ![l] = EmptyLayer(r)]
  /\ UNCHANGED <<ownerVars, logged>>

(* getLayer: the core evaluates and the constructor fills the layer, or it *)
(* answers nullptr, as it does for a ref it does not know.                 *)
GetLayer(l, o) ==
  /\ o \in alive
  /\ \/ /\ ref[o] # NoRef /\ native[ref[o]] = "live"
        /\ layer' = [layer EXCEPT ![l] = [ref |-> ref[o], filled |-> TRUE,
                                          source |-> "evaluated", of |-> ref[o]]]
     \/ layer' = [layer EXCEPT ![l] = EmptyLayer(NoRef)]
  /\ UNCHANGED <<ownerVars, logged>>

(* The application parses a text into a Layer it has declared: the core's  *)
(* text is not kept, and statsig_ref_ stays as it was found.               *)
ParseLayer(l) ==
  /\ \E r \in Instances \cup {NoRef} :
       layer' = [layer EXCEPT ![l] = [ref |-> r, filled |-> TRUE,
                                      source |-> "parsed", of |-> NoRef]]
  /\ UNCHANGED <<ownerVars, logged>>

(* The core logs an exposure if it knows the instance.                     *)
LogExposure(l) ==
  /\ layer[l].ref # NoRef /\ native[layer[l].ref] = "live"
  /\ logged' = [by |-> layer[l].ref, source |-> layer[l].source,
                of |-> layer[l].of]
  /\ UNCHANGED <<ownerVars, layer>>

(* Mutant: the exposure is logged before the parameter is looked up.       *)
GetParam_LogsFirst(l) == LogExposure(l)

(* get<T>(): nothing is logged for a parameter the layer does not have or  *)
(* that does not convert.                                                  *)
GetParam(l) == layer[l].filled /\ LogExposure(l)

-----------------------------------------------------------------------------
StatsigStep(o) ==
  \/ Construct(o)
  \/ \E other \in Objects :
       MoveConstruct(o, other) \/ MoveAssign(o, other) \/ CopyAssign(o, other)
  \/ Destruct(o)

HandleStep(h) ==
  \/ Build(h)
  \/ DefaultInit(h)
  \/ \E other \in Handles : CopyHandle(h, other) \/ AssignHandle(h, other)
  \/ DestroyHandle(h)

LayerStep(l) ==
  \/ DeclareLayer(l)
  \/ \E o \in Objects : GetLayer(l, o)
  \/ ParseLayer(l)
  \/ GetParam(l)

Next ==
  \/ (\E o \in Objects : StatsigStep(o)) /\ UNCHANGED layerVars
  \/ (\E h \in Handles : HandleStep(h)) /\ UNCHANGED layerVars
  \/ \E l \in Layers : LayerStep(l)

Spec == Init /\ [][Next]_vars

-----------------------------------------------------------------------------
Owns(p, r) == p \in alive /\ ref[p] = r

ExactlyOneOwner(r) ==
  /\ native[r] = "live" <=> \E p \in Places : Owns(p, r)
  /\ \A p, q \in Places : Owns(p, r) /\ Owns(q, r) => p = q
  /\ native[r] # "released_again"

(* Whatever sequence of moves, assignments and destructions the            *)
(* application runs, each running instance of the core belongs to exactly  *)
(* one Statsig object, none is kept without an owner, no object refers to  *)
(* one that was released, and none is released twice.                      *)
InstanceOwnership == \A r \in Instances : ExactlyOneOwner(r)

(* The same for the data of a User or StatsigOptions, as long as no copy   *)
(* of its handle was made (and no uninitialized one names it), whatever    *)
(* happens to other handles: the classes are correct as values that are    *)
(* never copied, although nothing in them forbids the copy.                *)
HandleOwnership == \A r \in Data \ aliased : ExactlyOneOwner(r)

(* An exposure is logged by the instance that evaluated the layer, also if *)
(* the Statsig object has been moved or has got another instance since,    *)
(* and a layer without an evaluation logs none although its ref is         *)
(* uninitialized; the exception is a layer the application parses itself.  *)
ExposuresReachEvaluator ==
  logged # Unread =>
    \/ logged.source = "parsed"
    \/ logged.source = "evaluated" /\ logged.by = logged.of

=============================================================================
