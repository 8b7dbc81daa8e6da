------------------------ MODULE NativeHandlesProofs -------------------------
(***************************************************************************)
(* Proofs about NativeHandles.  Both ownership properties are, with the    *)
(* types, inductive; the property of exposures needs to know of a layer    *)
(* that only an evaluation or the application's own parsing fills it, and  *)
(* that an evaluated one keeps the ref of its evaluator.                   *)
(***************************************************************************)
EXTENDS NativeHandles, TLAPS

OwnerInv == OwnersTypeOK /\ InstanceOwnership /\ HandleOwnership

LayerInv ==
  /\ LayersTypeOK
  /\ ExposuresReachEvaluator
  /\ \A l \in Layers :
       /\ layer[l].filled => layer[l].source # "default"
       /\ layer[l].source = "evaluated" => layer[l].ref = layer[l].of

(* The initial states satisfy both.                                        *)
LEMMA InitInv == Init => OwnerInv /\ LayerInv
<1>1. Init => OwnerInv
  BY HandlesAssumption
  DEF Init, OwnerInv, OwnersTypeOK, Places, Refs, InstanceOwnership,
      HandleOwnership, ExactlyOneOwner, Owns
<1>2. Init => LayerInv
  BY DEF Init, LayerInv, LayersTypeOK, LayerValues, EmptyLayer, Unread,
         ExposuresReachEvaluator
<1> QED
  BY <1>1, <1>2

-----------------------------------------------------------------------------
(* Every operation on an owner preserves ownership.                        *)

LEMMA ConstructInv ==
  ASSUME OwnerInv, NEW o \in Objects, Construct(o)
  PROVE  OwnerInv'
<1> USE HandlesAssumption
    DEF OwnerInv, OwnersTypeOK, Places, Refs, Construct, Fresh, Create
<1>1. OwnersTypeOK'
  OBVIOUS
<1>2. InstanceOwnership'
  BY DEF InstanceOwnership, ExactlyOneOwner, Owns
<1>3. HandleOwnership'
  BY DEF HandleOwnership, ExactlyOneOwner, Owns
<1> QED
  BY <1>1, <1>2, <1>3

LEMMA MoveConstructInv ==
  ASSUME OwnerInv, NEW o \in Objects, NEW other \in Objects, MoveConstruct(o, other)
  PROVE  OwnerInv'
<1> USE HandlesAssumption
    DEF OwnerInv, OwnersTypeOK, Places, Refs, MoveConstruct
<1>1. OwnersTypeOK'
  OBVIOUS
<1>2. InstanceOwnership'
  BY DEF InstanceOwnership, ExactlyOneOwner, Owns
<1>3. HandleOwnership'
  BY DEF HandleOwnership, ExactlyOneOwner, Owns
<1> QED
  BY <1>1, <1>2, <1>3

LEMMA MoveAssignInv ==
  ASSUME OwnerInv, NEW o \in Objects, NEW other \in Objects, MoveAssign(o, other)
  PROVE  OwnerInv'
<1> USE HandlesAssumption
    DEF OwnerInv, OwnersTypeOK, Places, Refs, MoveAssign, Released, Release
<1>1. OwnersTypeOK'
  OBVIOUS
<1>2. InstanceOwnership'
  BY DEF InstanceOwnership, ExactlyOneOwner, Owns
<1>3. HandleOwnership'
  BY DEF HandleOwnership, ExactlyOneOwner, Owns
<1> QED
  BY <1>1, <1>2, <1>3

LEMMA CopyAssignInv ==
  ASSUME OwnerInv, NEW o \in Objects, NEW other \in Objects, CopyAssign(o, other)
  PROVE  OwnerInv'
<1> USE HandlesAssumption
    DEF OwnerInv, OwnersTypeOK, Places, Refs, CopyAssign, Released, Release
<1>1. OwnersTypeOK'
  OBVIOUS
<1>2. InstanceOwnership'
  BY DEF InstanceOwnership, ExactlyOneOwner, Owns
<1>3. HandleOwnership'
  BY DEF HandleOwnership, ExactlyOneOwner, Owns
<1> QED
  BY <1>1, <1>2, <1>3

LEMMA DestructInv ==
  ASSUME OwnerInv, NEW o \in Objects, Destruct(o)
  PROVE  OwnerInv'
<1> USE HandlesAssumption
    DEF OwnerInv, OwnersTypeOK, Places, Refs, Destruct, Released, Release
<1>1. OwnersTypeOK'
  OBVIOUS
<1>2. InstanceOwnership'
  BY DEF InstanceOwnership, ExactlyOneOwner, Owns
<1>3. HandleOwnership'
  BY DEF HandleOwnership, ExactlyOneOwner, Owns
<1> QED
  BY <1>1, <1>2, <1>3

LEMMA BuildInv ==
  ASSUME OwnerInv, NEW h \in Handles, Build(h)
  PROVE  OwnerInv'
<1> USE HandlesAssumption
    DEF OwnerInv, OwnersTypeOK, Places, Refs, Build, Fresh, Create
<1>1. OwnersTypeOK'
  OBVIOUS
<1>2. InstanceOwnership'
  BY DEF InstanceOwnership, ExactlyOneOwner, Owns
<1>3. HandleOwnership'
  BY DEF HandleOwnership, ExactlyOneOwner, Owns
<1> QED
  BY <1>1, <1>2, <1>3

LEMMA DefaultInitInv ==
  ASSUME OwnerInv, NEW h \in Handles, DefaultInit(h)
  PROVE  OwnerInv'
<1> USE HandlesAssumption
    DEF OwnerInv, OwnersTypeOK, Places, Refs, DefaultInit
<1>1. OwnersTypeOK'
  OBVIOUS
<1>2. InstanceOwnership'
  BY DEF InstanceOwnership, ExactlyOneOwner, Owns
<1>3. HandleOwnership'
  BY DEF HandleOwnership, ExactlyOneOwner, Owns
<1> QED
  BY <1>1, <1>2, <1>3

LEMMA CopyHandleInv ==
  ASSUME OwnerInv, NEW h \in Handles, NEW other \in Handles, CopyHandle(h, other)
  PROVE  OwnerInv'
<1> USE HandlesAssumption
    DEF OwnerInv, OwnersTypeOK, Places, Refs, CopyHandle
<1>1. OwnersTypeOK'
  OBVIOUS
<1>2. InstanceOwnership'
  BY DEF InstanceOwnership, ExactlyOneOwner, Owns
<1>3. HandleOwnership'
  BY DEF HandleOwnership, ExactlyOneOwner, Owns
<1> QED
  BY <1>1, <1>2, <1>3

LEMMA AssignHandleInv ==
  ASSUME OwnerInv, NEW h \in Handles, NEW other \in Handles, AssignHandle(h, other)
  PROVE  OwnerInv'
<1> USE HandlesAssumption
    DEF OwnerInv, OwnersTypeOK, Places, Refs, AssignHandle
<1>1. OwnersTypeOK'
  OBVIOUS
<1>2. InstanceOwnership'
  BY DEF InstanceOwnership, ExactlyOneOwner, Owns
<1>3. HandleOwnership'
  BY DEF HandleOwnership, ExactlyOneOwner, Owns
<1> QED
  BY <1>1, <1>2, <1>3

LEMMA DestroyHandleInv ==
  ASSUME OwnerInv, NEW h \in Handles, DestroyHandle(h)
  PROVE  OwnerInv'
<1> USE HandlesAssumption
    DEF OwnerInv, OwnersTypeOK, Places, Refs, DestroyHandle, Released, Release
<1>1. OwnersTypeOK'
  OBVIOUS
<1>2. InstanceOwnership'
  BY DEF InstanceOwnership, ExactlyOneOwner, Owns
<1>3. HandleOwnership'
  BY DEF HandleOwnership, ExactlyOneOwner, Owns
<1> QED
  BY <1>1, <1>2, <1>3

-----------------------------------------------------------------------------
(* The operations on layers preserve what is known of them.                *)

LEMMA DeclareLayerInv ==
  ASSUME LayerInv, NEW l \in Layers, DeclareLayer(l)
  PROVE  LayerInv'
<1> USE DEF LayerInv, LayersTypeOK, LayerValues, DeclareLayer, EmptyLayer
<1>1. LayersTypeOK'
  OBVIOUS
<1>2. ExposuresReachEvaluator'
  BY DEF ExposuresReachEvaluator, Unread
<1>3. ASSUME NEW x \in Layers
      PROVE  /\ layer'[x].filled => layer'[x].source # "default"
             /\ layer'[x].source = "evaluated" => layer'[x].ref = layer'[x].of
  OBVIOUS
<1> QED
  BY <1>1, <1>2, <1>3

(* What getLayer() stores: an evaluated layer, or one without parameters.  *)
LEMMA GetLayerValue ==
  ASSUME OwnerInv, NEW l \in Layers, NEW o \in Objects, GetLayer(l, o)
  PROVE  \E v \in LayerValues :
           /\ layer' = [layer EXCEPT ![l] = v]
           /\ v.filled => v.source # "default"
           /\ v.source = "evaluated" => v.ref = v.of
<1> DEFINE empty == EmptyLayer(NoRef)
           full  == [ref |-> ref[o], filled |-> TRUE,
                     source |-> "evaluated", of |-> ref[o]]
<1>1. \/ layer' = [layer EXCEPT ![l] = empty]
      \/ layer' = [layer EXCEPT ![l] = full]
  BY DEF GetLayer
<1>2. /\ empty \in LayerValues
      /\ ~empty.filled /\ empty.source # "evaluated"
  BY DEF EmptyLayer, LayerValues
<1>3. /\ full \in LayerValues
      /\ full.source # "default" /\ full.ref = full.of
  BY DEF LayerValues, OwnerInv, OwnersTypeOK
<1> HIDE DEF empty, full
<1> QED
  BY <1>1, <1>2, <1>3

LEMMA GetLayerInv ==
  ASSUME OwnerInv, LayerInv, NEW l \in Layers, NEW o \in Objects, GetLayer(l, o)
  PROVE  LayerInv'
<1> USE DEF LayerInv, LayersTypeOK
<1>1. logged' = logged
  BY DEF GetLayer
<1>2. PICK v \in LayerValues :
        /\ layer' = [layer EXCEPT ![l] = v]
        /\ v.filled => v.source # "default"
        /\ v.source = "evaluated" => v.ref = v.of
  BY GetLayerValue
<1>3. LayersTypeOK'
  BY <1>1, <1>2
<1>4. ExposuresReachEvaluator'
  BY <1>1 DEF ExposuresReachEvaluator, Unread
<1>5. ASSUME NEW x \in Layers
      PROVE  /\ layer'[x].filled => layer'[x].source # "default"
             /\ layer'[x].source = "evaluated" => layer'[x].ref = layer'[x].of
  BY <1>2
<1> QED
  BY <1>3, <1>4, <1>5

LEMMA ParseLayerInv ==
  ASSUME LayerInv, NEW l \in Layers, ParseLayer(l)
  PROVE  LayerInv'
<1> USE DEF LayerInv, LayersTypeOK, LayerValues, ParseLayer
<1>1. LayersTypeOK'
  OBVIOUS
<1>2. ExposuresReachEvaluator'
  BY DEF ExposuresReachEvaluator, Unread
<1>3. ASSUME NEW x \in Layers
      PROVE  /\ layer'[x].filled => layer'[x].source # "default"
             /\ layer'[x].source = "evaluated" => layer'[x].ref = layer'[x].of
  OBVIOUS
<1> QED
  BY <1>1, <1>2, <1>3

LEMMA GetParamInv ==
  ASSUME LayerInv, NEW l \in Layers, GetParam(l)
  PROVE  LayerInv'
<1> USE DEF LayerInv, LayersTypeOK, LayerValues, GetParam, LogExposure
<1>1. LayersTypeOK'
  OBVIOUS
<1>2. ExposuresReachEvaluator'
  BY DEF ExposuresReachEvaluator
<1> QED
  BY <1>1, <1>2

-----------------------------------------------------------------------------
Inv == OwnerInv /\ LayerInv

(* Every step of the specification preserves the invariant.                *)
LEMMA InductiveStep == Inv /\ [Next]_vars => Inv'
<1> SUFFICES ASSUME OwnerInv, LayerInv, [Next]_vars PROVE OwnerInv' /\ LayerInv'
  BY DEF Inv
<1>1. UNCHANGED layerVars => LayerInv'
  BY DEF layerVars, LayerInv, LayersTypeOK, ExposuresReachEvaluator
<1>2. UNCHANGED ownerVars => OwnerInv'
  BY DEF ownerVars, OwnerInv, OwnersTypeOK, InstanceOwnership, HandleOwnership,
     ExactlyOneOwner, Owns
<1>3. ASSUME NEW o \in Objects, StatsigStep(o) PROVE OwnerInv'
  BY <1>3, ConstructInv, MoveConstructInv, MoveAssignInv, CopyAssignInv,
     DestructInv DEF StatsigStep
<1>4. ASSUME NEW h \in Handles, HandleStep(h) PROVE OwnerInv'
  BY <1>4, BuildInv, DefaultInitInv, CopyHandleInv, AssignHandleInv,
     DestroyHandleInv DEF HandleStep
<1>5. ASSUME NEW l \in Layers, LayerStep(l) PROVE OwnerInv' /\ LayerInv'
  <2>1. UNCHANGED ownerVars
    BY <1>5 DEF LayerStep, DeclareLayer, GetLayer, ParseLayer, GetParam, LogExposure
  <2>2. LayerInv'
    BY <1>5, DeclareLayerInv, GetLayerInv, ParseLayerInv, GetParamInv DEF LayerStep
  <2> QED
    BY <2>1, <2>2, <1>2
<1>6. CASE UNCHANGED vars
  BY <1>6, <1>1, <1>2 DEF vars
<1> QED
  BY <1>1, <1>3, <1>4, <1>5, <1>6 DEF Next

-----------------------------------------------------------------------------
(* The conjunction holds in every reachable state.                         *)
THEOREM Invariance == Spec => []Inv
<1>1. Init => Inv
  BY InitInv DEF Inv
<1> QED
  BY <1>1, InductiveStep, PTL DEF Spec

(* Every variable keeps its type.                                          *)
THEOREM TypeCorrectness == Spec => []TypeOK
<1>1. Inv => TypeOK
  BY DEF Inv, OwnerInv, LayerInv, TypeOK
<1> QED
  BY <1>1, Invariance, PTL

(* Each instance of the core has exactly one owner until it is released,   *)
(* once.                                                                   *)
THEOREM InstancesOwned == Spec => []InstanceOwnership
<1>1. Inv => InstanceOwnership
  BY DEF Inv, OwnerInv
<1> QED
  BY <1>1, Invariance, PTL

(* So has the data of every handle that is never copied.                   *)
THEOREM HandlesOwned == Spec => []HandleOwnership
<1>1. Inv => HandleOwnership
  BY DEF Inv, OwnerInv
<1> QED
  BY <1>1, Invariance, PTL

(* Exposures are logged by the instance that evaluated the layer.          *)
THEOREM ExposuresReached == Spec => []ExposuresReachEvaluator
<1>1. Inv => ExposuresReachEvaluator
  BY DEF Inv, LayerInv
<1> QED
  BY <1>1, Invariance, PTL

=============================================================================
