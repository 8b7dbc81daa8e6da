-------------------------- MODULE LifecycleProofs ---------------------------
(***************************************************************************)
(* Proofs about Lifecycle, for every number of adapters, builders, objects *)
(* and refs.                                                               *)
(*                                                                         *)
(* Whatever the application does is, for the objects that own a ref, a     *)
(* step of NativeHandles or a stutter (UsesHandles), so instances and data *)
(* that are not aliased have exactly one owner here too.                   *)
(*                                                                         *)
(* ScopeInv is about a scoped application: its scope holds what exists,    *)
(* once, and whatever a builder, options data or an instance refers to is  *)
(* older than the object that holds it.  ReasonInv says, for any           *)
(* application, why a builder, options data or an instance has another     *)
(* adapter than the chosen one.  Each step is then a matter of the one     *)
(* object it changes: StepOfScope and OrderKept say once and for all what  *)
(* happens to the ages of the others.                                      *)
(***************************************************************************)
EXTENDS Lifecycle, NativeHandlesProofs, SequenceTheorems

Before(s, x, y) == \E n, m \in DOMAIN s : n < m /\ s[n] = x /\ s[m] = y

Living ==
  {a \in Adapters : Exists(a)} \cup {b \in Builders : setting[b] # Absent}
    \cup alive

ShapeInv == scoped => IsInjective(scope) /\ Range(scope) = Living

SettingsAge ==
  scoped => \A b \in Builders :
              setting[b] \in Adapters => Before(scope, setting[b], b)

ConfigsAge ==
  scoped => \A h \in Handles \cap alive :
              ref[h] # NoRef =>
                /\ native[ref[h]] # "unused"
                /\ config[ref[h]] # None => Before(scope, config[ref[h]], h)

UsesAge ==
  scoped => \A o \in Objects \cap alive :
              ref[o] # NoRef /\ uses[ref[o]] # None
                => Before(scope, uses[ref[o]], o)

ScopeInv == ShapeInv /\ SettingsAge /\ ConfigsAge /\ UsesAge

(* With the adapters as in life, u is used where c was chosen.             *)
Explained(life, u, c) ==
  \/ u = c
  \/ u = None /\ c \in Adapters /\ life[c] \in {"unregistered", "gone"}

SettingsReason ==
  \A b \in Builders :
    /\ setting[b] \in Adapters => adapter[setting[b]] \in {"registered", "gone"}
    /\ setting[b] # Absent => Explained(adapter, setting[b], chosen[b])

ConfigsReason == \A d \in Data : Explained(adapter, config[d], chosen[d])

UsesReason ==
  \A i \in Instances :
    IF madeFrom[i] = NoRef
      THEN uses[i] = None
      ELSE \/ uses[i] = None /\ madeFrom[i] \in aliased
           \/ /\ native[madeFrom[i]] # "unused"
              /\ Explained(adapter, uses[i], chosen[madeFrom[i]])

ReasonInv == SettingsReason /\ ConfigsReason /\ UsesReason

LifecycleInv == Inv /\ LifecycleTypeOK /\ ScopeInv /\ ReasonInv

-----------------------------------------------------------------------------
(* Sequences that grow and shrink at their end.                            *)

LEMMA Entered ==
  ASSUME NEW S, NEW s \in Seq(S), NEW x \in S
  PROVE  /\ Append(s, x) \in Seq(S)
         /\ Range(Append(s, x)) = Range(s) \cup {x}
         /\ \A y, z : Before(s, y, z) => Before(Append(s, x), y, z)
         /\ \A y \in Range(s) : Before(Append(s, x), y, x)
         /\ IsInjective(s) /\ x \notin Range(s) => IsInjective(Append(s, x))
<1> DEFINE t == Append(s, x)
<1>1. /\ t \in Seq(S) /\ Len(t) = Len(s) + 1 /\ t[Len(s) + 1] = x
      /\ \A n \in 1 .. Len(s) : t[n] = s[n]
  BY AppendProperties
<1>2. Len(s) \in Nat /\ DOMAIN s = 1 .. Len(s) /\ DOMAIN t = 1 .. (Len(s) + 1)
  BY <1>1, LenProperties
<1> HIDE DEF t
<1>3. Range(t) = Range(s) \cup {x}
  BY <1>1, <1>2, SMTT(30) DEF Range
<1>4. \A y, z : Before(s, y, z) => Before(t, y, z)
  BY <1>1, <1>2 DEF Before
<1>5. \A y \in Range(s) : Before(t, y, x)
  BY <1>1, <1>2 DEF Before, Range
<1>6. IsInjective(s) /\ x \notin Range(s) => IsInjective(t)
  BY <1>1, <1>2, SMTT(30) DEF IsInjective, Range
<1> QED
  BY <1>1, <1>3, <1>4, <1>5, <1>6 DEF t

LEMMA LeftLast ==
  ASSUME NEW S, NEW s \in Seq(S), s # <<>>
  PROVE  /\ Front(s) \in Seq(S)
         /\ IsInjective(s) => /\ IsInjective(Front(s))
                              /\ Range(Front(s)) = Range(s) \ {s[Len(s)]}
         /\ \A y, z : Before(s, y, z) /\ z # s[Len(s)] => Before(Front(s), y, z)
<1> DEFINE t == Front(s)
<1>1. Len(s) \in Nat \ {0} /\ DOMAIN s = 1 .. Len(s)
  BY EmptySeq, LenProperties
<1>2. /\ t \in Seq(S) /\ Len(t) = Len(s) - 1
      /\ \A n \in 1 .. (Len(s) - 1) : t[n] = s[n]
  BY <1>1, SubSeqProperties DEF Front
<1>3. DOMAIN t = 1 .. (Len(s) - 1)
  BY <1>2, LenProperties
<1> HIDE DEF t
<1>4. IsInjective(s) => IsInjective(t)
  BY <1>1, <1>2, <1>3 DEF IsInjective
<1>5. IsInjective(s) => Range(t) = Range(s) \ {s[Len(s)]}
  BY <1>1, <1>2, <1>3, SMTT(30) DEF IsInjective, Range
<1>6. \A y, z : Before(s, y, z) /\ z # s[Len(s)] => Before(t, y, z)
  BY <1>1, <1>2, <1>3 DEF Before
<1> QED
  BY <1>2, <1>4, <1>5, <1>6 DEF t

LEMMA BeforeIsTransitive ==
  ASSUME NEW S, NEW s \in Seq(S), IsInjective(s), NEW x, NEW y, NEW z,
         Before(s, x, y), Before(s, y, z)
  PROVE  Before(s, x, z)
<1>1. DOMAIN s = 1 .. Len(s) /\ Len(s) \in Nat
  BY LenProperties
<1> QED
  BY <1>1 DEF Before, IsInjective

LEMMA BeforeIsWithin ==
  ASSUME NEW s, NEW x, NEW y, Before(s, x, y)
  PROVE  x \in Range(s) /\ y \in Range(s)
BY DEF Before, Range

-----------------------------------------------------------------------------
(* Lifecycle and NativeHandles.                                            *)

(* Every step is one of NativeHandles or leaves its variables alone.       *)
LEMMA StepUsesHandles == [LifecycleNext]_allVars => [Next]_vars
<1> SUFFICES ASSUME [LifecycleNext]_allVars PROVE [Next]_vars
  OBVIOUS
<1>1. CASE UNCHANGED allVars
  BY <1>1 DEF allVars
<1>2. ASSUME NEW a \in Adapters, CreateAdapter(a) \/ DestroyAdapter(a)
      PROVE  UNCHANGED vars
  BY <1>2 DEF CreateAdapter, DestroyAdapter
<1>3. ASSUME NEW b \in Builders,
             CreateBuilder(b) \/ (\E a \in Adapters : SetAdapter(b, a)) \/ DestroyBuilder(b)
      PROVE  UNCHANGED vars
  BY <1>3 DEF CreateBuilder, SetAdapter, DestroyBuilder
<1>4. ASSUME NEW h \in Handles,
             (\E b \in Builders : BuildOptions(h, b)) \/ DuplicateOptions(h) \/ DestroyOptions(h)
      PROVE  HandleStep(h) /\ UNCHANGED layerVars
  BY <1>4 DEF BuildOptions, DuplicateOptions, DestroyOptions, HandleStep
<1>5. ASSUME NEW o \in Objects,
             \/ CreateWithOptions(o) \/ CreateWithout(o)
             \/ \E other \in Objects : MoveStatsig(o, other)
             \/ DestroyStatsig(o)
      PROVE  StatsigStep(o) /\ UNCHANGED layerVars
  BY <1>5 DEF CreateWithOptions, CreateWithout, CreateStatsig, MoveStatsig,
     DestroyStatsig, StatsigStep
<1> QED
  BY <1>1, <1>2, <1>3, <1>4, <1>5 DEF LifecycleNext, Next

(* Instances and handles behave as NativeHandles describes, whatever       *)
(* adapters and builders are around.                                       *)
THEOREM UsesHandles == LifecycleSpec => Spec
<1>1. LifecycleInit => Init
  BY DEF LifecycleInit
<1> QED
  BY <1>1, StepUsesHandles, PTL DEF LifecycleSpec, Spec

-----------------------------------------------------------------------------
(* Types.                                                                  *)

LEMMA TypeInit == LifecycleInit => LifecycleTypeOK
<1> SUFFICES ASSUME LifecycleInit PROVE LifecycleTypeOK
  OBVIOUS
<1>1. TypeOK
  BY InitInv DEF LifecycleInit, OwnerInv, LayerInv, TypeOK
<1>2. scope \in Seq(Things)
  BY EmptySeq DEF LifecycleInit
<1> QED
  BY <1>1, <1>2 DEF LifecycleInit, LifecycleTypeOK, Settings

LEMMA ScopeType ==
  ASSUME scoped \in BOOLEAN, scope \in Seq(Things), NEW x \in Things,
         Enter(x) \/ Leave(x) \/ UNCHANGED scope
  PROVE  scope' \in Seq(Things)
BY Entered, LeftLast DEF Enter, Leave

LEMMA TypeStep ==
  ASSUME LifecycleTypeOK, TypeOK', [LifecycleNext]_allVars
  PROVE  LifecycleTypeOK'
<1> USE DEF LifecycleTypeOK
<1>1. ASSUME NEW a \in Adapters, CreateAdapter(a) \/ DestroyAdapter(a)
      PROVE  LifecycleTypeOK'
  <2>1. scope' \in Seq(Things)
    BY <1>1, ScopeType DEF CreateAdapter, DestroyAdapter, Things
  <2> QED
    BY <1>1, <2>1 DEF CreateAdapter, DestroyAdapter
<1>2. ASSUME NEW b \in Builders, CreateBuilder(b) \/ DestroyBuilder(b)
      PROVE  LifecycleTypeOK'
  <2>1. scope' \in Seq(Things)
    BY <1>2, ScopeType DEF CreateBuilder, DestroyBuilder, Things
  <2> QED
    BY <1>2, <2>1 DEF CreateBuilder, DestroyBuilder, Settings
<1>3. ASSUME NEW b \in Builders, NEW a \in Adapters, SetAdapter(b, a)
      PROVE  LifecycleTypeOK'
  BY <1>3 DEF SetAdapter, Settings
<1>4. ASSUME NEW h \in Handles, NEW b \in Builders, BuildOptions(h, b)
      PROVE  LifecycleTypeOK'
  <2>1. scope' \in Seq(Things)
    BY <1>4, ScopeType DEF BuildOptions, Things, Places
  <2>2. /\ ref'[h] \in Data \cup {NoRef}
        /\ Resolved(setting[b]) \in Settings /\ chosen[b] \in Settings
    BY <1>4 DEF BuildOptions, Resolved, Settings, TypeOK, OwnersTypeOK
  <2> QED
    BY <1>4, <2>1, <2>2 DEF BuildOptions
<1>5. ASSUME NEW h \in Handles, DuplicateOptions(h) \/ DestroyOptions(h)
      PROVE  LifecycleTypeOK'
  <2>1. scope' \in Seq(Things)
    BY <1>5, ScopeType DEF DuplicateOptions, DestroyOptions, Things, Places
  <2> QED
    BY <1>5, <2>1 DEF DuplicateOptions, DestroyOptions, adapterVars
<1>6. ASSUME NEW o \in Objects, NEW d \in Data \cup {NoRef}, CreateStatsig(o, d)
      PROVE  LifecycleTypeOK'
  <2>1. scope' \in Seq(Things)
    BY <1>6, ScopeType DEF CreateStatsig, Things, Places
  <2>2. ref'[o] \in Instances \cup {NoRef}
    BY DEF TypeOK, OwnersTypeOK
  <2> QED
    BY <1>6, <2>1, <2>2 DEF CreateStatsig, Settings
<1>7. ASSUME NEW o \in Objects,
             (\E other \in Objects : MoveStatsig(o, other)) \/ DestroyStatsig(o)
      PROVE  LifecycleTypeOK'
  <2>1. scope' \in Seq(Things)
    BY <1>7, ScopeType DEF MoveStatsig, DestroyStatsig, Things, Places
  <2> QED
    BY <1>7, <2>1 DEF MoveStatsig, DestroyStatsig, adapterVars
<1>8. \A o \in Objects : CreateWithOptions(o) \/ CreateWithout(o)
        => \E d \in Data \cup {NoRef} : CreateStatsig(o, d)
  BY DEF CreateWithOptions, CreateWithout, TypeOK, OwnersTypeOK
<1>9. CASE UNCHANGED allVars
  BY <1>9 DEF allVars, adapterVars
<1> QED
  BY <1>1, <1>2, <1>3, <1>4, <1>5, <1>6, <1>7, <1>8, <1>9 DEF LifecycleNext

-----------------------------------------------------------------------------
(* Scopes.                                                                 *)

(* A step constructs one object, destroys one, or neither.                 *)
LEMMA StepOfScope ==
  ASSUME LifecycleTypeOK, [LifecycleNext]_allVars
  PROVE  /\ scoped' = scoped
         /\ \/ \E x \in Things \ Living : Enter(x) /\ Living' = Living \cup {x}
            \/ \E x \in Living : Leave(x) /\ Living' = Living \ {x}
            \/ UNCHANGED scope /\ Living' = Living
<1> DEFINE Adults == {a \in Adapters : Exists(a)}
           Sites  == {b \in Builders : setting[b] # Absent}
           Goal   == \/ \E x \in Things \ Living : Enter(x) /\ Living' = Living \cup {x}
                     \/ \E x \in Living : Leave(x) /\ Living' = Living \ {x}
                     \/ UNCHANGED scope /\ Living' = Living
<1>0. /\ Adults \subseteq Adapters /\ Sites \subseteq Builders /\ alive \subseteq Places
      /\ Living = Adults \cup Sites \cup alive
      /\ Living' = Adults' \cup Sites' \cup alive'
      /\ UNCHANGED adapter => Adults' = Adults
      /\ UNCHANGED setting => Sites' = Sites
  BY DEF Living, Exists, LifecycleTypeOK, TypeOK, OwnersTypeOK
<1> USE LifecycleAssumption DEF Things
<1>1. ASSUME NEW a \in Adapters, CreateAdapter(a) PROVE Goal
  <2>1. a \notin Adults /\ Adults' = Adults \cup {a}
    BY <1>1 DEF CreateAdapter, Exists, LifecycleTypeOK
  <2>2. Enter(a) /\ alive' = alive /\ Sites' = Sites
    BY <1>1 DEF CreateAdapter, vars, ownerVars
  <2> HIDE DEF Adults, Sites
  <2>3. a \in Things \ Living /\ Living' = Living \cup {a}
    BY <1>0, <2>1, <2>2
  <2> QED
    BY <2>2, <2>3
<1>2. ASSUME NEW a \in Adapters, DestroyAdapter(a) PROVE Goal
  <2>1. a \in Adults /\ Adults' = Adults \ {a}
    BY <1>2 DEF DestroyAdapter, Exists, LifecycleTypeOK
  <2>2. Leave(a) /\ alive' = alive /\ Sites' = Sites
    BY <1>2 DEF DestroyAdapter, vars, ownerVars
  <2> HIDE DEF Adults, Sites
  <2>3. a \in Living /\ Living' = Living \ {a}
    BY <1>0, <2>1, <2>2
  <2> QED
    BY <2>2, <2>3
<1>3. ASSUME NEW b \in Builders, CreateBuilder(b) PROVE Goal
  <2>1. b \notin Sites /\ Sites' = Sites \cup {b}
    BY <1>3 DEF CreateBuilder, LifecycleTypeOK
  <2>2. Enter(b) /\ alive' = alive /\ Adults' = Adults
    BY <1>3, <1>0 DEF CreateBuilder, vars, ownerVars
  <2> HIDE DEF Adults, Sites
  <2>3. b \in Things \ Living /\ Living' = Living \cup {b}
    BY <1>0, <2>1, <2>2
  <2> QED
    BY <2>2, <2>3
<1>4. ASSUME NEW b \in Builders, DestroyBuilder(b) PROVE Goal
  <2>1. b \in Sites /\ Sites' = Sites \ {b}
    BY <1>4 DEF DestroyBuilder, LifecycleTypeOK
  <2>2. Leave(b) /\ alive' = alive /\ Adults' = Adults
    BY <1>4, <1>0 DEF DestroyBuilder, vars, ownerVars
  <2> HIDE DEF Adults, Sites
  <2>3. b \in Living /\ Living' = Living \ {b}
    BY <1>0, <2>1, <2>2
  <2> QED
    BY <2>2, <2>3
<1>5. ASSUME NEW b \in Builders, NEW a \in Adapters, SetAdapter(b, a) PROVE Goal
  <2>1. UNCHANGED <<scope, adapter, alive>>
    BY <1>5 DEF SetAdapter, vars, ownerVars
  <2>2. Sites' = Sites
    BY <1>5 DEF SetAdapter, MayUse, LifecycleTypeOK
  <2> QED
    BY <1>0, <2>1, <2>2
<1> DEFINE New(p)  == p \notin alive /\ Enter(p) /\ alive' = alive \cup {p}
           Old(p)  == p \in alive /\ Leave(p) /\ alive' = alive \ {p}
           Same    == UNCHANGED <<scope, alive>>
<1>6. ASSUME NEW p \in Places, UNCHANGED <<adapter, setting>>, New(p) \/ Old(p) \/ Same
      PROVE  Goal
  <2>1. Adults' = Adults /\ Sites' = Sites
    BY <1>0, <1>6
  <2> HIDE DEF Adults, Sites
  <2>2. CASE New(p)
    BY <1>0, <2>1, <2>2
  <2>3. CASE Old(p)
    BY <1>0, <2>1, <2>3
  <2>4. CASE Same
    BY <1>0, <2>1, <2>4
  <2> QED
    BY <1>6, <2>2, <2>3, <2>4
<1>7. ASSUME NEW h \in Handles,
             (\E b \in Builders : BuildOptions(h, b)) \/ DuplicateOptions(h) \/ DestroyOptions(h)
      PROVE  Goal
  <2>1. UNCHANGED <<adapter, setting>>
    BY <1>7 DEF BuildOptions, DuplicateOptions, DestroyOptions, adapterVars
  <2>2. New(h) \/ Old(h) \/ Same
    BY <1>7 DEF BuildOptions, Build, Fresh, DuplicateOptions, DefaultInit,
       CopyHandle, AssignHandle, DestroyOptions, DestroyHandle
  <2> HIDE DEF Goal, New, Old, Same
  <2> QED
    BY <1>6, <2>1, <2>2 DEF Places
<1>8. ASSUME NEW o \in Objects,
             \/ CreateWithOptions(o) \/ CreateWithout(o)
             \/ \E other \in Objects : MoveStatsig(o, other)
             \/ DestroyStatsig(o)
      PROVE  Goal
  <2>1. UNCHANGED <<adapter, setting>>
    BY <1>8 DEF CreateWithOptions, CreateWithout, CreateStatsig, MoveStatsig,
       DestroyStatsig, adapterVars
  <2>2. New(o) \/ Old(o) \/ Same
    BY <1>8 DEF CreateWithOptions, CreateWithout, CreateStatsig, Construct,
       Fresh, MoveStatsig, MoveConstruct, MoveAssign, CopyAssign,
       DestroyStatsig, Destruct
  <2> HIDE DEF Goal, New, Old, Same
  <2> QED
    BY <1>6, <2>1, <2>2 DEF Places
<1>9. ASSUME UNCHANGED allVars PROVE Goal
  BY <1>0, <1>9 DEF allVars, adapterVars, vars, ownerVars
<1>10. Goal
  <2> HIDE DEF Goal
  <2> QED
    BY <1>1, <1>2, <1>3, <1>4, <1>5, <1>7, <1>8, <1>9 DEF LifecycleNext
<1>11. scoped' = scoped
  BY DEF LifecycleNext, CreateAdapter, DestroyAdapter, CreateBuilder, SetAdapter,
     DestroyBuilder, BuildOptions, DuplicateOptions, DestroyOptions,
     CreateWithOptions, CreateWithout, CreateStatsig, MoveStatsig,
     DestroyStatsig, allVars, adapterVars
<1> QED
  BY <1>10, <1>11

(* The scope of a scoped application goes on holding what exists, and an   *)
(* object that exists after a step keeps its elders.                       *)
LEMMA OrderKept ==
  ASSUME LifecycleTypeOK, ShapeInv, scoped, [LifecycleNext]_allVars
  PROVE  /\ IsInjective(scope') /\ Range(scope') = Living'
         /\ \A y, z : Before(scope, y, z) /\ z \in Living' => Before(scope', y, z)
         /\ \A x \in Living' \ Living, y \in Living : Before(scope', y, x)
<1>1. scope \in Seq(Things) /\ IsInjective(scope) /\ Range(scope) = Living
  BY DEF LifecycleTypeOK, ShapeInv
<1>2. CASE \E x \in Things \ Living : Enter(x) /\ Living' = Living \cup {x}
  <2>1. PICK x \in Things \ Living : Enter(x) /\ Living' = Living \cup {x}
    BY <1>2
  <2>2. scope' = Append(scope, x)
    BY <2>1 DEF Enter
  <2> QED
    BY <1>1, <2>1, <2>2, Entered
<1>3. CASE \E x \in Living : Leave(x) /\ Living' = Living \ {x}
  <2>1. PICK x \in Living : Leave(x) /\ Living' = Living \ {x}
    BY <1>3
  <2>2. scope # <<>> /\ x = scope[Len(scope)] /\ scope' = Front(scope)
    BY <2>1 DEF Leave
  <2> QED
    BY <1>1, <2>1, <2>2, LeftLast
<1>4. CASE UNCHANGED scope /\ Living' = Living
  BY <1>1, <1>4
<1> QED
  BY <1>2, <1>3, <1>4, StepOfScope

LEMMA ShapeStep ==
  ASSUME LifecycleTypeOK, ShapeInv, [LifecycleNext]_allVars
  PROVE  ShapeInv'
BY StepOfScope, OrderKept DEF ShapeInv

(* A builder's setting changes only to an older adapter, or to none.       *)
LEMMA SettingsStep ==
  ASSUME LifecycleTypeOK, ShapeInv, SettingsAge, [LifecycleNext]_allVars
  PROVE  SettingsAge'
<1> SUFFICES ASSUME scoped, NEW b \in Builders, setting'[b] \in Adapters
             PROVE  Before(scope', setting'[b], b)
  BY StepOfScope DEF SettingsAge
<1>1. setting'[b] = setting[b] \/ Before(scope, setting'[b], b)
  <2>0. setting \in [Builders -> Settings \cup {Absent}]
    BY DEF LifecycleTypeOK
  <2>1. ASSUME NEW c \in Builders, NEW a \in Adapters, SetAdapter(c, a)
        PROVE  setting'[b] = setting[b] \/ Before(scope, setting'[b], b)
    <3>1. Before(scope, a, c) /\ setting' \in {[setting EXCEPT ![c] = a],
                                               [setting EXCEPT ![c] = None]}
      BY <2>1 DEF SetAdapter, MayUse, Older, Before
    <3> QED
      BY <2>0, <3>1, LifecycleAssumption
  <2>2. ASSUME NEW c \in Builders, CreateBuilder(c) \/ DestroyBuilder(c)
        PROVE  setting'[b] = setting[b]
    BY <2>0, <2>2, LifecycleAssumption DEF CreateBuilder, DestroyBuilder
  <2>3. ASSUME \A c \in Builders :
                 /\ ~CreateBuilder(c) /\ ~DestroyBuilder(c)
                 /\ \A a \in Adapters : ~SetAdapter(c, a)
        PROVE  setting' = setting
    BY <2>3 DEF LifecycleNext, CreateAdapter, DestroyAdapter, BuildOptions,
       DuplicateOptions, DestroyOptions, CreateWithOptions, CreateWithout,
       CreateStatsig, MoveStatsig, DestroyStatsig, allVars, adapterVars
  <2> QED
    BY <2>1, <2>2, <2>3
<1>2. Before(scope, setting'[b], b)
  BY <1>1 DEF SettingsAge
<1>3. b \in Living'
  BY LifecycleAssumption DEF Living
<1> QED
  BY <1>2, <1>3, OrderKept

(* Refs are not handed out twice.                                          *)
LEMMA NeverUnusedAgain ==
  ASSUME OwnersTypeOK, [Next]_vars, NEW r \in Refs, native[r] # "unused"
  PROVE  native'[r] # "unused"
<1> USE DEF OwnersTypeOK, Refs
<1>1. \A x \in Refs \cup {NoRef} : Released(x)[r] # "unused"
  BY DEF Released, Release
<1>2. ASSUME NEW o \in Objects, StatsigStep(o) PROVE native'[r] # "unused"
  BY <1>1, <1>2 DEF StatsigStep, Construct, Fresh, Create, MoveConstruct,
     MoveAssign, CopyAssign, Destruct, Places
<1>3. ASSUME NEW h \in Handles, HandleStep(h) PROVE native'[r] # "unused"
  BY <1>1, <1>3 DEF HandleStep, Build, Fresh, Create, DefaultInit, CopyHandle,
     AssignHandle, DestroyHandle, Places
<1>4. ASSUME NEW l \in Layers, LayerStep(l) PROVE native'[r] # "unused"
  BY <1>4 DEF LayerStep, DeclareLayer, GetLayer, ParseLayer, GetParam,
     LogExposure, ownerVars
<1> QED
  BY <1>2, <1>3, <1>4 DEF Next, vars, ownerVars

(* What an existing handle of a scoped application names after a step: the *)
(* data it named before or, with a copy, the data of an older handle, or   *)
(* new data with the adapter of an existing builder.                       *)
LEMMA HandleChange ==
  ASSUME LifecycleTypeOK, ConfigsAge, scoped, [LifecycleNext]_allVars,
         NEW h \in Handles, h \in alive', ref'[h] # NoRef
  PROVE  \/ \E other \in Handles \cap alive :
              /\ ref'[h] = ref[other] /\ config'[ref[other]] = config[ref[other]]
              /\ \/ other = h
                 \/ Before(scope, other, h) /\ h \in alive
                 \/ h \notin alive
         \/ /\ h \notin alive /\ native'[ref'[h]] # "unused"
            /\ \E b \in Builders :
                 setting[b] # Absent /\ config'[ref'[h]] \in {setting[b], None}
<1> DEFINE Goal ==
      \/ \E other \in Handles \cap alive :
           /\ ref'[h] = ref[other] /\ config'[ref[other]] = config[ref[other]]
           /\ \/ other = h
              \/ Before(scope, other, h) /\ h \in alive
              \/ h \notin alive
      \/ /\ h \notin alive /\ native'[ref'[h]] # "unused"
         /\ \E b \in Builders :
              setting[b] # Absent /\ config'[ref'[h]] \in {setting[b], None}
<1> USE HandlesAssumption DEF LifecycleTypeOK, TypeOK, OwnersTypeOK, Places, Refs
<1>1. h \in alive /\ ref'[h] = ref[h] /\ config' = config => Goal
  OBVIOUS
<1>2. ASSUME NEW g \in Handles, NEW b \in Builders, BuildOptions(g, b) PROVE Goal
  <2>1. g \notin alive /\ alive' = alive \cup {g}
    BY <1>2 DEF BuildOptions, Build, Fresh
  <2>2. CASE g = h
    BY <1>2, <2>1, <2>2 DEF BuildOptions, Build, Fresh, Create, Resolved
  <2>3. CASE g # h
    <3>1. h \in alive /\ ref'[h] = ref[h] /\ native[ref[h]] # "unused"
      BY <1>2, <2>1, <2>3 DEF BuildOptions, Build, Fresh, ConfigsAge
    <3>2. config'[ref[h]] = config[ref[h]]
      BY <1>2, <3>1 DEF BuildOptions, Build, Fresh
    <3> QED
      BY <3>1, <3>2
  <2> QED
    BY <2>2, <2>3
<1>3. ASSUME NEW g \in Handles, DuplicateOptions(g) PROVE Goal
  <2>1. config' = config
    BY <1>3 DEF DuplicateOptions, adapterVars
  <2>2. PICK other \in Handles :
          \/ CopyHandle(g, other)
          \/ Older(other, g) /\ AssignHandle(g, other)
    BY <1>3 DEF DuplicateOptions
  <2>3. CASE g = h
    BY <2>1, <2>2, <2>3 DEF CopyHandle, AssignHandle, Older, Before
  <2>4. CASE g # h
    BY <1>1, <2>1, <2>2, <2>4 DEF CopyHandle, AssignHandle
  <2> QED
    BY <2>3, <2>4
<1>4. ASSUME NEW g \in Handles, DestroyOptions(g) PROVE Goal
  BY <1>1, <1>4 DEF DestroyOptions, DestroyHandle, adapterVars
<1>5. ASSUME NEW o \in Objects,
             \/ CreateWithOptions(o) \/ CreateWithout(o)
             \/ \E other \in Objects : MoveStatsig(o, other)
             \/ DestroyStatsig(o)
      PROVE  Goal
  <2>1. config' = config
    BY <1>5 DEF CreateWithOptions, CreateWithout, CreateStatsig, MoveStatsig,
       DestroyStatsig, adapterVars
  <2>2. h \in alive /\ ref'[h] = ref[h]
    BY <1>5 DEF CreateWithOptions, CreateWithout, CreateStatsig, Construct,
       Fresh, MoveStatsig, MoveConstruct, MoveAssign, CopyAssign,
       DestroyStatsig, Destruct
  <2> QED
    BY <1>1, <2>1, <2>2
<1>6. ASSUME UNCHANGED <<config, vars>> PROVE Goal
  BY <1>1, <1>6 DEF vars, ownerVars
<1>7. ASSUME \/ \E a \in Adapters : CreateAdapter(a) \/ DestroyAdapter(a)
             \/ \E b \in Builders : \/ CreateBuilder(b) \/ DestroyBuilder(b)
                                    \/ \E a \in Adapters : SetAdapter(b, a)
      PROVE  UNCHANGED <<config, vars>>
  BY <1>7 DEF CreateAdapter, DestroyAdapter, CreateBuilder, DestroyBuilder, SetAdapter
<1>8. ASSUME UNCHANGED allVars PROVE UNCHANGED <<config, vars>>
  BY <1>8 DEF allVars, adapterVars
<1> HIDE DEF Goal
<1>9. Goal
  BY <1>2, <1>3, <1>4, <1>5, <1>6, <1>7, <1>8 DEF LifecycleNext
<1> QED
  BY <1>9 DEF Goal

LEMMA ConfigsStep ==
  ASSUME LifecycleTypeOK, ShapeInv, SettingsAge, ConfigsAge,
         [LifecycleNext]_allVars
  PROVE  ConfigsAge'
<1> SUFFICES ASSUME scoped, NEW h \in Handles, h \in alive', ref'[h] # NoRef
             PROVE  /\ native'[ref'[h]] # "unused"
                    /\ config'[ref'[h]] # None => Before(scope', config'[ref'[h]], h)
  BY StepOfScope DEF ConfigsAge
<1>1. scope \in Seq(Things) /\ IsInjective(scope) /\ Range(scope) = Living
  BY DEF LifecycleTypeOK, ShapeInv
<1>2. h \in Living' /\ (h \notin alive => h \in Living' \ Living)
  BY LifecycleAssumption DEF Living, Places
<1>3. CASE \E other \in Handles \cap alive :
             /\ ref'[h] = ref[other] /\ config'[ref[other]] = config[ref[other]]
             /\ \/ other = h
                \/ Before(scope, other, h) /\ h \in alive
                \/ h \notin alive
  <2>1. PICK other \in Handles \cap alive :
             /\ ref'[h] = ref[other] /\ config'[ref[other]] = config[ref[other]]
             /\ \/ other = h
                \/ Before(scope, other, h) /\ h \in alive
                \/ h \notin alive
    BY <1>3
  <2>2. native'[ref'[h]] # "unused"
    BY <2>1, StepUsesHandles, NeverUnusedAgain
       DEF ConfigsAge, LifecycleTypeOK, TypeOK, OwnersTypeOK, Refs
  <2>3. ASSUME config[ref[other]] # None
        PROVE  Before(scope', config[ref[other]], h)
    <3>1. Before(scope, config[ref[other]], other)
      BY <2>1, <2>3 DEF ConfigsAge
    <3>2. config[ref[other]] \in Living
      BY <1>1, <3>1, BeforeIsWithin
    <3>3. CASE h \notin alive
      BY <1>2, <3>2, <3>3, OrderKept
    <3>4. CASE h \in alive
      BY <1>1, <1>2, <2>1, <3>1, <3>4, BeforeIsTransitive, OrderKept
    <3> QED
      BY <3>3, <3>4
  <2> QED
    BY <2>1, <2>2, <2>3
<1>4. ASSUME h \notin alive, NEW b \in Builders, setting[b] # Absent,
             config'[ref'[h]] \in {setting[b], None}, config'[ref'[h]] # None
      PROVE  Before(scope', config'[ref'[h]], h)
  <2>1. Before(scope, setting[b], b)
    BY <1>4 DEF LifecycleTypeOK, Settings, SettingsAge
  <2>2. setting[b] \in Living
    BY <1>1, <2>1, BeforeIsWithin
  <2> QED
    BY <1>2, <1>4, <2>2, OrderKept
<1> QED
  BY <1>3, <1>4, HandleChange

(* What an existing Statsig object owns after a step: the instance it      *)
(* owned before, that of another object, or a new one with the adapter of  *)
(* existing options.                                                       *)
LEMMA OwnerChange ==
  ASSUME LifecycleTypeOK, InstanceOwnership, scoped, [LifecycleNext]_allVars,
         NEW o \in Objects, o \in alive', ref'[o] # NoRef
  PROVE  \/ \E other \in Objects \cap alive :
              /\ ref'[o] = ref[other] /\ uses'[ref[other]] = uses[ref[other]]
              /\ \/ other = o
                 \/ Before(scope, other, o) /\ o \in alive
                 \/ o \notin alive
         \/ /\ o \notin alive
            /\ \/ uses'[ref'[o]] = None
               \/ \E h \in Handles \cap alive :
                    ref[h] # NoRef /\ uses'[ref'[o]] = config[ref[h]]
<1> DEFINE Goal ==
      \/ \E other \in Objects \cap alive :
           /\ ref'[o] = ref[other] /\ uses'[ref[other]] = uses[ref[other]]
           /\ \/ other = o
              \/ Before(scope, other, o) /\ o \in alive
              \/ o \notin alive
      \/ /\ o \notin alive
         /\ \/ uses'[ref'[o]] = None
            \/ \E h \in Handles \cap alive :
                 ref[h] # NoRef /\ uses'[ref'[o]] = config[ref[h]]
<1> USE HandlesAssumption DEF LifecycleTypeOK, TypeOK, OwnersTypeOK, Places, Refs
<1>1. o \in alive /\ ref'[o] = ref[o] /\ uses' = uses => Goal
  OBVIOUS
<1>2. ASSUME NEW p \in Objects, NEW d, CreateStatsig(p, d),
             d # NoRef => \E h \in Handles \cap alive : ref[h] = d
      PROVE  Goal
  <2>1. p \notin alive /\ alive' = alive \cup {p}
    BY <1>2 DEF CreateStatsig, Construct, Fresh
  <2>2. CASE p = o
    <3>1. ref'[o] \in Instances
      BY <1>2, <2>2 DEF CreateStatsig, Construct, Fresh
    <3>2. uses'[ref'[o]] = IF d # NoRef /\ native[d] = "live"
                             THEN config[d] ELSE None
      BY <1>2, <2>2, <3>1 DEF CreateStatsig
    <3> QED
      BY <1>2, <2>1, <2>2, <3>2
  <2>3. CASE p # o
    <3>1. o \in alive /\ ref'[o] = ref[o] /\ native[ref[o]] = "live"
      BY <1>2, <2>1, <2>3 DEF CreateStatsig, Construct, Fresh,
         InstanceOwnership, ExactlyOneOwner, Owns
    <3>2. uses'[ref[o]] = uses[ref[o]]
      BY <1>2, <3>1 DEF CreateStatsig, Construct, Fresh
    <3> QED
      BY <3>1, <3>2
  <2> QED
    BY <2>2, <2>3
<1>3. ASSUME NEW p \in Objects, CreateWithOptions(p) \/ CreateWithout(p)
      PROVE  Goal
  <2> HIDE DEF Goal
  <2> QED
    BY <1>2, <1>3 DEF CreateWithOptions, CreateWithout
<1>4. ASSUME NEW p \in Objects, NEW other \in Objects, MoveStatsig(p, other)
      PROVE  Goal
  <2>1. uses' = uses
    BY <1>4 DEF MoveStatsig, adapterVars
  <2>2. CASE MoveConstruct(p, other)
    BY <2>1, <2>2 DEF MoveConstruct
  <2>3. CASE MoveAssign(p, other) /\ (p # other => Older(other, p))
    <3>1. p # other => Before(scope, other, p)
      BY <2>3 DEF Older, Before
    <3> QED
      BY <2>1, <2>3, <3>1 DEF MoveAssign
  <2>4. CASE CopyAssign(p, other)
    BY <2>1, <2>4 DEF CopyAssign
  <2> QED
    BY <1>4, <2>2, <2>3, <2>4 DEF MoveStatsig
<1>5. ASSUME NEW p \in Objects, DestroyStatsig(p) PROVE Goal
  BY <1>1, <1>5 DEF DestroyStatsig, Destruct, adapterVars
<1>6. ASSUME NEW h \in Handles,
             (\E b \in Builders : BuildOptions(h, b)) \/ DuplicateOptions(h) \/ DestroyOptions(h)
      PROVE  Goal
  <2>1. uses' = uses
    BY <1>6 DEF BuildOptions, DuplicateOptions, DestroyOptions, adapterVars
  <2>2. o \in alive /\ ref'[o] = ref[o]
    <3>1. \/ Build(h) \/ DefaultInit(h) \/ DestroyHandle(h)
          \/ \E other \in Handles : CopyHandle(h, other) \/ AssignHandle(h, other)
      BY <1>6 DEF BuildOptions, DuplicateOptions, DestroyOptions
    <3>2. /\ alive' \subseteq alive \cup {h}
          /\ \E r : ref' = [ref EXCEPT ![h] = r]
      BY <3>1 DEF Build, Fresh, DefaultInit, CopyHandle, AssignHandle, DestroyHandle
    <3> QED
      BY <3>2
  <2> QED
    BY <1>1, <2>1, <2>2
<1>7. ASSUME UNCHANGED <<uses, vars>> PROVE Goal
  BY <1>1, <1>7 DEF vars, ownerVars
<1>8. ASSUME \/ \E a \in Adapters : CreateAdapter(a) \/ DestroyAdapter(a)
             \/ \E b \in Builders : \/ CreateBuilder(b) \/ DestroyBuilder(b)
                                    \/ \E a \in Adapters : SetAdapter(b, a)
      PROVE  UNCHANGED <<uses, vars>>
  BY <1>8 DEF CreateAdapter, DestroyAdapter, CreateBuilder, DestroyBuilder, SetAdapter
<1>9. ASSUME UNCHANGED allVars PROVE UNCHANGED <<uses, vars>>
  BY <1>9 DEF allVars, adapterVars
<1> HIDE DEF Goal
<1>10. Goal
  BY <1>3, <1>4, <1>5, <1>6, <1>7, <1>8, <1>9 DEF LifecycleNext
<1> QED
  BY <1>10 DEF Goal

LEMMA UsesStep ==
  ASSUME LifecycleTypeOK, InstanceOwnership, ShapeInv, ConfigsAge, UsesAge,
         [LifecycleNext]_allVars
  PROVE  UsesAge'
<1> SUFFICES ASSUME scoped, NEW o \in Objects, o \in alive', ref'[o] # NoRef,
                    uses'[ref'[o]] # None
             PROVE  Before(scope', uses'[ref'[o]], o)
  BY StepOfScope DEF UsesAge
<1>1. scope \in Seq(Things) /\ IsInjective(scope) /\ Range(scope) = Living
  BY DEF LifecycleTypeOK, ShapeInv
<1>2. o \in Living' /\ (o \notin alive => o \in Living' \ Living)
  BY LifecycleAssumption DEF Living, Places
<1>3. ASSUME NEW other \in Objects \cap alive,
             ref'[o] = ref[other], uses'[ref[other]] = uses[ref[other]],
             \/ other = o
             \/ Before(scope, other, o) /\ o \in alive
             \/ o \notin alive
      PROVE  Before(scope', uses'[ref'[o]], o)
  <2>1. Before(scope, uses[ref[other]], other)
    BY <1>3 DEF UsesAge
  <2>2. uses[ref[other]] \in Living
    BY <1>1, <2>1, BeforeIsWithin
  <2>3. CASE o \notin alive
    BY <1>2, <1>3, <2>2, <2>3, OrderKept
  <2>4. CASE o \in alive
    BY <1>1, <1>2, <1>3, <2>1, <2>4, BeforeIsTransitive, OrderKept
  <2> QED
    BY <2>3, <2>4
<1>4. ASSUME NEW h \in Handles \cap alive, o \notin alive,
             ref[h] # NoRef, uses'[ref'[o]] = config[ref[h]]
      PROVE  Before(scope', uses'[ref'[o]], o)
  <2>1. Before(scope, config[ref[h]], h)
    BY <1>4 DEF ConfigsAge
  <2>2. config[ref[h]] \in Living
    BY <1>1, <2>1, BeforeIsWithin
  <2> QED
    BY <1>2, <1>4, <2>2, OrderKept
<1> QED
  BY <1>3, <1>4, OwnerChange

-----------------------------------------------------------------------------
(* Reasons.                                                                *)

(* An adapter that is not registered never will be: a reason stays one.    *)
LEMMA ReasonsStay ==
  ASSUME LifecycleTypeOK, [LifecycleNext]_allVars
  PROVE  /\ \A a \in Adapters : adapter[a] \in {"registered", "gone"}
                                  => adapter'[a] \in {"registered", "gone"}
         /\ \A u, c : Explained(adapter, u, c) => Explained(adapter', u, c)
<1>1. \/ adapter' = adapter
      \/ \E a \in Adapters :
           \/ /\ adapter[a] = "unborn"
              /\ \E how \in {"registered", "unregistered"} :
                   adapter' = [adapter EXCEPT ![a] = how]
           \/ adapter' = [adapter EXCEPT ![a] = "gone"]
  <2>1. (\E a \in Adapters : CreateAdapter(a) \/ DestroyAdapter(a)) \/ adapter' = adapter
    BY DEF LifecycleNext, CreateBuilder, SetAdapter, DestroyBuilder,
       BuildOptions, DuplicateOptions, DestroyOptions, CreateWithOptions,
       CreateWithout, CreateStatsig, MoveStatsig, DestroyStatsig, allVars,
       adapterVars
  <2> QED
    BY <2>1 DEF CreateAdapter, DestroyAdapter
<1>2. adapter \in [Adapters -> {"unborn", "registered", "unregistered", "gone"}]
  BY DEF LifecycleTypeOK
<1> QED
  BY <1>1, <1>2 DEF Explained

(* Who writes a builder's setting, and what was chosen for a builder.      *)
LEMMA BuilderChange ==
  ASSUME LifecycleTypeOK, [LifecycleNext]_allVars, NEW b \in Builders
  PROVE  \/ setting'[b] = setting[b] /\ chosen'[b] = chosen[b]
         \/ setting'[b] = None /\ chosen'[b] = None
         \/ setting'[b] = Absent
         \/ \E a \in Adapters :
              /\ Exists(a) /\ adapter' = adapter /\ chosen'[b] = a
              /\ setting'[b] = IF adapter[a] = "registered" THEN a ELSE None
<1>1. /\ setting \in [Builders -> Settings \cup {Absent}]
      /\ chosen \in [Builders \cup Data -> Settings]
  BY DEF LifecycleTypeOK
<1>2. ASSUME NEW c \in Builders, CreateBuilder(c) \/ DestroyBuilder(c)
      PROVE  \/ setting'[b] = setting[b] /\ chosen'[b] = chosen[b]
             \/ setting'[b] = None /\ chosen'[b] = None
             \/ setting'[b] = Absent
  BY <1>1, <1>2 DEF CreateBuilder, DestroyBuilder
<1>3. ASSUME NEW c \in Builders, NEW a \in Adapters, SetAdapter(c, a)
      PROVE  \/ setting'[b] = setting[b] /\ chosen'[b] = chosen[b]
             \/ /\ Exists(a) /\ adapter' = adapter /\ chosen'[b] = a
                /\ setting'[b] = IF adapter[a] = "registered" THEN a ELSE None
  BY <1>1, <1>3 DEF SetAdapter, MayUse
<1>4. ASSUME NEW h \in Handles, NEW c \in Builders, BuildOptions(h, c)
      PROVE  setting'[b] = setting[b] /\ chosen'[b] = chosen[b]
  <2>1. ref'[h] \in Data \cup {NoRef}
    BY <1>4 DEF BuildOptions, Build, Fresh, LifecycleTypeOK, TypeOK, OwnersTypeOK,
       Places
  <2> QED
    BY <1>1, <1>4, <2>1, LifecycleAssumption DEF BuildOptions
<1>5. ASSUME \A c \in Builders :
               /\ ~CreateBuilder(c) /\ ~DestroyBuilder(c)
               /\ \A a \in Adapters : ~SetAdapter(c, a)
               /\ \A h \in Handles : ~BuildOptions(h, c)
      PROVE  UNCHANGED <<setting, chosen>>
  BY <1>5 DEF LifecycleNext, CreateAdapter, DestroyAdapter, DuplicateOptions,
     DestroyOptions, CreateWithOptions, CreateWithout, CreateStatsig,
     MoveStatsig, DestroyStatsig, allVars, adapterVars
<1> QED
  BY <1>2, <1>3, <1>4, <1>5

LEMMA SettingsReasonStep ==
  ASSUME LifecycleTypeOK, SettingsReason, [LifecycleNext]_allVars
  PROVE  SettingsReason'
<1> SUFFICES ASSUME NEW b \in Builders
             PROVE  /\ setting'[b] \in Adapters
                         => adapter'[setting'[b]] \in {"registered", "gone"}
                    /\ setting'[b] # Absent
                         => Explained(adapter', setting'[b], chosen'[b])
  BY DEF SettingsReason
<1>1. CASE setting'[b] = setting[b] /\ chosen'[b] = chosen[b]
  BY <1>1, ReasonsStay DEF SettingsReason
<1>2. CASE setting'[b] = None /\ chosen'[b] = None
  BY <1>2, LifecycleAssumption DEF Explained
<1>3. CASE setting'[b] = Absent
  BY <1>3, LifecycleAssumption
<1>4. ASSUME NEW a \in Adapters, Exists(a), adapter' = adapter, chosen'[b] = a,
             setting'[b] = IF adapter[a] = "registered" THEN a ELSE None
      PROVE  /\ setting'[b] \in Adapters
                  => adapter'[setting'[b]] \in {"registered", "gone"}
             /\ setting'[b] # Absent
                  => Explained(adapter', setting'[b], chosen'[b])
  BY <1>4, LifecycleAssumption DEF Explained, Exists
<1> QED
  BY <1>1, <1>2, <1>3, <1>4, BuilderChange

(* Who writes the core's copy of the setting.                              *)
LEMMA DataChange ==
  ASSUME LifecycleTypeOK, [LifecycleNext]_allVars, NEW d \in Data
  PROVE  \/ config'[d] = config[d] /\ chosen'[d] = chosen[d]
         \/ /\ native[d] = "unused" /\ adapter' = adapter
            /\ \E b \in Builders : /\ setting[b] # Absent
                                   /\ config'[d] = Resolved(setting[b])
                                   /\ chosen'[d] = chosen[b]
<1>1. /\ config \in [Data -> Settings]
      /\ chosen \in [Builders \cup Data -> Settings]
  BY DEF LifecycleTypeOK
<1>2. ASSUME NEW h \in Handles, NEW b \in Builders, BuildOptions(h, b)
      PROVE  \/ config'[d] = config[d] /\ chosen'[d] = chosen[d]
             \/ /\ native[d] = "unused" /\ adapter' = adapter
                /\ setting[b] # Absent
                /\ config'[d] = Resolved(setting[b]) /\ chosen'[d] = chosen[b]
  <2>1. /\ ref'[h] # NoRef => native[ref'[h]] = "unused"
        /\ setting[b] # Absent /\ adapter' = adapter
    BY <1>2 DEF BuildOptions, Build, Fresh, LifecycleTypeOK, TypeOK, OwnersTypeOK,
       Places
  <2> QED
    BY <1>1, <1>2, <2>1 DEF BuildOptions
<1>3. ASSUME NEW b \in Builders,
             CreateBuilder(b) \/ DestroyBuilder(b) \/ \E a \in Adapters : SetAdapter(b, a)
      PROVE  config'[d] = config[d] /\ chosen'[d] = chosen[d]
  BY <1>1, <1>3, LifecycleAssumption DEF CreateBuilder, DestroyBuilder, SetAdapter
<1>4. ASSUME \A b \in Builders :
               /\ ~CreateBuilder(b) /\ ~DestroyBuilder(b)
               /\ \A a \in Adapters : ~SetAdapter(b, a)
               /\ \A h \in Handles : ~BuildOptions(h, b)
      PROVE  UNCHANGED <<config, chosen>>
  BY <1>4 DEF LifecycleNext, CreateAdapter, DestroyAdapter, DuplicateOptions,
     DestroyOptions, CreateWithOptions, CreateWithout, CreateStatsig,
     MoveStatsig, DestroyStatsig, allVars, adapterVars
<1> QED
  BY <1>2, <1>3, <1>4

LEMMA ConfigsReasonStep ==
  ASSUME LifecycleTypeOK, SettingsReason, ConfigsReason, [LifecycleNext]_allVars
  PROVE  ConfigsReason'
<1> SUFFICES ASSUME NEW d \in Data
             PROVE  Explained(adapter', config'[d], chosen'[d])
  BY DEF ConfigsReason
<1>1. CASE config'[d] = config[d] /\ chosen'[d] = chosen[d]
  BY <1>1, ReasonsStay DEF ConfigsReason
<1>2. ASSUME NEW b \in Builders, setting[b] # Absent, adapter' = adapter,
             config'[d] = Resolved(setting[b]), chosen'[d] = chosen[b]
      PROVE  Explained(adapter', config'[d], chosen'[d])
  <2>1. setting[b] \in Settings
    BY <1>2 DEF LifecycleTypeOK
  <2> QED
    BY <1>2, <2>1 DEF SettingsReason, Explained, Resolved, Settings
<1> QED
  BY <1>1, <1>2, DataChange

(* Who writes the instance's copy.                                         *)
LEMMA InstanceChange ==
  ASSUME LifecycleTypeOK, HandleOwnership, [LifecycleNext]_allVars,
         NEW i \in Instances
  PROVE  \/ uses'[i] = uses[i] /\ madeFrom'[i] = madeFrom[i]
         \/ uses'[i] = None /\ madeFrom'[i] = NoRef
         \/ \E d \in Data :
              /\ madeFrom'[i] = d
              /\ \/ uses'[i] = None /\ d \in aliased
                 \/ uses'[i] = config[d] /\ native[d] # "unused"
<1> DEFINE Goal ==
      \/ uses'[i] = uses[i] /\ madeFrom'[i] = madeFrom[i]
      \/ uses'[i] = None /\ madeFrom'[i] = NoRef
      \/ \E d \in Data :
           /\ madeFrom'[i] = d
           /\ \/ uses'[i] = None /\ d \in aliased
              \/ uses'[i] = config[d] /\ native[d] # "unused"
<1>1. /\ uses \in [Instances -> Settings]
      /\ madeFrom \in [Instances -> Data \cup {NoRef}]
      /\ \A h \in Handles : ref[h] \in Data \cup {NoRef}
  BY DEF LifecycleTypeOK, TypeOK, OwnersTypeOK
<1>2. ASSUME NEW o \in Objects, CreateStatsig(o, NoRef) PROVE Goal
  BY <1>1, <1>2 DEF CreateStatsig
<1>3. ASSUME NEW o \in Objects, NEW h \in Handles, h \in alive, ref[h] # NoRef,
             CreateStatsig(o, ref[h])
      PROVE  Goal
  <2>1. ref[h] \in Data /\ (native[ref[h]] = "live" \/ ref[h] \in aliased)
    BY <1>1, <1>3 DEF HandleOwnership, ExactlyOneOwner, Owns, Places
  <2> QED
    BY <1>1, <1>3, <2>1 DEF CreateStatsig
<1>4. ASSUME NEW o \in Objects, CreateWithOptions(o) \/ CreateWithout(o)
      PROVE  Goal
  <2> HIDE DEF Goal
  <2> QED
    BY <1>2, <1>3, <1>4 DEF CreateWithOptions, CreateWithout
<1>5. ASSUME \A o \in Objects : ~CreateWithOptions(o) /\ ~CreateWithout(o)
      PROVE  UNCHANGED <<uses, madeFrom>>
  BY <1>5 DEF LifecycleNext, CreateAdapter, DestroyAdapter, CreateBuilder,
     SetAdapter, DestroyBuilder, BuildOptions, DuplicateOptions,
     DestroyOptions, MoveStatsig, DestroyStatsig, allVars, adapterVars
<1> QED
  BY <1>4, <1>5

(* The history of aliased data only grows.                                 *)
LEMMA AliasedGrows ==
  ASSUME [Next]_vars
  PROVE  aliased \subseteq aliased'
BY DEF Next, StatsigStep, Construct, MoveConstruct, MoveAssign, CopyAssign,
   Destruct, HandleStep, Build, DefaultInit, CopyHandle, AssignHandle,
   DestroyHandle, LayerStep, DeclareLayer, GetLayer, ParseLayer, GetParam,
   LogExposure, ownerVars, vars

LEMMA UsesReasonStep ==
  ASSUME LifecycleTypeOK, HandleOwnership, ConfigsReason, UsesReason,
         [LifecycleNext]_allVars
  PROVE  UsesReason'
<1> SUFFICES ASSUME NEW i \in Instances
             PROVE  IF madeFrom'[i] = NoRef
                      THEN uses'[i] = None
                      ELSE \/ uses'[i] = None /\ madeFrom'[i] \in aliased'
                           \/ /\ native'[madeFrom'[i]] # "unused"
                              /\ Explained(adapter', uses'[i], chosen'[madeFrom'[i]])
  BY DEF UsesReason
<1>1. aliased \subseteq aliased'
  BY StepUsesHandles, AliasedGrows
<1>2. ASSUME NEW d \in Data, native[d] # "unused", NEW u, Explained(adapter, u, chosen[d])
      PROVE  native'[d] # "unused" /\ Explained(adapter', u, chosen'[d])
  <2>1. native'[d] # "unused"
    BY <1>2, StepUsesHandles, NeverUnusedAgain DEF LifecycleTypeOK, TypeOK, Refs
  <2>2. chosen'[d] = chosen[d]
    BY <1>2, DataChange
  <2> QED
    BY <1>2, <2>1, <2>2, ReasonsStay
<1>3. CASE uses'[i] = uses[i] /\ madeFrom'[i] = madeFrom[i]
  <2>1. madeFrom[i] \in Data \cup {NoRef}
    BY DEF LifecycleTypeOK
  <2> QED
    BY <1>1, <1>2, <1>3, <2>1 DEF UsesReason
<1>4. CASE uses'[i] = None /\ madeFrom'[i] = NoRef
  BY <1>4
<1>5. ASSUME NEW d \in Data, madeFrom'[i] = d,
             \/ uses'[i] = None /\ d \in aliased
             \/ uses'[i] = config[d] /\ native[d] # "unused"
      PROVE  \/ uses'[i] = None /\ d \in aliased'
             \/ native'[d] # "unused" /\ Explained(adapter', uses'[i], chosen'[d])
  <2>1. Explained(adapter, config[d], chosen[d])
    BY DEF ConfigsReason
  <2> QED
    BY <1>1, <1>2, <1>5, <2>1
<1>6. \A d \in Data : d # NoRef
  BY HandlesAssumption
<1> QED
  BY <1>3, <1>4, <1>5, <1>6, InstanceChange

-----------------------------------------------------------------------------
(* The invariant.                                                          *)

LEMMA LifecycleInitInv == LifecycleInit => LifecycleInv
<1> SUFFICES ASSUME LifecycleInit PROVE LifecycleInv
  OBVIOUS
<1>1. Inv
  BY InitInv DEF LifecycleInit, Inv
<1>2. LifecycleTypeOK
  BY TypeInit
<1>3. alive = {} /\ scope = <<>> /\ Living = {}
  BY DEF LifecycleInit, Init, Living, Exists
<1>4. ScopeInv
  <2>1. IsInjective(scope) /\ Range(scope) = {}
    BY <1>3 DEF IsInjective, Range
  <2> QED
    BY <1>3, <2>1, LifecycleAssumption
       DEF LifecycleInit, ScopeInv, ShapeInv, SettingsAge, ConfigsAge, UsesAge
<1>5. ReasonInv
  BY LifecycleAssumption DEF LifecycleInit, ReasonInv, SettingsReason,
     ConfigsReason, UsesReason, Explained
<1> QED
  BY <1>1, <1>2, <1>4, <1>5 DEF LifecycleInv

LEMMA LifecycleStep == LifecycleInv /\ [LifecycleNext]_allVars => LifecycleInv'
<1> SUFFICES ASSUME LifecycleInv, [LifecycleNext]_allVars PROVE LifecycleInv'
  OBVIOUS
<1> USE DEF LifecycleInv
<1>1. Inv'
  BY StepUsesHandles, InductiveStep
<1>2. InstanceOwnership /\ HandleOwnership
  BY DEF Inv, OwnerInv
<1>3. TypeOK'
  BY <1>1 DEF Inv, OwnerInv, LayerInv, TypeOK
<1>4. LifecycleTypeOK'
  BY <1>3, TypeStep
<1>5. ScopeInv'
  BY <1>2, ShapeStep, SettingsStep, ConfigsStep, UsesStep DEF ScopeInv
<1>6. ReasonInv'
  BY <1>2, SettingsReasonStep, ConfigsReasonStep, UsesReasonStep DEF ReasonInv
<1> QED
  BY <1>1, <1>4, <1>5, <1>6

(* The invariant holds in every reachable state.                           *)
THEOREM LifecycleInvariance == LifecycleSpec => []LifecycleInv
BY LifecycleInitInv, LifecycleStep, PTL DEF LifecycleSpec

(* Every variable keeps its type.                                          *)
THEOREM LifecycleTypes == LifecycleSpec => []LifecycleTypeOK
<1>1. LifecycleInv => LifecycleTypeOK
  BY DEF LifecycleInv
<1> QED
  BY <1>1, LifecycleInvariance, PTL

(* Local variables are enough: an application that uses each object only   *)
(* with older ones and destroys them in the reverse order never has an     *)
(* instance of the core whose adapter is gone, however instances are       *)
(* moved and options are copied.                                           *)
THEOREM InstancesDieFirst == LifecycleSpec => []AdaptersOutliveInstances
<1>1. ASSUME LifecycleInv, scoped, NEW i \in Instances,
             native[i] = "live", uses[i] # None
      PROVE  Exists(uses[i])
  <2>1. uses[i] \in Adapters /\ ref \in [Places -> Refs \cup {NoRef}]
    BY <1>1 DEF LifecycleInv, LifecycleTypeOK, Settings, TypeOK, OwnersTypeOK
  <2>2. PICK p \in Places : p \in alive /\ ref[p] = i
    BY <1>1 DEF LifecycleInv, Inv, OwnerInv, InstanceOwnership, ExactlyOneOwner,
       Owns
  <2>3. p \in Objects /\ ref[p] # NoRef
    BY <1>1, <2>2, HandlesAssumption
       DEF LifecycleInv, LifecycleTypeOK, TypeOK, OwnersTypeOK, Places
  <2>4. Before(scope, uses[i], p)
    BY <1>1, <2>2, <2>3 DEF LifecycleInv, ScopeInv, UsesAge
  <2>5. uses[i] \in Living
    BY <1>1, <2>4, BeforeIsWithin DEF LifecycleInv, ScopeInv, ShapeInv
  <2> QED
    BY <1>1, <2>1, <2>5, LifecycleAssumption
       DEF Living, LifecycleInv, LifecycleTypeOK, TypeOK, OwnersTypeOK
<1>2. LifecycleInv => AdaptersOutliveInstances
  BY <1>1 DEF AdaptersOutliveInstances
<1> QED
  BY <1>2, LifecycleInvariance, PTL

(* An instance reports to the adapter that was chosen for it, and to none  *)
(* only for one of the reasons named.                                      *)
THEOREM Configured == LifecycleSpec => []ConfiguredAsChosen
<1>1. ASSUME LifecycleInv, NEW i \in Instances,
             uses[i] # (IF madeFrom[i] = NoRef THEN None ELSE chosen[madeFrom[i]])
      PROVE  /\ uses[i] = None
             /\ \/ adapter[chosen[madeFrom[i]]] \in {"unregistered", "gone"}
                \/ madeFrom[i] \in aliased
  BY <1>1 DEF LifecycleInv, ReasonInv, UsesReason, Explained
<1>2. LifecycleInv => ConfiguredAsChosen
  BY <1>1 DEF ConfiguredAsChosen
<1> QED
  BY <1>2, LifecycleInvariance, PTL

=============================================================================
