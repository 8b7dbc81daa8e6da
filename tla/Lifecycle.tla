----------------------------- MODULE Lifecycle ------------------------------
(***************************************************************************)
(* From an adapter to the instance that reports to it.                     *)
(*                                                                         *)
(* An application constructs an adapter (a PersistentStorage or an         *)
(* ObservabilityClient), passes it to a StatsigOptionsBuilder, builds      *)
(* StatsigOptions and constructs a Statsig object with them (options.h,    *)
(* options.cpp, statsig.cpp).  The builder keeps the adapter's ref, "non-  *)
(* owning: the caller owns the PersistentStorage and must keep it alive    *)
(* for the lifetime of the resulting Statsig instance".                    *)
(*                                                                         *)
(* A scoped application uses each object only with objects that were       *)
(* constructed before it, and destroys objects in the reverse order, as    *)
(* local variables are; any other one does so in any order.                *)
(***************************************************************************)
EXTENDS NativeHandles, Naturals, SequencesExt

CONSTANTS
  Adapters,   \* adapter objects, each constructed at most once
  Builders,   \* places of StatsigOptionsBuilder objects
  None,       \* std::nullopt
  Absent      \* no builder in this place

ASSUME LifecycleAssumption ==
  /\ {None, Absent} \cap Adapters = {} /\ None # Absent
  /\ Adapters \cap Builders = {} /\ Builders \cap Data = {}
  /\ (Adapters \cup Builders) \cap Places = {}

VARIABLES
  scoped,   \* does the application keep to the discipline of scopes?
  scope,    \* in a scoped application, the objects that exist in the order
            \* of their construction
  adapter,  \* each adapter; a registered one has a ref() other than 0
  setting,  \* persistent_storage_ref (observability_client_ref) of a builder,
            \* or Absent
  config,   \* in the core: the adapter behind each options data
  uses,     \* in the core: the adapter each instance reports to
  chosen,   \* history: the adapter last given to a builder, and from there
            \* to options data
  madeFrom  \* history: the options data each instance was created with

adapterVars == <<scoped, adapter, setting, config, uses, chosen, madeFrom>>
allVars == <<vars, scope, adapterVars>>

-----------------------------------------------------------------------------
Things   == Adapters \cup Builders \cup Places
Settings == Adapters \cup {None}

LifecycleTypeOK ==
  /\ TypeOK
  /\ scoped \in BOOLEAN
  /\ scope \in Seq(Things)
  /\ adapter \in [Adapters -> {"unborn", "registered", "unregistered", "gone"}]
  /\ setting \in [Builders -> Settings \cup {Absent}]
  /\ config \in [Data -> Settings]
  /\ uses \in [Instances -> Settings]
  /\ chosen \in [Builders \cup Data -> Settings]
  /\ madeFrom \in [Instances -> Data \cup {NoRef}]

LifecycleInit ==
  /\ Init
  /\ scoped \in BOOLEAN
  /\ scope = <<>>
  /\ adapter = [a \in Adapters |-> "unborn"]
  /\ setting = [b \in Builders |-> Absent]
  /\ config = [d \in Data |-> None]
  /\ uses = [i \in Instances |-> None]
  /\ chosen = [x \in Builders \cup Data |-> None]
  /\ madeFrom = [i \in Instances |-> NoRef]

-----------------------------------------------------------------------------
(* Lifetimes.                                                              *)

Exists(a) == adapter[a] \in {"registered", "unregistered"}

(* What a scoped application may use for x: what is older than x is.       *)
Older(x, y) ==
  \E n, m \in DOMAIN scope : n < m /\ scope[n] = x /\ scope[m] = y

Enter(x) == scope' = IF scoped THEN Append(scope, x) ELSE scope

Leave(x) ==
  IF scoped
    THEN scope # <<>> /\ x = scope[Len(scope)] /\ scope' = Front(scope)
    ELSE UNCHANGED scope

-----------------------------------------------------------------------------
(* Adapters.  A constructor that finds no slot, or whose registration the  *)
(* core refuses, leaves ref() at 0.                                        *)

CreateAdapter(a) ==
  /\ adapter[a] = "unborn"
  /\ Enter(a)
  /\ \E how \in {"registered", "unregistered"} :
       adapter' = [adapter EXCEPT ![a] = how]
  /\ UNCHANGED <<vars, scoped, setting, config, uses, chosen, madeFrom>>

DestroyAdapter(a) ==
  /\ Exists(a) /\ Leave(a)
  /\ adapter' = [adapter EXCEPT ![a] = "gone"]
  /\ UNCHANGED <<vars, scoped, setting, config, uses, chosen, madeFrom>>

-----------------------------------------------------------------------------
(* StatsigOptionsBuilder.                                                  *)

CreateBuilder(b) ==
  /\ setting[b] = Absent
  /\ Enter(b)
  /\ setting' = [setting EXCEPT ![b] = None]
  /\ chosen' = [chosen EXCEPT ![b] = None]
  /\ UNCHANGED <<vars, scoped, adapter, config, uses, madeFrom>>

MayUse(b, a) ==
  /\ setting[b] # Absent /\ Exists(a)
  /\ scoped => Older(a, b)

(* Mutant: an adapter without a ref is ignored.                            *)
SetAdapter_KeepsOlder(b, a) ==
  /\ MayUse(b, a)
  /\ setting' = [setting EXCEPT ![b] =
                   IF adapter[a] = "registered" THEN a ELSE @]
  /\ chosen' = [chosen EXCEPT ![b] = a]
  /\ UNCHANGED <<vars, scope, scoped, adapter, config, uses, madeFrom>>

(* set_persistent_storage, set_observability_client: "a ref of 0 means     *)
(* native registration failed; serialize null".                            *)
SetAdapter(b, a) ==
  /\ MayUse(b, a)
  /\ setting' = [setting EXCEPT ![b] =
                   IF adapter[a] = "registered" THEN a ELSE None]
  /\ chosen' = [chosen EXCEPT ![b] = a]
  /\ UNCHANGED <<vars, scope, scoped, adapter, config, uses, madeFrom>>

DestroyBuilder(b) ==
  /\ setting[b] # Absent /\ Leave(b)
  /\ setting' = [setting EXCEPT ![b] = Absent]
  /\ chosen' = [chosen EXCEPT ![b] = None]
  /\ UNCHANGED <<vars, scoped, adapter, config, uses, madeFrom>>

-----------------------------------------------------------------------------
(* StatsigOptions.                                                         *)

(* The core looks the ref up when it creates the options data (external).  *)
Resolved(s) == IF s # None /\ adapter[s] = "registered" THEN s ELSE None

BuildOptions(h, b) ==
  /\ setting[b] # Absent
  /\ Build(h) /\ Enter(h)
  /\ LET d == ref'[h] IN
       IF d = NoRef
         THEN UNCHANGED <<config, chosen>>
         ELSE /\ config' = [config EXCEPT ![d] = Resolved(setting[b])]
              /\ chosen' = [chosen EXCEPT ![d] = chosen[b]]
  /\ UNCHANGED <<layerVars, scoped, adapter, setting, uses, madeFrom>>

(* Copies, as the compiler makes them.  A default-constructed object that  *)
(* is never assigned is not a scoped use of anything.                      *)
DuplicateOptions(h) ==
  /\ \/ ~scoped /\ DefaultInit(h) /\ Enter(h)
     \/ \E other \in Handles :
          \/ CopyHandle(h, other) /\ Enter(h)
          \/ /\ scoped => Older(other, h)
             /\ AssignHandle(h, other)
             /\ UNCHANGED scope
  /\ UNCHANGED <<layerVars, adapterVars>>

DestroyOptions(h) ==
  /\ DestroyHandle(h) /\ Leave(h)
  /\ UNCHANGED <<layerVars, adapterVars>>

-----------------------------------------------------------------------------
(* Statsig.                                                                *)

(* The two constructors.  statsig_create gives the instance the adapter of *)
(* the options, or none for options it does not know (any more).           *)
CreateStatsig(o, d) ==
  /\ Construct(o) /\ Enter(o)
  /\ LET i == ref'[o] IN
       IF i = NoRef
         THEN UNCHANGED <<uses, madeFrom>>
         ELSE /\ uses' = [uses EXCEPT ![i] =
                            IF d # NoRef /\ native[d] = "live"
                              THEN config[d] ELSE None]
              /\ madeFrom' = [madeFrom EXCEPT ![i] = d]
  /\ UNCHANGED <<layerVars, scoped, adapter, setting, config, chosen>>

CreateWithOptions(o) ==
  \E h \in Handles : h \in alive /\ CreateStatsig(o, ref[h])

CreateWithout(o) == CreateStatsig(o, NoRef)

(* Instances change hands; a scoped application does not move one to an    *)
(* object that lives longer than the one it was created for.               *)
MoveStatsig(o, other) ==
  /\ \/ MoveConstruct(o, other) /\ Enter(o)
     \/ /\ scoped /\ o # other => Older(other, o)
        /\ MoveAssign(o, other)
        /\ UNCHANGED scope
     \/ CopyAssign(o, other) /\ UNCHANGED scope
  /\ UNCHANGED <<layerVars, adapterVars>>

DestroyStatsig(o) ==
  /\ Destruct(o) /\ Leave(o)
  /\ UNCHANGED <<layerVars, adapterVars>>

-----------------------------------------------------------------------------
LifecycleNext ==
  \/ \E a \in Adapters : CreateAdapter(a) \/ DestroyAdapter(a)
  \/ \E b \in Builders :
       \/ CreateBuilder(b)
       \/ \E a \in Adapters : SetAdapter(b, a)
       \/ DestroyBuilder(b)
  \/ \E h \in Handles :
       \/ \E b \in Builders : BuildOptions(h, b)
       \/ DuplicateOptions(h)
       \/ DestroyOptions(h)
  \/ \E o \in Objects :
       \/ CreateWithOptions(o)
       \/ CreateWithout(o)
       \/ \E other \in Objects : MoveStatsig(o, other)
       \/ DestroyStatsig(o)

LifecycleSpec == LifecycleInit /\ [][LifecycleNext]_allVars

-----------------------------------------------------------------------------
(* In a scoped application no instance of the core outlives the adapter it *)
(* reports to: the refs need no owner, and the rule "keep the instance     *)
(* alive for as long as the owning Statsig instance is in use", on which   *)
(* the routing of calls rests, keeps itself.                               *)
AdaptersOutliveInstances ==
  scoped => \A i \in Instances :
              native[i] = "live" /\ uses[i] # None => Exists(uses[i])

(* An instance reports to the adapter last given to the builder its        *)
(* options come from, and never to another one; to none only if that       *)
(* adapter was not registered or is gone, or if the options were copied or *)
(* uninitialized.  Options without a ref, which is what build() returns if *)
(* the core refuses it, count as no options: they choose no adapter.       *)
ConfiguredAsChosen ==
  \A i \in Instances :
    LET d == madeFrom[i] IN
    uses[i] # (IF d = NoRef THEN None ELSE chosen[d])
      => /\ uses[i] = None
         /\ \/ adapter[chosen[d]] \in {"unregistered", "gone"}
            \/ d \in aliased

=============================================================================
