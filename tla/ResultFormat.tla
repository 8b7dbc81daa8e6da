---------------------------- MODULE ResultFormat ----------------------------
(***************************************************************************)
(* The JSON texts the core answers with, and the structs types.h and       *)
(* layer.h make of them.                                                   *)
(*                                                                         *)
(* An object is a function from the keys its reader looks at to "absent",  *)
(* "null", "other" (a value of a type the reader does not expect), or a    *)
(* value.  A value is named after the field it is meant for, or "default"  *)
(* if it is what the field has in an empty struct.  Details without a time *)
(* of reception are "untimed".                                             *)
(***************************************************************************)
EXTENDS FiniteSets, Naturals, Sequences

CONSTANT MaxDeviations \* bound: keys in which an unexpected answer differs

ASSUME ResultAssumption == MaxDeviations \in Nat

Types == {"FeatureGate", "DynamicConfig", "Experiment", "Layer",
          "ExperimentGroupsResult", "List"}

Common == {"name", "value", "rule_id", "id_type", "details"}

Fields(t) ==
  CASE t \in {"FeatureGate", "DynamicConfig"} -> Common
    [] t = "Experiment" -> Common \cup {"group_name", "is_experiment_active"}
    [] t = "Layer" -> (Common \ {"name"}) \cup
         {"group_name", "is_experiment_active", "allocated_experiment_name"}
    [] t = "ExperimentGroupsResult" -> {"is_experiment_active", "groups"}
    [] t = "List" -> {"entries"}

Values(f) == {f, "default"} \cup (IF f = "details" THEN {"untimed"} ELSE {})

(* The keys a field is read from, in the order they are tried.             *)
Camel == [rule_id |-> "ruleID", id_type |-> "idType", group_name |-> "groupName",
          is_experiment_active |-> "isExperimentActive"]

Spellings(t, f) ==
  IF t = "Experiment" /\ f \in DOMAIN Camel THEN <<f, Camel[f]>>
  ELSE IF t = "Layer" /\ f = "value" THEN <<"__value">>
  ELSE <<f>>

Keys(t) == UNION {{Spellings(t, f)[i] : i \in DOMAIN Spellings(t, f)} :
                  f \in Fields(t)}

-----------------------------------------------------------------------------
(* Mutant: only the first spelling is read.                                *)
Found_SnakeOnly(t, f, d) == d[Spellings(t, f)[1]]

(* What the reader of a field finds: the second spelling counts only if    *)
(* the first has nothing.                                                  *)
Found(t, f, d) ==
  LET keys == Spellings(t, f) IN
  IF Len(keys) = 2 /\ d[keys[1]] \in {"absent", "null"}
    THEN d[keys[2]]
    ELSE d[keys[1]]

(* How a field is read: with at(), with at() unless it is null, with       *)
(* get_optional, with contains() or value(), only if it is an object.      *)
Policy(t, f) ==
  CASE t \in {"FeatureGate", "DynamicConfig", "List"}     -> "required"
    [] f \in {"group_name", "allocated_experiment_name"}  -> "optional"
    [] t = "Layer" /\ f \in Common \cup {"is_experiment_active"} -> "nullable"
    [] t = "Experiment" /\ f = "value"                    -> "tolerant"
    [] t # "Layer" /\ f \in {"details", "groups"}         -> "defaulted"
    [] OTHER                                              -> "optional"

(* The finds, besides values, that do not make it throw.                   *)
Tolerated == [required  |-> {},
              nullable  |-> {"null"},
              defaulted |-> {"absent"},
              optional  |-> {"absent", "null"},
              tolerant  |-> {"absent", "null", "other"}]

(* Does from_json return?                                                  *)
Accepts(t, d) ==
  \A f \in Fields(t) : Found(t, f, d) \in Values(f) \cup Tolerated[Policy(t, f)]

(* The struct it returns.  The constructor of Layer leaves the flag as it  *)
(* found the memory, and from_json skips a null.                           *)
FromJson(t, d) ==
  [f \in Fields(t) |->
     IF Found(t, f, d) \in Values(f) THEN Found(t, f, d)
     ELSE IF t = "Layer" /\ f = "is_experiment_active" THEN "indeterminate"
     ELSE "default"]

-----------------------------------------------------------------------------
(* The types an application can write out again with to_json, and what is  *)
(* written: not the group and the activity of an Experiment, and the time  *)
(* of reception under a key ("receivedAt") that is not read again.         *)
Writable   == Types \ {"Layer", "List"}
Written(t) == IF t = "ExperimentGroupsResult" THEN Fields(t) ELSE Common

(* Mutant: what is empty is written as null.                               *)
ToJson_Nulls(t, s) ==
  [k \in Keys(t) |->
     IF k \notin Written(t) THEN "absent"
     ELSE IF s[k] = "default" THEN "null"
     ELSE IF s[k] = "details" THEN "untimed"
     ELSE s[k]]

ToJson(t, s) ==
  [k \in Keys(t) |->
     IF k \notin Written(t) THEN "absent"
     ELSE IF k = "is_experiment_active" /\ s[k] = "default" THEN "null"
     ELSE IF s[k] = "details" THEN "untimed"
     ELSE s[k]]

-----------------------------------------------------------------------------
(* What the core answers (external, as types.h:129 and the tests describe  *)
(* it): the group-targeting lookups use the camelCase keys, and where the  *)
(* core has nothing to say it leaves a key null or out.                    *)
Styles(t) == IF t = "Experiment" THEN {"snake", "camel"} ELSE {"snake"}

Contents(t) ==
  {[f \in Fields(t) |-> IF f \in empty THEN "default"
                        ELSE IF f = "details" THEN details ELSE f] :
     empty \in SUBSET (Fields(t) \ {"details"}), details \in {"details", "untimed"}}

Optional(t, style) ==
  CASE style = "camel" -> {"value", "id_type", "group_name", "is_experiment_active"}
    [] t = "ExperimentGroupsResult" -> {"is_experiment_active"}
    [] OTHER -> {"group_name", "allocated_experiment_name"}

KeyOf(t, style, f) ==
  LET keys == Spellings(t, f) IN
  keys[IF style = "camel" THEN Len(keys) ELSE 1]

CoreWrites(t, style, nothing, s) ==
  [k \in Keys(t) |->
     IF \E f \in Fields(t) : k = KeyOf(t, style, f)
       THEN LET f == CHOOSE f \in Fields(t) : k = KeyOf(t, style, f)
            IN  IF s[f] = "default" /\ f \in Optional(t, style) THEN nothing ELSE s[f]
       ELSE "absent"]

(* Answers nobody expects: full ones with a few keys changed.              *)
Unexpected(t) ==
  LET full(style) == CoreWrites(t, style, "null", [f \in Fields(t) |-> f]) IN
  UNION {{[k \in Keys(t) |-> IF k \in D THEN change[k] ELSE full(style)[k]] :
            change \in [D -> {"absent", "null", "other"}]} :
         style \in Styles(t),
         D \in {E \in SUBSET Keys(t) : Cardinality(E) \in 1 .. MaxDeviations}}

=============================================================================
