---------------------------- MODULE StickyFormat ----------------------------
(***************************************************************************)
(* The JSON form of StickyValues (persistent_storage.h), on its way from   *)
(* the core through the application's store and back.                      *)
(*                                                                         *)
(* The core sends a value to save(), which parses it into the C++ struct;  *)
(* the application keeps the struct, or writes it to its disk as JSON and  *)
(* reads it again, perhaps a file of another version; load() serializes    *)
(* what is kept, and the core parses that.  An object is a function from   *)
(* the fields to JSON values, Absent where it lacks the key.               *)
(***************************************************************************)
EXTENDS FiniteSets, Naturals

CONSTANTS
  Strings,        \* JSON strings
  Arrays,         \* JSON arrays whose entries convert, the empty one included
  Numbers,        \* JSON numbers
  VersionRange,   \* 2^32, the number of values of a uint32_t
  True, False,    \* the JSON booleans
  Blobs,          \* JSON values for json_value that are not null
  Empty,          \* []
  Absent, Null,   \* no such key; null
  Other,          \* a JSON value of a type no field expects
  MaxDeviations   \* bound: fields in which a foreign file differs

ASSUME StickyAssumption ==
  /\ Empty \in Arrays
  /\ Absent # Null /\ Other \notin {Absent, Null}
  /\ {Absent, Null, Other} \cap
       (Strings \cup Arrays \cup Numbers \cup Blobs \cup {True, False}) = {}
  /\ Numbers \subseteq Nat /\ VersionRange \in Nat \ {0}
  /\ \A n \in Numbers : n % VersionRange \in Numbers

VARIABLES
  at,       \* where the value is
  val,      \* the C++ struct the application keeps
  doc,      \* the JSON text in transit
  sent,     \* the value the core wanted to save, or None
  received  \* what the core made of the answer of load()

vars == <<at, val, doc, sent, received>>

-----------------------------------------------------------------------------
TextFields   == {"rule_id", "group_name", "config_delegate"}
NumberFields == {"time", "config_version"}
ArrayFields  == {"undelegated_secondary_exposures", "explicit_parameters"}
OptFields    == TextFields \cup NumberFields \cup ArrayFields
Fields       == OptFields \cup {"value", "json_value", "secondary_exposures"}

(* The JSON values get<T> converts for the type of a field.                *)
Typed(f) ==
  CASE f = "value"                                    -> {True, False}
    [] f = "json_value"                               -> Blobs
    [] f \in TextFields                               -> Strings
    [] f \in NumberFields                             -> Numbers
    [] f \in ArrayFields \cup {"secondary_exposures"} -> Arrays

Required == {"value", "secondary_exposures"}

(* The numbers a uint32_t holds; get<uint32_t> truncates the others.       *)
Versions == {n \in Numbers : n < VersionRange}
Truncated(f, x) ==
  IF f = "config_version" /\ x \in Numbers THEN x % VersionRange ELSE x

JsonValues ==
  Strings \cup Arrays \cup Numbers \cup Blobs
    \cup {True, False, Absent, Null, Other}

(* A StickyValues struct; Absent stands for std::nullopt.  json_value can  *)
(* hold a JSON null of its own.                                            *)
Opt(S) == S \cup {Absent}

StructsWith(jsonValues) ==
  [value                           : Typed("value"),
   json_value                      : Opt(jsonValues),
   rule_id                         : Opt(Strings),
   group_name                      : Opt(Strings),
   secondary_exposures             : Arrays,
   undelegated_secondary_exposures : Opt(Arrays),
   config_delegate                 : Opt(Strings),
   explicit_parameters             : Opt(Arrays),
   time                            : Opt(Numbers),
   config_version                  : Opt(Versions)]

Structs == StructsWith(Blobs \cup {Null})

(* What the core can hold in its own struct (external): an optional null   *)
(* is no value.                                                            *)
CoreValues == StructsWith(Blobs)

-----------------------------------------------------------------------------
(* Mutant: an empty list of exposures is left out.                         *)
ToJson_OmitsEmpty(v) ==
  [f \in Fields |->
     IF v[f] = Absent THEN Null
     ELSE IF f = "secondary_exposures" /\ v[f] = Empty THEN Absent
     ELSE v[f]]

(* to_json: every key is written, std::nullopt as null.                    *)
ToJson(v) == [f \in Fields |-> IF v[f] = Absent THEN Null ELSE v[f]]

(* from_json throws when a key holds a value of another type.  A missing   *)
(* key is no error, and neither is a null, except in "value": j.value()    *)
(* falls back to false for a missing key only.                             *)
Accepts(d) ==
  \A f \in Fields :
    \/ d[f] \in Typed(f) \cup {Absent}
    \/ d[f] = Null /\ f # "value"
    \/ f = "json_value"

(* Mutant: a list without a value becomes an empty list.                   *)
FromJson_EmptyLists(d) ==
  [f \in Fields |->
     IF d[f] \notin {Absent, Null} THEN Truncated(f, d[f])
     ELSE IF f = "value" THEN False
     ELSE IF f \in ArrayFields \cup {"secondary_exposures"} THEN Empty
     ELSE Absent]

(* The struct it fills in for a text it accepts.                           *)
FromJson(d) ==
  [f \in Fields |->
     IF d[f] \notin {Absent, Null} THEN Truncated(f, d[f])
     ELSE IF f = "value" THEN False
     ELSE IF f = "secondary_exposures" THEN Empty
     ELSE Absent]

(* The core's parser (external): no default for the required fields, and   *)
(* numbers must fit.                                                       *)
CoreAccepts(d) ==
  \A f \in Fields :
    \/ d[f] \in IF f = "config_version" THEN Versions ELSE Typed(f)
    \/ f \notin Required /\ d[f] \in {Absent, Null}
    \/ f = "json_value"

CoreReads(d) ==
  [f \in Fields |-> IF d[f] = Null THEN Absent ELSE d[f]]

-----------------------------------------------------------------------------
None == [f \in Fields |-> Other]

(* A full document, and those that differ from it in a few fields: files   *)
(* the application may find on its disk.                                   *)
Full == [f \in Fields |-> CHOOSE x \in Typed(f) : TRUE]

ForeignValues(f) == Typed(f) \cup {Absent, Null, Other}

Foreign ==
  UNION {{[f \in Fields |-> IF f \in D THEN change[f] ELSE Full[f]] :
            change \in {g \in [D -> JsonValues] :
                          \A f \in D : g[f] \in ForeignValues(f)}} :
         D \in {E \in SUBSET Fields : Cardinality(E) <= MaxDeviations}}

Init ==
  /\ received = None
  /\ \/ \* the core wants to save something
        /\ at = "core"
        /\ sent \in CoreValues
        /\ val = None /\ doc = None
     \/ \* the application fills in a struct itself
        /\ at = "store"
        /\ val \in Structs
        /\ sent = None /\ doc = None
     \/ \* it finds a file
        /\ at = "disk"
        /\ doc \in Foreign
        /\ sent = None /\ val = None

(* The core serializes an optional without a value as null or not at all.  *)
CoreSaves ==
  /\ at = "core" /\ at' = "wire"
  /\ \E nothing \in {Absent, Null} :
       doc' = [f \in Fields |-> IF sent[f] = Absent THEN nothing ELSE sent[f]]
  /\ UNCHANGED <<val, sent, received>>

(* dispatch_save parses "data" and calls save(); an exception is swallowed *)
(* and the value is lost.                                                  *)
Save ==
  /\ at = "wire"
  /\ IF Accepts(doc)
       THEN at' = "store" /\ val' = FromJson(doc)
       ELSE at' = "lost" /\ UNCHANGED val
  /\ UNCHANGED <<doc, sent, received>>

(* The application writes the struct to its disk ...                       *)
Write ==
  /\ at = "store" /\ at' = "disk"
  /\ doc' = ToJson(val)
  /\ UNCHANGED <<val, sent, received>>

(* ... and reads it again.                                                 *)
Read ==
  /\ at = "disk"
  /\ IF Accepts(doc)
       THEN at' = "store" /\ val' = FromJson(doc)
       ELSE at' = "lost" /\ UNCHANGED val
  /\ UNCHANGED <<doc, sent, received>>

(* dispatch_load serializes what load() returned.                          *)
Load ==
  /\ at = "store" /\ at' = "reply"
  /\ doc' = ToJson(val)
  /\ UNCHANGED <<val, sent, received>>

CoreParses ==
  /\ at = "reply" /\ at' = "core_has_it"
  /\ CoreAccepts(doc)
  /\ received' = CoreReads(doc)
  /\ UNCHANGED <<val, doc, sent>>

Done == at \in {"core_has_it", "lost"} /\ UNCHANGED vars

Next == CoreSaves \/ Save \/ Write \/ Read \/ Load \/ CoreParses \/ Done

Spec == Init /\ [][Next]_vars

-----------------------------------------------------------------------------
(* What the core reads back is what it saved, however often the value went *)
(* to the application's disk in between, and no save of the core's own     *)
(* values is lost to a conversion.                                         *)
StickySurvives ==
  sent # None =>
    /\ at # "lost"
    /\ at = "core_has_it" => received = sent

(* "always emits the fields the core requires ... guaranteed to            *)
(* deserialize on the Rust side" (persistent_storage.h:44): whatever       *)
(* struct the application has, the answer of load() is one the core can    *)
(* read, also if it was read from a file that lacks keys.                  *)
CoreCanRead == at = "reply" => CoreAccepts(doc)

=============================================================================
