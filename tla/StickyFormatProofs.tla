------------------------- MODULE StickyFormatProofs -------------------------
(***************************************************************************)
(* Proofs about StickyFormat, for every set of strings, arrays, numbers    *)
(* and blobs, every width of the version field and every bound on the      *)
(* deviations of a foreign file.                                           *)
(*                                                                         *)
(* Two facts about the operators carry both properties: what from_json     *)
(* accepts it makes a struct the core can read again (ReadIsUsable,        *)
(* WrittenIsReadable), and a value of the core's own comes back from each  *)
(* of the conversions as it went in (ReadBack, CoreReadsBack).             *)
(***************************************************************************)
EXTENDS StickyFormat, TLAPS

(* What a field can hold that the core can read.                           *)
Usable(f, x) ==
  \/ x \in IF f = "config_version" THEN Versions ELSE Typed(f)
  \/ f \notin Required /\ x = Absent
  \/ f = "json_value"

UsableStruct(v) == \A f \in Fields : Usable(f, v[f])

ReadableInv ==
  /\ at = "store" => UsableStruct(val)
  /\ at = "reply" => doc = ToJson(val) /\ UsableStruct(val)

OnTheWire(v, nothing) == [f \in Fields |-> IF v[f] = Absent THEN nothing ELSE v[f]]

JourneyInv ==
  sent # None =>
    /\ sent \in CoreValues
    /\ at \in {"core", "wire", "store", "disk", "reply", "core_has_it"}
    /\ at = "wire" => \E nothing \in {Absent, Null} : doc = OnTheWire(sent, nothing)
    /\ at = "store" => val = sent
    /\ at \in {"disk", "reply"} => doc = ToJson(sent)
    /\ at = "core_has_it" => received = sent

-----------------------------------------------------------------------------
(* The conversions.                                                        *)

(* The types of the fields, and what is in none of them.                   *)
LEMMA TypesOfFields ==
  /\ Typed("value") = {True, False} /\ Typed("secondary_exposures") = Arrays
  /\ Typed("config_version") = Numbers
  /\ \A f \in Fields : {Absent, Null, Other} \cap Typed(f) = {}
BY StickyAssumption
   DEF Typed, Fields, OptFields, TextFields, NumberFields, ArrayFields

LEMMA TruncatedFits ==
  \A n \in Numbers : n % VersionRange \in Versions /\ (n \in Versions => n % VersionRange = n)
<1> SUFFICES ASSUME NEW n \in Numbers
             PROVE  n % VersionRange \in Versions /\ (n \in Versions => n % VersionRange = n)
  OBVIOUS
<1>1. n \in Nat /\ VersionRange \in Nat \ {0} /\ n % VersionRange \in Numbers
  BY StickyAssumption
<1>2. n % VersionRange < VersionRange /\ (n < VersionRange => n % VersionRange = n)
  BY <1>1
<1> QED
  BY <1>1, <1>2 DEF Versions

(* Every struct of the application is usable.                              *)
LEMMA StructsUsable == \A v \in Structs : UsableStruct(v)
BY DEF Structs, StructsWith, Opt, UsableStruct, Usable, Required, Fields,
   OptFields, TextFields, NumberFields, ArrayFields, Typed

(* So is what from_json makes of any document it accepts.                  *)
LEMMA ReadIsUsable ==
  ASSUME NEW d, Accepts(d)
  PROVE  UsableStruct(FromJson(d))
<1> SUFFICES ASSUME NEW f \in Fields PROVE Usable(f, FromJson(d)[f])
  BY DEF UsableStruct
<1>1. FromJson(d)[f] = IF d[f] \notin {Absent, Null} THEN Truncated(f, d[f])
                       ELSE IF f = "value" THEN False
                       ELSE IF f = "secondary_exposures" THEN Empty
                       ELSE Absent
  BY DEF FromJson
<1>2. CASE f = "json_value"
  BY <1>2 DEF Usable
<1>3. CASE f # "json_value" /\ d[f] \notin {Absent, Null}
  <2>1. d[f] \in Typed(f)
    BY <1>3 DEF Accepts
  <2> QED
    BY <1>1, <1>3, <2>1, TypesOfFields, TruncatedFits DEF Usable, Truncated
<1>4. CASE f # "json_value" /\ d[f] \in {Absent, Null}
  BY <1>1, <1>4, TypesOfFields, StickyAssumption DEF Usable, Required
<1> QED
  BY <1>2, <1>3, <1>4

(* The core can read the JSON of a usable struct.                          *)
LEMMA WrittenIsReadable ==
  ASSUME NEW v, UsableStruct(v)
  PROVE  CoreAccepts(ToJson(v))
<1> SUFFICES ASSUME NEW f \in Fields
             PROVE  \/ ToJson(v)[f] \in IF f = "config_version" THEN Versions ELSE Typed(f)
                    \/ f \notin Required /\ ToJson(v)[f] \in {Absent, Null}
                    \/ f = "json_value"
  BY DEF CoreAccepts
<1>1. ToJson(v)[f] = IF v[f] = Absent THEN Null ELSE v[f]
  BY DEF ToJson
<1>2. Absent \notin Typed(f) /\ Absent \notin Versions
  BY TypesOfFields, StickyAssumption DEF Versions
<1> QED
  BY <1>1, <1>2 DEF UsableStruct, Usable

(* A value of the core's own is a function on the fields, whose values are *)
(* absent or of the type of the field.                                     *)
LEMMA CoreFields ==
  ASSUME NEW v \in CoreValues
  PROVE  /\ v = [f \in Fields |-> v[f]]
         /\ \A f \in Fields :
              /\ v[f] \in Typed(f) \/ (v[f] = Absent /\ f \notin Required)
              /\ f = "config_version" /\ v[f] # Absent => v[f] \in Versions
              /\ v[f] # Null
<1>1. v = [f \in Fields |-> v[f]]
  BY DEF CoreValues, StructsWith, Fields, OptFields, TextFields, NumberFields,
     ArrayFields
<1>2. \A f \in Fields : v[f] \in Typed(f) \/ (v[f] = Absent /\ f \notin Required)
  <2>1. /\ v["value"] \in Typed("value")
        /\ v["secondary_exposures"] \in Typed("secondary_exposures")
    BY TypesOfFields DEF CoreValues, StructsWith
  <2>2. /\ \A f \in TextFields : v[f] \in Strings \cup {Absent}
        /\ \A f \in ArrayFields : v[f] \in Arrays \cup {Absent}
        /\ \A f \in NumberFields : v[f] \in Numbers \cup {Absent}
        /\ v["json_value"] \in Blobs \cup {Absent}
    BY DEF CoreValues, StructsWith, Opt, Versions, TextFields, NumberFields,
       ArrayFields
  <2>3. /\ \A f \in TextFields : Typed(f) = Strings /\ f \notin Required
        /\ \A f \in ArrayFields : Typed(f) = Arrays /\ f \notin Required
        /\ \A f \in NumberFields : Typed(f) = Numbers /\ f \notin Required
        /\ Typed("json_value") = Blobs /\ "json_value" \notin Required
    BY DEF Typed, TextFields, NumberFields, ArrayFields, Required
  <2> QED
    BY <2>1, <2>2, <2>3 DEF Fields, OptFields
<1>3. v["config_version"] # Absent => v["config_version"] \in Versions
  BY DEF CoreValues, StructsWith, Opt
<1> QED
  BY <1>1, <1>2, <1>3, TypesOfFields, StickyAssumption

(* from_json undoes any way of writing a value without losing a field.     *)
LEMMA ReadBack ==
  ASSUME NEW v \in CoreValues, NEW nothing \in {Absent, Null}
  PROVE  Accepts(OnTheWire(v, nothing)) /\ FromJson(OnTheWire(v, nothing)) = v
<1> DEFINE d == OnTheWire(v, nothing)
<1>1. \A f \in Fields : d[f] = IF v[f] = Absent THEN nothing ELSE v[f]
  BY DEF OnTheWire
<1>2. \A f \in Fields :
        /\ v[f] \in Typed(f) \/ (v[f] = Absent /\ f \notin Required)
        /\ f = "config_version" /\ v[f] # Absent => v[f] \in Versions
        /\ v[f] # Null
  BY CoreFields
<1> HIDE DEF d
<1>3. ASSUME NEW f \in Fields
      PROVE  /\ \/ d[f] \in Typed(f) \cup {Absent}
                \/ d[f] = Null /\ f # "value"
             /\ FromJson(d)[f] = v[f]
  <2>1. FromJson(d)[f] = IF d[f] \notin {Absent, Null} THEN Truncated(f, d[f])
                         ELSE IF f = "value" THEN False
                         ELSE IF f = "secondary_exposures" THEN Empty
                         ELSE Absent
    BY DEF FromJson
  <2>2. CASE v[f] = Absent
    BY <1>1, <1>2, <2>1, <2>2, TypesOfFields DEF Required
  <2>3. CASE v[f] # Absent
    <3>1. d[f] = v[f] /\ d[f] \in Typed(f) /\ d[f] \notin {Absent, Null}
      BY <1>1, <1>2, <2>3
    <3>2. Truncated(f, v[f]) = v[f]
      BY <1>2, <2>3, TruncatedFits DEF Truncated
    <3> QED
      BY <2>1, <3>1, <3>2
  <2> QED
    BY <2>2, <2>3
<1>4. Accepts(d)
  BY <1>3 DEF Accepts
<1>5. \A f \in Fields : FromJson(d)[f] = v[f]
  BY <1>3
<1>6. FromJson(d) = [f \in Fields |-> FromJson(d)[f]]
  BY DEF FromJson
<1>7. FromJson(d) = v
  BY <1>5, <1>6, CoreFields
<1> QED
  BY <1>4, <1>7 DEF d

LEMMA ToJsonIsWire == \A v : ToJson(v) = OnTheWire(v, Null)
BY DEF ToJson, OnTheWire

(* The core reads its own value from the JSON to_json writes.              *)
LEMMA CoreReadsBack ==
  ASSUME NEW v \in CoreValues
  PROVE  CoreReads(ToJson(v)) = v
<1>1. \A f \in Fields : CoreReads(ToJson(v))[f] = v[f]
  BY CoreFields DEF CoreReads, ToJson
<1>2. CoreReads(ToJson(v)) = [f \in Fields |-> CoreReads(ToJson(v))[f]]
  BY DEF CoreReads
<1> QED
  BY <1>1, <1>2, CoreFields

-----------------------------------------------------------------------------
(* The journey.                                                            *)

LEMMA ReadableStep == ReadableInv /\ [Next]_vars => ReadableInv'
<1> SUFFICES ASSUME ReadableInv, [Next]_vars PROVE ReadableInv'
  OBVIOUS
<1>1. CASE CoreSaves \/ CoreParses
  BY <1>1 DEF CoreSaves, CoreParses, ReadableInv
<1>2. CASE Save \/ Read
  BY <1>2, ReadIsUsable DEF Save, Read, ReadableInv
<1>3. CASE Write
  BY <1>3 DEF Write, ReadableInv
<1>4. CASE Load
  BY <1>4 DEF Load, ReadableInv
<1>5. CASE Done \/ UNCHANGED vars
  BY <1>5 DEF Done, vars, ReadableInv
<1> QED
  BY <1>1, <1>2, <1>3, <1>4, <1>5 DEF Next

LEMMA JourneyStep == JourneyInv /\ [Next]_vars => JourneyInv'
<1> SUFFICES ASSUME JourneyInv, [Next]_vars, sent' # None
             PROVE  /\ sent' \in CoreValues
                    /\ at' \in {"core", "wire", "store", "disk", "reply", "core_has_it"}
                    /\ at' = "wire" => \E nothing \in {Absent, Null} :
                                         doc' = OnTheWire(sent', nothing)
                    /\ at' = "store" => val' = sent'
                    /\ at' \in {"disk", "reply"} => doc' = ToJson(sent')
                    /\ at' = "core_has_it" => received' = sent'
  BY DEF JourneyInv, OnTheWire, ToJson
<1>1. sent' = sent
  BY DEF Next, CoreSaves, Save, Write, Read, Load, CoreParses, Done, vars
<1>2. /\ sent \in CoreValues
      /\ at \in {"core", "wire", "store", "disk", "reply", "core_has_it"}
      /\ at = "wire" => \E nothing \in {Absent, Null} : doc = OnTheWire(sent, nothing)
      /\ at = "store" => val = sent
      /\ at \in {"disk", "reply"} => doc = ToJson(sent)
      /\ at = "core_has_it" => received = sent
  BY <1>1 DEF JourneyInv
<1>3. CASE CoreSaves
  BY <1>1, <1>2, <1>3 DEF CoreSaves, OnTheWire
<1>4. CASE Save
  BY <1>1, <1>2, <1>4, ReadBack DEF Save
<1>5. CASE Write
  BY <1>1, <1>2, <1>5 DEF Write
<1>6. CASE Read
  BY <1>1, <1>2, <1>6, ReadBack, ToJsonIsWire DEF Read
<1>7. CASE Load
  BY <1>1, <1>2, <1>7 DEF Load
<1>8. CASE CoreParses
  BY <1>1, <1>2, <1>8, CoreReadsBack DEF CoreParses
<1>9. CASE Done \/ UNCHANGED vars
  BY <1>1, <1>2, <1>9 DEF Done, vars
<1> QED
  BY <1>3, <1>4, <1>5, <1>6, <1>7, <1>8, <1>9 DEF Next

(* Every value of the core survives the way through the application's      *)
(* store and disk, any number of times.                                    *)
THEOREM Survival == Spec => []StickySurvives
<1>1. Init => JourneyInv
  BY DEF Init, JourneyInv
<1>2. JourneyInv => StickySurvives
  BY DEF JourneyInv, StickySurvives
<1> QED
  BY <1>1, <1>2, JourneyStep, PTL DEF Spec

(* Whatever the application has in its store, and whatever file it came    *)
(* from, the core can read the answer of load().                           *)
THEOREM AnswersReadable == Spec => []CoreCanRead
<1>1. Init => ReadableInv
  BY StructsUsable DEF Init, ReadableInv
<1>2. ReadableInv => CoreCanRead
  BY WrittenIsReadable DEF ReadableInv, CoreCanRead
<1> QED
  BY <1>1, <1>2, ReadableStep, PTL DEF Spec

=============================================================================
