-------------------------- MODULE UserFormatProofs --------------------------
(***************************************************************************)
(* Proofs about UserFormat, for every set of keys and words, every width   *)
(* of an integer, every number of changes and every file.                  *)
(*                                                                         *)
(* What was said of a builder arrives in the builder, and what is in the   *)
(* builder arrives in the core and in a restored builder: BuilderInv is    *)
(* the first half.  The second rests on two lemmas that say what writing   *)
(* an attribute (WriteArrives) and reading it again (RestoreArrives) add   *)
(* to the changes an attribute may already have gone through.              *)
(***************************************************************************)
EXTENDS UserFormat, TLAPS

IdentityInv ==
  \A f \in Names : identity[f] \in said[f] /\ identity[f] \notin {"missing", "wrong"}

AttributesInv == \A f \in MapNames : \E s \in said[f] : Arrives(s, attributes[f])

BuilderInv ==
  /\ DOMAIN identity = Names /\ DOMAIN attributes = MapNames
  /\ DOMAIN said = Names \cup MapNames
  /\ IdentityInv
  /\ AttributesInv

UserInv == BuilderInv /\ UserAsSaid /\ AttributesAsSaid

-----------------------------------------------------------------------------
(* Attributes.                                                             *)

(* What may happen to an item may happen to it again when it is written or *)
(* read: it stays an arrival of the first.                                 *)
LEMMA ItemWritten == \A x, y : ItemArrives(x, y) => ItemArrives(x, Written(y))
BY DEF ItemArrives, Written

LEMMA ItemRead == \A x, y : ItemArrives(x, y) => ItemArrives(x, AsInt64(y))
BY DEF ItemArrives, AsInt64

(* An item that has no type when it is written had none when it was said.  *)
LEMMA ItemUntyped ==
  \A x, y : ItemArrives(x, y) /\ Written(y)[1] \in {"null", "object"}
              => x[1] \in {"null", "object", "nan"}
BY DEF ItemArrives, Written

LEMMA ValueWritten ==
  ASSUME NEW v, NEW w, ValueArrives(v, w)
  PROVE  ValueArrives(v, Dump(w))
<1> DEFINE written == [i \in DOMAIN w.items |-> Written(w.items[i])]
<1>1. Dump(w).list = w.list /\ Dump(w).items = written
  BY DEF Dump
<1>2. DOMAIN written = DOMAIN w.items
  OBVIOUS
<1>3. \A i \in DOMAIN w.items : written[i] = Written(w.items[i])
  OBVIOUS
<1> HIDE DEF written
<1> QED
  BY <1>1, <1>2, <1>3, ItemWritten DEF ValueArrives

LEMMA ValueRead ==
  ASSUME NEW v, NEW w, ValueArrives(v, w)
  PROVE  ValueArrives(v, Read(w))
<1> DEFINE taken == [i \in DOMAIN w.items |-> AsInt64(w.items[i])]
<1>1. Read(w).list = w.list /\ Read(w).items = taken
  BY DEF Read
<1>2. DOMAIN taken = DOMAIN w.items
  OBVIOUS
<1>3. \A i \in DOMAIN w.items : taken[i] = AsInt64(w.items[i])
  OBVIOUS
<1> HIDE DEF taken
<1> QED
  BY <1>1, <1>2, <1>3, ItemRead DEF ValueArrives

LEMMA ValueUntyped ==
  ASSUME NEW v, NEW w, ValueArrives(v, w), ~Readable(Dump(w))
  PROVE  HasNoType(v)
<1>1. PICK i \in DOMAIN w.items : Written(w.items[i])[1] \in {"null", "object"}
  BY DEF Readable, Dump
<1> QED
  BY <1>1, ItemUntyped DEF ValueArrives, HasNoType

LEMMA ValueItself == \A v : ValueArrives(v, v)
BY DEF ValueArrives, ItemArrives

Dumped(n) == [k \in DOMAIN n |-> Dump(n[k])]

(* Writing the map of a builder, and reading it again.                     *)
LEMMA WriteArrives ==
  ASSUME NEW m, NEW n, MapArrives(m, n)
  PROVE  MapArrives(m, Dumped(n))
<1>1. DOMAIN Dumped(n) = DOMAIN n /\ \A k \in DOMAIN n : Dumped(n)[k] = Dump(n[k])
  BY DEF Dumped
<1> QED
  BY <1>1, ValueWritten DEF MapArrives

LEMMA RestoreArrives ==
  ASSUME NEW m, NEW n, MapArrives(m, n)
  PROVE  MapArrives(m, ReadMap(Dumped(n)))
<1> DEFINE r == ReadMap(Dumped(n))
<1>1. DOMAIN Dumped(n) = DOMAIN n /\ \A k \in DOMAIN n : Dumped(n)[k] = Dump(n[k])
  BY DEF Dumped
<1>2. DOMAIN r = {k \in DOMAIN n : Readable(Dump(n[k]))}
  BY <1>1 DEF ReadMap
<1>3. \A k \in DOMAIN r : r[k] = Read(Dump(n[k]))
  BY <1>1, <1>2 DEF ReadMap
<1> HIDE DEF r
<1>4. DOMAIN r \subseteq DOMAIN m
  BY <1>2 DEF MapArrives
<1>5. ASSUME NEW k \in DOMAIN m
      PROVE  IF k \in DOMAIN r THEN ValueArrives(m[k], r[k]) ELSE HasNoType(m[k])
  BY <1>2, <1>3, ValueWritten, ValueRead, ValueUntyped DEF MapArrives
<1>6. MapArrives(m, r)
  BY <1>4, <1>5 DEF MapArrives
<1> QED
  BY <1>6 DEF r

(* A file's map is read as far as its attributes have types.               *)
LEMMA FileArrives == \A m : MapArrives(m, ReadMap(m))
<1> SUFFICES ASSUME NEW m PROVE MapArrives(m, ReadMap(m))
  OBVIOUS
<1> DEFINE r == ReadMap(m)
<1>1. /\ DOMAIN r = {k \in DOMAIN m : Readable(m[k])}
      /\ \A k \in DOMAIN r : r[k] = Read(m[k])
  BY DEF ReadMap
<1>2. \A v : ~Readable(v) => HasNoType(v)
  BY DEF Readable, HasNoType
<1> HIDE DEF r
<1>3. MapArrives(m, r)
  BY <1>1, <1>2, ValueItself, ValueRead DEF MapArrives
<1> QED
  BY <1>3 DEF r

LEMMA SetterArrives == \A m : MapArrives(m, m)
BY ValueItself DEF MapArrives

-----------------------------------------------------------------------------
(* The builder.                                                            *)

LEMMA NamesDiffer == Names \cap MapNames = {}
BY DEF Names, MapNames, Identity

(* A builder writes a file that reading does not stop in.                  *)
LEMMA OwnFile ==
  ASSUME NEW b, \A f \in Names : b.identity[f] # "wrong"
  PROVE  Reached(ToJson(b)) = Names
BY DEF Reached, ToJson, Names, Identity

LEMMA InitUser == Init => UserInv
<1> SUFFICES ASSUME Init PROVE UserInv
  OBVIOUS
<1>1. /\ identity = [f \in Names |-> "null"] /\ attributes = [f \in MapNames |-> <<>>]
      /\ said = [f \in Names \cup MapNames |-> IF f \in Names THEN {"null"} ELSE {<<>>}]
      /\ built = <<>>
  BY DEF Init, Fresh
<1> QED
  BY <1>1, NamesDiffer DEF UserInv, BuilderInv, IdentityInv, AttributesInv,
     Arrives, UserAsSaid, AttributesAsSaid

LEMMA SetIdentityInv ==
  ASSUME BuilderInv, NEW f \in Names, NEW w \in Words \cup {"not_utf8"},
         SetIdentity(f, w)
  PROVE  BuilderInv'
<1> USE DEF BuilderInv
<1>1. /\ identity' = [identity EXCEPT ![f] = w] /\ attributes' = attributes
      /\ said' = [said EXCEPT ![f] = {w}]
  BY DEF SetIdentity
<1>2. w \notin {"missing", "wrong"}
  BY UserAssumption
<1>3. IdentityInv'
  BY <1>1, <1>2 DEF IdentityInv
<1>4. AttributesInv'
  BY <1>1, NamesDiffer DEF AttributesInv
<1> QED
  BY <1>1, <1>3, <1>4

LEMMA SetAttributesInv ==
  ASSUME BuilderInv, NEW f \in MapNames, NEW m, SetAttributes(f, m)
  PROVE  BuilderInv'
<1> USE DEF BuilderInv
<1>1. /\ attributes' = [attributes EXCEPT ![f] = <<m>>] /\ identity' = identity
      /\ said' = [said EXCEPT ![f] = {<<m>>}]
  BY DEF SetAttributes
<1>2. IdentityInv'
  BY <1>1, NamesDiffer DEF IdentityInv
<1>3. Arrives(<<m>>, <<m>>)
  BY SetterArrives DEF Arrives
<1>4. AttributesInv'
  BY <1>1, <1>3 DEF AttributesInv
<1> QED
  BY <1>1, <1>2, <1>4

LEMMA LoadInv ==
  ASSUME BuilderInv, NEW d, Load(d)
  PROVE  BuilderInv'
<1> USE DEF BuilderInv
<1> DEFINE from == FromJson(Builder, d)
<1>1. /\ identity' = from.identity /\ attributes' = from.attributes
      /\ DOMAIN said' = Names \cup MapNames
      /\ \A f \in Names : said'[f] =
           (IF Throws(d) THEN said[f] ELSE {}) \cup
           {IF d.identity[f] = "missing" THEN "null" ELSE d.identity[f]}
      /\ \A f \in MapNames : said'[f] =
           IF d.attributes[f] = <<>> THEN said[f]
           ELSE (IF Throws(d) THEN said[f] ELSE {}) \cup {d.attributes[f]}
  BY NamesDiffer DEF Load, Become
<1>2. /\ DOMAIN identity' = Names
      /\ \A f \in Names : identity'[f] =
           IF f \notin Reached(d) THEN identity[f]
           ELSE IF d.identity[f] = "missing" THEN "null" ELSE d.identity[f]
  BY <1>1 DEF FromJson, Builder
<1>3. /\ DOMAIN attributes' = MapNames
      /\ \A f \in MapNames : attributes'[f] =
           IF Throws(d) \/ d.attributes[f] = <<>> THEN attributes[f]
           ELSE <<ReadMap(d.attributes[f][1])>>
  BY <1>1 DEF FromJson, Builder
<1>4. ASSUME NEW f \in Names
      PROVE  identity'[f] \in said'[f] /\ identity'[f] \notin {"missing", "wrong"}
  <2>1. f \in Reached(d) => d.identity[f] # "wrong"
    BY DEF Reached, Identity
  <2>2. f \notin Reached(d) => Throws(d)
    BY DEF Throws
  <2> QED
    BY <1>1, <1>2, <2>1, <2>2 DEF IdentityInv
<1>5. ASSUME NEW f \in MapNames
      PROVE  \E s \in said'[f] : Arrives(s, attributes'[f])
  <2>1. CASE Throws(d) \/ d.attributes[f] = <<>>
    BY <1>1, <1>3, <2>1 DEF AttributesInv
  <2>2. CASE ~Throws(d) /\ d.attributes[f] # <<>>
    <3>1. Arrives(d.attributes[f], <<ReadMap(d.attributes[f][1])>>)
      BY <2>2, FileArrives DEF Arrives
    <3> QED
      BY <1>1, <1>3, <2>2, <3>1
  <2> QED
    BY <2>1, <2>2
<1> QED
  BY <1>1, <1>2, <1>3, <1>4, <1>5 DEF IdentityInv, AttributesInv

LEMMA WrittenMap ==
  \A f \in MapNames :
    ToJson(Builder).attributes[f] =
      IF attributes[f] = <<>> THEN <<>> ELSE <<Dumped(attributes[f][1])>>
BY DEF ToJson, Builder, Dumped

LEMMA RestoreInv ==
  ASSUME BuilderInv, SaveAndRestore
  PROVE  BuilderInv'
<1> USE DEF BuilderInv
<1> DEFINE file == ToJson(Builder)
           from == FromJson(Fresh, file)
<1>1. identity' = from.identity /\ attributes' = from.attributes /\ said' = said
  BY DEF SaveAndRestore, Become
<1>2. Reached(file) = Names /\ ~Throws(file)
  BY OwnFile DEF IdentityInv, Builder, Throws
<1>3. file.identity = identity
  BY DEF ToJson, Builder
<1>4. identity' = [f \in Names |-> identity[f]]
  BY <1>1, <1>2, <1>3 DEF FromJson, IdentityInv
<1>5. /\ DOMAIN attributes' = MapNames
      /\ \A f \in MapNames : attributes'[f] =
           IF file.attributes[f] = <<>> THEN <<>>
           ELSE <<ReadMap(file.attributes[f][1])>>
  BY <1>1, <1>2 DEF FromJson, Fresh
<1>6. ASSUME NEW f \in MapNames, NEW s \in said[f], Arrives(s, attributes[f])
      PROVE  Arrives(s, attributes'[f])
  <2>1. CASE attributes[f] = <<>>
    BY <1>5, <1>6, <2>1, WrittenMap DEF Arrives
  <2>2. CASE attributes[f] # <<>>
    <3> DEFINE n == attributes[f][1]
    <3>1. file.attributes[f] = <<Dumped(n)>> /\ s # <<>> /\ MapArrives(s[1], n)
      BY <1>6, <2>2, WrittenMap DEF Arrives
    <3>2. attributes'[f] = <<ReadMap(Dumped(n))>>
      BY <1>5, <3>1
    <3>3. MapArrives(s[1], ReadMap(Dumped(n)))
      BY <3>1, RestoreArrives
    <3> QED
      BY <3>1, <3>2, <3>3 DEF Arrives
  <2> QED
    BY <2>1, <2>2
<1>7. AttributesInv'
  BY <1>1, <1>6 DEF AttributesInv
<1> QED
  BY <1>1, <1>4, <1>5, <1>7 DEF IdentityInv

-----------------------------------------------------------------------------
(* The core.                                                               *)

(* build() hands over what was said.                                       *)
LEMMA BuildInv ==
  ASSUME BuilderInv, Build
  PROVE  UserAsSaid' /\ AttributesAsSaid'
<1> USE DEF BuilderInv
<1>1. built' = <<[said |-> said, got |-> ToJson(Builder)]>>
  BY DEF Build
<1>2. ToJson(Builder).identity = identity
  BY DEF ToJson, Builder
<1>3. UserAsSaid'
  BY <1>1, <1>2 DEF UserAsSaid, IdentityInv
<1>4. ASSUME NEW f \in MapNames, NEW s \in said[f], Arrives(s, attributes[f])
      PROVE  Arrives(s, ToJson(Builder).attributes[f])
  <2>1. CASE attributes[f] = <<>>
    BY <1>4, <2>1, WrittenMap DEF Arrives
  <2>2. CASE attributes[f] # <<>>
    <3> DEFINE n == attributes[f][1]
    <3>1. /\ ToJson(Builder).attributes[f] = <<Dumped(n)>>
          /\ s # <<>> /\ MapArrives(s[1], n)
      BY <1>4, <2>2, WrittenMap DEF Arrives
    <3>2. MapArrives(s[1], Dumped(n))
      BY <3>1, WriteArrives
    <3> QED
      BY <3>1, <3>2 DEF Arrives
  <2> QED
    BY <2>1, <2>2
<1>5. AttributesAsSaid'
  BY <1>1, <1>4 DEF AttributesAsSaid, AttributesInv
<1> QED
  BY <1>3, <1>5

LEMMA UserStep == UserInv /\ [Next]_vars => UserInv'
<1> SUFFICES ASSUME UserInv, [Next]_vars PROVE UserInv'
  OBVIOUS
<1> USE DEF UserInv
<1>1. built' = <<>> => UserAsSaid' /\ AttributesAsSaid'
  BY DEF UserAsSaid, AttributesAsSaid
<1>2. ASSUME NEW f \in Names, NEW w \in Words \cup {"not_utf8"}, SetIdentity(f, w)
      PROVE  UserInv'
  BY <1>1, <1>2, SetIdentityInv DEF SetIdentity, Change
<1>3. ASSUME NEW f \in MapNames, NEW m, SetAttributes(f, m) PROVE UserInv'
  BY <1>1, <1>3, SetAttributesInv DEF SetAttributes, Change
<1>4. ASSUME NEW d, Load(d) PROVE UserInv'
  BY <1>1, <1>4, LoadInv DEF Load, Change
<1>5. CASE SaveAndRestore
  BY <1>1, <1>5, RestoreInv DEF SaveAndRestore
<1>6. CASE Build
  <2>1. BuilderInv'
    BY <1>6 DEF Build, BuilderInv, IdentityInv, AttributesInv
  <2> QED
    BY <1>6, <2>1, BuildInv
<1>7. CASE BuildFails \/ UNCHANGED vars
  BY <1>7 DEF BuildFails, vars, BuilderInv, IdentityInv, AttributesInv,
     UserAsSaid, AttributesAsSaid
<1> QED
  BY <1>2, <1>3, <1>4, <1>5, <1>6, <1>7 DEF Next

(* The invariant holds in every reachable state.                           *)
THEOREM UserInvariance == Spec => []UserInv
BY InitUser, UserStep, PTL DEF Spec

(* The core gets every identity field as it was said last.                 *)
THEOREM IdentityArrives == Spec => []UserAsSaid
<1>1. UserInv => UserAsSaid
  BY DEF UserInv
<1> QED
  BY <1>1, UserInvariance, PTL

(* The core gets every map of attributes as it was said last, less what    *)
(* has no type, however often the builder was written and read between.    *)
THEOREM AttributesArrive == Spec => []AttributesAsSaid
<1>1. UserInv => AttributesAsSaid
  BY DEF UserInv
<1> QED
  BY <1>1, UserInvariance, PTL

=============================================================================
