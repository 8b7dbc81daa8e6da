----------------------------- MODULE UserFormat -----------------------------
(***************************************************************************)
(* UserBuilder (user.h, user.cpp): how an application describes a user, by *)
(* setters and by reading JSON into the builder, and what build() hands to *)
(* the core.                                                               *)
(*                                                                         *)
(* An identity field (customIDs included) is a word, or "null" for         *)
(* std::nullopt; in JSON it may also be "missing", or "wrong": of a type   *)
(* that does not convert.  A map of attributes is optional: <<m>>, or <<>> *)
(* for std::nullopt and for any JSON that is not an object.  An attribute  *)
(* is a list of items or a single one, and an item has a kind and, if it   *)
(* is an integer, a number.                                                *)
(***************************************************************************)
EXTENDS Integers, Sequences, Functions

CONSTANTS
  Keys,      \* names of attributes
  Words,     \* values of identity fields
  IntLimit,  \* the first integer too large for an int64_t
  MaxSteps   \* bound: changes the application makes to a builder

ASSUME UserAssumption ==
  /\ IntLimit \in Nat \ {0} /\ MaxSteps \in Nat
  /\ Words \cap {"null", "missing", "wrong"} = {}

VARIABLES
  identity,   \* userID .. appVersion of the builder
  attributes, \* its custom and privateAttribute
  said,       \* history: what the application may expect each field to be
  built,      \* history: what the core got if build() came last, and said
  steps       \* changes made so far

vars == <<identity, attributes, said, built, steps>>

(* In the order from_json reads them.                                      *)
Identity == <<"userID", "customIDs", "email", "ip", "userAgent", "country",
              "locale", "appVersion">>
Names    == {Identity[i] : i \in DOMAIN Identity}
MapNames == {"custom", "privateAttributes"}

-----------------------------------------------------------------------------
(* Attributes.                                                             *)

Plain     == <<"plain", 0>> \* a string, a bool or a finite double
FileItems == {Plain, <<"int", 1>>, <<"int", IntLimit>>, <<"null", 0>>, <<"object", 0>>}
SetItems  == {Plain, <<"int", 1>>, <<"nan", 0>>, <<"not_utf8", 0>>}

AttributeValues(items) ==
  {[list |-> FALSE, items |-> <<x>>] : x \in items} \cup
  {[list |-> TRUE, items |-> <<Plain, x>>] : x \in items}

Maps(items) == UNION {[D -> AttributeValues(items)] : D \in SUBSET Keys}

(* get<int64_t>() keeps the low bits of an unsigned number.                *)
AsInt64(x) ==
  IF x[1] = "int" /\ x[2] >= IntLimit THEN <<"int", x[2] - 2 * IntLimit>> ELSE x

(* from_json of an attribute throws on any item that has no type.          *)
Readable(v) == \A i \in DOMAIN v.items : v.items[i][1] \notin {"null", "object"}

Read(v) == [list  |-> v.list,
            items |-> [i \in DOMAIN v.items |-> AsInt64(v.items[i])]]

(* Mutant: an attribute that does not convert ends the loop.               *)
ReadMap_AllOrNothing(m) ==
  IF \A k \in DOMAIN m : Readable(m[k])
    THEN [k \in DOMAIN m |-> Read(m[k])]
    ELSE [k \in {} |-> Plain]

ReadMap(m) == [k \in {j \in DOMAIN m : Readable(m[j])} |-> Read(m[k])]

(* dump() writes what is not a number as null.                             *)
Written(x) == IF x[1] = "nan" THEN <<"null", 0>> ELSE x

Dump(v) == [list  |-> v.list,
            items |-> [i \in DOMAIN v.items |-> Written(v.items[i])]]

-----------------------------------------------------------------------------
(* Files.                                                                  *)

Full(w) == [identity |-> [f \in Names |-> w],
            attributes |-> [f \in MapNames |->
              <<[k \in Keys |-> [list |-> FALSE, items |-> <<Plain>>]]>>]]

Empty == [identity |-> [f \in Names |-> "missing"],
          attributes |-> [f \in MapNames |-> <<>>]]

(* Nothing at all, or a full description that deviates in one field.       *)
Files ==
  {Empty} \cup {Full(w) : w \in Words} \cup
  {[Full(w) EXCEPT !.identity[f] = x] :
     w \in Words, f \in Names, x \in {"missing", "null", "wrong"}} \cup
  {[Full(w) EXCEPT !.attributes[f] = x] :
     w \in Words, f \in MapNames, x \in {<<>>} \cup {<<m>> : m \in Maps(FileItems)}}

(* The fields from_json comes to before one that throws.                   *)
Reached(d) ==
  {Identity[i] : i \in {j \in DOMAIN Identity :
                          \A h \in 1 .. j : d.identity[Identity[h]] # "wrong"}}

Throws(d) == Reached(d) # Names

(* Mutant: a field that is not in the file keeps its value.                *)
FromJson_KeepsMissing(b, d) ==
  [identity |-> [f \in Names |->
     IF f \notin Reached(d) \/ d.identity[f] \in {"missing", "null"}
       THEN b.identity[f] ELSE d.identity[f]],
   attributes |-> [f \in MapNames |->
     IF Throws(d) \/ d.attributes[f] = <<>> THEN b.attributes[f]
     ELSE <<ReadMap(d.attributes[f][1])>>]]

(* from_json into a builder that may have been used before.                *)
FromJson(b, d) ==
  [identity |-> [f \in Names |->
     IF f \notin Reached(d) THEN b.identity[f]
     ELSE IF d.identity[f] = "missing" THEN "null" ELSE d.identity[f]],
   attributes |-> [f \in MapNames |->
     IF Throws(d) \/ d.attributes[f] = <<>> THEN b.attributes[f]
     ELSE <<ReadMap(d.attributes[f][1])>>]]

(* to_json and dump, which throws on bytes that are not UTF-8.             *)
Writable(b) ==
  /\ \A f \in Names : b.identity[f] # "not_utf8"
  /\ \A f \in MapNames : \A m \in Range(b.attributes[f]) :
       \A v \in Range(m) : <<"not_utf8", 0>> \notin Range(v.items)

ToJson(b) ==
  [identity |-> b.identity,
   attributes |-> [f \in MapNames |->
     IF b.attributes[f] = <<>> THEN <<>>
     ELSE <<[k \in DOMAIN b.attributes[f][1] |-> Dump(b.attributes[f][1][k])]>>]]

-----------------------------------------------------------------------------
Builder == [identity |-> identity, attributes |-> attributes]
Fresh   == [identity |-> [f \in Names |-> "null"],
            attributes |-> [f \in MapNames |-> <<>>]]

Become(b) == identity' = b.identity /\ attributes' = b.attributes

Init ==
  /\ identity = Fresh.identity /\ attributes = Fresh.attributes
  /\ said = [f \in Names \cup MapNames |-> IF f \in Names THEN {"null"} ELSE {<<>>}]
  /\ built = <<>>
  /\ steps = 0

Change == steps < MaxSteps /\ steps' = steps + 1 /\ built' = <<>>

(* setUserID .. setAppVersion.                                             *)
SetIdentity(f, w) ==
  /\ Change
  /\ identity' = [identity EXCEPT ![f] = w]
  /\ said' = [said EXCEPT ![f] = {w}]
  /\ UNCHANGED attributes

(* setCustom and setPrivateAttribute.                                      *)
SetAttributes(f, m) ==
  /\ Change
  /\ attributes' = [attributes EXCEPT ![f] = <<m>>]
  /\ said' = [said EXCEPT ![f] = {<<m>>}]
  /\ UNCHANGED identity

(* The application reads a file into the builder.  If that throws, it      *)
(* cannot tell what the file changed; a file without a map of attributes   *)
(* says nothing about them.                                                *)
Load(d) ==
  /\ Change
  /\ Become(FromJson(Builder, d))
  /\ said' = [f \in DOMAIN said |->
       IF f \in MapNames /\ d.attributes[f] = <<>> THEN said[f]
       ELSE (IF Throws(d) THEN said[f] ELSE {}) \cup
            {IF f \in MapNames THEN d.attributes[f]
             ELSE IF d.identity[f] = "missing" THEN "null" ELSE d.identity[f]}]

(* The builder is written to a file and a new one read from it.            *)
SaveAndRestore ==
  /\ Writable(Builder)
  /\ Become(FromJson(Fresh, ToJson(Builder)))
  /\ built' = <<>>
  /\ UNCHANGED <<said, steps>>

Build ==
  /\ Writable(Builder)
  /\ built' = <<[said |-> said, got |-> ToJson(Builder)]>>
  /\ UNCHANGED <<identity, attributes, said, steps>>

(* build() on what dump cannot write: it throws before the core is called. *)
BuildFails ==
  /\ ~Writable(Builder)
  /\ UNCHANGED vars

Next ==
  \/ \E f \in Names, w \in Words \cup {"not_utf8"} : SetIdentity(f, w)
  \/ \E f \in MapNames, m \in Maps(SetItems) : SetAttributes(f, m)
  \/ \E d \in Files : Load(d)
  \/ SaveAndRestore
  \/ Build
  \/ BuildFails

Spec == Init /\ [][Next]_vars

-----------------------------------------------------------------------------
(* The core gets each identity field as it was said last, by a setter or   *)
(* by a file; nothing of an earlier user shows through a later one, and    *)
(* only a file whose reading threw may count in part (user.h:49).          *)
UserAsSaid ==
  built # <<>> =>
    \A f \in Names : built[1].got.identity[f] \in built[1].said[f]

ItemArrives(x, y) ==
  \/ x = y
  \/ x[1] = "nan" /\ y[1] = "null"
  \/ x[1] = "int" /\ x[2] >= IntLimit /\ y[1] = "int"

ValueArrives(v, w) ==
  /\ v.list = w.list
  /\ DOMAIN v.items = DOMAIN w.items
  /\ \A i \in DOMAIN v.items : ItemArrives(v.items[i], w.items[i])

HasNoType(v) == \E i \in DOMAIN v.items : v.items[i][1] \in {"null", "object", "nan"}

MapArrives(m, n) ==
  /\ DOMAIN n \subseteq DOMAIN m
  /\ \A k \in DOMAIN m : IF k \in DOMAIN n THEN ValueArrives(m[k], n[k])
                                           ELSE HasNoType(m[k])

(* m and n are optional.                                                   *)
Arrives(m, n) ==
  \/ m = <<>> /\ n = <<>>
  \/ m # <<>> /\ n # <<>> /\ MapArrives(m[1], n[1])

(* The core gets the custom and the private attributes last said, each     *)
(* where it was said: one without a type is dropped and takes no other     *)
(* with it, what is not a number may become null, and only an integer that *)
(* has no int64_t changes (user.h:60, user.h:74, types.h:219).             *)
AttributesAsSaid ==
  built # <<>> =>
    \A f \in MapNames : \E s \in built[1].said[f] :
      Arrives(s, built[1].got.attributes[f])

=============================================================================
