---------------------------- MODULE HashTabProofs ----------------------------
(***************************************************************************)
(* For all keys, values, hash functions and sizes, as long as deletions    *)
(* are harmless: the probe chains of a table are unbroken, its count is    *)
(* exact, and it is a map.                                                 *)
(***************************************************************************)
EXTENDS HashTabProperties, FiniteSetTheorems, TLAPS

-----------------------------------------------------------------------------
(***************************************************************************)
(* Slots: arithmetic of probing.                                           *)
(***************************************************************************)

LEMMA HomeInside ==
  ASSUME hash \in Hashes, NEW k \in Key, NEW s \in Nat \ {0}
  PROVE  Home(k, s) \in 0 .. s - 1
<1>1. hash[k] \in Nat
  BY HashesAssumption
<1> QED
  BY <1>1 DEF Home

LEMMA AfterInside ==
  ASSUME NEW s \in Nat \ {0}, NEW i \in 0 .. s - 1
  PROVE  /\ After(i, s) = IF i + 1 = s THEN 0 ELSE i + 1
         /\ After(i, s) \in 0 .. s - 1
<1>1. CASE i + 1 = s
  BY <1>1 DEF After
<1>2. CASE i + 1 # s
  BY <1>2 DEF After
<1> QED
  BY <1>1, <1>2

\* A probe passes slots of the table, and not the one it stands at.
LEMMA PassedInside ==
  ASSUME NEW s \in Nat \ {0}, NEW a \in 0 .. s - 1, NEW b \in 0 .. s - 1
  PROVE  /\ Passed(a, b, s) \subseteq 0 .. s - 1
         /\ b \notin Passed(a, b, s)
         /\ Passed(a, a, s) = {}
BY DEF Passed

LEMMA PassedAfter ==
  ASSUME NEW s \in Nat \ {0}, NEW a \in 0 .. s - 1, NEW b \in 0 .. s - 1
  PROVE  Passed(a, After(b, s), s) \subseteq Passed(a, b, s) \cup {b}
<1>1. CASE b + 1 = s
  BY <1>1, AfterInside DEF Passed
<1>2. CASE b + 1 # s
  BY <1>2, AfterInside DEF Passed
<1> QED
  BY <1>1, <1>2

\* Of two slots, a probe that may reach both passes one before the other.
LEMMA PassedOrder ==
  ASSUME NEW s \in Nat \ {0}, NEW a \in 0 .. s - 1, NEW i \in 0 .. s - 1,
         NEW j \in 0 .. s - 1, i # j
  PROVE  i \in Passed(a, j, s) \/ j \in Passed(a, i, s)
BY DEF Passed

-----------------------------------------------------------------------------
(***************************************************************************)
(* Tables.                                                                 *)
(***************************************************************************)

LEMMA EntryIsNotNull ==
  ASSUME NEW e \in Entry
  PROVE  e # Null /\ e.key \in Key /\ e.value \in Value /\ e.value # Null
BY NullAssumption DEF Entry

LEMMA SlotType ==
  ASSUME NEW s \in Nat \ {0}, NEW t \in Table(s), NEW i \in 0 .. s - 1
  PROVE  /\ DOMAIN t = 0 .. s - 1
         /\ t[i] # Null => t[i] \in Entry
BY DEF Table

LEMMA ReachesHome ==
  ASSUME hash \in Hashes, NEW s \in Nat \ {0}, NEW t, NEW k \in Key
  PROVE  Reaches(t, s, k, Home(k, s))
BY HomeInside, PassedInside DEF Reaches

LEMMA ReachesAfter ==
  ASSUME hash \in Hashes, NEW s \in Nat \ {0}, NEW t, NEW k \in Key,
         NEW b \in 0 .. s - 1, Reaches(t, s, k, b), t[b] # Null, t[b].key # k
  PROVE  Reaches(t, s, k, After(b, s))
<1>1. Passed(Home(k, s), After(b, s), s) \subseteq
        Passed(Home(k, s), b, s) \cup {b}
  BY HomeInside, PassedAfter
<1> QED
  BY <1>1 DEF Reaches

\* In an unbroken table a key is in one slot.
LEMMA KeysAreUnique ==
  ASSUME hash \in Hashes, NEW s \in Nat \ {0}, NEW t \in Table(s),
         Unbroken(t, s), NEW i \in 0 .. s - 1, NEW j \in 0 .. s - 1,
         t[i] # Null, t[j] # Null, t[i].key = t[j].key
  PROVE  i = j
<1>1. SUFFICES ASSUME i # j PROVE FALSE
  OBVIOUS
<1>2. /\ t[i] \in Entry /\ t[j] \in Entry
      /\ i \in Occupied(t) /\ j \in Occupied(t)
  BY SlotType DEF Occupied
<1>3. Reaches(t, s, t[i].key, i) /\ Reaches(t, s, t[i].key, j)
  BY <1>2 DEF Unbroken
<1>4. Home(t[i].key, s) \in 0 .. s - 1
  BY <1>2, EntryIsNotNull, HomeInside
<1>5. \/ i \in Passed(Home(t[i].key, s), j, s)
      \/ j \in Passed(Home(t[i].key, s), i, s)
  BY <1>1, <1>4, PassedOrder
<1> QED
  BY <1>3, <1>5 DEF Reaches

\* A probe that meets a free slot has looked everywhere the key could be.
LEMMA MissIsTrue ==
  ASSUME hash \in Hashes, NEW s \in Nat \ {0}, NEW t \in Table(s),
         Unbroken(t, s), NEW k \in Key, NEW b \in 0 .. s - 1,
         Reaches(t, s, k, b), t[b] = Null, NEW i \in 0 .. s - 1, t[i] # Null
  PROVE  t[i].key # k
<1>1. SUFFICES ASSUME t[i].key = k PROVE FALSE
  OBVIOUS
<1>2. i \in Occupied(t) /\ i # b
  BY SlotType DEF Occupied
<1>3. Reaches(t, s, k, i)
  BY <1>1, <1>2 DEF Unbroken
<1>4. i \in Passed(Home(k, s), b, s) \/ b \in Passed(Home(k, s), i, s)
  BY <1>2, HomeInside, PassedOrder
<1> QED
  BY <1>1, <1>3, <1>4 DEF Reaches

\* ht_set keeps the chains: it fills a free slot behind the chain of the key,
\* or overwrites the entry of the key.
LEMMA PutKeepsChains ==
  ASSUME hash \in Hashes, NEW s \in Nat \ {0}, NEW t \in Table(s),
         Unbroken(t, s), NEW e \in Entry, NEW b \in 0 .. s - 1,
         Reaches(t, s, e.key, b), t[b] = Null \/ t[b].key = e.key
  PROVE  LET u == [t EXCEPT ![b] = e]
         IN  u \in Table(s) /\ Unbroken(u, s)
<1> DEFINE u == [t EXCEPT ![b] = e]
<1>1. u \in Table(s) /\ DOMAIN u = 0 .. s - 1 /\ DOMAIN t = 0 .. s - 1
  BY DEF Table
<1>2. u[b] = e /\ e # Null /\ e.key \in Key
  BY <1>1, EntryIsNotNull
<1>3. ASSUME NEW i \in Occupied(u), NEW j \in Passed(Home(u[i].key, s), i, s)
      PROVE  u[j] # Null /\ u[j].key # u[i].key
  <2>1. i \in 0 .. s - 1 /\ u[i] # Null /\ u[i] \in Entry
    BY <1>1, SlotType DEF Occupied
  <2>2. u[i].key \in Key /\ Home(u[i].key, s) \in 0 .. s - 1
    BY <2>1, EntryIsNotNull, HomeInside
  <2>3. j \in 0 .. s - 1 /\ j # i
    BY <2>1, <2>2, PassedInside
  <2>4. CASE i = b
    <3>1. t[j] # Null /\ t[j].key # e.key
      BY <2>4, <1>2 DEF Reaches
    <3> QED
      BY <3>1, <2>3, <2>4, <1>1, <1>2
  <2>5. CASE i # b
    <3>1. u[i] = t[i] /\ i \in Occupied(t)
      BY <2>1, <2>5, <1>1 DEF Occupied
    <3>2. t[j] # Null /\ t[j].key # t[i].key
      BY <3>1 DEF Unbroken, Reaches
    <3>3. CASE j = b
      BY <3>1, <3>2, <3>3, <1>2
    <3>4. CASE j # b
      BY <3>1, <3>2, <3>4, <2>3, <1>1
    <3> QED
      BY <3>3, <3>4
  <2> QED
    BY <2>4, <2>5
<1>4. Unbroken(u, s)
  BY <1>3 DEF Unbroken, Reaches
<1> QED
  BY <1>1, <1>4

\* ht_delete keeps the chains if no other chain passes the slot.
LEMMA RemoveKeepsChains ==
  ASSUME hash \in Hashes, NEW s \in Nat \ {0}, NEW t \in Table(s),
         Unbroken(t, s), NEW b \in Occupied(t),
         \A j \in Occupied(t) : b \notin Passed(Home(t[j].key, s), j, s)
  PROVE  LET u == [t EXCEPT ![b] = Null]
         IN  u \in Table(s) /\ Unbroken(u, s)
<1> DEFINE u == [t EXCEPT ![b] = Null]
<1>1. b \in 0 .. s - 1 /\ DOMAIN t = 0 .. s - 1
  BY DEF Table, Occupied
<1>2. u \in Table(s) /\ DOMAIN u = 0 .. s - 1 /\ u[b] = Null
  BY <1>1 DEF Table
<1>3. ASSUME NEW i \in Occupied(u), NEW j \in Passed(Home(u[i].key, s), i, s)
      PROVE  u[j] # Null /\ u[j].key # u[i].key
  <2>1. i \in 0 .. s - 1 /\ i # b /\ u[i] = t[i] /\ i \in Occupied(t)
    BY <1>1, <1>2 DEF Occupied
  <2>2. j # b /\ t[j] # Null /\ t[j].key # t[i].key
    BY <2>1 DEF Unbroken, Reaches
  <2>3. t[i] \in Entry
    BY <2>1, SlotType DEF Occupied
  <2>4. j \in 0 .. s - 1
    BY <2>1, <2>3, EntryIsNotNull, HomeInside, PassedInside
  <2> QED
    BY <2>1, <2>2, <2>4, <1>1
<1>4. Unbroken(u, s)
  BY <1>3 DEF Unbroken, Reaches
<1> QED
  BY <1>2, <1>4

\* The number of entries.
LEMMA OccupiedIsFinite ==
  ASSUME NEW s \in Nat \ {0}, NEW t \in Table(s)
  PROVE  IsFiniteSet(Occupied(t)) /\ Cardinality(Occupied(t)) \in Nat
<1>1. Occupied(t) \in SUBSET (0 .. s - 1)
  BY DEF Table, Occupied
<1>2. IsFiniteSet(0 .. s - 1)
  BY FS_Interval
<1> QED
  BY <1>1, <1>2, FS_Subset, FS_CardinalityType

LEMMA PutCounts ==
  ASSUME NEW s \in Nat \ {0}, NEW t \in Table(s), NEW e \in Entry,
         NEW b \in 0 .. s - 1
  PROVE  Cardinality(Occupied([t EXCEPT ![b] = e])) =
           IF t[b] = Null THEN Cardinality(Occupied(t)) + 1
           ELSE Cardinality(Occupied(t))
<1>1. Occupied([t EXCEPT ![b] = e]) = Occupied(t) \cup {b}
  BY EntryIsNotNull DEF Table, Occupied
<1>2. b \in Occupied(t) <=> t[b] # Null
  BY DEF Table, Occupied
<1> QED
  BY <1>1, <1>2, OccupiedIsFinite, FS_AddElement

LEMMA RemoveCounts ==
  ASSUME NEW s \in Nat \ {0}, NEW t \in Table(s), NEW b \in Occupied(t)
  PROVE  /\ Cardinality(Occupied([t EXCEPT ![b] = Null])) =
              Cardinality(Occupied(t)) - 1
         /\ Cardinality(Occupied(t)) > 0
<1>1. Occupied([t EXCEPT ![b] = Null]) = Occupied(t) \ {b}
  BY DEF Table, Occupied
<1>2. IsFiniteSet(Occupied(t)) /\ Cardinality(Occupied(t)) \in Nat
  BY OccupiedIsFinite
<1>3. Cardinality(Occupied(t)) # 0
  BY <1>2, FS_EmptySet
<1>4. Cardinality(Occupied(t) \ {b}) = Cardinality(Occupied(t)) - 1
  BY <1>2, FS_RemoveElement
<1>5. Cardinality(Occupied(t)) > 0
  BY <1>2, <1>3
<1> QED
  BY <1>1, <1>4, <1>5

LEMMA EmptyTable ==
  ASSUME NEW s \in Nat
  PROVE  /\ Empty(s) \in Table(s)
         /\ Occupied(Empty(s)) = {}
         /\ Unbroken(Empty(s), s)
         /\ Cardinality(Occupied(Empty(s))) = 0
<1>1. Empty(s) \in Table(s) /\ Occupied(Empty(s)) = {}
  BY DEF Empty, Table, Occupied
<1> QED
  BY <1>1, FS_EmptySet DEF Unbroken

-----------------------------------------------------------------------------
(***************************************************************************)
(* The inductive invariant: what is checked, the way every probe has come, *)
(* and what ht_expand has moved so far.                                    *)
(***************************************************************************)
Probing ==
  /\ pc \in {"set", "lookup", "delete"} => Reaches(items, size, call.key, ind)
  /\ pc = "rehash" => Reaches(fresh, NewSize, items[pos].key, ind)
  /\ pc = "delete" => Harmless(call.key)

Moved ==
  pc \in Growth =>
    /\ \A i \in 0 .. pos - 1 :
         items[i] # Null => \E j \in 0 .. NewSize - 1 : fresh[j] = items[i]
    /\ \A j \in 0 .. NewSize - 1 :
         fresh[j] # Null => \E i \in 0 .. pos - 1 : items[i] = fresh[j]

IInv == TypeOK /\ ChainsUnbroken /\ CountsEntries /\ Probing /\ Moved

LEMMA CallTypes ==
  ASSUME TypeOK
  PROVE  /\ pc # "idle" => call \in Map!Call /\ call.key \in Key
         /\ pc \in {"insert", "set", "expand", "rehash"} =>
              call.value \in Value
BY DEF TypeOK, Map!Call, Map!NoCall

LEMMA SizeTypes ==
  ASSUME TypeOK
  PROVE  /\ size \in Nat \ {0}
         /\ NewSize \in Nat /\ NewSize <= SizeMax
         /\ pc \in Growth => NewSize \in Nat \ {0}
<1>1. size \in 1 .. SizeMax /\ SizeMax \in Nat
  BY SizeMaxAssumption DEF TypeOK
<1>2. NewSize \in 0 .. SizeMax
  BY <1>1 DEF NewSize
<1>3. pc \in Growth => NewSize >= size
  BY DEF TypeOK
<1> QED
  BY <1>1, <1>2, <1>3

LEMMA InitInvariant == Init => IInv
<1> SUFFICES ASSUME Init PROVE IInv
  OBVIOUS
<1>1. size \in 1 .. SizeMax /\ size \in Nat \ {0}
  BY SizesAssumption, SizeMaxAssumption DEF Init
<1>2. TypeOK
  BY <1>1, EmptyTable DEF Init, TypeOK, Function, Growth, Map!NoCall
<1>3. ChainsUnbroken /\ CountsEntries
  BY <1>1, EmptyTable DEF Init, ChainsUnbroken, CountsEntries, Counted, Growth
<1>4. Probing /\ Moved
  BY DEF Init, Probing, Moved, Growth
<1> QED
  BY <1>2, <1>3, <1>4 DEF IInv

-----------------------------------------------------------------------------
(***************************************************************************)
(* One lemma per action.                                                   *)
(***************************************************************************)
LEMMA StartStep ==
  ASSUME IInv, NEW f \in {"insert", "set", "lookup", "delete"},
         NEW c \in Map!Call, Start(f, c),
         f = "set" \/ f = "insert" => c.op = "insert",
         f = "lookup" \/ f = "delete" => c.op = f,
         f = "delete" => Harmless(c.key)
  PROVE  IInv'
<1>1. size \in Nat \ {0} /\ hash \in Hashes /\ hash' = hash
  BY SizeTypes DEF IInv, TypeOK, Start
<1>2. c.key \in Key /\ c # Map!NoCall
  BY DEF Map!Call, Map!NoCall
<1>3. ind' \in 0 .. size - 1 /\ Reaches(items, size, c.key, ind')
  BY <1>1, <1>2, HomeInside, ReachesHome DEF Start
<1>4. TypeOK'
  BY <1>1, <1>2, <1>3
  DEF IInv, TypeOK, Start, Function, Growth, tableVars, growVars, NewSize
<1>5. ChainsUnbroken' /\ CountsEntries' /\ Moved'
  BY DEF IInv, ChainsUnbroken, CountsEntries, Counted, Moved, Start, Growth,
         tableVars, growVars, Unbroken, Reaches, Home
<1>6. Probing'
  BY <1>3 DEF Probing, Start, Reaches, Home, Harmless, tableVars
<1> QED
  BY <1>4, <1>5, <1>6 DEF IInv

LEMMA CallSteps ==
  ASSUME IInv, NEW k \in Key
  PROVE  /\ \A v \in Value : Insert(k, v) => IInv'
         /\ Lookup(k) => IInv'
         /\ Harmless(k) /\ Delete(k) => IInv'
<1>1. ASSUME NEW v \in Value, Insert(k, v) PROVE IInv'
  <2> DEFINE c == [op |-> "insert", key |-> k, value |-> v]
             f == IF Crowded THEN "insert" ELSE "set"
  <2>1. c \in Map!Call /\ c.op = "insert" /\ f \in {"insert", "set"}
    BY DEF Map!Call
  <2>2. Start(f, c)
    BY <1>1 DEF Insert
  <2> HIDE DEF c, f
  <2> QED
    BY <2>1, <2>2, StartStep
<1>2. ASSUME Lookup(k) PROVE IInv'
  <2> DEFINE c == [op |-> "lookup", key |-> k]
  <2>1. c \in Map!Call /\ c.op = "lookup"
    BY DEF Map!Call
  <2>2. Start("lookup", c)
    BY <1>2 DEF Lookup
  <2> HIDE DEF c
  <2> QED
    BY <2>1, <2>2, StartStep
<1>3. ASSUME Harmless(k), Delete(k) PROVE IInv'
  <2> DEFINE c == [op |-> "delete", key |-> k]
  <2>1. c \in Map!Call /\ c.op = "delete" /\ c.key = k
    BY DEF Map!Call
  <2>2. Start("delete", c)
    BY <1>3 DEF Delete
  <2> HIDE DEF c
  <2> QED
    BY <1>3, <2>1, <2>2, StartStep
<1> QED
  BY <1>1, <1>2, <1>3

LEMMA ProbeStep ==
  ASSUME IInv, Probe PROVE IInv'
<1>1. /\ size \in Nat \ {0} /\ hash \in Hashes /\ hash' = hash
      /\ ind \in 0 .. size - 1 /\ call.key \in Key
  BY SizeTypes, CallTypes DEF IInv, TypeOK, Probe
<1>2. ind' \in 0 .. size - 1 /\ Reaches(items, size, call.key, ind')
  BY <1>1, AfterInside, ReachesAfter DEF IInv, Probing, Probe, Collides
<1>3. TypeOK'
  BY <1>2 DEF IInv, TypeOK, Probe, Growth, tableVars, growVars, NewSize
<1>4. ChainsUnbroken' /\ CountsEntries' /\ Moved'
  BY DEF IInv, ChainsUnbroken, CountsEntries, Counted, Moved, Probe, Growth,
         tableVars, growVars, Unbroken, Reaches, Home
<1>5. Probing'
  BY <1>2 DEF IInv, Probing, Probe, Reaches, Home, Harmless, tableVars
<1> QED
  BY <1>3, <1>4, <1>5 DEF IInv

\* A step that answers the call and leaves the table alone.
LEMMA AnswerStep ==
  ASSUME IInv, NEW r \in Value \cup {Null, Map!Deleted}, pc \notin Growth,
         Return(r), UNCHANGED <<hash, tableVars, growVars>>
  PROVE  IInv'
<1>1. TypeOK'
  BY DEF IInv, TypeOK, Return, Growth, Function, tableVars, growVars, NewSize
<1>2. ChainsUnbroken' /\ CountsEntries' /\ Moved'
  BY DEF IInv, ChainsUnbroken, CountsEntries, Counted, Moved, Return, Growth,
         tableVars, growVars, Unbroken, Reaches, Home
<1>3. Probing'
  BY DEF Probing, Return
<1> QED
  BY <1>1, <1>2, <1>3 DEF IInv

LEMMA LookupEndStep ==
  ASSUME IInv, LookupEnd PROVE IInv'
<1>1. ind \in 0 .. size - 1 /\ items \in Table(size) /\ size \in Nat \ {0}
  BY SizeTypes DEF IInv, TypeOK, LookupEnd
<1> DEFINE r == IF items[ind] = Null THEN Null ELSE items[ind].value
<1>2. r \in Value \cup {Null, Map!Deleted}
  BY <1>1, SlotType, EntryIsNotNull
<1>3. Return(r) /\ pc \notin Growth /\ UNCHANGED <<hash, tableVars, growVars>>
  BY DEF LookupEnd, Growth
<1> HIDE DEF r
<1> QED
  BY <1>2, <1>3, AnswerStep

LEMMA DeleteMissStep ==
  ASSUME IInv, DeleteMiss PROVE IInv'
BY AnswerStep DEF DeleteMiss, Growth

LEMMA ExpandFailsStep ==
  ASSUME IInv, ExpandFails PROVE IInv'
BY AnswerStep DEF ExpandFails, Growth

LEMMA SetStep ==
  ASSUME IInv, Set PROVE IInv'
<1> DEFINE e == [key |-> call.key, value |-> call.value]
<1>1. /\ size \in Nat \ {0} /\ hash \in Hashes /\ hash' = hash
      /\ items \in Table(size) /\ ind \in 0 .. size - 1 /\ n \in Nat
      /\ call.value \in Value /\ e \in Entry /\ e.key = call.key
      /\ pc \notin Growth
  BY SizeTypes, CallTypes DEF IInv, TypeOK, Set, Entry, Growth
<1>2. items' = [items EXCEPT ![ind] = e] /\ size' = size
  BY DEF Set, Put
<1>3. Reaches(items, size, e.key, ind) /\ Unbroken(items, size)
  BY <1>1 DEF IInv, Probing, ChainsUnbroken, Set
<1>4. items[ind] = Null \/ items[ind].key = e.key
  BY <1>1 DEF Set, Collides
<1>5. items' \in Table(size) /\ Unbroken(items', size)
  <2> HIDE DEF e
  <2> QED
    BY <1>1, <1>2, <1>3, <1>4, PutKeepsChains
<1>6. Cardinality(Occupied(items')) =
        IF items[ind] = Null THEN Cardinality(Occupied(items)) + 1
        ELSE Cardinality(Occupied(items))
  <2> HIDE DEF e
  <2>1. Cardinality(Occupied([items EXCEPT ![ind] = e])) =
          IF items[ind] = Null THEN Cardinality(Occupied(items)) + 1
          ELSE Cardinality(Occupied(items))
    BY <1>1, PutCounts
  <2> QED
    BY <1>2, <2>1, Zenon
<1>7. n' = Cardinality(Occupied(items')) /\ n' \in Nat
  BY <1>1, <1>6 DEF IInv, CountsEntries, Counted, Set, Count
<1>8. TypeOK'
  BY <1>1, <1>2, <1>5, <1>7
  DEF IInv, TypeOK, Set, Return, Growth, Function, growVars, NewSize
<1>9. ChainsUnbroken' /\ CountsEntries' /\ Moved' /\ Probing'
  BY <1>1, <1>2, <1>5, <1>7
  DEF ChainsUnbroken, CountsEntries, Counted, Moved, Probing, Set, Return,
      Growth, Unbroken, Reaches, Home
<1> QED
  BY <1>8, <1>9 DEF IInv

LEMMA DeleteHitStep ==
  ASSUME IInv, DeleteHit PROVE IInv'
<1>1. /\ size \in Nat \ {0} /\ hash \in Hashes /\ hash' = hash
      /\ items \in Table(size) /\ ind \in 0 .. size - 1 /\ n \in Nat
      /\ pc \notin Growth /\ pc = "delete"
  BY SizeTypes DEF IInv, TypeOK, DeleteHit, Growth
<1>2. items' = [items EXCEPT ![ind] = Null] /\ size' = size
  BY DEF DeleteHit
<1>3. ind \in Occupied(items)
  BY <1>1 DEF DeleteHit, Hits, Occupied, Table
<1>4. \A j \in Occupied(items) :
        ind \notin Passed(Home(items[j].key, size), j, size)
  BY <1>1, <1>3 DEF IInv, Probing, Harmless, DeleteHit, Hits
<1>5. items' \in Table(size) /\ Unbroken(items', size)
  BY <1>1, <1>2, <1>3, <1>4, RemoveKeepsChains DEF IInv, ChainsUnbroken
<1>6. n = Cardinality(Occupied(items)) /\ n > 0
      /\ Cardinality(Occupied(items')) = n - 1
  BY <1>1, <1>2, <1>3, RemoveCounts DEF IInv, CountsEntries, Counted
<1>7. n' = Cardinality(Occupied(items')) /\ n' \in Nat
  BY <1>1, <1>6 DEF DeleteHit
<1>8. TypeOK'
  BY <1>1, <1>2, <1>5, <1>7
  DEF IInv, TypeOK, DeleteHit, Return, Growth, Function, growVars, NewSize
<1>9. ChainsUnbroken' /\ CountsEntries' /\ Moved' /\ Probing'
  BY <1>1, <1>2, <1>5, <1>7
  DEF ChainsUnbroken, CountsEntries, Counted, Moved, Probing, DeleteHit,
      Return, Growth, Unbroken, Reaches, Home
<1> QED
  BY <1>8, <1>9 DEF IInv

LEMMA ExpandStep ==
  ASSUME IInv, Expand PROVE IInv'
<1>1. /\ size \in Nat \ {0} /\ NewSize \in Nat \ {0} /\ hash' = hash
      /\ NewSize' = NewSize
  BY SizeTypes DEF IInv, TypeOK, Expand, NewSize
<1>2. /\ fresh' \in Table(NewSize) /\ Occupied(fresh') = {}
      /\ Unbroken(fresh', NewSize) /\ Cardinality(Occupied(fresh')) = 0
  BY <1>1, EmptyTable DEF Expand
<1>3. TypeOK'
  BY <1>1, <1>2 DEF IInv, TypeOK, Expand, Growth, Function
<1>4. ChainsUnbroken' /\ CountsEntries'
  BY <1>1, <1>2 DEF IInv, ChainsUnbroken, CountsEntries, Counted, Expand,
                    Growth, Unbroken, Reaches, Home
<1>5. Moved' /\ Probing'
  BY <1>1 DEF Moved, Probing, Expand, Growth, Empty
<1> QED
  BY <1>3, <1>4, <1>5 DEF IInv

LEMMA SkipFreeStep ==
  ASSUME IInv, SkipFree PROVE IInv'
<1>1. /\ size \in Nat \ {0} /\ NewSize \in Nat \ {0} /\ hash' = hash
      /\ NewSize' = NewSize /\ pos \in 0 .. size
  BY SizeTypes DEF IInv, TypeOK, SkipFree, NewSize, tableVars, Growth
<1>2. TypeOK'
  BY <1>1 DEF IInv, TypeOK, SkipFree, Growth, tableVars
<1>3. ChainsUnbroken' /\ CountsEntries'
  BY <1>1 DEF IInv, ChainsUnbroken, CountsEntries, Counted, SkipFree,
              Growth, Unbroken, Reaches, Home, tableVars
<1>4. \A i : i \in 0 .. pos' - 1 <=> i \in 0 .. pos - 1 \/ i = pos
  BY <1>1 DEF SkipFree
<1>5. Moved' /\ Probing'
  BY <1>1, <1>4 DEF IInv, Moved, Probing, SkipFree, Growth, tableVars
<1> QED
  BY <1>2, <1>3, <1>5 DEF IInv

LEMMA RehashStep ==
  ASSUME IInv, Rehash PROVE IInv'
<1>1. /\ size \in Nat \ {0} /\ NewSize \in Nat \ {0} /\ hash' = hash
      /\ hash \in Hashes /\ NewSize' = NewSize /\ items[pos].key \in Key
  BY SizeTypes, SlotType, EntryIsNotNull
  DEF IInv, TypeOK, Rehash, NewSize, tableVars, Growth
<1>2. /\ ind' \in 0 .. NewSize - 1
      /\ Reaches(fresh, NewSize, items[pos].key, ind')
  BY <1>1, HomeInside, ReachesHome DEF Rehash
<1>3. TypeOK'
  BY <1>1, <1>2 DEF IInv, TypeOK, Rehash, Growth, Function, tableVars, growVars
<1>4. ChainsUnbroken' /\ CountsEntries'
  BY <1>1 DEF IInv, ChainsUnbroken, CountsEntries, Counted, Rehash,
              Growth, Unbroken, Reaches, Home, tableVars, growVars
<1>5. Moved'
  BY <1>1 DEF IInv, Moved, Rehash, Growth, tableVars, growVars
<1>6. Probing'
  BY <1>1, <1>2 DEF Probing, Rehash, Reaches, Home, tableVars, growVars
<1> QED
  BY <1>3, <1>4, <1>5, <1>6 DEF IInv

LEMMA RehashProbeStep ==
  ASSUME IInv, RehashProbe PROVE IInv'
<1>1. /\ size \in Nat \ {0} /\ NewSize \in Nat \ {0} /\ hash' = hash
      /\ hash \in Hashes /\ NewSize' = NewSize /\ items[pos].key \in Key
      /\ ind \in 0 .. NewSize - 1
  BY SizeTypes, SlotType, EntryIsNotNull
  DEF IInv, TypeOK, RehashProbe, NewSize, tableVars, Growth
<1>2. /\ ind' \in 0 .. NewSize - 1
      /\ Reaches(fresh, NewSize, items[pos].key, ind')
  BY <1>1, AfterInside, ReachesAfter
  DEF IInv, Probing, RehashProbe, Collides
<1>3. TypeOK'
  BY <1>1, <1>2 DEF IInv, TypeOK, RehashProbe, Growth, tableVars, growVars
<1>4. ChainsUnbroken' /\ CountsEntries'
  BY <1>1 DEF IInv, ChainsUnbroken, CountsEntries, Counted, RehashProbe,
              Growth, Unbroken, Reaches, Home, tableVars, growVars
<1>5. Moved'
  BY <1>1 DEF IInv, Moved, RehashProbe, Growth, tableVars, growVars
<1>6. Probing'
  BY <1>1, <1>2 DEF Probing, RehashProbe, Reaches, Home, tableVars, growVars
<1> QED
  BY <1>3, <1>4, <1>5, <1>6 DEF IInv

\* The entry that ht_expand moves next is not in the new table yet.
LEMMA NotMovedYet ==
  ASSUME IInv, pc = "rehash", ~Collides(fresh, items[pos].key)
  PROVE  fresh[ind] = Null
<1>1. /\ size \in Nat \ {0} /\ NewSize \in Nat \ {0} /\ hash \in Hashes
      /\ items \in Table(size) /\ Unbroken(items, size)
      /\ ind \in 0 .. NewSize - 1 /\ pos \in 0 .. size - 1
      /\ items[pos] # Null
  BY SizeTypes DEF IInv, TypeOK, ChainsUnbroken, Growth
<1>2. SUFFICES ASSUME fresh[ind] # Null PROVE FALSE
  OBVIOUS
<1>3. PICK i \in 0 .. pos - 1 : items[i] = fresh[ind]
  BY <1>1, <1>2 DEF IInv, Moved, Growth
<1>4. i \in 0 .. size - 1 /\ i # pos
  BY <1>1
<1>5. items[i] # Null /\ items[i].key = items[pos].key
  BY <1>2, <1>3 DEF Collides
<1> QED
  BY <1>1, <1>4, <1>5, KeysAreUnique

LEMMA RehashSetStep ==
  ASSUME IInv, RehashSet PROVE IInv'
<1> DEFINE e == items[pos]
<1>1. /\ size \in Nat \ {0} /\ NewSize \in Nat \ {0} /\ hash \in Hashes
      /\ hash' = hash /\ NewSize' = NewSize /\ fresh \in Table(NewSize)
      /\ ind \in 0 .. NewSize - 1 /\ pos \in 0 .. size - 1 /\ n \in Nat
      /\ items \in Table(size) /\ items[pos] # Null
  BY SizeTypes DEF IInv, TypeOK, RehashSet, Growth, NewSize
<1>2. e \in Entry
  BY <1>1, SlotType
<1>3. fresh' = [fresh EXCEPT ![ind] = e]
  BY DEF RehashSet, Put
<1>4. fresh[ind] = Null
  BY NotMovedYet DEF RehashSet
<1>5. Reaches(fresh, NewSize, e.key, ind) /\ Unbroken(fresh, NewSize)
  BY DEF IInv, Probing, ChainsUnbroken, RehashSet, Growth
<1>6. fresh' \in Table(NewSize) /\ Unbroken(fresh', NewSize)
  <2> HIDE DEF e
  <2> QED
    BY <1>1, <1>2, <1>3, <1>4, <1>5, PutKeepsChains
<1>7. Cardinality(Occupied(fresh')) = Cardinality(Occupied(fresh)) + 1
  <2> HIDE DEF e
  <2>1. Cardinality(Occupied([fresh EXCEPT ![ind] = e])) =
          Cardinality(Occupied(fresh)) + 1
    BY <1>1, <1>2, <1>4, PutCounts
  <2> QED
    BY <1>3, <2>1, Zenon
<1>8. n' = Cardinality(Occupied(fresh')) /\ n' \in Nat
  BY <1>1, <1>4, <1>7
  DEF IInv, CountsEntries, Counted, RehashSet, Count, Growth
<1>9. TypeOK'
  BY <1>1, <1>6, <1>8 DEF IInv, TypeOK, RehashSet, Growth, Function
<1>10. ChainsUnbroken' /\ CountsEntries'
  BY <1>1, <1>6, <1>8
  DEF IInv, ChainsUnbroken, CountsEntries, Counted, RehashSet, Growth,
      Unbroken, Reaches, Home
<1>11. DOMAIN fresh = 0 .. NewSize - 1
  BY <1>1, SlotType
<1>12. ASSUME NEW i \in 0 .. pos, items[i] # Null
       PROVE  \E j \in 0 .. NewSize - 1 : fresh'[j] = items[i]
  <2>1. CASE i = pos
    BY <1>1, <1>3, <1>11, <2>1
  <2>2. CASE i # pos
    <3>1. i \in 0 .. pos - 1
      BY <1>1, <2>2
    <3>2. PICK j \in 0 .. NewSize - 1 : fresh[j] = items[i]
      BY <1>12, <3>1 DEF IInv, Moved, RehashSet, Growth
    <3>3. j # ind
      BY <1>4, <1>12, <3>2
    <3> QED
      BY <1>3, <1>11, <3>2, <3>3
  <2> QED
    BY <2>1, <2>2
<1>13. ASSUME NEW j \in 0 .. NewSize - 1, fresh'[j] # Null
       PROVE  \E i \in 0 .. pos : items[i] = fresh'[j]
  <2>1. CASE j = ind
    BY <1>1, <1>3, <1>11, <2>1
  <2>2. CASE j # ind
    <3>1. fresh'[j] = fresh[j]
      BY <1>3, <1>11, <2>2
    <3>2. PICK i \in 0 .. pos - 1 : items[i] = fresh[j]
      BY <1>13, <3>1 DEF IInv, Moved, RehashSet, Growth
    <3>3. i \in 0 .. pos
      BY <1>1
    <3> QED
      BY <3>1, <3>2, <3>3
  <2> QED
    BY <2>1, <2>2
<1>14. pos' - 1 = pos /\ items' = items
  BY <1>1 DEF RehashSet
<1>15. Moved' /\ Probing'
  BY <1>1, <1>12, <1>13, <1>14 DEF Moved, Probing, RehashSet, Growth
<1> QED
  BY <1>9, <1>10, <1>15 DEF IInv

LEMMA ExpandEndStep ==
  ASSUME IInv, ExpandEnd PROVE IInv'
<1>1. /\ NewSize \in Nat \ {0} /\ NewSize \in 1 .. SizeMax
      /\ hash \in Hashes /\ hash' = hash /\ fresh \in Table(NewSize)
      /\ Unbroken(fresh, NewSize) /\ n = Cardinality(Occupied(fresh))
      /\ call.key \in Key
  BY SizeTypes, CallTypes, SizeMaxAssumption
  DEF IInv, TypeOK, ChainsUnbroken, CountsEntries, Counted, ExpandEnd, Growth
<1>2. /\ ind' \in 0 .. NewSize - 1
      /\ Reaches(fresh, NewSize, call.key, ind')
  BY <1>1, HomeInside, ReachesHome DEF ExpandEnd
<1>3. TypeOK'
  BY <1>1, <1>2 DEF IInv, TypeOK, ExpandEnd, Growth, Function
<1>4. ChainsUnbroken' /\ CountsEntries' /\ Moved'
  BY <1>1 DEF ChainsUnbroken, CountsEntries, Counted, Moved, ExpandEnd,
              Growth, Unbroken, Reaches, Home
<1>5. Probing'
  BY <1>1, <1>2 DEF Probing, ExpandEnd, Reaches, Home
<1> QED
  BY <1>3, <1>4, <1>5 DEF IInv

LEMMA NextInvariant == IInv /\ [Next]_vars => IInv'
<1> SUFFICES ASSUME IInv, [Next]_vars PROVE IInv'
  OBVIOUS
<1>1. CASE \E k \in Key, v \in Value : Insert(k, v)
  BY <1>1, CallSteps
<1>2. CASE \E k \in Key : Lookup(k)
  BY <1>2, CallSteps
<1>3. CASE \E k \in Key : Harmless(k) /\ Delete(k)
  BY <1>3, CallSteps
<1>4. CASE Probe \/ Set \/ LookupEnd \/ DeleteHit \/ DeleteMiss
  BY <1>4, ProbeStep, SetStep, LookupEndStep, DeleteHitStep, DeleteMissStep
<1>5. CASE Growing
  BY <1>5, ExpandStep, ExpandFailsStep, SkipFreeStep, RehashStep,
     RehashProbeStep, RehashSetStep, ExpandEndStep DEF Growing
<1>6. CASE UNCHANGED vars
  BY <1>6 DEF vars, tableVars, growVars, IInv, TypeOK, ChainsUnbroken,
     CountsEntries, Counted, Probing, Moved, Growth, Unbroken, Reaches,
     Harmless, Occupied, Passed, Home, NewSize
<1> QED
  BY <1>1, <1>2, <1>3, <1>4, <1>5, <1>6 DEF Next, Running

\* Whatever the keys, the hash function and the sizes, the probe index and the
\* position of ht_expand stay inside the tables they are used with.
THEOREM TypeCorrect == Spec => []TypeOK
<1>1. IInv => TypeOK
  BY DEF IInv
<1> QED
  BY <1>1, InitInvariant, NextInvariant, PTL DEF Spec

\* Every entry stays reachable by probing, in the table and in the one that
\* ht_expand fills (ht_set, ht_expand, ht_delete of a harmless key).
THEOREM EntriesStayReachable == Spec => []ChainsUnbroken
<1>1. IInv => ChainsUnbroken
  BY DEF IInv
<1> QED
  BY <1>1, InitInvariant, NextInvariant, PTL DEF Spec

\* ht->n, on which the load check and so the end of every probe loop rests,
\* is exact.
THEOREM CountIsExact == Spec => []CountsEntries
<1>1. IInv => CountsEntries
  BY DEF IInv
<1> QED
  BY <1>1, InitInvariant, NextInvariant, PTL DEF Spec

-----------------------------------------------------------------------------
(***************************************************************************)
(* The table is a map.                                                     *)
(***************************************************************************)

\* What Content is for a table t.
ContentOf(t) ==
  [k \in Key |->
     LET held == { i \in DOMAIN t : t[i] # Null /\ t[i].key = k }
     IN  IF held = {} THEN Null ELSE t[CHOOSE i \in held : TRUE].value]

LEMMA ContentIsFunction ==
  ASSUME NEW t
  PROVE  ContentOf(t) = [k \in Key |-> ContentOf(t)[k]]
BY DEF ContentOf

LEMMA ContentValue ==
  ASSUME hash \in Hashes, NEW s \in Nat \ {0}, NEW t \in Table(s),
         Unbroken(t, s), NEW k \in Key
  PROVE  /\ \A i \in 0 .. s - 1 :
              t[i] # Null /\ t[i].key = k => ContentOf(t)[k] = t[i].value
         /\ (\A i \in 0 .. s - 1 : t[i] # Null => t[i].key # k)
              => ContentOf(t)[k] = Null
<1> DEFINE held == { i \in DOMAIN t : t[i] # Null /\ t[i].key = k }
<1>1. DOMAIN t = 0 .. s - 1
  BY DEF Table
<1>2. ContentOf(t)[k] =
        IF held = {} THEN Null ELSE t[CHOOSE i \in held : TRUE].value
  BY DEF ContentOf
<1>3. ASSUME NEW i \in 0 .. s - 1, t[i] # Null, t[i].key = k
      PROVE  ContentOf(t)[k] = t[i].value
  <2>1. i \in held
    BY <1>1, <1>3
  <2>2. (CHOOSE j \in held : TRUE) \in held
    BY <2>1
  <2>3. \A j \in held : j = i
    BY <1>1, <1>3, KeysAreUnique
  <2>4. (CHOOSE j \in held : TRUE) = i
    BY <2>2, <2>3
  <2> HIDE DEF held
  <2> QED
    BY <1>2, <2>1, <2>4
<1>4. ASSUME \A i \in 0 .. s - 1 : t[i] # Null => t[i].key # k
      PROVE  ContentOf(t)[k] = Null
  <2>1. held = {}
    BY <1>1, <1>4
  <2> HIDE DEF held
  <2> QED
    BY <1>2, <2>1
<1> QED
  BY <1>3, <1>4

LEMMA ContentPut ==
  ASSUME hash \in Hashes, NEW s \in Nat \ {0}, NEW t \in Table(s),
         Unbroken(t, s), NEW e \in Entry, NEW b \in 0 .. s - 1,
         Reaches(t, s, e.key, b), t[b] = Null \/ t[b].key = e.key
  PROVE  ContentOf([t EXCEPT ![b] = e]) =
           [ContentOf(t) EXCEPT ![e.key] = e.value]
<1> DEFINE u == [t EXCEPT ![b] = e]
<1>1. u \in Table(s) /\ Unbroken(u, s)
  BY PutKeepsChains
<1>2. DOMAIN t = 0 .. s - 1 /\ u[b] = e /\ e # Null /\ e.key \in Key
  BY EntryIsNotNull DEF Table
<1>3. \A i \in 0 .. s - 1 : i # b => u[i] = t[i]
  BY <1>2
<1> HIDE DEF u
<1>4. ContentOf(u)[e.key] = e.value
  BY <1>1, <1>2, ContentValue
<1>5. ASSUME NEW k \in Key, k # e.key
      PROVE  ContentOf(u)[k] = ContentOf(t)[k]
  <2>1. CASE \E i \in 0 .. s - 1 : t[i] # Null /\ t[i].key = k
    <3>1. PICK i \in 0 .. s - 1 : t[i] # Null /\ t[i].key = k
      BY <2>1
    <3>2. u[i] = t[i]
      BY <1>3, <1>5, <3>1
    <3> QED
      BY <1>1, <3>1, <3>2, ContentValue
  <2>2. CASE \A i \in 0 .. s - 1 : t[i] # Null => t[i].key # k
    <3>1. \A i \in 0 .. s - 1 : u[i] # Null => u[i].key # k
      BY <1>2, <1>3, <1>5, <2>2
    <3> QED
      BY <1>1, <2>2, <3>1, ContentValue
  <2> QED
    BY <2>1, <2>2
<1>6. ContentOf(u) = [ContentOf(t) EXCEPT ![e.key] = e.value]
  BY <1>2, <1>4, <1>5, ContentIsFunction
<1> QED
  BY <1>6 DEF u

LEMMA ContentRemove ==
  ASSUME hash \in Hashes, NEW s \in Nat \ {0}, NEW t \in Table(s),
         Unbroken(t, s), NEW b \in Occupied(t),
         \A j \in Occupied(t) : b \notin Passed(Home(t[j].key, s), j, s)
  PROVE  ContentOf([t EXCEPT ![b] = Null]) =
           [ContentOf(t) EXCEPT ![t[b].key] = Null]
<1> DEFINE u == [t EXCEPT ![b] = Null]
<1>1. u \in Table(s) /\ Unbroken(u, s)
  BY RemoveKeepsChains
<1>2. /\ DOMAIN t = 0 .. s - 1 /\ b \in 0 .. s - 1 /\ u[b] = Null
      /\ t[b] # Null /\ t[b].key \in Key
  BY SlotType, EntryIsNotNull DEF Table, Occupied
<1>3. \A i \in 0 .. s - 1 : i # b => u[i] = t[i]
  BY <1>2
<1> HIDE DEF u
<1>4. ContentOf(u)[t[b].key] = Null
  <2>1. \A i \in 0 .. s - 1 : i # b /\ t[i] # Null => t[i].key # t[b].key
    BY <1>2, KeysAreUnique
  <2>2. \A i \in 0 .. s - 1 : u[i] # Null => u[i].key # t[b].key
    BY <1>2, <1>3, <2>1
  <2> QED
    BY <1>1, <1>2, <2>2, ContentValue
<1>5. ASSUME NEW k \in Key, k # t[b].key
      PROVE  ContentOf(u)[k] = ContentOf(t)[k]
  <2>1. CASE \E i \in 0 .. s - 1 : t[i] # Null /\ t[i].key = k
    <3>1. PICK i \in 0 .. s - 1 : t[i] # Null /\ t[i].key = k
      BY <2>1
    <3>2. u[i] = t[i]
      BY <1>3, <1>5, <3>1
    <3> QED
      BY <1>1, <3>1, <3>2, ContentValue
  <2>2. CASE \A i \in 0 .. s - 1 : t[i] # Null => t[i].key # k
    <3>1. \A i \in 0 .. s - 1 : u[i] # Null => u[i].key # k
      BY <1>2, <1>3, <2>2
    <3> QED
      BY <1>1, <2>2, <3>1, ContentValue
  <2> QED
    BY <2>1, <2>2
<1>6. ContentOf(u) = [ContentOf(t) EXCEPT ![t[b].key] = Null]
  BY <1>2, <1>4, <1>5, ContentIsFunction
<1> QED
  BY <1>6 DEF u

\* Two tables with the same entries are the same map.
LEMMA ContentSame ==
  ASSUME hash \in Hashes, NEW s \in Nat \ {0}, NEW t \in Table(s),
         Unbroken(t, s), NEW s2 \in Nat \ {0}, NEW u \in Table(s2),
         Unbroken(u, s2),
         \A i \in 0 .. s - 1 :
            t[i] # Null => \E j \in 0 .. s2 - 1 : u[j] = t[i],
         \A j \in 0 .. s2 - 1 :
            u[j] # Null => \E i \in 0 .. s - 1 : t[i] = u[j]
  PROVE  ContentOf(u) = ContentOf(t)
<1>1. ASSUME NEW k \in Key
      PROVE  ContentOf(u)[k] = ContentOf(t)[k]
  <2>1. CASE \E i \in 0 .. s - 1 : t[i] # Null /\ t[i].key = k
    <3>1. PICK i \in 0 .. s - 1 : t[i] # Null /\ t[i].key = k
      BY <2>1
    <3>2. PICK j \in 0 .. s2 - 1 : u[j] = t[i]
      BY <3>1
    <3>3. ContentOf(t)[k] = t[i].value
      BY <3>1, ContentValue
    <3>4. ContentOf(u)[k] = u[j].value
      BY <3>1, <3>2, ContentValue
    <3> QED
      BY <3>2, <3>3, <3>4
  <2>2. CASE \A i \in 0 .. s - 1 : t[i] # Null => t[i].key # k
    <3>1. \A j \in 0 .. s2 - 1 : u[j] # Null => u[j].key # k
      BY <2>2
    <3> QED
      BY <2>2, <3>1, ContentValue
  <2> QED
    BY <2>1, <2>2
<1> QED
  BY <1>1 DEF ContentOf

LEMMA InitRefines == Init => Map!MapInit
BY SizesAssumption, SizeMaxAssumption
DEF Init, Empty, Content, Map!MapInit, Map!NoCall

LEMMA StartRefines ==
  ASSUME IInv, NEW f, NEW c \in Map!Call, Start(f, c)
  PROVE  Map!Request
<1>1. call = Map!NoCall
  BY DEF IInv, TypeOK, Start
<1>2. Content' = Content
  BY DEF Start, Content, tableVars
<1> QED
  BY <1>1, <1>2 DEF Map!Request, Start

LEMMA CallsRefine ==
  ASSUME IInv, NEW k \in Key
  PROVE  /\ \A v \in Value : Insert(k, v) => Map!Request
         /\ Lookup(k) => Map!Request
         /\ Delete(k) => Map!Request
<1>1. ASSUME NEW v \in Value, Insert(k, v) PROVE Map!Request
  <2> DEFINE c == [op |-> "insert", key |-> k, value |-> v]
  <2>1. c \in Map!Call
    BY DEF Map!Call
  <2>2. Start(IF Crowded THEN "insert" ELSE "set", c)
    BY <1>1 DEF Insert
  <2> HIDE DEF c
  <2> QED
    BY <2>1, <2>2, StartRefines
<1>2. ASSUME NEW f \in {"lookup", "delete"},
             Start(f, [op |-> f, key |-> k])
      PROVE  Map!Request
  <2> DEFINE c == [op |-> f, key |-> k]
  <2>1. c \in Map!Call
    BY DEF Map!Call
  <2>2. Start(f, c)
    BY <1>2
  <2> HIDE DEF c
  <2> QED
    BY <2>1, <2>2, StartRefines
<1> QED
  BY <1>1, <1>2 DEF Lookup, Delete

LEMMA SetRefines ==
  ASSUME IInv, Set PROVE Map!Insert
<1> DEFINE e == [key |-> call.key, value |-> call.value]
<1>1. /\ size \in Nat \ {0} /\ hash \in Hashes /\ items \in Table(size)
      /\ ind \in 0 .. size - 1 /\ e \in Entry /\ call.op = "insert"
      /\ e.key = call.key /\ e.value = call.value
  BY SizeTypes, CallTypes DEF IInv, TypeOK, Set, Entry
<1>2. Reaches(items, size, e.key, ind) /\ Unbroken(items, size)
  BY DEF IInv, Probing, ChainsUnbroken, Set
<1>3. items[ind] = Null \/ items[ind].key = e.key
  BY DEF Set, Collides
<1>4. items' = [items EXCEPT ![ind] = e]
  BY DEF Set, Put
<1>5. ContentOf([items EXCEPT ![ind] = e]) =
        [ContentOf(items) EXCEPT ![e.key] = e.value]
  <2>1. ASSUME NEW d \in Entry, Reaches(items, size, d.key, ind),
               items[ind] = Null \/ items[ind].key = d.key
        PROVE  ContentOf([items EXCEPT ![ind] = d]) =
                 [ContentOf(items) EXCEPT ![d.key] = d.value]
    BY <1>1, <1>2, <2>1, ContentPut
  <2> HIDE DEF e
  <2> QED
    BY <1>1, <1>2, <1>3, <2>1
<1>6. Content = ContentOf(items) /\ Content' = ContentOf(items')
  BY DEF Content, ContentOf
<1>7. Content' = [Content EXCEPT ![call.key] = call.value]
  <2> HIDE DEF e
  <2> QED
    BY <1>1, <1>4, <1>5, <1>6, Zenon
<1> QED
  BY <1>1, <1>7 DEF Map!Insert, Map!Answer, Set, Return

LEMMA LookupRefines ==
  ASSUME IInv, LookupEnd PROVE Map!Lookup
<1>1. /\ size \in Nat \ {0} /\ hash \in Hashes /\ items \in Table(size)
      /\ ind \in 0 .. size - 1 /\ call.key \in Key /\ call.op = "lookup"
      /\ Unbroken(items, size) /\ Reaches(items, size, call.key, ind)
  BY SizeTypes, CallTypes
  DEF IInv, TypeOK, ChainsUnbroken, Probing, LookupEnd
<1>2. Content = ContentOf(items) /\ Content' = Content
  BY DEF Content, ContentOf, LookupEnd, tableVars
<1>3. CASE items[ind] = Null
  <2>1. \A i \in 0 .. size - 1 : items[i] # Null => items[i].key # call.key
    BY <1>1, <1>3, MissIsTrue
  <2>2. Content[call.key] = Null
    BY <1>1, <1>2, <2>1, ContentValue
  <2> QED
    BY <1>1, <1>2, <1>3, <2>2 DEF Map!Lookup, Map!Answer, LookupEnd, Return
<1>4. CASE items[ind] # Null
  <2>1. items[ind].key = call.key
    BY <1>4 DEF LookupEnd, Collides
  <2>2. Content[call.key] = items[ind].value
    BY <1>1, <1>2, <1>4, <2>1, ContentValue
  <2> QED
    BY <1>1, <1>2, <1>4, <2>2 DEF Map!Lookup, Map!Answer, LookupEnd, Return
<1> QED
  BY <1>3, <1>4

LEMMA DeleteHitRefines ==
  ASSUME IInv, DeleteHit PROVE Map!Delete
<1>1. /\ size \in Nat \ {0} /\ hash \in Hashes /\ items \in Table(size)
      /\ ind \in 0 .. size - 1 /\ call.key \in Key /\ call.op = "delete"
      /\ Unbroken(items, size) /\ items[ind] # Null
      /\ items[ind].key = call.key
  BY SizeTypes, CallTypes
  DEF IInv, TypeOK, ChainsUnbroken, DeleteHit, Hits
<1>2. ind \in Occupied(items)
  BY <1>1 DEF Occupied, Table
<1>3. \A j \in Occupied(items) :
        ind \notin Passed(Home(items[j].key, size), j, size)
  BY <1>1, <1>2 DEF IInv, Probing, Harmless, DeleteHit
<1>4. ContentOf([items EXCEPT ![ind] = Null]) =
        [ContentOf(items) EXCEPT ![items[ind].key] = Null]
  BY <1>1, <1>2, <1>3, ContentRemove
<1>5. Content = ContentOf(items) /\ Content' = ContentOf(items')
  BY DEF Content, ContentOf
<1>6. items' = [items EXCEPT ![ind] = Null]
  BY DEF DeleteHit
<1>7. Content' = [Content EXCEPT ![call.key] = Null]
  BY <1>1, <1>4, <1>5, <1>6, Zenon
<1>8. Content[call.key] # Null
  <2>1. Content[call.key] = items[ind].value
    BY <1>1, <1>5, ContentValue
  <2>2. items[ind].value # Null
    BY <1>1, SlotType, EntryIsNotNull
  <2> QED
    BY <2>1, <2>2
<1> QED
  BY <1>1, <1>7, <1>8 DEF Map!Delete, Map!Answer, DeleteHit, Return

LEMMA DeleteMissRefines ==
  ASSUME IInv, DeleteMiss PROVE Map!Delete
<1>1. /\ size \in Nat \ {0} /\ hash \in Hashes /\ items \in Table(size)
      /\ ind \in 0 .. size - 1 /\ call.key \in Key /\ call.op = "delete"
      /\ Unbroken(items, size) /\ Reaches(items, size, call.key, ind)
  BY SizeTypes, CallTypes
  DEF IInv, TypeOK, ChainsUnbroken, Probing, DeleteMiss
<1>2. Content = ContentOf(items) /\ Content' = Content
  BY DEF Content, ContentOf, DeleteMiss, tableVars
<1>3. \A i \in 0 .. size - 1 : items[i] # Null => items[i].key # call.key
  BY <1>1, MissIsTrue DEF DeleteMiss
<1>4. Content[call.key] = Null
  BY <1>1, <1>2, <1>3, ContentValue
<1>5. [Content EXCEPT ![call.key] = Null] = Content
  BY <1>1, <1>2, <1>4, ContentIsFunction
<1> QED
  BY <1>1, <1>2, <1>4, <1>5 DEF Map!Delete, Map!Answer, DeleteMiss, Return

LEMMA ExpandEndRefines ==
  ASSUME IInv, ExpandEnd PROVE UNCHANGED Map!mapVars
<1>1. /\ size \in Nat \ {0} /\ NewSize \in Nat \ {0} /\ hash \in Hashes
      /\ items \in Table(size) /\ fresh \in Table(NewSize)
      /\ Unbroken(items, size) /\ Unbroken(fresh, NewSize) /\ pos = size
  BY SizeTypes DEF IInv, TypeOK, ChainsUnbroken, ExpandEnd, Growth
<1>2. /\ \A i \in 0 .. size - 1 :
           items[i] # Null => \E j \in 0 .. NewSize - 1 : fresh[j] = items[i]
      /\ \A j \in 0 .. NewSize - 1 :
           fresh[j] # Null => \E i \in 0 .. size - 1 : items[i] = fresh[j]
  BY <1>1 DEF IInv, Moved, ExpandEnd, Growth
<1>3. ContentOf(fresh) = ContentOf(items)
  BY <1>1, <1>2, ContentSame
<1>4. Content = ContentOf(items) /\ Content' = ContentOf(items')
  BY DEF Content, ContentOf
<1>5. items' = fresh /\ call' = call /\ result' = result
  BY DEF ExpandEnd
<1> QED
  BY <1>3, <1>4, <1>5, Zenon DEF Map!mapVars

LEMMA NextRefines == IInv /\ [Next]_vars => [Map!MapNext]_Map!mapVars
<1> SUFFICES ASSUME IInv, [Next]_vars PROVE [Map!MapNext]_Map!mapVars
  OBVIOUS
<1>1. CASE \/ \E k \in Key, v \in Value : Insert(k, v)
           \/ \E k \in Key : Lookup(k)
           \/ \E k \in Key : Harmless(k) /\ Delete(k)
  BY <1>1, CallsRefine DEF Map!MapNext
<1>2. CASE Set \/ LookupEnd \/ DeleteHit \/ DeleteMiss
  BY <1>2, SetRefines, LookupRefines, DeleteHitRefines, DeleteMissRefines
  DEF Map!MapNext, Map!Respond
<1>3. CASE ExpandFails
  <2>1. call.op = "insert" /\ Content' = Content
    BY <1>3 DEF IInv, TypeOK, ExpandFails, Content, tableVars
  <2>2. Map!Refuse
    BY <1>3, <2>1 DEF Map!Refuse, Map!Answer, ExpandFails, Return
  <2> QED
    BY <2>2 DEF Map!MapNext, Map!Respond
<1>4. CASE \/ Probe \/ Expand \/ SkipFree \/ Rehash \/ RehashProbe
           \/ RehashSet \/ UNCHANGED vars
  <2>1. items' = items /\ call' = call /\ result' = result
    BY <1>4 DEF Probe, Expand, SkipFree, Rehash, RehashProbe, RehashSet, vars,
                tableVars
  <2>2. Content' = Content
    BY <2>1 DEF Content
  <2> QED
    BY <2>1, <2>2 DEF Map!mapVars
<1>5. CASE ExpandEnd
  BY <1>5, ExpandEndRefines
<1> QED
  BY <1>1, <1>2, <1>3, <1>4, <1>5 DEF Next, Running, Growing

\* The safety half of ImplementsMap: every lookup finds what was inserted
\* last, an overwrite and a harmless deletion change one key, and growth
\* changes none, whatever the keys, the hash function and the sizes.
THEOREM TableIsMap == Spec => Map!MapInit /\ [][Map!MapNext]_Map!mapVars
<1> QED
  BY InitInvariant, NextInvariant, InitRefines, NextRefines, PTL DEF Spec
=============================================================================
