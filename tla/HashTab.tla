------------------------------- MODULE HashTab -------------------------------
(***************************************************************************)
(* src/hashtab.c: open addressing with linear probing, growth by doubling  *)
(* and deletion by emptying the slot.  The symbol tables of the analysis   *)
(* are such tables.  One step is one iteration of a probe loop, or of the  *)
(* loop of ht_expand over the old slots.                                   *)
(*                                                                         *)
(* Keys and values are opaque; the djb2 hash of a key is a number chosen   *)
(* once, so that collisions and wrapped probe sequences occur.             *)
(***************************************************************************)
EXTENDS Integers, FiniteSets

CONSTANTS
  Key,        \* the keys of the table
  Value,      \* the pointers stored
  Null,       \* NULL, also `false`
  Hashes,     \* the hash functions considered
  Sizes,      \* initial sizes
  SizeMax     \* SIZE_MAX; a small one bounds the growth

ASSUME NullAssumption    == Null \notin Value \cup [key : Key, value : Value]
ASSUME HashesAssumption  == Hashes \subseteq [Key -> Nat]
ASSUME SizeMaxAssumption == SizeMax \in Nat
ASSUME SizesAssumption   == Sizes \subseteq 1 .. SizeMax

VARIABLES
  hash,    \* hash_key
  items,   \* ht->items
  size,    \* ht->size
  n,       \* ht->n
  fresh,   \* new_items of ht_expand
  pos,     \* i of ht_expand
  pc,      \* the function that runs
  call,    \* its arguments, as in KeyMap
  ind,     \* ind of the probe loop that runs
  result   \* what the last call returned

tableVars == <<items, size, n>>
growVars  == <<fresh, pos>>
vars == <<hash, tableVars, growVars, pc, call, ind, result>>

Entry    == [key : Key, value : Value]
Table(s) == [0 .. s - 1 -> Entry \cup {Null}]
Empty(s) == [i \in 0 .. s - 1 |-> Null]

\* The entries of ht->items as a map.
Content ==
  [k \in Key |->
     LET held == { i \in DOMAIN items : items[i] # Null /\ items[i].key = k }
     IN  IF held = {} THEN Null ELSE items[CHOOSE i \in held : TRUE].value]

Map == INSTANCE KeyMap WITH map <- Content

Function == {"idle", "insert", "set", "lookup", "delete", "expand", "rehash"}

Init ==
  /\ hash \in Hashes
  /\ size \in Sizes
  /\ items = Empty(size)
  /\ n = 0
  /\ fresh = Empty(0)
  /\ pos = 0
  /\ pc = "idle"
  /\ call = Map!NoCall
  /\ ind = 0
  /\ result = Null

-----------------------------------------------------------------------------
(***************************************************************************)
(* Probing.                                                                *)
(***************************************************************************)

\* key_index
Home(k, s) == hash[k] % s

AfterUnwrapped(i, s) == i + 1

After(i, s) == (i + 1) % s

\* The slot ind of table holds another key.
Collides(table, k) == table[ind] # Null /\ table[ind].key # k

Hits(table, k) == table[ind] # Null /\ table[ind].key = k

Return(r) == pc' = "idle" /\ call' = Map!NoCall /\ result' = r

\* ht_set at the end of its probe: the value is overwritten or the entry added.
Put(table, e) == [table EXCEPT ![ind] = e]

CountAlways(table) == n + 1

Count(table) == IF table[ind] = Null THEN n + 1 ELSE n

-----------------------------------------------------------------------------
(***************************************************************************)
(* The calls.                                                              *)
(***************************************************************************)

CrowdedWhenFull == n >= size

\* The load check of ht_insert_view.
Crowded == n >= size \div 2

Start(function, arguments) ==
  /\ pc = "idle"
  /\ pc' = function
  /\ call' = arguments
  /\ ind' = Home(arguments.key, size)
  /\ UNCHANGED <<hash, tableVars, growVars, result>>

\* ht_insert_view
Insert(k, v) ==
  Start(IF Crowded THEN "insert" ELSE "set",
        [op |-> "insert", key |-> k, value |-> v])

\* ht_lookup_view
Lookup(k) == Start("lookup", [op |-> "lookup", key |-> k])

\* ht_delete
Delete(k) == Start("delete", [op |-> "delete", key |-> k])

-----------------------------------------------------------------------------
(***************************************************************************)
(* ht_set for the inserted key, ht_lookup_view and ht_delete.              *)
(***************************************************************************)

Probe ==
  /\ pc \in {"set", "lookup", "delete"}
  /\ Collides(items, call.key)
  /\ ind' = After(ind, size)
  /\ UNCHANGED <<hash, tableVars, growVars, pc, call, result>>

Set ==
  /\ pc = "set"
  /\ ~Collides(items, call.key)
  /\ items' = Put(items, [key |-> call.key, value |-> call.value])
  /\ n' = Count(items)
  /\ Return(call.value)
  /\ UNCHANGED <<hash, size, growVars, ind>>

LookupEnd ==
  /\ pc = "lookup"
  /\ ~Collides(items, call.key)
  /\ Return(IF items[ind] = Null THEN Null ELSE items[ind].value)
  /\ UNCHANGED <<hash, tableVars, growVars, ind>>

DeleteHit ==
  /\ pc = "delete"
  /\ Hits(items, call.key)
  /\ items' = [items EXCEPT ![ind] = Null]
  /\ n' = n - 1
  /\ Return(Map!Deleted)
  /\ UNCHANGED <<hash, size, growVars, ind>>

DeleteMiss ==
  /\ pc = "delete"
  /\ items[ind] = Null
  /\ Return(Null)
  /\ UNCHANGED <<hash, tableVars, growVars, ind>>

-----------------------------------------------------------------------------
(***************************************************************************)
(* ht_expand.                                                              *)
(***************************************************************************)

NewSize == (2 * size) % (SizeMax + 1)

\* The allocation succeeds; ht->n is counted anew.
Expand ==
  /\ pc = "insert"
  /\ NewSize >= size
  /\ fresh' = Empty(NewSize)
  /\ pos' = 0
  /\ n' = 0
  /\ pc' = "expand"
  /\ UNCHANGED <<hash, items, size, call, ind, result>>

\* new_size overflows, or calloc returns NULL.
ExpandFails ==
  /\ pc = "insert"
  /\ Return(Null)
  /\ UNCHANGED <<hash, tableVars, growVars, ind>>

SkipFree ==
  /\ pc = "expand"
  /\ pos < size
  /\ items[pos] = Null
  /\ pos' = pos + 1
  /\ UNCHANGED <<hash, tableVars, fresh, pc, call, ind, result>>

RehashOldHome ==
  /\ pc = "expand"
  /\ pos < size
  /\ items[pos] # Null
  /\ pc' = "rehash"
  /\ ind' = Home(items[pos].key, size)
  /\ UNCHANGED <<hash, tableVars, growVars, call, result>>

\* The call of ht_set for the entry at pos.
Rehash ==
  /\ pc = "expand"
  /\ pos < size
  /\ items[pos] # Null
  /\ pc' = "rehash"
  /\ ind' = Home(items[pos].key, NewSize)
  /\ UNCHANGED <<hash, tableVars, growVars, call, result>>

RehashProbe ==
  /\ pc = "rehash"
  /\ Collides(fresh, items[pos].key)
  /\ ind' = After(ind, NewSize)
  /\ UNCHANGED <<hash, tableVars, growVars, pc, call, result>>

RehashSet ==
  /\ pc = "rehash"
  /\ ~Collides(fresh, items[pos].key)
  /\ fresh' = Put(fresh, items[pos])
  /\ n' = Count(fresh)
  /\ pos' = pos + 1
  /\ pc' = "expand"
  /\ UNCHANGED <<hash, items, size, call, ind, result>>

\* ht->items and ht->size are replaced, and ht_insert_view goes on to ht_set.
ExpandEnd ==
  /\ pc = "expand"
  /\ pos = size
  /\ items' = fresh
  /\ size' = NewSize
  /\ fresh' = Empty(0)
  /\ pos' = 0
  /\ pc' = "set"
  /\ ind' = Home(call.key, NewSize)
  /\ UNCHANGED <<hash, n, call, result>>

-----------------------------------------------------------------------------
Occupied(table) == { i \in DOMAIN table : table[i] # Null }

\* The slots a probe that started in slot a has passed when it stands at b.
Passed(a, b, s) ==
  IF a <= b THEN a .. b - 1 ELSE (a .. s - 1) \cup (0 .. b - 1)

\* What callers of ht_delete have to know and no caller does (the program
\* deletes nothing): ht_delete empties a slot without moving the entries
\* behind it, and so breaks the probe chains that pass the slot.
Harmless(k) ==
  \A i, j \in Occupied(items) :
     items[i].key = k => i \notin Passed(Home(items[j].key, size), j, size)

Growing == Expand \/ ExpandFails \/ SkipFree \/ Rehash \/ RehashProbe
           \/ RehashSet \/ ExpandEnd

Running == Probe \/ Set \/ LookupEnd \/ DeleteHit \/ DeleteMiss \/ Growing

Next ==
  \/ \E k \in Key, v \in Value : Insert(k, v)
  \/ \E k \in Key : Lookup(k)
  \/ \E k \in Key : Harmless(k) /\ Delete(k)
  \/ Running

\* A call runs in the thread of its caller and nothing interrupts it.
Spec == Init /\ [][Next]_vars /\ WF_vars(Running)
=============================================================================
