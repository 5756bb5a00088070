-------------------------- MODULE HashTabProperties --------------------------
(***************************************************************************)
(* What is checked of HashTab.                                             *)
(***************************************************************************)
EXTENDS HashTab

Growth == {"expand", "rehash"}

\* The table whose entries ht->n counts.
Counted == IF pc \in Growth THEN fresh ELSE items

\* Types: the probe index stays inside the table that is probed, the new table
\* has the doubled size, and ht_expand stays inside the old one.
TypeOK ==
  /\ hash \in Hashes
  /\ size \in 1 .. SizeMax
  /\ items \in Table(size)
  /\ n \in Nat
  /\ pc \in Function
  /\ call \in Map!Call \cup {Map!NoCall}
  /\ result \in Value \cup {Null, Map!Deleted}
  /\ pc = "idle" <=> call = Map!NoCall
  /\ pc \in {"insert", "set", "expand", "rehash"} => call.op = "insert"
  /\ pc \in {"lookup", "delete"} => call.op = pc
  /\ pc \in {"set", "lookup", "delete"} => ind \in 0 .. size - 1
  /\ pc \in Growth => /\ NewSize >= size
                      /\ fresh \in Table(NewSize)
                      /\ pos \in 0 .. size
  /\ pc = "rehash" => /\ ind \in 0 .. NewSize - 1
                      /\ pos < size
                      /\ items[pos] # Null
  /\ pc \notin Growth => fresh = Empty(0) /\ pos = 0

\* A lookup of key k in this table goes past all slots before b.
Reaches(table, s, k, b) ==
  \A j \in Passed(Home(k, s), b, s) : table[j] # Null /\ table[j].key # k

Unbroken(table, s) ==
  \A i \in Occupied(table) : Reaches(table, s, table[i].key, i)

\* Every entry of the table, and of the one ht_expand fills, is found by
\* probing from the slot of its hash: no free slot and no other entry of the
\* same key lies between (ht_set, ht_lookup_view, ht_expand).
ChainsUnbroken ==
  /\ Unbroken(items, size)
  /\ pc \in Growth => Unbroken(fresh, NewSize)

\* ht->n, which decides about growth and so about the end of the probe loops,
\* is the number of entries, also while ht_expand counts them again and when
\* an insertion overwrites.
CountsEntries == n = Cardinality(Occupied(Counted))

\* The table is a map: lookups find exactly what was inserted last, growth
\* loses nothing, a refused insertion changes nothing, a deletion that is
\* harmless removes one key, and every call returns: the probe loops meet a
\* free slot or the key, and ht_expand ends.
ImplementsMap == Map!MapSpec
=============================================================================
