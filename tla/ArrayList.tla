------------------------------ MODULE ArrayList ------------------------------
(***************************************************************************)
(* src/array_list.c: what the calls the program makes do to a buffer that  *)
(* doubles.  The buffer is a sequence as long as its capacity; the C index *)
(* i is i + 1 here.  Memory that was not written yet holds Garbage.        *)
(***************************************************************************)
EXTENDS Naturals, Sequences

CONSTANTS
  Garbage,        \* what uninitialised memory holds
  FirstCapacity   \* the capacity of the first allocation: 8 in the code

ASSUME FirstCapacityAssumption == FirstCapacity \in Nat \ {0}

\* realloc to a capacity that is not smaller
Extended(buffer, capacity) ==
  buffer \o [i \in 1 .. capacity - Len(buffer) |-> Garbage]

\* array_list_init
EmptyList == [items |-> <<>>, count |-> 0]

Capacity(list) == Len(list.items)

\* array_list_reserve
Reserve(list, capacity) ==
  IF capacity <= Capacity(list)
    THEN list
    ELSE [list EXCEPT !.items = Extended(@, capacity)]

\* The list that array_list_push writes to.
Room(list) ==
  IF list.count < Capacity(list)
    THEN list
    ELSE Reserve(list, IF list.items = <<>> THEN FirstCapacity
                                            ELSE 2 * Capacity(list))

\* array_list_push
Push(list, item) ==
  [items |-> [Room(list).items EXCEPT ![list.count + 1] = item],
   count |-> list.count + 1]

\* array_list_get
Get(list, i) == list.items[i]

\* The sequence that a list stands for.
Contents(list) == SubSeq(list.items, 1, list.count)
=============================================================================
