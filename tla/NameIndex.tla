------------------------------ MODULE NameIndex ------------------------------
(***************************************************************************)
(* The names of the function that src/ssair.c lowers: a list of names, an  *)
(* open-addressing index into it, and two arrays with a cell for each name *)
(* (its current value and its next version).  The four grow at different   *)
(* moments.  One step is one iteration of a probe loop, or the straight    *)
(* code between two loops.  Allocations succeed: grow_array, rehash_names  *)
(* and the callers of array_list_push use the result unchecked.            *)
(*                                                                         *)
(* Name number i of the C arrays is i + 1 here, so that a slot of the      *)
(* index, which holds i + 1 or 0, holds the number of the name.            *)
(***************************************************************************)
EXTENDS Integers, FiniteSets, ArrayList

CONSTANTS
  Name,        \* identifiers
  Invalid,     \* INVALID_VALUE
  Hashes,      \* the hash functions considered
  FirstSlots,  \* the slots of the first index: 16 in the code
  FirstCells,  \* the cells of the first arrays: 4 in the code
  MaxValues,   \* bound on the values created
  MaxSaved     \* bound on the snapshots held at a time

ASSUME HashesAssumption == Hashes \subseteq [Name -> Nat]
ASSUME FirstAssumption  == FirstSlots \in Nat \ {0, 1}
                           /\ FirstCells \in Nat \ {0}
ASSUME BoundsAssumption == MaxValues \in Nat /\ MaxSaved \in Nat

VARIABLES
  hash,      \* hash_name
  names,     \* function->names
  slots,     \* build->names.slots, a function on 0 .. capacity - 1
  count,     \* build->names.count
  bindings,  \* build->bindings
  versions,  \* build->next_versions
  values,    \* function->values
  saved,     \* the binding_snapshots that are held, innermost last
  pc,        \* the loop that runs
  call,      \* the call, as in NameBindings
  ind,       \* slot of the probe loop that runs
  fresh,     \* slots of rehash_names
  pos,       \* the name that rehash_names enters
  result     \* what the last call returned

cellVars   == <<names, count, bindings, versions, values, saved>>
rehashVars == <<fresh, pos>>
vars == <<hash, cellVars, slots, pc, call, ind, rehashVars, result>>

Indexed == SubSeq(names.items, 1, count)

NumberOf(n) == CHOOSE i \in 1 .. count : names.items[i] = n

\* A name that is not interned yet has version 0 and no binding.
OfName(n, cells, other) ==
  IF n \in { Indexed[i] : i \in 1 .. count } /\ NumberOf(n) <= Len(cells)
    THEN cells[NumberOf(n)] ELSE other

NextVersion == [n \in Name |-> OfName(n, versions, 0)]

NamedValues ==
  [v \in DOMAIN values |-> [values[v] EXCEPT !.name = names.items[@]]]

Bound == [n \in Name |-> OfName(n, bindings, Invalid)]

SavedBound ==
  [s \in DOMAIN saved |-> [n \in Name |-> OfName(n, saved[s], Invalid)]]

Abstract == INSTANCE NameBindings WITH
  seen        <- Indexed,
  nextVersion <- NextVersion,
  values      <- NamedValues,
  bound       <- Bound,
  saved       <- SavedBound

SlotCount(table) == Cardinality(DOMAIN table)

\* calloc
Zeros(capacity) == [i \in 0 .. capacity - 1 |-> 0]

Init ==
  /\ hash \in Hashes
  /\ names = EmptyList
  /\ slots = Zeros(0)
  /\ count = 0
  /\ bindings = <<>>
  /\ versions = <<>>
  /\ values = <<>>
  /\ saved = <<>>
  /\ pc = "idle"
  /\ call = Abstract!NoCall
  /\ ind = 0
  /\ fresh = Zeros(0)
  /\ pos = 0
  /\ result = Invalid

-----------------------------------------------------------------------------
(***************************************************************************)
(* The end of a call, for the name with the number i.                      *)
(***************************************************************************)

Return(r) ==
  pc' = "idle" /\ call' = Abstract!NoCall /\ result' = r /\ ind' = 0

\* new_value_view after intern_name_view; versionCells are the cells that
\* intern_name_view leaves.
EndNew(i, versionCells) ==
  /\ call.op = "new"
  /\ values' = Append(values, [name |-> i, version |-> versionCells[i]])
  /\ versions' = [versionCells EXCEPT ![i] = @ + 1]
  /\ UNCHANGED bindings
  /\ Return(Len(values) + 1)

\* bind_value_view after intern_name_view
EndBind(i) ==
  /\ call.op = "bind"
  /\ bindings' = [bindings EXCEPT ![i] = call.id]
  /\ UNCHANGED <<versions, values>>
  /\ Return(Invalid)

\* lookup_binding_view: without a value, INVALID_VALUE stands for false.
EndLookup(i) ==
  /\ call.op = "lookup"
  /\ UNCHANGED <<bindings, versions, values>>
  /\ Return(bindings[i])

-----------------------------------------------------------------------------
(***************************************************************************)
(* Calls.  new_value_view, bind_value_view and lookup_binding_view all     *)
(* begin with lookup_name_view.                                            *)
(***************************************************************************)

Home(n, table) == hash[n] % SlotCount(table)

After(i, table) == (i + 1) % SlotCount(table)

Bounded(arguments) ==
  /\ arguments.op = "new" => Len(values) < MaxValues
  /\ arguments.op = "bind" => arguments.id \in DOMAIN values

Start(arguments) ==
  /\ pc = "idle"
  /\ Bounded(arguments)
  /\ call' = arguments
  /\ pc' = "lookup"
  /\ ind' = IF slots = Zeros(0) THEN 0 ELSE Home(arguments.name, slots)
  /\ UNCHANGED <<hash, cellVars, slots, rehashVars, result>>

Taken == slots # Zeros(0) /\ slots[ind] # 0

Candidate == Get(names, slots[ind])

LookupProbe ==
  /\ pc = "lookup"
  /\ Taken
  /\ Candidate # call.name
  /\ ind' = After(ind, slots)
  /\ UNCHANGED <<hash, cellVars, slots, pc, call, rehashVars, result>>

Found ==
  /\ pc = "lookup"
  /\ Taken
  /\ Candidate = call.name
  /\ \/ EndNew(slots[ind], versions)
     \/ EndBind(slots[ind])
     \/ EndLookup(slots[ind])
  /\ UNCHANGED <<hash, names, slots, count, saved, rehashVars>>

LookupMisses ==
  /\ pc = "lookup"
  /\ call.op = "lookup"
  /\ ~Taken
  /\ Return(Invalid)
  /\ UNCHANGED <<hash, cellVars, slots, rehashVars>>

-----------------------------------------------------------------------------
(***************************************************************************)
(* intern_name_view of a new name.                                         *)
(***************************************************************************)

CrowdedWhenFull == slots = Zeros(0) \/ count >= SlotCount(slots)

Crowded == slots = Zeros(0) \/ (count + 1) * 2 > SlotCount(slots)

\* rehash_names begins: the new slots are free.
Rehash ==
  /\ pc = "lookup"
  /\ call.op # "lookup"
  /\ ~Taken
  /\ Crowded
  /\ fresh' = Zeros(IF slots = Zeros(0) THEN FirstSlots
                                        ELSE SlotCount(slots) * 2)
  /\ pos' = 1
  /\ ind' = IF names.count = 0 THEN 0 ELSE Home(Get(names, 1), fresh')
  /\ pc' = "rehash"
  /\ UNCHANGED <<hash, cellVars, slots, call, result>>

RehashProbe ==
  /\ pc = "rehash"
  /\ pos <= names.count
  /\ fresh[ind] # 0
  /\ ind' = After(ind, fresh)
  /\ UNCHANGED <<hash, cellVars, slots, pc, call, rehashVars, result>>

RehashSet ==
  /\ pc = "rehash"
  /\ pos <= names.count
  /\ fresh[ind] = 0
  /\ fresh' = [fresh EXCEPT ![ind] = pos]
  /\ pos' = pos + 1
  /\ ind' = IF pos = names.count THEN 0 ELSE Home(Get(names, pos + 1), fresh)
  /\ UNCHANGED <<hash, cellVars, slots, pc, call, result>>

\* grow_array: the capacity doubles until it suffices.
Grown(cells, required) ==
  IF Len(cells) >= required
    THEN cells
    ELSE LET base == IF cells = <<>> THEN FirstCells ELSE Len(cells)
             least == CHOOSE d \in 0 .. required :
                        /\ base * 2 ^ d >= required
                        /\ \A e \in 0 .. d - 1 : base * 2 ^ e < required
         IN  Extended(cells, base * 2 ^ least)

NewCell(cells, content) ==
  [Grown(cells, names.count + 1) EXCEPT ![names.count + 1] = content]

UnboundCellsKept == Grown(bindings, names.count + 1)

UnboundCells == NewCell(bindings, Invalid)

\* The straight code behind rehash_names, up to the search for a slot in table.
AddName(table) ==
  /\ names' = Push(names, call.name)
  /\ bindings' = UnboundCells
  /\ versions' = NewCell(versions, 0)
  /\ slots' = table
  /\ ind' = Home(call.name, table)
  /\ fresh' = Zeros(0)
  /\ pos' = 0
  /\ pc' = "place"
  /\ UNCHANGED <<hash, count, values, saved, call, result>>

Add ==
  /\ pc = "lookup"
  /\ call.op # "lookup"
  /\ ~Taken
  /\ ~Crowded
  /\ AddName(slots)

RehashEnd ==
  /\ pc = "rehash"
  /\ pos > names.count
  /\ AddName(fresh)

PlaceProbe ==
  /\ pc = "place"
  /\ slots[ind] # 0
  /\ ind' = After(ind, slots)
  /\ UNCHANGED <<hash, cellVars, slots, pc, call, rehashVars, result>>

Place ==
  /\ pc = "place"
  /\ slots[ind] = 0
  /\ slots' = [slots EXCEPT ![ind] = names.count]
  /\ count' = count + 1
  /\ \/ EndNew(names.count, versions)
     \/ EndBind(names.count)
  /\ UNCHANGED <<hash, names, saved, rehashVars>>

-----------------------------------------------------------------------------
(***************************************************************************)
(* Snapshots.                                                              *)
(***************************************************************************)

\* copy_bindings
Save ==
  /\ pc = "idle"
  /\ Len(saved) < MaxSaved
  /\ saved' = Append(saved, SubSeq(bindings, 1, names.count))
  /\ UNCHANGED <<hash, names, slots, count, bindings, versions, values, pc,
                 call, ind, rehashVars, result>>

RestoredKeepsLater(snapshot) ==
  [i \in DOMAIN bindings |-> IF i <= Len(snapshot) THEN snapshot[i]
                                                   ELSE bindings[i]]

\* memcpy, and the names that came after the snapshot are unbound.
Restored(snapshot) ==
  [i \in DOMAIN bindings |-> IF i <= Len(snapshot) THEN snapshot[i]
                             ELSE IF i <= names.count THEN Invalid
                             ELSE bindings[i]]

\* restore_bindings
Restore ==
  /\ pc = "idle"
  /\ saved # <<>>
  /\ bindings' = Restored(saved[Len(saved)])
  /\ UNCHANGED <<hash, names, slots, count, versions, values, saved, pc, call,
                 ind, rehashVars, result>>

\* free_bindings
Drop ==
  /\ pc = "idle"
  /\ saved # <<>>
  /\ saved' = SubSeq(saved, 1, Len(saved) - 1)
  /\ UNCHANGED <<hash, names, slots, count, bindings, versions, values, pc,
                 call, ind, rehashVars, result>>

-----------------------------------------------------------------------------
Running == LookupProbe \/ Found \/ LookupMisses \/ Rehash \/ RehashProbe
           \/ RehashSet \/ RehashEnd \/ Add \/ PlaceProbe \/ Place

Next ==
  \/ \E arguments \in Abstract!Call : Start(arguments)
  \/ Save
  \/ Restore
  \/ Drop
  \/ Running

\* A call runs in the thread of its caller and nothing interrupts it.
Spec == Init /\ [][Next]_vars /\ WF_vars(Running)
=============================================================================
