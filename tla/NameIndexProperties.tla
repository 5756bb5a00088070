------------------------- MODULE NameIndexProperties -------------------------
(***************************************************************************)
(* What is checked of NameIndex.                                           *)
(***************************************************************************)
EXTENDS NameIndex

\* A name that is not interned yet is in the list only while it is placed.
Interned == IF pc = "place" THEN names.count - 1 ELSE names.count

\* Types: each array has an initialised cell for every name, whichever of
\* them grew last, and the probes stay inside the index.
TypeOK ==
  /\ count = Interned
  /\ \A i \in 1 .. names.count :
        /\ names.items[i] \in Name
        /\ bindings[i] \in 1 .. MaxValues \cup {Invalid}
        /\ versions[i] \in 0 .. MaxValues
  /\ \A s \in DOMAIN saved : \A i \in DOMAIN saved[s] :
        saved[s][i] \in 1 .. MaxValues \cup {Invalid}
  /\ result \in 1 .. MaxValues \cup {Invalid}
  /\ pc \in {"idle", "lookup", "rehash", "place"}
  /\ pc = "idle" <=> call = Abstract!NoCall
  /\ pc = "place" => ind \in DOMAIN slots
  /\ pc = "rehash" => ind \in DOMAIN fresh
  /\ pc = "lookup" => slots = Zeros(0) \/ ind \in DOMAIN slots

\* The slots of an index of s slots that a probe from slot a passes before it
\* stands at b.
Passed(a, b, s) ==
  IF a <= b THEN a .. b - 1 ELSE (a .. s - 1) \cup (0 .. b - 1)

\* The index holds each name once and finds it, and is at most half full: no
\* free slot lies between the slot of its hash and its own (intern_name_view,
\* rehash_names).
IndexFindsNames ==
  /\ 2 * count <= SlotCount(slots)
  /\ \A i \in 1 .. count :
        \E s \in DOMAIN slots :
           /\ \A t \in DOMAIN slots : slots[t] = i <=> t = s
           /\ \A t \in Passed(Home(names.items[i], slots), s,
                              SlotCount(slots)) : slots[t] # 0

\* The arrays behave as the lowering takes them: names are numbered once, a
\* value gets the next version of its name, a lookup finds the value bound
\* last, a restored snapshot unbinds later names, and every call returns.
ImplementsBindings == Abstract!BindingsSpec
=============================================================================
