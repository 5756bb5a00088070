---------------------------- MODULE NameBindings ----------------------------
(***************************************************************************)
(* What the lowering relies on (Lower has these variables): names are      *)
(* numbered in the order of their first use, each counts its versions and  *)
(* has at most one current value, and the bindings of a moment can be      *)
(* saved and put back, with the names that came later unbound.             *)
(***************************************************************************)
EXTENDS Naturals, SequencesExt

CONSTANTS
  Name,      \* identifiers
  Invalid,   \* INVALID_VALUE; also the result of calls without one
  MaxValues  \* bound on the values a function creates

VARIABLES
  seen,         \* the names in the order of interning
  nextVersion,  \* the next version of each name
  values,       \* the values, by id: name and version
  bound,        \* the current value of each name
  saved,        \* the snapshots taken, innermost last
  call,         \* the call being served, NoCall between calls
  result        \* what the last call returned

bindingVars == <<seen, nextVersion, values, bound, saved, call, result>>

NoCall == [op |-> "none"]

Call == [op : {"new", "lookup"}, name : Name]
        \cup [op : {"bind"}, name : Name, id : 1 .. MaxValues]

BindingsInit ==
  /\ seen = <<>>
  /\ nextVersion = [n \in Name |-> 0]
  /\ values = <<>>
  /\ bound = [n \in Name |-> Invalid]
  /\ saved = <<>>
  /\ call = NoCall
  /\ result = Invalid

Request ==
  /\ call = NoCall
  /\ call' \in Call
  /\ UNCHANGED <<seen, nextVersion, values, bound, saved, result>>

Answer(r) == call' = NoCall /\ result' = r

Intern(n) == seen' = IF Contains(seen, n) THEN seen ELSE Append(seen, n)

NewValue ==
  /\ call.op = "new"
  /\ LET n == call.name
     IN  /\ Intern(n)
         /\ values' = Append(values, [name |-> n, version |-> nextVersion[n]])
         /\ nextVersion' = [nextVersion EXCEPT ![n] = @ + 1]
  /\ Answer(Len(values) + 1)
  /\ UNCHANGED <<bound, saved>>

Bind ==
  /\ call.op = "bind"
  /\ Intern(call.name)
  /\ bound' = [bound EXCEPT ![call.name] = call.id]
  /\ Answer(Invalid)
  /\ UNCHANGED <<nextVersion, values, saved>>

Lookup ==
  /\ call.op = "lookup"
  /\ Answer(bound[call.name])
  /\ UNCHANGED <<seen, nextVersion, values, bound, saved>>

Save ==
  /\ call = NoCall
  /\ saved' = Append(saved, bound)
  /\ UNCHANGED <<seen, nextVersion, values, bound, call, result>>

Restore ==
  /\ call = NoCall
  /\ saved # <<>>
  /\ bound' = Last(saved)
  /\ UNCHANGED <<seen, nextVersion, values, saved, call, result>>

Drop ==
  /\ call = NoCall
  /\ saved # <<>>
  /\ saved' = Front(saved)
  /\ UNCHANGED <<seen, nextVersion, values, bound, call, result>>

Respond == NewValue \/ Bind \/ Lookup

BindingsNext == Request \/ Respond \/ Save \/ Restore \/ Drop

BindingsSpec ==
  BindingsInit /\ [][BindingsNext]_bindingVars /\ WF_bindingVars(Respond)
=============================================================================
