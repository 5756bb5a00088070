------------------------------- MODULE KeyMap -------------------------------
(***************************************************************************)
(* What include/hashtab.h promises its callers: a finite map from keys to  *)
(* values.  A call is answered some time after it was made, and there is   *)
(* one caller.  An insertion may be refused (ht_insert returns NULL) and   *)
(* then changes nothing.                                                   *)
(***************************************************************************)
CONSTANTS
  Key,    \* the keys of the table
  Value,  \* the pointers stored
  Null    \* NULL, also `false`

VARIABLES
  map,    \* the value stored under each key, Null if none
  call,   \* the call being served, NoCall between calls
  result  \* what the last call returned

mapVars == <<map, call, result>>

NoCall  == [op |-> "none"]
Deleted == "true"

Call == [op : {"insert"}, key : Key, value : Value]
        \cup [op : {"lookup", "delete"}, key : Key]

MapInit ==
  /\ map = [k \in Key |-> Null]
  /\ call = NoCall
  /\ result = Null

Request ==
  /\ call = NoCall
  /\ call' \in Call
  /\ UNCHANGED <<map, result>>

Answer(r) == call' = NoCall /\ result' = r

Insert ==
  /\ call.op = "insert"
  /\ map' = [map EXCEPT ![call.key] = call.value]
  /\ Answer(call.value)

Refuse ==
  /\ call.op = "insert"
  /\ Answer(Null)
  /\ UNCHANGED map

Lookup ==
  /\ call.op = "lookup"
  /\ Answer(map[call.key])
  /\ UNCHANGED map

Delete ==
  /\ call.op = "delete"
  /\ map' = [map EXCEPT ![call.key] = Null]
  /\ Answer(IF map[call.key] = Null THEN Null ELSE Deleted)

Respond == Insert \/ Refuse \/ Lookup \/ Delete

MapNext == Request \/ Respond

MapSpec == MapInit /\ [][MapNext]_mapVars /\ WF_mapVars(Respond)
=============================================================================
