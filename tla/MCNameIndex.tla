----------------------------- MODULE MCNameIndex -----------------------------
(***************************************************************************)
(* Three names in indexes of 4 and 8 slots, for TLC.                       *)
(***************************************************************************)
EXTENDS NameIndexProperties

\* All names in one chain that wraps in every index, and chains that part
\* when the index grows.
FewHashes == { [n \in Name |-> 7],
               [n \in Name |-> IF n = "a" THEN 7
                               ELSE IF n = "b" THEN 3 ELSE 6] }
=============================================================================
