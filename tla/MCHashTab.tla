------------------------------ MODULE MCHashTab ------------------------------
(***************************************************************************)
(* Small tables for TLC.  Hash values 0 .. 3 in tables of 1 to 12 slots    *)
(* make keys collide; keys of one chain part when the table grows.         *)
(***************************************************************************)
EXTENDS HashTabProperties

AllHashes == [Key -> 0 .. 3]
=============================================================================
