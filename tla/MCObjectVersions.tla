-------------------------- MODULE MCObjectVersions --------------------------
(* A small instance of ObjectVersions: key 1 is the beginning of key 2. *)
EXTENDS ObjectVersions, TLC

MCUnder == 1 :> {1, 2} @@ 2 :> {2}
=============================================================================
