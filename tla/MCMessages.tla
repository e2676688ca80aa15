------------------------------ MODULE MCMessages ------------------------------
(***************************************************************************)
(* Messages for TLC: no server differs from another, as all of them have   *)
(* settings and any may be a request's primary.                            *)
(***************************************************************************)
EXTENDS Messages, TLC

ServerSymmetry == Permutations(Servers)
=============================================================================
