-------------------------- MODULE MCClientRegistry --------------------------
(***************************************************************************)
(* A small instance of ClientRegistry: three registrations, two e-mails.   *)
(***************************************************************************)
EXTENDS ClientRegistry, TLC

CONSTANTS r1, r2, r3

Permuted == Permutations(Requests)
=============================================================================
