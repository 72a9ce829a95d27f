--------------------------- MODULE MCIdentityStore ---------------------------
(* An instance of IdentityStore for TLC. *)
EXTENDS IdentityStore

CONSTANTS p1
=============================================================================
