--------------------------- MODULE MCClientCache ---------------------------
(***************************************************************************)
(* An instance of ClientCache for TLC. Queries do not interact, so two are *)
(* enough: one that mutations invalidate and one that is left to age.      *)
(***************************************************************************)
EXTENDS ClientCache
=============================================================================
