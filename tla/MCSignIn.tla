------------------------------ MODULE MCSignIn ------------------------------
(***************************************************************************)
(* An instance of SignIn for TLC: two tabs of a browser.                   *)
(***************************************************************************)
EXTENDS SignIn, TLC

CONSTANTS t1, t2
=============================================================================
