------------------------------- MODULE MCDrbg --------------------------------
(***************************************************************************)
(* A TLC instance of Drbg: two threads, of which either may call INIT.     *)
(***************************************************************************)
EXTENDS Drbg
=============================================================================
