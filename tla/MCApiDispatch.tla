---------------------------- MODULE MCApiDispatch ----------------------------
(***************************************************************************)
(* TLC instances of ApiDispatch: the configurations name the threads, four *)
(* for the properties (two that compete for the mutex and two that pass    *)
(* the gate), two for the overlap of an ST and an MT method.               *)
(***************************************************************************)
EXTENDS ApiDispatch
=============================================================================
