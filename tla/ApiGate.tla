------------------------------- MODULE ApiGate -------------------------------
(***************************************************************************)
(* What the method dispatcher of the library promises, with neither the    *)
(* mutex, the atomic flag nor the atomic counter of its code: a gate that  *)
(* the thread of a single-threaded (ST) method closes, through which the   *)
(* threads of multi-threaded (MT) methods pass, and which guards the set   *)
(* of MT methods in progress.  ApiDispatch implements it.                  *)
(*                                                                         *)
(* The gate does not exclude an MT method that passed it just before it    *)
(* was closed and is not counted yet: Start looks at entered only.         *)
(***************************************************************************)

CONSTANTS
  Threads,   (* The threads of the application.          *)
  NoThread   (* Stands for nobody having closed the gate. *)

VARIABLES
  gate,      (* The thread that closed the gate, or NoThread.            *)
  serial,    (* Whether the thread that closed the gate runs its method. *)
  admitted,  (* Threads that passed the gate and are not counted yet.    *)
  entered    (* Threads counted as running an MT method.                 *)

vars == <<gate, serial, admitted, entered>>

Init ==
  /\ gate = NoThread
  /\ serial = FALSE
  /\ admitted = {}
  /\ entered = {}

Close(t) ==
  /\ gate = NoThread
  /\ gate' = t
  /\ UNCHANGED <<serial, admitted, entered>>

(* The ST method starts when no MT method is counted. *)
Start(t) ==
  /\ gate = t
  /\ ~serial
  /\ entered = {}
  /\ serial' = TRUE
  /\ UNCHANGED <<gate, admitted, entered>>

Open(t) ==
  /\ gate = t
  /\ serial
  /\ gate' = NoThread
  /\ serial' = FALSE
  /\ UNCHANGED <<admitted, entered>>

Admit(t) ==
  /\ gate = NoThread
  /\ t \notin admitted \cup entered
  /\ admitted' = admitted \cup {t}
  /\ UNCHANGED <<gate, serial, entered>>

Enter(t) ==
  /\ t \in admitted
  /\ admitted' = admitted \ {t}
  /\ entered' = entered \cup {t}
  /\ UNCHANGED <<gate, serial>>

Leave(t) ==
  /\ t \in entered
  /\ entered' = entered \ {t}
  /\ UNCHANGED <<gate, serial, admitted>>

Next ==
  \E t \in Threads :
    Close(t) \/ Start(t) \/ Open(t) \/ Admit(t) \/ Enter(t) \/ Leave(t)

Spec == Init /\ [][Next]_vars
=============================================================================
