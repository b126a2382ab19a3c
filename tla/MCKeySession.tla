---------------------------- MODULE MCKeySession -----------------------------
(* TLC instance of KeySession: its keys, files and passwords are alike. *)
EXTENDS KeySession, TLC

Alike == Permutations(Keys) \cup Permutations(Files) \cup Permutations(Passwords)
=============================================================================
