---------------------------- MODULE MCCrlDownload ----------------------------
(* TLC instances of CrlDownload. *)
EXTENDS CrlDownload
=============================================================================
