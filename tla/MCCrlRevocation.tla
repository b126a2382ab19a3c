--------------------------- MODULE MCCrlRevocation ---------------------------
(* TLC instances of CrlRevocation. *)
EXTENDS CrlRevocation

FourPlaces == 1 .. 4
AllTables == {SetToSortSeq(S, <) : S \in SUBSET FourPlaces}
SomeEntries == [revocationDate : {2, 3}, invalidityDate : {0, 1}, reason : Reasons]
SomeTimes == 1 .. 4
BothVersions == {0, 1}
=============================================================================
