----------------------------- MODULE MCCrlCache ------------------------------
(* TLC instances of CrlCache. *)
EXTENDS CrlCache

Full(id, number, freshest, thisUpdate) ==
  [id |-> id, aki |-> "a", type |-> "full", number |-> number, base |-> 0, freshest |-> freshest,
   thisUpdate |-> thisUpdate, nextUpdate |-> thisUpdate + 1]
Delta(id, number, base, thisUpdate) ==
  [id |-> id, aki |-> "a", type |-> "delta", number |-> number, base |-> base, freshest |-> "none",
   thisUpdate |-> thisUpdate, nextUpdate |-> thisUpdate + 1]

(* Two full CRLs of one series and a delta CRL for the first, and one of   *)
(* another series, the number of which a delta CRL has, too.               *)
SeveralCrls == {Full("f1", 1, "u", 1), Delta("d2", 2, 1, 2), Full("f3", 3, "u", 3),
                Full("g5", 5, "v", 2), Delta("d5", 5, 3, 3)}
SeveralSubjects == [aki : {"a"}, freshest : {"u", "v"}]
SomeTimes == {1, 3}
=============================================================================
