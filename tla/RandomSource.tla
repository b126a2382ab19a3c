---------------------------- MODULE RandomSource -----------------------------
(***************************************************************************)
(* What the random generator of uapkic promises its callers, however many  *)
(* they are and whenever the library is initialised: the blocks it gives   *)
(* out are made from entropy, not from something the program's text says,  *)
(* and no block is given out twice.                                        *)
(***************************************************************************)
EXTENDS Naturals, Sequences

CONSTANTS
  Block      (* What is made from entropy.                *)

VARIABLES
  given      (* The blocks given out so far, in order.    *)

Init == given = <<>>

Distinct(blocks) == \A j, k \in DOMAIN blocks : j # k => blocks[j] # blocks[k]

(* A caller gets its blocks. *)
Give ==
  /\ given' \in Seq(Block) /\ Distinct(given')
  /\ Len(given) < Len(given') /\ given = SubSeq(given', 1, Len(given))

Spec == Init /\ [][Give]_given
=============================================================================
