----------------------------- MODULE MCCertChain -----------------------------
(* TLC instances of CertChain. *)
EXTENDS CertChain

Cert(id, keyId, authorityKeyId, notBefore) ==
  [id |-> id, keyId |-> keyId, authorityKeyId |-> authorityKeyId, notBefore |-> notBefore,
   selfSigned |-> keyId = authorityKeyId]

(* The items a store has after addItem added the certificates in an order. *)
Item(c) == [cert |-> c, unique |-> TRUE]
StoreOf(s) == FoldLeft(LAMBDA its, c : addItem(its, Item(c)), <<>>, s)
Arrangements(S) == {StoreOf(s) : s \in UNION {SetToSeqs(T) : T \in SUBSET S}}

Root   == Cert("root", "r", "r", 1)
Ca     == Cert("ca", "k", "r", 3)
CaNew  == Cert("ca2", "k", "r", 5)
Sub    == Cert("sub", "s", "k", 6)
Signer == Cert("ee", "e", "s", 7)
NoAki  == Cert("noaki", "n", "none", 1)

(* Any part of a hierarchy in any order, with one certificate per CA key; *)
(* the signer's own certificate may be renewed.                           *)
SignerNew == Cert("ee2", "e", "s", 8)
Hierarchies == Arrangements({Root, Ca, Sub, Signer, SignerNew, NoAki})
=============================================================================
