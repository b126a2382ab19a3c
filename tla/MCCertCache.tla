----------------------------- MODULE MCCertCache -----------------------------
(* TLC instances of CertCache. *)
EXTENDS CertCache

Cert(id, keyId, authorityKeyId, notBefore) ==
  [id |-> id, keyId |-> keyId, authorityKeyId |-> authorityKeyId, notBefore |-> notBefore,
   selfSigned |-> keyId = authorityKeyId]

(* A CA certificate, its renewal with the same key, one with the keys and  *)
(* notBefore of the first but another serial number, one for the same key  *)
(* by another authority; one without authority key identifier, for which   *)
(* no file name can be made.                                               *)
Ca      == Cert("ca", "k", "r", 2)
Renewed == Cert("renewed", "k", "r", 3)
Twin    == Cert("twin", "k", "r", 2)
Cross   == Cert("cross", "k", "q", 4)
NoAki   == Cert("noaki", "n", "none", 1)

SomeCerts == {Ca, Renewed, Twin, Cross, NoAki}
SomeTrusted == {<<>>, <<Cross, Renewed>>}
SomeBatches == {<<Ca>>, <<Renewed, NoAki>>}
=============================================================================
