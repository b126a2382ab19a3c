------------------------------ MODULE CertChain ------------------------------
(***************************************************************************)
(* CerStore::getChainCerts (library/uapki/src/cer-store.cpp): the walk     *)
(* from a certificate to its self-signed root that VERIFY, VERIFY_CERT and *)
(* SIGN rely on.  One turn of the loop is a step: it asks getIssuerCert    *)
(* for the issuer, appends it and goes on from there.  The variable        *)
(* cer_issuer keeps its value from one turn to the next and is what        *)
(* getCertByKeyId starts its comparison with.                              *)
(***************************************************************************)
EXTENDS CertKeys

CONSTANT Stores   (* The stores to walk in: sequences of items. *)

(* Who issued others has its key to itself.  The code does not see to it:  *)
(* in a store with two certificates of an authority, or with one left of   *)
(* two, the issuer found in an earlier turn may be taken for the next one. *)
ASSUME StoresAssumption ==
  \A s \in Stores :
    /\ s \in Seq(Range(s))
    /\ \A j, k \in DOMAIN s : s[k].cert.keyId = s[j].cert.authorityKeyId => s[k].unique

VARIABLES
  store,         (* CerStore::m_Items, the same during the walk.              *)
  cer_subject,   (* Index of the item the walk is at.                         *)
  cer_issuer,    (* Index of the item found last, 0 for nullptr.              *)
  chainCerts,    (* The items appended so far (as a set: a walk that does not *)
                 (* end comes back to a state it was in).                     *)
  ret            (* "walking", "ok" or "issuer_not_found".                    *)

vars == <<store, cer_subject, cer_issuer, chainCerts, ret>>

Init ==
  /\ store \in Stores
  /\ cer_subject \in DOMAIN store
  /\ cer_issuer = 0
  /\ chainCerts = {}
  /\ ret = "walking"

Subject == store[cer_subject].cert
Issuer == getCertByKeyId(store, Subject.authorityKeyId, cer_issuer)

(* Mutant: a certificate that names no authority key ends the chain. *)
SelfSigned_NoAuthority ==
  /\ ret = "walking"
  /\ Subject.selfSigned \/ Subject.authorityKeyId = NoKeyId
  /\ cer_issuer' = cer_subject
  /\ ret' = "ok"
  /\ UNCHANGED <<store, cer_subject, chainCerts>>

(* getIssuerCert: the certificate is its own issuer, and the chain ends. *)
SelfSigned ==
  /\ ret = "walking"
  /\ Subject.selfSigned
  /\ cer_issuer' = cer_subject
  /\ ret' = "ok"
  /\ UNCHANGED <<store, cer_subject, chainCerts>>

IssuerNotFound ==
  /\ ret = "walking"
  /\ ~Subject.selfSigned
  /\ Issuer = 0
  /\ ret' = "issuer_not_found"
  /\ UNCHANGED <<store, cer_subject, cer_issuer, chainCerts>>

IssuerFound ==
  /\ ret = "walking"
  /\ ~Subject.selfSigned
  /\ Issuer # 0
  /\ cer_issuer' = Issuer
  /\ cer_subject' = Issuer
  /\ chainCerts' = chainCerts \cup {Issuer}
  /\ UNCHANGED <<store, ret>>

getChainCerts == SelfSigned \/ IssuerNotFound \/ IssuerFound

Next == getChainCerts

Spec == Init /\ [][Next]_vars /\ WF_vars(Next)

-----------------------------------------------------------------------------
(* Each certificate of the chain was issued by the next: what the walk     *)
(* appends has the key that the certificate it is at names as its issuer's *)
(* - never an issuer found in an earlier turn.                             *)
ChainLinked ==
  ret = "walking" /\ ~Subject.selfSigned /\ Issuer # 0 =>
    store[Issuer].cert.keyId = Subject.authorityKeyId

(* The chain is built, or the missing issuer is reported: the walk ends. *)
ChainEnds == <>(ret # "walking")

(* A chain is reported complete only at a self-signed root, and an issuer  *)
(* is missed only when no certificate in the store has its key.            *)
ChainComplete ==
  /\ ret = "ok" => Subject.selfSigned
  /\ ret = "issuer_not_found" =>
       \A i \in DOMAIN store :
         store[i].cert.keyId = Subject.authorityKeyId => Subject.authorityKeyId = NoKeyId

(* What the walk says it found is what is in the store: its links, its end *)
(* and what it misses.                                                     *)
ChainSound == ChainLinked /\ ChainComplete
=============================================================================
