------------------------------ MODULE CertKeys -------------------------------
(***************************************************************************)
(* How CerStore (library/uapki/src/cer-store.cpp) tells certificates apart *)
(* and finds them by key identifier.                                       *)
(*                                                                         *)
(* A certificate is a record of what the store looks at: id (its encoding, *)
(* and CertId, issuer and serial number), keyId, authorityKeyId, notBefore *)
(* and whether it is self-signed.  An item of the store has the field cert *)
(* and the flag unique (CerItem::m_UniqueKeyId).                           *)
(***************************************************************************)
EXTENDS Naturals, Sequences, FiniteSets, SequencesExt

CONSTANT
  NoKeyId   (* authorityKeyId of a certificate whose extension has no       *)
            (* keyIdentifier: a null ByteArray, equal to nothing in ba_cmp. *)

SameKeys(c, d) ==
  /\ c.keyId = d.keyId
  /\ c.authorityKeyId = d.authorityKeyId
  /\ c.authorityKeyId # NoKeyId

Duplicate(c, d) == SameKeys(c, d) /\ c.notBefore = d.notBefore

(* The item addItem stops at: the first one that duplicates c, or none (0). *)
FirstDuplicate(its, c) == SelectInSeq(its, LAMBDA it : Duplicate(it.cert, c))

(* addItem resets the flag of the items it passes that carry the same keys *)
(* with another notBefore.                                                 *)
ResetUniqueKeyId(its, c, upTo) ==
  [i \in DOMAIN its |->
     IF i < upTo /\ SameKeys(its[i].cert, c) THEN [its[i] EXCEPT !.unique = FALSE] ELSE its[i]]

(* CerStore::addItem: the items after adding it, or after finding that a   *)
(* duplicate of it is there.                                               *)
addItem(its, it) ==
  LET at == FirstDuplicate(its, it.cert) IN
  IF at # 0
  THEN ResetUniqueKeyId(its, it.cert, at)
  ELSE Append(ResetUniqueKeyId(its, it.cert, Len(its) + 1),
              [it EXCEPT !.unique = \A i \in DOMAIN its : ~SameKeys(its[i].cert, it.cert)])

(* The items at some of the places, in their order: what removals leave.  *)
Remaining(its, places) ==
  LET kept[n \in 0 .. Len(its)] ==
        IF n = 0 THEN <<>> ELSE IF n \in places THEN Append(kept[n - 1], its[n]) ELSE kept[n - 1]
  IN kept[Len(its)]

(* Mutants: the search ends at the first item whatever its flag; the       *)
(* authority key identifier is compared instead of the key identifier.     *)
getCertByKeyId_First(its, keyId, actual) == SelectInSeq(its, LAMBDA it : it.cert.keyId = keyId)

getCertByKeyId_Authority(its, keyId, actual) ==
  SelectInSeq(its, LAMBDA it : it.cert.authorityKeyId = keyId)

(* CerStore::getCertByKeyId with set_ceritem_by_notbefore_internal: the    *)
(* index of the item found, 0 for RET_UAPKI_CERT_NOT_FOUND.  The scan ends *)
(* at the first item whose key is unique; otherwise the newest is kept,    *)
(* compared also with the item the caller's pointer holds (actual).        *)
getCertByKeyId(its, keyId, actual) ==
  LET found == {i \in DOMAIN its : its[i].cert.keyId = keyId}
      stops == {i \in found : its[i].unique}
      newest == {i \in found : \A j \in found : its[i].cert.notBefore >= its[j].cert.notBefore}
  IN IF found = {} \/ keyId = NoKeyId THEN 0
     ELSE IF stops # {} THEN Min(stops)
     ELSE IF actual # 0 /\ \A i \in found : its[i].cert.notBefore <= its[actual].cert.notBefore
          THEN actual
     ELSE Min(newest)

(* CerStore::getChainCerts as a whole: the certificate and those above it, *)
(* up to a self-signed one or to one whose issuer is not in the store.     *)
(* (Module CertChain has its loop step by step.)                           *)
PathFrom(its, c) ==
  LET issuer(d) == getCertByKeyId(its, d.authorityKeyId, 0)
      path[n \in 0 .. Len(its)] ==
        IF n = 0 THEN <<c>>
        ELSE LET p == path[n - 1] IN
             IF Last(p).selfSigned \/ issuer(Last(p)) = 0 THEN p ELSE Append(p, its[issuer(Last(p))].cert)
  IN path[Len(its)]
=============================================================================
