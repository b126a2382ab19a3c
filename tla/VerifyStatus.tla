---------------------------- MODULE VerifyStatus -----------------------------
(***************************************************************************)
(* VERIFY of a CMS or CAdES signature: verify_p7s and validate_certs       *)
(* (library/uapki/src/api/verify.cpp) with VerifiedSignerInfo              *)
(* (library/uapki/src/doc-verify.cpp), from the parsed signature of one    *)
(* signer to the status that is reported.                                  *)
(*                                                                         *)
(* What a certificate's own signature was found to be (m_VerifyStatus)     *)
(* stays with the certificate, and the same for a CRL (m_StatusSign): the  *)
(* calls share it.  VERIFY reads it without the certificate's mutex, twice *)
(* per certificate, while VERIFY_CERT and SIGN, which run in other         *)
(* threads, set it; SIGN does so anew every time.                          *)
(*                                                                         *)
(* A signature is a record of what was signed and what it carries: sid (a  *)
(* certificate's id; sidType says how it is named), sound, digest, ess and *)
(* the digests of time-stamps in "match" (digest "absent": no content;     *)
(* ess "absent": no attribute), signingTime (0: none), contentTS,          *)
(* signatureTS and archiveTS (NoTS, or tsp, genTime, digest and sound),    *)
(* refs (ids referred to by hash, with match), values (certificates),      *)
(* ocspVals (embedded answers: cert, status, responder) and certs.         *)
(* Certificates are those of module CertKeys, with sound, ca and notAfter. *)
(***************************************************************************)
EXTENDS CertKeys

CONSTANTS
  Certificates,         (* All there are.                                     *)
  Requests,             (* What VERIFY is called with: [sig, options].        *)
  Stores,               (* What the certificate store has to begin with.      *)
  Later,                (* Certificates that ADD_CERT may add afterwards.     *)
  Reverified,           (* Ids of the certificates SIGN validates meanwhile.  *)
  DamagedCrls,          (* Key identifiers of authorities whose CRL is not    *)
                        (* signed by them.                                    *)
  Now,                  (* VerifySignedDoc::validateTime.                     *)
  MaxCalls,             (* Bound: calls of VERIFY.                            *)
  NoTS, NoCert

Present(ts) == ts # NoTS

ASSUME CertificatesAssumption ==
  /\ NoCert \notin Certificates
  /\ \A c \in Certificates : c.id # NoCert /\ c.keyId # NoKeyId /\ c.notBefore \in Nat
  /\ \A c, d \in Certificates : c.id = d.id => c = d
  /\ Stores \subseteq Seq(Certificates) /\ Later \subseteq Certificates

ASSUME RequestsAssumption ==
  \A r \in Requests :
    /\ {r.sig.certs, r.sig.values} \subseteq Seq(Certificates)
    /\ \A f \in {"contentTS", "signatureTS", "archiveTS"} :
         Present(r.sig[f]) => r.sig[f].certs \in Seq(Certificates) /\ r.sig[f].genTime \in Nat
    /\ {r.sig.signingTime, Now} \subseteq Nat
    /\ r.sig.ocspVals \in Seq(Range(r.sig.ocspVals))
    /\ \A v \in Range(r.sig.ocspVals) :
         v.certs \in Seq(Certificates) /\ v.certStatus \in {"GOOD", "REVOKED", "UNKNOWN"}
    /\ r.options.validationType \in {"STRUCT", "CHAIN", "FULL"} /\ r.options.onlyCrl \in BOOLEAN

VARIABLES
  store,           (* Items: cert, unique, and status (m_VerifyStatus).       *)
  m_StatusSign,    (* Of the CRL of each authority with a damaged one.        *)
  verifying,       (* Certificate SIGN is verifying, its mutex held; NoCert.  *)
  pc,
  sig, options,
  info,            (* VerifiedSignerInfo, but for its lists:                  *)
  tsp, ocsp,       (* m_ListAddedCerts: certificates of TSPs and responders,  *)
  items,           (* m_CertChainItems,                                       *)
  expectedCerts,   (* by id or key identifier,                                *)
  expectedCrls,
  i,               (* and the item that a loop over them is at.               *)
  calls            (* How often VERIFY was called.                            *)

shared == <<store, m_StatusSign, verifying>>
request == <<sig, options, calls>>
lists == <<tsp, ocsp, items>>
expected == <<expectedCerts, expectedCrls>>
vars == <<shared, pc, request, info, lists, i, expected>>

(* The index of a certificate in the store, 0 if it is not there. *)
IndexOf(its, id) == SelectInSeq(its, LAMBDA it : it.cert.id = id)
Cert(idx) == store[idx].cert
StatusOf(its, c) == its[IndexOf(its, c.id)].status
NewCert(c) == [cert |-> c, unique |-> TRUE, status |-> "UNDEFINED"]
AddCerts(its, certs) ==
  LET added[n \in 0 .. Len(certs)] == IF n = 0 THEN its ELSE addItem(added[n - 1], NewCert(certs[n]))
  IN added[Len(certs)]

ValidAt(c, time) == c.notBefore <= time /\ time <= c.notAfter

Unverified == [digest |-> "UNDEFINED", signature |-> "UNDEFINED"]
NewInfo ==
  [signature |-> "UNDEFINED", digest |-> "UNDEFINED", ess |-> "NOT_PRESENT", certRefs |-> "NOT_PRESENT",
   contentTS |-> Unverified, signatureTS |-> Unverified, archiveTS |-> Unverified,
   cerSigner |-> 0, format |-> "UNDEFINED", best |-> 0, status |-> "UNDEFINED", abort |-> "none"]

Init ==
  /\ \E certs \in Stores : store = AddCerts(<<>>, certs)
  /\ m_StatusSign = [k \in DamagedCrls |-> "UNDEFINED"]
  /\ verifying = NoCert /\ pc = "idle"
  /\ sig = NoCert /\ options = NoCert /\ calls = 0 /\ info = NewInfo
  /\ tsp = <<>> /\ ocsp = <<>> /\ items = <<>> /\ i = 1
  /\ expectedCerts = {} /\ expectedCrls = {}

Goto(from, to) == pc = from /\ pc' = to

(* DO() in verify_p7s: the call fails and reports no status. *)
Abort(code) == pc' = "idle" /\ info' = [info EXCEPT !.status = "UNDEFINED", !.abort = code]

(* parse, addCertsToStore and parseAttributes. *)
Begin(s, o) ==
  /\ Goto("idle", "signature") /\ calls < MaxCalls /\ calls' = calls + 1
  /\ sig' = s /\ options' = o
  /\ store' = AddCerts(store, s.certs)
  /\ info' = [NewInfo EXCEPT
       !.ess = IF s.ess = "absent" THEN "NOT_PRESENT" ELSE "INDETERMINATE",
       !.certRefs = IF s.refs = <<>> THEN "NOT_PRESENT" ELSE "INDETERMINATE"]
  /\ tsp' = <<>> /\ ocsp' = <<>> /\ items' = <<>> /\ i' = 1
  /\ expectedCerts' = {} /\ expectedCrls' = {}
  /\ UNCHANGED <<m_StatusSign, verifying>>

verifySignedAttribute ==
  /\ pc = "signature"
  /\ LET found == IF sig.sidType = "keyId" THEN getCertByKeyId(store, sig.sid, 0) ELSE IndexOf(store, sig.sid) IN
     IF found # 0 /\ ~sig.sound THEN Abort("verify_failed") /\ UNCHANGED expected
     ELSE /\ pc' = "digest"
          /\ info' = [info EXCEPT
               !.format = IF sig.sidType = "keyId" \/ info.ess = "NOT_PRESENT" THEN "CMS_SID_KEYID" ELSE "CADES_BES",
               !.cerSigner = found,
               !.signature = IF found = 0 THEN "INDETERMINATE" ELSE "VALID"]
          /\ expectedCerts' = expectedCerts \cup (IF found = 0 THEN {sig.sid} ELSE {})
          /\ UNCHANGED expectedCrls
  /\ UNCHANGED <<shared, request, lists, i>>

Compared(digest) == CASE digest = "absent" -> "INDETERMINATE" [] digest = "match" -> "VALID" [] OTHER -> "INVALID"

isPresentCadesC == sig.refs # <<>>
isPresentCadesXL == sig.values # <<>> /\ sig.ocspVals # <<>>

determineSignFormat(format) ==
  IF format # "CADES_BES" \/ ~Present(sig.contentTS) \/ ~Present(sig.signatureTS) THEN format
  ELSE IF ~isPresentCadesC THEN "CADES_T"
  ELSE IF ~isPresentCadesXL THEN "CADES_C"
  ELSE IF ~Present(sig.archiveTS) THEN "CADES_XL" ELSE "CADES_A"

(* verifyMessageDigest, verifySigningCertificateV2, determineSignFormat,   *)
(* tspCertToStore and certValuesToStore.                                   *)
VerifyDigests ==
  /\ Goto("digest", "contentTS")
  /\ info' = [info EXCEPT
       !.digest = Compared(sig.digest),
       !.ess = IF @ = "NOT_PRESENT" THEN @
               ELSE IF info.cerSigner = 0 THEN "INDETERMINATE" ELSE Compared(sig.ess),
       !.format = determineSignFormat(@)]
  /\ store' = AddCerts(store, (IF Present(sig.contentTS) THEN sig.contentTS.certs ELSE <<>>)
                              \o (IF Present(sig.signatureTS) THEN sig.signatureTS.certs ELSE <<>>)
                              \o sig.values)
  /\ UNCHANGED <<m_StatusSign, verifying, request, lists, i, expected>>

-----------------------------------------------------------------------------
(* Time-stamps and references *)

(* verifyAttrTimestamp, for the time-stamp in that field of the signature. *)
VerifyTimeStamp(field, digest, next) ==
  LET ts == sig[field]
      its == AddCerts(store, ts.certs)
      found == IndexOf(its, ts.tsp)
  IN /\ store' = its
     /\ IF found # 0 /\ ~ts.sound THEN Abort("verify_failed") /\ UNCHANGED <<tsp, expectedCerts>>
        ELSE /\ pc' = next
             /\ info' = [info EXCEPT ![field] =
                  [digest |-> digest, signature |-> IF found = 0 THEN "INDETERMINATE" ELSE "VALID"]]
             /\ tsp' = IF found = 0 THEN tsp ELSE Append(tsp, its[found].cert)
             /\ expectedCerts' = expectedCerts \cup (IF found = 0 THEN {ts.tsp} ELSE {})
     /\ UNCHANGED <<m_StatusSign, verifying, request, ocsp, items, i, expectedCrls>>

Skip(field, next) ==
  /\ ~Present(sig[field])
  /\ pc' = next
  /\ UNCHANGED <<shared, request, info, lists, i, expected>>

(* The digest of the content cannot be compared if there is no content. *)
verifyContentTimeStamp ==
  /\ pc = "contentTS"
  /\ \/ Skip("contentTS", "signatureTS")
     \/ /\ Present(sig.contentTS)
        /\ VerifyTimeStamp("contentTS",
             Compared(IF sig.contentTS.digest = "match" /\ sig.digest = "absent" THEN "absent"
                      ELSE sig.contentTS.digest), "signatureTS")

verifySignatureTimeStamp ==
  /\ pc = "signatureTS"
  /\ \/ Skip("signatureTS", "refs")
     \/ /\ Present(sig.signatureTS)
        /\ VerifyTimeStamp("signatureTS", Compared(sig.signatureTS.digest), "refs")

AtLeastC == info.format \in {"CADES_C", "CADES_XL", "CADES_A"}

(* CadesXlInfo::verifyCertRefs: against the values in the signature or, if *)
(* it has none, the store.                                                 *)
verifyCertificateRefs ==
  LET Missing == {k \in DOMAIN sig.refs : sig.values = <<>> /\ IndexOf(store, sig.refs[k].id) = 0}
      Passed == {k \in DOMAIN sig.refs \ Missing :
                   sig.refs[k].match /\ (sig.values # <<>> => sig.values[k].id = sig.refs[k].id)}
  IN /\ pc = "refs"
     /\ UNCHANGED <<shared, request, lists, i, expectedCrls>>
     /\ IF ~AtLeastC THEN pc' = "archiveTS" /\ UNCHANGED <<info, expectedCerts>>
        ELSE IF sig.values # <<>> /\ Len(sig.values) # Len(sig.refs)
        THEN Abort("invalid_count_items") /\ UNCHANGED expectedCerts
        ELSE /\ pc' = "archiveTS"
             /\ info' = [info EXCEPT !.certRefs =
                  IF Passed = DOMAIN sig.refs THEN "VALID"
                  ELSE IF Passed \cup Missing = DOMAIN sig.refs THEN "INDETERMINATE" ELSE "INVALID"]
             /\ expectedCerts' = expectedCerts \cup {sig.refs[k].id : k \in Missing}

verifyArchiveTimeStamp ==
  /\ pc = "archiveTS"
  /\ \/ /\ info.format = "CADES_A"
        /\ VerifyTimeStamp("archiveTS", Compared(sig.archiveTS.digest), "format")
     \/ /\ info.format # "CADES_A"
        /\ pc' = "format"
        /\ UNCHANGED <<shared, request, info, lists, i, expected>>

(* CollectVerifyStatus *)
isValid(collected) == collected = {"VALID"}
isDeterminate(collected) == "INDETERMINATE" \in collected /\ collected \subseteq {"INDETERMINATE", "VALID"}

PresentTS == {f \in {"contentTS", "signatureTS", "archiveTS"} : Present(sig[f])}
collect_signatures == {info.signature} \cup {info[f].signature : f \in PresentTS}
collect_digests == {info.digest} \cup {info[f].digest : f \in PresentTS}
                   \cup ({info.ess} \ {"NOT_PRESENT"}) \cup (IF AtLeastC THEN {info.certRefs} ELSE {})

(* m_BestSignatureTime: a time-stamp's time, or what the signer says. *)
BestSignatureTime ==
  LET matters(digest) == sig.digest = "absent" \/ digest = "VALID"
      says == IF sig.signingTime > 0 THEN sig.signingTime ELSE Now
  IN IF Present(sig.signatureTS) /\ info.signatureTS = [digest |-> "VALID", signature |-> "VALID"]
     THEN sig.signatureTS.genTime
     ELSE IF Present(sig.contentTS) /\ info.contentTS.signature = "VALID" /\ matters(info.contentTS.digest)
     THEN sig.contentTS.genTime
     ELSE IF info.signature = "VALID" /\ matters(info.digest) THEN says ELSE 0

validateSignFormat ==
  /\ Goto("format", "chain")
  /\ info' = [info EXCEPT
       !.best = BestSignatureTime,
       !.status = IF isValid(collect_signatures) /\ isValid(collect_digests) THEN "TOTAL_VALID"
                  ELSE IF isDeterminate(collect_signatures) \/ isDeterminate(collect_digests) THEN "INDETERMINATE"
                  ELSE "TOTAL_FAILED"]
  /\ UNCHANGED <<shared, request, lists, i, expected>>

-----------------------------------------------------------------------------
(* Certificates *)

SignatureOf(c, issuer) ==
  IF ~c.sound THEN "INVALID" ELSE IF issuer.ca THEN "VALID" ELSE "VALID_WITHOUT_KEYUSAGE"

(* The issuer getChainCerts finds for a certificate. *)
IssuerOf(its, c) ==
  LET k == getCertByKeyId(its, c.authorityKeyId, 0) IN
  IF c.selfSigned THEN c ELSE IF k = 0 THEN NoCert ELSE its[k].cert

(* Mutant: what an earlier call found is never looked at again. *)
verify_Once(status, c, issuer) ==
  IF status # "UNDEFINED" THEN status
  ELSE IF issuer = NoCert THEN "INDETERMINATE" ELSE SignatureOf(c, issuer)

(* CerItem::verify without force: the certificate's status after it. *)
verify(status, c, issuer) ==
  IF status \notin {"UNDEFINED", "INDETERMINATE"} THEN status
  ELSE IF issuer = NoCert THEN "INDETERMINATE" ELSE SignatureOf(c, issuer)

(* CertChainItem::setIssuer and setRoot: the store after some certificates *)
(* in it were verified by their issuers.                                   *)
verifyCerts(its, certs) ==
  [k \in DOMAIN its |->
     IF its[k].cert \in certs /\ k = IndexOf(its, its[k].cert.id)
     THEN [its[k] EXCEPT !.status = verify(@, its[k].cert, IssuerOf(its, its[k].cert))]
     ELSE its[k]]

(* A root needs no answer. *)
NewItem(c) ==
  [cert |-> c, built |-> TRUE, expired |-> TRUE, type |-> IF c.selfSigned THEN "NONE" ELSE "UNDEFINED",
   certStatus |-> "UNDEFINED", sound |-> TRUE, crlIssuer |-> NoCert, asked |-> <<>>]

(* addCertChainItem, for each of some certificates (NoCert: nullptr). *)
addItems(its, certs) ==
  LET added[n \in 0 .. Len(certs)] ==
        IF n = 0 THEN its
        ELSE LET those == added[n - 1] IN
             IF certs[n] = NoCert \/ \E k \in DOMAIN those : those[k].cert = certs[n]
             THEN those ELSE Append(those, NewItem(certs[n]))
  IN added[Len(certs)]

Top(c) == Last(PathFrom(store, c))

(* getChainCerts goes round for ever where two authorities have certified  *)
(* each other.                                                             *)
WalkEnds(c) == Top(c).selfSigned \/ IssuerOf(store, Top(c)) = NoCert

(* Mutant: the certificate at the top is expected, not its issuer. *)
MissingAbove_Itself(top) == IF top.selfSigned THEN {} ELSE {top.keyId}

MissingAbove(top) == IF top.selfSigned THEN {} ELSE {top.authorityKeyId}

(* The chains of some certificates, one after the other. *)
Chains(certs) ==
  LET chain[n \in 0 .. Len(certs)] == IF n = 0 THEN <<>> ELSE chain[n - 1] \o PathFrom(store, certs[n])
  IN chain[Len(certs)]

(* buildCertChain: of the signer, who is verified without an issuer, too,  *)
(* and of the time-stamp services.                                         *)
buildCertChain ==
  LET signer == IF info.cerSigner = 0 THEN <<>> ELSE <<Cert(info.cerSigner)>>
      certs == signer \o tsp
      chain == Chains(certs)
  IN /\ pc = "chain" /\ verifying = NoCert
     /\ IF options.validationType = "STRUCT"
        THEN pc' = "status" /\ UNCHANGED <<store, items, expectedCerts>>
        ELSE /\ pc' = "revocation"
             /\ \A c \in Range(certs) : WalkEnds(c)
             /\ items' = addItems(<<>>, chain)
             /\ store' = verifyCerts(store, {c \in Range(chain) : IssuerOf(store, c) # NoCert} \cup Range(signer))
             /\ expectedCerts' = expectedCerts \cup UNION {MissingAbove(Top(c)) : c \in Range(certs)}
     /\ UNCHANGED <<m_StatusSign, verifying, request, info, tsp, ocsp, i, expectedCrls>>

EmbedsStatus == info.format \in {"CADES_XL", "CADES_A"}

(* setRevocationValuesForChain with verifyOcspResponse: one value of the   *)
(* signature; whether its signature is in order is only reported.          *)
Embed(acc, val) ==
  LET its == AddCerts(acc.store, val.certs)
      responder == getCertByKeyId(its, val.responder, 0)
      at == IndexOf(acc.items, val.cert)
  IN IF at = 0 THEN acc
     ELSE [store |-> its,
           ocsp |-> IF responder = 0 THEN acc.ocsp ELSE Append(acc.ocsp, its[responder].cert),
           items |-> [acc.items EXCEPT ![at].type = "OCSP", ![at].certStatus = val.certStatus]]

Embedded(vals) ==
  LET acc[n \in 0 .. Len(vals)] ==
        IF n = 0 THEN [store |-> store, ocsp |-> ocsp, items |-> items] ELSE Embed(acc[n - 1], vals[n])
  IN acc[Len(vals)]

checkValidity(its) == [k \in DOMAIN its |-> [its[k] EXCEPT !.expired = ~ValidAt(its[k].cert, info.best)]]

(* validate_certs, up to its loop. *)
BeginValidation ==
  /\ Goto("revocation", IF options.validationType = "CHAIN" THEN "status" ELSE "validate")
  /\ LET acc == Embedded(IF options.validationType = "FULL" /\ EmbedsStatus THEN sig.ocspVals ELSE <<>>)
     IN /\ store' = acc.store /\ ocsp' = acc.ocsp
        /\ items' = LET its == checkValidity(acc.items) IN
                    IF options.validationType = "CHAIN" THEN [k \in DOMAIN its |-> [its[k] EXCEPT !.type = "NONE"]]
                    ELSE its
  /\ UNCHANGED <<m_StatusSign, verifying, request, info, tsp, i, expected>>

Current == items[i]
NeedsStatus == ~Current.expired /\ Current.type = "UNDEFINED"
OcspFirst == info.format \in {"CMS_SID_KEYID", "CADES_BES", "CADES_T"}

Answered(type, certStatus, sound) ==
  [Current EXCEPT !.type = type, !.certStatus = certStatus, !.sound = sound, !.asked = Append(@, type)]
NotAnswered(source) == [Current EXCEPT !.asked = Append(@, source)]

(* Mutant: the option onlyCrl is not looked at. *)
validate_by_ocsp_Always ==
  /\ pc = "validate" /\ i <= Len(items) /\ NeedsStatus /\ verifying # Current.cert.id
  /\ Current.asked = IF OcspFirst THEN <<>> ELSE <<"CRL">>
  /\ items' = [items EXCEPT ![i] = NotAnswered("OCSP")]
  /\ UNCHANGED <<shared, pc, request, info, tsp, ocsp, i, expected>>

(* validateByOcsp (module CertStatus): an answer, or none for any reason. *)
validate_by_ocsp ==
  /\ pc = "validate" /\ i <= Len(items) /\ NeedsStatus /\ verifying # Current.cert.id
  /\ ~options.onlyCrl /\ Current.asked = IF OcspFirst THEN <<>> ELSE <<"CRL">>
  /\ \/ \E certStatus \in {"GOOD", "REVOKED", "UNKNOWN"} :
          items' = [items EXCEPT ![i] = Answered("OCSP", certStatus, TRUE)]
     \/ items' = [items EXCEPT ![i] = NotAnswered("OCSP")]
  /\ UNCHANGED <<shared, pc, request, info, tsp, ocsp, i, expected>>

(* validateByCrl (modules CrlCache, CrlDownload, CrlRevocation) and        *)
(* CrlItem::verify, which fails for a damaged CRL the first time only.     *)
validate_by_crl ==
  LET keyId == Current.cert.authorityKeyId
      signer == getCertByKeyId(store, keyId, 0)
      Damaged == keyId \in DamagedCrls
  IN /\ pc = "validate" /\ i <= Len(items) /\ NeedsStatus /\ verifying # Current.cert.id
     /\ Current.asked = IF OcspFirst /\ ~options.onlyCrl THEN <<"OCSP">> ELSE <<>>
     /\ \/ (* No CRL in the cache, and none to download. *)
           /\ items' = [items EXCEPT ![i] = NotAnswered("CRL")]
           /\ expectedCrls' = expectedCrls \cup {keyId}
           /\ UNCHANGED <<m_StatusSign, expectedCerts>>
        \/ /\ signer = 0
           /\ items' = [items EXCEPT ![i] = NotAnswered("CRL")]
           /\ expectedCerts' = expectedCerts \cup {keyId}
           /\ UNCHANGED <<m_StatusSign, expectedCrls>>
        \/ /\ signer # 0
           /\ IF Damaged /\ m_StatusSign[keyId] = "UNDEFINED"
              THEN /\ items' = [items EXCEPT ![i] = [NotAnswered("CRL") EXCEPT !.crlIssuer = Cert(signer)]]
                   /\ m_StatusSign' = [m_StatusSign EXCEPT ![keyId] = "INVALID"]
              ELSE /\ \E certStatus \in {"GOOD", "REVOKED"} :
                        items' = [items EXCEPT ![i] =
                          [Answered("CRL", certStatus, ~Damaged) EXCEPT !.crlIssuer = Cert(signer)]]
                   /\ UNCHANGED m_StatusSign
           /\ UNCHANGED expected
     /\ UNCHANGED <<store, verifying, pc, request, info, tsp, ocsp, i>>

NextItem ==
  /\ pc = "validate" /\ i <= Len(items)
  /\ ~NeedsStatus \/ Len(Current.asked) = IF options.onlyCrl THEN 1 ELSE 2
  /\ i' = i + 1
  /\ UNCHANGED <<shared, pc, request, info, lists, expected>>

(* addOcspCertsToChain and addCrlCertsToChain: those who answered get      *)
(* items of their own, and are verified if their chain is in the store.    *)
AddAnswerers ==
  LET answerers == ocsp \o (IF EmbedsStatus THEN <<>> ELSE [k \in DOMAIN items |-> items[k].crlIssuer])
      its == addItems(items, answerers)
      new == {its[k].cert : k \in DOMAIN its \ DOMAIN items}
  IN /\ pc = "validate" /\ i > Len(items) /\ verifying = NoCert
     /\ \A c \in new : WalkEnds(c)
     /\ pc' = "status" /\ i' = 1
     /\ items' = [k \in DOMAIN its |->
          IF k \in DOMAIN items THEN items[k]
          ELSE [its[k] EXCEPT !.built = FALSE, !.type = "NONE", !.expired = ~ValidAt(its[k].cert, info.best)]]
     /\ store' = verifyCerts(store, {c \in new : ~c.selfSigned /\ Top(c).selfSigned})
     /\ UNCHANGED <<m_StatusSign, verifying, request, info, tsp, ocsp, expected>>

-----------------------------------------------------------------------------
(* validateStatusCerts *)

setIndeterminate == IF info.status = "TOTAL_VALID" THEN "INDETERMINATE" ELSE info.status

(* What the item makes of the status; a failure ends the loop. *)
SetStatus(status) ==
  LET s == IF Current.expired THEN "TOTAL_FAILED" ELSE status IN
  /\ info' = [info EXCEPT !.status = s]
  /\ IF s = "TOTAL_FAILED" THEN pc' = "idle" /\ UNCHANGED i ELSE pc' = "status" /\ i' = i + 1

ReadStatus ==
  /\ pc = "status" /\ info.status # "TOTAL_FAILED" /\ i <= Len(items)
  /\ CASE StatusOf(store, Current.cert) = "VALID" -> pc' = "status_valid" /\ UNCHANGED <<info, i>>
       [] StatusOf(store, Current.cert) \in {"INDETERMINATE", "VALID_WITHOUT_KEYUSAGE"} -> SetStatus(setIndeterminate)
       [] OTHER -> SetStatus("TOTAL_FAILED")
  /\ UNCHANGED <<shared, request, lists, expected>>

(* Mutant: of the answers only REVOKED matters. *)
setByCertChainItem_RevokedOnly ==
  /\ pc = "status_valid"
  /\ SetStatus(IF Current.certStatus = "REVOKED" THEN "TOTAL_FAILED" ELSE info.status)
  /\ UNCHANGED <<shared, request, lists, expected>>

(* setByCertChainItem reads it again. *)
setByCertChainItem ==
  /\ pc = "status_valid"
  /\ SetStatus(
       IF StatusOf(store, Current.cert) # "VALID" \/ Current.type = "NONE" THEN info.status
       ELSE IF Current.type = "UNDEFINED" \/ Current.certStatus = "UNDEFINED" THEN setIndeterminate
       ELSE IF Current.certStatus = "GOOD" THEN info.status ELSE "TOTAL_FAILED")
  /\ UNCHANGED <<shared, request, lists, expected>>

EndStatus ==
  /\ pc = "status" /\ (info.status = "TOTAL_FAILED" \/ i > Len(items))
  /\ pc' = "idle"
  /\ info' = [info EXCEPT !.status =
       IF expectedCerts # {} \/ expectedCrls # {} THEN setIndeterminate ELSE info.status]
  /\ UNCHANGED <<shared, request, lists, i, expected>>

verify_p7s ==
  \/ verifySignedAttribute \/ VerifyDigests \/ verifyContentTimeStamp \/ verifySignatureTimeStamp
  \/ verifyCertificateRefs \/ verifyArchiveTimeStamp \/ validateSignFormat \/ buildCertChain
  \/ BeginValidation \/ validate_by_ocsp \/ validate_by_crl \/ NextItem \/ AddAnswerers
  \/ ReadStatus \/ setByCertChainItem \/ EndStatus

-----------------------------------------------------------------------------
(* The other methods *)

private == <<pc, request, info, lists, i, expected>>

ADD_CERT == \E c \in Later : /\ IndexOf(store, c.id) = 0
                             /\ store' = AddCerts(store, <<c>>)
                             /\ UNCHANGED <<m_StatusSign, verifying, private>>

(* VERIFY_CERT verifies a certificate nobody has looked at. *)
VERIFY_CERT ==
  /\ \E idx \in DOMAIN store :
       /\ store[idx].status = "UNDEFINED" /\ IssuerOf(store, Cert(idx)) # NoCert
       /\ store' = verifyCerts(store, {Cert(idx)})
  /\ UNCHANGED <<m_StatusSign, verifying, private>>

(* getStatus, for SIGN: verify with force, of a chain that is complete. *)
SignVerifies ==
  /\ verifying = NoCert
  /\ \E idx \in DOMAIN store :
       /\ Cert(idx).id \in Reverified /\ Top(Cert(idx)).selfSigned
       /\ verifying' = Cert(idx).id
       /\ store' = [store EXCEPT ![idx].status = "INDETERMINATE"]
  /\ UNCHANGED <<m_StatusSign, private>>

SignVerified ==
  /\ verifying # NoCert
  /\ LET k == IndexOf(store, verifying)
     IN store' = [store EXCEPT ![k].status = SignatureOf(Cert(k), IssuerOf(store, Cert(k)))]
  /\ verifying' = NoCert
  /\ UNCHANGED <<m_StatusSign, private>>

Next ==
  \/ \E r \in Requests : Begin(r.sig, r.options)
  \/ verify_p7s
  \/ ADD_CERT \/ VERIFY_CERT \/ SignVerifies \/ SignVerified

Spec == Init /\ [][Next]_vars

-----------------------------------------------------------------------------
Done(type) == pc = "idle" /\ info.abort = "none" /\ info.status # "UNDEFINED" /\ options.validationType = type

(* TOTAL-VALID means what the manual promises for its type of validation:  *)
(* everything signed is as signed and nothing lacks; the chains of signer  *)
(* and time-stamp services reach a root and were valid at the best time;   *)
(* and a source whose own signature is in order calls each one GOOD.       *)
TotalValidJustified ==
  LET Built == {it \in Range(items) : it.built} IN
  pc = "idle" /\ info.status = "TOTAL_VALID" =>
    /\ sig.sound /\ sig.digest = "match" /\ sig.ess # "differs"
    /\ \A f \in PresentTS : sig[f].sound /\ sig[f].digest = "match"
    /\ AtLeastC => \A k \in DOMAIN sig.refs : sig.refs[k].match
    /\ Present(sig.signatureTS) => info.best = sig.signatureTS.genTime
    /\ expectedCerts = {} /\ expectedCrls = {}
    /\ options.validationType # "STRUCT" =>
         /\ \E it \in Built : it.cert.id = sig.sid \/ it.cert.keyId = sig.sid
         /\ \A f \in PresentTS : \E it \in Built : it.cert.id = sig[f].tsp
         /\ \A it \in Range(items) : it.cert.sound /\ ValidAt(it.cert, info.best)
         /\ \A it \in Built : it.cert.selfSigned \/ \E up \in Built : up.cert.keyId = it.cert.authorityKeyId
    /\ options.validationType = "FULL" =>
         \A it \in Built : ~it.cert.selfSigned => it.certStatus = "GOOD" /\ it.sound

(* The table of the manual: before a certificate stays without status, OCSP *)
(* and CRL were tried in the order of the signature's format, OCSP never    *)
(* where only CRLs shall be, and neither where the signature has an answer. *)
SourcesTried ==
  Done("FULL") =>
    \A it \in Range(items) :
      LET order == IF options.onlyCrl THEN <<"CRL">>
                   ELSE IF AtLeastC THEN <<"CRL", "OCSP">> ELSE <<"OCSP", "CRL">>
      IN /\ IsPrefix(it.asked, order)
         /\ it.type = "UNDEFINED" /\ ~it.expired => it.asked = order
         /\ EmbedsStatus /\ (\E v \in Range(sig.ocspVals) : v.cert = it.cert.id) => it.asked = <<>>

(* What the call lacked is named to the caller, key by key: the signer,    *)
(* time-stamp services, certificates referred to and the issuers at the    *)
(* top of each chain; and the CRL of a certificate that stays without      *)
(* status although its issuer is there.                                    *)
MissingListed ==
  pc = "idle" /\ info.abort = "none" /\ info.status # "UNDEFINED" =>
    /\ info.signature = "INDETERMINATE" => sig.sid \in expectedCerts
    /\ \A f \in PresentTS : info[f].signature = "INDETERMINATE" => sig[f].tsp \in expectedCerts
    /\ info.certRefs = "INDETERMINATE" /\ AtLeastC => expectedCerts \cap {r.id : r \in Range(sig.refs)} # {}
    /\ \A it \in Range(items) :
         it.built /\ ~it.cert.selfSigned =>
           \/ it.cert.authorityKeyId \in expectedCerts
           \/ /\ \E up \in Range(items) : up.cert.keyId = it.cert.authorityKeyId
              /\ it.type = "UNDEFINED" /\ it.asked # <<>> =>
                   it.cert.authorityKeyId \in expectedCrls \cup DamagedCrls

(* Whatever calls before found out, or could not: after a call that built  *)
(* the chains, every certificate below another one of them is verified.    *)
ChainVerified ==
  pc = "idle" /\ verifying = NoCert /\ info.abort = "none" =>
    \A it \in Range(items), up \in Range(items) :
      it.built /\ up.built /\ up.cert.keyId = it.cert.authorityKeyId /\ ~it.cert.selfSigned =>
        StatusOf(store, it.cert) = SignatureOf(it.cert, up.cert)
=============================================================================
