--------------------------- MODULE MCVerifyStatus ----------------------------
(* TLC instance of VerifyStatus. *)
EXTENDS VerifyStatus

CertOf(id, keyId, authorityKeyId, notAfter) ==
  [id |-> id, keyId |-> keyId, authorityKeyId |-> authorityKeyId, selfSigned |-> keyId = authorityKeyId,
   notBefore |-> 0, notAfter |-> notAfter, sound |-> TRUE, ca |-> FALSE]
Ca(id, keyId, authorityKeyId) == [CertOf(id, keyId, authorityKeyId, 9) EXCEPT !.ca = TRUE]

Root   == Ca("root", "r", "r")
Issuer == Ca("ca", "c", "r")
Signer == CertOf("signer", "s", "c", 2)      (* Valid at time 2, no longer now. *)
Forged == [Signer EXCEPT !.id = "forged", !.keyId = "x", !.sound = FALSE]
Tsp    == CertOf("tsp", "t", "c", 9)
FarTsp == CertOf("fartsp", "ft", "f", 9)     (* Nobody has its authority. *)
Responder == CertOf("ocsp", "o", "r", 9)

TS(cert, genTime, certs) ==
  [tsp |-> cert.id, genTime |-> genTime, digest |-> "match", sound |-> TRUE, certs |-> certs]
Ref(c) == [id |-> c.id, match |-> TRUE]
Answer(c, certStatus) == [cert |-> c.id, certStatus |-> certStatus, responder |-> "o", certs |-> <<Responder>>]

BES == [sid |-> "signer", sidType |-> "issuerAndSN", sound |-> TRUE, digest |-> "match", ess |-> "match",
        signingTime |-> 1, contentTS |-> NoTS, signatureTS |-> NoTS, archiveTS |-> NoTS,
        refs |-> <<>>, values |-> <<>>, ocspVals |-> <<>>, certs |-> <<Signer>>]
CMS == [BES EXCEPT !.sid = "s", !.sidType = "keyId", !.ess = "absent"]
T   == [BES EXCEPT !.contentTS = TS(Tsp, 1, <<Tsp>>), !.signatureTS = TS(Tsp, 2, <<Tsp>>)]
C   == [T EXCEPT !.refs = <<Ref(Issuer), Ref(Root)>>]
XL  == [C EXCEPT !.values = <<Issuer, Root>>, !.ocspVals = <<Answer(Signer, "GOOD"), Answer(Tsp, "GOOD")>>]
A   == [XL EXCEPT !.archiveTS = TS(Tsp, 2, <<>>)]

Damaged(ts) == [ts EXCEPT !.digest = "differs"]

(* Wrong or missing in one respect: visible in the structure, ... *)
OddStructure ==
  {[BES EXCEPT !.sound = FALSE], [BES EXCEPT !.digest = "differs"], [BES EXCEPT !.digest = "absent"],
   [BES EXCEPT !.ess = "differs"],
   [T EXCEPT !.digest = "absent"],
   [T EXCEPT !.contentTS = Damaged(@)], [T EXCEPT !.signatureTS = Damaged(@)],
   [T EXCEPT !.signatureTS.sound = FALSE], [T EXCEPT !.archiveTS = TS(Tsp, 2, <<>>)],
   [C EXCEPT !.refs = <<Ref(Issuer), [Ref(Root) EXCEPT !.match = FALSE]>>],
   [C EXCEPT !.refs = <<Ref(FarTsp), Ref(Root)>>],
   [XL EXCEPT !.values = <<Issuer>>], [XL EXCEPT !.values = <<Root, Issuer>>],
   [A EXCEPT !.archiveTS = Damaged(@)]}

(* ... or in the certificates. *)
OddCertificates ==
  {[BES EXCEPT !.signingTime = 0],                       (* Expired by now. *)
   [BES EXCEPT !.certs = <<>>],                          (* The signer may be unknown. *)
   [BES EXCEPT !.sid = "forged", !.certs = <<Forged>>],
   [T EXCEPT !.signatureTS = TS(FarTsp, 2, <<FarTsp>>)],
   [XL EXCEPT !.ocspVals = <<Answer(Signer, "REVOKED")>>]}

Request(sigs, type, onlyCrl) ==
  {[sig |-> s, options |-> [validationType |-> type, onlyCrl |-> onlyCrl]] : s \in sigs}
MCRequests ==
  Request(OddStructure, "STRUCT", FALSE) \cup Request({BES}, "CHAIN", FALSE)
  \cup Request({BES, CMS, T, C, XL, A} \cup OddCertificates, "FULL", FALSE) \cup Request({BES, C}, "FULL", TRUE)
MCCertificates == {Root, Issuer, Signer, Forged, Tsp, FarTsp, Responder}
MCStores == {<<Root>>, <<Issuer>>}
MCLater == {Issuer, Root}
=============================================================================
