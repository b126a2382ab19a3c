------------------------------ MODULE CertStatus ------------------------------
(***************************************************************************)
(* CertValidator::getStatus (library/uapki/src/cert-validator.cpp), by     *)
(* which SIGN validates the signer's certificate and those of time-stamp   *)
(* services: the walk to the root (module CertChain), signatures and       *)
(* validity, the status of every certificate below the root by OCSP or     *)
(* CRL, and then the certificates of those who answered.                   *)
(*                                                                         *)
(* An OCSP answer stays with the certificate (CertStatusInfo) until an     *)
(* offset after its thisUpdate and serves later calls; its certificates    *)
(* enter the certificate store before the responder is looked up there.    *)
(* Beside the calls of getStatus run calls of CERT_STATUS_BY_OCSP, which   *)
(* leave their answers with the same certificates, and between them        *)
(* REMOVE_CERT takes temporary certificates out of the store.              *)
(*                                                                         *)
(* Certificates are records of module CertKeys with the fields sound (the  *)
(* signature verifies with the authority's key), notAfter, ca, trusted,    *)
(* digitalSignature, ocspSigning, crlSign, uri (it names OCSP servers) and *)
(* provider.  CRLs themselves are the subject of modules CrlCache,         *)
(* CrlDownload and CrlRevocation.                                          *)
(***************************************************************************)
EXTENDS CertChain

CONSTANTS
  Callers,      (* Ids of certificates getStatus is called for.              *)
  Types,        (* The validation types it is called with.                   *)
  Scenarios,    (* Stores with who answers for their certificates: services  *)
                (* maps the id of a certificate to a set of [cert, brings]:  *)
                (* a responder, and whether it sends its certificate along.  *)
  AskedFor,     (* Ids CERT_STATUS_BY_OCSP is called for.                    *)
  CrlSigners,   (* Whose CRLs exist for a certificate: id -> key identifiers.*)
  Revocations,  (* When certificates may be revoked: functions id -> time.   *)
  Offset,       (* Ocsp::OFFSET_EXPIRE_DEFAULT, in steps of time.            *)
  Period,       (* How old an answer is at most when a server sends it.      *)
  MaxTime,      (* Bound: the last instant.                                  *)
  NoAnswer

(* The certificates there are, and the items they make in the store. *)
Certificates ==
  UNION {{it.cert : it \in Range(s.store)} \cup {r.cert : r \in UNION Range(s.services)} : s \in Scenarios}
CertIds == {c.id : c \in Certificates}
Items == [cert : Certificates, unique : BOOLEAN, permanent : BOOLEAN]

ASSUME TimeAssumption == {Offset, Period, MaxTime} \subseteq Nat

ASSUME ScenariosAssumption ==
  /\ \A c \in Certificates : c.keyId # NoKeyId /\ c.notBefore \in Nat
  /\ \A s \in Scenarios :
       /\ s.store \in Seq(Items)
       /\ s.services \in [CertIds -> SUBSET [cert : Certificates, brings : BOOLEAN]]
  /\ Revocations \subseteq [CertIds -> Nat]

VARIABLES
  now, revokedAt,
  services,        (* The services there are.                                  *)
  offline,         (* LibraryConfig::getOffline, since INIT.                   *)
  cache,           (* m_CertStatusByOcsp of each certificate (id).             *)
  pc,              (* Where the call of getStatus is.                          *)
  validationType,
  asked,           (* The time the call began, and its validateTime.           *)
  m_CertChain,     (* The chain: indices in the store.                         *)
  i,               (* The counter of the loop the call is in.                  *)
  results,         (* The answers for the chain, as far as the loop has come.  *)
  obtained_certs,  (* Who gave them: indices in the store.                     *)
  m_ObtainedCerts, m_ExpectedCerts,
  code,            (* What the call returned.                                  *)
  byOcsp           (* Answer that CERT_STATUS_BY_OCSP is about to keep.        *)

chainVars == <<cer_subject, cer_issuer, chainCerts, ret>>
world == <<now, revokedAt, services, offline>>
found == <<i, results, obtained_certs>>
given == <<m_ObtainedCerts, m_ExpectedCerts>>
call == <<validationType, asked, m_CertChain>>
allVars == <<vars, world, found, given, call, cache, pc, code, byOcsp>>

Cert(idx) == store[idx].cert
Ids == {it.cert.id : it \in Range(store)}
idx_root == Len(m_CertChain)
InChain(keyId) == \E k \in 1 .. idx_root : Cert(m_CertChain[k]).keyId = keyId

ValidAt(c, time) == c.notBefore <= time /\ time <= c.notAfter

StatusInit ==
  /\ \E s \in Scenarios : store = s.store /\ services = s.services
  /\ cer_subject = 1 /\ cer_issuer = 0 /\ chainCerts = {} /\ ret = "ok"
  /\ now = 0 /\ revokedAt \in Revocations /\ offline \in BOOLEAN
  /\ cache = [c \in DOMAIN services |-> [answer |-> NoAnswer, validTime |-> -1]]
  /\ pc = "idle" /\ code = "ok" /\ byOcsp = NoAnswer
  /\ validationType = "NONE" /\ asked = 0 /\ m_CertChain = <<>>
  /\ i = 1 /\ results = <<>> /\ obtained_certs = <<>>
  /\ m_ObtainedCerts = {} /\ m_ExpectedCerts = {}

Tick == now < MaxTime /\ now' = now + 1
        /\ UNCHANGED <<vars, revokedAt, services, offline, found, given, call, cache, pc, code, byOcsp>>

Return(c) == pc' = "idle" /\ code' = c
Goto(from, to) == pc = from /\ pc' = to /\ UNCHANGED code

(* The call fails for lack of the certificates with these keys: the caller *)
(* gets its validator's list of them and nothing else.                     *)
Fail(c, missing) ==
  /\ Return(c)
  /\ m_ExpectedCerts' = m_ExpectedCerts \cup missing
  /\ i' = 1 /\ results' = <<>> /\ obtained_certs' = <<>> /\ m_ObtainedCerts' = {}

-----------------------------------------------------------------------------
(* The chain *)

Begin(idx, type) ==
  /\ pc = "idle"
  /\ cer_subject' = idx /\ cer_issuer' = 0 /\ chainCerts' = {} /\ ret' = "walking"
  /\ validationType' = type /\ asked' = now /\ m_CertChain' = <<idx>>
  /\ i' = 1 /\ results' = <<>> /\ obtained_certs' = <<>>
  /\ m_ObtainedCerts' = {} /\ m_ExpectedCerts' = {}
  /\ IF type = "NONE" THEN Return("ok") ELSE pc' = "chain" /\ UNCHANGED code
  /\ UNCHANGED <<store, world, cache, byOcsp>>

WalkFound ==
  /\ pc = "chain" /\ IssuerFound
  /\ m_CertChain' = Append(m_CertChain, Issuer)
  /\ UNCHANGED <<world, validationType, asked, found, given, cache, pc, code, byOcsp>>

WalkEnds ==
  /\ SelfSigned
  /\ Goto("chain", "verify")
  /\ UNCHANGED <<world, call, found, given, cache, byOcsp>>

(* Mutant: the last certificate found is expected. *)
WalkFails_OwnKey ==
  /\ pc = "chain" /\ IssuerNotFound
  /\ Fail("issuer_not_found", IF chainCerts # {} THEN {Subject.keyId} ELSE {})
  /\ UNCHANGED <<world, call, cache, byOcsp>>

(* The issuer is expected only if the walk got beyond the certificate itself. *)
WalkFails ==
  /\ pc = "chain" /\ IssuerNotFound
  /\ Fail("issuer_not_found", IF chainCerts # {} THEN {Subject.authorityKeyId} ELSE {})
  /\ UNCHANGED <<world, call, cache, byOcsp>>

(* CerItem::verify and checkValidity of every certificate of the chain. *)
VerifyChain ==
  /\ pc = "verify"
  /\ LET certs == {Cert(m_CertChain[k]) : k \in 1 .. idx_root} IN
     IF \E c \in certs : ~c.sound THEN Fail("verify_failed", {})
     ELSE IF \E c \in certs : ~ValidAt(c, asked) THEN Fail("validity", {})
     ELSE Goto("verify", "status") /\ UNCHANGED <<found, given>>
  /\ UNCHANGED <<vars, world, call, cache, byOcsp>>

-----------------------------------------------------------------------------
(* OCSP.  An answer: what the responder knew at thisUpdate about cert; its *)
(* responder, named by key or by name; whether it brings the responder's   *)
(* certificate; and what is to be found wrong with it.                     *)

Faults == {"none", "not_successful", "mismatch", "signature"}

Answer(c, service, thisUpdate, fault) ==
  [cert |-> c, service |-> service, thisUpdate |-> thisUpdate,
   status |-> IF revokedAt[c] <= thisUpdate THEN "REVOKED" ELSE "GOOD", fault |-> fault]

(* What may arrive for a request of that time: made since, or not long before. *)
Answers(c, time) ==
  {Answer(c, s, t, f) : s \in services[c], t \in {u \in 0 .. now : u + Period >= time}, f \in Faults}

(* processResponseData: the store with the certificates of the answer. *)
WithCerts(a) ==
  IF a.service.brings /\ a.fault # "not_successful"
  THEN addItem(store, [cert |-> a.service.cert, unique |-> TRUE, permanent |-> FALSE])
  ELSE store

Responder(a) == getCertByKeyId(WithCerts(a), a.service.cert.keyId, 0)

(* Mutant: the signature of the answer is not verified. *)
Outcome_Unverified(a) ==
  IF a.fault \in {"not_successful", "mismatch"} THEN a.fault
  ELSE IF Responder(a) = 0 THEN "cert_not_found" ELSE "ok"

(* scanSingleResponses, checkNonce (mismatch) and verifyResponseData. *)
Outcome(a) ==
  IF a.fault \in {"not_successful", "mismatch"} THEN a.fault
  ELSE IF Responder(a) = 0 THEN "cert_not_found"
  ELSE IF a.fault = "signature" THEN "verify_failed" ELSE "ok"

(* Mutant: an answer is kept for the offset from when it arrived. *)
Kept_FromNow(a) == [answer |-> a, validTime |-> now + Offset]

(* CertStatusInfo::set *)
Kept(a) == [answer |-> a, validTime |-> a.thisUpdate + Offset]

isExpired(c) == now > cache[c].validTime

(* The certificate validateByOcsp is about: one of the chain, or (second  *)
(* loop) one that answered for it.                                        *)
Asked == Cert(IF pc \in {"ask_obtained", "post_obtained"} THEN obtained_certs[i] ELSE m_CertChain[i])

(* The end of validateByOcsp for an answer that is in order. *)
ReplyUsed(a) ==
  LET r == Responder(a) IN
  IF pc \in {"status", "post"}
  THEN /\ pc' = "status"
       /\ results' = Append(results, [answer |-> a, responder |-> r])
       /\ obtained_certs' = IF r \in Range(obtained_certs) THEN obtained_certs ELSE Append(obtained_certs, r)
       /\ UNCHANGED m_ObtainedCerts
  ELSE /\ pc' = "obtained"
       /\ m_ObtainedCerts' = m_ObtainedCerts \cup {obtained_certs[i]}
       /\ UNCHANGED <<results, obtained_certs>>

Process(a) ==
  /\ store' = WithCerts(a)
  /\ UNCHANGED <<chainVars, world, call, byOcsp>>
  /\ IF Outcome(a) = "ok"
     THEN ReplyUsed(a) /\ i' = i + 1 /\ UNCHANGED <<m_ExpectedCerts, code>>
     ELSE Fail(Outcome(a), IF Outcome(a) = "cert_not_found" THEN {a.service.cert.keyId} ELSE {})

(* validateByOcsp up to the request: out of the cache, or why not. *)
validateByOcsp ==
  \/ /\ ~offline /\ ~isExpired(Asked.id)
     /\ Process(cache[Asked.id].answer)
     /\ UNCHANGED cache
  \/ /\ ~offline /\ isExpired(Asked.id) /\ Asked.uri
     /\ pc' = IF pc = "status" THEN "post" ELSE "post_obtained"
     /\ UNCHANGED <<vars, world, call, found, given, cache, code, byOcsp>>
  \/ /\ offline \/ (isExpired(Asked.id) /\ ~Asked.uri)
     /\ Fail(IF offline THEN "offline" ELSE "url_not_present", {})
     /\ UNCHANGED <<vars, world, call, cache, byOcsp>>

(* HttpHelper::post, while the mutex of the certificate is held. *)
Reply ==
  /\ pc \in {"post", "post_obtained"}
  /\ \E a \in Answers(Asked.id, asked) :
       /\ Process(a)
       /\ cache' = IF Outcome(a) = "ok" THEN [cache EXCEPT ![Asked.id] = Kept(a)] ELSE cache

PostFails ==
  /\ pc \in {"post", "post_obtained"}
  /\ Fail("http", {})
  /\ UNCHANGED <<vars, world, call, cache, byOcsp>>

StatusByOcsp ==
  /\ pc = "status" /\ validationType = "OCSP" /\ i < idx_root
  /\ validateByOcsp

(* validateByCrl: the certificate its CRL was signed with. *)
StatusByCrl ==
  /\ pc = "status" /\ validationType = "CRL" /\ i < idx_root
  /\ \/ \E keyId \in CrlSigners[Cert(m_CertChain[i]).id] :
          LET signer == getCertByKeyId(store, keyId, 0) IN
          IF signer = 0
          THEN Fail("cert_not_found", {keyId})
          ELSE /\ i' = i + 1 /\ results' = Append(results, [answer |-> NoAnswer, responder |-> signer])
               /\ obtained_certs' = IF signer \in Range(obtained_certs) THEN obtained_certs
                                    ELSE Append(obtained_certs, signer)
               /\ UNCHANGED <<pc, code, given>>
     \/ Fail("crl_not_found", {})
  /\ UNCHANGED <<vars, world, call, cache, byOcsp>>

-----------------------------------------------------------------------------
(* Restrictions, and the certificates of those who answered. *)

Usable(idx) == IF validationType = "OCSP" THEN Cert(idx).ocspSigning ELSE Cert(idx).crlSign

checkRestrictions ==
  /\ pc = "status" /\ (i = idx_root \/ validationType = "CHAIN")
  /\ IF /\ Cert(m_CertChain[1]).digitalSignature
        /\ Cert(m_CertChain[idx_root]).ca
        /\ \A idx \in Range(obtained_certs) : Usable(idx)
     THEN Goto("status", "obtained") /\ i' = 1 /\ UNCHANGED <<results, obtained_certs, given>>
     ELSE Fail("key_usage", {})
  /\ UNCHANGED <<vars, world, call, cache, byOcsp>>

(* The certificates above idx, as getChainCerts finds them in the store. *)
ChainAbove(idx) ==
  LET issuer(k) == getCertByKeyId(store, Cert(k).authorityKeyId, 0)
      walk[n \in 0 .. Len(store)] ==
        IF n = 0 THEN <<idx>>
        ELSE LET w == walk[n - 1] IN
             IF Cert(Last(w)).selfSigned \/ issuer(Last(w)) = 0 THEN w ELSE Append(w, issuer(Last(w)))
  IN Tail(walk[Len(store)])

(* ProviderId::isSame *)
SameProvider(p, q) ==
  IF p.orgId # "" /\ q.orgId # "" THEN p.orgId = q.orgId
  ELSE p.edrpou = q.edrpou /\ p.organization # "" /\ p.organization = q.organization

(* The conditions of acceptResponderOfSameProvider.  ProviderId::init       *)
(* fails for a certificate without the code of its owner (edrpou).          *)
AcceptedResponder(idx) ==
  LET above == ChainAbove(idx)
      path == <<idx>> \o above
      root == Last(path)
      Issuers == {Cert(m_CertChain[k + 1]).provider : k \in {k \in DOMAIN results : results[k].responder = idx}}
      own == Cert(above[1]).provider
  IN /\ Cert(idx).ocspSigning
     /\ above # <<>> /\ Cert(root).selfSigned /\ Cert(root).ca
     /\ Cert(root).trusted \/ root = m_CertChain[idx_root]
     /\ \A k \in DOMAIN path : Cert(path[k]).sound /\ ValidAt(Cert(path[k]), asked)
     /\ \A k \in DOMAIN above : Cert(above[k]).ca
     /\ own.edrpou # ""
     /\ \A p \in Issuers : p.edrpou # "" /\ SameProvider(own, p)

Known(idx) == InChain(Cert(idx).authorityKeyId) \/ InChain(Cert(idx).keyId)

RefuseObtained ==
  /\ pc = "obtained" /\ validationType \in {"OCSP", "CRL"} /\ i <= Len(obtained_certs)
  /\ ~Known(obtained_certs[i])
  /\ validationType = "CRL" \/ ~AcceptedResponder(obtained_certs[i])
  /\ Fail("chain_not_found", {Cert(obtained_certs[i]).keyId})
  /\ UNCHANGED <<vars, world, call, cache, byOcsp>>

AcceptCrlSigner ==
  /\ pc = "obtained" /\ validationType = "CRL" /\ i <= Len(obtained_certs)
  /\ Known(obtained_certs[i])
  /\ i' = i + 1
  /\ UNCHANGED <<vars, world, call, results, obtained_certs, given, cache, pc, code, byOcsp>>

(* Mutant: the chain of a responder of the same provider is not added. *)
AcceptObtained_Alone ==
  /\ pc = "obtained" /\ validationType = "OCSP" /\ i <= Len(obtained_certs)
  /\ LET idx == obtained_certs[i] IN
     /\ Known(idx) \/ AcceptedResponder(idx)
     /\ m_ObtainedCerts' = m_ObtainedCerts \cup {idx}
     /\ IF Cert(idx).uri THEN pc' = "ask_obtained" /\ UNCHANGED i ELSE i' = i + 1 /\ UNCHANGED pc
  /\ UNCHANGED <<vars, world, call, results, obtained_certs, m_ExpectedCerts, cache, code, byOcsp>>

(* A responder of the same provider brings its chain with it; one that     *)
(* names OCSP servers is asked about in turn.                              *)
AcceptObtained ==
  /\ pc = "obtained" /\ validationType = "OCSP" /\ i <= Len(obtained_certs)
  /\ LET idx == obtained_certs[i] IN
     /\ Known(idx) \/ AcceptedResponder(idx)
     /\ m_ObtainedCerts' = m_ObtainedCerts \cup
          (IF Known(idx) THEN {} ELSE Range(ChainAbove(idx))) \cup (IF Cert(idx).uri THEN {} ELSE {idx})
     /\ IF Cert(idx).uri THEN pc' = "ask_obtained" /\ UNCHANGED i ELSE i' = i + 1 /\ UNCHANGED pc
  /\ UNCHANGED <<vars, world, call, results, obtained_certs, m_ExpectedCerts, cache, code, byOcsp>>

(* getIssuerCert, then validateByOcsp; nobody looks at what it answers. *)
AskObtained ==
  /\ pc = "ask_obtained"
  /\ IF ~Asked.selfSigned /\ getCertByKeyId(store, Asked.authorityKeyId, 0) = 0
     THEN Fail("issuer_not_found", {}) /\ UNCHANGED <<vars, world, call, cache, byOcsp>>
     ELSE validateByOcsp

End ==
  /\ pc = "obtained" /\ (i > Len(obtained_certs) \/ validationType = "CHAIN")
  /\ Return("ok")
  /\ UNCHANGED <<vars, world, call, found, given, cache, byOcsp>>

getStatus ==
  \/ WalkFound \/ WalkEnds \/ WalkFails \/ VerifyChain
  \/ StatusByOcsp \/ Reply \/ PostFails \/ StatusByCrl
  \/ checkRestrictions \/ RefuseObtained \/ AcceptCrlSigner \/ AcceptObtained \/ AskObtained \/ End

-----------------------------------------------------------------------------
(* The other methods *)

(* CERT_STATUS_BY_OCSP gets an answer about a certificate, however late... *)
ByOcspReply ==
  /\ ~offline /\ byOcsp = NoAnswer
  /\ \E c \in Ids \cap AskedFor : \E a \in Answers(c, 0) :
       /\ store' = WithCerts(a)
       /\ byOcsp' = IF Outcome(a) = "ok" THEN a ELSE NoAnswer
  /\ UNCHANGED <<chainVars, world, call, found, given, cache, pc, code>>

(* ... and keeps it as soon as it has the mutex of the certificate. *)
ByOcspSet ==
  /\ byOcsp # NoAnswer
  /\ pc \in {"post", "post_obtained"} => Asked.id # byOcsp.cert
  /\ cache' = [cache EXCEPT ![byOcsp.cert] = Kept(byOcsp)]
  /\ byOcsp' = NoAnswer
  /\ UNCHANGED <<vars, world, call, found, given, pc, code>>

(* REMOVE_CERT of what was added temporarily, while no call runs; a         *)
(* certificate takes its answer with it.                                    *)
RemoveTemporary ==
  /\ pc = "idle" /\ byOcsp = NoAnswer
  /\ store' = Remaining(store, {k \in DOMAIN store : store[k].permanent})
  /\ cache' = [c \in DOMAIN cache |->
       IF \E k \in DOMAIN store : store[k].permanent /\ store[k].cert.id = c THEN cache[c]
       ELSE [answer |-> NoAnswer, validTime |-> -1]]
  /\ m_CertChain' = <<>> /\ results' = <<>> /\ obtained_certs' = <<>> /\ m_ObtainedCerts' = {}
  /\ cer_subject' = 1 /\ cer_issuer' = 0 /\ chainCerts' = {} /\ ret' = "ok"
  /\ UNCHANGED <<world, validationType, asked, i, m_ExpectedCerts, pc, code, byOcsp>>

StatusNext ==
  \/ \E idx \in DOMAIN store, type \in Types : Cert(idx).id \in Callers /\ Begin(idx, type)
  \/ getStatus
  \/ ByOcspReply \/ ByOcspSet \/ RemoveTemporary
  \/ Tick

StatusSpec == StatusInit /\ [][StatusNext]_allVars

-----------------------------------------------------------------------------
Accepted(type) == pc = "idle" /\ code = "ok" /\ validationType = type /\ m_CertChain # <<>>

(* A certificate revoked for longer than answers are kept (or servers take *)
(* to tell) when the call began is reported revoked, whether the answer    *)
(* came from the server or the cache, and whoever put it there and when.   *)
NeverStale ==
  validationType = "OCSP" =>
    \A k \in DOMAIN results :
      LET id == Cert(m_CertChain[k]).id IN
      /\ results[k].answer.cert = id
      /\ revokedAt[id] + Offset <= asked /\ revokedAt[id] + Period <= asked =>
           results[k].answer.status = "REVOKED"

(* What is kept or used was found in order, and is about the certificate. *)
AnswersVerified ==
  /\ \A c \in DOMAIN cache :
       cache[c].answer # NoAnswer => cache[c].answer.cert = c /\ cache[c].answer.fault = "none"
  /\ Accepted("OCSP") =>
       /\ Len(results) = idx_root - 1
       /\ \A k \in DOMAIN results : results[k].answer.fault = "none" /\ Cert(results[k].responder).ocspSigning

(* Everyone who answered is handed on with the certificates, and these,    *)
(* with the chain, reach a root: a signature that embeds them (CAdES-XL)   *)
(* can be verified without the store.  (A responder with the key of a      *)
(* certificate of the chain stands for that one.)                          *)
ObtainedLinked ==
  Accepted("OCSP") =>
    /\ Range(obtained_certs) \subseteq m_ObtainedCerts
    /\ \A x \in m_ObtainedCerts :
         \/ Cert(x).selfSigned \/ InChain(Cert(x).keyId)
         \/ \E y \in Range(m_CertChain) \cup m_ObtainedCerts : Cert(y).keyId = Cert(x).authorityKeyId

(* The code names nothing if it lacks the issuer of the certificate the    *)
(* call is about, or that of a responder that has the key of a certificate *)
(* of the chain but is another certificate.                                *)
LeftUnnamed ==
  \/ chainCerts = {}
  \/ pc = "ask_obtained" /\ code' = "issuer_not_found" /\ InChain(Asked.keyId)

(* Any other call that ends for lack of a certificate names its key: the   *)
(* list of expected certificates is not empty, and no certificate of the   *)
(* store has a key that is on it.                                          *)
MissingIsExpected ==
  [][pc # "idle" /\ pc' = "idle" /\ code' \in {"cert_not_found", "issuer_not_found"} /\ ~LeftUnnamed =>
       /\ m_ExpectedCerts' # {}
       /\ \A keyId \in m_ExpectedCerts' : getCertByKeyId(store', keyId, 0) = 0]_allVars
=============================================================================
