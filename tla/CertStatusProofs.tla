--------------------------- MODULE CertStatusProofs ---------------------------
(* What getStatus accepts rests on answers that are recent and in order,   *)
(* and what it hands on leads to a root - for all stores, responders and   *)
(* revocations, and with the other methods at work at any time.  And the   *)
(* walk of module CertChain is sound.                                      *)
EXTENDS CertStatus, CertKeysProofs

-----------------------------------------------------------------------------
(* The inductive invariant *)

Phases == {"idle", "chain", "verify", "status", "post", "obtained", "ask_obtained", "post_obtained"}

(* The responder of the chain is accepted, and its own status is next. *)
OnObtained == pc \in {"obtained", "ask_obtained", "post_obtained"}

AnswerRecords ==
  [cert : CertIds, service : [cert : Certificates, brings : BOOLEAN], thisUpdate : Nat,
   status : {"GOOD", "REVOKED"}, fault : Faults]

Results == [answer : AnswerRecords \cup {NoAnswer}, responder : Nat]

TypeOK ==
  /\ store \in Seq(Items)
  /\ services \in [CertIds -> SUBSET [cert : Certificates, brings : BOOLEAN]]
  /\ revokedAt \in [CertIds -> Nat]
  /\ now \in Nat /\ asked \in 0 .. now
  /\ pc \in Phases /\ i \in Nat \ {0}
  /\ m_CertChain \in Seq(DOMAIN store) /\ obtained_certs \in Seq(DOMAIN store)
  /\ m_ObtainedCerts \in SUBSET DOMAIN store
  /\ results \in Seq(Results)
  /\ pc = "chain" => cer_subject \in DOMAIN store /\ cer_issuer \in DOMAIN store \cup {0}

(* An answer about c that was found in order. *)
InOrder(a, c) ==
  a.thisUpdate \in Nat /\ \E s \in services[c] : a = Answer(c, s, a.thisUpdate, "none")

(* Nothing else is kept, and it is kept until an offset after it was made. *)
AnswersKept ==
  /\ DOMAIN cache = CertIds
  /\ \A c \in CertIds :
       \/ cache[c] = [answer |-> NoAnswer, validTime |-> -1]
       \/ InOrder(cache[c].answer, c) /\ cache[c].validTime = cache[c].answer.thisUpdate + Offset
  /\ byOcsp # NoAnswer => \E c \in CertIds : InOrder(byOcsp, c)

(* An answer that was used had not expired when the call began, or had     *)
(* been made since or shortly before.                                      *)
Recent(a) == a.thisUpdate + Offset >= asked \/ a.thisUpdate + Period >= asked

ResultsRecent ==
  validationType = "OCSP" =>
    \A k \in DOMAIN results :
      /\ k \in DOMAIN m_CertChain
      /\ InOrder(results[k].answer, Cert(m_CertChain[k]).id) /\ Recent(results[k].answer)
      /\ results[k].responder \in Range(obtained_certs)

(* How far the call has come. *)
Progress ==
  /\ pc # "idle" => m_CertChain # <<>> /\ m_ExpectedCerts = {}
  /\ pc \in {"chain", "verify"} =>
       i = 1 /\ results = <<>> /\ obtained_certs = <<>> /\ m_ObtainedCerts = {}
  /\ pc \in {"status", "post"} => m_ObtainedCerts = {}
  /\ pc = "post" => i < idx_root
  /\ pc \in {"ask_obtained", "post_obtained"} => i <= Len(obtained_certs)
  /\ validationType = "OCSP" /\ pc \in {"status", "post"} => Len(results) = i - 1
  /\ validationType = "OCSP" /\ (OnObtained \/ Accepted("OCSP")) =>
       /\ Len(results) = idx_root - 1
       /\ \A idx \in Range(obtained_certs) : Usable(idx)
  /\ Accepted("OCSP") => i > Len(obtained_certs)

(* A certificate handed on, and what leads on from it. *)
Linked(x) ==
  \/ Cert(x).selfSigned \/ InChain(Cert(x).keyId)
  \/ \E y \in Range(m_CertChain) \cup m_ObtainedCerts : Cert(y).keyId = Cert(x).authorityKeyId

(* Those who answered are handed on one after the other. *)
HandedOn ==
  validationType = "OCSP" /\ (OnObtained \/ Accepted("OCSP")) =>
    /\ \A k \in DOMAIN obtained_certs : k < i => obtained_certs[k] \in m_ObtainedCerts
    /\ \A x \in m_ObtainedCerts : Linked(x)
    /\ pc \in {"ask_obtained", "post_obtained"} => Linked(obtained_certs[i])

(* A responder is not asked about unless its issuer is there, or it has    *)
(* the key of a certificate of the chain.                                  *)
IssuerThere ==
  pc = "ask_obtained" =>
    \/ Asked.selfSigned \/ InChain(Asked.keyId)
    \/ getCertByKeyId(store, Asked.authorityKeyId, 0) # 0

IInv == TypeOK /\ AnswersKept /\ ResultsRecent /\ Progress /\ HandedOn /\ IssuerThere

-----------------------------------------------------------------------------
(* What the steps do to the store *)

LEMMA ItemsFlagged == Flagged(Items)
BY ScenariosAssumption DEF Flagged, WithFlag, Items

(* Certificates stay where they are. *)
Grows(its, new) ==
  /\ new \in Seq(Items)
  /\ \A k \in DOMAIN its : k \in DOMAIN new /\ new[k].cert = its[k].cert

LEMMA StoreGrows ==
  ASSUME NEW its \in Seq(Items), NEW it \in Items
  PROVE  Grows(its, addItem(its, it))
<1>1. addItem(its, it) \in Seq(Items) /\ FlagsOnly(its, it.cert, addItem(its, it))
  BY ItemsFlagged, ItemAdded
<1>2. \A k \in DOMAIN its :
        k \in DOMAIN addItem(its, it) /\ addItem(its, it)[k].cert = its[k].cert
  BY <1>1, ItemsFlagged, CertsKept
<1> QED
  BY <1>1, <1>2 DEF Grows

LEMMA PlacesKept ==
  ASSUME NEW its \in Seq(Items), NEW new, Grows(its, new), NEW s \in Seq(DOMAIN its)
  PROVE  s \in Seq(DOMAIN new)
<1>1. \A k \in DOMAIN its : k \in DOMAIN new
  BY DEF Grows
<1> DEFINE S == DOMAIN its
           T == DOMAIN new
<1>2. \A k \in S : k \in T
  BY <1>1
<1> HIDE DEF S, T
<1>3. ASSUME NEW q \in Seq(S) PROVE q \in Seq(T)
  <2>1. Len(q) \in Nat /\ DOMAIN q = 1 .. Len(q) /\ q = [k \in 1 .. Len(q) |-> q[k]]
    OBVIOUS
  <2>2. \A k \in 1 .. Len(q) : q[k] \in T
    BY <1>2
  <2> QED
    BY <2>1, <2>2
<1> QED
  BY <1>3 DEF S, T

-----------------------------------------------------------------------------
(* What is found by key *)

LEMMA LookedUp ==
  ASSUME NEW its \in Seq(Items), NEW keyId, getCertByKeyId(its, keyId, 0) # 0
  PROVE  LET n == getCertByKeyId(its, keyId, 0) IN
         n \in DOMAIN its /\ its[n].cert.keyId = keyId /\ keyId # NoKeyId
<1>1. keyId # NoKeyId
  BY DEF getCertByKeyId
<1>2. getCertByKeyId(its, keyId, 0) \in {k \in DOMAIN its : its[k].cert.keyId = keyId}
  BY ItemsFlagged, KeyFound
<1> QED
  BY <1>1, <1>2

LEMMA KeyThere ==
  ASSUME NEW its \in Seq(Items), NEW k \in DOMAIN its
  PROVE  getCertByKeyId(its, its[k].cert.keyId, 0) # 0
<1>1. its[k].cert.keyId # NoKeyId
  <2>1. its[k] \in Items
    OBVIOUS
  <2>2. its[k].cert \in Certificates
    BY <2>1 DEF Items
  <2> QED
    BY <2>2, ScenariosAssumption
<1>2. k \in {j \in DOMAIN its : its[j].cert.keyId = its[k].cert.keyId}
  OBVIOUS
<1> QED
  BY <1>1, <1>2, ItemsFlagged, KeyFound

LEMMA KeyMissing ==
  ASSUME NEW its \in Seq(Items), NEW keyId, NEW actual, getCertByKeyId(its, keyId, actual) = 0
  PROVE  getCertByKeyId(its, keyId, 0) = 0
<1>1. keyId = NoKeyId \/ {k \in DOMAIN its : its[k].cert.keyId = keyId} = {}
  BY ItemsFlagged, KeyFound
<1> QED
  BY <1>1 DEF getCertByKeyId

LEMMA KeyStays ==
  ASSUME NEW its \in Seq(Items), NEW new, Grows(its, new), NEW keyId, getCertByKeyId(its, keyId, 0) # 0
  PROVE  getCertByKeyId(new, keyId, 0) # 0
<1> DEFINE n == getCertByKeyId(its, keyId, 0)
<1>1. n \in DOMAIN its /\ its[n].cert.keyId = keyId
  BY LookedUp
<1> HIDE DEF n
<1>2. new \in Seq(Items) /\ n \in DOMAIN new /\ new[n].cert.keyId = keyId
  BY <1>1 DEF Grows
<1> QED
  BY <1>2, KeyThere

-----------------------------------------------------------------------------
(* The certificates above one in the store *)

Path(p, idx) ==
  /\ p \in Seq(DOMAIN store)
  /\ Len(p) >= 1 /\ p[1] = idx
  /\ \A n \in 1 .. Len(p) - 1 : Cert(p[n + 1]).keyId = Cert(p[n]).authorityKeyId

LEMMA PathGoesOn ==
  ASSUME store \in Seq(Items), NEW idx \in DOMAIN store, NEW p, Path(p, idx),
         NEW k \in DOMAIN store, Cert(k).keyId = Cert(Last(p)).authorityKeyId
  PROVE  Path(Append(p, k), idx)
<1> DEFINE q == Append(p, k)
<1>1. p \in Seq(DOMAIN store) /\ Len(p) \in Nat /\ Len(p) >= 1 /\ Last(p) = p[Len(p)]
  BY DEF Path, Last
<1>2. q \in Seq(DOMAIN store) /\ Len(q) = Len(p) + 1 /\ q[Len(p) + 1] = k
      /\ \A n \in 1 .. Len(p) : q[n] = p[n]
  BY <1>1, AppendProperties
<1> HIDE DEF q
<1>3. q[1] = idx
  BY <1>1, <1>2 DEF Path
<1>4. ASSUME NEW n \in 1 .. Len(q) - 1 PROVE Cert(q[n + 1]).keyId = Cert(q[n]).authorityKeyId
  <2>1. CASE n = Len(p)
    BY <1>1, <1>2, <2>1
  <2>2. CASE n # Len(p)
    <3>1. n \in 1 .. Len(p) - 1 /\ n \in 1 .. Len(p) /\ n + 1 \in 1 .. Len(p)
      BY <1>1, <1>2, <2>2
    <3> QED
      BY <1>2, <3>1 DEF Path
  <2> QED
    BY <2>1, <2>2
<1>5. Len(q) >= 1
  BY <1>1, <1>2
<1> QED
  BY <1>2, <1>3, <1>4, <1>5 DEF Path, q

LEMMA AboveIsPath ==
  ASSUME store \in Seq(Items), NEW idx \in DOMAIN store
  PROVE  \E p : Path(p, idx) /\ ChainAbove(idx) = Tail(p)
<1> DEFINE N == Len(store)
           issuer(k) == getCertByKeyId(store, Cert(k).authorityKeyId, 0)
           Further(w) == IF Cert(Last(w)).selfSigned \/ issuer(Last(w)) = 0 THEN w ELSE Append(w, issuer(Last(w)))
           Step(g, n) == IF n = 0 THEN <<idx>> ELSE Further(g[n - 1])
           Upto(g, m) == g = [n \in 0 .. m |-> Step(g, n)]
           walk == CHOOSE g : Upto(g, N)
<1>1. N \in Nat
  OBVIOUS
<1>2. ChainAbove(idx) = Tail(walk[N])
  BY DEF ChainAbove
<1> HIDE DEF Further
<1>3. \E g : Upto(g, N)
  <2> DEFINE Defined == {m \in Nat : \E g : Upto(g, m)}
  <2>1. 0 \in Defined
    <3>1. Upto([n \in 0 .. 0 |-> <<idx>>], 0)
      OBVIOUS
    <3> QED
      BY <3>1
  <2>2. ASSUME NEW m \in Nat, m \in Defined PROVE m + 1 \in Defined
    <3>1. PICK g : Upto(g, m)
      BY <2>2
    <3> DEFINE h == [n \in 0 .. m + 1 |-> IF n <= m THEN g[n] ELSE Step(g, n)]
    <3>2. \A n \in 0 .. m + 1 : h[n] = Step(h, n)
      <4> SUFFICES ASSUME NEW n \in 0 .. m + 1 PROVE h[n] = Step(h, n)
        OBVIOUS
      <4>1. n # 0 => n - 1 \in 0 .. m /\ h[n - 1] = g[n - 1]
        OBVIOUS
      <4>2. h[n] = Step(g, n)
        <5>1. CASE n <= m
          <6>1. n \in 0 .. m /\ h[n] = g[n]
            BY <5>1
          <6>2. \A k \in 0 .. m : g[k] = Step(g, k)
            BY <3>1
          <6> QED
            BY <6>1, <6>2
        <5>2. CASE ~(n <= m)
          BY <5>2
        <5> QED
          BY <5>1, <5>2
      <4> QED
        BY <4>1, <4>2
    <3>3. Upto(h, m + 1)
      <4>1. h = [n \in 0 .. m + 1 |-> h[n]]
        OBVIOUS
      <4> QED
        BY <3>2, <4>1
    <3> HIDE DEF Upto, h
    <3> QED
      BY <3>3
  <2> HIDE DEF Defined
  <2>3. N \in Defined
    BY <1>1, <2>1, <2>2, Numbers
  <2> QED
    BY <2>3 DEF Defined
<1>4. Upto(walk, N)
  BY <1>3
<1> HIDE DEF walk
<1>5. \A n \in 0 .. N : walk[n] = Step(walk, n)
  BY <1>4
<1> DEFINE Right == {n \in Nat : n <= N => Path(walk[n], idx)}
<1>6. 0 \in Right
  <2>1. walk[0] = <<idx>>
    BY <1>1, <1>5
  <2>2. Path(<<idx>>, idx)
    BY DEF Path
  <2> QED
    BY <2>1, <2>2
<1>7. ASSUME NEW n \in Nat, n \in Right PROVE n + 1 \in Right
  <2> SUFFICES ASSUME n + 1 <= N PROVE Path(walk[n + 1], idx)
    OBVIOUS
  <2> DEFINE w == walk[n]
  <2>1. Path(w, idx)
    BY <1>1, <1>7
  <2>2. walk[n + 1] = Further(w)
    <3>1. n + 1 \in 0 .. N /\ n + 1 # 0 /\ (n + 1) - 1 = n
      BY <1>1
    <3> QED
      BY <1>5, <3>1
  <2> HIDE DEF w
  <2>3. CASE issuer(Last(w)) = 0
    BY <2>1, <2>2, <2>3 DEF Further
  <2>4. CASE issuer(Last(w)) # 0
    <3>1. issuer(Last(w)) \in DOMAIN store /\ Cert(issuer(Last(w))).keyId = Cert(Last(w)).authorityKeyId
      BY <2>4, LookedUp DEF Cert
    <3>2. Path(Append(w, issuer(Last(w))), idx)
      BY <2>1, <3>1, PathGoesOn
    <3> QED
      BY <2>1, <2>2, <3>2 DEF Further
  <2> QED
    BY <2>3, <2>4
<1> HIDE DEF Right
<1>8. N \in Right
  BY <1>1, <1>6, <1>7, Numbers
<1>9. Path(walk[N], idx)
  BY <1>1, <1>8 DEF Right
<1> HIDE DEF Upto, Step
<1> QED
  BY <1>2, <1>9

(* The chain of a responder of the same provider begins with its issuer    *)
(* and goes on to a root.                                                  *)
LEMMA AboveIsLinked ==
  ASSUME store \in Seq(Items), NEW idx \in DOMAIN store, AcceptedResponder(idx)
  PROVE  /\ Range(ChainAbove(idx)) \in SUBSET DOMAIN store
         /\ \E y \in Range(ChainAbove(idx)) : Cert(y).keyId = Cert(idx).authorityKeyId
         /\ \A x \in Range(ChainAbove(idx)) :
              \/ Cert(x).selfSigned
              \/ \E y \in Range(ChainAbove(idx)) : Cert(y).keyId = Cert(x).authorityKeyId
<1> DEFINE above == ChainAbove(idx)
<1>1. PICK p : Path(p, idx) /\ above = Tail(p)
  BY AboveIsPath
<1>2. above # <<>> /\ Cert(Last(<<idx>> \o above)).selfSigned
  BY DEF AcceptedResponder
<1> HIDE DEF above
<1>3. p \in Seq(DOMAIN store) /\ Len(p) \in Nat /\ Len(p) >= 1 /\ p # <<>>
  BY <1>1 DEF Path
<1>4. /\ above \in Seq(DOMAIN store) /\ Len(above) = Len(p) - 1
      /\ \A n \in 1 .. Len(above) : above[n] = p[n + 1]
  BY <1>1, <1>3
<1>5. Len(above) \in Nat /\ Len(above) >= 1
  BY <1>2, <1>4
<1>6. Cert(above[Len(above)]).selfSigned
  <2>1. /\ Len(<<idx>> \o above) = Len(above) + 1
        /\ (<<idx>> \o above)[Len(above) + 1] = above[Len(above)]
    BY <1>4, <1>5
  <2> QED
    BY <1>2, <2>1 DEF Last
<1>7. Range(above) = {above[n] : n \in 1 .. Len(above)}
  BY <1>4 DEF Range
<1>8. Cert(above[1]).keyId = Cert(idx).authorityKeyId /\ above[1] \in Range(above)
  <2>1. 1 \in 1 .. Len(p) - 1 /\ 1 \in 1 .. Len(above) /\ p[1] = idx
    BY <1>1, <1>4, <1>5 DEF Path
  <2>2. Cert(p[1 + 1]).keyId = Cert(p[1]).authorityKeyId
    BY <1>1, <2>1 DEF Path
  <2> QED
    BY <1>4, <1>7, <2>1, <2>2
<1>9. ASSUME NEW n \in 1 .. Len(above)
      PROVE  \/ Cert(above[n]).selfSigned
             \/ \E y \in Range(above) : Cert(y).keyId = Cert(above[n]).authorityKeyId
  <2>1. CASE n = Len(above)
    BY <1>6, <2>1
  <2>2. CASE n # Len(above)
    <3>1. n + 1 \in 1 .. Len(above) /\ n + 1 \in 1 .. Len(p) - 1
      BY <1>4, <1>5, <2>2
    <3>2. Cert(p[(n + 1) + 1]).keyId = Cert(p[n + 1]).authorityKeyId
      BY <1>1, <3>1 DEF Path
    <3>3. above[n + 1] = p[(n + 1) + 1] /\ above[n] = p[n + 1]
      BY <1>4, <3>1
    <3> QED
      BY <1>7, <3>1, <3>2, <3>3
  <2> QED
    BY <2>1, <2>2
<1>10. \A n \in 1 .. Len(above) : above[n] \in DOMAIN store
  BY <1>4
<1> QED
  BY <1>7, <1>8, <1>9, <1>10 DEF above

-----------------------------------------------------------------------------
(* Steps preserve the invariant *)

LEMMA StatusInitInv == StatusInit => IInv
<1> SUFFICES ASSUME StatusInit PROVE IInv
  OBVIOUS
<1>1. PICK s \in Scenarios : store = s.store /\ services = s.services
  BY DEF StatusInit
<1>2. store \in Seq(Items) /\ services \in [CertIds -> SUBSET [cert : Certificates, brings : BOOLEAN]]
  BY <1>1, ScenariosAssumption
<1>3. <<>> \in Seq(DOMAIN store) /\ <<>> \in Seq(Results) /\ Range(<<>>) = {}
  BY DEF Range
<1>4. TypeOK
  BY <1>2, <1>3, ScenariosAssumption DEF TypeOK, StatusInit, Phases
<1>5. AnswersKept
  BY <1>2 DEF AnswersKept, StatusInit
<1>6. ResultsRecent /\ Progress /\ HandedOn /\ IssuerThere
  BY DEF StatusInit, ResultsRecent, Progress, HandedOn, IssuerThere, Accepted, OnObtained
<1> QED
  BY <1>4, <1>5, <1>6 DEF IInv

LEMMA AnswersStay ==
  ASSUME AnswersKept, UNCHANGED <<services, revokedAt, cache, byOcsp>>
  PROVE  AnswersKept'
<1>1. \A a, c : InOrder(a, c)' <=> InOrder(a, c)
  BY DEF InOrder, Answer
<1> QED
  BY <1>1 DEF AnswersKept

LEMMA StoreSame ==
  ASSUME TypeOK, UNCHANGED store
  PROVE  Grows(store, store')
BY DEF Grows, TypeOK

(* A call that fails leaves nothing of its results. *)
LEMMA StepFails ==
  ASSUME IInv, Grows(store, store'), NEW c, c # "ok", NEW missing, Fail(c, missing),
         UNCHANGED <<world, call, cache, byOcsp>>
  PROVE  IInv'
<1>1. /\ pc' = "idle" /\ code' # "ok" /\ i' = 1 /\ results' = <<>>
      /\ obtained_certs' = <<>> /\ m_ObtainedCerts' = {}
  BY DEF Fail, Return
<1>2. AnswersKept'
  BY AnswersStay DEF IInv, world
<1>3. store' \in Seq(Items) /\ m_CertChain' \in Seq(DOMAIN store')
  <2>1. store' \in Seq(Items)
    BY DEF Grows
  <2>2. m_CertChain \in Seq(DOMAIN store')
    BY PlacesKept DEF IInv, TypeOK
  <2> QED
    BY <2>1, <2>2 DEF call
<1>4. <<>> \in Seq(DOMAIN store') /\ <<>> \in Seq(Results)
  OBVIOUS
<1>5. TypeOK'
  BY <1>1, <1>3, <1>4 DEF IInv, TypeOK, Phases, world, call
<1>6. ResultsRecent' /\ Progress' /\ HandedOn' /\ IssuerThere'
  BY <1>1 DEF ResultsRecent, Progress, HandedOn, IssuerThere, Accepted, OnObtained
<1> QED
  BY <1>2, <1>5, <1>6 DEF IInv

(* What the other methods do leaves the call as it was. *)
LEMMA StepBeside ==
  ASSUME IInv, Grows(store, store'), now' \in Nat, now' >= now, AnswersKept',
         UNCHANGED <<chainVars, revokedAt, services, call, found, given, pc, code>>
  PROVE  IInv'
<1> USE DEF chainVars, call, found, given
<1>1. /\ store' \in Seq(Items)
      /\ m_CertChain' \in Seq(DOMAIN store') /\ obtained_certs' \in Seq(DOMAIN store')
  <2>1. store' \in Seq(Items)
    BY DEF Grows
  <2>2. m_CertChain \in Seq(DOMAIN store') /\ obtained_certs \in Seq(DOMAIN store')
    BY PlacesKept DEF IInv, TypeOK
  <2> QED
    BY <2>1, <2>2
<1>2. \A k \in DOMAIN store : k \in DOMAIN store' /\ Cert(k)' = Cert(k)
  BY DEF Grows, Cert
<1>3. /\ m_CertChain \in Seq(DOMAIN store) /\ obtained_certs \in Seq(DOMAIN store)
      /\ m_ObtainedCerts \in SUBSET DOMAIN store
  BY DEF IInv, TypeOK
<1>4. TypeOK'
  BY <1>1, <1>2 DEF IInv, TypeOK
<1>5. /\ \A k \in DOMAIN m_CertChain : m_CertChain[k] \in DOMAIN store /\ Cert(m_CertChain[k])' = Cert(m_CertChain[k])
      /\ \A k \in DOMAIN obtained_certs :
           obtained_certs[k] \in DOMAIN store /\ Cert(obtained_certs[k])' = Cert(obtained_certs[k])
      /\ DOMAIN m_CertChain = 1 .. idx_root /\ idx_root' = idx_root
  BY <1>2, <1>3 DEF idx_root
<1>7. ResultsRecent'
  <2> SUFFICES ASSUME (validationType = "OCSP")', NEW k \in (DOMAIN results)'
               PROVE  /\ k \in DOMAIN m_CertChain'
                      /\ InOrder(results[k].answer, Cert(m_CertChain[k]).id)'
                      /\ Recent(results[k].answer)'
                      /\ results'[k].responder \in Range(obtained_certs')
    BY DEF ResultsRecent
  <2>1. /\ k \in DOMAIN m_CertChain
        /\ InOrder(results[k].answer, Cert(m_CertChain[k]).id) /\ Recent(results[k].answer)
        /\ results[k].responder \in Range(obtained_certs)
    BY DEF IInv, ResultsRecent
  <2>2. (Cert(m_CertChain[k]).id)' = Cert(m_CertChain[k]).id
    BY <1>5, <2>1
  <2>3. Recent(results[k].answer)'
    BY <2>1 DEF Recent
  <2>4. InOrder(results[k].answer, Cert(m_CertChain[k]).id)'
    BY <2>1, <2>2 DEF InOrder, Answer
  <2> QED
    BY <2>1, <2>3, <2>4
<1>8. \A idx \in Range(obtained_certs) : Usable(idx)' <=> Usable(idx)
  BY <1>5 DEF Usable, Range
<1>9. Progress'
  BY <1>5, <1>8 DEF IInv, Progress, Accepted, OnObtained
<1>10. \A keyId : InChain(keyId)' <=> InChain(keyId)
  BY <1>5 DEF InChain
<1>11. ASSUME NEW x \in DOMAIN store, Linked(x) PROVE Linked(x)'
  <2>1. Cert(x)' = Cert(x)
    BY <1>2
  <2>2. \A y \in Range(m_CertChain) \cup m_ObtainedCerts : Cert(y)' = Cert(y)
    BY <1>2, <1>3, <1>5 DEF Range
  <2> QED
    BY <1>10, <1>11, <2>1, <2>2 DEF Linked
<1>12. HandedOn'
  <2>1. \A k \in DOMAIN obtained_certs : obtained_certs[k] \in DOMAIN store
    BY <1>5
  <2>2. pc \in {"ask_obtained", "post_obtained"} => obtained_certs[i] \in DOMAIN store
    BY <1>3 DEF IInv, TypeOK, Progress
  <2> QED
    BY <1>3, <1>11, <2>1, <2>2 DEF IInv, HandedOn, Accepted, OnObtained
<1>13. IssuerThere'
  <2> SUFFICES ASSUME pc = "ask_obtained"
               PROVE  \/ (Asked.selfSigned)' \/ InChain(Asked.keyId)'
                      \/ getCertByKeyId(store', Asked'.authorityKeyId, 0) # 0
    BY DEF IssuerThere
  <2>1. obtained_certs[i] \in DOMAIN store
    BY <1>3 DEF IInv, TypeOK, Progress
  <2>2. Asked' = Asked
    BY <1>2, <2>1 DEF Asked
  <2>3. getCertByKeyId(store, Asked.authorityKeyId, 0) # 0 =>
          getCertByKeyId(store', Asked.authorityKeyId, 0) # 0
    BY KeyStays DEF IInv, TypeOK
  <2> QED
    BY <1>10, <2>2, <2>3 DEF IInv, IssuerThere
<1> QED
  BY <1>4, <1>7, <1>9, <1>12, <1>13 DEF IInv

(* A certificate of the chain has its answer, and who gave it is known. *)
LEMMA StepUsed ==
  ASSUME IInv, Grows(store, store'), pc \in {"status", "post"}, i < idx_root, AnswersKept',
         NEW a \in AnswerRecords \cup {NoAnswer}, NEW r \in DOMAIN store',
         validationType = "OCSP" => InOrder(a, Cert(m_CertChain[i]).id) /\ Recent(a),
         pc' = "status", i' = i + 1, results' = Append(results, [answer |-> a, responder |-> r]),
         obtained_certs' = IF r \in Range(obtained_certs) THEN obtained_certs ELSE Append(obtained_certs, r),
         UNCHANGED <<given, world, call, code>>
  PROVE  IInv'
<1> USE DEF given, world, call
<1> DEFINE res == [answer |-> a, responder |-> r]
<1>1. /\ store' \in Seq(Items)
      /\ m_CertChain \in Seq(DOMAIN store') /\ obtained_certs \in Seq(DOMAIN store')
  <2>1. store' \in Seq(Items)
    BY DEF Grows
  <2> QED
    BY <2>1, PlacesKept DEF IInv, TypeOK
<1>2. /\ \A k \in DOMAIN store : k \in DOMAIN store' /\ Cert(k)' = Cert(k)
      /\ r \in Nat
  BY <1>1 DEF Grows, Cert
<1>3. /\ m_CertChain \in Seq(DOMAIN store) /\ results \in Seq(Results)
      /\ m_ObtainedCerts \in SUBSET DOMAIN store /\ i \in Nat \ {0}
  BY DEF IInv, TypeOK
<1>4. res \in Results
  BY <1>2 DEF Results
<1> HIDE DEF res
<1>5. /\ results' \in Seq(Results) /\ Len(results') = Len(results) + 1
      /\ \A k \in 1 .. Len(results) : results'[k] = results[k]
      /\ results'[Len(results) + 1] = res
  <2>1. results' = Append(results, res)
    BY DEF res
  <2> QED
    BY <1>3, <1>4, <2>1, AppendProperties
<1>6. /\ obtained_certs' \in Seq(DOMAIN store')
      /\ Range(obtained_certs) \subseteq Range(obtained_certs') /\ r \in Range(obtained_certs')
  <2>1. CASE r \in Range(obtained_certs)
    BY <1>1, <2>1
  <2>2. CASE r \notin Range(obtained_certs)
    <3> DEFINE more == Append(obtained_certs, r)
    <3>1. /\ more \in Seq(DOMAIN store') /\ Len(more) = Len(obtained_certs) + 1
          /\ \A k \in 1 .. Len(obtained_certs) : more[k] = obtained_certs[k]
          /\ more[Len(obtained_certs) + 1] = r
      BY <1>1, AppendProperties
    <3>2. obtained_certs' = more
      BY <2>2
    <3> HIDE DEF more
    <3>3. /\ DOMAIN obtained_certs = 1 .. Len(obtained_certs) /\ Len(obtained_certs) \in Nat
          /\ DOMAIN more = 1 .. Len(obtained_certs) + 1
      BY <1>1, <3>1
    <3>4. \A k \in DOMAIN obtained_certs : k \in DOMAIN more /\ more[k] = obtained_certs[k]
      BY <3>1, <3>3
    <3>5. Len(obtained_certs) + 1 \in DOMAIN more
      BY <3>3
    <3>6. Range(obtained_certs) \subseteq Range(more) /\ r \in Range(more)
      BY <3>1, <3>4, <3>5 DEF Range
    <3> QED
      BY <3>1, <3>2, <3>6
  <2> QED
    BY <2>1, <2>2
<1>7. TypeOK'
  BY <1>1, <1>2, <1>3, <1>5, <1>6 DEF IInv, TypeOK, Phases
<1>8. /\ DOMAIN m_CertChain = 1 .. idx_root /\ idx_root' = idx_root /\ i \in DOMAIN m_CertChain
      /\ \A k \in DOMAIN m_CertChain : Cert(m_CertChain[k])' = Cert(m_CertChain[k])
  BY <1>2, <1>3 DEF idx_root
<1>9. validationType = "OCSP" => Len(results) = i - 1
  BY DEF IInv, Progress
<1>10. ResultsRecent'
  <2> SUFFICES ASSUME validationType = "OCSP", NEW k \in DOMAIN results'
               PROVE  /\ k \in DOMAIN m_CertChain
                      /\ InOrder(results[k].answer, Cert(m_CertChain[k]).id)'
                      /\ Recent(results[k].answer)'
                      /\ results'[k].responder \in Range(obtained_certs')
    BY DEF ResultsRecent
  <2>1. CASE k = Len(results) + 1
    <3>1. k = i /\ results'[k] = res
      BY <1>3, <1>5, <1>9, <2>1
    <3>2. results'[k].answer = a /\ results'[k].responder = r
      BY <3>1 DEF res
    <3>3. InOrder(a, Cert(m_CertChain[k]).id) /\ Recent(a) /\ k \in DOMAIN m_CertChain
      BY <1>8, <3>1
    <3>4. (Cert(m_CertChain[k]).id)' = Cert(m_CertChain[k]).id
      BY <1>8, <3>3
    <3> QED
      BY <1>6, <3>2, <3>3, <3>4 DEF InOrder, Answer, Recent
  <2>2. CASE k # Len(results) + 1
    <3>1. k \in DOMAIN results /\ results'[k] = results[k]
      BY <1>3, <1>5, <2>2
    <3>2. /\ k \in DOMAIN m_CertChain
          /\ InOrder(results[k].answer, Cert(m_CertChain[k]).id) /\ Recent(results[k].answer)
          /\ results[k].responder \in Range(obtained_certs)
      BY <3>1 DEF IInv, ResultsRecent
    <3>3. (Cert(m_CertChain[k]).id)' = Cert(m_CertChain[k]).id
      BY <1>8, <3>2
    <3> QED
      BY <1>6, <3>1, <3>2, <3>3 DEF InOrder, Answer, Recent
  <2> QED
    BY <2>1, <2>2
<1>11. Progress'
  BY <1>3, <1>5, <1>8, <1>9 DEF IInv, Progress, Accepted, OnObtained
<1>12. HandedOn' /\ IssuerThere'
  BY DEF HandedOn, IssuerThere, Accepted, OnObtained
<1> QED
  BY <1>7, <1>10, <1>11, <1>12 DEF IInv

(* One that answered for the chain has its own answer. *)
LEMMA StepObtainedUsed ==
  ASSUME IInv, Grows(store, store'), pc \in {"ask_obtained", "post_obtained"}, AnswersKept',
         pc' = "obtained", i' = i + 1, m_ObtainedCerts' = m_ObtainedCerts \cup {obtained_certs[i]},
         UNCHANGED <<results, obtained_certs, m_ExpectedCerts, world, call, code>>
  PROVE  IInv'
<1> DEFINE idx == obtained_certs[i]
<1> USE DEF world, call
<1>1. /\ store' \in Seq(Items)
      /\ m_CertChain \in Seq(DOMAIN store') /\ obtained_certs \in Seq(DOMAIN store')
  <2>1. store' \in Seq(Items)
    BY DEF Grows
  <2> QED
    BY <2>1, PlacesKept DEF IInv, TypeOK
<1>2. \A k \in DOMAIN store : k \in DOMAIN store' /\ Cert(k)' = Cert(k)
  BY DEF Grows, Cert
<1>3. /\ m_CertChain \in Seq(DOMAIN store) /\ obtained_certs \in Seq(DOMAIN store)
      /\ m_ObtainedCerts \in SUBSET DOMAIN store /\ i \in Nat \ {0} /\ i <= Len(obtained_certs)
  BY DEF IInv, TypeOK, Progress
<1>4. i \in DOMAIN obtained_certs /\ idx \in DOMAIN store /\ idx \in Range(obtained_certs)
  BY <1>3 DEF Range
<1>5. TypeOK'
  BY <1>1, <1>2, <1>3, <1>4 DEF IInv, TypeOK, Phases
<1>6. /\ DOMAIN m_CertChain = 1 .. idx_root /\ idx_root' = idx_root
      /\ \A k \in DOMAIN m_CertChain : Cert(m_CertChain[k])' = Cert(m_CertChain[k])
      /\ \A k \in DOMAIN obtained_certs : Cert(obtained_certs[k])' = Cert(obtained_certs[k])
  BY <1>2, <1>3 DEF idx_root
<1>7. ResultsRecent'
  <2> SUFFICES ASSUME validationType = "OCSP", NEW k \in DOMAIN results
               PROVE  /\ k \in DOMAIN m_CertChain
                      /\ InOrder(results[k].answer, Cert(m_CertChain[k]).id)'
                      /\ Recent(results[k].answer)'
                      /\ results[k].responder \in Range(obtained_certs)
    BY DEF ResultsRecent
  <2>1. /\ k \in DOMAIN m_CertChain
        /\ InOrder(results[k].answer, Cert(m_CertChain[k]).id) /\ Recent(results[k].answer)
        /\ results[k].responder \in Range(obtained_certs)
    BY DEF IInv, ResultsRecent
  <2>2. (Cert(m_CertChain[k]).id)' = Cert(m_CertChain[k]).id
    BY <1>6, <2>1
  <2> QED
    BY <2>1, <2>2 DEF InOrder, Answer, Recent
<1>8. \A x \in Range(obtained_certs) : Usable(x)' <=> Usable(x)
  BY <1>6 DEF Usable, Range
<1>9. Progress'
  <2>1. OnObtained
    BY DEF OnObtained
  <2> QED
    BY <1>6, <1>8, <2>1 DEF IInv, Progress, Accepted, OnObtained
<1>10. HandedOn'
  <2> SUFFICES ASSUME validationType = "OCSP"
               PROVE  /\ \A k \in DOMAIN obtained_certs : k < i + 1 => obtained_certs[k] \in m_ObtainedCerts'
                      /\ \A x \in m_ObtainedCerts' : Linked(x)'
    BY DEF HandedOn
  <2>1. /\ \A k \in DOMAIN obtained_certs : k < i => obtained_certs[k] \in m_ObtainedCerts
        /\ \A x \in m_ObtainedCerts \cup {idx} : Linked(x)
    BY DEF IInv, HandedOn, OnObtained
  <2>2. \A k \in DOMAIN obtained_certs : k < i + 1 => k < i \/ k = i
    BY <1>3
  <2>3. \A keyId : InChain(keyId)' <=> InChain(keyId)
    BY <1>6 DEF InChain
  <2>4. \A y \in Range(m_CertChain) \cup m_ObtainedCerts \cup {idx} : Cert(y)' = Cert(y)
    BY <1>2, <1>3, <1>4, <1>6 DEF Range
  <2>5. ASSUME NEW x \in m_ObtainedCerts \cup {idx} PROVE Linked(x)'
    BY <2>1, <2>3, <2>4 DEF Linked
  <2> QED
    BY <2>1, <2>2, <2>5
<1>11. IssuerThere'
  BY DEF IssuerThere
<1> QED
  BY <1>5, <1>7, <1>9, <1>10, <1>11 DEF IInv

-----------------------------------------------------------------------------
(* The steps one by one *)

(* What may be answered, and what comes of it. *)
LEMMA Arrives ==
  ASSUME TypeOK, NEW c \in CertIds, NEW a, NEW s \in services[c], NEW t \in Nat, NEW f \in Faults,
         a = Answer(c, s, t, f)
  PROVE  /\ a \in AnswerRecords /\ Grows(store, WithCerts(a))
         /\ Outcome(a) = "ok" => InOrder(a, c) /\ Responder(a) \in DOMAIN WithCerts(a)
<1>1. s \in [cert : Certificates, brings : BOOLEAN]
  BY DEF TypeOK
<1>2. a.service = s /\ a.fault = f /\ a.thisUpdate = t
  BY DEF Answer
<1>3. a \in AnswerRecords
  BY <1>1 DEF Answer, AnswerRecords
<1>4. Grows(store, WithCerts(a))
  <2> DEFINE it == [cert |-> a.service.cert, unique |-> TRUE, permanent |-> FALSE]
  <2>1. it \in Items
    BY <1>1, <1>2 DEF Items
  <2>2. Grows(store, addItem(store, it)) /\ Grows(store, store)
    BY <2>1, StoreGrows DEF TypeOK, Grows
  <2> QED
    BY <2>2 DEF WithCerts
<1>5. ASSUME Outcome(a) = "ok" PROVE InOrder(a, c) /\ Responder(a) \in DOMAIN WithCerts(a)
  <2>1. f = "none" /\ Responder(a) # 0
    BY <1>2, <1>5 DEF Outcome, Faults
  <2>2. WithCerts(a) \in Seq(Items)
    BY <1>4 DEF Grows
  <2>3. Responder(a) \in DOMAIN WithCerts(a)
    BY <2>1, <2>2, LookedUp DEF Responder
  <2>4. InOrder(a, c)
    BY <1>2, <2>1 DEF InOrder
  <2> QED
    BY <2>3, <2>4
<1> QED
  BY <1>3, <1>4, <1>5

LEMMA AskedKnown ==
  ASSUME IInv, (pc \in {"status", "post"} /\ i < idx_root) \/ pc \in {"ask_obtained", "post_obtained"}
  PROVE  /\ Asked.id \in CertIds
         /\ pc \in {"status", "post"} => Asked = Cert(m_CertChain[i])
<1>1. \A k \in DOMAIN store : Cert(k).id \in CertIds
  <2> SUFFICES ASSUME NEW k \in DOMAIN store PROVE store[k].cert.id \in CertIds
    BY DEF Cert
  <2>1. store[k] \in Items
    BY DEF IInv, TypeOK
  <2> QED
    BY <2>1 DEF Items, CertIds
<1>2. CASE pc \in {"status", "post"} /\ i < idx_root
  <2>1. m_CertChain[i] \in DOMAIN store
    BY <1>2 DEF IInv, TypeOK, idx_root
  <2> QED
    BY <1>1, <1>2, <2>1 DEF Asked
<1>3. CASE pc \in {"ask_obtained", "post_obtained"}
  <2>1. obtained_certs[i] \in DOMAIN store
    BY <1>3 DEF IInv, TypeOK, Progress
  <2> QED
    BY <1>1, <1>3, <2>1 DEF Asked
<1> QED
  BY <1>2, <1>3

(* An answer is processed, out of the cache or from the server. *)
LEMMA StepProcesses ==
  ASSUME IInv, (pc \in {"status", "post"} /\ i < idx_root) \/ pc \in {"ask_obtained", "post_obtained"},
         NEW a, NEW s \in services[Asked.id], NEW t \in Nat, NEW f \in Faults, a = Answer(Asked.id, s, t, f),
         Recent(a), Process(a), AnswersKept', Outcome(a) # "ok" => UNCHANGED cache
  PROVE  IInv'
<1>1. /\ Asked.id \in CertIds
      /\ pc \in {"status", "post"} => Asked = Cert(m_CertChain[i])
  BY AskedKnown
<1>2. /\ a \in AnswerRecords /\ Grows(store, WithCerts(a))
      /\ Outcome(a) = "ok" => InOrder(a, Asked.id) /\ Responder(a) \in DOMAIN WithCerts(a)
  BY <1>1, Arrives DEF IInv
<1>3. store' = WithCerts(a) /\ Grows(store, store') /\ UNCHANGED <<chainVars, world, call, byOcsp>>
  BY <1>2 DEF Process
<1>4. CASE Outcome(a) # "ok"
  <2>1. Fail(Outcome(a), IF Outcome(a) = "cert_not_found" THEN {a.service.cert.keyId} ELSE {})
    BY <1>4 DEF Process
  <2> QED
    BY <1>3, <1>4, <2>1, StepFails
<1>5. CASE Outcome(a) = "ok"
  <2>1. ReplyUsed(a) /\ i' = i + 1 /\ UNCHANGED <<m_ExpectedCerts, code>>
    BY <1>5 DEF Process
  <2> DEFINE r == Responder(a)
  <2>2. r \in DOMAIN store'
    BY <1>2, <1>3, <1>5
  <2>3. CASE pc \in {"status", "post"}
    <3>1. /\ pc' = "status"
          /\ results' = Append(results, [answer |-> a, responder |-> r])
          /\ obtained_certs' = IF r \in Range(obtained_certs) THEN obtained_certs ELSE Append(obtained_certs, r)
          /\ UNCHANGED m_ObtainedCerts
      BY <2>1, <2>3 DEF ReplyUsed
    <3>2. InOrder(a, Cert(m_CertChain[i]).id)
      BY <1>1, <1>2, <1>5, <2>3
    <3>3. i < idx_root /\ a \in AnswerRecords \cup {NoAnswer}
      BY <1>2, <2>3
    <3> HIDE DEF r
    <3> QED
      BY <1>3, <2>1, <2>2, <2>3, <3>1, <3>2, <3>3, StepUsed DEF given
  <2>4. CASE pc \in {"ask_obtained", "post_obtained"}
    <3>1. /\ pc' = "obtained" /\ m_ObtainedCerts' = m_ObtainedCerts \cup {obtained_certs[i]}
          /\ UNCHANGED <<results, obtained_certs>>
      BY <2>1, <2>4 DEF ReplyUsed
    <3> QED
      BY <1>3, <2>1, <2>4, <3>1, StepObtainedUsed
  <2> QED
    BY <2>3, <2>4
<1> QED
  BY <1>4, <1>5

(* The request goes out. *)
LEMMA StepAsks ==
  ASSUME IInv, (pc = "status" /\ i < idx_root /\ pc' = "post") \/ (pc = "ask_obtained" /\ pc' = "post_obtained"),
         UNCHANGED <<vars, world, call, found, given, cache, code, byOcsp>>
  PROVE  IInv'
<1> USE DEF vars, world, call, found, given
<1>1. TypeOK'
  BY DEF IInv, TypeOK, Phases
<1>2. AnswersKept'
  BY AnswersStay DEF IInv
<1>3. ResultsRecent'
  BY DEF IInv, ResultsRecent, InOrder, Answer, Cert, Recent
<1>4. Progress'
  BY DEF IInv, Progress, Accepted, OnObtained, Usable, Cert, idx_root
<1>5. HandedOn'
  BY DEF IInv, HandedOn, Accepted, OnObtained, Linked, InChain, idx_root, Cert
<1>6. IssuerThere'
  BY DEF IssuerThere
<1> QED
  BY <1>1, <1>2, <1>3, <1>4, <1>5, <1>6 DEF IInv

LEMMA StepValidates ==
  ASSUME IInv, (pc = "status" /\ i < idx_root) \/ pc = "ask_obtained", validateByOcsp
  PROVE  IInv'
<1>1. Asked.id \in CertIds
  BY AskedKnown
<1>2. CASE ~isExpired(Asked.id) /\ Process(cache[Asked.id].answer) /\ UNCHANGED cache
  <2> DEFINE a == cache[Asked.id].answer
  <2>1. now \in Nat /\ asked \in Nat /\ asked <= now /\ now <= cache[Asked.id].validTime
    <3>1. now \in Nat /\ asked \in 0 .. now /\ ~(now > cache[Asked.id].validTime)
      BY <1>2 DEF IInv, TypeOK, isExpired
    <3>2. cache[Asked.id] = [answer |-> NoAnswer, validTime |-> -1] =>
            now > cache[Asked.id].validTime
      BY <3>1
    <3>3. InOrder(a, Asked.id) /\ cache[Asked.id].validTime = a.thisUpdate + Offset
      BY <1>1, <3>1, <3>2 DEF IInv, AnswersKept
    <3>4. a.thisUpdate + Offset \in Nat
      BY <3>3, TimeAssumption DEF InOrder
    <3> QED
      BY <3>1, <3>3, <3>4
  <2>2. InOrder(a, Asked.id) /\ cache[Asked.id].validTime = a.thisUpdate + Offset
    <3>1. cache[Asked.id] # [answer |-> NoAnswer, validTime |-> -1]
      BY <2>1
    <3> QED
      BY <1>1, <3>1 DEF IInv, AnswersKept
  <2>3. PICK s \in services[Asked.id] : a = Answer(Asked.id, s, a.thisUpdate, "none")
    BY <2>2 DEF InOrder
  <2>4. Recent(a) /\ a.thisUpdate \in Nat
    BY <2>1, <2>2, TimeAssumption DEF Recent, InOrder
  <2>5. Process(a) /\ UNCHANGED <<services, revokedAt, cache, byOcsp>>
    BY <1>2 DEF Process, world
  <2>6. AnswersKept'
    BY <2>5, AnswersStay DEF IInv
  <2>7. "none" \in Faults
    BY DEF Faults
  <2> HIDE DEF a
  <2> QED
    BY <2>3, <2>4, <2>5, <2>6, <2>7, StepProcesses
<1>3. CASE /\ pc' = IF pc = "status" THEN "post" ELSE "post_obtained"
           /\ UNCHANGED <<vars, world, call, found, given, cache, code, byOcsp>>
  BY <1>3, StepAsks
<1>4. CASE /\ Fail(IF offline THEN "offline" ELSE "url_not_present", {})
           /\ UNCHANGED <<vars, world, call, cache, byOcsp>>
  <2>1. Grows(store, store')
    BY <1>4, StoreSame DEF IInv, vars
  <2> QED
    BY <1>4, <2>1, StepFails
<1> QED
  BY <1>2, <1>3, <1>4 DEF validateByOcsp

LEMMA StepReply ==
  ASSUME IInv, Reply
  PROVE  IInv'
<1>1. pc \in {"post", "post_obtained"} /\ (pc = "post" => i < idx_root)
  BY DEF Reply, IInv, Progress
<1>2. Asked.id \in CertIds
  BY <1>1, AskedKnown
<1>3. PICK a \in Answers(Asked.id, asked) :
        /\ Process(a)
        /\ cache' = IF Outcome(a) = "ok" THEN [cache EXCEPT ![Asked.id] = Kept(a)] ELSE cache
  BY DEF Reply
<1>4. PICK s \in services[Asked.id], t \in {u \in 0 .. now : u + Period >= asked}, f \in Faults :
        a = Answer(Asked.id, s, t, f)
  BY <1>3 DEF Answers
<1>5. t \in Nat /\ Recent(a)
  <2>1. t \in 0 .. now /\ t + Period >= asked /\ now \in Nat
    BY <1>4 DEF IInv, TypeOK
  <2> QED
    BY <1>4, <2>1 DEF Recent, Answer
<1>6. Outcome(a) = "ok" => InOrder(a, Asked.id)
  BY <1>2, <1>4, <1>5, Arrives DEF IInv
<1>7. UNCHANGED <<services, revokedAt, byOcsp>>
  BY <1>3 DEF Process, world
<1>8. AnswersKept'
  <2>1. CASE Outcome(a) # "ok"
    BY <1>3, <1>7, <2>1, AnswersStay DEF IInv
  <2>2. CASE Outcome(a) = "ok"
    <3>1. DOMAIN cache' = CertIds
      BY <1>3, <2>2 DEF IInv, AnswersKept
    <3>2. cache'[Asked.id].answer = a /\ cache'[Asked.id].validTime = a.thisUpdate + Offset
      BY <1>2, <1>3, <2>2 DEF IInv, AnswersKept, Kept
    <3>3. \A c \in CertIds : c # Asked.id => cache'[c] = cache[c]
      BY <1>3, <2>2 DEF IInv, AnswersKept
    <3>4. \A b, c : InOrder(b, c)' <=> InOrder(b, c)
      BY <1>7 DEF InOrder, Answer
    <3> QED
      BY <1>2, <1>6, <1>7, <2>2, <3>1, <3>2, <3>3, <3>4 DEF IInv, AnswersKept
  <2> QED
    BY <2>1, <2>2
<1> QED
  BY <1>1, <1>3, <1>4, <1>5, <1>8, StepProcesses

LEMMA StepStatusByCrl ==
  ASSUME IInv, StatusByCrl
  PROVE  IInv'
<1>1. pc = "status" /\ validationType = "CRL" /\ i < idx_root /\ UNCHANGED <<vars, world, call, cache, byOcsp>>
  BY DEF StatusByCrl
<1>2. Grows(store, store')
  BY <1>1, StoreSame DEF IInv, vars
<1>3. AnswersKept'
  BY <1>1, AnswersStay DEF IInv, world
<1>4. ASSUME NEW c, c # "ok", NEW missing, Fail(c, missing) PROVE IInv'
  BY <1>1, <1>2, <1>4, StepFails
<1>5. ASSUME NEW keyId, LET signer == getCertByKeyId(store, keyId, 0) IN
               /\ signer # 0
               /\ i' = i + 1 /\ results' = Append(results, [answer |-> NoAnswer, responder |-> signer])
               /\ obtained_certs' = IF signer \in Range(obtained_certs) THEN obtained_certs
                                    ELSE Append(obtained_certs, signer)
               /\ UNCHANGED <<pc, code, given>>
      PROVE  IInv'
  <2> DEFINE signer == getCertByKeyId(store, keyId, 0)
  <2>1. signer \in DOMAIN store'
    BY <1>1, <1>5, LookedUp DEF IInv, TypeOK, vars
  <2> HIDE DEF signer
  <2>2. /\ i' = i + 1 /\ results' = Append(results, [answer |-> NoAnswer, responder |-> signer])
        /\ obtained_certs' = IF signer \in Range(obtained_certs) THEN obtained_certs
                             ELSE Append(obtained_certs, signer)
        /\ UNCHANGED <<pc, code, given>>
    BY <1>5 DEF signer
  <2> QED
    BY <1>1, <1>2, <1>3, <2>1, <2>2, StepUsed
<1> QED
  BY <1>4, <1>5 DEF StatusByCrl

(* A call begins. *)
LEMMA StepBegins ==
  ASSUME IInv, NEW idx \in DOMAIN store, NEW type, Begin(idx, type)
  PROVE  IInv'
<1> USE DEF world
<1>1. /\ m_CertChain' = <<idx>> /\ i' = 1 /\ results' = <<>> /\ obtained_certs' = <<>>
      /\ m_ObtainedCerts' = {} /\ m_ExpectedCerts' = {} /\ cer_subject' = idx /\ cer_issuer' = 0
      /\ validationType' = type /\ asked' = now /\ UNCHANGED <<store, world, cache, byOcsp>>
      /\ pc' \in {"idle", "chain"} /\ (pc' = "idle" => validationType' # "OCSP")
  BY DEF Begin, Return
<1>2. <<idx>> \in Seq(DOMAIN store) /\ <<>> \in Seq(DOMAIN store) /\ <<>> \in Seq(Results) /\ <<idx>> # <<>>
  OBVIOUS
<1>3. TypeOK'
  BY <1>1, <1>2 DEF IInv, TypeOK, Phases
<1>4. AnswersKept'
  BY <1>1, AnswersStay DEF IInv
<1>5. ResultsRecent' /\ Progress' /\ HandedOn' /\ IssuerThere'
  BY <1>1, <1>2 DEF ResultsRecent, Progress, HandedOn, IssuerThere, Accepted, OnObtained
<1> QED
  BY <1>3, <1>4, <1>5 DEF IInv

LEMMA StepWalkFound ==
  ASSUME IInv, WalkFound
  PROVE  IInv'
<1> USE DEF world, found, given
<1>1. /\ pc = "chain" /\ IssuerFound /\ m_CertChain' = Append(m_CertChain, Issuer)
      /\ UNCHANGED <<world, validationType, asked, found, given, cache, pc, code, byOcsp, store>>
  BY DEF WalkFound, IssuerFound
<1>2. Issuer \in DOMAIN store
  <2>1. Issuer \in {0, cer_issuer} \cup DOMAIN store /\ Issuer # 0
    BY <1>1, ItemsFlagged, KeyFound DEF IInv, TypeOK, Issuer, IssuerFound
  <2> QED
    BY <1>1, <2>1 DEF IInv, TypeOK
<1>3. cer_subject' = Issuer /\ cer_issuer' = Issuer
  BY <1>1 DEF IssuerFound
<1> DEFINE k == Issuer
<1> HIDE DEF k
<1>4. m_CertChain' = Append(m_CertChain, k) /\ k \in DOMAIN store
  BY <1>1, <1>2 DEF k
<1>5. m_CertChain' \in Seq(DOMAIN store) /\ m_CertChain' # <<>>
  <2>1. /\ Append(m_CertChain, k) \in Seq(DOMAIN store)
        /\ Len(Append(m_CertChain, k)) = Len(m_CertChain) + 1 /\ Len(m_CertChain) \in Nat
    BY <1>4, AppendProperties DEF IInv, TypeOK
  <2>2. Append(m_CertChain, k) # <<>>
    <3>1. Len(<<>>) = 0
      OBVIOUS
    <3> QED
      BY <2>1, <3>1
  <2> QED
    BY <1>4, <2>1, <2>2
<1>6. TypeOK'
  BY <1>1, <1>2, <1>3, <1>5 DEF IInv, TypeOK
<1>7. AnswersKept'
  BY <1>1, AnswersStay DEF IInv
<1>8. /\ i = 1 /\ results = <<>> /\ obtained_certs = <<>> /\ m_ObtainedCerts = {} /\ m_ExpectedCerts = {}
  BY <1>1 DEF IInv, Progress
<1>9. ResultsRecent' /\ Progress' /\ HandedOn' /\ IssuerThere'
  BY <1>1, <1>5, <1>8 DEF ResultsRecent, Progress, HandedOn, IssuerThere, Accepted, OnObtained
<1> QED
  BY <1>6, <1>7, <1>9 DEF IInv

(* The chain is complete, or verified. *)
LEMMA StepGoesOn ==
  ASSUME IInv, (pc = "chain" /\ pc' = "verify") \/ (pc = "verify" /\ pc' = "status"),
         UNCHANGED <<store, world, call, found, given, cache, code, byOcsp>>
  PROVE  IInv'
<1> USE DEF world, call, found, given
<1>1. TypeOK'
  BY DEF IInv, TypeOK, Phases
<1>2. AnswersKept'
  BY AnswersStay DEF IInv
<1>3. /\ i = 1 /\ results = <<>> /\ obtained_certs = <<>> /\ m_ObtainedCerts = {} /\ m_ExpectedCerts = {}
      /\ m_CertChain # <<>>
  BY DEF IInv, Progress
<1>4. ResultsRecent' /\ Progress' /\ HandedOn' /\ IssuerThere'
  BY <1>3 DEF ResultsRecent, Progress, HandedOn, IssuerThere, Accepted, OnObtained
<1> QED
  BY <1>1, <1>2, <1>4 DEF IInv

LEMMA StepVerifies ==
  ASSUME IInv, VerifyChain
  PROVE  IInv'
<1>1. pc = "verify" /\ UNCHANGED <<vars, world, call, cache, byOcsp>>
  BY DEF VerifyChain
<1>2. Grows(store, store') /\ UNCHANGED store
  BY <1>1, StoreSame DEF IInv, vars
<1>3. ASSUME NEW c, c # "ok", Fail(c, {}) PROVE IInv'
  BY <1>1, <1>2, <1>3, StepFails
<1>4. ASSUME Goto("verify", "status"), UNCHANGED <<found, given>> PROVE IInv'
  <2>1. pc' = "status" /\ UNCHANGED code
    BY <1>4 DEF Goto
  <2> QED
    BY <1>1, <1>2, <1>4, <2>1, StepGoesOn
<1>5. Fail("verify_failed", {}) \/ Fail("validity", {}) \/ (Goto("verify", "status") /\ UNCHANGED <<found, given>>)
  BY DEF VerifyChain
<1> QED
  BY <1>3, <1>4, <1>5

LEMMA StepRestricts ==
  ASSUME IInv, checkRestrictions
  PROVE  IInv'
<1>1. pc = "status" /\ UNCHANGED <<vars, world, call, cache, byOcsp>>
  BY DEF checkRestrictions
<1>2. Grows(store, store')
  BY <1>1, StoreSame DEF IInv, vars
<1>3. CASE Fail("key_usage", {})
  BY <1>1, <1>2, <1>3, StepFails
<1>4. CASE /\ \A idx \in Range(obtained_certs) : Usable(idx)
           /\ Goto("status", "obtained") /\ i' = 1 /\ UNCHANGED <<results, obtained_certs, given>>
  <2> USE DEF vars, world, call, given
  <2>1. pc' = "obtained" /\ UNCHANGED code
    BY <1>4 DEF Goto
  <2>2. validationType = "OCSP" => Len(results) = idx_root - 1
    BY <1>1 DEF IInv, Progress, checkRestrictions
  <2>3. TypeOK'
    BY <1>1, <1>4, <2>1 DEF IInv, TypeOK, Phases
  <2>4. AnswersKept'
    BY <1>1, AnswersStay DEF IInv
  <2>5. ResultsRecent'
    BY <1>1, <1>4 DEF IInv, ResultsRecent, InOrder, Answer, Cert, Recent
  <2>6. m_ObtainedCerts = {} /\ m_ExpectedCerts = {} /\ m_CertChain # <<>>
    BY <1>1 DEF IInv, Progress
  <2>7. \A idx \in Range(obtained_certs) : Usable(idx)'
    BY <1>1, <1>4 DEF Usable, Cert
  <2>8. Progress'
    BY <1>1, <1>4, <2>1, <2>2, <2>6, <2>7 DEF Progress, Accepted, OnObtained, idx_root
  <2>9. \A k \in DOMAIN obtained_certs : ~(k < 1)
    BY DEF IInv, TypeOK
  <2>10. HandedOn' /\ IssuerThere'
    BY <1>1, <1>4, <2>1, <2>6, <2>9 DEF HandedOn, IssuerThere
  <2> QED
    BY <2>3, <2>4, <2>5, <2>8, <2>10 DEF IInv
<1> QED
  BY <1>3, <1>4 DEF checkRestrictions

LEMMA StepAcceptsSigner ==
  ASSUME IInv, AcceptCrlSigner
  PROVE  IInv'
<1> USE DEF vars, world, call, given
<1>1. /\ pc = "obtained" /\ validationType = "CRL" /\ i' = i + 1
      /\ UNCHANGED <<vars, world, call, results, obtained_certs, given, cache, pc, code, byOcsp>>
  BY DEF AcceptCrlSigner
<1>2. TypeOK'
  BY <1>1 DEF IInv, TypeOK
<1>3. AnswersKept'
  BY <1>1, AnswersStay DEF IInv
<1>4. ResultsRecent' /\ HandedOn' /\ IssuerThere'
  BY <1>1 DEF ResultsRecent, HandedOn, IssuerThere
<1>5. Progress'
  BY <1>1 DEF IInv, Progress, Accepted
<1> QED
  BY <1>2, <1>3, <1>4, <1>5 DEF IInv

LEMMA StepAcceptsObtained ==
  ASSUME IInv, AcceptObtained
  PROVE  IInv'
<1> DEFINE idx == obtained_certs[i]
           above == IF Known(idx) THEN {} ELSE Range(ChainAbove(idx))
           more == m_ObtainedCerts \cup above \cup (IF Cert(idx).uri THEN {} ELSE {idx})
<1> USE DEF vars, world, call
<1>1. /\ pc = "obtained" /\ validationType = "OCSP" /\ i <= Len(obtained_certs)
      /\ Known(idx) \/ AcceptedResponder(idx)
      /\ m_ObtainedCerts' = more
      /\ IF Cert(idx).uri THEN pc' = "ask_obtained" /\ UNCHANGED i ELSE i' = i + 1 /\ UNCHANGED pc
      /\ UNCHANGED <<vars, world, call, results, obtained_certs, m_ExpectedCerts, cache, code, byOcsp>>
  BY DEF AcceptObtained
<1>2. /\ store \in Seq(Items) /\ m_CertChain \in Seq(DOMAIN store) /\ obtained_certs \in Seq(DOMAIN store)
      /\ m_ObtainedCerts \in SUBSET DOMAIN store /\ i \in Nat \ {0}
  BY DEF IInv, TypeOK
<1>3. i \in DOMAIN obtained_certs /\ idx \in DOMAIN store
  BY <1>1, <1>2
<1>4. /\ above \in SUBSET DOMAIN store
      /\ \/ InChain(Cert(idx).authorityKeyId) \/ InChain(Cert(idx).keyId)
         \/ \E y \in above : Cert(y).keyId = Cert(idx).authorityKeyId
      /\ \A x \in above : Cert(x).selfSigned \/ \E y \in above : Cert(y).keyId = Cert(x).authorityKeyId
  <2>1. CASE Known(idx)
    BY <2>1 DEF Known
  <2>2. CASE ~Known(idx)
    BY <1>1, <1>2, <1>3, <2>2, AboveIsLinked
  <2> QED
    BY <2>1, <2>2
<1>5. more \in SUBSET DOMAIN store /\ above \subseteq more /\ m_ObtainedCerts \subseteq more
  BY <1>2, <1>3, <1>4
<1> HIDE DEF above
<1>6. \A x \in more : x \in m_ObtainedCerts \/ x \in above \/ x = idx
  OBVIOUS
<1>7. ~Cert(idx).uri => idx \in more
  OBVIOUS
<1> HIDE DEF more, idx
<1>8. TypeOK'
  BY <1>1, <1>2, <1>5 DEF IInv, TypeOK, Phases
<1>9. AnswersKept'
  BY <1>1, AnswersStay DEF IInv
<1>10. ResultsRecent'
  BY <1>1 DEF IInv, ResultsRecent, InOrder, Answer, Cert, Recent
<1>11. Progress'
  BY <1>1, <1>2 DEF IInv, Progress, Accepted, OnObtained, Usable, Cert, idx_root
<1>12. /\ \A k \in DOMAIN obtained_certs : k < i => obtained_certs[k] \in m_ObtainedCerts
       /\ \A x \in m_ObtainedCerts : Linked(x)
  BY <1>1 DEF IInv, HandedOn, OnObtained
<1> DEFINE all == Range(m_CertChain) \cup more
           Leads(x) == \/ Cert(x).selfSigned \/ InChain(Cert(x).keyId)
                       \/ \E y \in all : Cert(y).keyId = Cert(x).authorityKeyId
<1>13. \A keyId : InChain(keyId) => \E y \in all : Cert(y).keyId = keyId
  <2>1. \A k \in 1 .. idx_root : m_CertChain[k] \in Range(m_CertChain)
    BY <1>2 DEF idx_root, Range
  <2> QED
    BY <2>1 DEF InChain
<1>14. \A x \in m_ObtainedCerts : Leads(x)
  BY <1>5, <1>12 DEF Linked
<1>15. \A x \in above : Leads(x)
  BY <1>4, <1>5
<1>16. Leads(idx)
  BY <1>4, <1>5, <1>13
<1>17. \A x : Leads(x) => Linked(x)'
  BY <1>1 DEF Linked, InChain, Cert, idx_root
<1> HIDE DEF Leads, all
<1>18. HandedOn'
  <2>1. \A x \in more : Linked(x)'
    BY <1>6, <1>14, <1>15, <1>16, <1>17
  <2>3. CASE Cert(idx).uri
    <3>1. pc' = "ask_obtained" /\ UNCHANGED <<i, obtained_certs>>
      BY <1>1, <2>3
    <3>2. \A k \in DOMAIN obtained_certs' : k < i' => obtained_certs'[k] \in m_ObtainedCerts'
      BY <1>1, <1>5, <1>12, <3>1
    <3>3. Linked(obtained_certs[i])'
      BY <1>1, <1>16, <3>1 DEF Leads, all, idx, Linked, InChain, Cert, idx_root
    <3> QED
      BY <1>1, <2>1, <3>2, <3>3 DEF HandedOn
  <2>4. CASE ~Cert(idx).uri
    <3>1. i' = i + 1 /\ pc' = "obtained" /\ UNCHANGED obtained_certs /\ idx \in more
      BY <1>1, <1>7, <2>4
    <3>2. \A k \in DOMAIN obtained_certs : k < i + 1 => k < i \/ k = i
      BY <1>2
    <3>3. \A k \in DOMAIN obtained_certs' : k < i' => obtained_certs'[k] \in m_ObtainedCerts'
      BY <1>1, <1>5, <1>12, <3>1, <3>2 DEF idx
    <3> QED
      BY <1>1, <2>1, <3>1, <3>3 DEF HandedOn
  <2> QED
    BY <2>3, <2>4
<1>19. IssuerThere'
  <2> SUFFICES ASSUME pc' = "ask_obtained"
               PROVE  \/ (Asked.selfSigned)' \/ InChain(Asked.keyId)'
                      \/ getCertByKeyId(store, Asked'.authorityKeyId, 0) # 0
    BY <1>1 DEF IssuerThere
  <2>1. Asked' = Cert(idx)
    BY <1>1 DEF Asked, idx, Cert
  <2>2. \A keyId : InChain(keyId) => InChain(keyId)'
    BY <1>1 DEF InChain, Cert, idx_root
  <2>3. ASSUME NEW y \in DOMAIN store, Cert(y).keyId = Cert(idx).authorityKeyId
        PROVE  getCertByKeyId(store, Cert(idx).authorityKeyId, 0) # 0
    BY <1>2, <2>3, KeyThere DEF Cert
  <2>4. InChain(Cert(idx).authorityKeyId) =>
          \E y \in DOMAIN store : Cert(y).keyId = Cert(idx).authorityKeyId
    BY <1>2 DEF InChain, idx_root
  <2>5. InChain(Cert(idx).keyId) \/ \E y \in DOMAIN store : Cert(y).keyId = Cert(idx).authorityKeyId
    BY <1>4, <2>4
  <2> QED
    BY <2>1, <2>2, <2>3, <2>5
<1> QED
  BY <1>8, <1>9, <1>10, <1>11, <1>18, <1>19 DEF IInv

LEMMA StepEnds ==
  ASSUME IInv, End
  PROVE  IInv'
<1> USE DEF vars, world, call, found, given
<1>1. /\ (pc = "obtained" /\ i > Len(obtained_certs)) \/ validationType = "CHAIN"
      /\ pc' = "idle" /\ code' = "ok"
      /\ UNCHANGED <<vars, world, call, found, given, cache, byOcsp>>
  BY DEF End, Return
<1>2. TypeOK'
  BY <1>1 DEF IInv, TypeOK, Phases
<1>3. AnswersKept'
  BY <1>1, AnswersStay DEF IInv
<1>4. ResultsRecent'
  BY <1>1 DEF IInv, ResultsRecent, InOrder, Answer, Cert, Recent
<1>5. pc = "obtained" /\ OnObtained
  BY DEF End, OnObtained
<1>6. Progress'
  BY <1>1, <1>5 DEF IInv, Progress, Accepted, OnObtained, Usable, Cert, idx_root
<1>7. HandedOn'
  BY <1>1, <1>5 DEF IInv, HandedOn, Accepted, OnObtained, Linked, InChain, idx_root, Cert
<1>8. IssuerThere'
  BY <1>1 DEF IssuerThere
<1> QED
  BY <1>2, <1>3, <1>4, <1>6, <1>7, <1>8 DEF IInv

(* The other methods, and time. *)
LEMMA StepOthers ==
  ASSUME IInv, ByOcspReply \/ ByOcspSet \/ Tick
  PROVE  IInv'
<1>1. now \in Nat
  BY DEF IInv, TypeOK
<1>2. CASE ByOcspReply
  <2>1. PICK c \in Ids \cap AskedFor : \E a \in Answers(c, 0) :
          /\ store' = WithCerts(a)
          /\ byOcsp' = IF Outcome(a) = "ok" THEN a ELSE NoAnswer
    BY <1>2 DEF ByOcspReply
  <2>2. PICK a \in Answers(c, 0) :
          /\ store' = WithCerts(a)
          /\ byOcsp' = IF Outcome(a) = "ok" THEN a ELSE NoAnswer
    BY <2>1
  <2>3. PICK s \in services[c], t \in {u \in 0 .. now : u + Period >= 0}, f \in Faults : a = Answer(c, s, t, f)
    BY <2>2 DEF Answers
  <2>4. c \in CertIds
    <3>1. PICK k \in DOMAIN store : store[k].cert.id = c
      BY <2>1 DEF Ids, Range
    <3>2. store[k] \in Items
      BY DEF IInv, TypeOK
    <3> QED
      BY <3>1, <3>2 DEF Items, CertIds
  <2>5. t \in Nat
    BY <1>1, <2>3
  <2>6. Grows(store, store') /\ (Outcome(a) = "ok" => InOrder(a, c))
    BY <2>2, <2>3, <2>4, <2>5, Arrives DEF IInv
  <2>7. UNCHANGED <<chainVars, world, call, found, given, cache, pc, code>>
    BY <1>2 DEF ByOcspReply
  <2>8. AnswersKept'
    <3>1. \A b, d : InOrder(b, d)' <=> InOrder(b, d)
      BY <2>7 DEF InOrder, Answer, world
    <3> QED
      BY <2>2, <2>4, <2>6, <2>7, <3>1 DEF IInv, AnswersKept
  <2> QED
    BY <1>1, <2>6, <2>7, <2>8, StepBeside DEF world
<1>3. CASE ByOcspSet
  <2>1. /\ byOcsp # NoAnswer /\ cache' = [cache EXCEPT ![byOcsp.cert] = Kept(byOcsp)] /\ byOcsp' = NoAnswer
        /\ UNCHANGED <<vars, world, call, found, given, pc, code>>
    BY <1>3 DEF ByOcspSet
  <2>2. PICK c \in CertIds : InOrder(byOcsp, c)
    BY <2>1 DEF IInv, AnswersKept
  <2>3. byOcsp.cert = c
    BY <2>2 DEF InOrder, Answer
  <2>4. AnswersKept'
    <3>1. \A b, d : InOrder(b, d)' <=> InOrder(b, d)
      BY <2>1 DEF InOrder, Answer, world
    <3>2. DOMAIN cache' = CertIds
      BY <2>1 DEF IInv, AnswersKept
    <3>3. cache'[c].answer = byOcsp /\ cache'[c].validTime = byOcsp.thisUpdate + Offset
      BY <2>1, <2>2, <2>3 DEF IInv, AnswersKept, Kept
    <3>4. \A d \in CertIds : d # c => cache'[d] = cache[d]
      BY <2>1, <2>3 DEF IInv, AnswersKept
    <3> QED
      BY <2>1, <2>2, <3>1, <3>2, <3>3, <3>4 DEF IInv, AnswersKept
  <2>5. Grows(store, store') /\ UNCHANGED chainVars
    BY <2>1, StoreSame DEF IInv, vars, chainVars
  <2> QED
    BY <1>1, <2>1, <2>4, <2>5, StepBeside DEF world
<1>4. CASE Tick
  <2>1. /\ now' = now + 1
        /\ UNCHANGED <<vars, revokedAt, services, offline, found, given, call, cache, pc, code, byOcsp>>
    BY <1>4 DEF Tick
  <2>2. Grows(store, store') /\ UNCHANGED chainVars
    BY <2>1, StoreSame DEF IInv, vars, chainVars
  <2>3. AnswersKept'
    BY <2>1, AnswersStay DEF IInv
  <2>4. now' \in Nat /\ now' >= now
    BY <1>1, <2>1
  <2> QED
    BY <2>1, <2>2, <2>3, <2>4, StepBeside
<1> QED
  BY <1>2, <1>3, <1>4

LEMMA StepRemoves ==
  ASSUME IInv, RemoveTemporary
  PROVE  IInv'
<1> DEFINE places == {k \in DOMAIN store : store[k].permanent}
           new == Remaining(store, places)
<1>1. /\ pc = "idle" /\ byOcsp = NoAnswer /\ store' = new
      /\ cache' = [c \in DOMAIN cache |->
           IF \E k \in DOMAIN store : store[k].permanent /\ store[k].cert.id = c THEN cache[c]
           ELSE [answer |-> NoAnswer, validTime |-> -1]]
      /\ m_CertChain' = <<>> /\ results' = <<>> /\ obtained_certs' = <<>> /\ m_ObtainedCerts' = {}
      /\ UNCHANGED <<world, validationType, asked, i, m_ExpectedCerts, pc, code, byOcsp>>
  BY DEF RemoveTemporary
<1>2. new \in Seq(Items)
  BY RemainingPart DEF IInv, TypeOK
<1> HIDE DEF new, places
<1>3. <<>> \in Seq(DOMAIN store') /\ <<>> \in Seq(Results)
  OBVIOUS
<1>4. TypeOK'
  BY <1>1, <1>2, <1>3 DEF IInv, TypeOK, world
<1>5. AnswersKept'
  <2>1. \A b, d : InOrder(b, d)' <=> InOrder(b, d)
    BY <1>1 DEF InOrder, Answer, world
  <2>2. DOMAIN cache' = CertIds
    BY <1>1 DEF IInv, AnswersKept
  <2>3. \A c \in CertIds : cache'[c] = cache[c] \/ cache'[c] = [answer |-> NoAnswer, validTime |-> -1]
    BY <1>1 DEF IInv, AnswersKept
  <2> QED
    BY <1>1, <2>1, <2>2, <2>3 DEF IInv, AnswersKept
<1>6. ResultsRecent' /\ Progress' /\ HandedOn' /\ IssuerThere'
  BY <1>1 DEF ResultsRecent, Progress, HandedOn, IssuerThere, Accepted, OnObtained
<1> QED
  BY <1>4, <1>5, <1>6 DEF IInv

LEMMA StepStatus ==
  ASSUME IInv, getStatus
  PROVE  IInv'
<1>1. ASSUME NEW c, c # "ok", NEW missing, Fail(c, missing), UNCHANGED <<store, world, call, cache, byOcsp>>
      PROVE  IInv'
  <2>1. Grows(store, store')
    BY <1>1, StoreSame DEF IInv
  <2> QED
    BY <1>1, <2>1, StepFails
<1>2. CASE WalkEnds
  <2>1. pc = "chain" /\ pc' = "verify" /\ UNCHANGED <<store, world, call, found, given, cache, code, byOcsp>>
    BY <1>2 DEF WalkEnds, SelfSigned, Goto
  <2> QED
    BY <2>1, StepGoesOn
<1>3. CASE WalkFails
  <2>1. UNCHANGED store
    BY <1>3 DEF WalkFails, IssuerNotFound
  <2> QED
    BY <1>1, <1>3, <2>1 DEF WalkFails
<1>4. CASE StatusByOcsp
  BY <1>4, StepValidates DEF StatusByOcsp
<1>5. CASE PostFails
  BY <1>1, <1>5 DEF PostFails, vars
<1>6. CASE RefuseObtained
  BY <1>1, <1>6 DEF RefuseObtained, vars
<1>7. CASE AskObtained
  <2>1. pc = "ask_obtained"
    BY <1>7 DEF AskObtained
  <2>2. CASE Fail("issuer_not_found", {}) /\ UNCHANGED <<vars, world, call, cache, byOcsp>>
    BY <1>1, <2>2 DEF vars
  <2>3. CASE validateByOcsp
    BY <2>1, <2>3, StepValidates
  <2> QED
    BY <1>7, <2>2, <2>3 DEF AskObtained
<1> QED
  BY <1>2, <1>3, <1>4, <1>5, <1>6, <1>7, StepWalkFound, StepVerifies, StepReply, StepStatusByCrl,
     StepRestricts, StepAcceptsSigner, StepAcceptsObtained, StepEnds DEF getStatus

LEMMA StatusStepInv ==
  ASSUME IInv, [StatusNext]_allVars
  PROVE  IInv'
<1>1. CASE \E idx \in DOMAIN store, type \in Types : Cert(idx).id \in Callers /\ Begin(idx, type)
  BY <1>1, StepBegins
<1>2. CASE getStatus
  BY <1>2, StepStatus
<1>3. CASE ByOcspReply \/ ByOcspSet \/ Tick
  BY <1>3, StepOthers
<1>4. CASE RemoveTemporary
  BY <1>4, StepRemoves
<1>5. CASE UNCHANGED allVars
  <2>1. /\ UNCHANGED <<vars, chainVars, world, revokedAt, services, call, found, given, cache, pc, code, byOcsp>>
        /\ now' = now
    BY <1>5 DEF allVars, vars, chainVars, world
  <2>2. Grows(store, store') /\ now \in Nat
    BY <2>1, StoreSame DEF IInv, TypeOK, vars
  <2>3. AnswersKept'
    BY <2>1, AnswersStay DEF IInv
  <2> QED
    BY <2>1, <2>2, <2>3, StepBeside
<1> QED
  BY <1>1, <1>2, <1>3, <1>4, <1>5 DEF StatusNext

(* Every state of getStatus and the methods beside it is as IInv says, for *)
(* all stores, responders, revocations and offsets.                        *)
THEOREM Invariant == StatusSpec => []IInv
BY StatusInitInv, StatusStepInv, PTL DEF StatusSpec

-----------------------------------------------------------------------------
(* No answer older than what may be kept decides about a certificate of    *)
(* the chain, whoever asked for it (getStatus, CERT_STATUS_BY_OCSP) and    *)
(* whenever it arrived.                                                    *)
THEOREM StatusNeverStale == StatusSpec => []NeverStale
<1>1. ASSUME IInv PROVE NeverStale
  <2> SUFFICES ASSUME validationType = "OCSP", NEW k \in DOMAIN results,
                      NEW id, id = Cert(m_CertChain[k]).id
               PROVE  /\ results[k].answer.cert = id
                      /\ revokedAt[id] + Offset <= asked /\ revokedAt[id] + Period <= asked =>
                           results[k].answer.status = "REVOKED"
    BY DEF NeverStale
  <2> DEFINE a == results[k].answer
  <2>1. InOrder(a, id) /\ Recent(a) /\ k \in DOMAIN m_CertChain
    BY <1>1 DEF IInv, ResultsRecent
  <2>2. id \in CertIds
    <3>1. m_CertChain[k] \in DOMAIN store
      BY <1>1, <2>1 DEF IInv, TypeOK
    <3>2. store[m_CertChain[k]] \in Items
      BY <1>1, <3>1 DEF IInv, TypeOK
    <3> QED
      BY <3>2 DEF Items, CertIds, Cert
  <2>3. a.cert = id /\ a.thisUpdate \in Nat
        /\ a.status = IF revokedAt[id] <= a.thisUpdate THEN "REVOKED" ELSE "GOOD"
    BY <2>1 DEF InOrder, Answer
  <2>4. revokedAt[id] \in Nat /\ asked \in Nat
    <3>1. now \in Nat /\ asked \in 0 .. now /\ revokedAt \in [CertIds -> Nat]
      BY <1>1 DEF IInv, TypeOK
    <3> QED
      BY <2>2, <3>1
  <2> HIDE DEF a
  <2>5. revokedAt[id] + Offset <= asked /\ revokedAt[id] + Period <= asked => revokedAt[id] <= a.thisUpdate
    BY <2>1, <2>3, <2>4, TimeAssumption DEF Recent
  <2> QED
    BY <2>3, <2>5 DEF a
<1> QED
  BY <1>1, Invariant, PTL

(* Only answers that were found in order are kept or used, and who gave    *)
(* those of an accepted chain may sign OCSP answers.                       *)
THEOREM StatusAnswersVerified == StatusSpec => []AnswersVerified
<1>1. ASSUME IInv PROVE AnswersVerified
  <2>1. ASSUME NEW c \in DOMAIN cache, cache[c].answer # NoAnswer
        PROVE  cache[c].answer.cert = c /\ cache[c].answer.fault = "none"
    <3>1. c \in CertIds /\ cache[c] # [answer |-> NoAnswer, validTime |-> -1]
      BY <1>1, <2>1 DEF IInv, AnswersKept
    <3>2. InOrder(cache[c].answer, c)
      BY <1>1, <3>1 DEF IInv, AnswersKept
    <3> QED
      BY <3>2 DEF InOrder, Answer
  <2>2. ASSUME Accepted("OCSP")
        PROVE  /\ Len(results) = idx_root - 1
               /\ \A k \in DOMAIN results :
                    results[k].answer.fault = "none" /\ Cert(results[k].responder).ocspSigning
    <3>1. validationType = "OCSP"
      BY <2>2 DEF Accepted
    <3>2. Len(results) = idx_root - 1 /\ \A idx \in Range(obtained_certs) : Cert(idx).ocspSigning
      BY <1>1, <2>2, <3>1 DEF IInv, Progress, Usable
    <3>3. \A k \in DOMAIN results :
            /\ InOrder(results[k].answer, Cert(m_CertChain[k]).id)
            /\ results[k].responder \in Range(obtained_certs)
      BY <1>1, <3>1 DEF IInv, ResultsRecent
    <3>4. \A a, c : InOrder(a, c) => a.fault = "none"
      BY DEF InOrder, Answer
    <3> QED
      BY <3>2, <3>3, <3>4
  <2> QED
    BY <2>1, <2>2 DEF AnswersVerified
<1> QED
  BY <1>1, Invariant, PTL

(* Everyone who answered for an accepted chain is handed on, and from each *)
(* certificate handed on the issuers lead to a root: by induction over the *)
(* chain that getChainCerts finds above a responder of the same provider.  *)
THEOREM StatusObtainedLinked == StatusSpec => []ObtainedLinked
<1>1. ASSUME IInv PROVE ObtainedLinked
  <2> SUFFICES ASSUME Accepted("OCSP")
               PROVE  /\ Range(obtained_certs) \subseteq m_ObtainedCerts
                      /\ \A x \in m_ObtainedCerts : Linked(x)
    BY DEF ObtainedLinked, Linked
  <2>1. validationType = "OCSP"
    BY DEF Accepted
  <2>2. /\ \A k \in DOMAIN obtained_certs : k < i => obtained_certs[k] \in m_ObtainedCerts
        /\ \A x \in m_ObtainedCerts : Linked(x)
        /\ i > Len(obtained_certs)
    BY <1>1, <2>1 DEF IInv, HandedOn, Progress
  <2>3. DOMAIN obtained_certs = 1 .. Len(obtained_certs) /\ Len(obtained_certs) \in Nat /\ i \in Nat
    BY <1>1 DEF IInv, TypeOK
  <2>4. \A k \in DOMAIN obtained_certs : k < i
    BY <2>2, <2>3
  <2> QED
    BY <2>2, <2>4 DEF Range
<1> QED
  BY <1>1, Invariant, PTL

(* A call that ends for lack of a certificate names its key, with the two  *)
(* exceptions the code makes (LeftUnnamed).                                *)
THEOREM StatusMissingIsExpected == StatusSpec => MissingIsExpected
<1> DEFINE Ends == pc # "idle" /\ pc' = "idle" /\ code' \in {"cert_not_found", "issuer_not_found"} /\ ~LeftUnnamed
           Named == /\ m_ExpectedCerts' # {}
                    /\ \A keyId \in m_ExpectedCerts' : getCertByKeyId(store', keyId, 0) = 0
<1>1. ASSUME IInv, [StatusNext]_allVars, Ends PROVE Named
  <2>1. m_ExpectedCerts = {} /\ store \in Seq(Items)
    BY <1>1 DEF IInv, Progress, TypeOK
  <2>2. ASSUME NEW c, NEW missing, Fail(c, missing)
        PROVE  code' = c /\ m_ExpectedCerts' = missing
    BY <2>1, <2>2 DEF Fail, Return
  <2>3. ASSUME NEW a, Process(a) PROVE Named
    <3>1. Outcome(a) # "ok"
      BY <1>1, <2>3 DEF Process, ReplyUsed
    <3>2. Fail(Outcome(a), IF Outcome(a) = "cert_not_found" THEN {a.service.cert.keyId} ELSE {})
      BY <2>3, <3>1 DEF Process
    <3>3. code' = Outcome(a)
          /\ m_ExpectedCerts' = IF Outcome(a) = "cert_not_found" THEN {a.service.cert.keyId} ELSE {}
      BY <2>2, <3>2
    <3>4. Outcome(a) # "issuer_not_found" /\ (Outcome(a) = "cert_not_found" => Responder(a) = 0)
      BY DEF Outcome
    <3>5. Responder(a) = 0 /\ m_ExpectedCerts' = {a.service.cert.keyId}
      BY <1>1, <3>3, <3>4
    <3>6. store' = WithCerts(a)
      BY <2>3 DEF Process
    <3> QED
      BY <3>5, <3>6 DEF Responder
  <2>4. ASSUME validateByOcsp PROVE Named
    <3>1. CASE Process(cache[Asked.id].answer)
      BY <2>3, <3>1
    <3>2. CASE pc' = IF pc = "status" THEN "post" ELSE "post_obtained"
      BY <1>1, <3>2
    <3>3. CASE Fail(IF offline THEN "offline" ELSE "url_not_present", {})
      BY <1>1, <2>2, <3>3
    <3> QED
      BY <2>4, <3>1, <3>2, <3>3 DEF validateByOcsp
  <2>5. CASE WalkFails
    <3>1. /\ Fail("issuer_not_found", IF chainCerts # {} THEN {Subject.authorityKeyId} ELSE {})
          /\ Issuer = 0 /\ store' = store
      BY <2>5 DEF WalkFails, IssuerNotFound
    <3>2. chainCerts # {}
      BY <1>1 DEF LeftUnnamed
    <3>3. m_ExpectedCerts' = {Subject.authorityKeyId}
      BY <2>2, <3>1, <3>2
    <3>4. getCertByKeyId(store, Subject.authorityKeyId, 0) = 0
      BY <2>1, <3>1, KeyMissing DEF Issuer
    <3> QED
      BY <3>1, <3>3, <3>4
  <2>6. CASE StatusByCrl
    <3>1. PICK keyId : \/ Fail("cert_not_found", {keyId}) /\ getCertByKeyId(store, keyId, 0) = 0
                       \/ UNCHANGED pc
                       \/ Fail("crl_not_found", {})
      BY <2>6 DEF StatusByCrl
    <3>2. UNCHANGED store
      BY <2>6 DEF StatusByCrl, vars
    <3>3. ~Fail("crl_not_found", {})
      BY <1>1, <2>2
    <3>4. Fail("cert_not_found", {keyId}) /\ getCertByKeyId(store, keyId, 0) = 0
      BY <1>1, <3>1, <3>3
    <3> QED
      BY <2>2, <3>2, <3>4
  <2>7. CASE AskObtained
    <3>1. CASE validateByOcsp
      BY <2>4, <3>1
    <3>2. CASE /\ ~Asked.selfSigned /\ getCertByKeyId(store, Asked.authorityKeyId, 0) = 0
               /\ Fail("issuer_not_found", {})
      <4>1. InChain(Asked.keyId)
        BY <1>1, <2>7, <3>2 DEF AskObtained, IInv, IssuerThere
      <4>2. pc = "ask_obtained" /\ code' = "issuer_not_found"
        BY <2>2, <2>7, <3>2 DEF AskObtained
      <4> QED
        BY <1>1, <4>1, <4>2 DEF LeftUnnamed
    <3> QED
      BY <2>7, <3>1, <3>2 DEF AskObtained
  <2>8. CASE StatusByOcsp \/ Reply
    BY <2>3, <2>4, <2>8 DEF StatusByOcsp, Reply
  <2>9. CASE VerifyChain \/ PostFails \/ checkRestrictions \/ RefuseObtained
    <3>1. \/ \E c \in {"verify_failed", "validity", "http", "key_usage", "chain_not_found"} :
               \E missing : Fail(c, missing)
          \/ pc' # "idle"
      BY <2>9 DEF VerifyChain, PostFails, checkRestrictions, RefuseObtained, Goto
    <3> QED
      BY <1>1, <2>2, <3>1
  <2>10. CASE WalkFound \/ WalkEnds \/ AcceptCrlSigner \/ AcceptObtained \/ End
    BY <1>1, <2>10 DEF WalkFound, WalkEnds, Goto, AcceptCrlSigner, AcceptObtained, End, Return
  <2>11. ASSUME NEW idx, NEW type, Begin(idx, type) PROVE Named
    BY <1>1, <2>11 DEF Begin
  <2>12. CASE ByOcspReply \/ ByOcspSet \/ RemoveTemporary \/ Tick \/ UNCHANGED allVars
    BY <1>1, <2>12 DEF ByOcspReply, ByOcspSet, RemoveTemporary, Tick, allVars
  <2> HIDE DEF Ends, Named
  <2> QED
    BY <1>1, <2>5, <2>6, <2>7, <2>8, <2>9, <2>10, <2>11, <2>12 DEF StatusNext, getStatus
<1>2. IInv /\ [StatusNext]_allVars =>
        [pc # "idle" /\ pc' = "idle" /\ code' \in {"cert_not_found", "issuer_not_found"} /\ ~LeftUnnamed =>
           /\ m_ExpectedCerts' # {}
           /\ \A keyId \in m_ExpectedCerts' : getCertByKeyId(store', keyId, 0) = 0]_allVars
  BY <1>1
<1> QED
  BY <1>2, Invariant, PTL DEF StatusSpec, MissingIsExpected

-----------------------------------------------------------------------------
(* The walk on its own (module CertChain) *)

WalkInv ==
  /\ store \in Stores /\ cer_subject \in DOMAIN store
  /\ ChainComplete

LEMMA IssuerRight ==
  ASSUME store \in Stores, cer_subject \in DOMAIN store
  PROVE  /\ Issuer # 0 => Issuer \in DOMAIN store /\ store[Issuer].cert.keyId = Subject.authorityKeyId
         /\ Issuer = 0 => \A k \in DOMAIN store :
              store[k].cert.keyId = Subject.authorityKeyId => Subject.authorityKeyId = NoKeyId
<1> DEFINE keyId == Subject.authorityKeyId
           having == {k \in DOMAIN store : store[k].cert.keyId = keyId}
           stops == {k \in having : store[k].unique}
<1>1. DOMAIN store \subseteq Nat \ {0}
  BY StoresAssumption
<1>2. stops = having
  BY StoresAssumption DEF Subject
<1>3. CASE having = {} \/ keyId = NoKeyId
  BY <1>3 DEF Issuer, getCertByKeyId
<1>4. CASE having # {} /\ keyId # NoKeyId
  <2>1. Issuer = Min(stops)
    BY <1>2, <1>4 DEF Issuer, getCertByKeyId
  <2>2. Min(stops) \in stops
    BY <1>1, <1>2, <1>4, LeastIsMin
  <2> QED
    BY <1>1, <2>1, <2>2
<1> QED
  BY <1>3, <1>4

(* In a store with one certificate per authority the walk is sound: each   *)
(* link leads to the issuer, it ends at a root, and what it misses is not  *)
(* there - whatever the order of the items and the length of the chain.    *)
THEOREM ChainIsSound == Spec => []ChainSound
<1>1. Init => WalkInv
  BY DEF Init, WalkInv, ChainComplete
<1>2. ASSUME WalkInv, [Next]_vars PROVE WalkInv'
  <2>1. CASE SelfSigned
    BY <1>2, <2>1 DEF WalkInv, SelfSigned, ChainComplete, Subject
  <2>2. CASE IssuerNotFound
    BY <1>2, <2>2, IssuerRight DEF WalkInv, IssuerNotFound, ChainComplete, Subject
  <2>3. CASE IssuerFound
    <3>1. Issuer \in DOMAIN store
      BY <1>2, <2>3, IssuerRight DEF WalkInv, IssuerFound
    <3> QED
      BY <2>3, <1>2, <3>1 DEF WalkInv, IssuerFound, ChainComplete
  <2>4. CASE UNCHANGED vars
    BY <1>2, <2>4 DEF WalkInv, ChainComplete, Subject, vars
  <2> QED
    BY <1>2, <2>1, <2>2, <2>3, <2>4 DEF Next, getChainCerts
<1>3. WalkInv => ChainSound
  BY IssuerRight DEF WalkInv, ChainSound, ChainLinked
<1> QED
  BY <1>1, <1>2, <1>3, PTL DEF Spec
=============================================================================
