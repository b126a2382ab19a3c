------------------------- MODULE VerifyStatusProofs --------------------------
(* What VERIFY reports is justified - for all signatures, stores and       *)
(* answers, any number of calls, and with the other methods at work on the *)
(* same certificates.                                                      *)
EXTENDS VerifyStatus, CertKeysProofs

-----------------------------------------------------------------------------
(* The inductive invariant *)

Open == {"UNDEFINED", "INDETERMINATE"}
Statuses == Open \cup {"INVALID", "VALID", "VALID_WITHOUT_KEYUSAGE"}
Items == [cert : Certificates, unique : BOOLEAN, status : Statuses]

CertStatuses == {"UNDEFINED", "GOOD", "REVOKED", "UNKNOWN"}
Asks == {<<>>, <<"CRL">>, <<"OCSP">>, <<"CRL", "OCSP">>, <<"OCSP", "CRL">>}
ChainItems ==
  [cert : Certificates, built : BOOLEAN, expired : BOOLEAN, type : {"UNDEFINED", "NONE", "OCSP", "CRL"},
   certStatus : CertStatuses, sound : BOOLEAN, crlIssuer : Certificates \cup {NoCert},
   asked : Asks]

Formats == {"CMS_SID_KEYID", "CADES_BES", "CADES_T", "CADES_C", "CADES_XL", "CADES_A"}
Found == {"UNDEFINED", "NOT_PRESENT", "INDETERMINATE", "VALID", "INVALID"}
Stamp == [digest : Found, signature : Found]
Infos ==
  [signature : Found, digest : Found, ess : Found, certRefs : Found,
   contentTS : Stamp, signatureTS : Stamp, archiveTS : Stamp, cerSigner : Nat,
   format : Formats \cup {"UNDEFINED"}, best : Nat,
   status : {"UNDEFINED", "TOTAL_VALID", "INDETERMINATE", "TOTAL_FAILED"},
   abort : {"none", "verify_failed", "invalid_count_items"}]

Checking == {"signature", "digest", "contentTS", "signatureTS", "refs", "archiveTS", "format"}
Validating == {"revocation", "validate", "status", "status_valid"}

TypeOK ==
  /\ store \in Seq(Items)
  /\ m_StatusSign \in [DamagedCrls -> {"UNDEFINED", "INVALID"}]
  /\ pc \in {"idle", "chain"} \cup Checking \cup Validating
  /\ info \in Infos
  /\ tsp \in Seq(Certificates) /\ ocsp \in Seq(Certificates) /\ items \in Seq(ChainItems)
  /\ i \in Nat \ {0}

(* What a call is about, and how far it has come. *)
Progress ==
  /\ (pc # "idle" \/ info.status # "UNDEFINED") => \E r \in Requests : sig = r.sig /\ options = r.options
  /\ pc # "idle" => info.abort = "none" /\ (info.status = "UNDEFINED" <=> pc \in Checking)
  /\ info.abort # "none" => info.status = "UNDEFINED"
  /\ (pc \in Checking \cup {"chain"} \/ info.status = "UNDEFINED") => items = <<>> /\ ocsp = <<>>
  /\ pc \in Checking \cup {"chain", "revocation"} => i = 1
  /\ (pc \notin {"idle", "signature"} \/ info.status # "UNDEFINED") => info.format \in Formats
  /\ pc \in Checking \ {"signature"} /\ info.format = "CADES_A" => Present(sig.archiveTS)
  /\ pc \in {"revocation", "validate"} => options.validationType # "STRUCT"
  /\ pc = "validate" => options.validationType = "FULL"
  /\ pc = "status_valid" => i \in DOMAIN items /\ info.status # "TOTAL_FAILED"

(* Certificates that a call found are in the store. *)
StoreCerts == {store[k].cert : k \in DOMAIN store}
Known ==
  /\ info.cerSigner \in DOMAIN store \cup {0}
  /\ Range(tsp) \cup Range(ocsp) \subseteq StoreCerts
  /\ \A k \in DOMAIN items : items[k].cert \in StoreCerts /\ items[k].crlIssuer \in StoreCerts \cup {NoCert}

(* What is said of the signature and its time-stamps was seen in them, or  *)
(* the certificate that it takes is expected.                              *)
StampFields == {"contentTS", "signatureTS", "archiveTS"}
Seen ==
  /\ info.signature = "VALID" =>
       /\ sig.sound /\ info.cerSigner # 0
       /\ Cert(info.cerSigner).id = sig.sid \/ Cert(info.cerSigner).keyId = sig.sid
  /\ info.signature = "INDETERMINATE" => sig.sid \in expectedCerts
  /\ info.digest = "VALID" => sig.digest = "match"
  /\ info.ess = "VALID" => sig.ess = "match"
  /\ info.ess = "NOT_PRESENT" /\ pc # "idle" => sig.ess = "absent"
  /\ \A f \in StampFields :
       /\ info[f].signature = "VALID" => sig[f].sound /\ \E c \in Range(tsp) : c.id = sig[f].tsp
       /\ info[f].signature = "INDETERMINATE" => sig[f].tsp \in expectedCerts
       /\ info[f].digest = "VALID" => sig[f].digest = "match"
  /\ AtLeastC /\ (pc \notin Checking \/ pc \in {"archiveTS", "format"}) /\ info.abort = "none" =>
       /\ info.certRefs = "VALID" => \A k \in DOMAIN sig.refs : sig.refs[k].match
       /\ info.certRefs = "INDETERMINATE" => expectedCerts \cap {r.id : r \in Range(sig.refs)} # {}

(* TOTAL-VALID begins with everything collected valid. *)
Collected ==
  info.status = "TOTAL_VALID" =>
    /\ info.signature = "VALID" /\ info.digest = "VALID" /\ info.ess \in {"NOT_PRESENT", "VALID"}
    /\ sig.ess # "differs"
    /\ \A f \in PresentTS : info[f] = [digest |-> "VALID", signature |-> "VALID"]
    /\ AtLeastC => info.certRefs = "VALID"
    /\ Present(sig.signatureTS) => info.best = sig.signatureTS.genTime

(* The chains: signer and time-stamp services are there, and above each    *)
(* certificate its issuer, or that one is expected.                        *)
ChainsThere ==
  /\ \A j, k \in DOMAIN items : items[j].cert = items[k].cert => j = k
  /\ \A k \in DOMAIN items : items[k].built /\ ~items[k].cert.selfSigned =>
       \/ items[k].cert.authorityKeyId \in expectedCerts
       \/ \E j \in DOMAIN items : items[j].built /\ items[j].cert.keyId = items[k].cert.authorityKeyId
  /\ (pc \in Validating \/ (pc = "idle" /\ info.status # "UNDEFINED")) =>
       IF options.validationType = "STRUCT" THEN items = <<>>
       ELSE /\ info.cerSigner # 0 => \E k \in DOMAIN items : items[k].built /\ items[k].cert = Cert(info.cerSigner)
            /\ \A c \in Range(tsp) : \E k \in DOMAIN items : items[k].built /\ items[k].cert = c

(* The order in which the sources are asked. *)
Order == IF options.onlyCrl THEN <<"CRL">> ELSE IF OcspFirst THEN <<"OCSP", "CRL">> ELSE <<"CRL", "OCSP">>
InTurn == {<<>>, Order} \cup (IF options.onlyCrl THEN {} ELSE IF OcspFirst THEN {<<"OCSP">>} ELSE {<<"CRL">>})
AnsweredIn(c) == EmbedsStatus /\ \E v \in Range(sig.ocspVals) : v.cert = c.id

(* Item k has been through the loop of validate_certs. *)
Validated(k) == pc \in {"status", "status_valid", "idle"} \/ (pc = "validate" /\ k < i)

AskedInOrder ==
  \A k \in DOMAIN items :
    LET it == items[k] IN
    /\ it.asked \in InTurn
    /\ pc = "revocation" => it.asked = <<>> /\ it.type \in {"UNDEFINED", "NONE"}
    /\ pc = "validate" /\ i < k => it.asked = <<>>
    /\ it.asked # <<>> => ~it.expired /\ it.type # "NONE" /\ options.validationType = "FULL"
    /\ options.validationType = "FULL" /\ pc # "revocation" =>
         /\ AnsweredIn(it.cert) => it.asked = <<>> /\ it.type # "UNDEFINED"
         /\ Validated(k) /\ it.type = "UNDEFINED" /\ ~it.expired => it.asked = Order
    /\ it.built /\ ~it.cert.selfSigned /\ it.type = "NONE" => options.validationType = "CHAIN"
    /\ it.type = "UNDEFINED" /\ it.asked \notin {<<>>, <<"OCSP">>} =>
         it.cert.authorityKeyId \in expectedCrls \cup DamagedCrls \cup expectedCerts
    /\ (it.sound \/ DamagedCrls # {})
    /\ pc # "revocation" => it.expired = ~ValidAt(it.cert, info.best)

(* What is known of a certificate's own signature comes from its issuer's  *)
(* key, and is known of all below another one of the chains but while SIGN *)
(* verifies it.                                                            *)
Issues(d, c) == IF c.selfSigned THEN d = c ELSE d.keyId = c.authorityKeyId
Settled ==
  /\ \A k \in DOMAIN store :
       store[k].status \notin Open =>
         \E d \in Certificates : Issues(d, store[k].cert) /\ store[k].status = SignatureOf(store[k].cert, d)
  /\ verifying # NoCert =>
       LET k == IndexOf(store, verifying) IN
       k # 0 /\ verifying \in Reverified /\ IssuerOf(store, Cert(k)) # NoCert
  /\ \A j, k \in DOMAIN items :
       /\ items[j].built /\ items[k].built
       /\ items[j].cert.keyId = items[k].cert.authorityKeyId /\ ~items[k].cert.selfSigned
       => StatusOf(store, items[k].cert) \notin Open \/ verifying = items[k].cert.id

(* What a status of TOTAL-VALID has gone through so far. *)
RootsReverified == \A c \in Certificates : c.id \in Reverified => c.selfSigned
Justified(it) ==
  /\ it.cert.sound /\ ~it.expired
  /\ RootsReverified /\ options.validationType = "FULL" /\ it.built /\ ~it.cert.selfSigned => it.certStatus = "GOOD"
GoneThrough ==
  /\ pc = "status_valid" =>
       /\ items[i].cert.sound
       /\ RootsReverified /\ ~items[i].cert.selfSigned => StatusOf(store, items[i].cert) = "VALID"
  /\ info.status = "TOTAL_VALID" =>
       /\ pc = "idle" => expectedCerts = {} /\ expectedCrls = {}
       /\ \A k \in DOMAIN items : (pc = "idle" \/ (pc \in {"status", "status_valid"} /\ k < i)) => Justified(items[k])

IInv ==
  /\ TypeOK /\ Progress /\ Known /\ Seen /\ Collected
  /\ ChainsThere /\ AskedInOrder /\ Settled /\ GoneThrough

-----------------------------------------------------------------------------
(* The certificate store *)

LEMMA ItemsFlagged == Flagged(Items)
BY CertificatesAssumption DEF Flagged, WithFlag, Items

(* The index of a certificate is the first place where it is. *)
LEMMA IndexFound ==
  ASSUME NEW I, NEW its \in Seq(I), NEW id
  PROVE  LET n == IndexOf(its, id) IN
         /\ n \in 0 .. Len(its)
         /\ n # 0 => n \in DOMAIN its /\ its[n].cert.id = id
         /\ \A k \in DOMAIN its : its[k].cert.id = id => n # 0 /\ n <= k
<1> DEFINE found == {k \in 1 .. Len(its) : its[k].cert.id = id}
<1>1. IndexOf(its, id) = IF found # {} THEN Min(found) ELSE 0
  BY DEF IndexOf, SelectInSeq
<1>2. found # {} => Min(found) \in found /\ \A k \in found : Min(found) <= k
  <2>1. found \in SUBSET Nat
    OBVIOUS
  <2> HIDE DEF found
  <2> QED
    BY <2>1, LeastIsMin
<1>3. DOMAIN its = 1 .. Len(its) /\ Len(its) \in Nat
  OBVIOUS
<1> DEFINE n == IndexOf(its, id)
<1>4. n # 0 => n \in DOMAIN its /\ its[n].cert.id = id
  BY <1>1, <1>2, <1>3
<1>5. n \in 0 .. Len(its)
  BY <1>1, <1>2, <1>3
<1>6. ASSUME NEW k \in DOMAIN its, its[k].cert.id = id PROVE n # 0 /\ n <= k
  <2>1. k \in found
    BY <1>3, <1>6
  <2>2. n = Min(found) /\ Min(found) \in found /\ Min(found) <= k
    BY <1>1, <1>2, <2>1
  <2> QED
    BY <2>2
<1> QED
  BY <1>4, <1>5, <1>6

(* Certificates stay where they are... *)
Grows(its, new) ==
  /\ new \in Seq(Items)
  /\ \A k \in DOMAIN its : k \in DOMAIN new /\ new[k].cert = its[k].cert

(* ... with what is known of them, and nothing is known of new ones. *)
Keeps(its, new) ==
  /\ Grows(its, new)
  /\ \A k \in DOMAIN its : new[k].status = its[k].status
  /\ \A k \in DOMAIN new \ DOMAIN its : new[k].status = "UNDEFINED"

LEMMA IndexStays ==
  ASSUME NEW its \in Seq(Items), NEW new, Grows(its, new), NEW id, IndexOf(its, id) # 0
  PROVE  IndexOf(new, id) = IndexOf(its, id)
<1> DEFINE m == IndexOf(its, id)
           n == IndexOf(new, id)
<1>1. /\ m \in DOMAIN its /\ its[m].cert.id = id
      /\ \A k \in DOMAIN its : its[k].cert.id = id => m <= k
  BY IndexFound
<1>2. new \in Seq(Items) /\ \A k \in DOMAIN its : k \in DOMAIN new /\ new[k].cert = its[k].cert
  BY DEF Grows
<1>3. /\ n \in 0 .. Len(new)
      /\ n # 0 => n \in DOMAIN new /\ new[n].cert.id = id
      /\ \A k \in DOMAIN new : new[k].cert.id = id => n # 0 /\ n <= k
  BY <1>2, IndexFound
<1>4. Len(its) \in Nat /\ DOMAIN its = 1 .. Len(its) /\ Len(new) \in Nat /\ DOMAIN new = 1 .. Len(new)
  BY <1>2
<1> HIDE DEF m, n
<1>5. n # 0 /\ n <= m
  BY <1>1, <1>2, <1>3
<1>6. n \in DOMAIN its
  BY <1>1, <1>3, <1>4, <1>5
<1>7. m <= n
  BY <1>1, <1>2, <1>3, <1>5, <1>6
<1>8. m = n
  BY <1>1, <1>4, <1>5, <1>6, <1>7
<1> QED
  BY <1>8 DEF m, n

(* A certificate of the store is found by its id: ids tell apart. *)
LEMMA CertFound ==
  ASSUME NEW its \in Seq(Items), NEW k \in DOMAIN its
  PROVE  LET n == IndexOf(its, its[k].cert.id) IN
         n \in DOMAIN its /\ n # 0 /\ its[n].cert = its[k].cert
<1> DEFINE n == IndexOf(its, its[k].cert.id)
<1>1. n \in DOMAIN its /\ n # 0 /\ its[n].cert.id = its[k].cert.id
  BY IndexFound
<1> HIDE DEF n
<1>2. its[n] \in Items /\ its[k] \in Items
  BY <1>1
<1>3. its[n].cert \in Certificates /\ its[k].cert \in Certificates
  BY <1>2 DEF Items
<1>4. its[n].cert = its[k].cert
  BY <1>1, <1>3, CertificatesAssumption
<1> QED
  BY <1>1, <1>4 DEF n

LEMMA ItemAddedKeeps ==
  ASSUME NEW its \in Seq(Items), NEW c \in Certificates
  PROVE  Keeps(its, addItem(its, NewCert(c)))
<1> DEFINE it == NewCert(c)
           new == addItem(its, it)
           dup == FirstDuplicate(its, it.cert)
<1>1. it \in Items /\ it.status = "UNDEFINED" /\ it.cert = c
  BY DEF NewCert, Items, Statuses, Open
<1>2. /\ new \in Seq(Items)
      /\ FlagsOnly(its, it.cert, new)
      /\ dup # 0 => Len(new) = Len(its)
      /\ dup = 0 =>
           /\ Len(new) = Len(its) + 1
           /\ new[Len(its) + 1] = WithFlag(it, \A k \in DOMAIN its : ~SameKeys(its[k].cert, it.cert))
  BY <1>1, ItemsFlagged, ItemAdded
<1> HIDE DEF new, dup, it
<1>3. \A k \in DOMAIN its : k \in DOMAIN new /\ new[k].cert = its[k].cert
  BY <1>2, ItemsFlagged, CertsKept
<1>4. \A k \in DOMAIN its : new[k].status = its[k].status
  <2>1. \A jt \in Items : WithFlag(jt, FALSE).status = jt.status
    BY DEF WithFlag, Items
  <2>2. \A k \in DOMAIN its : its[k] \in Items
    OBVIOUS
  <2> QED
    BY <1>2, <2>1, <2>2 DEF FlagsOnly
<1>5. \A k \in DOMAIN new \ DOMAIN its : new[k].status = "UNDEFINED"
  <2>1. \A flag : WithFlag(it, flag).status = "UNDEFINED"
    BY <1>1 DEF WithFlag, Items
  <2>2. DOMAIN its = 1 .. Len(its) /\ Len(its) \in Nat /\ DOMAIN new = 1 .. Len(new) /\ Len(new) \in Nat
    BY <1>2
  <2>3. (dup # 0 => Len(new) = Len(its)) /\ (dup = 0 => Len(new) = Len(its) + 1)
    BY <1>2
  <2>4. ASSUME NEW k \in DOMAIN new \ DOMAIN its PROVE dup = 0 /\ k = Len(its) + 1
    <3>1. CASE dup = 0
      BY <2>2, <2>3, <3>1
    <3>2. CASE dup # 0
      BY <2>2, <2>3, <3>2
    <3> QED
      BY <3>1, <3>2
  <2> QED
    BY <1>2, <2>1, <2>4
<1> QED
  BY <1>2, <1>3, <1>4, <1>5 DEF Keeps, Grows, new, it

LEMMA CertsAdded ==
  ASSUME NEW its \in Seq(Items), NEW certs \in Seq(Certificates)
  PROVE  Keeps(its, AddCerts(its, certs))
<1> DEFINE N == Len(certs)
           All == {x \in Seq(Items) : Keeps(its, x)}
           V == [n \in 0 .. N |-> All]
           Another(x, n) == addItem(x, NewCert(certs[n]))
           f == [n \in 1 .. N |-> [x \in All |-> Another(x, n)]]
           Step(g, n) == IF n = 0 THEN its ELSE Another(g[n - 1], n)
           Is(g) == g = [n \in 0 .. N |-> Step(g, n)]
           added == CHOOSE g : Is(g)
<1>1. AddCerts(its, certs) = added[N]
  BY DEF AddCerts
<1>2. N \in Nat /\ \A n \in 1 .. N : certs[n] \in Certificates
  OBVIOUS
<1>3. ASSUME NEW n \in 1 .. N, NEW x \in All PROVE Another(x, n) \in All
  <2>1. Keeps(x, Another(x, n))
    BY <1>2, ItemAddedKeeps
  <2> HIDE DEF Another
  <2>2. Keeps(its, x)
    OBVIOUS
  <2> QED
    BY <2>1, <2>2 DEF Keeps, Grows
<1>4. its \in All
  BY DEF Keeps, Grows
<1> HIDE DEF All, Another
<1>5. \A n \in 1 .. N : \A x \in V[n - 1] : f[n][x] = Another(x, n) /\ x \in All
  BY <1>2
<1>6. \A n \in 0 .. N : V[n] = All
  OBVIOUS
<1>7. its \in V[0] /\ StaysIn(f, N, V)
  BY <1>2, <1>3, <1>4, <1>5, <1>6 DEF StaysIn
<1> HIDE DEF V, f, N
<1>8. PICK W : \E g \in [0 .. N -> W] : Loop(g, f, N, its) /\ \A n \in 0 .. N : g[n] \in V[n]
  BY <1>2, <1>7, Iterated
<1>9. PICK g \in [0 .. N -> W] : Loop(g, f, N, its) /\ \A n \in 0 .. N : g[n] \in V[n]
  BY <1>8
<1>10. Is(g)
  <2>1. \A n \in 0 .. N : n # 0 => n \in 1 .. N /\ n - 1 \in 0 .. N
    BY <1>2
  <2>2. \A n \in 0 .. N : g[n] = Step(g, n)
    BY <1>5, <1>9, <2>1 DEF Loop
  <2> HIDE DEF Step
  <2> QED
    BY <2>2
<1>11. Is(added)
  BY <1>10
<1> HIDE DEF added
<1>12. \A n \in 0 .. N : added[n] = Step(added, n)
  BY <1>11
<1>13. added[0] \in V[0] /\ \A n \in 1 .. N : added[n - 1] \in V[n - 1] => added[n] \in V[n]
  <2>1. added[0] = its /\ \A n \in 1 .. N : added[n] = Another(added[n - 1], n)
    BY <1>2, <1>12
  <2> QED
    BY <1>5, <1>7, <2>1 DEF StaysIn
<1>14. added[N] \in V[N]
  <2>1. N \in Nat /\ added[0] \in V[0]
    BY <1>2, <1>13
  <2>2. \A n \in 1 .. N : added[n - 1] \in V[n - 1] => added[n] \in V[n]
    BY <1>13
  <2>3. \A n \in 0 .. N : added[n] \in V[n]
    BY <2>1, <2>2, Stays
  <2> QED
    BY <2>1, <2>3
<1> QED
  BY <1>1, <1>2, <1>6, <1>14 DEF All

-----------------------------------------------------------------------------
(* Issuers *)

LEMMA LookedUp ==
  ASSUME NEW its \in Seq(Items), NEW keyId, getCertByKeyId(its, keyId, 0) # 0
  PROVE  LET n == getCertByKeyId(its, keyId, 0) IN
         n \in DOMAIN its /\ its[n].cert.keyId = keyId /\ its[n].cert \in Certificates
<1> DEFINE n == getCertByKeyId(its, keyId, 0)
<1>1. n \in {k \in DOMAIN its : its[k].cert.keyId = keyId}
  BY ItemsFlagged, KeyFound
<1> HIDE DEF n
<1>2. its[n] \in Items
  BY <1>1
<1> QED
  BY <1>1, <1>2 DEF n, Items

LEMMA KeyThere ==
  ASSUME NEW its \in Seq(Items), NEW k \in DOMAIN its
  PROVE  getCertByKeyId(its, its[k].cert.keyId, 0) # 0
<1>1. its[k].cert.keyId # NoKeyId
  <2>1. its[k] \in Items
    OBVIOUS
  <2>2. its[k].cert \in Certificates
    BY <2>1 DEF Items
  <2> QED
    BY <2>2, CertificatesAssumption
<1>2. k \in {j \in DOMAIN its : its[j].cert.keyId = its[k].cert.keyId}
  OBVIOUS
<1> QED
  BY <1>1, <1>2, ItemsFlagged, KeyFound

LEMMA IssuerFound ==
  ASSUME NEW its \in Seq(Items), NEW c \in Certificates, IssuerOf(its, c) # NoCert
  PROVE  IssuerOf(its, c) \in Certificates /\ Issues(IssuerOf(its, c), c)
BY LookedUp DEF IssuerOf, Issues

LEMMA IssuerThere ==
  ASSUME NEW its \in Seq(Items), NEW c \in Certificates, NEW k \in DOMAIN its,
         its[k].cert.keyId = c.authorityKeyId
  PROVE  IssuerOf(its, c) # NoCert
<1>1. getCertByKeyId(its, c.authorityKeyId, 0) # 0
  BY KeyThere
<1> QED
  BY <1>1, LookedUp, CertificatesAssumption DEF IssuerOf

LEMMA IssuerStays ==
  ASSUME NEW its \in Seq(Items), NEW new, Grows(its, new), NEW c \in Certificates, IssuerOf(its, c) # NoCert
  PROVE  IssuerOf(new, c) # NoCert
<1>1. CASE c.selfSigned
  BY <1>1, CertificatesAssumption DEF IssuerOf
<1>2. CASE ~c.selfSigned
  <2> DEFINE n == getCertByKeyId(its, c.authorityKeyId, 0)
  <2>1. n # 0
    BY <1>2 DEF IssuerOf
  <2>2. n \in DOMAIN its /\ its[n].cert.keyId = c.authorityKeyId
    BY <2>1, LookedUp
  <2> HIDE DEF n
  <2>3. new \in Seq(Items) /\ n \in DOMAIN new /\ new[n].cert.keyId = c.authorityKeyId
    BY <2>2 DEF Grows
  <2> QED
    BY <2>3, IssuerThere
<1> QED
  BY <1>1, <1>2

(* All certificates of a key may sign certificates, or none.  The code     *)
(* does not see to it: what a certificate's signature was found to be      *)
(* depends on which of its issuer's certificates was there at the time.    *)
KeysAgree == \A c, d \in Certificates : c.keyId = d.keyId => c.ca = d.ca

(* Then which one of an issuer's certificates is taken makes no difference. *)
LEMMA SameSignature ==
  ASSUME KeysAgree,
         NEW c \in Certificates, NEW d \in Certificates, NEW e \in Certificates, Issues(d, c), Issues(e, c)
  PROVE  SignatureOf(c, d) = SignatureOf(c, e)
<1>1. d.ca = e.ca
  BY DEF KeysAgree, Issues
<1> QED
  BY <1>1 DEF SignatureOf

LEMMA SignatureKnown ==
  ASSUME NEW c, NEW d
  PROVE  SignatureOf(c, d) \in Statuses \ Open
BY DEF SignatureOf, Statuses, Open

-----------------------------------------------------------------------------
(* Verifying certificates *)

(* What is known of a certificate's signature comes from its issuer's key. *)
SettledIn(its) ==
  \A k \in DOMAIN its :
    its[k].status \notin Open =>
      \E d \in Certificates : Issues(d, its[k].cert) /\ its[k].status = SignatureOf(its[k].cert, d)

(* What is known stays known. *)
Firm(its, new) ==
  /\ Grows(its, new)
  /\ \A k \in DOMAIN its : its[k].status \notin Open => new[k].status = its[k].status

LEMMA KeepsFirm ==
  ASSUME NEW its \in Seq(Items), NEW new, Keeps(its, new)
  PROVE  Firm(its, new) /\ (SettledIn(its) => SettledIn(new))
<1>1. Firm(its, new)
  BY DEF Keeps, Firm
<1>2. ASSUME SettledIn(its), NEW k \in DOMAIN new, new[k].status \notin Open
      PROVE  \E d \in Certificates : Issues(d, new[k].cert) /\ new[k].status = SignatureOf(new[k].cert, d)
  <2>1. k \in DOMAIN its /\ new[k].status = its[k].status /\ new[k].cert = its[k].cert
    BY <1>2 DEF Keeps, Grows, Open
  <2> QED
    BY <1>2, <2>1 DEF SettledIn
<1> QED
  BY <1>1, <1>2 DEF SettledIn

WithStatus(it, s) == [it EXCEPT !.status = s]

LEMMA StatusSet ==
  ASSUME NEW it \in Items, NEW s \in Statuses
  PROVE  WithStatus(it, s) \in Items /\ WithStatus(it, s).cert = it.cert /\ WithStatus(it, s).status = s
BY DEF WithStatus, Items

LEMMA CertsVerified ==
  ASSUME NEW its \in Seq(Items), NEW certs
  PROVE  LET new == verifyCerts(its, certs) IN
         /\ Firm(its, new) /\ DOMAIN new = DOMAIN its
         /\ SettledIn(its) => SettledIn(new)
         /\ \A k \in DOMAIN its :
              its[k].cert \in certs /\ IssuerOf(its, its[k].cert) # NoCert =>
                StatusOf(new, its[k].cert) \notin Open
<1> DEFINE new == verifyCerts(its, certs)
           Touched(k) == its[k].cert \in certs /\ k = IndexOf(its, its[k].cert.id)
           Issuer(k) == IssuerOf(its, its[k].cert)
           status(k) == verify(its[k].status, its[k].cert, Issuer(k))
<1>1. Len(its) \in Nat /\ DOMAIN its = 1 .. Len(its)
      /\ \A k \in DOMAIN its : its[k] \in Items /\ its[k].cert \in Certificates /\ its[k].status \in Statuses
  <2>1. \A k \in DOMAIN its : its[k] \in Items
    OBVIOUS
  <2> QED
    BY <2>1 DEF Items
<1>2. DOMAIN new = DOMAIN its
      /\ \A k \in DOMAIN its : new[k] = IF Touched(k) THEN WithStatus(its[k], status(k)) ELSE its[k]
  BY DEF verifyCerts, WithStatus
<1>3. \A k \in DOMAIN its : status(k) \in Statuses
  BY <1>1, SignatureKnown DEF verify, Statuses, Open
<1>4. \A k \in DOMAIN its :
        (its[k].status \notin Open => status(k) = its[k].status)
        /\ (Issuer(k) # NoCert => status(k) \notin Open)
  BY <1>1, SignatureKnown DEF verify, Open
<1>5. ASSUME NEW k \in DOMAIN its, its[k].status \in Open, status(k) \notin Open
      PROVE  Issues(Issuer(k), its[k].cert) /\ Issuer(k) \in Certificates /\ status(k) = SignatureOf(its[k].cert, Issuer(k))
  <2>1. Issuer(k) # NoCert /\ status(k) = SignatureOf(its[k].cert, Issuer(k))
    BY <1>5 DEF verify, Open
  <2> QED
    BY <1>1, <2>1, IssuerFound
<1> HIDE DEF new, status, Issuer
<1>6. \A k \in DOMAIN its :
        new[k] \in Items /\ new[k].cert = its[k].cert
        /\ new[k].status = IF Touched(k) THEN status(k) ELSE its[k].status
  <2> HIDE DEF Touched
  <2> QED
    BY <1>1, <1>2, <1>3, StatusSet
<1>7. new \in Seq(Items)
  <2>1. new = [k \in 1 .. Len(its) |-> new[k]]
    BY <1>1 DEF new, verifyCerts
  <2> QED
    BY <1>1, <1>6, <2>1
<1>8. Firm(its, new)
  BY <1>2, <1>4, <1>6, <1>7 DEF Firm, Grows
<1>9. ASSUME SettledIn(its), NEW k \in DOMAIN new, new[k].status \notin Open
       PROVE  \E d \in Certificates : Issues(d, new[k].cert) /\ new[k].status = SignatureOf(new[k].cert, d)
  <2>0. k \in DOMAIN its
    BY <1>2
  <2>1. CASE its[k].status \in Open
    <3>1. Touched(k) /\ new[k].status = status(k) /\ status(k) \notin Open
      BY <1>6, <1>9, <2>0, <2>1
    <3> QED
      BY <1>5, <1>6, <2>0, <2>1, <3>1
  <2>2. CASE its[k].status \notin Open
    <3>1. new[k].status = its[k].status
      BY <1>4, <1>6, <2>0, <2>2
    <3> QED
      BY <1>6, <1>9, <2>0, <2>2, <3>1 DEF SettledIn
  <2> QED
    BY <2>1, <2>2
<1>10. ASSUME NEW k \in DOMAIN its, its[k].cert \in certs, IssuerOf(its, its[k].cert) # NoCert
       PROVE  StatusOf(new, its[k].cert) \notin Open
  <2> DEFINE n == IndexOf(its, its[k].cert.id)
  <2>1. n \in DOMAIN its /\ n # 0 /\ its[n].cert = its[k].cert
    BY CertFound
  <2>2. IndexOf(new, its[k].cert.id) = n
    BY <1>8, <2>1, IndexStays DEF Firm
  <2>3. Touched(n) /\ Issuer(n) # NoCert
    BY <1>10, <2>1 DEF Issuer
  <2> HIDE DEF n, Touched
  <2>4. new[n].status \notin Open
    BY <1>4, <1>6, <2>1, <2>3
  <2> QED
    BY <2>2, <2>4 DEF StatusOf
<1> QED
  BY <1>2, <1>8, <1>9, <1>10 DEF new, SettledIn

-----------------------------------------------------------------------------
(* Chains *)

(* A path in a store leads from a certificate of it to issuers. *)
Above(its, p, c) ==
  /\ p \in Seq(Certificates)
  /\ Len(p) >= 1 /\ p[1] = c
  /\ \A n \in DOMAIN p : \E k \in DOMAIN its : its[k].cert = p[n]
  /\ \A n \in 1 .. Len(p) - 1 : p[n + 1].keyId = p[n].authorityKeyId

LEMMA PathGoesOn ==
  ASSUME NEW its \in Seq(Items), NEW c, NEW p, Above(its, p, c),
         NEW k \in DOMAIN its, its[k].cert.keyId = Last(p).authorityKeyId
  PROVE  Above(its, Append(p, its[k].cert), c)
<1> DEFINE d == its[k].cert
           q == Append(p, d)
<1>1. p \in Seq(Certificates) /\ Len(p) \in Nat /\ Len(p) >= 1 /\ Last(p) = p[Len(p)] /\ DOMAIN p = 1 .. Len(p)
  BY DEF Above, Last
<1>2. d \in Certificates
  <2>1. its[k] \in Items
    OBVIOUS
  <2> QED
    BY <2>1 DEF Items
<1>3. q \in Seq(Certificates) /\ Len(q) = Len(p) + 1 /\ q[Len(p) + 1] = d
      /\ \A n \in 1 .. Len(p) : q[n] = p[n]
  BY <1>1, <1>2, AppendProperties
<1> HIDE DEF q
<1>4. q[1] = c /\ Len(q) >= 1
  BY <1>1, <1>3 DEF Above
<1>5. ASSUME NEW n \in 1 .. Len(q) - 1 PROVE q[n + 1].keyId = q[n].authorityKeyId
  <2>1. CASE n = Len(p)
    BY <1>1, <1>3, <2>1
  <2>2. CASE n # Len(p)
    <3>1. Len(p) \in Nat /\ n \in 1 .. Len(p)
      BY <1>1, <1>3
    <3>2. n \in 1 .. Len(p) - 1 /\ n \in 1 .. Len(p) /\ n + 1 \in 1 .. Len(p)
      BY <2>2, <3>1
    <3> QED
      BY <1>3, <3>2 DEF Above
  <2> QED
    BY <2>1, <2>2
<1>6. ASSUME NEW n \in DOMAIN q PROVE \E j \in DOMAIN its : its[j].cert = q[n]
  <2>1. n \in 1 .. Len(p) \/ n = Len(p) + 1
    BY <1>1, <1>3
  <2>2. CASE n \in 1 .. Len(p)
    BY <1>1, <1>3, <2>2 DEF Above
  <2>3. CASE n = Len(p) + 1
    BY <1>3, <2>3
  <2> QED
    BY <2>1, <2>2, <2>3
<1> QED
  BY <1>3, <1>4, <1>5, <1>6 DEF Above, q

LEMMA PathIsAbove ==
  ASSUME NEW its \in Seq(Items), NEW m \in DOMAIN its
  PROVE  LET c == its[m].cert
             p == PathFrom(its, c)
         IN Above(its, p, c) /\ (IssuerOf(its, c) = NoCert => p = <<c>>)
<1> DEFINE N == Len(its)
           c == its[m].cert
           Right(p) == Above(its, p, c) /\ (IssuerOf(its, c) = NoCert => p = <<c>>)
           All == {p \in Seq(Certificates) : Right(p)}
           V == [n \in 0 .. N |-> All]
           issuer(d) == getCertByKeyId(its, d.authorityKeyId, 0)
           Further(p) == IF Last(p).selfSigned \/ issuer(Last(p)) = 0 THEN p ELSE Append(p, its[issuer(Last(p))].cert)
           f == [n \in 1 .. N |-> [p \in All |-> Further(p)]]
           Step(g, n) == IF n = 0 THEN <<c>> ELSE Further(g[n - 1])
           Is(g) == g = [n \in 0 .. N |-> Step(g, n)]
           path == CHOOSE g : Is(g)
<1>1. PathFrom(its, c) = path[N]
  BY DEF PathFrom
<1>2. N \in Nat /\ c \in Certificates
  <2>1. its[m] \in Items
    OBVIOUS
  <2> QED
    BY <2>1 DEF Items
<1>3. ASSUME NEW p \in All PROVE Further(p) \in All
  <2>1. CASE Last(p).selfSigned \/ issuer(Last(p)) = 0
    BY <2>1
  <2>2. CASE ~Last(p).selfSigned /\ issuer(Last(p)) # 0
    <3>1. issuer(Last(p)) \in DOMAIN its /\ its[issuer(Last(p))].cert.keyId = Last(p).authorityKeyId
      BY <2>2, LookedUp
    <3>2. Above(its, Further(p), c)
      <4> HIDE DEF issuer
      <4> QED
        BY <2>2, <3>1, PathGoesOn
    <3>3. Further(p) \in Seq(Certificates)
      <4> HIDE DEF Further
      <4> QED
        BY <3>2 DEF Above
    <3>4. IssuerOf(its, c) # NoCert
      <4> SUFFICES ASSUME IssuerOf(its, c) = NoCert PROVE FALSE
        OBVIOUS
      <4>1. Last(p) = c
        <5>1. p = <<c>>
          OBVIOUS
        <5> QED
          BY <5>1 DEF Last
      <4>2. IssuerOf(its, c) = its[issuer(c)].cert /\ its[issuer(c)].cert \in Certificates
        BY <2>2, <4>1, LookedUp DEF IssuerOf
      <4> QED
        BY <4>2, CertificatesAssumption
    <3> HIDE DEF Further
    <3> QED
      BY <3>2, <3>3, <3>4
  <2> QED
    BY <2>1, <2>2
<1>4. <<c>> \in All
  <2>1. <<c>> \in Seq(Certificates) /\ Len(<<c>>) = 1 /\ <<c>>[1] = c /\ DOMAIN <<c>> = {1}
    BY <1>2
  <2>2. Above(its, <<c>>, c)
    BY <2>1 DEF Above
  <2> QED
    BY <2>1, <2>2
<1> HIDE DEF All, Further
<1>5. \A n \in 1 .. N : \A p \in V[n - 1] : f[n][p] = Further(p) /\ p \in All
  BY <1>2
<1>6. \A n \in 0 .. N : V[n] = All
  OBVIOUS
<1>7. <<c>> \in V[0] /\ StaysIn(f, N, V)
  BY <1>2, <1>3, <1>4, <1>5, <1>6 DEF StaysIn
<1> HIDE DEF V, f, N, c
<1>8. PICK W : \E g \in [0 .. N -> W] : Loop(g, f, N, <<c>>) /\ \A n \in 0 .. N : g[n] \in V[n]
  BY <1>2, <1>7, Iterated
<1>9. PICK g \in [0 .. N -> W] : Loop(g, f, N, <<c>>) /\ \A n \in 0 .. N : g[n] \in V[n]
  BY <1>8
<1>10. Is(g)
  <2>1. \A n \in 0 .. N : n # 0 => n \in 1 .. N /\ n - 1 \in 0 .. N
    BY <1>2
  <2>2. \A n \in 0 .. N : g[n] = Step(g, n)
    BY <1>5, <1>9, <2>1 DEF Loop
  <2> HIDE DEF Step
  <2> QED
    BY <2>2
<1>11. Is(path)
  BY <1>10
<1> HIDE DEF path
<1>12. \A n \in 0 .. N : path[n] = Step(path, n)
  BY <1>11
<1>13. path[0] \in V[0] /\ \A n \in 1 .. N : path[n - 1] \in V[n - 1] => path[n] \in V[n]
  <2>1. path[0] = <<c>> /\ \A n \in 1 .. N : path[n] = Further(path[n - 1])
    BY <1>2, <1>12
  <2> QED
    BY <1>5, <1>7, <2>1 DEF StaysIn
<1>14. path[N] \in V[N]
  <2>1. N \in Nat /\ path[0] \in V[0]
    BY <1>2, <1>13
  <2>2. \A n \in 1 .. N : path[n - 1] \in V[n - 1] => path[n] \in V[n]
    BY <1>13
  <2>3. \A n \in 0 .. N : path[n] \in V[n]
    BY <2>1, <2>2, Stays
  <2> QED
    BY <2>1, <2>3
<1>15. path[N] \in All
  BY <1>2, <1>6, <1>14
<1> HIDE DEF Right
<1>16. Right(path[N])
  BY <1>15 DEF All
<1> QED
  BY <1>1, <1>16 DEF Right, c

-----------------------------------------------------------------------------
(* Items of the chain *)

OnceEach(its) == \A j, k \in DOMAIN its : its[j].cert = its[k].cert => j = k

(* The items there were, and new ones for those of S that had none. *)
Extends(its, new, S) ==
  /\ new \in Seq(ChainItems) /\ OnceEach(new)
  /\ \A k \in DOMAIN its : k \in DOMAIN new /\ new[k] = its[k]
  /\ \A k \in DOMAIN new \ DOMAIN its : new[k].cert \in S /\ new[k] = NewItem(new[k].cert)
  /\ \A c \in S : \E k \in DOMAIN new : new[k].cert = c

LEMMA NewItemIsOne ==
  ASSUME NEW c \in Certificates
  PROVE  NewItem(c) \in ChainItems /\ NewItem(c).cert = c
BY DEF NewItem, ChainItems, CertStatuses, Asks

LEMMA ItemAppended ==
  ASSUME NEW its, NEW new, NEW S, Extends(its, new, S), NEW c \in Certificates,
         ~\E k \in DOMAIN new : new[k].cert = c,
         DOMAIN its = 1 .. Len(its), Len(its) \in Nat
  PROVE  Extends(its, Append(new, NewItem(c)), S \cup {c})
<1> DEFINE it == NewItem(c)
           more == Append(new, it)
<1>1. it \in ChainItems /\ it.cert = c
  BY NewItemIsOne
<1>2. new \in Seq(ChainItems) /\ DOMAIN new = 1 .. Len(new) /\ Len(new) \in Nat
  BY DEF Extends
<1> HIDE DEF it
<1>3. /\ more \in Seq(ChainItems) /\ Len(more) = Len(new) + 1
      /\ \A k \in 1 .. Len(new) : more[k] = new[k]
      /\ more[Len(new) + 1] = it
  BY <1>1, <1>2, AppendProperties
<1>4. DOMAIN more = DOMAIN new \cup {Len(new) + 1} /\ Len(new) + 1 \notin DOMAIN new
  BY <1>2, <1>3
<1> HIDE DEF more
<1>5. \A k \in DOMAIN new : more[k] = new[k] /\ new[k].cert # c
  BY <1>2, <1>3
<1>6. OnceEach(more)
  BY <1>1, <1>3, <1>4, <1>5 DEF OnceEach, Extends
<1>7. \A k \in DOMAIN its : k \in DOMAIN more /\ more[k] = its[k]
  BY <1>4, <1>5 DEF Extends
<1>8. \A k \in DOMAIN more \ DOMAIN its : more[k].cert \in S \cup {c} /\ more[k] = NewItem(more[k].cert)
  BY <1>1, <1>3, <1>4, <1>5 DEF Extends, it
<1>9. \A d \in S \cup {c} : \E k \in DOMAIN more : more[k].cert = d
  BY <1>1, <1>3, <1>4, <1>5 DEF Extends
<1> QED
  BY <1>3, <1>6, <1>7, <1>8, <1>9 DEF Extends, more, it

LEMMA ItemsAdded ==
  ASSUME NEW its \in Seq(ChainItems), OnceEach(its), NEW certs \in Seq(Certificates \cup {NoCert})
  PROVE  Extends(its, addItems(its, certs), Range(certs) \ {NoCert})
<1> DEFINE N == Len(certs)
           S(n) == {certs[m] : m \in 1 .. n} \ {NoCert}
           V == [n \in 0 .. N |-> {x \in Seq(ChainItems) : Extends(its, x, S(n))}]
           Further(x, n) == IF certs[n] = NoCert \/ \E k \in DOMAIN x : x[k].cert = certs[n]
                            THEN x ELSE Append(x, NewItem(certs[n]))
           f == [n \in 1 .. N |-> [x \in Seq(ChainItems) |-> Further(x, n)]]
           Step(g, n) == IF n = 0 THEN its ELSE Further(g[n - 1], n)
           Is(g) == g = [n \in 0 .. N |-> Step(g, n)]
           added == CHOOSE g : Is(g)
<1>1. addItems(its, certs) = added[N]
  BY DEF addItems
<1>2. /\ N \in Nat /\ DOMAIN certs = 1 .. N
      /\ \A n \in 1 .. N : certs[n] \in Certificates \cup {NoCert}
      /\ DOMAIN its = 1 .. Len(its) /\ Len(its) \in Nat
  OBVIOUS
<1>3. ASSUME NEW n \in 1 .. N, NEW x \in Seq(ChainItems), Extends(its, x, S(n - 1))
      PROVE  Extends(its, Further(x, n), S(n))
  <2>1. 1 .. n = (1 .. n - 1) \cup {n}
    BY <1>2
  <2>2. S(n) = (S(n - 1) \cup {certs[n]}) \ {NoCert}
    BY <2>1
  <2> HIDE DEF S
  <2>3. CASE certs[n] = NoCert
    <3>1. S(n) = S(n - 1)
      BY <2>2, <2>3 DEF S
    <3> QED
      BY <1>3, <2>3, <3>1
  <2>4. CASE certs[n] # NoCert /\ \E k \in DOMAIN x : x[k].cert = certs[n]
    <3>1. S(n) = S(n - 1) \cup {certs[n]}
      BY <2>2, <2>4 DEF S
    <3>2. Extends(its, x, S(n - 1) \cup {certs[n]})
      BY <1>3, <2>4 DEF Extends
    <3> QED
      BY <2>4, <3>1, <3>2
  <2>5. CASE certs[n] # NoCert /\ ~\E k \in DOMAIN x : x[k].cert = certs[n]
    <3>1. S(n) = S(n - 1) \cup {certs[n]} /\ certs[n] \in Certificates
      BY <1>2, <2>2, <2>5 DEF S
    <3>2. Extends(its, Append(x, NewItem(certs[n])), S(n - 1) \cup {certs[n]})
      BY <1>2, <1>3, <2>5, <3>1, ItemAppended
    <3> QED
      BY <2>5, <3>1, <3>2
  <2> QED
    BY <2>3, <2>4, <2>5
<1>4. Extends(its, its, S(0))
  <2>1. S(0) = {}
    OBVIOUS
  <2> QED
    BY <2>1 DEF Extends
<1> HIDE DEF Further, S
<1>5. \A n \in 0 .. N : V[n] = {x \in Seq(ChainItems) : Extends(its, x, S(n))}
  OBVIOUS
<1>6. \A n \in 1 .. N : \A x \in V[n - 1] :
        f[n][x] = Further(x, n) /\ x \in Seq(ChainItems) /\ Extends(its, x, S(n - 1))
  BY <1>2
<1> HIDE DEF V, f
<1>7. ASSUME NEW n \in 1 .. N, NEW x \in V[n - 1]
      PROVE  f[n][x] \in Seq(ChainItems) /\ Extends(its, f[n][x], S(n))
  <2>1. Extends(its, f[n][x], S(n))
    BY <1>3, <1>6
  <2> QED
    BY <2>1 DEF Extends
<1>8. its \in V[0] /\ StaysIn(f, N, V)
  <2>1. its \in V[0]
    BY <1>2, <1>4, <1>5
  <2>2. ASSUME NEW n \in 1 .. N, NEW x \in V[n - 1] PROVE f[n][x] \in V[n]
    <3>1. n \in 0 .. N
      BY <1>2
    <3>2. f[n][x] \in Seq(ChainItems) /\ Extends(its, f[n][x], S(n))
      BY <1>7
    <3> QED
      BY <1>5, <3>1, <3>2
  <2> QED
    BY <2>1, <2>2 DEF StaysIn
<1> HIDE DEF N
<1>9. PICK W : \E g \in [0 .. N -> W] : Loop(g, f, N, its) /\ \A n \in 0 .. N : g[n] \in V[n]
  BY <1>2, <1>8, Iterated
<1>10. PICK g \in [0 .. N -> W] : Loop(g, f, N, its) /\ \A n \in 0 .. N : g[n] \in V[n]
  BY <1>9
<1>11. Is(g)
  <2>1. \A n \in 0 .. N : n # 0 => n \in 1 .. N /\ n - 1 \in 0 .. N
    BY <1>2
  <2>2. \A n \in 0 .. N : g[n] = Step(g, n)
    BY <1>6, <1>10, <2>1 DEF Loop
  <2> HIDE DEF Step
  <2> QED
    BY <2>2
<1>12. Is(added)
  BY <1>11
<1> HIDE DEF added
<1>13. \A n \in 0 .. N : added[n] = Step(added, n)
  BY <1>12
<1>14. added[0] \in V[0] /\ \A n \in 1 .. N : added[n - 1] \in V[n - 1] => added[n] \in V[n]
  <2>1. added[0] = its /\ \A n \in 1 .. N : added[n] = Further(added[n - 1], n)
    BY <1>2, <1>13
  <2> QED
    BY <1>6, <1>8, <2>1 DEF StaysIn
<1>15. added[N] \in V[N]
  <2>1. N \in Nat /\ added[0] \in V[0]
    BY <1>2, <1>14
  <2>2. \A n \in 1 .. N : added[n - 1] \in V[n - 1] => added[n] \in V[n]
    BY <1>14
  <2>3. \A n \in 0 .. N : added[n] \in V[n]
    BY <2>1, <2>2, Stays
  <2> QED
    BY <2>1, <2>3
<1>16. S(N) = Range(certs) \ {NoCert}
  BY <1>2 DEF S, Range
<1>17. Extends(its, added[N], S(N))
  BY <1>2, <1>5, <1>15
<1> QED
  BY <1>1, <1>16, <1>17

LEMMA RangeConcat ==
  ASSUME NEW S, NEW p \in Seq(S), NEW q \in Seq(S)
  PROVE  p \o q \in Seq(S) /\ Range(p \o q) = Range(p) \cup Range(q)
<1> DEFINE r == p \o q
<1>1. /\ r \in Seq(S) /\ Len(r) = Len(p) + Len(q)
      /\ \A k \in 1 .. Len(p) + Len(q) : r[k] = IF k <= Len(p) THEN p[k] ELSE q[k - Len(p)]
  BY ConcatProperties
<1>2. /\ DOMAIN p = 1 .. Len(p) /\ Len(p) \in Nat /\ DOMAIN q = 1 .. Len(q) /\ Len(q) \in Nat
      /\ DOMAIN r = 1 .. Len(p) + Len(q)
  BY <1>1
<1> HIDE DEF r
<1>3. ASSUME NEW k \in DOMAIN r PROVE r[k] \in Range(p) \cup Range(q)
  <2>1. CASE k <= Len(p)
    BY <1>1, <1>2, <2>1 DEF Range
  <2>2. CASE ~(k <= Len(p))
    <3>1. k - Len(p) \in DOMAIN q /\ r[k] = q[k - Len(p)]
      BY <1>1, <1>2, <2>2
    <3> QED
      BY <3>1 DEF Range
  <2> QED
    BY <2>1, <2>2
<1>4. ASSUME NEW k \in DOMAIN p PROVE p[k] \in Range(r)
  <2>1. k \in DOMAIN r /\ r[k] = p[k]
    BY <1>1, <1>2
  <2> QED
    BY <2>1 DEF Range
<1>5. ASSUME NEW k \in DOMAIN q PROVE q[k] \in Range(r)
  <2>1. k + Len(p) \in DOMAIN r /\ ~(k + Len(p) <= Len(p)) /\ (k + Len(p)) - Len(p) = k
    BY <1>2
  <2>2. r[k + Len(p)] = q[k]
    BY <1>1, <1>2, <2>1
  <2> QED
    BY <2>1, <2>2 DEF Range
<1>6. \A x : (x \in Range(r)) <=> (x \in Range(p) \/ x \in Range(q))
  BY <1>3, <1>4, <1>5 DEF Range
<1>7. Range(r) = Range(p) \cup Range(q)
  BY <1>6
<1> QED
  BY <1>1, <1>7 DEF r

(* In the chains are the certificates of each path, and no others. *)
LEMMA ChainsOfPaths ==
  ASSUME NEW certs, DOMAIN certs = 1 .. Len(certs), Len(certs) \in Nat,
         \A n \in DOMAIN certs : PathFrom(store, certs[n]) \in Seq(Certificates)
  PROVE  /\ Chains(certs) \in Seq(Certificates)
         /\ \A c : c \in Range(Chains(certs)) <=> \E n \in DOMAIN certs : c \in Range(PathFrom(store, certs[n]))
<1> DEFINE N == Len(certs)
           Path(n) == PathFrom(store, certs[n])
           In(x, n) == \A c : (c \in Range(x)) <=> (\E m \in 1 .. n : c \in Range(Path(m)))
           V == [n \in 0 .. N |-> {x \in Seq(Certificates) : In(x, n)}]
           Further(x, n) == x \o Path(n)
           f == [n \in 1 .. N |-> [x \in Seq(Certificates) |-> Further(x, n)]]
           Step(g, n) == IF n = 0 THEN <<>> ELSE Further(g[n - 1], n)
           Is(g) == g = [n \in 0 .. N |-> Step(g, n)]
           chain == CHOOSE g : Is(g)
<1>1. Chains(certs) = chain[N]
  BY DEF Chains
<1>2. N \in Nat /\ \A n \in 1 .. N : Path(n) \in Seq(Certificates)
  OBVIOUS
<1> HIDE DEF Path
<1>3. ASSUME NEW n \in 1 .. N, NEW x \in Seq(Certificates), In(x, n - 1)
      PROVE  Further(x, n) \in Seq(Certificates) /\ In(Further(x, n), n)
  <2>1. Further(x, n) \in Seq(Certificates) /\ Range(Further(x, n)) = Range(x) \cup Range(Path(n))
    BY <1>2, RangeConcat
  <2> HIDE DEF Further
  <2>2. \A m : m \in 1 .. n <=> (m \in 1 .. n - 1 \/ m = n)
    BY <1>2
  <2>3. \A c : (c \in Range(x)) <=> (\E m \in 1 .. n - 1 : c \in Range(Path(m)))
    BY <1>3
  <2>4. \A c : (c \in Range(Further(x, n))) <=> (\E m \in 1 .. n : c \in Range(Path(m)))
    BY <2>1, <2>2, <2>3
  <2> QED
    BY <2>1, <2>4
<1>4. <<>> \in Seq(Certificates) /\ In(<<>>, 0)
  BY DEF Range
<1> HIDE DEF Further, In
<1>5. \A n \in 0 .. N : V[n] = {x \in Seq(Certificates) : In(x, n)}
  OBVIOUS
<1>6. \A n \in 1 .. N : \A x \in V[n - 1] : f[n][x] = Further(x, n) /\ x \in Seq(Certificates) /\ In(x, n - 1)
  BY <1>2
<1> HIDE DEF V, f
<1>7. <<>> \in V[0] /\ StaysIn(f, N, V)
  <2>1. <<>> \in V[0]
    <3>1. V[0] = {x \in Seq(Certificates) : In(x, 0)}
      BY <1>2, <1>5
    <3> QED
      BY <1>4, <3>1
  <2>2. ASSUME NEW n \in 1 .. N, NEW x \in V[n - 1] PROVE f[n][x] \in V[n]
    <3>1. n \in 0 .. N
      BY <1>2
    <3>2. f[n][x] \in Seq(Certificates) /\ In(f[n][x], n)
      BY <1>3, <1>6
    <3> QED
      BY <1>5, <3>1, <3>2
  <2> QED
    BY <2>1, <2>2 DEF StaysIn
<1> HIDE DEF N
<1>8. PICK W : \E g \in [0 .. N -> W] : Loop(g, f, N, <<>>) /\ \A n \in 0 .. N : g[n] \in V[n]
  BY <1>2, <1>7, Iterated
<1>9. PICK g \in [0 .. N -> W] : Loop(g, f, N, <<>>) /\ \A n \in 0 .. N : g[n] \in V[n]
  BY <1>8
<1>10. Is(g)
  <2>1. \A n \in 0 .. N : n # 0 => n \in 1 .. N /\ n - 1 \in 0 .. N
    BY <1>2
  <2>2. \A n \in 0 .. N : g[n] = Step(g, n)
    BY <1>6, <1>9, <2>1 DEF Loop
  <2> HIDE DEF Step
  <2> QED
    BY <2>2
<1>11. Is(chain)
  BY <1>10
<1> HIDE DEF chain
<1>12. \A n \in 0 .. N : chain[n] = Step(chain, n)
  BY <1>11
<1>13. chain[0] \in V[0] /\ \A n \in 1 .. N : chain[n - 1] \in V[n - 1] => chain[n] \in V[n]
  <2>1. chain[0] = <<>> /\ \A n \in 1 .. N : chain[n] = Further(chain[n - 1], n)
    BY <1>2, <1>12
  <2> QED
    BY <1>6, <1>7, <2>1 DEF StaysIn
<1>14. chain[N] \in V[N]
  <2>1. N \in Nat /\ chain[0] \in V[0]
    BY <1>2, <1>13
  <2>2. \A n \in 1 .. N : chain[n - 1] \in V[n - 1] => chain[n] \in V[n]
    BY <1>13
  <2>3. \A n \in 0 .. N : chain[n] \in V[n]
    BY <2>1, <2>2, Stays
  <2> QED
    BY <2>1, <2>3
<1>15. chain[N] \in Seq(Certificates) /\ In(chain[N], N)
  BY <1>2, <1>5, <1>14
<1> QED
  BY <1>1, <1>15 DEF In, Path, N

-----------------------------------------------------------------------------
(* Answers in the signature *)

(* Of an item only the answer changes. *)
OnlyAnswer(old, new) ==
  /\ new \in ChainItems
  /\ new.cert = old.cert /\ new.built = old.built /\ new.expired = old.expired
  /\ new.sound = old.sound /\ new.crlIssuer = old.crlIssuer /\ new.asked = old.asked
  /\ new.type \in {old.type, "OCSP"}

(* After the first n of the answers. *)
AfterAnswers(acc, vals, n) ==
  /\ Keeps(store, acc.store)
  /\ acc.ocsp \in Seq(Certificates)
  /\ \A c \in Range(acc.ocsp) : \E k \in DOMAIN acc.store : acc.store[k].cert = c
  /\ acc.items \in Seq(ChainItems) /\ DOMAIN acc.items = DOMAIN items
  /\ \A k \in DOMAIN items : OnlyAnswer(items[k], acc.items[k])
  /\ \A m \in 1 .. n, k \in DOMAIN items :
       vals[m].cert = items[k].cert.id => acc.items[k].type = "OCSP"

WithAnswer(it, certStatus) == [it EXCEPT !.type = "OCSP", !.certStatus = certStatus]

LEMMA AnswerSet ==
  ASSUME NEW it \in ChainItems, NEW s \in CertStatuses
  PROVE  OnlyAnswer(it, WithAnswer(it, s)) /\ WithAnswer(it, s).type = "OCSP"
BY DEF WithAnswer, ChainItems, OnlyAnswer

LEMMA AnswersAdd ==
  ASSUME NEW a, NEW b, NEW c, OnlyAnswer(a, b), OnlyAnswer(b, c), b.type = "OCSP" => c.type = "OCSP"
  PROVE  OnlyAnswer(a, c)
BY DEF OnlyAnswer

LEMMA AnswerEmbedded ==
  ASSUME store \in Seq(Items), items \in Seq(ChainItems), OnceEach(items),
         NEW vals, NEW n \in Nat \ {0}, NEW acc, AfterAnswers(acc, vals, n - 1),
         vals[n].certs \in Seq(Certificates), vals[n].certStatus \in {"GOOD", "REVOKED", "UNKNOWN"}
  PROVE  AfterAnswers(Embed(acc, vals[n]), vals, n)
<1> DEFINE val == vals[n]
           its == AddCerts(acc.store, val.certs)
           responder == getCertByKeyId(its, val.responder, 0)
           at == IndexOf(acc.items, val.cert)
           res == Embed(acc, val)
<1>1. /\ acc.store \in Seq(Items) /\ acc.items \in Seq(ChainItems) /\ acc.ocsp \in Seq(Certificates)
      /\ DOMAIN acc.items = DOMAIN items /\ \A k \in DOMAIN items : acc.items[k].cert = items[k].cert
      /\ \A k \in DOMAIN items : items[k].cert \in Certificates /\ items[k] \in ChainItems
  <2>1. \A k \in DOMAIN items : items[k] \in ChainItems
    OBVIOUS
  <2> QED
    BY <2>1 DEF AfterAnswers, Keeps, Grows, OnlyAnswer, ChainItems
<1>2. /\ at # 0 => at \in DOMAIN items /\ items[at].cert.id = val.cert
      /\ \A k \in DOMAIN items : items[k].cert.id = val.cert => at = k
  <2>1. /\ at # 0 => at \in DOMAIN acc.items /\ acc.items[at].cert.id = val.cert
        /\ \A k \in DOMAIN acc.items : acc.items[k].cert.id = val.cert => at # 0
    BY <1>1, IndexFound
  <2>2. at # 0 => at \in DOMAIN items /\ items[at].cert.id = val.cert
    BY <1>1, <2>1
  <2>3. ASSUME NEW k \in DOMAIN items, items[k].cert.id = val.cert PROVE at = k
    <3>1. at \in DOMAIN items /\ items[at].cert.id = items[k].cert.id
      BY <1>1, <2>1, <2>2, <2>3
    <3>2. items[at].cert = items[k].cert
      BY <1>1, <3>1, CertificatesAssumption
    <3> QED
      BY <3>1, <3>2 DEF OnceEach
  <2> QED
    BY <2>2, <2>3
<1>3. ASSUME NEW m \in 1 .. n PROVE m \in 1 .. n - 1 \/ m = n
  OBVIOUS
<1>4. CASE at = 0
  <2>1. res = acc
    BY <1>4 DEF Embed
  <2>2. \A m \in 1 .. n, k \in DOMAIN items : vals[m].cert = items[k].cert.id => acc.items[k].type = "OCSP"
    <3> SUFFICES ASSUME NEW m \in 1 .. n, NEW k \in DOMAIN items, vals[m].cert = items[k].cert.id
                 PROVE  acc.items[k].type = "OCSP"
      OBVIOUS
    <3>1. m # n
      <4>1. k # 0
        OBVIOUS
      <4> HIDE DEF at
      <4> QED
        BY <1>2, <1>4, <4>1
    <3> QED
      BY <1>3, <3>1 DEF AfterAnswers
  <2> QED
    BY <2>1, <2>2 DEF AfterAnswers
<1>5. CASE at # 0
  <2>1. /\ res.store = its
        /\ res.ocsp = IF responder = 0 THEN acc.ocsp ELSE Append(acc.ocsp, its[responder].cert)
        /\ res.items = [acc.items EXCEPT ![at] = WithAnswer(@, val.certStatus)]
    BY <1>5 DEF Embed, WithAnswer
  <2>2. Keeps(acc.store, its)
    BY <1>1, CertsAdded
  <2> HIDE DEF its, at, res
  <2>3. its \in Seq(Items)
    BY <2>2 DEF Keeps, Grows
  <2>4. Keeps(store, its)
    <3>1. Keeps(store, acc.store)
      BY DEF AfterAnswers
    <3> QED
      BY <2>2, <3>1 DEF Keeps, Grows
  <2>5. /\ res.ocsp \in Seq(Certificates)
        /\ \A c \in Range(res.ocsp) : \E k \in DOMAIN its : its[k].cert = c
    <3>1. \A c \in Range(acc.ocsp) : \E k \in DOMAIN its : its[k].cert = c
      <4>1. \A c \in Range(acc.ocsp) : \E k \in DOMAIN acc.store : acc.store[k].cert = c
        BY DEF AfterAnswers
      <4>2. \A k \in DOMAIN acc.store : k \in DOMAIN its /\ its[k].cert = acc.store[k].cert
        BY <2>2 DEF Keeps, Grows
      <4> QED
        BY <4>1, <4>2
    <3>2. CASE responder = 0
      BY <1>1, <2>1, <3>1, <3>2
    <3>3. CASE responder # 0
      <4> DEFINE d == its[responder].cert
      <4>1. responder \in DOMAIN its /\ d \in Certificates
        BY <2>3, <3>3, LookedUp
      <4> HIDE DEF responder
      <4>2. \A c \in Range(Append(acc.ocsp, d)) : c \in Range(acc.ocsp) \/ c = d
        BY <1>1, <4>1, AppendProperties DEF Range
      <4>3. Append(acc.ocsp, d) \in Seq(Certificates)
        BY <1>1, <4>1, AppendProperties
      <4> QED
        BY <2>1, <3>1, <3>3, <4>1, <4>2, <4>3
    <3> QED
      BY <3>2, <3>3
  <2>6. /\ DOMAIN res.items = DOMAIN items
        /\ \A k \in DOMAIN items :
             res.items[k] = IF k = at THEN WithAnswer(acc.items[k], val.certStatus) ELSE acc.items[k]
    BY <1>1, <2>1
  <2>7. ASSUME NEW k \in DOMAIN items
        PROVE  /\ OnlyAnswer(items[k], res.items[k])
               /\ acc.items[k].type = "OCSP" \/ k = at => res.items[k].type = "OCSP"
    <3>1. OnlyAnswer(items[k], acc.items[k])
      BY DEF AfterAnswers
    <3>2. val.certStatus \in CertStatuses /\ acc.items[k] \in ChainItems
      BY <3>1 DEF CertStatuses, OnlyAnswer
    <3>3. /\ OnlyAnswer(acc.items[k], WithAnswer(acc.items[k], val.certStatus))
          /\ WithAnswer(acc.items[k], val.certStatus).type = "OCSP"
      BY <3>2, AnswerSet
    <3>4. OnlyAnswer(items[k], WithAnswer(acc.items[k], val.certStatus))
      BY <3>1, <3>3, AnswersAdd
    <3> QED
      BY <2>6, <3>1, <3>3, <3>4
  <2>8. res.items \in Seq(ChainItems)
    <3>1. DOMAIN res.items = 1 .. Len(items) /\ Len(items) \in Nat
      BY <2>6
    <3>2. \A k \in 1 .. Len(items) : res.items[k] \in ChainItems
      BY <2>6, <2>7, <3>1 DEF OnlyAnswer
    <3>3. res.items = [k \in 1 .. Len(items) |-> res.items[k]]
      BY <1>1, <2>1, <3>1
    <3> QED
      BY <3>1, <3>2, <3>3
  <2>9. \A m \in 1 .. n, k \in DOMAIN items : vals[m].cert = items[k].cert.id => res.items[k].type = "OCSP"
    <3> SUFFICES ASSUME NEW m \in 1 .. n, NEW k \in DOMAIN items, vals[m].cert = items[k].cert.id
                 PROVE  res.items[k].type = "OCSP"
      OBVIOUS
    <3>1. CASE m = n
      BY <1>2, <2>7, <3>1
    <3>2. CASE m \in 1 .. n - 1
      <4>1. acc.items[k].type = "OCSP"
        BY <3>2 DEF AfterAnswers
      <4> QED
        BY <2>7, <4>1
    <3> QED
      BY <1>3, <3>1, <3>2
  <2>10. AfterAnswers(res, vals, n)
    BY <2>1, <2>4, <2>5, <2>6, <2>7, <2>8, <2>9 DEF AfterAnswers
  <2> QED
    BY <2>10 DEF res
<1> QED
  BY <1>4, <1>5

Accs == [store : Seq(Items), ocsp : Seq(Certificates), items : Seq(ChainItems)]

LEMMA AnswersEmbedded ==
  ASSUME store \in Seq(Items), items \in Seq(ChainItems), OnceEach(items),
         ocsp \in Seq(Certificates), Range(ocsp) \subseteq StoreCerts,
         NEW vals, Len(vals) \in Nat,
         \A n \in 1 .. Len(vals) :
           vals[n].certs \in Seq(Certificates) /\ vals[n].certStatus \in {"GOOD", "REVOKED", "UNKNOWN"}
  PROVE  AfterAnswers(Embedded(vals), vals, Len(vals))
<1> DEFINE N == Len(vals)
           base == [store |-> store, ocsp |-> ocsp, items |-> items]
           V == [n \in 0 .. N |-> {x \in Accs : AfterAnswers(x, vals, n)}]
           Further(x, n) == Embed(x, vals[n])
           f == [n \in 1 .. N |-> [x \in Accs |-> Further(x, n)]]
           Step(g, n) == IF n = 0 THEN base ELSE Further(g[n - 1], n)
           Is(g) == g = [n \in 0 .. N |-> Step(g, n)]
           acc == CHOOSE g : Is(g)
<1>1. Embedded(vals) = acc[N]
  BY DEF Embedded
<1>2. N \in Nat
  OBVIOUS
<1>3. ASSUME NEW n \in 1 .. N, NEW x \in Accs, AfterAnswers(x, vals, n - 1)
      PROVE  Further(x, n) \in Accs /\ AfterAnswers(Further(x, n), vals, n)
  <2>1. AfterAnswers(Further(x, n), vals, n)
    BY <1>3, AnswerEmbedded
  <2>2. Further(x, n).store \in Seq(Items) /\ Further(x, n).ocsp \in Seq(Certificates)
        /\ Further(x, n).items \in Seq(ChainItems)
    BY <2>1 DEF AfterAnswers, Keeps, Grows
  <2>3. Further(x, n) = x \/ Further(x, n) = [store |-> Further(x, n).store, ocsp |-> Further(x, n).ocsp,
                                              items |-> Further(x, n).items]
    BY DEF Embed
  <2> HIDE DEF Further
  <2>4. Further(x, n) \in Accs
    BY <2>2, <2>3 DEF Accs
  <2> QED
    BY <2>1, <2>4
<1>4. base \in Accs /\ AfterAnswers(base, vals, 0)
  <2>1. Keeps(store, store)
    BY DEF Keeps, Grows
  <2>2. \A k \in DOMAIN items : OnlyAnswer(items[k], items[k])
    <3>1. \A k \in DOMAIN items : items[k] \in ChainItems
      OBVIOUS
    <3> QED
      BY <3>1 DEF OnlyAnswer
  <2>3. \A c \in Range(ocsp) : \E k \in DOMAIN store : store[k].cert = c
    BY DEF StoreCerts
  <2> QED
    BY <2>1, <2>2, <2>3 DEF AfterAnswers, Accs
<1> HIDE DEF Further, base
<1>5. \A n \in 0 .. N : V[n] = {x \in Accs : AfterAnswers(x, vals, n)}
  OBVIOUS
<1>6. \A n \in 1 .. N : \A x \in V[n - 1] : f[n][x] = Further(x, n) /\ x \in Accs /\ AfterAnswers(x, vals, n - 1)
  BY <1>2
<1> HIDE DEF V, f, N
<1>7. base \in V[0] /\ StaysIn(f, N, V)
  <2>1. base \in V[0]
    <3>1. V[0] = {x \in Accs : AfterAnswers(x, vals, 0)}
      BY <1>2, <1>5
    <3> QED
      BY <1>4, <3>1
  <2>2. ASSUME NEW n \in 1 .. N, NEW x \in V[n - 1] PROVE f[n][x] \in V[n]
    <3>1. n \in 0 .. N
      BY <1>2
    <3>2. f[n][x] \in Accs /\ AfterAnswers(f[n][x], vals, n)
      BY <1>3, <1>6
    <3> QED
      BY <1>5, <3>1, <3>2
  <2> QED
    BY <2>1, <2>2 DEF StaysIn
<1>8. PICK W : \E g \in [0 .. N -> W] : Loop(g, f, N, base) /\ \A n \in 0 .. N : g[n] \in V[n]
  BY <1>2, <1>7, Iterated
<1>9. PICK g \in [0 .. N -> W] : Loop(g, f, N, base) /\ \A n \in 0 .. N : g[n] \in V[n]
  BY <1>8
<1>10. Is(g)
  <2>1. \A n \in 0 .. N : n # 0 => n \in 1 .. N /\ n - 1 \in 0 .. N
    BY <1>2
  <2>2. \A n \in 0 .. N : g[n] = Step(g, n)
    BY <1>6, <1>9, <2>1 DEF Loop
  <2> HIDE DEF Step
  <2> QED
    BY <2>2
<1>11. Is(acc)
  BY <1>10
<1> HIDE DEF acc
<1>12. \A n \in 0 .. N : acc[n] = Step(acc, n)
  BY <1>11
<1>13. acc[0] \in V[0] /\ \A n \in 1 .. N : acc[n - 1] \in V[n - 1] => acc[n] \in V[n]
  <2>1. acc[0] = base /\ \A n \in 1 .. N : acc[n] = Further(acc[n - 1], n)
    BY <1>2, <1>12
  <2> QED
    BY <1>6, <1>7, <2>1 DEF StaysIn
<1>14. acc[N] \in V[N]
  <2>1. N \in Nat /\ acc[0] \in V[0]
    BY <1>2, <1>13
  <2>2. \A n \in 1 .. N : acc[n - 1] \in V[n - 1] => acc[n] \in V[n]
    BY <1>13
  <2>3. \A n \in 0 .. N : acc[n] \in V[n]
    BY <2>1, <2>2, Stays
  <2> QED
    BY <2>1, <2>3
<1>15. AfterAnswers(acc[N], vals, N)
  BY <1>2, <1>5, <1>14
<1> QED
  BY <1>1, <1>15 DEF N

-----------------------------------------------------------------------------
(* What stays when certificates stay in the store *)

LEMMA CertStays ==
  ASSUME NEW k \in DOMAIN store, Grows(store, store')
  PROVE  k \in DOMAIN store' /\ Cert(k)' = Cert(k)
BY DEF Grows, Cert

LEMMA StoreCertsStay ==
  ASSUME Grows(store, store')
  PROVE  StoreCerts \subseteq StoreCerts'
<1>1. ASSUME NEW k \in DOMAIN store PROVE k \in DOMAIN store' /\ store'[k].cert = store[k].cert
  BY DEF Grows
<1> QED
  BY <1>1 DEF StoreCerts

(* Nothing of what was seen is said anew. *)
SameFindings ==
  /\ info'.signature = info.signature /\ info'.digest = info.digest /\ info'.ess = info.ess
  /\ info'.certRefs = info.certRefs /\ info'.cerSigner = info.cerSigner
  /\ info'.format = info.format
  /\ \A f \in StampFields : info'[f] = info[f]

LEMMA SeenStays ==
  ASSUME TypeOK, Known, Seen, Grows(store, store'), sig' = sig, SameFindings,
         expectedCerts \subseteq expectedCerts', Range(tsp) \subseteq Range(tsp)',
         pc' # "idle" => pc # "idle",
         info'.abort = "none" /\ (pc' \notin Checking \/ pc' \in {"archiveTS", "format"}) =>
           info.abort = "none" /\ (pc \notin Checking \/ pc \in {"archiveTS", "format"})
  PROVE  Seen'
<1>1. ASSUME info'.signature = "VALID"
      PROVE  /\ sig'.sound /\ info'.cerSigner # 0
             /\ Cert(info.cerSigner)'.id = sig'.sid \/ Cert(info.cerSigner)'.keyId = sig'.sid
  <2>1. info.cerSigner \in DOMAIN store /\ info'.cerSigner = info.cerSigner
    BY <1>1 DEF SameFindings, Known, Seen
  <2>2. store'[info.cerSigner].cert = store[info.cerSigner].cert
    BY <2>1 DEF Grows
  <2> QED
    BY <1>1, <2>1, <2>2 DEF SameFindings, Seen, Cert
<1>2. info'.signature = "INDETERMINATE" => sig'.sid \in expectedCerts'
  BY DEF SameFindings, Seen
<1>3. /\ info'.digest = "VALID" => sig'.digest = "match"
      /\ info'.ess = "VALID" => sig'.ess = "match"
      /\ info'.ess = "NOT_PRESENT" /\ pc' # "idle" => sig'.ess = "absent"
  BY DEF SameFindings, Seen
<1>4. ASSUME NEW f \in StampFields
      PROVE  /\ info'[f].signature = "VALID" => sig'[f].sound /\ \E c \in Range(tsp)' : c.id = sig'[f].tsp
             /\ info'[f].signature = "INDETERMINATE" => sig'[f].tsp \in expectedCerts'
             /\ info'[f].digest = "VALID" => sig'[f].digest = "match"
  <2>1. info'[f] = info[f]
    BY DEF SameFindings
  <2> QED
    BY <2>1 DEF Seen
<1>5. ASSUME AtLeastC', pc' \notin Checking \/ pc' \in {"archiveTS", "format"}, info'.abort = "none"
      PROVE  /\ info'.certRefs = "VALID" => \A k \in DOMAIN sig'.refs : sig'.refs[k].match
             /\ info'.certRefs = "INDETERMINATE" => expectedCerts' \cap {r.id : r \in Range(sig'.refs)} # {}
  <2>1. AtLeastC /\ (pc \notin Checking \/ pc \in {"archiveTS", "format"}) /\ info.abort = "none"
    BY <1>5 DEF SameFindings, AtLeastC
  <2>2. /\ info.certRefs = "VALID" => \A k \in DOMAIN sig.refs : sig.refs[k].match
        /\ info.certRefs = "INDETERMINATE" => expectedCerts \cap {r.id : r \in Range(sig.refs)} # {}
    BY <2>1 DEF Seen
  <2> DEFINE ids == {r.id : r \in Range(sig.refs)}
  <2>3. ids' = ids
    BY DEF Range
  <2> HIDE DEF ids
  <2> QED
    BY <2>2, <2>3 DEF SameFindings, ids
<1> QED
  BY <1>1, <1>2, <1>3, <1>4, <1>5 DEF Seen

LEMMA CollectedStays ==
  ASSUME Collected, sig' = sig, SameFindings, info'.best = info.best,
         info'.status = "TOTAL_VALID" => info.status = "TOTAL_VALID"
  PROVE  Collected'
<1> SUFFICES ASSUME info'.status = "TOTAL_VALID"
             PROVE  /\ info'.signature = "VALID" /\ info'.digest = "VALID" /\ info'.ess \in {"NOT_PRESENT", "VALID"}
                    /\ sig'.ess # "differs"
                    /\ \A f \in PresentTS' : info'[f] = [digest |-> "VALID", signature |-> "VALID"]
                    /\ AtLeastC' => info'.certRefs = "VALID"
                    /\ Present(sig'.signatureTS) => info'.best = sig'.signatureTS.genTime
  BY DEF Collected
<1>1. /\ info.signature = "VALID" /\ info.digest = "VALID" /\ info.ess \in {"NOT_PRESENT", "VALID"}
      /\ sig.ess # "differs"
      /\ AtLeastC => info.certRefs = "VALID"
      /\ Present(sig.signatureTS) => info.best = sig.signatureTS.genTime
  BY DEF Collected
<1>2. \A f \in PresentTS : info[f] = [digest |-> "VALID", signature |-> "VALID"]
  BY DEF Collected
<1>3. PresentTS' = PresentTS /\ \A f \in PresentTS : f \in StampFields
  BY DEF PresentTS, StampFields
<1>4. AtLeastC' = AtLeastC
  BY DEF AtLeastC, SameFindings
<1> QED
  BY <1>1, <1>2, <1>3, <1>4 DEF SameFindings

(* The store may grow and more may be expected. *)
LEMMA SettledStays ==
  ASSUME TypeOK, Known, Settled, Firm(store, store'), SettledIn(store'), verifying' = verifying,
         \A k \in DOMAIN items' : items'[k].built =>
           k \in DOMAIN items /\ items'[k].cert = items[k].cert /\ items[k].built
  PROVE  Settled'
<1>1. store \in Seq(Items) /\ Grows(store, store')
  BY DEF TypeOK, Firm
<1>2. \A k \in DOMAIN store' :
        store'[k].status \notin Open =>
          \E d \in Certificates : Issues(d, store'[k].cert) /\ store'[k].status = SignatureOf(store'[k].cert, d)
  BY DEF SettledIn
<1>3. ASSUME verifying' # NoCert
      PROVE  LET k == IndexOf(store', verifying') IN
             k # 0 /\ verifying' \in Reverified /\ IssuerOf(store', store'[k].cert) # NoCert
  <2> DEFINE k == IndexOf(store, verifying)
  <2>1. k # 0 /\ verifying \in Reverified /\ IssuerOf(store, Cert(k)) # NoCert
    BY <1>3 DEF Settled
  <2>2. IndexOf(store', verifying') = k
    BY <1>1, <2>1, IndexStays
  <2>3. k \in DOMAIN store
    BY <1>1, <2>1, IndexFound
  <2> HIDE DEF k
  <2>4. store[k] \in Items /\ store'[k].cert = store[k].cert
    BY <1>1, <2>3 DEF Grows
  <2>5. store[k].cert \in Certificates
    BY <2>4 DEF Items
  <2>6. IssuerOf(store', store'[k].cert) # NoCert
    BY <1>1, <2>1, <2>4, <2>5, IssuerStays DEF Cert
  <2> QED
    BY <2>1, <2>2, <2>6
<1>4. ASSUME NEW j \in DOMAIN items', NEW k \in DOMAIN items', items'[j].built, items'[k].built,
             items'[j].cert.keyId = items'[k].cert.authorityKeyId, ~items'[k].cert.selfSigned
      PROVE  StatusOf(store', items'[k].cert) \notin Open \/ verifying' = items'[k].cert.id
  <2> DEFINE c == items[k].cert
             n == IndexOf(store, c.id)
  <2>1. k \in DOMAIN items /\ items'[k].cert = c /\ (StatusOf(store, c) \notin Open \/ verifying = c.id)
    BY <1>4 DEF Settled
  <2>2. PICK m \in DOMAIN store : store[m].cert = c
    BY <2>1 DEF Known, StoreCerts
  <2>3. n \in DOMAIN store /\ n # 0
    BY <1>1, <2>2, CertFound
  <2>4. IndexOf(store', c.id) = n
    BY <1>1, <2>3, IndexStays
  <2> HIDE DEF n, c
  <2>5. store[n].status \notin Open => store'[n].status = store[n].status
    BY <2>3 DEF Firm
  <2> QED
    BY <2>1, <2>4, <2>5 DEF StatusOf, n
<1> QED
  BY <1>2, <1>3, <1>4 DEF Settled, Cert

LEMMA StatusStays ==
  ASSUME store \in Seq(Items), Firm(store, store'), NEW c \in StoreCerts, StatusOf(store, c) \notin Open
  PROVE  StatusOf(store', c) = StatusOf(store, c)
<1> DEFINE n == IndexOf(store, c.id)
<1>1. PICK m \in DOMAIN store : store[m].cert = c
  BY DEF StoreCerts
<1>2. n \in DOMAIN store /\ n # 0
  BY <1>1, CertFound
<1>3. IndexOf(store', c.id) = n
  BY <1>2, IndexStays DEF Firm
<1>4. store[n].status \notin Open
  BY DEF StatusOf
<1> HIDE DEF n
<1>5. store'[n].status = store[n].status
  BY <1>2, <1>4 DEF Firm
<1> QED
  BY <1>3, <1>5 DEF StatusOf, n

LEMMA FormatStays ==
  ASSUME info'.format = info.format, sig' = sig, options' = options
  PROVE  /\ AtLeastC' = AtLeastC /\ EmbedsStatus' = EmbedsStatus /\ OcspFirst' = OcspFirst
         /\ Order' = Order /\ InTurn' = InTurn
         /\ \A c : AnsweredIn(c)' = AnsweredIn(c)
<1>1. AtLeastC' = AtLeastC /\ EmbedsStatus' = EmbedsStatus /\ OcspFirst' = OcspFirst
  BY DEF AtLeastC, EmbedsStatus, OcspFirst
<1>2. Order' = Order
  BY <1>1 DEF Order
<1>3. InTurn' = InTurn
  BY <1>1, <1>2 DEF InTurn
<1>4. \A c : AnsweredIn(c)' = AnsweredIn(c)
  BY <1>1 DEF AnsweredIn, Range
<1> QED
  BY <1>1, <1>2, <1>3, <1>4

(* The other methods only touch the store and what SIGN is at. *)
LEMMA OthersStep ==
  ASSUME IInv, Grows(store, store'), UNCHANGED <<m_StatusSign, private>>, Settled',
         pc = "status_valid" /\ RootsReverified /\ ~items[i].cert.selfSigned /\ StatusOf(store, items[i].cert) = "VALID"
           => StatusOf(store', items[i].cert) = "VALID"
  PROVE  IInv'
<1> USE DEF IInv, private, request, lists, expected
<1>1. UNCHANGED <<m_StatusSign, pc, sig, options, calls, info, tsp, ocsp, items, i, expectedCerts, expectedCrls>>
  OBVIOUS
<1>2. TypeOK'
  BY <1>1 DEF TypeOK, Grows
<1>3. Progress'
  <2> USE DEF Progress
  <2> QED
    BY <1>1
<1>4. Known'
  <2>1. StoreCerts \subseteq StoreCerts'
    BY StoreCertsStay
  <2>2. info.cerSigner \in DOMAIN store => info.cerSigner \in DOMAIN store'
    BY DEF Grows
  <2> QED
    BY <1>1, <2>1, <2>2 DEF Known
<1>5. SameFindings
  BY <1>1 DEF SameFindings
<1>6. Seen'
  BY <1>1, <1>5, SeenStays
<1>7. Collected'
  BY <1>1, <1>5, CollectedStays
<1>8. ChainsThere'
  <2>1. info.cerSigner # 0 => Cert(info.cerSigner)' = Cert(info.cerSigner)
    BY <1>1 DEF Known, Grows, Cert
  <2> QED
    BY <1>1, <2>1 DEF ChainsThere, Validating
<1>9. AskedInOrder'
  BY <1>1, FormatStays DEF AskedInOrder, Validated
<1>10. GoneThrough'
  BY <1>1 DEF GoneThrough, Justified
<1> QED
  BY <1>2, <1>3, <1>4, <1>6, <1>7, <1>8, <1>9, <1>10

(* As long as what is known stays known they keep the invariant. *)
LEMMA FirmStep ==
  ASSUME IInv, Firm(store, store'), SettledIn(store'), UNCHANGED <<m_StatusSign, verifying, private>>
  PROVE  IInv'
<1>1. TypeOK /\ Known /\ Settled /\ GoneThrough
  BY DEF IInv
<1>2. Grows(store, store')
  BY DEF Firm
<1>3. UNCHANGED items
  BY DEF private, lists
<1>4. Settled'
  BY <1>1, <1>3, SettledStays
<1>5. ASSUME pc = "status_valid", StatusOf(store, items[i].cert) = "VALID"
      PROVE  StatusOf(store', items[i].cert) = "VALID"
  <2>1. items[i].cert \in StoreCerts
    <3>1. i \in DOMAIN items
      BY <1>5 DEF IInv, Progress
    <3> QED
      BY <1>1, <3>1 DEF Known
  <2> QED
    BY <1>1, <1>5, <2>1, StatusStays DEF TypeOK, Open
<1> QED
  BY <1>2, <1>4, <1>5, OthersStep

LEMMA SettledIsIn ==
  ASSUME Settled
  PROVE  SettledIn(store)
BY DEF Settled, SettledIn

LEMMA AddCertStep ==
  ASSUME IInv, ADD_CERT
  PROVE  IInv'
<1>1. PICK c \in Later : store' = AddCerts(store, <<c>>) /\ UNCHANGED <<m_StatusSign, verifying, private>>
  BY DEF ADD_CERT
<1>2. store \in Seq(Items) /\ SettledIn(store)
  BY SettledIsIn DEF IInv, TypeOK
<1>3. <<c>> \in Seq(Certificates)
  BY CertificatesAssumption
<1>4. Keeps(store, store')
  BY <1>1, <1>2, <1>3, CertsAdded
<1> QED
  BY <1>1, <1>2, <1>4, KeepsFirm, FirmStep

LEMMA VerifyCertStep ==
  ASSUME IInv, VERIFY_CERT
  PROVE  IInv'
<1>1. PICK idx \in DOMAIN store : store' = verifyCerts(store, {Cert(idx)})
  BY DEF VERIFY_CERT
<1>2. UNCHANGED <<m_StatusSign, verifying, private>>
  BY DEF VERIFY_CERT
<1>3. store \in Seq(Items) /\ SettledIn(store)
  BY SettledIsIn DEF IInv, TypeOK
<1>4. Firm(store, store') /\ SettledIn(store')
  BY <1>1, <1>3, CertsVerified
<1> QED
  BY <1>2, <1>4, FirmStep

(* SIGN sets the status of a certificate; the others stay as they are. *)
StatusAt(its, idx, s) == [its EXCEPT ![idx].status = s]

LEMMA StatusChanged ==
  ASSUME NEW its \in Seq(Items), NEW idx \in DOMAIN its, NEW s \in Statuses
  PROVE  LET new == StatusAt(its, idx, s) IN
         /\ Grows(its, new) /\ DOMAIN new = DOMAIN its
         /\ new[idx].status = s
         /\ \A k \in DOMAIN its : k # idx => new[k] = its[k]
         /\ \A c \in {its[k].cert : k \in DOMAIN its} :
              its[idx].cert # c => StatusOf(new, c) = StatusOf(its, c)
<1> DEFINE new == StatusAt(its, idx, s)
<1>1. \A k \in DOMAIN its : its[k] \in Items
  OBVIOUS
<1>2. /\ DOMAIN new = DOMAIN its
      /\ \A k \in DOMAIN its : new[k] = IF k = idx THEN WithStatus(its[k], s) ELSE its[k]
  BY DEF WithStatus, StatusAt
<1>3. new = [k \in DOMAIN its |-> new[k]] /\ Len(its) \in Nat /\ DOMAIN its = 1 .. Len(its)
  BY DEF StatusAt
<1> HIDE DEF new
<1>4. \A k \in DOMAIN its :
        new[k] \in Items /\ new[k].cert = its[k].cert /\ (k = idx => new[k].status = s)
  BY <1>1, <1>2, StatusSet
<1>5. new \in Seq(Items)
  BY <1>3, <1>4
<1>6. Grows(its, new)
  BY <1>2, <1>4, <1>5 DEF Grows
<1>7. ASSUME NEW c \in {its[k].cert : k \in DOMAIN its}, its[idx].cert # c
      PROVE  StatusOf(new, c) = StatusOf(its, c)
  <2> DEFINE n == IndexOf(its, c.id)
  <2>1. PICK m \in DOMAIN its : its[m].cert = c
    OBVIOUS
  <2>2. n \in DOMAIN its /\ n # 0 /\ its[n].cert = c
    BY <2>1, CertFound
  <2>3. IndexOf(new, c.id) = n
    BY <1>6, <2>2, IndexStays
  <2> HIDE DEF n
  <2>4. new[n] = its[n]
    BY <1>2, <1>7, <2>2
  <2> QED
    BY <2>3, <2>4 DEF StatusOf, n
<1> QED
  BY <1>2, <1>4, <1>6, <1>7 DEF new

(* The certificate a status is said to belong to, by id. *)
LEMMA SameCert ==
  ASSUME TypeOK, NEW c \in StoreCerts, NEW d \in StoreCerts, c.id = d.id
  PROVE  c = d /\ c \in Certificates
<1>1. PICK k \in DOMAIN store : store[k].cert = c
  BY DEF StoreCerts
<1>2. PICK m \in DOMAIN store : store[m].cert = d
  BY DEF StoreCerts
<1>3. store[k] \in Items /\ store[m] \in Items
  BY DEF TypeOK
<1>4. c \in Certificates /\ d \in Certificates
  BY <1>1, <1>2, <1>3 DEF Items
<1> QED
  BY <1>4, CertificatesAssumption

LEMMA SignVerifiesStep ==
  ASSUME IInv, SignVerifies
  PROVE  IInv'
<1>1. TypeOK /\ Known /\ Settled /\ GoneThrough /\ Progress
  BY DEF IInv
<1>2. PICK idx \in DOMAIN store :
        /\ Cert(idx).id \in Reverified /\ Top(Cert(idx)).selfSigned
        /\ verifying' = Cert(idx).id
        /\ store' = StatusAt(store, idx, "INDETERMINATE")
  BY DEF SignVerifies, StatusAt
<1>3. verifying = NoCert /\ UNCHANGED <<m_StatusSign, private>> /\ UNCHANGED items
  BY DEF SignVerifies, private, lists
<1>4. store \in Seq(Items) /\ "INDETERMINATE" \in Statuses
  BY <1>1 DEF TypeOK, Statuses, Open
<1> DEFINE new == StatusAt(store, idx, "INDETERMINATE")
<1>5. /\ Grows(store, new) /\ DOMAIN new = DOMAIN store
      /\ new[idx].status = "INDETERMINATE"
      /\ \A k \in DOMAIN store : k # idx => new[k] = store[k]
      /\ \A c \in {store[k].cert : k \in DOMAIN store} :
           store[idx].cert # c => StatusOf(new, c) = StatusOf(store, c)
  BY <1>4, StatusChanged
<1>6. /\ Grows(store, store') /\ DOMAIN store' = DOMAIN store
      /\ store'[idx].status = "INDETERMINATE"
      /\ \A k \in DOMAIN store : k # idx => store'[k] = store[k]
      /\ \A c \in StoreCerts : store[idx].cert # c => StatusOf(store', c) = StatusOf(store, c)
  BY <1>2, <1>5 DEF StoreCerts
<1> HIDE DEF new
<1>7. store[idx].cert \in Certificates /\ store[idx].cert \in StoreCerts
  <2>1. store[idx] \in Items
    BY <1>4
  <2> QED
    BY <2>1 DEF Items, StoreCerts
<1>8. ASSUME NEW k \in DOMAIN store', store'[k].status \notin Open
      PROVE  \E d \in Certificates : Issues(d, store'[k].cert) /\ store'[k].status = SignatureOf(store'[k].cert, d)
  <2>1. store'[k] = store[k] /\ k \in DOMAIN store
    BY <1>6, <1>8 DEF Open
  <2> QED
    BY <1>1, <1>8, <2>1 DEF Settled
<1>9. /\ IndexOf(store', verifying') # 0 /\ verifying' \in Reverified
      /\ IssuerOf(store', store'[IndexOf(store', verifying')].cert) # NoCert
  <2> DEFINE c == store[idx].cert
             n == IndexOf(store, c.id)
  <2>1. IssuerOf(store, c) # NoCert
    <3> SUFFICES ASSUME IssuerOf(store, c) = NoCert PROVE FALSE
      OBVIOUS
    <3>1. PathFrom(store, c) = <<c>>
      BY <1>4, PathIsAbove
    <3>2. Top(c) = c
      BY <3>1 DEF Top, Last
    <3>3. c.selfSigned
      BY <1>2, <3>2 DEF Cert
    <3> QED
      BY <1>7, <3>3, CertificatesAssumption DEF IssuerOf
  <2>2. n \in DOMAIN store /\ n # 0 /\ store[n].cert = c
    BY <1>4, CertFound
  <2>3. IndexOf(store', c.id) = n
    BY <1>4, <1>6, <2>2, IndexStays
  <2> HIDE DEF n
  <2>4. store'[n].cert = c
    BY <1>6, <2>2 DEF Grows
  <2>5. IssuerOf(store', c) # NoCert
    BY <1>4, <1>6, <1>7, <2>1, IssuerStays
  <2> QED
    BY <1>2, <2>2, <2>3, <2>4, <2>5 DEF Cert
<1>10. ASSUME NEW j \in DOMAIN items', NEW k \in DOMAIN items', items'[j].built, items'[k].built,
              items'[j].cert.keyId = items'[k].cert.authorityKeyId, ~items'[k].cert.selfSigned
       PROVE  StatusOf(store', items'[k].cert) \notin Open \/ verifying' = items'[k].cert.id
  <2>1. items[k].cert \in StoreCerts /\ (StatusOf(store, items[k].cert) \notin Open \/ verifying = items[k].cert.id)
    BY <1>1, <1>3, <1>10 DEF Known, Settled
  <2>2. items[k].cert \in Certificates
    BY <1>1, <1>7, <2>1, SameCert
  <2>3. StatusOf(store, items[k].cert) \notin Open
    BY <1>3, <2>1, <2>2, CertificatesAssumption
  <2>4. CASE store[idx].cert = items[k].cert
    BY <1>2, <1>3, <2>4 DEF Cert
  <2>5. CASE store[idx].cert # items[k].cert
    BY <1>3, <1>6, <2>1, <2>3, <2>5
  <2> QED
    BY <2>4, <2>5
<1>11. Settled'
  BY <1>8, <1>9, <1>10 DEF Settled, Cert
<1>12. ASSUME pc = "status_valid", RootsReverified, ~items[i].cert.selfSigned, StatusOf(store, items[i].cert) = "VALID"
       PROVE  StatusOf(store', items[i].cert) = "VALID"
  <2>1. items[i].cert \in StoreCerts
    BY <1>1, <1>12 DEF Progress, Known
  <2>2. store[idx].cert.selfSigned
    BY <1>2, <1>7, <1>12 DEF RootsReverified, Cert
  <2> QED
    BY <1>6, <1>12, <2>1, <2>2
<1> QED
  BY <1>3, <1>6, <1>11, <1>12, OthersStep

LEMMA SignVerifiedStep ==
  ASSUME IInv, SignVerified
  PROVE  IInv'
<1> DEFINE n == IndexOf(store, verifying)
           c == store[n].cert
           s == SignatureOf(c, IssuerOf(store, c))
<1>1. TypeOK /\ Known /\ Settled /\ GoneThrough /\ Progress
  BY DEF IInv
<1>2. store' = StatusAt(store, n, s) /\ verifying # NoCert /\ verifying' = NoCert
  BY DEF SignVerified, Cert, StatusAt
<1>3. UNCHANGED <<m_StatusSign, private>> /\ UNCHANGED items
  BY DEF SignVerified, private, lists
<1>4. store \in Seq(Items)
  BY <1>1 DEF TypeOK
<1>5. n # 0 /\ verifying \in Reverified /\ IssuerOf(store, c) # NoCert
  BY <1>1, <1>2 DEF Settled, Cert
<1>6. n \in DOMAIN store /\ c.id = verifying
  BY <1>4, <1>5, IndexFound
<1> HIDE DEF n
<1>7. c \in Certificates /\ c \in StoreCerts
  <2>1. store[n] \in Items
    BY <1>4, <1>6
  <2> QED
    BY <1>6, <2>1 DEF Items, StoreCerts
<1>8. Issues(IssuerOf(store, c), c) /\ IssuerOf(store, c) \in Certificates /\ s \in Statuses \ Open
  BY <1>4, <1>5, <1>7, IssuerFound, SignatureKnown
<1> DEFINE new == StatusAt(store, n, s)
<1>9. /\ Grows(store, new) /\ DOMAIN new = DOMAIN store
      /\ new[n].status = s
      /\ \A k \in DOMAIN store : k # n => new[k] = store[k]
      /\ \A d \in {store[k].cert : k \in DOMAIN store} :
           store[n].cert # d => StatusOf(new, d) = StatusOf(store, d)
  <2> HIDE DEF s
  <2> QED
    BY <1>4, <1>6, <1>8, StatusChanged
<1>10. new = store'
  BY <1>2
<1> HIDE DEF new
<1>11. /\ Grows(store, store') /\ DOMAIN store' = DOMAIN store
       /\ store'[n].status = s /\ store'[n].cert = c
       /\ \A k \in DOMAIN store : k # n => store'[k] = store[k]
       /\ \A d \in StoreCerts : c # d => StatusOf(store', d) = StatusOf(store, d)
  BY <1>6, <1>9, <1>10 DEF StoreCerts, Grows
<1> HIDE DEF s
<1>12. ASSUME NEW k \in DOMAIN store', store'[k].status \notin Open
       PROVE  \E d \in Certificates : Issues(d, store'[k].cert) /\ store'[k].status = SignatureOf(store'[k].cert, d)
  <2>1. CASE k = n
    BY <1>8, <1>11, <2>1 DEF s
  <2>2. CASE k # n
    <3>1. store'[k] = store[k] /\ k \in DOMAIN store
      BY <1>11, <2>2
    <3> QED
      BY <1>1, <1>12, <3>1 DEF Settled
  <2> QED
    BY <2>1, <2>2
<1>13. StatusOf(store', c) \notin Open
  <2>1. IndexOf(store', c.id) = n
    BY <1>4, <1>5, <1>6, <1>11, IndexStays DEF n
  <2> QED
    BY <1>8, <1>11, <2>1 DEF StatusOf
<1>14. ASSUME NEW j \in DOMAIN items', NEW k \in DOMAIN items', items'[j].built, items'[k].built,
              items'[j].cert.keyId = items'[k].cert.authorityKeyId, ~items'[k].cert.selfSigned
       PROVE  StatusOf(store', items'[k].cert) \notin Open
  <2>1. items[k].cert \in StoreCerts /\ (StatusOf(store, items[k].cert) \notin Open \/ verifying = items[k].cert.id)
    BY <1>1, <1>3, <1>14 DEF Known, Settled
  <2>2. CASE items[k].cert = c
    BY <1>3, <1>13, <2>2
  <2>3. CASE items[k].cert # c
    <3>1. items[k].cert.id # verifying
      BY <1>1, <1>6, <1>7, <2>1, <2>3, SameCert
    <3> QED
      BY <1>3, <1>11, <2>1, <2>3, <3>1
  <2> QED
    BY <2>2, <2>3
<1>15. Settled'
  BY <1>2, <1>12, <1>14 DEF Settled
<1>16. ASSUME pc = "status_valid", RootsReverified, ~items[i].cert.selfSigned, StatusOf(store, items[i].cert) = "VALID"
       PROVE  StatusOf(store', items[i].cert) = "VALID"
  <2>1. items[i].cert \in StoreCerts
    BY <1>1, <1>16 DEF Progress, Known
  <2>2. c.selfSigned
    BY <1>5, <1>6, <1>7, <1>16 DEF RootsReverified
  <2> QED
    BY <1>11, <1>16, <2>1, <2>2
<1> QED
  BY <1>3, <1>11, <1>15, <1>16, OthersStep

-----------------------------------------------------------------------------
(* Before the chains are built *)

LEMMA NewInfoIsOne ==
  /\ NewInfo \in Infos
  /\ NewInfo.signature = "UNDEFINED" /\ NewInfo.digest = "UNDEFINED" /\ NewInfo.ess = "NOT_PRESENT"
  /\ \A f \in StampFields : NewInfo[f].signature = "UNDEFINED" /\ NewInfo[f].digest = "UNDEFINED"
  /\ NewInfo.cerSigner = 0 /\ NewInfo.format = "UNDEFINED" /\ NewInfo.status = "UNDEFINED" /\ NewInfo.abort = "none"
<1>1. Unverified \in Stamp /\ Unverified.signature = "UNDEFINED" /\ Unverified.digest = "UNDEFINED"
  BY DEF Unverified, Stamp, Found
<1>2. NewInfo \in Infos
  BY <1>1 DEF NewInfo, Infos, Found
<1>3. \A f \in StampFields : NewInfo[f] = Unverified
  BY DEF NewInfo, StampFields
<1> QED
  BY <1>1, <1>2, <1>3 DEF NewInfo

BeginInfo(new, ess, certRefs) == [new EXCEPT !.ess = ess, !.certRefs = certRefs]

LEMMA BeginInfoIsOne ==
  ASSUME NEW new \in Infos, NEW ess \in Found, NEW certRefs \in Found
  PROVE  LET then == BeginInfo(new, ess, certRefs) IN
         /\ then \in Infos /\ then.ess = ess
         /\ then.signature = new.signature /\ then.digest = new.digest
         /\ \A f \in StampFields : then[f] = new[f]
         /\ then.cerSigner = new.cerSigner /\ then.format = new.format
         /\ then.status = new.status /\ then.abort = new.abort
BY DEF BeginInfo, Infos, StampFields

LEMMA InvInit ==
  ASSUME Init
  PROVE  IInv
<1>1. PICK certs \in Stores : store = AddCerts(<<>>, certs)
  BY DEF Init
<1>2. Keeps(<<>>, store)
  <2>1. certs \in Seq(Certificates) /\ <<>> \in Seq(Items)
    BY CertificatesAssumption
  <2> QED
    BY <1>1, <2>1, CertsAdded
<1>3. store \in Seq(Items) /\ \A k \in DOMAIN store : store[k].status = "UNDEFINED"
  BY <1>2 DEF Keeps, Grows
<1>4. /\ verifying = NoCert /\ pc = "idle" /\ tsp = <<>> /\ ocsp = <<>> /\ items = <<>> /\ i = 1
      /\ m_StatusSign = [k \in DamagedCrls |-> "UNDEFINED"]
  BY DEF Init
<1>5. /\ info \in Infos
      /\ info.signature = "UNDEFINED" /\ info.digest = "UNDEFINED" /\ info.ess = "NOT_PRESENT"
      /\ \A f \in StampFields : info[f].signature = "UNDEFINED" /\ info[f].digest = "UNDEFINED"
      /\ info.cerSigner = 0 /\ info.format = "UNDEFINED" /\ info.status = "UNDEFINED" /\ info.abort = "none"
  <2>1. info = NewInfo
    BY DEF Init
  <2> QED
    BY <2>1, NewInfoIsOne
<1>6. TypeOK
  BY <1>3, <1>4, <1>5 DEF TypeOK
<1>7. Progress
  BY <1>4, <1>5 DEF Progress, Checking
<1>8. Known
  BY <1>4, <1>5 DEF Known, Range
<1>9. Seen
  BY <1>4, <1>5 DEF Seen, AtLeastC
<1>10. Collected
  BY <1>5 DEF Collected
<1>11. ChainsThere
  BY <1>4, <1>5 DEF ChainsThere, Validating
<1>12. AskedInOrder
  BY <1>4 DEF AskedInOrder
<1>13. Settled
  BY <1>3, <1>4 DEF Settled, Open
<1>14. GoneThrough
  BY <1>4, <1>5 DEF GoneThrough
<1> QED
  BY <1>6, <1>7, <1>8, <1>9, <1>10, <1>11, <1>12, <1>13, <1>14 DEF IInv

LEMMA BeginStep ==
  ASSUME IInv, NEW r \in Requests, Begin(r.sig, r.options)
  PROVE  IInv'
<1>1. /\ pc' = "signature" /\ sig' = r.sig /\ options' = r.options
      /\ tsp' = <<>> /\ ocsp' = <<>> /\ items' = <<>> /\ i' = 1
      /\ UNCHANGED <<m_StatusSign, verifying>>
      /\ store' = AddCerts(store, r.sig.certs)
  BY DEF Begin, Goto
<1>2. /\ info' \in Infos
      /\ info'.signature = "UNDEFINED" /\ info'.digest = "UNDEFINED"
      /\ info'.ess = IF r.sig.ess = "absent" THEN "NOT_PRESENT" ELSE "INDETERMINATE"
      /\ \A f \in StampFields : info'[f].signature = "UNDEFINED" /\ info'[f].digest = "UNDEFINED"
      /\ info'.cerSigner = 0 /\ info'.format = "UNDEFINED" /\ info'.status = "UNDEFINED" /\ info'.abort = "none"
  <2> DEFINE ess == IF r.sig.ess = "absent" THEN "NOT_PRESENT" ELSE "INDETERMINATE"
             refs == IF r.sig.refs = <<>> THEN "NOT_PRESENT" ELSE "INDETERMINATE"
  <2>1. info' = BeginInfo(NewInfo, ess, refs)
    BY DEF Begin, BeginInfo
  <2>2. ess \in Found /\ refs \in Found
    BY DEF Found
  <2> HIDE DEF ess, refs
  <2>3. /\ info' \in Infos /\ info'.ess = ess
        /\ info'.signature = NewInfo.signature /\ info'.digest = NewInfo.digest
        /\ \A f \in StampFields : info'[f] = NewInfo[f]
        /\ info'.cerSigner = NewInfo.cerSigner /\ info'.format = NewInfo.format
        /\ info'.status = NewInfo.status /\ info'.abort = NewInfo.abort
    BY <2>1, <2>2, NewInfoIsOne, BeginInfoIsOne
  <2> QED
    BY <2>3, NewInfoIsOne DEF ess
<1>3. TypeOK /\ Known /\ Settled /\ store \in Seq(Items)
  BY DEF IInv, TypeOK
<1>4. Firm(store, store') /\ SettledIn(store')
  <2>1. r.sig.certs \in Seq(Certificates)
    BY RequestsAssumption
  <2>2. Keeps(store, store')
    BY <1>1, <1>3, <2>1, CertsAdded
  <2> QED
    BY <1>3, <2>2, KeepsFirm, SettledIsIn
<1>5. TypeOK'
  BY <1>1, <1>2, <1>3, <1>4 DEF TypeOK, Firm, Grows, Checking
<1>6. Progress'
  BY <1>1, <1>2 DEF Progress, Checking
<1>7. Known'
  BY <1>1, <1>2 DEF Known, Range
<1>8. Seen'
  BY <1>1, <1>2 DEF Seen, Checking, AtLeastC
<1>9. Collected'
  BY <1>2 DEF Collected
<1>10. ChainsThere'
  BY <1>1 DEF ChainsThere, Validating
<1>11. AskedInOrder'
  BY <1>1 DEF AskedInOrder
<1>12. Settled'
  BY <1>1, <1>3, <1>4, SettledStays
<1>13. GoneThrough'
  BY <1>1, <1>2 DEF GoneThrough
<1> QED
  BY <1>5, <1>6, <1>7, <1>8, <1>9, <1>10, <1>11, <1>12, <1>13 DEF IInv

(* What the steps up to validateSignFormat have in common. *)
LEMMA CheckingStep ==
  ASSUME IInv, pc \in Checking, Keeps(store, store'),
         UNCHANGED <<m_StatusSign, verifying, sig, options, ocsp, items, i>>,
         pc' \in {"digest", "contentTS", "signatureTS", "refs", "archiveTS", "format", "chain", "idle"},
         info' \in Infos,
         info'.status = "UNDEFINED" <=> pc' # "chain",
         pc' # "idle" => info'.abort = "none" /\ info'.format \in Formats,
         pc' \in Checking /\ info'.format = "CADES_A" => Present(sig.archiveTS),
         tsp' \in Seq(Certificates), Range(tsp)' \subseteq StoreCerts',
         info'.cerSigner \in DOMAIN store' \cup {0},
         Seen', Collected'
  PROVE  IInv'
<1>1. TypeOK /\ Progress /\ Known /\ Settled /\ store \in Seq(Items)
  BY DEF IInv, TypeOK
<1>2. items = <<>> /\ ocsp = <<>> /\ i = 1 /\ pc # "idle"
  BY <1>1 DEF Progress, Checking
<1>3. Firm(store, store') /\ SettledIn(store')
  BY <1>1, KeepsFirm, SettledIsIn
<1>4. TypeOK'
  BY <1>1, <1>3 DEF TypeOK, Firm, Grows, Checking
<1>5. Progress'
  <2>1. \E r \in Requests : sig = r.sig /\ options = r.options
    BY <1>1, <1>2 DEF Progress
  <2> QED
    BY <1>2, <2>1 DEF Progress, Checking
<1>6. Known'
  BY <1>2 DEF Known, Range
<1>7. ChainsThere'
  BY <1>2 DEF ChainsThere, Validating, Checking
<1>8. AskedInOrder'
  BY <1>2 DEF AskedInOrder
<1>9. Settled'
  BY <1>1, <1>2, <1>3, SettledStays
<1>10. GoneThrough'
  BY <1>2 DEF GoneThrough, Checking
<1> QED
  BY <1>4, <1>5, <1>6, <1>7, <1>8, <1>9, <1>10 DEF IInv

LEMMA AbortStep ==
  ASSUME IInv, pc \in Checking, Keeps(store, store'),
         NEW code \in {"verify_failed", "invalid_count_items"}, Abort(code),
         UNCHANGED <<m_StatusSign, verifying, sig, options, tsp, ocsp, items, i>>,
         expectedCerts \subseteq expectedCerts'
  PROVE  IInv'
<1>1. TypeOK /\ Progress /\ Known /\ Seen /\ Collected
  BY DEF IInv
<1>2. info \in Infos /\ info' = [info EXCEPT !.status = "UNDEFINED", !.abort = code] /\ pc' = "idle"
  BY <1>1 DEF TypeOK, Abort
<1>3. info' \in Infos
  BY <1>2 DEF Infos
<1>4. info'.status = "UNDEFINED" /\ info'.abort = code /\ info'.cerSigner = info.cerSigner /\ SameFindings
  BY <1>2 DEF Infos, SameFindings, StampFields
<1>5. Grows(store, store')
  BY DEF Keeps
<1>6. Seen'
  BY <1>1, <1>2, <1>4, <1>5, SeenStays
<1>7. Collected'
  BY <1>4 DEF Collected
<1>8. Range(tsp)' \subseteq StoreCerts' /\ tsp' \in Seq(Certificates)
  BY <1>1, <1>5, StoreCertsStay DEF Known, TypeOK
<1>9. info'.cerSigner \in DOMAIN store' \cup {0}
  BY <1>1, <1>4, <1>5 DEF Known, Grows
<1>10. pc' \notin Checking
  BY <1>2 DEF Checking
<1> QED
  BY <1>2, <1>3, <1>4, <1>6, <1>7, <1>8, <1>9, <1>10, CheckingStep

LEMMA SameStoreKept ==
  ASSUME TypeOK, store' = store
  PROVE  Keeps(store, store') /\ Grows(store, store') /\ Firm(store, store') /\ StoreCerts' = StoreCerts
BY DEF TypeOK, Keeps, Grows, Firm, StoreCerts

LEMMA SignedAttributeStep ==
  ASSUME IInv, verifySignedAttribute
  PROVE  IInv'
<1> DEFINE found == IF sig.sidType = "keyId" THEN getCertByKeyId(store, sig.sid, 0) ELSE IndexOf(store, sig.sid)
           format == IF sig.sidType = "keyId" \/ info.ess = "NOT_PRESENT" THEN "CMS_SID_KEYID" ELSE "CADES_BES"
           signature == IF found = 0 THEN "INDETERMINATE" ELSE "VALID"
<1>1. TypeOK /\ Progress /\ Known /\ Seen /\ Collected /\ store \in Seq(Items)
  BY DEF IInv, TypeOK
<1>2. /\ pc = "signature" /\ pc \in Checking
      /\ UNCHANGED <<store, m_StatusSign, verifying, sig, options, calls, tsp, ocsp, items, i>>
  BY DEF verifySignedAttribute, shared, request, lists, Checking
<1>3. Keeps(store, store') /\ Grows(store, store') /\ StoreCerts' = StoreCerts
  BY <1>1, <1>2, SameStoreKept
<1>4. CASE found # 0 /\ ~sig.sound
  <2>1. Abort("verify_failed") /\ UNCHANGED expected
    BY <1>4 DEF verifySignedAttribute
  <2> QED
    BY <1>2, <1>3, <2>1, AbortStep DEF expected
<1>5. CASE ~(found # 0 /\ ~sig.sound)
  <2>1. /\ pc' = "digest"
        /\ info' = [info EXCEPT !.format = format, !.cerSigner = found, !.signature = signature]
        /\ expectedCerts' = expectedCerts \cup (IF found = 0 THEN {sig.sid} ELSE {})
    BY <1>5 DEF verifySignedAttribute
  <2>2. found # 0 => found \in DOMAIN store /\ (store[found].cert.id = sig.sid \/ store[found].cert.keyId = sig.sid)
    BY <1>1, LookedUp, IndexFound
  <2>3. found \in Nat
    <3>1. Len(store) \in Nat /\ DOMAIN store = 1 .. Len(store)
      BY <1>1
    <3> HIDE DEF found
    <3> QED
      BY <2>2, <3>1
  <2> HIDE DEF found
  <2>4. info' \in Infos /\ info'.format \in Formats /\ info'.format # "CADES_A"
    <3>1. info \in Infos
      BY <1>1 DEF TypeOK
    <3>2. format \in Formats /\ signature \in Found
      BY DEF Formats, Found
    <3>3. format # "CADES_A"
      OBVIOUS
    <3> HIDE DEF format, signature
    <3> QED
      BY <2>1, <2>3, <3>1, <3>2, <3>3 DEF Infos
  <2>5. /\ info'.signature = signature /\ info'.cerSigner = found
        /\ info'.digest = info.digest /\ info'.ess = info.ess /\ info'.status = info.status /\ info'.abort = info.abort
        /\ \A f \in StampFields : info'[f] = info[f]
    BY <1>1, <2>1 DEF TypeOK, Infos, StampFields
  <2>6. info.status = "UNDEFINED" /\ info.abort = "none"
    BY <1>1, <1>2 DEF Progress
  <2>7. Seen'
    <3>1. info'.signature = "VALID" =>
            /\ sig'.sound /\ info'.cerSigner # 0
            /\ store'[info'.cerSigner].cert.id = sig'.sid \/ store'[info'.cerSigner].cert.keyId = sig'.sid
      BY <1>2, <1>5, <2>2, <2>5
    <3>2. info'.signature = "INDETERMINATE" => sig'.sid \in expectedCerts'
      BY <1>2, <2>1, <2>5
    <3>3. \A f \in StampFields :
            /\ info'[f].signature = "VALID" => sig'[f].sound /\ \E c \in Range(tsp)' : c.id = sig'[f].tsp
            /\ info'[f].signature = "INDETERMINATE" => sig'[f].tsp \in expectedCerts'
            /\ info'[f].digest = "VALID" => sig'[f].digest = "match"
      BY <1>1, <1>2, <2>1, <2>5 DEF Seen
    <3> QED
      BY <1>1, <1>2, <2>1, <2>5, <3>1, <3>2, <3>3 DEF Seen, Checking, Cert
  <2>8. Collected'
    BY <2>5, <2>6 DEF Collected
  <2>9. tsp' \in Seq(Certificates) /\ Range(tsp)' \subseteq StoreCerts'
    BY <1>1, <1>2, <1>3 DEF TypeOK, Known
  <2> QED
    BY <1>2, <1>3, <2>1, <2>2, <2>4, <2>5, <2>6, <2>7, <2>8, <2>9, CheckingStep
<1> QED
  BY <1>4, <1>5

LEMMA VerifyDigestsStep ==
  ASSUME IInv, VerifyDigests
  PROVE  IInv'
<1> DEFINE ess == IF info.ess = "NOT_PRESENT" THEN info.ess
                  ELSE IF info.cerSigner = 0 THEN "INDETERMINATE" ELSE Compared(sig.ess)
           ofTS(f) == IF Present(sig[f]) THEN sig[f].certs ELSE <<>>
           certs == ofTS("contentTS") \o ofTS("signatureTS") \o sig.values
<1>1. TypeOK /\ Progress /\ Known /\ Seen /\ Collected /\ store \in Seq(Items)
  BY DEF IInv, TypeOK
<1>2. /\ pc = "digest" /\ pc' = "contentTS" /\ pc \in Checking
      /\ UNCHANGED <<m_StatusSign, verifying, sig, options, calls, tsp, ocsp, items, i, expectedCerts, expectedCrls>>
      /\ info' = [info EXCEPT !.digest = Compared(sig.digest), !.ess = ess, !.format = determineSignFormat(info.format)]
      /\ store' = AddCerts(store, certs)
  BY DEF VerifyDigests, Goto, request, lists, expected, Checking
<1>3. Keeps(store, store') /\ Grows(store, store') /\ StoreCerts \subseteq StoreCerts'
  <2>1. PICK r \in Requests : sig = r.sig
    BY <1>1, <1>2 DEF Progress
  <2>2. \A f \in {"contentTS", "signatureTS"} : ofTS(f) \in Seq(Certificates)
    BY <2>1, RequestsAssumption
  <2>3. sig.values \in Seq(Certificates)
    BY <2>1, RequestsAssumption
  <2> HIDE DEF ofTS
  <2>4. certs \in Seq(Certificates)
    BY <2>2, <2>3, ConcatProperties
  <2> HIDE DEF certs
  <2>5. Keeps(store, store')
    BY <1>1, <1>2, <2>4, CertsAdded
  <2> QED
    BY <2>5, StoreCertsStay DEF Keeps
<1>4. /\ \A d : Compared(d) \in Found /\ (Compared(d) = "VALID" => d = "match") /\ Compared(d) # "NOT_PRESENT"
      /\ ess \in Found /\ (ess = "VALID" => sig.ess = "match" \/ info.ess = "VALID")
      /\ (ess = "NOT_PRESENT" => info.ess = "NOT_PRESENT")
  <2>1. \A d : Compared(d) \in Found /\ Compared(d) # "NOT_PRESENT"
    BY DEF Compared, Found
  <2> QED
    BY <1>1, <2>1 DEF Compared, Found, TypeOK, Infos
<1>5. info.format \in Formats /\ info.status = "UNDEFINED" /\ info.abort = "none"
  BY <1>1, <1>2 DEF Progress
<1>6. /\ determineSignFormat(info.format) \in Formats
      /\ determineSignFormat(info.format) = "CADES_A" => info.format = "CADES_A" \/ Present(sig.archiveTS)
  BY <1>5 DEF determineSignFormat, Formats
<1> HIDE DEF ess
<1>7. /\ info' \in Infos /\ info'.format \in Formats
      /\ info'.format = "CADES_A" => info.format = "CADES_A" \/ Present(sig.archiveTS)
  BY <1>1, <1>2, <1>4, <1>6 DEF TypeOK, Infos
<1>8. /\ info'.digest = Compared(sig.digest) /\ info'.ess = ess
      /\ info'.signature = info.signature /\ info'.cerSigner = info.cerSigner
      /\ info'.status = info.status /\ info'.abort = info.abort
      /\ \A f \in StampFields : info'[f] = info[f]
  BY <1>1, <1>2 DEF TypeOK, Infos, StampFields
<1>9. Seen'
  <2>1. info'.signature = "VALID" =>
          /\ sig'.sound /\ info'.cerSigner # 0
          /\ store'[info'.cerSigner].cert.id = sig'.sid \/ store'[info'.cerSigner].cert.keyId = sig'.sid
    BY <1>1, <1>2, <1>3, <1>8 DEF Seen, Known, Grows, Cert
  <2>2. \A f \in StampFields :
          /\ info'[f].signature = "VALID" => sig'[f].sound /\ \E c \in Range(tsp)' : c.id = sig'[f].tsp
          /\ info'[f].signature = "INDETERMINATE" => sig'[f].tsp \in expectedCerts'
          /\ info'[f].digest = "VALID" => sig'[f].digest = "match"
    BY <1>1, <1>2, <1>8 DEF Seen
  <2>3. /\ info'.digest = "VALID" => sig'.digest = "match"
        /\ info'.ess = "VALID" => sig'.ess = "match"
        /\ info'.ess = "NOT_PRESENT" => sig'.ess = "absent"
        /\ info'.signature = "INDETERMINATE" => sig'.sid \in expectedCerts'
    BY <1>1, <1>2, <1>4, <1>8 DEF Seen
  <2> QED
    BY <1>2, <2>1, <2>2, <2>3 DEF Seen, Checking, Cert
<1>10. Collected'
  BY <1>5, <1>8 DEF Collected
<1>11. tsp' \in Seq(Certificates) /\ Range(tsp)' \subseteq StoreCerts' /\ info'.cerSigner \in DOMAIN store' \cup {0}
  BY <1>1, <1>2, <1>3, <1>8 DEF TypeOK, Known, Grows
<1>12. info'.format = "CADES_A" => Present(sig.archiveTS)
  BY <1>1, <1>2, <1>7 DEF Progress
<1> QED
  BY <1>2, <1>3, <1>5, <1>7, <1>8, <1>9, <1>10, <1>11, <1>12, CheckingStep

(* A time-stamp's result takes nothing else with it. *)
StampSet(new, field, stamp) == [new EXCEPT ![field] = stamp]

LEMMA StampSetOnly ==
  ASSUME NEW new \in Infos, NEW field \in StampFields, NEW stamp \in Stamp
  PROVE  LET then == StampSet(new, field, stamp) IN
         /\ then \in Infos /\ then[field] = stamp
         /\ \A f \in StampFields : f # field => then[f] = new[f]
         /\ then.signature = new.signature /\ then.digest = new.digest
         /\ then.ess = new.ess /\ then.certRefs = new.certRefs
         /\ then.cerSigner = new.cerSigner /\ then.format = new.format /\ then.best = new.best
         /\ then.status = new.status /\ then.abort = new.abort
<1>1. CASE field = "contentTS"
  BY <1>1 DEF StampSet, Infos, StampFields
<1>2. CASE field = "signatureTS"
  BY <1>2 DEF StampSet, Infos, StampFields
<1>3. CASE field = "archiveTS"
  BY <1>3 DEF StampSet, Infos, StampFields
<1> QED
  BY <1>1, <1>2, <1>3 DEF StampFields

LEMMA TimeStampStep ==
  ASSUME IInv, NEW field \in StampFields, Present(sig[field]), pc \in Checking,
         NEW digest \in Found, digest = "VALID" => sig[field].digest = "match",
         NEW next \in {"signatureTS", "refs", "format"}, next = "format" => pc = "archiveTS", pc # "signature",
         VerifyTimeStamp(field, digest, next)
  PROVE  IInv'
<1> DEFINE ts == sig[field]
           its == AddCerts(store, ts.certs)
           found == IndexOf(its, ts.tsp)
           signature == IF found = 0 THEN "INDETERMINATE" ELSE "VALID"
           stamp == [digest |-> digest, signature |-> signature]
<1>1. TypeOK /\ Progress /\ Known /\ Seen /\ Collected /\ store \in Seq(Items) /\ pc # "idle"
  BY DEF IInv, TypeOK, Checking
<1>2. store' = its /\ UNCHANGED <<m_StatusSign, verifying, sig, options, calls, ocsp, items, i, expectedCrls>>
  BY DEF VerifyTimeStamp, request
<1>3. Keeps(store, store') /\ Grows(store, store') /\ StoreCerts \subseteq StoreCerts' /\ its \in Seq(Items)
  <2>1. PICK r \in Requests : sig = r.sig
    BY <1>1 DEF Progress
  <2>2. ts.certs \in Seq(Certificates)
    BY <2>1, RequestsAssumption DEF StampFields
  <2> HIDE DEF ts
  <2>3. Keeps(store, store')
    BY <1>1, <1>2, <2>2, CertsAdded
  <2> QED
    BY <1>2, <2>3, StoreCertsStay DEF Keeps, Grows
<1>4. CASE found # 0 /\ ~ts.sound
  <2>1. Abort("verify_failed") /\ UNCHANGED <<tsp, expectedCerts>>
    BY <1>4 DEF VerifyTimeStamp
  <2> HIDE DEF its
  <2> QED
    BY <1>2, <1>3, <2>1, AbortStep
<1>5. CASE ~(found # 0 /\ ~ts.sound)
  <2>1. /\ pc' = next
        /\ info' = StampSet(info, field, stamp)
        /\ tsp' = IF found = 0 THEN tsp ELSE Append(tsp, its[found].cert)
        /\ expectedCerts' = expectedCerts \cup (IF found = 0 THEN {ts.tsp} ELSE {})
    BY <1>5 DEF VerifyTimeStamp, StampSet
  <2>2. found # 0 => found \in DOMAIN its /\ its[found].cert.id = ts.tsp
    <3> HIDE DEF its, ts
    <3> QED
      BY <1>3, IndexFound
  <2>3. info \in Infos /\ stamp \in Stamp
    BY <1>1 DEF TypeOK, Stamp, Found
  <2> HIDE DEF stamp
  <2>4. /\ info' \in Infos /\ info'[field] = stamp
        /\ \A f \in StampFields : f # field => info'[f] = info[f]
        /\ info'.signature = info.signature /\ info'.digest = info.digest
        /\ info'.ess = info.ess /\ info'.certRefs = info.certRefs
        /\ info'.cerSigner = info.cerSigner /\ info'.format = info.format /\ info'.best = info.best
        /\ info'.status = info.status /\ info'.abort = info.abort
    BY <2>1, <2>3, StampSetOnly
  <2> HIDE DEF its, found
  <2>5. found # 0 => its[found].cert \in Certificates /\ its[found].cert \in StoreCerts'
    <3>1. found # 0 => its[found] \in Items
      BY <1>3, <2>2
    <3> QED
      BY <1>2, <2>2, <3>1 DEF Items, StoreCerts
  <2>6. /\ tsp' \in Seq(Certificates) /\ Range(tsp) \subseteq Range(tsp')
        /\ found # 0 => its[found].cert \in Range(tsp')
        /\ Range(tsp') \subseteq StoreCerts'
    <3>1. tsp \in Seq(Certificates) /\ Range(tsp) \subseteq StoreCerts'
      BY <1>1, <1>3 DEF TypeOK, Known
    <3>2. CASE found = 0
      BY <2>1, <3>1, <3>2
    <3>3. CASE found # 0
      <4> DEFINE c == its[found].cert
      <4>1. tsp' = tsp \o <<c>>
        BY <2>1, <3>1, <3>3
      <4>2. c \in Certificates /\ c \in StoreCerts'
        BY <2>5, <3>3
      <4> HIDE DEF c
      <4>3. <<c>> \in Seq(Certificates) /\ Range(<<c>>) = {c}
        BY <4>2 DEF Range
      <4> DEFINE more == <<c>>
      <4>4. more \in Seq(Certificates) /\ Range(more) = {c} /\ tsp' = tsp \o more
        BY <4>1, <4>3
      <4> HIDE DEF more
      <4>5. tsp \o more \in Seq(Certificates) /\ Range(tsp \o more) = Range(tsp) \cup Range(more)
        BY <3>1, <4>4, RangeConcat
      <4>6. tsp' \in Seq(Certificates) /\ Range(tsp') = Range(tsp) \cup {c}
        BY <4>4, <4>5
      <4> QED
        BY <3>1, <4>2, <4>6 DEF c
    <3> QED
      BY <3>2, <3>3
  <2>7. info.status = "UNDEFINED" /\ info.abort = "none" /\ info.format \in Formats
    BY <1>1 DEF Progress
  <2>8. Seen'
    <3>1. info'.signature = "VALID" =>
            /\ sig'.sound /\ info'.cerSigner # 0
            /\ store'[info'.cerSigner].cert.id = sig'.sid \/ store'[info'.cerSigner].cert.keyId = sig'.sid
      BY <1>1, <1>2, <1>3, <2>4 DEF Seen, Known, Grows, Cert
    <3>2. /\ info'.digest = "VALID" => sig'.digest = "match"
          /\ info'.ess = "VALID" => sig'.ess = "match"
          /\ info'.ess = "NOT_PRESENT" => sig'.ess = "absent"
          /\ info'.signature = "INDETERMINATE" => sig'.sid \in expectedCerts'
      BY <1>1, <1>2, <2>1, <2>4 DEF Seen
    <3>3. /\ info'[field].signature = "VALID" => ts.sound /\ \E c \in Range(tsp') : c.id = ts.tsp
          /\ info'[field].signature = "INDETERMINATE" => ts.tsp \in expectedCerts'
          /\ info'[field].digest = "VALID" => ts.digest = "match"
      BY <1>5, <2>1, <2>2, <2>4, <2>6 DEF stamp
    <3>4. \A f \in StampFields :
            /\ info'[f].signature = "VALID" => sig'[f].sound /\ \E c \in Range(tsp') : c.id = sig'[f].tsp
            /\ info'[f].signature = "INDETERMINATE" => sig'[f].tsp \in expectedCerts'
            /\ info'[f].digest = "VALID" => sig'[f].digest = "match"
      BY <1>1, <1>2, <2>1, <2>4, <2>6, <3>3 DEF Seen
    <3>5. AtLeastC' /\ (pc' \notin Checking \/ pc' \in {"archiveTS", "format"}) =>
            /\ info'.certRefs = "VALID" => \A k \in DOMAIN sig'.refs : sig'.refs[k].match
            /\ info'.certRefs = "INDETERMINATE" => expectedCerts' \cap {r.id : r \in Range(sig'.refs)} # {}
      <4>1. CASE next # "format"
        BY <2>1, <4>1 DEF Checking
      <4>2. CASE next = "format"
        <5>1. pc = "archiveTS" /\ AtLeastC' = AtLeastC
          BY <2>4, <4>2 DEF AtLeastC
        <5>2. AtLeastC =>
            /\ info.certRefs = "VALID" => \A k \in DOMAIN sig.refs : sig.refs[k].match
            /\ info.certRefs = "INDETERMINATE" => expectedCerts \cap {r.id : r \in Range(sig.refs)} # {}
          BY <1>1, <2>7, <5>1 DEF Seen
        <5> QED
          BY <1>2, <2>1, <2>4, <5>1, <5>2
      <4> QED
        BY <4>1, <4>2
    <3> QED
      BY <1>1, <2>1, <3>1, <3>2, <3>4, <3>5 DEF Seen, Cert
  <2>9. Collected'
    BY <2>4, <2>7 DEF Collected
  <2>10. info'.cerSigner \in DOMAIN store' \cup {0}
    BY <1>1, <1>3, <2>4 DEF Known, Grows
  <2>11. pc' \in Checking /\ info'.format = "CADES_A" => Present(sig.archiveTS)
    BY <1>1, <2>4 DEF Progress
  <2> QED
    BY <1>2, <1>3, <2>1, <2>4, <2>6, <2>7, <2>8, <2>9, <2>10, <2>11, CheckingStep
<1> QED
  BY <1>4, <1>5

(* A step of the checks that has nothing to look at. *)
LEMMA PassStep ==
  ASSUME IInv, pc \in Checking \ {"signature"}, pc' \in {"signatureTS", "refs", "archiveTS", "format"},
         pc' = "archiveTS" => ~AtLeastC, pc' = "format" => pc = "archiveTS",
         UNCHANGED <<shared, request, info, lists, i, expected>>
  PROVE  IInv'
<1>1. TypeOK /\ Progress /\ Known /\ Seen /\ Collected /\ pc # "idle"
  BY DEF IInv, Checking
<1>2. UNCHANGED <<store, m_StatusSign, verifying, sig, options, tsp, ocsp, items, i, info, expectedCerts>>
  BY DEF shared, request, lists, expected
<1>3. Keeps(store, store') /\ Grows(store, store') /\ StoreCerts' = StoreCerts
  BY <1>1, <1>2, SameStoreKept
<1>4. info.status = "UNDEFINED" /\ info.abort = "none" /\ info.format \in Formats /\ AtLeastC' = AtLeastC
  BY <1>1, <1>2 DEF Progress, AtLeastC
<1>5. Seen'
  <2>1. CASE pc' = "archiveTS"
    BY <1>1, <1>2, <1>4, <2>1 DEF Seen, Cert
  <2>2. CASE pc' # "archiveTS"
    <3>1. pc' \in {"archiveTS", "format"} \/ pc' \notin Checking => pc = "archiveTS"
      BY <2>2 DEF Checking
    <3>2. SameFindings
      BY <1>2 DEF SameFindings
    <3> QED
      BY <1>1, <1>2, <1>3, <1>4, <3>1, <3>2, SeenStays
  <2> QED
    BY <2>1, <2>2
<1>6. Collected'
  BY <1>2, <1>4 DEF Collected
<1>7. info' \in Infos /\ tsp' \in Seq(Certificates) /\ Range(tsp') \subseteq StoreCerts'
      /\ info'.cerSigner \in DOMAIN store' \cup {0}
  BY <1>1, <1>2, <1>3 DEF TypeOK, Known
<1>8. info'.format = "CADES_A" => Present(sig.archiveTS)
  BY <1>1, <1>2 DEF Progress
<1> QED
  BY <1>2, <1>3, <1>4, <1>5, <1>6, <1>7, <1>8, CheckingStep

LEMMA ComparedFound ==
  ASSUME NEW d
  PROVE  Compared(d) \in Found /\ (Compared(d) = "VALID" => d = "match")
BY DEF Compared, Found

LEMMA ContentTimeStampStep ==
  ASSUME IInv, verifyContentTimeStamp
  PROVE  IInv'
<1>1. pc = "contentTS" /\ pc \in Checking \ {"signature"}
  BY DEF verifyContentTimeStamp, Checking
<1>2. CASE Skip("contentTS", "signatureTS")
  BY <1>1, <1>2, PassStep DEF Skip
<1>3. CASE ~Skip("contentTS", "signatureTS")
  <2> DEFINE d == IF sig.contentTS.digest = "match" /\ sig.digest = "absent" THEN "absent" ELSE sig.contentTS.digest
  <2>1. Present(sig["contentTS"]) /\ VerifyTimeStamp("contentTS", Compared(d), "signatureTS")
    BY <1>3 DEF verifyContentTimeStamp
  <2>2. Compared(d) \in Found /\ (Compared(d) = "VALID" => d = "match")
    BY ComparedFound
  <2>3. d = "match" => sig["contentTS"].digest = "match"
    OBVIOUS
  <2> HIDE DEF d
  <2> QED
    BY <1>1, <2>1, <2>2, <2>3, TimeStampStep DEF StampFields
<1> QED
  BY <1>2, <1>3

LEMMA SignatureTimeStampStep ==
  ASSUME IInv, verifySignatureTimeStamp
  PROVE  IInv'
<1>1. pc = "signatureTS" /\ pc \in Checking \ {"signature"}
  BY DEF verifySignatureTimeStamp, Checking
<1>2. CASE Skip("signatureTS", "refs")
  BY <1>1, <1>2, PassStep DEF Skip
<1>3. CASE ~Skip("signatureTS", "refs")
  <2>1. Present(sig["signatureTS"]) /\ VerifyTimeStamp("signatureTS", Compared(sig["signatureTS"].digest), "refs")
    BY <1>3 DEF verifySignatureTimeStamp
  <2> QED
    BY <1>1, <2>1, ComparedFound, TimeStampStep DEF StampFields
<1> QED
  BY <1>2, <1>3

LEMMA ArchiveTimeStampStep ==
  ASSUME IInv, verifyArchiveTimeStamp
  PROVE  IInv'
<1>1. pc = "archiveTS" /\ pc \in Checking \ {"signature"}
  BY DEF verifyArchiveTimeStamp, Checking
<1>2. CASE info.format # "CADES_A"
  BY <1>1, <1>2, PassStep DEF verifyArchiveTimeStamp
<1>3. CASE info.format = "CADES_A"
  <2>1. VerifyTimeStamp("archiveTS", Compared(sig["archiveTS"].digest), "format")
    BY <1>3 DEF verifyArchiveTimeStamp
  <2>2. Present(sig["archiveTS"])
    BY <1>1, <1>3 DEF IInv, Progress
  <2> QED
    BY <1>1, <2>1, <2>2, ComparedFound, TimeStampStep DEF StampFields
<1> QED
  BY <1>2, <1>3

LEMMA CertificateRefsStep ==
  ASSUME IInv, verifyCertificateRefs
  PROVE  IInv'
<1> DEFINE Missing == {k \in DOMAIN sig.refs : sig.values = <<>> /\ IndexOf(store, sig.refs[k].id) = 0}
           Passed == {k \in DOMAIN sig.refs \ Missing :
                        sig.refs[k].match /\ (sig.values # <<>> => sig.values[k].id = sig.refs[k].id)}
           certRefs == IF Passed = DOMAIN sig.refs THEN "VALID"
                       ELSE IF Passed \cup Missing = DOMAIN sig.refs THEN "INDETERMINATE" ELSE "INVALID"
<1>1. TypeOK /\ Progress /\ Known /\ Seen /\ Collected /\ pc = "refs" /\ pc \in Checking
  BY DEF IInv, verifyCertificateRefs, Checking
<1>2. UNCHANGED <<store, m_StatusSign, verifying, sig, options, tsp, ocsp, items, i>>
  BY DEF verifyCertificateRefs, shared, request, lists
<1>3. Keeps(store, store') /\ Grows(store, store') /\ StoreCerts' = StoreCerts
  BY <1>1, <1>2, SameStoreKept
<1>4. CASE ~AtLeastC
  <2>1. pc' = "archiveTS" /\ UNCHANGED <<shared, request, info, lists, i, expected>>
    BY <1>4 DEF verifyCertificateRefs, expected
  <2> QED
    BY <1>1, <1>4, <2>1, PassStep
<1>5. CASE AtLeastC /\ sig.values # <<>> /\ Len(sig.values) # Len(sig.refs)
  <2>1. Abort("invalid_count_items") /\ UNCHANGED expectedCerts
    BY <1>5 DEF verifyCertificateRefs
  <2> QED
    BY <1>1, <1>2, <1>3, <2>1, AbortStep
<1>6. CASE AtLeastC /\ ~(sig.values # <<>> /\ Len(sig.values) # Len(sig.refs))
  <2>1. /\ pc' = "archiveTS"
        /\ info' = [info EXCEPT !.certRefs = certRefs]
        /\ expectedCerts' = expectedCerts \cup {sig.refs[k].id : k \in Missing}
    BY <1>6 DEF verifyCertificateRefs
  <2>2. certRefs = "VALID" => \A k \in DOMAIN sig.refs : sig.refs[k].match
    OBVIOUS
  <2>3. certRefs = "INDETERMINATE" => {sig.refs[k].id : k \in Missing} \cap {r.id : r \in Range(sig.refs)} # {}
    <3> SUFFICES ASSUME certRefs = "INDETERMINATE"
                 PROVE  {sig.refs[k].id : k \in Missing} \cap {r.id : r \in Range(sig.refs)} # {}
      OBVIOUS
    <3>1. Passed # DOMAIN sig.refs /\ Passed \cup Missing = DOMAIN sig.refs
      BY DEF Passed
    <3>2. PICK k \in DOMAIN sig.refs : k \in Missing
      <4> HIDE DEF Missing
      <4> QED
        BY <3>1
    <3>3. sig.refs[k] \in Range(sig.refs)
      BY DEF Range
    <3> HIDE DEF Missing
    <3>4. sig.refs[k].id \in {sig.refs[j].id : j \in Missing} /\ sig.refs[k].id \in {r.id : r \in Range(sig.refs)}
      BY <3>2, <3>3
    <3> QED
      BY <3>4
  <2>4. certRefs \in Found /\ info \in Infos
    BY <1>1 DEF Found, TypeOK
  <2> HIDE DEF certRefs, Missing
  <2>5. /\ info' \in Infos /\ info'.certRefs = certRefs
        /\ info'.signature = info.signature /\ info'.digest = info.digest /\ info'.ess = info.ess
        /\ info'.cerSigner = info.cerSigner /\ info'.format = info.format
        /\ info'.status = info.status /\ info'.abort = info.abort
        /\ \A f \in StampFields : info'[f] = info[f]
    BY <2>1, <2>4 DEF Infos, StampFields
  <2>6. info.status = "UNDEFINED" /\ info.abort = "none" /\ info.format \in Formats
    BY <1>1 DEF Progress, Checking
  <2>7. Seen'
    <3>1. /\ info'.certRefs = "VALID" => \A k \in DOMAIN sig.refs : sig.refs[k].match
          /\ info'.certRefs = "INDETERMINATE" => expectedCerts' \cap {r.id : r \in Range(sig.refs)} # {}
      BY <2>1, <2>2, <2>3, <2>5
    <3>2. expectedCerts \subseteq expectedCerts'
      BY <2>1
    <3>3. info'.signature = "VALID" =>
            /\ sig'.sound /\ info'.cerSigner # 0
            /\ store'[info'.cerSigner].cert.id = sig'.sid \/ store'[info'.cerSigner].cert.keyId = sig'.sid
      BY <1>1, <1>2, <2>5 DEF Seen, Cert
    <3>4. /\ info'.digest = "VALID" => sig'.digest = "match"
          /\ info'.ess = "VALID" => sig'.ess = "match"
          /\ info'.ess = "NOT_PRESENT" => sig'.ess = "absent"
          /\ info'.signature = "INDETERMINATE" => sig'.sid \in expectedCerts'
      BY <1>1, <1>2, <2>5, <3>2 DEF Seen
    <3>5. \A f \in StampFields :
            /\ info'[f].signature = "VALID" => sig'[f].sound /\ \E c \in Range(tsp') : c.id = sig'[f].tsp
            /\ info'[f].signature = "INDETERMINATE" => sig'[f].tsp \in expectedCerts'
            /\ info'[f].digest = "VALID" => sig'[f].digest = "match"
      BY <1>1, <1>2, <2>5, <3>2 DEF Seen
    <3> QED
      BY <1>2, <3>1, <3>3, <3>4, <3>5 DEF Seen, Cert
  <2>8. Collected'
    BY <2>5, <2>6 DEF Collected
  <2>9. info'.format = "CADES_A" => Present(sig.archiveTS)
    BY <1>1, <2>5 DEF Progress
  <2>10. tsp' \in Seq(Certificates) /\ Range(tsp') \subseteq StoreCerts' /\ info'.cerSigner \in DOMAIN store' \cup {0}
    BY <1>1, <1>2, <1>3, <2>5 DEF TypeOK, Known
  <2> QED
    BY <1>1, <1>2, <1>3, <2>1, <2>5, <2>6, <2>7, <2>8, <2>9, <2>10, CheckingStep
<1> QED
  BY <1>4, <1>5, <1>6

LEMMA SignFormatStep ==
  ASSUME IInv, validateSignFormat
  PROVE  IInv'
<1> DEFINE status == IF isValid(collect_signatures) /\ isValid(collect_digests) THEN "TOTAL_VALID"
                     ELSE IF isDeterminate(collect_signatures) \/ isDeterminate(collect_digests) THEN "INDETERMINATE"
                     ELSE "TOTAL_FAILED"
           best == BestSignatureTime
<1>1. TypeOK /\ Progress /\ Known /\ Seen /\ Collected /\ pc = "format" /\ pc' = "chain" /\ pc \in Checking
  BY DEF IInv, validateSignFormat, Goto, Checking
<1>2. UNCHANGED <<store, m_StatusSign, verifying, sig, options, tsp, ocsp, items, i, expectedCerts>>
  BY DEF validateSignFormat, shared, request, lists, expected
<1>3. Keeps(store, store') /\ Grows(store, store') /\ StoreCerts' = StoreCerts
  BY <1>1, <1>2, SameStoreKept
<1>4. info' = [info EXCEPT !.best = best, !.status = status] /\ info \in Infos
  BY <1>1 DEF validateSignFormat, TypeOK
<1>5. best \in Nat
  <2>1. PICK r \in Requests : sig = r.sig
    BY <1>1 DEF Progress
  <2>2. /\ sig.signingTime \in Nat /\ Now \in Nat
        /\ Present(sig["contentTS"]) => sig["contentTS"].genTime \in Nat
        /\ Present(sig["signatureTS"]) => sig["signatureTS"].genTime \in Nat
    BY <2>1, RequestsAssumption
  <2> QED
    BY <2>2 DEF BestSignatureTime
<1>6. status = "TOTAL_VALID" =>
        /\ info.signature = "VALID" /\ info.digest = "VALID" /\ info.ess \in {"NOT_PRESENT", "VALID"}
        /\ \A f \in PresentTS : info[f].digest = "VALID" /\ info[f].signature = "VALID"
        /\ AtLeastC => info.certRefs = "VALID"
  <2> SUFFICES ASSUME collect_signatures = {"VALID"}, collect_digests = {"VALID"}
               PROVE  /\ info.signature = "VALID" /\ info.digest = "VALID" /\ info.ess \in {"NOT_PRESENT", "VALID"}
                      /\ \A f \in PresentTS : info[f].digest = "VALID" /\ info[f].signature = "VALID"
                      /\ AtLeastC => info.certRefs = "VALID"
    BY DEF isValid
  <2>1. info.signature \in collect_signatures /\ \A f \in PresentTS : info[f].signature \in collect_signatures
    BY DEF collect_signatures
  <2>2. /\ info.digest \in collect_digests /\ \A f \in PresentTS : info[f].digest \in collect_digests
        /\ info.ess # "NOT_PRESENT" => info.ess \in collect_digests
        /\ AtLeastC => info.certRefs \in collect_digests
    BY DEF collect_digests
  <2> QED
    BY <2>1, <2>2
<1>7. status = "TOTAL_VALID" => sig.ess # "differs"
  BY <1>1, <1>6 DEF Seen
<1>8. PresentTS \subseteq StampFields
  BY DEF PresentTS, StampFields
<1>9. status = "TOTAL_VALID" => \A f \in PresentTS : info[f] = [digest |-> "VALID", signature |-> "VALID"]
  <2>1. \A f \in StampFields : info[f] \in Stamp
    BY <1>4 DEF Infos, StampFields
  <2> HIDE DEF status
  <2> QED
    BY <1>6, <1>8, <2>1 DEF Stamp
<1>10. status = "TOTAL_VALID" /\ Present(sig.signatureTS) => best = sig.signatureTS.genTime
  <2>1. Present(sig.signatureTS) => "signatureTS" \in PresentTS
    BY DEF PresentTS
  <2>2. info["signatureTS"] = info.signatureTS
    OBVIOUS
  <2> HIDE DEF status
  <2> QED
    BY <1>9, <2>1, <2>2 DEF BestSignatureTime
<1>11. status \in {"TOTAL_VALID", "INDETERMINATE", "TOTAL_FAILED"}
  OBVIOUS
<1> HIDE DEF status, best
<1>12. /\ info' \in Infos /\ info'.best = best /\ info'.status = status
       /\ info'.abort = info.abort /\ info'.format = info.format /\ info'.cerSigner = info.cerSigner /\ SameFindings
  BY <1>4, <1>5, <1>11 DEF Infos, SameFindings, StampFields
<1>13. info.abort = "none" /\ info.format \in Formats
  BY <1>1 DEF Progress
<1>14. Seen'
  BY <1>1, <1>2, <1>3, <1>12, <1>13, SeenStays
<1>15. Collected'
  <2>1. PresentTS' = PresentTS /\ AtLeastC' = AtLeastC
    BY <1>2, <1>12 DEF PresentTS, AtLeastC
  <2>2. \A f \in PresentTS : info'[f] = info[f]
    BY <1>8, <1>12 DEF SameFindings
  <2> QED
    BY <1>2, <1>6, <1>7, <1>9, <1>10, <1>12, <2>1, <2>2 DEF Collected, SameFindings
<1>16. tsp' \in Seq(Certificates) /\ Range(tsp') \subseteq StoreCerts' /\ info'.cerSigner \in DOMAIN store' \cup {0}
  BY <1>1, <1>2, <1>3, <1>12 DEF TypeOK, Known
<1>17. pc' \notin Checking
  BY <1>1 DEF Checking
<1> QED
  BY <1>1, <1>2, <1>3, <1>11, <1>12, <1>13, <1>14, <1>15, <1>16, <1>17, CheckingStep

-----------------------------------------------------------------------------
(* The certificates *)

(* After a step of the validation: the findings stay, more may be there.   *)
LEMMA ValidatingKnown ==
  ASSUME TypeOK, Known, Firm(store, store'), UNCHANGED <<info, tsp>>,
         \A c \in Range(ocsp') : c \in StoreCerts',
         \A k \in DOMAIN items' : items'[k].cert \in StoreCerts' /\ items'[k].crlIssuer \in StoreCerts' \cup {NoCert}
  PROVE  Known'
<1>1. Grows(store, store') /\ StoreCerts \subseteq StoreCerts'
  BY StoreCertsStay DEF Firm
<1>2. info'.cerSigner \in DOMAIN store' \cup {0}
  BY <1>1 DEF Known, Grows
<1>3. Range(tsp') \subseteq StoreCerts'
  BY <1>1 DEF Known
<1> QED
  BY <1>2, <1>3 DEF Known

LEMMA NewItemFields ==
  ASSUME NEW c
  PROVE  /\ NewItem(c).built /\ NewItem(c).sound /\ NewItem(c).asked = <<>> /\ NewItem(c).crlIssuer = NoCert
         /\ NewItem(c).cert = c
         /\ NewItem(c).type \in {"NONE", "UNDEFINED"} /\ (NewItem(c).type = "NONE" => c.selfSigned)
BY DEF NewItem

(* Above each certificate of a path is its issuer, but above the top. *)
LEMMA PathLeadsOn ==
  ASSUME NEW its, NEW c, NEW p, Above(its, p, c), NEW d \in Range(p), d # Last(p)
  PROVE  \E e \in Range(p) : e.keyId = d.authorityKeyId
<1>1. PICK n \in DOMAIN p : p[n] = d
  BY DEF Range
<1>2. Len(p) \in Nat /\ DOMAIN p = 1 .. Len(p) /\ Last(p) = p[Len(p)]
  BY DEF Above, Last
<1>3. n # Len(p) /\ n \in 1 .. Len(p)
  BY <1>1, <1>2
<1>4. n \in 1 .. Len(p) - 1 /\ n + 1 \in DOMAIN p
  BY <1>2, <1>3
<1>5. p[n + 1].keyId = p[n].authorityKeyId
  BY <1>4 DEF Above
<1> QED
  BY <1>1, <1>4, <1>5 DEF Range

(* The certificates the chains begin with. *)
Begins == (IF info.cerSigner = 0 THEN <<>> ELSE <<Cert(info.cerSigner)>>) \o tsp

LEMMA BeginsThere ==
  ASSUME TypeOK, Known
  PROVE  /\ Begins \in Seq(Certificates)
         /\ \A c \in Range(Begins) : \E m \in DOMAIN store : store[m].cert = c
         /\ Range(tsp) \subseteq Range(Begins)
         /\ info.cerSigner # 0 => Cert(info.cerSigner) \in Range(Begins)
<1> DEFINE signer == IF info.cerSigner = 0 THEN <<>> ELSE <<Cert(info.cerSigner)>>
<1>1. tsp \in Seq(Certificates) /\ \A c \in Range(tsp) : \E m \in DOMAIN store : store[m].cert = c
  BY DEF TypeOK, Known, StoreCerts
<1>2. CASE info.cerSigner = 0
  <2>1. Begins = tsp
    BY <1>1, <1>2 DEF Begins
  <2> QED
    BY <1>1, <1>2, <2>1
<1>3. CASE info.cerSigner # 0
  <2> DEFINE c == Cert(info.cerSigner)
             one == <<c>>
  <2>1. info.cerSigner \in DOMAIN store
    BY <1>3 DEF Known
  <2>2. store[info.cerSigner] \in Items
    BY <2>1 DEF TypeOK
  <2>3. c \in Certificates /\ c = store[info.cerSigner].cert
    BY <2>2 DEF Items, Cert
  <2> HIDE DEF c
  <2>4. one \in Seq(Certificates) /\ Range(one) = {c}
    BY <2>3 DEF Range
  <2>5. Begins = one \o tsp
    BY <1>3 DEF Begins, c
  <2> HIDE DEF one
  <2>6. one \o tsp \in Seq(Certificates) /\ Range(one \o tsp) = Range(one) \cup Range(tsp)
    BY <1>1, <2>4, RangeConcat
  <2> QED
    BY <1>1, <2>1, <2>3, <2>4, <2>5, <2>6 DEF c
<1> QED
  BY <1>2, <1>3

LEMMA ChainNotBuilt ==
  ASSUME IInv, buildCertChain, options.validationType = "STRUCT"
  PROVE  IInv'
<1>1. TypeOK /\ Progress /\ Known /\ Seen /\ Collected /\ Settled /\ pc = "chain"
  BY DEF IInv, buildCertChain
<1>2. /\ pc' = "status" /\ items = <<>> /\ ocsp = <<>> /\ i = 1
      /\ UNCHANGED <<store, m_StatusSign, verifying, sig, options, info, tsp, ocsp, items, i, expectedCerts, expectedCrls>>
  BY <1>1 DEF Progress, buildCertChain, request, Checking
<1>3. Grows(store, store') /\ Firm(store, store') /\ StoreCerts' = StoreCerts /\ SameFindings
  BY <1>1, <1>2, SameStoreKept DEF SameFindings
<1>4. TypeOK'
  BY <1>1, <1>2 DEF TypeOK, Checking, Validating
<1>5. Progress'
  <2> USE DEF Progress
  <2> QED
    BY <1>1, <1>2 DEF Checking
<1>6. Known'
  BY <1>1, <1>2, <1>3 DEF Known
<1>7. Seen'
  BY <1>1, <1>2, <1>3, SeenStays DEF Checking
<1>8. Collected'
  BY <1>1, <1>2, <1>3, CollectedStays
<1>9. ChainsThere'
  BY <1>2 DEF ChainsThere
<1>10. AskedInOrder'
  BY <1>2 DEF AskedInOrder
<1>11. SettledIn(store')
  BY <1>1, <1>2, SettledIsIn
<1>12. Settled'
  BY <1>1, <1>2, <1>3, <1>11, SettledStays
<1>13. GoneThrough'
  BY <1>2 DEF GoneThrough
<1> QED
  BY <1>4, <1>5, <1>6, <1>7, <1>8, <1>9, <1>10, <1>12, <1>13 DEF IInv

(* The chain of some certificates of the store. *)
LEMMA ChainIsAbove ==
  ASSUME store \in Seq(Items), NEW certs \in Seq(Certificates),
         \A c \in Range(certs) : \E m \in DOMAIN store : store[m].cert = c
  PROVE  LET chain == Chains(certs) IN
         /\ chain \in Seq(Certificates)
         /\ Range(certs) \subseteq Range(chain)
         /\ \A d \in Range(chain) :
              /\ d \in StoreCerts
              /\ \/ \E e \in Range(chain) : e.keyId = d.authorityKeyId
                 \/ \E c \in Range(certs) : d = Top(c)
<1> DEFINE chain == Chains(certs)
<1>1. DOMAIN certs = 1 .. Len(certs) /\ Len(certs) \in Nat
  OBVIOUS
<1>2. ASSUME NEW n \in DOMAIN certs PROVE Above(store, PathFrom(store, certs[n]), certs[n])
  <2>1. certs[n] \in Range(certs)
    BY DEF Range
  <2>2. PICK m \in DOMAIN store : store[m].cert = certs[n]
    BY <2>1
  <2> QED
    BY <2>2, PathIsAbove
<1>3. \A n \in DOMAIN certs : PathFrom(store, certs[n]) \in Seq(Certificates)
  BY <1>2 DEF Above
<1>4. /\ chain \in Seq(Certificates)
      /\ \A c : c \in Range(chain) <=> \E n \in DOMAIN certs : c \in Range(PathFrom(store, certs[n]))
  BY <1>1, <1>3, ChainsOfPaths
<1> HIDE DEF chain
<1>5. ASSUME NEW c \in Range(certs) PROVE c \in Range(chain)
  <2>1. PICK n \in DOMAIN certs : certs[n] = c
    BY DEF Range
  <2> DEFINE p == PathFrom(store, certs[n])
  <2>2. Above(store, p, c)
    BY <1>2, <2>1
  <2> HIDE DEF p
  <2>3. p[1] = c /\ 1 \in DOMAIN p
    BY <2>2 DEF Above
  <2>4. c \in Range(p)
    BY <2>3 DEF Range
  <2> QED
    BY <1>4, <2>4 DEF p
<1>6. ASSUME NEW d \in Range(chain)
      PROVE  /\ d \in StoreCerts
             /\ \/ \E e \in Range(chain) : e.keyId = d.authorityKeyId
                \/ \E c \in Range(certs) : d = Top(c)
  <2>1. PICK n \in DOMAIN certs : d \in Range(PathFrom(store, certs[n]))
    BY <1>4
  <2> DEFINE p == PathFrom(store, certs[n])
  <2>2. Above(store, p, certs[n]) /\ d \in Range(p)
    BY <1>2, <2>1
  <2>3. p = PathFrom(store, certs[n])
    OBVIOUS
  <2> HIDE DEF p
  <2>4. PICK m \in DOMAIN p : p[m] = d
    BY <2>2 DEF Range
  <2>5. d \in StoreCerts
    BY <2>2, <2>4 DEF Above, StoreCerts
  <2>6. CASE d = Last(p)
    <3>1. certs[n] \in Range(certs)
      BY DEF Range
    <3> QED
      BY <2>3, <2>5, <2>6, <3>1 DEF Top
  <2>7. CASE d # Last(p)
    <3>1. \E e \in Range(p) : e.keyId = d.authorityKeyId
      BY <2>2, <2>7, PathLeadsOn
    <3> QED
      BY <1>4, <2>3, <2>5, <3>1
  <2> QED
    BY <2>6, <2>7
<1> QED
  BY <1>4, <1>5, <1>6 DEF chain

LEMMA ChainBuilt ==
  ASSUME IInv, buildCertChain, options.validationType # "STRUCT"
  PROVE  IInv'
<1> DEFINE signer == IF info.cerSigner = 0 THEN <<>> ELSE <<Cert(info.cerSigner)>>
           chain == Chains(Begins)
           verified == {c \in Range(chain) : IssuerOf(store, c) # NoCert} \cup Range(signer)
<1>1. TypeOK /\ Progress /\ Known /\ Seen /\ Collected /\ Settled /\ pc = "chain" /\ verifying = NoCert
  BY DEF IInv, buildCertChain
<1>2. /\ pc' = "revocation" /\ ocsp = <<>> /\ i = 1
      /\ UNCHANGED <<m_StatusSign, verifying, sig, options, info, tsp, ocsp, i, expectedCrls>>
      /\ items' = addItems(<<>>, chain)
      /\ store' = verifyCerts(store, verified)
      /\ expectedCerts' = expectedCerts \cup UNION {MissingAbove(Top(c)) : c \in Range(Begins)}
  BY <1>1 DEF Progress, buildCertChain, request, Checking, Begins
<1>3. store \in Seq(Items) /\ info \in Infos /\ tsp \in Seq(Certificates)
  BY <1>1 DEF TypeOK
<1>4. /\ Begins \in Seq(Certificates)
      /\ \A c \in Range(Begins) : \E m \in DOMAIN store : store[m].cert = c
      /\ Range(tsp) \subseteq Range(Begins)
      /\ info.cerSigner # 0 => Cert(info.cerSigner) \in Range(Begins)
  BY <1>1, BeginsThere
<1>5. /\ chain \in Seq(Certificates)
      /\ Range(Begins) \subseteq Range(chain)
      /\ \A d \in Range(chain) :
           /\ d \in StoreCerts
           /\ \/ \E e \in Range(chain) : e.keyId = d.authorityKeyId
              \/ \E c \in Range(Begins) : d = Top(c)
  BY <1>3, <1>4, ChainIsAbove
<1>6. Firm(store, store') /\ SettledIn(store')
      /\ \A k \in DOMAIN store :
           store[k].cert \in verified /\ IssuerOf(store, store[k].cert) # NoCert =>
             StatusOf(store', store[k].cert) \notin Open
  <2> HIDE DEF verified
  <2> QED
    BY <1>1, <1>2, <1>3, CertsVerified, SettledIsIn
<1> HIDE DEF chain
<1>7. Grows(store, store') /\ StoreCerts \subseteq StoreCerts'
  BY <1>6, StoreCertsStay DEF Firm
<1>8. Extends(<<>>, items', Range(chain))
  <2>1. Range(chain) \ {NoCert} = Range(chain)
    <3>1. \A c \in Range(chain) : c \in Certificates
      BY <1>5 DEF Range
    <3> QED
      BY <3>1, CertificatesAssumption
  <2>2. <<>> \in Seq(ChainItems) /\ OnceEach(<<>>) /\ chain \in Seq(Certificates \cup {NoCert})
    BY <1>5 DEF OnceEach
  <2> QED
    BY <1>2, <2>1, <2>2, ItemsAdded
<1>9. /\ items' \in Seq(ChainItems)
      /\ \A j, k \in DOMAIN items' : items'[j].cert = items'[k].cert => j = k
      /\ \A k \in DOMAIN items' : items'[k].cert \in Range(chain) /\ items'[k] = NewItem(items'[k].cert)
      /\ \A c \in Range(chain) : \E k \in DOMAIN items' : items'[k].cert = c
  BY <1>8 DEF Extends, OnceEach
<1>10. \A k \in DOMAIN items' :
         /\ items'[k].built /\ items'[k].sound /\ items'[k].asked = <<>> /\ items'[k].crlIssuer = NoCert
         /\ items'[k].type \in {"NONE", "UNDEFINED"} /\ (items'[k].type = "NONE" => items'[k].cert.selfSigned)
  BY <1>9, NewItemFields
<1>11. TypeOK'
  BY <1>1, <1>2, <1>7, <1>9 DEF TypeOK, Grows, Validating
<1>12. Progress'
  <2> USE DEF Progress
  <2> QED
    BY <1>1, <1>2 DEF Checking
<1>13. Known'
  <2>1. \A k \in DOMAIN items' : items'[k].cert \in StoreCerts'
    BY <1>5, <1>7, <1>9
  <2>2. \A c \in Range(ocsp') : c \in StoreCerts'
    BY <1>1, <1>2, <1>7 DEF Known
  <2> QED
    BY <1>1, <1>2, <1>6, <1>10, <2>1, <2>2, ValidatingKnown
<1>14. expectedCerts \subseteq expectedCerts' /\ SameFindings
  BY <1>2 DEF SameFindings
<1>15. Seen'
  BY <1>1, <1>2, <1>7, <1>14, SeenStays DEF Checking
<1>16. Collected'
  BY <1>1, <1>2, <1>14, CollectedStays
<1>17. ChainsThere'
  <2>1. ASSUME NEW k \in DOMAIN items', ~items'[k].cert.selfSigned
        PROVE  \/ items'[k].cert.authorityKeyId \in expectedCerts'
               \/ \E j \in DOMAIN items' : items'[j].built /\ items'[j].cert.keyId = items'[k].cert.authorityKeyId
    <3> DEFINE d == items'[k].cert
    <3>1. d \in Range(chain)
      BY <1>9
    <3>2. CASE \E e \in Range(chain) : e.keyId = d.authorityKeyId
      BY <1>9, <1>10, <3>2
    <3>3. ASSUME NEW c \in Range(Begins), d = Top(c) PROVE d.authorityKeyId \in expectedCerts'
      <4>1. d.authorityKeyId \in MissingAbove(Top(c))
        BY <2>1, <3>3 DEF MissingAbove
      <4> QED
        BY <1>2, <4>1
    <3> QED
      BY <1>5, <3>1, <3>2, <3>3
  <2>2. info'.cerSigner # 0 => \E k \in DOMAIN items' : items'[k].built /\ items'[k].cert = Cert(info.cerSigner)
    BY <1>2, <1>4, <1>5, <1>9, <1>10
  <2>3. info'.cerSigner # 0 => store'[info'.cerSigner].cert = Cert(info.cerSigner)
    BY <1>1, <1>2, <1>7 DEF Known, Grows, Cert
  <2>4. \A c \in Range(tsp') : \E k \in DOMAIN items' : items'[k].built /\ items'[k].cert = c
    BY <1>2, <1>4, <1>5, <1>9, <1>10
  <2>5. info'.cerSigner # 0 => \E k \in DOMAIN items' : items'[k].built /\ items'[k].cert = store'[info'.cerSigner].cert
    BY <2>2, <2>3
  <2>6. \A j, k \in DOMAIN items' : items'[j].cert = items'[k].cert => j = k
    BY <1>9
  <2>7. options'.validationType # "STRUCT"
    BY <1>2
  <2> QED
    BY <2>1, <2>4, <2>5, <2>6, <2>7 DEF ChainsThere, Cert
<1>18. AskedInOrder'
  BY <1>2, <1>10 DEF AskedInOrder, InTurn
<1>19. Settled'
  <2>1. ASSUME NEW j \in DOMAIN items', NEW k \in DOMAIN items',
               items'[j].cert.keyId = items'[k].cert.authorityKeyId
        PROVE  StatusOf(store', items'[k].cert) \notin Open
    <3> DEFINE c == items'[k].cert
               d == items'[j].cert
    <3>1. c \in Range(chain) /\ d \in Range(chain) /\ c \in StoreCerts /\ d \in StoreCerts /\ d.keyId = c.authorityKeyId
      BY <1>5, <1>9, <2>1
    <3> HIDE DEF c, d
    <3>2. PICK m \in DOMAIN store : store[m].cert = c
      BY <3>1 DEF StoreCerts
    <3>3. PICK n \in DOMAIN store : store[n].cert = d
      BY <3>1 DEF StoreCerts
    <3>4. c \in Certificates
      BY <1>5, <3>1 DEF Range
    <3>5. IssuerOf(store, c) # NoCert
      BY <1>3, <3>1, <3>3, <3>4, IssuerThere
    <3>6. c \in verified
      BY <3>1, <3>5
    <3>7. StatusOf(store', c) \notin Open
      <4> HIDE DEF verified
      <4> QED
        BY <1>6, <3>2, <3>5, <3>6
    <3> QED
      BY <3>7 DEF c
  <2>2. \A k \in DOMAIN store' :
          store'[k].status \notin Open =>
            \E d \in Certificates : Issues(d, store'[k].cert) /\ store'[k].status = SignatureOf(store'[k].cert, d)
    BY <1>6 DEF SettledIn
  <2> QED
    BY <1>1, <1>2, <2>1, <2>2 DEF Settled
<1>20. GoneThrough'
  BY <1>2 DEF GoneThrough
<1> QED
  BY <1>11, <1>12, <1>13, <1>15, <1>16, <1>17, <1>18, <1>19, <1>20 DEF IInv

LEMMA BuildChainStep ==
  ASSUME IInv, buildCertChain
  PROVE  IInv'
BY ChainNotBuilt, ChainBuilt

-----------------------------------------------------------------------------
(* The sources *)

(* What the steps of the validation have in common: the items there are    *)
(* stay for the same certificates, and others are not of the chains.       *)
LEMMA ItemsStep ==
  ASSUME IInv, pc \in {"revocation", "validate"}, pc' \in {"validate", "status"},
         pc' = "validate" => options.validationType = "FULL",
         Firm(store, store'), SettledIn(store'), UNCHANGED <<verifying, sig, options, info, tsp>>,
         m_StatusSign' \in [DamagedCrls -> {"UNDEFINED", "INVALID"}],
         ocsp' \in Seq(Certificates), \A c \in Range(ocsp') : c \in StoreCerts',
         items' \in Seq(ChainItems), OnceEach(items'), DOMAIN items \subseteq DOMAIN items',
         \A k \in DOMAIN items : items'[k].cert = items[k].cert /\ items'[k].built = items[k].built,
         \A k \in DOMAIN items' \ DOMAIN items : ~items'[k].built /\ items'[k].cert \in StoreCerts',
         \A k \in DOMAIN items' : items'[k].crlIssuer \in StoreCerts' \cup {NoCert},
         i' \in Nat \ {0}, expectedCerts \subseteq expectedCerts', AskedInOrder', GoneThrough'
  PROVE  IInv'
<1>1. TypeOK /\ Progress /\ Known /\ Seen /\ Collected /\ ChainsThere /\ Settled
  BY DEF IInv
<1>2. Grows(store, store') /\ StoreCerts \subseteq StoreCerts' /\ SameFindings
  BY StoreCertsStay DEF Firm, SameFindings
<1>3. TypeOK'
  BY <1>1, <1>2 DEF TypeOK, Grows, Validating
<1>4. Progress'
  <2>1. /\ \E r \in Requests : sig = r.sig /\ options = r.options
        /\ info.abort = "none" /\ info.status # "UNDEFINED" /\ info.format \in Formats
        /\ options.validationType # "STRUCT"
    BY <1>1 DEF Progress, Checking
  <2> QED
    BY <2>1 DEF Progress, Checking
<1>5. \A k \in DOMAIN items' : items'[k].cert \in StoreCerts'
  BY <1>1, <1>2 DEF Known
<1>6. Known'
  BY <1>1, <1>5, ValidatingKnown
<1>7. Seen'
  BY <1>1, <1>2, SeenStays DEF Checking
<1>8. Collected'
  BY <1>1, <1>2, CollectedStays
<1>9. ChainsThere'
  <2>1. options.validationType # "STRUCT" /\ pc \in Validating
    BY <1>1 DEF Progress, Validating
  <2>2. info'.cerSigner # 0 => store'[info'.cerSigner].cert = store[info.cerSigner].cert
    BY <1>1, <1>2 DEF Known, Grows
  <2>3. info.cerSigner # 0 => \E k \in DOMAIN items : items[k].built /\ items[k].cert = store[info.cerSigner].cert
    BY <1>1, <2>1 DEF ChainsThere, Cert
  <2>4. info'.cerSigner # 0 => \E k \in DOMAIN items' : items'[k].built /\ items'[k].cert = store'[info'.cerSigner].cert
    BY <2>2, <2>3
  <2>5. \A c \in Range(tsp') : \E k \in DOMAIN items' : items'[k].built /\ items'[k].cert = c
    BY <1>1, <2>1 DEF ChainsThere
  <2>6. \A j, k \in DOMAIN items' : items'[j].cert = items'[k].cert => j = k
    BY DEF OnceEach
  <2>7. \A k \in DOMAIN items' : items'[k].built /\ ~items'[k].cert.selfSigned =>
          \/ items'[k].cert.authorityKeyId \in expectedCerts'
          \/ \E j \in DOMAIN items' : items'[j].built /\ items'[j].cert.keyId = items'[k].cert.authorityKeyId
    BY <1>1 DEF ChainsThere
  <2> QED
    BY <2>1, <2>4, <2>5, <2>6, <2>7 DEF ChainsThere, Cert
<1>10. Settled'
  BY <1>1, SettledStays
<1> QED
  BY <1>3, <1>4, <1>6, <1>7, <1>8, <1>9, <1>10 DEF IInv

LEMMA OnceEachStays ==
  ASSUME ChainsThere, DOMAIN items' = DOMAIN items, \A k \in DOMAIN items : items'[k].cert = items[k].cert
  PROVE  OnceEach(items')
BY DEF OnceEach, ChainsThere

(* The item of a certificate after checkValidity, and the one of a chain   *)
(* that is all there is to validate.                                       *)
WithExpired(it, expired) == [it EXCEPT !.expired = expired]
WithType(it, type) == [it EXCEPT !.type = type]

SameButValidity(old, new) ==
  /\ new \in ChainItems
  /\ new.cert = old.cert /\ new.built = old.built /\ new.sound = old.sound
  /\ new.crlIssuer = old.crlIssuer /\ new.asked = old.asked

LEMMA ExpiredSet ==
  ASSUME NEW it \in ChainItems, NEW expired \in BOOLEAN
  PROVE  LET then == WithExpired(it, expired) IN
         SameButValidity(it, then) /\ then.expired = expired /\ then.type = it.type
BY DEF WithExpired, ChainItems, SameButValidity

LEMMA TypeSet ==
  ASSUME NEW it \in ChainItems, NEW type \in {"UNDEFINED", "NONE", "OCSP", "CRL"}
  PROVE  LET then == WithType(it, type) IN
         SameButValidity(it, then) /\ then.expired = it.expired /\ then.type = type
BY DEF WithType, ChainItems, SameButValidity

LEMMA BeginValidationStep ==
  ASSUME IInv, BeginValidation
  PROVE  IInv'
<1> DEFINE CHAIN == options.validationType = "CHAIN"
           vals == IF options.validationType = "FULL" /\ EmbedsStatus THEN sig.ocspVals ELSE <<>>
           acc == Embedded(vals)
           Type(k) == IF CHAIN THEN "NONE" ELSE acc.items[k].type
           Expired(k) == ~ValidAt(acc.items[k].cert, info.best)
           its == [k \in DOMAIN acc.items |-> WithExpired(acc.items[k], Expired(k))]
<1>1. TypeOK /\ Progress /\ Known /\ ChainsThere /\ AskedInOrder /\ Settled /\ pc = "revocation"
  BY DEF IInv, BeginValidation, Goto
<1>2. /\ pc' = (IF CHAIN THEN "status" ELSE "validate")
      /\ UNCHANGED <<m_StatusSign, verifying, sig, options, info, tsp, i, expectedCerts, expectedCrls>>
      /\ store' = acc.store /\ ocsp' = acc.ocsp
      /\ items' = IF CHAIN THEN [k \in DOMAIN its |-> WithType(its[k], "NONE")] ELSE its
  BY DEF BeginValidation, Goto, request, expected, checkValidity, WithExpired, WithType
<1>3. PICK r \in Requests : sig = r.sig /\ options = r.options
  BY <1>1 DEF Progress
<1>4. /\ Len(vals) \in Nat
      /\ \A n \in 1 .. Len(vals) :
           vals[n].certs \in Seq(Certificates) /\ vals[n].certStatus \in {"GOOD", "REVOKED", "UNKNOWN"}
  <2>1. /\ sig.ocspVals \in Seq(Range(sig.ocspVals))
        /\ \A v \in Range(sig.ocspVals) :
             v.certs \in Seq(Certificates) /\ v.certStatus \in {"GOOD", "REVOKED", "UNKNOWN"}
    BY <1>3, RequestsAssumption
  <2>2. Len(sig.ocspVals) \in Nat /\ \A n \in 1 .. Len(sig.ocspVals) : sig.ocspVals[n] \in Range(sig.ocspVals)
    BY <2>1
  <2> QED
    BY <2>1, <2>2
<1> HIDE DEF vals
<1>5. AfterAnswers(acc, vals, Len(vals))
  <2>1. OnceEach(items) /\ Range(ocsp) \subseteq StoreCerts
    BY <1>1 DEF OnceEach, ChainsThere, Known
  <2> QED
    BY <1>1, <1>4, <2>1, AnswersEmbedded DEF TypeOK
<1> HIDE DEF acc
<1>6. /\ Keeps(store, store') /\ ocsp' \in Seq(Certificates) /\ \A c \in Range(ocsp') : c \in StoreCerts'
      /\ acc.items \in Seq(ChainItems) /\ DOMAIN acc.items = DOMAIN items
      /\ \A k \in DOMAIN items : OnlyAnswer(items[k], acc.items[k])
      /\ \A m \in 1 .. Len(vals), k \in DOMAIN items :
           vals[m].cert = items[k].cert.id => acc.items[k].type = "OCSP"
  BY <1>2, <1>5 DEF AfterAnswers, StoreCerts
<1>7. options.validationType \in {"CHAIN", "FULL"}
  BY <1>1, <1>3, RequestsAssumption DEF Progress
<1>8. DOMAIN items' = DOMAIN items /\ items' = [k \in DOMAIN items' |-> items'[k]]
  BY <1>2, <1>6
<1>9. ASSUME NEW k \in DOMAIN items
      PROVE  SameButValidity(items[k], items'[k]) /\ items'[k].expired = Expired(k) /\ items'[k].type = Type(k)
  <2>1. acc.items[k] \in ChainItems /\ OnlyAnswer(items[k], acc.items[k]) /\ its[k] = WithExpired(acc.items[k], Expired(k))
    BY <1>6
  <2>2. Expired(k) \in BOOLEAN
    BY DEF ValidAt
  <2> HIDE DEF its, Expired
  <2>3. /\ SameButValidity(acc.items[k], its[k])
        /\ its[k].expired = Expired(k) /\ its[k].type = acc.items[k].type
    BY <2>1, <2>2, ExpiredSet
  <2>4. CASE CHAIN
    <3>1. items'[k] = WithType(its[k], "NONE")
      BY <1>2, <1>6, <2>4 DEF its
    <3>2. SameButValidity(its[k], items'[k]) /\ items'[k].expired = its[k].expired /\ items'[k].type = "NONE"
      BY <2>3, <3>1, TypeSet DEF SameButValidity
    <3> QED
      BY <2>1, <2>3, <2>4, <3>2 DEF SameButValidity, OnlyAnswer
  <2>5. CASE ~CHAIN
    <3>1. items'[k] = its[k]
      BY <1>2, <2>5
    <3> QED
      BY <2>1, <2>3, <2>5, <3>1 DEF SameButValidity, OnlyAnswer
  <2> QED
    BY <2>4, <2>5
<1> HIDE DEF Expired, Type, its
<1>10. items' \in Seq(ChainItems)
  <2>1. DOMAIN items = 1 .. Len(items) /\ Len(items) \in Nat
    BY <1>1 DEF TypeOK
  <2> QED
    BY <1>8, <1>9, <2>1 DEF SameButValidity
<1>11. Firm(store, store') /\ SettledIn(store') /\ StoreCerts \subseteq StoreCerts'
  BY <1>1, <1>6, KeepsFirm, SettledIsIn, StoreCertsStay DEF TypeOK, Keeps
<1>12. i = 1
  BY <1>1 DEF Progress
<1>13. AskedInOrder'
  <2>1. InTurn' = InTurn /\ \A c : AnsweredIn(c)' = AnsweredIn(c)
    BY <1>2, FormatStays
  <2>2. ASSUME NEW k \in DOMAIN items PROVE ~(k < i')
    BY <1>1, <1>2, <1>12 DEF TypeOK
  <2>3. ASSUME NEW k \in DOMAIN items, options.validationType = "FULL", AnsweredIn(items[k].cert)
        PROVE  items'[k].type = "OCSP"
    <3>1. PICK v \in Range(sig.ocspVals) : v.cert = items[k].cert.id
      BY <2>3 DEF AnsweredIn
    <3>2. vals = sig.ocspVals
      BY <2>3 DEF vals, AnsweredIn
    <3>3. PICK m \in 1 .. Len(vals) : vals[m] = v
      <4>1. sig.ocspVals \in Seq(Range(sig.ocspVals))
        BY <1>3, RequestsAssumption
      <4>2. DOMAIN vals = 1 .. Len(vals)
        BY <3>2, <4>1
      <4> QED
        BY <3>1, <3>2, <4>2 DEF Range
    <3>4. acc.items[k].type = "OCSP"
      BY <1>6, <3>1, <3>3
    <3> QED
      BY <1>9, <2>3, <3>4 DEF Type
  <2>4. ASSUME NEW k \in DOMAIN items, items[k].built, ~items[k].cert.selfSigned, items'[k].type = "NONE"
        PROVE  CHAIN
    <3> SUFFICES ASSUME ~CHAIN PROVE FALSE
      OBVIOUS
    <3>1. items[k].type = "NONE"
      BY <1>6, <1>9, <2>4 DEF Type, OnlyAnswer
    <3> QED
      BY <1>1, <2>4, <3>1 DEF AskedInOrder
  <2>5. \A k \in DOMAIN items : items'[k].expired = ~ValidAt(items'[k].cert, info.best)
    BY <1>6, <1>9 DEF Expired, OnlyAnswer, SameButValidity
  <2>6. \A k \in DOMAIN items : items'[k].asked = <<>> /\ (items'[k].sound \/ DamagedCrls # {})
    BY <1>1, <1>9 DEF AskedInOrder, SameButValidity
  <2>7. options.validationType = "FULL" => \A k \in DOMAIN items' : ~Validated(k)'
    BY <1>2, <1>8, <2>2 DEF Validated
  <2>8. \A k \in DOMAIN items : items'[k].cert = items[k].cert /\ items'[k].built = items[k].built
    BY <1>9 DEF SameButValidity
  <2> QED
    BY <1>2, <1>8, <2>1, <2>3, <2>4, <2>5, <2>6, <2>7, <2>8 DEF AskedInOrder, InTurn
<1>14. GoneThrough'
  <2>1. \A k \in DOMAIN items' : ~(k < i')
    BY <1>1, <1>2, <1>8, <1>12 DEF TypeOK
  <2> QED
    BY <1>2, <2>1 DEF GoneThrough
<1>15. \A k \in DOMAIN items : items'[k].crlIssuer \in StoreCerts' \cup {NoCert}
  BY <1>1, <1>9, <1>11 DEF Known, SameButValidity
<1>16. \A k \in DOMAIN items : items'[k].cert = items[k].cert /\ items'[k].built = items[k].built
  BY <1>9 DEF SameButValidity
<1> QED
  BY <1>1, <1>2, <1>6, <1>7, <1>8, <1>10, <1>11, <1>13, <1>14, <1>15, <1>16, OnceEachStays, ItemsStep DEF TypeOK

(* A step of the loop of validate_certs, about the item it is at. *)
LEMMA AskedStep ==
  ASSUME IInv, pc = "validate", i <= Len(items), NeedsStatus,
         UNCHANGED <<store, verifying, pc, sig, options, info, tsp, ocsp, i>>,
         m_StatusSign' \in [DamagedCrls -> {"UNDEFINED", "INVALID"}],
         expectedCerts \subseteq expectedCerts', expectedCrls \subseteq expectedCrls',
         NEW it \in ChainItems, items' = [items EXCEPT ![i] = it],
         it.cert = Current.cert, it.built = Current.built, it.expired = Current.expired,
         it.crlIssuer \in StoreCerts \cup {NoCert},
         it.asked \in InTurn \ {<<>>}, it.type # "NONE",
         it.type = "UNDEFINED" /\ it.asked # <<"OCSP">> =>
           it.cert.authorityKeyId \in expectedCrls' \cup DamagedCrls \cup expectedCerts',
         it.sound \/ DamagedCrls # {}
  PROVE  IInv'
<1>1. TypeOK /\ Progress /\ Known /\ ChainsThere /\ AskedInOrder /\ Settled /\ store \in Seq(Items)
  BY DEF IInv, TypeOK
<1>2. i \in DOMAIN items /\ items \in Seq(ChainItems) /\ items[i] = Current
  BY <1>1 DEF TypeOK, Current
<1>3. /\ DOMAIN items' = DOMAIN items /\ items' \in Seq(ChainItems) /\ items'[i] = it
      /\ \A k \in DOMAIN items : k # i => items'[k] = items[k]
  BY <1>2
<1>4. Firm(store, store') /\ StoreCerts' = StoreCerts /\ SettledIn(store')
  BY <1>1, SameStoreKept, SettledIsIn
<1>5. options.validationType = "FULL"
  BY <1>1 DEF Progress
<1>6. \A k \in DOMAIN items :
        /\ items'[k].cert = items[k].cert /\ items'[k].built = items[k].built
        /\ items'[k].crlIssuer \in StoreCerts' \cup {NoCert}
  BY <1>1, <1>2, <1>3, <1>4 DEF Known
<1>7. AskedInOrder'
  <2>1. Order' = Order /\ InTurn' = InTurn /\ \A c : AnsweredIn(c)' = AnsweredIn(c)
    BY FormatStays
  <2>2. \A k \in DOMAIN items : Validated(k)' = Validated(k)
    BY DEF Validated
  <2>3. ASSUME NEW k \in DOMAIN items, k # i
        PROVE  /\ items'[k].asked \in InTurn
               /\ pc' = "validate" /\ i' < k => items'[k].asked = <<>>
               /\ items'[k].asked # <<>> => ~items'[k].expired /\ items'[k].type # "NONE"
               /\ AnsweredIn(items'[k].cert) => items'[k].asked = <<>> /\ items'[k].type # "UNDEFINED"
               /\ Validated(k) /\ items'[k].type = "UNDEFINED" /\ ~items'[k].expired => items'[k].asked = Order
               /\ items'[k].type = "UNDEFINED" /\ items'[k].asked \notin {<<>>, <<"OCSP">>} =>
                    items'[k].cert.authorityKeyId \in expectedCrls' \cup DamagedCrls \cup expectedCerts'
               /\ (items'[k].sound \/ DamagedCrls # {})
               /\ items'[k].expired = ~ValidAt(items'[k].cert, info.best)
    <3>1. items'[k] = items[k]
      BY <1>3, <2>3
    <3> QED
      BY <1>1, <1>5, <3>1 DEF AskedInOrder
  <2>4. /\ items'[i].asked \in InTurn
        /\ items'[i].asked # <<>> => ~items'[i].expired /\ items'[i].type # "NONE"
        /\ ~AnsweredIn(items'[i].cert)
        /\ ~Validated(i) /\ ~(i' < i)
        /\ items'[i].type = "UNDEFINED" /\ items'[i].asked \notin {<<>>, <<"OCSP">>} =>
             items'[i].cert.authorityKeyId \in expectedCrls' \cup DamagedCrls \cup expectedCerts'
        /\ (items'[i].sound \/ DamagedCrls # {})
        /\ items'[i].expired = ~ValidAt(items'[i].cert, info.best)
    <3>1. ~AnsweredIn(Current.cert)
      BY <1>1, <1>2, <1>5 DEF AskedInOrder, NeedsStatus
    <3>2. Current.expired = ~ValidAt(Current.cert, info.best)
      BY <1>1, <1>2 DEF AskedInOrder
    <3>3. ~Validated(i) /\ ~(i' < i)
      BY <1>1 DEF Validated, TypeOK
    <3> QED
      BY <1>2, <1>3, <3>1, <3>2, <3>3 DEF NeedsStatus
  <2>5. ASSUME NEW k \in DOMAIN items, items'[k].built, ~items'[k].cert.selfSigned, items'[k].type = "NONE"
        PROVE  options.validationType = "CHAIN"
    <3>1. k # i /\ items'[k] = items[k]
      BY <1>3, <2>5
    <3> QED
      BY <1>1, <2>5, <3>1 DEF AskedInOrder
  <2> QED
    BY <1>3, <1>5, <2>1, <2>2, <2>3, <2>4, <2>5 DEF AskedInOrder
<1>8. GoneThrough'
  BY DEF GoneThrough
<1>9. ocsp' \in Seq(Certificates) /\ \A c \in Range(ocsp') : c \in StoreCerts'
  BY <1>1, <1>4 DEF TypeOK, Known
<1>10. i' \in Nat \ {0}
  BY <1>1 DEF TypeOK
<1> QED
  BY <1>1, <1>3, <1>4, <1>5, <1>6, <1>7, <1>8, <1>9, <1>10, OnceEachStays, ItemsStep

AskedNow(it, crlIssuer) == [it EXCEPT !.crlIssuer = crlIssuer]

LEMMA CrlIssuerSet ==
  ASSUME NEW it \in ChainItems, NEW issuer \in Certificates
  PROVE  LET then == AskedNow(it, issuer) IN
         /\ then \in ChainItems /\ then.crlIssuer = issuer
         /\ then.cert = it.cert /\ then.built = it.built /\ then.expired = it.expired
         /\ then.type = it.type /\ then.asked = it.asked /\ then.sound = it.sound
BY DEF AskedNow, ChainItems

LEMMA AnsweredFields ==
  ASSUME Current \in ChainItems, NEW type \in {"OCSP", "CRL"}, NEW certStatus \in CertStatuses,
         NEW sound \in BOOLEAN, Append(Current.asked, type) \in Asks
  PROVE  LET then == Answered(type, certStatus, sound) IN
         /\ then \in ChainItems
         /\ then.cert = Current.cert /\ then.built = Current.built /\ then.expired = Current.expired
         /\ then.crlIssuer = Current.crlIssuer
         /\ then.type = type /\ then.asked = Append(Current.asked, type) /\ then.sound = sound
<1> DEFINE asked == Append(Current.asked, type)
<1>1. Answered(type, certStatus, sound) =
        [Current EXCEPT !.type = type, !.certStatus = certStatus, !.sound = sound, !.asked = asked]
  BY DEF Answered, ChainItems
<1>2. asked \in Asks
  OBVIOUS
<1> HIDE DEF asked
<1>3. type \in {"UNDEFINED", "NONE", "OCSP", "CRL"}
  OBVIOUS
<1>4. LET then == Answered(type, certStatus, sound) IN
         /\ then \in ChainItems
         /\ then.cert = Current.cert /\ then.built = Current.built /\ then.expired = Current.expired
         /\ then.crlIssuer = Current.crlIssuer
         /\ then.type = type /\ then.asked = asked /\ then.sound = sound
  BY <1>1, <1>2, <1>3 DEF ChainItems
<1> QED
  BY <1>4 DEF asked

LEMMA NotAnsweredFields ==
  ASSUME Current \in ChainItems, NEW source \in {"OCSP", "CRL"}, Append(Current.asked, source) \in Asks
  PROVE  LET then == NotAnswered(source) IN
         /\ then \in ChainItems
         /\ then.cert = Current.cert /\ then.built = Current.built /\ then.expired = Current.expired
         /\ then.crlIssuer = Current.crlIssuer
         /\ then.type = Current.type /\ then.asked = Append(Current.asked, source) /\ then.sound = Current.sound
<1> DEFINE asked == Append(Current.asked, source)
<1>1. NotAnswered(source) = [Current EXCEPT !.asked = asked]
  BY DEF NotAnswered, ChainItems
<1>2. asked \in Asks
  OBVIOUS
<1> HIDE DEF asked
<1>3. LET then == NotAnswered(source) IN
         /\ then \in ChainItems
         /\ then.cert = Current.cert /\ then.built = Current.built /\ then.expired = Current.expired
         /\ then.crlIssuer = Current.crlIssuer
         /\ then.type = Current.type /\ then.asked = asked /\ then.sound = Current.sound
  BY <1>1, <1>2 DEF ChainItems
<1> QED
  BY <1>3 DEF asked

(* One source asked after another. *)
LEMMA SourceAppended ==
  ASSUME NEW S, NEW a \in S, NEW b \in S
  PROVE  /\ Append(<<>>, a) = <<a>> /\ Append(<<a>>, b) = <<a, b>>
         /\ <<a>> # <<>> /\ <<a, b>> # <<>>
         /\ <<a>> = <<b>> => a = b
         /\ <<a, b>> # <<a>> /\ <<a, b>> # <<b>>
<1>1. Append(<<>>, a) = <<a>>
  OBVIOUS
<1>2. Append(<<a>>, b) = <<a, b>>
  <2> DEFINE one == <<a>>
             two == <<a, b>>
  <2>1. one \in Seq(S) /\ Len(one) = 1 /\ one[1] = a
    OBVIOUS
  <2>2. two \in Seq(S) /\ Len(two) = 2 /\ two[1] = a /\ two[2] = b
    OBVIOUS
  <2> HIDE DEF one, two
  <2>3. Append(one, b) \in Seq(S) /\ Len(Append(one, b)) = 2 /\ Append(one, b)[1] = a /\ Append(one, b)[2] = b
    <3>1. one \in Seq(S)
      BY <2>1
    <3>2. Append(one, b) \in Seq(S) /\ Len(Append(one, b)) = Len(one) + 1
      BY <3>1
    <3>3. Append(one, b)[Len(one) + 1] = b
      BY <3>1
    <3>4. \A k \in 1 .. Len(one) : Append(one, b)[k] = one[k]
      BY <3>1
    <3>5. Len(one) + 1 = 2 /\ 1 \in 1 .. Len(one)
      BY <2>1
    <3> QED
      BY <2>1, <3>2, <3>3, <3>4, <3>5
  <2> DEFINE more == Append(one, b)
  <2> HIDE DEF more
  <2>4. \A k \in 1 .. 2 : more[k] = two[k]
    BY <2>2, <2>3 DEF more
  <2>5. more = two
    BY <2>2, <2>3, <2>4, SeqEqual DEF more
  <2> QED
    BY <2>5 DEF more, one, two
<1>3. <<a>> # <<>> /\ <<a, b>> # <<>>
  OBVIOUS
<1>4. <<a>> = <<b>> => a = b
  OBVIOUS
<1>5. <<a, b>> # <<a>> /\ <<a, b>> # <<b>>
  <2>1. Len(<<a, b>>) = 2 /\ Len(<<a>>) = 1 /\ Len(<<b>>) = 1
    OBVIOUS
  <2> QED
    BY <2>1
<1> QED
  BY <1>1, <1>2, <1>3, <1>4, <1>5

LEMMA SourceAsked ==
  /\ \A a, b \in {"OCSP", "CRL"} : Append(<<>>, a) = <<a>> /\ Append(<<a>>, b) = <<a, b>>
  /\ \A a, b \in {"OCSP", "CRL"} : <<a>> # <<>> /\ <<a, b>> # <<>> /\ <<a, b>> # <<a>> /\ <<a, b>> # <<b>>
  /\ <<"OCSP">> # <<"CRL">>
<1> DEFINE S == {"OCSP", "CRL"}
<1>1. "OCSP" \in S /\ "CRL" \in S /\ "OCSP" # "CRL"
  OBVIOUS
<1> HIDE DEF S
<1>2. \A a, b \in S : Append(<<>>, a) = <<a>> /\ Append(<<a>>, b) = <<a, b>>
  BY SourceAppended
<1>3. \A a, b \in S : <<a>> # <<>> /\ <<a, b>> # <<>> /\ <<a, b>> # <<a>> /\ <<a, b>> # <<b>>
  BY SourceAppended
<1>4. \A a, b \in S : <<a>> = <<b>> => a = b
  BY SourceAppended
<1>5. <<"OCSP">> # <<"CRL">>
  BY <1>1, <1>4
<1> QED
  BY <1>2, <1>3, <1>5 DEF S

(* The item the loop is at. *)
LEMMA CurrentThere ==
  ASSUME TypeOK, Known, AskedInOrder, i <= Len(items)
  PROVE  /\ i \in DOMAIN items /\ Current \in ChainItems /\ Current = items[i]
         /\ Current.crlIssuer \in StoreCerts \cup {NoCert} /\ (Current.sound \/ DamagedCrls # {})
         /\ Current.type = "UNDEFINED" /\ Current.asked \notin {<<>>, <<"OCSP">>} =>
              Current.cert.authorityKeyId \in expectedCrls \cup DamagedCrls \cup expectedCerts
<1>1. i \in DOMAIN items /\ Current = items[i] /\ Current \in ChainItems
  BY DEF TypeOK, Current
<1> QED
  BY <1>1 DEF Known, AskedInOrder

LEMMA OcspStep ==
  ASSUME IInv, validate_by_ocsp
  PROVE  IInv'
<1> DEFINE asked == Append(Current.asked, "OCSP")
<1>1. TypeOK /\ Known /\ AskedInOrder
  BY DEF IInv
<1>2. /\ pc = "validate" /\ i <= Len(items) /\ NeedsStatus /\ ~options.onlyCrl
      /\ Current.asked = IF OcspFirst THEN <<>> ELSE <<"CRL">>
      /\ UNCHANGED <<store, m_StatusSign, verifying, pc, sig, options, info, tsp, ocsp, i, expectedCerts, expectedCrls>>
  BY DEF validate_by_ocsp, shared, request, expected
<1>3. /\ i \in DOMAIN items /\ Current \in ChainItems
      /\ Current.crlIssuer \in StoreCerts \cup {NoCert} /\ (Current.sound \/ DamagedCrls # {})
      /\ Current.type = "UNDEFINED" /\ Current.asked \notin {<<>>, <<"OCSP">>} =>
           Current.cert.authorityKeyId \in expectedCrls \cup DamagedCrls \cup expectedCerts
  BY <1>1, <1>2, CurrentThere
<1>4. asked = IF OcspFirst THEN <<"OCSP">> ELSE <<"CRL", "OCSP">>
  <2>1. asked = IF OcspFirst THEN Append(<<>>, "OCSP") ELSE Append(<<"CRL">>, "OCSP")
    BY <1>2
  <2> HIDE DEF asked
  <2> QED
    BY <2>1, SourceAsked
<1>5. asked \in InTurn \ {<<>>} /\ asked \in Asks
  <2>1. asked # <<>>
    BY <1>4, SourceAsked
  <2> HIDE DEF asked
  <2> QED
    BY <1>2, <1>4, <2>1 DEF InTurn, Order, Asks
<1>6. Current.type = "UNDEFINED"
  BY <1>2 DEF NeedsStatus
<1>7. asked # <<"OCSP">> => Current.asked \notin {<<>>, <<"OCSP">>}
  <2>1. <<"CRL">> # <<>> /\ <<"CRL">> # <<"OCSP">>
    BY SourceAsked
  <2> HIDE DEF asked
  <2> QED
    BY <1>2, <1>4, <2>1
<1>8. m_StatusSign' \in [DamagedCrls -> {"UNDEFINED", "INVALID"}]
  BY <1>1, <1>2 DEF TypeOK
<1> HIDE DEF asked
<1>9. ASSUME NEW certStatus \in {"GOOD", "REVOKED", "UNKNOWN"},
             items' = [items EXCEPT ![i] = Answered("OCSP", certStatus, TRUE)]
      PROVE  IInv'
  <2> DEFINE it == Answered("OCSP", certStatus, TRUE)
  <2>1. certStatus \in CertStatuses
    BY DEF CertStatuses
  <2>2. /\ it \in ChainItems
        /\ it.cert = Current.cert /\ it.built = Current.built /\ it.expired = Current.expired
        /\ it.crlIssuer = Current.crlIssuer
        /\ it.type = "OCSP" /\ it.asked = asked /\ it.sound = TRUE
    BY <1>3, <1>5, <2>1, AnsweredFields DEF asked
  <2>3. items' = [items EXCEPT ![i] = it]
    BY <1>9
  <2> HIDE DEF it
  <2> QED
    BY <1>2, <1>3, <1>5, <1>8, <2>2, <2>3, AskedStep
<1>10. ASSUME items' = [items EXCEPT ![i] = NotAnswered("OCSP")]
       PROVE  IInv'
  <2> DEFINE it == NotAnswered("OCSP")
  <2>1. /\ it \in ChainItems
        /\ it.cert = Current.cert /\ it.built = Current.built /\ it.expired = Current.expired
        /\ it.crlIssuer = Current.crlIssuer
        /\ it.type = Current.type /\ it.asked = asked /\ it.sound = Current.sound
    BY <1>3, <1>5, NotAnsweredFields DEF asked
  <2>2. items' = [items EXCEPT ![i] = it]
    BY <1>10
  <2> HIDE DEF it
  <2> QED
    BY <1>2, <1>3, <1>5, <1>6, <1>7, <1>8, <2>1, <2>2, AskedStep
<1> QED
  BY <1>9, <1>10 DEF validate_by_ocsp

LEMMA CrlStep ==
  ASSUME IInv, validate_by_crl
  PROVE  IInv'
<1> DEFINE asked == Append(Current.asked, "CRL")
           keyId == Current.cert.authorityKeyId
           signer == getCertByKeyId(store, keyId, 0)
           Damaged == keyId \in DamagedCrls
<1>1. TypeOK /\ Known /\ AskedInOrder /\ store \in Seq(Items)
      /\ m_StatusSign \in [DamagedCrls -> {"UNDEFINED", "INVALID"}]
  BY DEF IInv, TypeOK
<1>2. /\ pc = "validate" /\ i <= Len(items) /\ NeedsStatus
      /\ Current.asked = IF OcspFirst /\ ~options.onlyCrl THEN <<"OCSP">> ELSE <<>>
      /\ UNCHANGED <<store, verifying, pc, sig, options, info, tsp, ocsp, i>>
  BY DEF validate_by_crl, request
<1>3. /\ i \in DOMAIN items /\ Current \in ChainItems
      /\ Current.crlIssuer \in StoreCerts \cup {NoCert} /\ (Current.sound \/ DamagedCrls # {})
  BY <1>1, <1>2, CurrentThere
<1>4. asked = IF OcspFirst /\ ~options.onlyCrl THEN <<"OCSP", "CRL">> ELSE <<"CRL">>
  <2>1. asked = IF OcspFirst /\ ~options.onlyCrl THEN Append(<<"OCSP">>, "CRL") ELSE Append(<<>>, "CRL")
    BY <1>2
  <2> HIDE DEF asked
  <2> QED
    BY <2>1, SourceAsked
<1>5. asked \in InTurn \ {<<>>} /\ asked \in Asks
  <2>1. asked # <<>>
    BY <1>4, SourceAsked
  <2> HIDE DEF asked
  <2> QED
    BY <1>2, <1>4, <2>1 DEF InTurn, Order, Asks
<1>6. Current.type = "UNDEFINED"
  BY <1>2 DEF NeedsStatus
<1> HIDE DEF asked
<1> DEFINE not == NotAnswered("CRL")
<1>7. /\ not \in ChainItems
      /\ not.cert = Current.cert /\ not.built = Current.built /\ not.expired = Current.expired
      /\ not.crlIssuer = Current.crlIssuer
      /\ not.type = Current.type /\ not.asked = asked /\ not.sound = Current.sound
  BY <1>3, <1>5, NotAnsweredFields DEF asked
<1> HIDE DEF not
<1>8. ASSUME items' = [items EXCEPT ![i] = not], UNCHANGED m_StatusSign,
             keyId \in expectedCrls' \cup expectedCerts',
             expectedCerts \subseteq expectedCerts', expectedCrls \subseteq expectedCrls'
      PROVE  IInv'
  BY <1>1, <1>2, <1>3, <1>5, <1>6, <1>7, <1>8, AskedStep
<1>9. ASSUME signer # 0 PROVE Cert(signer) \in Certificates /\ Cert(signer) \in StoreCerts
  <2>1. signer \in DOMAIN store /\ store[signer].cert \in Certificates
    BY <1>1, <1>9, LookedUp
  <2> QED
    BY <2>1 DEF Cert, StoreCerts
<1> HIDE DEF signer
<1>10. ASSUME signer # 0, Damaged, UNCHANGED expected,
              items' = [items EXCEPT ![i] = AskedNow(not, Cert(signer))],
              m_StatusSign' = [m_StatusSign EXCEPT ![keyId] = "INVALID"]
       PROVE  IInv'
  <2> DEFINE it == AskedNow(not, Cert(signer))
  <2>1. /\ it \in ChainItems /\ it.crlIssuer = Cert(signer)
        /\ it.cert = not.cert /\ it.built = not.built /\ it.expired = not.expired
        /\ it.type = not.type /\ it.asked = not.asked /\ it.sound = not.sound
    BY <1>7, <1>9, <1>10, CrlIssuerSet
  <2>2. items' = [items EXCEPT ![i] = it]
    BY <1>10
  <2>3. m_StatusSign' \in [DamagedCrls -> {"UNDEFINED", "INVALID"}]
    BY <1>1, <1>10
  <2> HIDE DEF it
  <2>4. UNCHANGED <<expectedCerts, expectedCrls>>
    BY <1>10 DEF expected
  <2> QED
    BY <1>2, <1>3, <1>5, <1>6, <1>7, <1>9, <1>10, <2>1, <2>2, <2>3, <2>4, AskedStep
<1>11. ASSUME signer # 0, UNCHANGED <<expected, m_StatusSign>>, NEW certStatus \in {"GOOD", "REVOKED"},
              items' = [items EXCEPT ![i] = AskedNow(Answered("CRL", certStatus, ~Damaged), Cert(signer))]
       PROVE  IInv'
  <2> DEFINE ans == Answered("CRL", certStatus, ~Damaged)
             it == AskedNow(ans, Cert(signer))
  <2>1. certStatus \in CertStatuses /\ (~Damaged) \in BOOLEAN
    BY DEF CertStatuses
  <2>2. /\ ans \in ChainItems
        /\ ans.cert = Current.cert /\ ans.built = Current.built /\ ans.expired = Current.expired
        /\ ans.type = "CRL" /\ ans.asked = asked /\ ans.sound = ~Damaged
    <3> HIDE DEF Damaged
    <3> QED
      BY <1>3, <1>5, <2>1, AnsweredFields DEF asked
  <2> HIDE DEF ans
  <2>3. /\ it \in ChainItems /\ it.crlIssuer = Cert(signer)
        /\ it.cert = ans.cert /\ it.built = ans.built /\ it.expired = ans.expired
        /\ it.type = ans.type /\ it.asked = ans.asked /\ it.sound = ans.sound
    BY <1>9, <1>11, <2>2, CrlIssuerSet
  <2>4. items' = [items EXCEPT ![i] = it]
    BY <1>11 DEF ans
  <2> HIDE DEF it
  <2>5. UNCHANGED <<expectedCerts, expectedCrls>>
    BY <1>11 DEF expected
  <2>6. it.sound \/ DamagedCrls # {}
    BY <2>2, <2>3
  <2> QED
    BY <1>1, <1>2, <1>3, <1>5, <1>9, <1>11, <2>2, <2>3, <2>4, <2>5, <2>6, AskedStep
<1>12. \/ /\ items' = [items EXCEPT ![i] = not]
          /\ expectedCrls' = expectedCrls \cup {keyId}
          /\ UNCHANGED <<m_StatusSign, expectedCerts>>
       \/ /\ items' = [items EXCEPT ![i] = not]
          /\ expectedCerts' = expectedCerts \cup {keyId}
          /\ UNCHANGED <<m_StatusSign, expectedCrls>>
       \/ /\ signer # 0 /\ Damaged /\ UNCHANGED expected
          /\ items' = [items EXCEPT ![i] = AskedNow(not, Cert(signer))]
          /\ m_StatusSign' = [m_StatusSign EXCEPT ![keyId] = "INVALID"]
       \/ /\ signer # 0 /\ UNCHANGED <<expected, m_StatusSign>>
          /\ \E certStatus \in {"GOOD", "REVOKED"} :
               items' = [items EXCEPT ![i] = AskedNow(Answered("CRL", certStatus, ~Damaged), Cert(signer))]
  BY DEF validate_by_crl, not, AskedNow, signer
<1> QED
  BY <1>8, <1>10, <1>11, <1>12

LEMMA NextItemStep ==
  ASSUME IInv, NextItem
  PROVE  IInv'
<1>1. /\ TypeOK /\ Progress /\ Known /\ ChainsThere /\ AskedInOrder /\ Settled
      /\ store \in Seq(Items) /\ items \in Seq(ChainItems)
  BY DEF IInv, TypeOK
<1>2. /\ pc = "validate" /\ i <= Len(items) /\ i' = i + 1
      /\ ~NeedsStatus \/ Len(Current.asked) = IF options.onlyCrl THEN 1 ELSE 2
      /\ UNCHANGED <<store, m_StatusSign, verifying, pc, sig, options, info, tsp, ocsp, items, expectedCerts, expectedCrls>>
  BY DEF NextItem, shared, request, lists, expected
<1>3. /\ i \in DOMAIN items /\ Current = items[i] /\ i \in Nat
  BY <1>1, <1>2, CurrentThere DEF TypeOK
<1>4. Firm(store, store') /\ StoreCerts' = StoreCerts /\ SettledIn(store')
  BY <1>1, <1>2, SameStoreKept, SettledIsIn
<1>5. options.validationType = "FULL"
  BY <1>1, <1>2 DEF Progress
<1>6. ASSUME Current.type = "UNDEFINED", ~Current.expired PROVE Current.asked = Order
  <2>1. Len(Current.asked) = IF options.onlyCrl THEN 1 ELSE 2
    BY <1>2, <1>6 DEF NeedsStatus
  <2>2. Current.asked \in InTurn
    BY <1>1, <1>3 DEF AskedInOrder
  <2>3. Len(<<>>) = 0 /\ Len(<<"OCSP">>) = 1 /\ Len(<<"CRL">>) = 1
    OBVIOUS
  <2>4. Current.asked # <<>>
    BY <2>1, <2>3
  <2>5. ~options.onlyCrl => Current.asked # <<"OCSP">> /\ Current.asked # <<"CRL">>
    BY <2>1, <2>3
  <2> QED
    BY <2>2, <2>4, <2>5 DEF InTurn
<1>7. AskedInOrder'
  <2>1. Order' = Order /\ InTurn' = InTurn /\ \A c : AnsweredIn(c)' = AnsweredIn(c)
    BY <1>2, FormatStays
  <2>2. ASSUME NEW k \in DOMAIN items, Validated(k)', items[k].type = "UNDEFINED", ~items[k].expired
        PROVE  items[k].asked = Order
    <3>1. k \in Nat /\ k < i + 1
      BY <1>1, <1>2, <2>2 DEF Validated
    <3>2. CASE k = i
      BY <1>3, <1>6, <2>2, <3>2
    <3>3. CASE k # i
      <4>1. k < i
        BY <1>3, <3>1, <3>3
      <4>2. Validated(k)
        BY <1>2, <4>1 DEF Validated
      <4> QED
        BY <1>1, <1>2, <1>5, <2>2, <4>2 DEF AskedInOrder
    <3> QED
      BY <3>2, <3>3
  <2>3. \A k \in DOMAIN items : i' < k => i < k
    BY <1>1, <1>2, <1>3
  <2> QED
    BY <1>1, <1>2, <2>1, <2>2, <2>3 DEF AskedInOrder
<1>8. GoneThrough'
  BY <1>2 DEF GoneThrough
<1>9. ocsp' \in Seq(Certificates) /\ \A c \in Range(ocsp') : c \in StoreCerts'
  BY <1>1, <1>2, <1>4 DEF TypeOK, Known
<1>10. i' \in Nat \ {0}
  BY <1>2, <1>3
<1>11. \A k \in DOMAIN items : items'[k].crlIssuer \in StoreCerts' \cup {NoCert}
  BY <1>1, <1>2, <1>4 DEF Known
<1>12. m_StatusSign' \in [DamagedCrls -> {"UNDEFINED", "INVALID"}]
  BY <1>1, <1>2 DEF TypeOK
<1> QED
  BY <1>1, <1>2, <1>4, <1>5, <1>7, <1>8, <1>9, <1>10, <1>11, <1>12, OnceEachStays, ItemsStep

(* The item of a certificate that answered. *)
Answerer(it, expired) == [it EXCEPT !.built = FALSE, !.type = "NONE", !.expired = expired]

LEMMA AnswererFields ==
  ASSUME NEW it \in ChainItems, NEW expired \in BOOLEAN
  PROVE  LET then == Answerer(it, expired) IN
         /\ then \in ChainItems
         /\ ~then.built /\ then.type = "NONE" /\ then.expired = expired
         /\ then.cert = it.cert /\ then.sound = it.sound /\ then.crlIssuer = it.crlIssuer /\ then.asked = it.asked
BY DEF Answerer, ChainItems

LEMMA AddAnswerersStep ==
  ASSUME IInv, AddAnswerers
  PROVE  IInv'
<1> DEFINE issuers == IF EmbedsStatus THEN <<>> ELSE [k \in DOMAIN items |-> items[k].crlIssuer]
           answerers == ocsp \o issuers
           its == addItems(items, answerers)
           new == {its[k].cert : k \in DOMAIN its \ DOMAIN items}
           Expired(k) == ~ValidAt(its[k].cert, info.best)
           There == Certificates \cup {NoCert}
<1>1. /\ TypeOK /\ Progress /\ Known /\ ChainsThere /\ AskedInOrder /\ Settled
      /\ store \in Seq(Items) /\ items \in Seq(ChainItems) /\ ocsp \in Seq(Certificates)
  BY DEF IInv, TypeOK
<1>2. /\ pc = "validate" /\ i > Len(items) /\ pc' = "status" /\ i' = 1
      /\ items' = [k \in DOMAIN its |-> IF k \in DOMAIN items THEN items[k] ELSE Answerer(its[k], Expired(k))]
      /\ store' = verifyCerts(store, {c \in new : ~c.selfSigned /\ Top(c).selfSigned})
      /\ UNCHANGED <<m_StatusSign, verifying, sig, options, info, tsp, ocsp, expectedCerts, expectedCrls>>
  BY DEF AddAnswerers, request, expected, Answerer
<1>3. answerers \in Seq(There) /\ Range(answerers) \subseteq StoreCerts \cup {NoCert}
  <2>1. \A k \in DOMAIN items : items[k].crlIssuer \in There /\ items[k].crlIssuer \in StoreCerts \cup {NoCert}
    <3>1. \A k \in DOMAIN items : items[k] \in ChainItems
      BY <1>1
    <3> QED
      BY <1>1, <3>1 DEF ChainItems, Known
  <2>2. issuers \in Seq(There) /\ Range(issuers) \subseteq StoreCerts \cup {NoCert}
    <3>1. CASE EmbedsStatus
      BY <3>1 DEF Range
    <3>2. CASE ~EmbedsStatus
      <4>1. DOMAIN items = 1 .. Len(items) /\ Len(items) \in Nat
        BY <1>1
      <4>2. issuers = [k \in 1 .. Len(items) |-> items[k].crlIssuer]
        BY <3>2, <4>1
      <4>3. \A k \in 1 .. Len(items) : items[k].crlIssuer \in There
        BY <2>1, <4>1
      <4>4. issuers \in Seq(There)
        BY <4>1, <4>2, <4>3
      <4>5. \A c \in Range(issuers) : \E k \in DOMAIN items : c = items[k].crlIssuer
        BY <4>1, <4>2 DEF Range
      <4> QED
        BY <2>1, <4>4, <4>5
    <3> QED
      BY <3>1, <3>2
  <2> HIDE DEF issuers
  <2>3. ocsp \in Seq(There) /\ Range(ocsp) \subseteq StoreCerts
    BY <1>1 DEF Known
  <2> HIDE DEF There
  <2>4. ocsp \o issuers \in Seq(There) /\ Range(ocsp \o issuers) = Range(ocsp) \cup Range(issuers)
    BY <2>2, <2>3, RangeConcat
  <2> QED
    BY <2>2, <2>3, <2>4
<1> HIDE DEF answerers
<1>4. Extends(items, its, Range(answerers) \ {NoCert})
  BY <1>1, <1>3, ItemsAdded DEF ChainsThere, OnceEach
<1> HIDE DEF its
<1>5. /\ its \in Seq(ChainItems) /\ OnceEach(its)
      /\ \A k \in DOMAIN items : k \in DOMAIN its /\ its[k] = items[k]
      /\ \A k \in DOMAIN its \ DOMAIN items : its[k].cert \in StoreCerts /\ its[k] = NewItem(its[k].cert)
  BY <1>3, <1>4 DEF Extends
<1>6. Firm(store, store') /\ SettledIn(store')
  <2> HIDE DEF new
  <2> QED
    BY <1>1, <1>2, CertsVerified, SettledIsIn
<1>7. Grows(store, store') /\ StoreCerts \subseteq StoreCerts'
  BY <1>6, StoreCertsStay DEF Firm
<1>8. /\ DOMAIN items' = DOMAIN its /\ DOMAIN items \subseteq DOMAIN items'
      /\ \A k \in DOMAIN items : items'[k] = items[k]
  BY <1>2, <1>5
<1>9. ASSUME NEW k \in DOMAIN items' \ DOMAIN items
      PROVE  /\ items'[k] \in ChainItems /\ items'[k].cert = its[k].cert /\ items'[k].cert \in StoreCerts'
             /\ ~items'[k].built /\ items'[k].type = "NONE" /\ items'[k].asked = <<>> /\ items'[k].sound
             /\ items'[k].crlIssuer = NoCert /\ items'[k].expired = ~ValidAt(items'[k].cert, info.best)
  <2>1. its[k] \in ChainItems /\ its[k] = NewItem(its[k].cert) /\ its[k].cert \in StoreCerts
    BY <1>5, <1>8, <1>9
  <2>2. items'[k] = Answerer(its[k], Expired(k))
    BY <1>2, <1>8, <1>9
  <2>3. Expired(k) \in BOOLEAN
    BY DEF ValidAt
  <2> HIDE DEF Expired
  <2>4. /\ items'[k] \in ChainItems
        /\ ~items'[k].built /\ items'[k].type = "NONE" /\ items'[k].expired = Expired(k)
        /\ items'[k].cert = its[k].cert /\ items'[k].sound = its[k].sound
        /\ items'[k].crlIssuer = its[k].crlIssuer /\ items'[k].asked = its[k].asked
    BY <2>1, <2>2, <2>3, AnswererFields
  <2>5. its[k].sound /\ its[k].asked = <<>> /\ its[k].crlIssuer = NoCert
    <3> DEFINE c == its[k].cert
    <3>1. its[k] = NewItem(c)
      BY <2>1
    <3> HIDE DEF c
    <3>2. NewItem(c).sound /\ NewItem(c).asked = <<>> /\ NewItem(c).crlIssuer = NoCert
      BY NewItemFields
    <3> QED
      BY <3>1, <3>2
  <2> QED
    BY <1>7, <2>1, <2>4, <2>5 DEF Expired
<1>10. \A k \in DOMAIN items' : items'[k] \in ChainItems /\ items'[k].cert = its[k].cert
  BY <1>1, <1>5, <1>8, <1>9
<1>11. items' \in Seq(ChainItems) /\ OnceEach(items')
  <2>1. DOMAIN its = 1 .. Len(its) /\ Len(its) \in Nat
    BY <1>5
  <2>2. items' = [k \in 1 .. Len(its) |-> items'[k]]
    BY <1>2, <2>1
  <2> QED
    BY <1>5, <1>8, <1>10, <2>1, <2>2 DEF OnceEach
<1> HIDE DEF Expired
<1>12. options.validationType = "FULL" /\ options.validationType # "CHAIN"
  BY <1>1, <1>2 DEF Progress
<1>13. AskedInOrder'
  <2>1. Order' = Order /\ InTurn' = InTurn /\ \A c : AnsweredIn(c)' = AnsweredIn(c)
    BY <1>2, FormatStays
  <2>2. ASSUME NEW k \in DOMAIN items PROVE Validated(k) /\ items'[k] = items[k]
    <3>1. k < i
      BY <1>1, <1>2 DEF TypeOK
    <3> QED
      BY <1>2, <1>8, <3>1 DEF Validated
  <2>3. ASSUME NEW k \in DOMAIN items
        PROVE  /\ items'[k].asked \in InTurn
               /\ items'[k].asked # <<>> => ~items'[k].expired /\ items'[k].type # "NONE"
               /\ AnsweredIn(items'[k].cert) => items'[k].asked = <<>> /\ items'[k].type # "UNDEFINED"
               /\ items'[k].type = "UNDEFINED" /\ ~items'[k].expired => items'[k].asked = Order
               /\ items'[k].built /\ ~items'[k].cert.selfSigned /\ items'[k].type = "NONE" => FALSE
               /\ items'[k].type = "UNDEFINED" /\ items'[k].asked \notin {<<>>, <<"OCSP">>} =>
                    items'[k].cert.authorityKeyId \in expectedCrls' \cup DamagedCrls \cup expectedCerts'
               /\ (items'[k].sound \/ DamagedCrls # {})
               /\ items'[k].expired = ~ValidAt(items'[k].cert, info.best)
    BY <1>1, <1>2, <1>12, <2>2 DEF AskedInOrder
  <2>4. ASSUME NEW k \in DOMAIN items' \ DOMAIN items
        PROVE  /\ items'[k].asked = <<>> /\ <<>> \in InTurn /\ items'[k].type = "NONE" /\ ~items'[k].built
               /\ items'[k].sound /\ items'[k].expired = ~ValidAt(items'[k].cert, info.best)
    BY <1>9 DEF InTurn
  <2> QED
    BY <1>2, <1>8, <1>12, <2>1, <2>3, <2>4 DEF AskedInOrder
<1>14. GoneThrough'
  <2>1. \A k \in DOMAIN items' : ~(k < i')
    BY <1>2, <1>5, <1>8
  <2> QED
    BY <1>2, <2>1 DEF GoneThrough
<1>15. ocsp' \in Seq(Certificates) /\ \A c \in Range(ocsp') : c \in StoreCerts'
  BY <1>1, <1>2, <1>7 DEF Known
<1>16. \A k \in DOMAIN items' : items'[k].crlIssuer \in StoreCerts' \cup {NoCert}
  BY <1>1, <1>7, <1>8, <1>9 DEF Known
<1>17. m_StatusSign' \in [DamagedCrls -> {"UNDEFINED", "INVALID"}] /\ i' \in Nat \ {0}
  BY <1>1, <1>2 DEF TypeOK
<1> QED
  BY <1>2, <1>6, <1>8, <1>9, <1>11, <1>13, <1>14, <1>15, <1>16, <1>17, ItemsStep

-----------------------------------------------------------------------------
(* The status that is reported *)

LEMMA StatusStep ==
  ASSUME IInv, pc \in {"status", "status_valid"}, pc' \in {"status", "status_valid", "idle"},
         UNCHANGED <<shared, request, lists, expected>>,
         NEW s \in {"TOTAL_VALID", "INDETERMINATE", "TOTAL_FAILED"},
         info' = [info EXCEPT !.status = s], s = "TOTAL_VALID" => info.status = "TOTAL_VALID",
         i' \in Nat \ {0}, pc' = "status_valid" => i' \in DOMAIN items /\ s # "TOTAL_FAILED",
         GoneThrough'
  PROVE  IInv'
<1>1. /\ TypeOK /\ Progress /\ Known /\ Seen /\ Collected /\ ChainsThere /\ AskedInOrder /\ Settled
      /\ info \in Infos /\ store \in Seq(Items)
  BY DEF IInv, TypeOK
<1>2. UNCHANGED <<store, m_StatusSign, verifying, sig, options, tsp, ocsp, items, expectedCerts, expectedCrls>>
  BY DEF shared, request, lists, expected
<1>3. /\ info' \in Infos /\ info'.status = s /\ SameFindings /\ info'.best = info.best
      /\ info'.abort = info.abort /\ info'.format = info.format /\ info'.cerSigner = info.cerSigner
  BY <1>1 DEF Infos, SameFindings, StampFields
<1>4. Grows(store, store') /\ Firm(store, store') /\ StoreCerts' = StoreCerts /\ SettledIn(store')
  BY <1>1, <1>2, SameStoreKept, SettledIsIn
<1>5. /\ info.abort = "none" /\ info.status # "UNDEFINED" /\ info.format \in Formats
      /\ \E r \in Requests : sig = r.sig /\ options = r.options
  BY <1>1 DEF Progress, Checking
<1>6. TypeOK'
  BY <1>1, <1>2, <1>3 DEF TypeOK, Validating
<1>7. Progress'
  BY <1>2, <1>3, <1>5 DEF Progress, Checking
<1>8. Known'
  BY <1>1, <1>2, <1>3, <1>4 DEF Known
<1>9. Seen'
  BY <1>1, <1>2, <1>3, <1>4, <1>5, SeenStays DEF Checking
<1>10. Collected'
  BY <1>1, <1>2, <1>3, CollectedStays
<1>11. ChainsThere'
  <2>1. pc \in Validating
    BY DEF Validating
  <2> QED
    BY <1>1, <1>2, <1>3, <2>1 DEF ChainsThere, Cert
<1>12. AskedInOrder'
  <2>1. Order' = Order /\ InTurn' = InTurn /\ \A c : AnsweredIn(c)' = AnsweredIn(c)
    BY <1>2, <1>3, FormatStays
  <2>2. \A k \in DOMAIN items : Validated(k)
    BY DEF Validated
  <2> QED
    BY <1>1, <1>2, <1>3, <2>1, <2>2 DEF AskedInOrder
<1>13. Settled'
  BY <1>1, <1>2, <1>4, SettledStays
<1> QED
  BY <1>6, <1>7, <1>8, <1>9, <1>10, <1>11, <1>12, <1>13 DEF IInv

(* A certificate whose status is VALID has been signed by its issuer. *)
LEMMA ValidIsSound ==
  ASSUME TypeOK, Settled, NEW c \in StoreCerts, StatusOf(store, c) = "VALID"
  PROVE  c.sound
<1> DEFINE n == IndexOf(store, c.id)
<1>1. PICK m \in DOMAIN store : store[m].cert = c
  BY DEF StoreCerts
<1>2. n \in DOMAIN store /\ store[n].cert = c
  BY <1>1, CertFound DEF TypeOK
<1>3. store[n].status = "VALID"
  BY DEF StatusOf
<1> HIDE DEF n
<1>4. PICK d \in Certificates : store[n].status = SignatureOf(c, d)
  BY <1>2, <1>3 DEF Settled, Open
<1> QED
  BY <1>3, <1>4 DEF SignatureOf

(* What SetStatus makes of the invariant: an item that lets TOTAL-VALID    *)
(* pass is justified.                                                      *)
LEMMA SetStatusStep ==
  ASSUME IInv, pc \in {"status", "status_valid"}, i \in DOMAIN items,
         UNCHANGED <<shared, request, lists, expected>>,
         NEW status \in {"TOTAL_VALID", "INDETERMINATE", "TOTAL_FAILED"}, SetStatus(status),
         status = "TOTAL_VALID" /\ ~Current.expired => info.status = "TOTAL_VALID" /\ Justified(items[i])
  PROVE  IInv'
<1> DEFINE s == IF Current.expired THEN "TOTAL_FAILED" ELSE status
<1>1. TypeOK /\ GoneThrough
  BY DEF IInv
<1>2. info' = [info EXCEPT !.status = s] /\ s \in {"TOTAL_VALID", "INDETERMINATE", "TOTAL_FAILED"}
  BY DEF SetStatus
<1>3. /\ s = "TOTAL_FAILED" => pc' = "idle" /\ i' = i
      /\ s # "TOTAL_FAILED" => pc' = "status" /\ i' = i + 1
  BY DEF SetStatus
<1>4. s = "TOTAL_VALID" => info.status = "TOTAL_VALID" /\ Justified(items[i])
  OBVIOUS
<1> HIDE DEF s
<1>5. i \in Nat /\ i' \in Nat \ {0} /\ pc' \in {"status", "idle"}
  BY <1>1, <1>3 DEF TypeOK
<1>6. info'.status = s
  BY <1>1, <1>2 DEF TypeOK, Infos
<1>7. UNCHANGED <<items, options>>
  BY DEF lists, request
<1>8. ASSUME s = "TOTAL_VALID", NEW k \in DOMAIN items, k < i' PROVE Justified(items[k])
  <2>1. k = i \/ k < i
    <3>1. k \in Nat /\ i' = i + 1
      BY <1>1, <1>3, <1>8 DEF TypeOK
    <3> QED
      BY <1>5, <1>8, <3>1
  <2>2. CASE k = i
    BY <1>4, <1>8, <2>2
  <2>3. CASE k < i
    BY <1>1, <1>4, <1>8, <2>3 DEF GoneThrough
  <2> QED
    BY <2>1, <2>2, <2>3
<1>9. GoneThrough'
  BY <1>3, <1>5, <1>6, <1>7, <1>8 DEF GoneThrough, Justified
<1> QED
  BY <1>2, <1>4, <1>5, <1>9, StatusStep

LEMMA ReadStatusStep ==
  ASSUME IInv, ReadStatus
  PROVE  IInv'
<1>1. TypeOK /\ Progress /\ Known /\ Settled /\ GoneThrough /\ info \in Infos
  BY DEF IInv, TypeOK
<1>2. /\ pc = "status" /\ info.status # "TOTAL_FAILED" /\ i <= Len(items)
      /\ UNCHANGED <<shared, request, lists, expected>>
  BY DEF ReadStatus
<1>3. i \in DOMAIN items /\ i \in Nat \ {0} /\ Current = items[i] /\ Current.cert \in StoreCerts
  <2>1. i \in DOMAIN items /\ i \in Nat \ {0}
    BY <1>1, <1>2 DEF TypeOK
  <2> QED
    BY <1>1, <2>1 DEF Current, Known
<1>4. info.status \in {"TOTAL_VALID", "INDETERMINATE"}
  BY <1>1, <1>2 DEF Progress, Checking, Infos
<1>5. CASE StatusOf(store, Current.cert) = "VALID"
  <2>1. pc' = "status_valid" /\ UNCHANGED <<info, i>>
    BY <1>5 DEF ReadStatus
  <2>2. UNCHANGED <<store, items, options>>
    BY <1>2 DEF shared, lists, request
  <2>3. Current.cert.sound
    BY <1>1, <1>3, <1>5, ValidIsSound
  <2>4. GoneThrough'
    BY <1>1, <1>2, <1>3, <1>5, <2>1, <2>2, <2>3 DEF GoneThrough, Justified
  <2>5. info' = [info EXCEPT !.status = info.status]
    BY <1>1, <2>1 DEF Infos
  <2> QED
    BY <1>2, <1>3, <1>4, <2>1, <2>4, <2>5, StatusStep
<1>6. CASE StatusOf(store, Current.cert) # "VALID"
  <2>1. SetStatus(setIndeterminate) \/ SetStatus("TOTAL_FAILED")
    BY <1>6 DEF ReadStatus
  <2>2. setIndeterminate \in {"INDETERMINATE", "TOTAL_FAILED"}
    BY <1>4 DEF setIndeterminate
  <2>3. CASE SetStatus(setIndeterminate)
    BY <1>2, <1>3, <2>2, <2>3, SetStatusStep
  <2>4. CASE SetStatus("TOTAL_FAILED")
    BY <1>2, <1>3, <2>4, SetStatusStep
  <2> QED
    BY <2>1, <2>3, <2>4
<1> QED
  BY <1>5, <1>6

LEMMA ChainItemStep ==
  ASSUME IInv, setByCertChainItem
  PROVE  IInv'
<1> DEFINE status == IF StatusOf(store, Current.cert) # "VALID" \/ Current.type = "NONE" THEN info.status
                     ELSE IF Current.type = "UNDEFINED" \/ Current.certStatus = "UNDEFINED" THEN setIndeterminate
                     ELSE IF Current.certStatus = "GOOD" THEN info.status ELSE "TOTAL_FAILED"
<1>1. TypeOK /\ Progress /\ AskedInOrder /\ GoneThrough /\ info \in Infos
  BY DEF IInv, TypeOK
<1>2. pc = "status_valid" /\ SetStatus(status) /\ UNCHANGED <<shared, request, lists, expected>>
  BY DEF setByCertChainItem
<1>3. i \in DOMAIN items /\ Current = items[i] /\ info.status \in {"TOTAL_VALID", "INDETERMINATE"}
  BY <1>1, <1>2 DEF Progress, Current, Checking, Infos
<1>4. status \in {"TOTAL_VALID", "INDETERMINATE", "TOTAL_FAILED"}
  BY <1>3 DEF setIndeterminate
<1>5. status = "TOTAL_VALID" =>
        /\ info.status = "TOTAL_VALID"
        /\ StatusOf(store, Current.cert) # "VALID" \/ Current.type = "NONE" \/ Current.certStatus = "GOOD"
  BY <1>3 DEF setIndeterminate
<1> HIDE DEF status
<1>6. ASSUME status = "TOTAL_VALID", ~Current.expired PROVE Justified(items[i])
  <2>1. /\ items[i].cert.sound
        /\ RootsReverified /\ ~items[i].cert.selfSigned => StatusOf(store, items[i].cert) = "VALID"
    BY <1>1, <1>2 DEF GoneThrough
  <2>2. items[i].built /\ ~items[i].cert.selfSigned /\ items[i].type = "NONE" => options.validationType = "CHAIN"
    BY <1>1, <1>3 DEF AskedInOrder
  <2> QED
    BY <1>3, <1>5, <1>6, <2>1, <2>2 DEF Justified
<1> QED
  BY <1>2, <1>3, <1>4, <1>5, <1>6, SetStatusStep

LEMMA EndStatusStep ==
  ASSUME IInv, EndStatus
  PROVE  IInv'
<1> DEFINE s == IF expectedCerts # {} \/ expectedCrls # {} THEN setIndeterminate ELSE info.status
<1>1. TypeOK /\ Progress /\ GoneThrough /\ info \in Infos
  BY DEF IInv, TypeOK
<1>2. /\ pc = "status" /\ (info.status = "TOTAL_FAILED" \/ i > Len(items)) /\ pc' = "idle"
      /\ info' = [info EXCEPT !.status = s]
      /\ UNCHANGED <<shared, request, lists, i, expected>>
  BY DEF EndStatus
<1>3. info.status \in {"TOTAL_VALID", "INDETERMINATE", "TOTAL_FAILED"}
  BY <1>1, <1>2 DEF Progress, Checking, Infos
<1>4. s \in {"TOTAL_VALID", "INDETERMINATE", "TOTAL_FAILED"}
      /\ (s = "TOTAL_VALID" => info.status = "TOTAL_VALID" /\ expectedCerts = {} /\ expectedCrls = {})
  BY <1>3 DEF setIndeterminate
<1> HIDE DEF s
<1>5. info'.status = s /\ UNCHANGED <<items, options, expectedCerts, expectedCrls>>
  BY <1>1, <1>2 DEF Infos, lists, request, expected
<1>6. ASSUME s = "TOTAL_VALID", NEW k \in DOMAIN items PROVE Justified(items[k])
  <2>1. k < i
    BY <1>1, <1>2, <1>4, <1>6 DEF TypeOK
  <2> QED
    BY <1>1, <1>2, <1>4, <1>6, <2>1 DEF GoneThrough
<1>7. GoneThrough'
  BY <1>2, <1>4, <1>5, <1>6 DEF GoneThrough, Justified
<1>8. i' \in Nat \ {0}
  BY <1>1, <1>2 DEF TypeOK
<1> QED
  BY <1>2, <1>4, <1>7, <1>8, StatusStep

-----------------------------------------------------------------------------
(* The theorems *)

LEMMA StutterStep ==
  ASSUME IInv, UNCHANGED vars
  PROVE  IInv'
<1>1. Grows(store, store') /\ Firm(store, store')
  BY SameStoreKept DEF IInv, vars, shared
<1>2. UNCHANGED <<m_StatusSign, verifying, private>> /\ store' = store
  BY DEF vars, shared, private
<1>3. SettledIn(store')
  BY <1>2, SettledIsIn DEF IInv
<1> QED
  BY <1>1, <1>2, <1>3, FirmStep

LEMMA InvStep ==
  ASSUME IInv, [Next]_vars
  PROVE  IInv'
<1>1. ASSUME NEW r \in Requests, Begin(r.sig, r.options) PROVE IInv'
  BY <1>1, BeginStep
<1>2. CASE verifySignedAttribute
  BY <1>2, SignedAttributeStep
<1>3. CASE VerifyDigests
  BY <1>3, VerifyDigestsStep
<1>4. CASE verifyContentTimeStamp
  BY <1>4, ContentTimeStampStep
<1>5. CASE verifySignatureTimeStamp
  BY <1>5, SignatureTimeStampStep
<1>6. CASE verifyCertificateRefs
  BY <1>6, CertificateRefsStep
<1>7. CASE verifyArchiveTimeStamp
  BY <1>7, ArchiveTimeStampStep
<1>8. CASE validateSignFormat
  BY <1>8, SignFormatStep
<1>9. CASE buildCertChain
  BY <1>9, BuildChainStep
<1>10. CASE BeginValidation
  BY <1>10, BeginValidationStep
<1>11. CASE validate_by_ocsp
  BY <1>11, OcspStep
<1>12. CASE validate_by_crl
  BY <1>12, CrlStep
<1>13. CASE NextItem
  BY <1>13, NextItemStep
<1>14. CASE AddAnswerers
  BY <1>14, AddAnswerersStep
<1>15. CASE ReadStatus
  BY <1>15, ReadStatusStep
<1>16. CASE setByCertChainItem
  BY <1>16, ChainItemStep
<1>17. CASE EndStatus
  BY <1>17, EndStatusStep
<1>18. CASE ADD_CERT
  BY <1>18, AddCertStep
<1>19. CASE VERIFY_CERT
  BY <1>19, VerifyCertStep
<1>20. CASE SignVerifies
  BY <1>20, SignVerifiesStep
<1>21. CASE SignVerified
  BY <1>21, SignVerifiedStep
<1>22. CASE UNCHANGED vars
  BY <1>22, StutterStep
<1> QED
  BY <1>1, <1>2, <1>3, <1>4, <1>5, <1>6, <1>7, <1>8, <1>9, <1>10, <1>11, <1>12, <1>13, <1>14, <1>15, <1>16,
     <1>17, <1>18, <1>19, <1>20, <1>21, <1>22 DEF Next, verify_p7s

(* The invariant holds throughout: the types of everything that the calls  *)
(* and the other methods touch, and what each step has to know of those    *)
(* before it.                                                              *)
THEOREM InvariantHolds == Spec => []IInv
<1>1. Init => IInv
  BY InvInit
<1>2. IInv /\ [Next]_vars => IInv'
  BY InvStep
<1> QED
  BY <1>1, <1>2, PTL DEF Spec

(* What was asked so far of an order of sources. *)
LEMMA PrefixOfOrder ==
  ASSUME NEW S, NEW a \in S, NEW b \in S
  PROVE  /\ \A t \in Seq(S) : IsPrefix(<<>>, t) /\ IsPrefix(t, t)
         /\ <<a>> \in Seq(S) /\ <<a, b>> \in Seq(S)
         /\ IsPrefix(<<a>>, <<a, b>>)
<1>1. ASSUME NEW t \in Seq(S) PROVE IsPrefix(<<>>, t)
  <2>1. Len(<<>>) = 0 /\ Len(<<>>) <= Len(t)
    OBVIOUS
  <2>2. SubSeq(<<>>, 1, 0) = <<>> /\ SubSeq(t, 1, 0) = <<>>
    OBVIOUS
  <2> QED
    BY <2>1, <2>2 DEF IsPrefix
<1>2. ASSUME NEW t \in Seq(S) PROVE IsPrefix(t, t)
  BY DEF IsPrefix
<1>3. <<a>> \in Seq(S) /\ <<a, b>> \in Seq(S)
  OBVIOUS
<1>4. IsPrefix(<<a>>, <<a, b>>)
  <2> DEFINE one == <<a>>
             two == <<a, b>>
  <2>1. one \in Seq(S) /\ Len(one) = 1 /\ one[1] = a
    OBVIOUS
  <2>2. two \in Seq(S) /\ Len(two) = 2 /\ two[1] = a
    OBVIOUS
  <2> HIDE DEF one, two
  <2>3. SubSeq(one, 1, 1) \in Seq(S) /\ Len(SubSeq(one, 1, 1)) = 1 /\ SubSeq(one, 1, 1)[1] = a
    BY <2>1, SubSeqProperties
  <2>4. SubSeq(two, 1, 1) \in Seq(S) /\ Len(SubSeq(two, 1, 1)) = 1 /\ SubSeq(two, 1, 1)[1] = a
    BY <2>2, SubSeqProperties
  <2> DEFINE s == SubSeq(one, 1, 1)
             t == SubSeq(two, 1, 1)
  <2> HIDE DEF s, t
  <2>5. \A k \in 1 .. Len(s) : s[k] = t[k]
    BY <2>3, <2>4 DEF s, t
  <2>6. s = t
    BY <2>3, <2>4, <2>5, SeqEqual DEF s, t
  <2>7. IsPrefix(one, two)
    BY <2>1, <2>2, <2>6 DEF IsPrefix, s, t
  <2> QED
    BY <2>7 DEF one, two
<1> QED
  BY <1>1, <1>2, <1>3, <1>4

LEMMA AskedIsPrefix ==
  ASSUME NEW asked \in InTurn
  PROVE  IsPrefix(asked, Order)
<1> DEFINE S == {"OCSP", "CRL"}
<1>1. "OCSP" \in S /\ "CRL" \in S
  OBVIOUS
<1> HIDE DEF S
<1>2. /\ \A t \in Seq(S) : IsPrefix(<<>>, t) /\ IsPrefix(t, t)
      /\ \A a, b \in S : <<a>> \in Seq(S) /\ <<a, b>> \in Seq(S) /\ IsPrefix(<<a>>, <<a, b>>)
  BY <1>1, PrefixOfOrder
<1>3. Order \in Seq(S)
  BY <1>1, <1>2 DEF Order
<1>4. CASE asked = <<>> \/ asked = Order
  BY <1>2, <1>3, <1>4
<1>5. CASE ~options.onlyCrl /\ asked = IF OcspFirst THEN <<"OCSP">> ELSE <<"CRL">>
  <2>1. Order = IF OcspFirst THEN <<"OCSP", "CRL">> ELSE <<"CRL", "OCSP">>
    BY <1>5 DEF Order
  <2> QED
    BY <1>1, <1>2, <1>5, <2>1
<1> QED
  BY <1>4, <1>5 DEF InTurn

(* For whatever requests: before a certificate of a validation FULL stays  *)
(* without status both sources were asked, in the order that the manual    *)
(* gives for the signature's format, and OCSP only where it is allowed; no *)
(* source is asked for what the signature carries an answer for.           *)
THEOREM SourcesAreTried == Spec => []SourcesTried
<1>1. IInv => SourcesTried
  <2> SUFFICES ASSUME IInv, Done("FULL"), NEW k \in DOMAIN items
               PROVE  LET it == items[k]
                          order == IF options.onlyCrl THEN <<"CRL">>
                                   ELSE IF AtLeastC THEN <<"CRL", "OCSP">> ELSE <<"OCSP", "CRL">>
                      IN /\ IsPrefix(it.asked, order)
                         /\ it.type = "UNDEFINED" /\ ~it.expired => it.asked = order
                         /\ EmbedsStatus /\ (\E v \in Range(sig.ocspVals) : v.cert = it.cert.id) => it.asked = <<>>
    BY DEF SourcesTried, Range
  <2> DEFINE order == IF options.onlyCrl THEN <<"CRL">>
                      ELSE IF AtLeastC THEN <<"CRL", "OCSP">> ELSE <<"OCSP", "CRL">>
  <2>1. AskedInOrder /\ Progress /\ pc = "idle" /\ options.validationType = "FULL"
    BY DEF IInv, Done
  <2>2. info.format \in Formats
    BY <2>1 DEF Progress, Done
  <2>3. OcspFirst = ~AtLeastC
    BY <2>2 DEF OcspFirst, AtLeastC, Formats
  <2>4. order = Order
    BY <2>3 DEF Order
  <2>5. items[k].type = "UNDEFINED" /\ ~items[k].expired => items[k].asked = Order
    BY <2>1 DEF AskedInOrder, Validated
  <2>6. AnsweredIn(items[k].cert) => items[k].asked = <<>>
    BY <2>1 DEF AskedInOrder
  <2>7. IsPrefix(items[k].asked, Order)
    <3>1. items[k].asked \in InTurn
      BY <2>1 DEF AskedInOrder
    <3> QED
      BY <3>1, AskedIsPrefix
  <2> QED
    BY <2>4, <2>5, <2>6, <2>7 DEF AnsweredIn
<1> QED
  BY <1>1, InvariantHolds, PTL

(* For whatever requests: what a call lacked is named to the caller.       *)
THEOREM MissingIsListed == Spec => []MissingListed
<1>1. IInv => MissingListed
  <2> SUFFICES ASSUME IInv, pc = "idle", info.abort = "none", info.status # "UNDEFINED" PROVE MissingListed
    BY DEF MissingListed
  <2>1. Seen /\ ChainsThere /\ AskedInOrder
    BY DEF IInv
  <2>2. PresentTS \subseteq StampFields
    BY DEF PresentTS, StampFields
  <2>3. info.certRefs = "INDETERMINATE" /\ AtLeastC => expectedCerts \cap {r.id : r \in Range(sig.refs)} # {}
    BY <2>1 DEF Seen, Checking
  <2>4. ASSUME NEW k \in DOMAIN items, items[k].built, ~items[k].cert.selfSigned
        PROVE  \/ items[k].cert.authorityKeyId \in expectedCerts
               \/ /\ \E up \in Range(items) : up.cert.keyId = items[k].cert.authorityKeyId
                  /\ items[k].type = "UNDEFINED" /\ items[k].asked # <<>> =>
                       items[k].cert.authorityKeyId \in expectedCrls \cup DamagedCrls
    <3>1. \/ items[k].cert.authorityKeyId \in expectedCerts
          \/ \E up \in Range(items) : up.cert.keyId = items[k].cert.authorityKeyId
      BY <2>1, <2>4 DEF ChainsThere, Range
    <3>2. ASSUME items[k].type = "UNDEFINED", items[k].asked # <<>>
          PROVE  items[k].cert.authorityKeyId \in expectedCrls \cup DamagedCrls \cup expectedCerts
      <4>1. items[k].asked = Order
        BY <2>1, <3>2 DEF AskedInOrder, Validated
      <4>2. Order # <<>> /\ Order # <<"OCSP">>
        BY SourceAsked DEF Order
      <4> QED
        BY <2>1, <3>2, <4>1, <4>2 DEF AskedInOrder
    <3> QED
      BY <3>1, <3>2
  <2> QED
    BY <2>1, <2>2, <2>3, <2>4 DEF MissingListed, Seen, Range
<1> QED
  BY <1>1, InvariantHolds, PTL

(* Whatever the calls before found out or could not: every certificate     *)
(* below another one of the chains is verified once a call is over, as     *)
(* long as the certificates of a key agree on whether it may sign.         *)
THEOREM ChainIsVerified ==
  ASSUME KeysAgree
  PROVE  Spec => []ChainVerified
<1>1. IInv => ChainVerified
  <2> SUFFICES ASSUME IInv, verifying = NoCert, NEW j \in DOMAIN items, NEW k \in DOMAIN items,
                      items[k].built, items[j].built, items[j].cert.keyId = items[k].cert.authorityKeyId,
                      ~items[k].cert.selfSigned
               PROVE  StatusOf(store, items[k].cert) = SignatureOf(items[k].cert, items[j].cert)
    BY DEF ChainVerified, Range
  <2> DEFINE c == items[k].cert
             n == IndexOf(store, c.id)
  <2>1. TypeOK /\ Known /\ Settled /\ store \in Seq(Items) /\ items \in Seq(ChainItems)
    BY DEF IInv, TypeOK
  <2>2. c \in Certificates /\ items[j].cert \in Certificates
    <3>1. items[k] \in ChainItems /\ items[j] \in ChainItems
      BY <2>1
    <3> QED
      BY <3>1 DEF ChainItems
  <2>3. PICK m \in DOMAIN store : store[m].cert = c
    BY <2>1 DEF Known, StoreCerts
  <2>4. n \in DOMAIN store /\ store[n].cert = c
    BY <2>1, <2>3, CertFound
  <2>5. store[n].status \notin Open
    <3>1. StatusOf(store, c) \notin Open \/ verifying = c.id
      BY <2>1 DEF Settled
    <3> QED
      BY <2>2, <3>1, CertificatesAssumption DEF StatusOf
  <2> HIDE DEF n
  <2>6. PICK d \in Certificates : Issues(d, c) /\ store[n].status = SignatureOf(c, d)
    BY <2>1, <2>4, <2>5 DEF Settled
  <2>7. Issues(items[j].cert, c)
    BY DEF Issues
  <2>8. SignatureOf(c, d) = SignatureOf(c, items[j].cert)
    BY <2>2, <2>6, <2>7, SameSignature
  <2> QED
    BY <2>6, <2>8 DEF StatusOf, n
<1> QED
  BY <1>1, InvariantHolds, PTL

(* TOTAL-VALID but for what the sources said: everything signed is as      *)
(* signed and nothing lacks; the chains reach a root, were signed by those *)
(* above and were valid at the best time.                                  *)
TotalValidSeen ==
  LET Built == {it \in Range(items) : it.built} IN
  pc = "idle" /\ info.status = "TOTAL_VALID" =>
    /\ sig.sound /\ sig.digest = "match" /\ sig.ess # "differs"
    /\ \A f \in PresentTS : sig[f].sound /\ sig[f].digest = "match"
    /\ AtLeastC => \A k \in DOMAIN sig.refs : sig.refs[k].match
    /\ Present(sig.signatureTS) => info.best = sig.signatureTS.genTime
    /\ expectedCerts = {} /\ expectedCrls = {}
    /\ options.validationType # "STRUCT" =>
         /\ \E it \in Built : it.cert.id = sig.sid \/ it.cert.keyId = sig.sid
         /\ \A f \in PresentTS : \E it \in Built : it.cert.id = sig[f].tsp
         /\ \A it \in Range(items) : it.cert.sound /\ ValidAt(it.cert, info.best)
         /\ \A it \in Built : it.cert.selfSigned \/ \E up \in Built : up.cert.keyId = it.cert.authorityKeyId

LEMMA InvariantSees == IInv => TotalValidSeen
<1> DEFINE Built == {it \in Range(items) : it.built}
<1> SUFFICES ASSUME IInv, pc = "idle", info.status = "TOTAL_VALID" PROVE TotalValidSeen
  BY DEF TotalValidSeen
<1>1. Progress /\ Seen /\ Collected /\ ChainsThere /\ AskedInOrder /\ GoneThrough
  BY DEF IInv
<1>2. expectedCerts = {} /\ expectedCrls = {} /\ \A k \in DOMAIN items : Justified(items[k])
  BY <1>1 DEF GoneThrough
<1>3. info.signature = "VALID" /\ info.digest = "VALID" /\ info.cerSigner # 0
  BY <1>1 DEF Collected, Seen
<1>4. sig.sound /\ sig.digest = "match" /\ sig.ess # "differs"
  BY <1>1, <1>3 DEF Collected, Seen
<1>5. ASSUME NEW f \in PresentTS
      PROVE  sig[f].sound /\ sig[f].digest = "match" /\ \E c \in Range(tsp) : c.id = sig[f].tsp
  <2>1. info[f].signature = "VALID" /\ info[f].digest = "VALID"
    BY <1>1 DEF Collected
  <2>2. f \in StampFields
    BY DEF PresentTS, StampFields
  <2> QED
    BY <1>1, <2>1, <2>2 DEF Seen
<1>6. AtLeastC => \A k \in DOMAIN sig.refs : sig.refs[k].match
  <2>1. AtLeastC => info.certRefs = "VALID"
    BY <1>1 DEF Collected
  <2>2. info.abort = "none" /\ pc \notin Checking
    BY <1>1 DEF Progress, Checking
  <2> QED
    BY <1>1, <2>1, <2>2 DEF Seen
<1>7. Present(sig.signatureTS) => info.best = sig.signatureTS.genTime
  BY <1>1 DEF Collected
<1>8. ASSUME options.validationType # "STRUCT"
      PROVE  /\ \E it \in Built : it.cert.id = sig.sid \/ it.cert.keyId = sig.sid
             /\ \A f \in PresentTS : \E it \in Built : it.cert.id = sig[f].tsp
  <2>1. /\ \E k \in DOMAIN items : items[k].built /\ items[k].cert = Cert(info.cerSigner)
        /\ \A c \in Range(tsp) : \E k \in DOMAIN items : items[k].built /\ items[k].cert = c
    BY <1>1, <1>3, <1>8 DEF ChainsThere
  <2>2. Cert(info.cerSigner).id = sig.sid \/ Cert(info.cerSigner).keyId = sig.sid
    BY <1>1, <1>3 DEF Seen
  <2>3. \A k \in DOMAIN items : items[k].built => items[k] \in Built
    BY DEF Range
  <2> HIDE DEF Built
  <2>4. \E it \in Built : it.cert.id = sig.sid \/ it.cert.keyId = sig.sid
    BY <2>1, <2>2, <2>3
  <2>5. ASSUME NEW f \in PresentTS PROVE \E it \in Built : it.cert.id = sig[f].tsp
    <3>1. PICK c \in Range(tsp) : c.id = sig[f].tsp
      BY <1>5
    <3> QED
      BY <2>1, <2>3, <3>1
  <2> QED
    BY <2>4, <2>5
<1>9. \A it \in Range(items) : it.cert.sound /\ ValidAt(it.cert, info.best)
  <2>1. \A k \in DOMAIN items : items[k].expired = ~ValidAt(items[k].cert, info.best)
    BY <1>1 DEF AskedInOrder
  <2> QED
    BY <1>2, <2>1 DEF Justified, Range, ValidAt
<1>10. \A it \in Built : it.cert.selfSigned \/ \E up \in Built : up.cert.keyId = it.cert.authorityKeyId
  BY <1>1, <1>2 DEF ChainsThere, Range
<1> QED
  BY <1>2, <1>4, <1>5, <1>6, <1>7, <1>8, <1>9, <1>10 DEF TotalValidSeen

(* Without any assumption on the certificates, the CRLs or SIGN: behind a  *)
(* TOTAL-VALID are a signature, references and time-stamps as they were    *)
(* signed, and complete chains of sound certificates valid at that time.   *)
THEOREM TotalValidIsSeen == Spec => []TotalValidSeen
BY InvariantHolds, InvariantSees, PTL

(* TOTAL-VALID is justified in full, each certificate below a root called  *)
(* GOOD by a source in order, as long as no CRL is damaged and SIGN        *)
(* validates roots only; where either fails the code gives counterexamples *)
(* (a damaged CRL is believed the second time it is used; a status between *)
(* the two reads of setByCertChainItem hides the answer).                  *)
THEOREM TotalValidIsJustified ==
  ASSUME DamagedCrls = {}, RootsReverified
  PROVE  Spec => []TotalValidJustified
<1>1. IInv => TotalValidJustified
  <2> SUFFICES ASSUME IInv, pc = "idle", info.status = "TOTAL_VALID" PROVE TotalValidJustified
    BY DEF TotalValidJustified
  <2>1. TotalValidSeen
    BY InvariantSees
  <2>2. ASSUME options.validationType = "FULL", NEW k \in DOMAIN items, items[k].built, ~items[k].cert.selfSigned
        PROVE  items[k].certStatus = "GOOD" /\ items[k].sound
    <3>1. Justified(items[k])
      BY DEF IInv, GoneThrough
    <3>2. items[k].sound
      BY DEF IInv, AskedInOrder
    <3> QED
      BY <2>2, <3>1, <3>2 DEF Justified
  <2> QED
    BY <2>1, <2>2 DEF TotalValidJustified, TotalValidSeen, Range
<1> QED
  BY <1>1, InvariantHolds, PTL
=============================================================================
