----------------------------- MODULE CrlDownload -----------------------------
(***************************************************************************)
(* Calls that validate certificates by CRL at the same time (VERIFY,       *)
(* VERIFY_CERT, SIGN: CertValidator::validateByCrl and getCrl in           *)
(* library/uapki/src/cert-validator.cpp) and share the CRL cache, with the *)
(* mutexes they take: that of the certificate being validated, of the CRL  *)
(* store, of a CRL while a newer one is downloaded, the one of the first   *)
(* download, and that of the certificate store.  Beside them a call that   *)
(* adds a renewed certificate (CerStore::addCerts), which takes the last   *)
(* and the first of these the other way round.                             *)
(*                                                                         *)
(* There is one authority; its certificates name no delta CRL.  It issues  *)
(* a CRL at every instant of time, with the instant as its crlNumber and   *)
(* as its nextUpdate.  A call is made once.                                *)
(***************************************************************************)
EXTENDS Naturals, Sequences, FiniteSets, FiniteSetsExt, Functions

CONSTANTS
  Calls,     (* The calls.                                     *)
  NoCall,    (* Stands for nobody holding a mutex.             *)
  Certs,     (* The certificates being validated.              *)
  MaxTime    (* Bound: the last instant.                       *)

ASSUME CallsAssumption == NoCall \notin Calls /\ MaxTime \in Nat \ {0}

VARIABLES
  now,           (* The time.                                                  *)
  items,         (* CrlStore::m_Items: the numbers of the CRLs, as added.      *)
  actuality,     (* CrlItem::m_Actuality of each.                              *)
  owner,         (* Who holds each mutex.                                      *)
  pc,            (* Where each call is.                                        *)
  cerSubject,    (* The certificate it is about.                               *)
  validateTime,  (* The time it validates for.                                 *)
  crl_item,      (* The CRL it got from the store, 0 for nullptr.              *)
  marking,       (* In CrlStore::getCrl: the CRLs whose actuality is yet to be set. *)
  sba_crl,       (* The CRL it downloaded.                                     *)
  used,          (* The CRL it validated by, 0 before that or for an error.    *)
  seen           (* History: the newest CRL used by calls that ended before.   *)

downloadVars == <<now, items, actuality, owner, pc, cerSubject, validateTime, crl_item,
          marking, sba_crl, used, seen>>
store == <<items, actuality>>
locals == <<cerSubject, validateTime, crl_item, marking, sba_crl, used, seen>>

Times == 1 .. MaxTime
Numbers == 0 .. MaxTime

Points == {"ready", "subject", "getCrl", "mark", "lock", "download", "add", "signer",
           "verify", "addCerts", "setUnique", "done"}

DownloadInit ==
  /\ now = 1
  /\ items \in {<<>>, <<1>>}
  /\ actuality = [n \in Times |-> "undefined"]
  /\ owner = [crlStore |-> NoCall, first |-> NoCall, cerStore |-> NoCall,
              cer |-> [s \in Certs |-> NoCall], crl |-> [n \in Times |-> NoCall]]
  /\ pc = [c \in Calls |-> "ready"]
  /\ cerSubject \in [Calls -> Certs]
  /\ validateTime = [c \in Calls |-> 0]
  /\ crl_item = [c \in Calls |-> 0]
  /\ marking = [c \in Calls |-> {}]
  /\ sba_crl = [c \in Calls |-> 0]
  /\ used = [c \in Calls |-> 0]
  /\ seen = [c \in Calls |-> 0]

Goto(c, from, to) ==
  /\ pc[c] = from
  /\ pc' = [pc EXCEPT ![c] = to]

Newest(S) == Max(S \cup {0})

(* The mutex getCrl locks while it looks at what it got and downloads. *)
DownloadMutex(c) == IF crl_item[c] = 0 THEN owner.first ELSE owner.crl[crl_item[c]]
WithDownloadMutex(c, who) ==
  IF crl_item[c] = 0 THEN [owner EXCEPT !.first = who] ELSE [owner EXCEPT !.crl[crl_item[c]] = who]

Tick ==
  /\ now < MaxTime
  /\ now' = now + 1
  /\ UNCHANGED <<store, owner, pc, locals>>

-----------------------------------------------------------------------------
(* validateByCrl: for the time of the call or an earlier one (that of a    *)
(* signature).                                                             *)

Begin(c) ==
  /\ Goto(c, "ready", "subject")
  /\ \E time \in 1 .. now : validateTime' = [validateTime EXCEPT ![c] = time]
  /\ seen' = [seen EXCEPT ![c] = Newest(Range(used))]
  /\ UNCHANGED <<now, store, owner, cerSubject, crl_item, marking, sba_crl, used>>

LockSubject(c) ==
  /\ owner.cer[cerSubject[c]] = NoCall
  /\ Goto(c, "subject", "getCrl")
  /\ owner' = [owner EXCEPT !.cer[cerSubject[c]] = c]
  /\ UNCHANGED <<now, store, locals>>

(* The destructors of the lock_guards of validateByCrl. *)
End(c, from, crl, mutexes) ==
  /\ Goto(c, from, "done")
  /\ owner' = [mutexes EXCEPT !.cer[cerSubject[c]] = NoCall]
  /\ used' = [used EXCEPT ![c] = crl]

-----------------------------------------------------------------------------
(* CrlStore::getCrl *)

Available == {n \in Range(items) : actuality[n] # "obsolete"}

(* The one of them that the store has had longest. *)
Foremost(crls) == items[Min({i \in DOMAIN items : items[i] \in crls})]

(* Mutant: the CRL added first is taken. *)
find_last_available_First(crls) == IF crls = {} THEN 0 ELSE Foremost(crls)

find_last_available(crls) == Newest(crls)

GetCrl(c) ==
  /\ owner.crlStore = NoCall
  /\ Goto(c, "getCrl", IF Available = {} THEN "lock" ELSE "mark")
  /\ owner' = IF Available = {} THEN owner ELSE [owner EXCEPT !.crlStore = c]
  /\ crl_item' = [crl_item EXCEPT ![c] = find_last_available(Available)]
  /\ marking' = [marking EXCEPT ![c] = Available]
  /\ UNCHANGED <<now, store, cerSubject, validateTime, sba_crl, used, seen>>

(* Mutant: the CRLs passed over keep their actuality. *)
SetActuality_LastOnly(c) ==
  /\ pc[c] = "mark"
  /\ LET n == Foremost(marking[c]) IN
     /\ owner.crl[n] = NoCall
     /\ actuality' = [actuality EXCEPT ![n] = IF n = crl_item[c] THEN "last" ELSE @]
  /\ marking' = [marking EXCEPT ![c] = @ \ {Foremost(@)}]
  /\ IF marking[c] # {Foremost(marking[c])}
     THEN UNCHANGED <<pc, owner>>
     ELSE /\ Goto(c, "mark", "lock")
          /\ owner' = [owner EXCEPT !.crlStore = NoCall]
  /\ UNCHANGED <<now, items, cerSubject, validateTime, crl_item, sba_crl, used, seen>>

(* CrlItem::setActuality of the next CRL, which locks its mutex; after the *)
(* last one the store is unlocked.                                         *)
SetActuality(c) ==
  /\ pc[c] = "mark"
  /\ LET n == Foremost(marking[c]) IN
     /\ owner.crl[n] = NoCall
     /\ actuality' = [actuality EXCEPT ![n] = IF n = crl_item[c] THEN "last" ELSE "obsolete"]
  /\ marking' = [marking EXCEPT ![c] = @ \ {Foremost(@)}]
  /\ IF marking[c] # {Foremost(marking[c])}
     THEN UNCHANGED <<pc, owner>>
     ELSE /\ Goto(c, "mark", "lock")
          /\ owner' = [owner EXCEPT !.crlStore = NoCall]
  /\ UNCHANGED <<now, items, cerSubject, validateTime, crl_item, sba_crl, used, seen>>

-----------------------------------------------------------------------------
(* CertValidator::getCrl *)

(* The CRL covers the time; its mutex is unlocked again at once. *)
TakeCached(c) ==
  /\ crl_item[c] # 0 /\ crl_item[c] >= validateTime[c]
  /\ DownloadMutex(c) = NoCall
  /\ Goto(c, "lock", "signer")
  /\ UNCHANGED <<now, store, owner, locals>>

LockDownload(c) ==
  /\ crl_item[c] < validateTime[c]
  /\ DownloadMutex(c) = NoCall
  /\ Goto(c, "lock", "download")
  /\ owner' = WithDownloadMutex(c, c)
  /\ UNCHANGED <<now, store, locals>>

(* HttpHelper::get of the current CRL, or of the previous one from a       *)
(* server that is late.                                                    *)
Download(c) ==
  /\ Goto(c, "download", "add")
  /\ \E n \in {now, now - 1} \ {0} : sba_crl' = [sba_crl EXCEPT ![c] = n]
  /\ UNCHANGED <<now, store, owner, cerSubject, validateTime, crl_item, marking, used, seen>>

(* Mutant: the error path leaves the mutex of the download locked. *)
DownloadFails_Locked(c) ==
  /\ End(c, "download", 0, owner)
  /\ UNCHANGED <<now, store, cerSubject, validateTime, crl_item, marking, sba_crl, seen>>

(* RET_UAPKI_CRL_NOT_DOWNLOADED, or the library is offline. *)
DownloadFails(c) ==
  /\ End(c, "download", 0, WithDownloadMutex(c, NoCall))
  /\ UNCHANGED <<now, store, cerSubject, validateTime, crl_item, marking, sba_crl, seen>>

addItem(n) == IF n \in Range(items) THEN items ELSE Append(items, n)

(* CrlStore::addCrl under the mutex of the store.  A CRL that has expired  *)
(* already is RET_UAPKI_CRL_EXPIRED.                                       *)
AddCrl(c) ==
  /\ owner.crlStore = NoCall
  /\ items' = addItem(sba_crl[c])
  /\ crl_item' = [crl_item EXCEPT ![c] = sba_crl[c]]
  /\ IF sba_crl[c] >= validateTime[c]
     THEN /\ Goto(c, "add", "signer")
          /\ owner' = WithDownloadMutex(c, NoCall)
          /\ UNCHANGED used
     ELSE End(c, "add", 0, WithDownloadMutex(c, NoCall))
  /\ UNCHANGED <<now, actuality, cerSubject, validateTime, marking, sba_crl, seen>>

(* CerStore::getCertByKeyId takes the mutex of the certificate store. *)
FindSigner(c) ==
  /\ owner.cerStore = NoCall
  /\ Goto(c, "signer", "verify")
  /\ UNCHANGED <<now, store, owner, locals>>

(* CrlItem::verify takes the mutex of the CRL. *)
VerifyCrl(c) ==
  /\ End(c, "verify", crl_item[c], owner)
  /\ owner.crl[crl_item[c]] = NoCall
  /\ UNCHANGED <<now, store, cerSubject, validateTime, crl_item, marking, sba_crl, seen>>

-----------------------------------------------------------------------------
(* CerStore::addCerts with a renewal of the certificate. *)

BeginAddCerts(c) ==
  /\ Goto(c, "ready", "addCerts")
  /\ UNCHANGED <<now, store, owner, locals>>

AddCerts(c) ==
  /\ owner.cerStore = NoCall
  /\ Goto(c, "addCerts", "setUnique")
  /\ owner' = [owner EXCEPT !.cerStore = c]
  /\ UNCHANGED <<now, store, locals>>

(* CerItem::setUniqueKeyId of the certificate there is. *)
SetUniqueKeyId(c) ==
  /\ owner.cer[cerSubject[c]] = NoCall
  /\ Goto(c, "setUnique", "done")
  /\ owner' = [owner EXCEPT !.cerStore = NoCall]
  /\ UNCHANGED <<now, store, locals>>

-----------------------------------------------------------------------------
validateByCrl(c) ==
  \/ LockSubject(c) \/ GetCrl(c) \/ SetActuality(c) \/ TakeCached(c) \/ LockDownload(c)
  \/ Download(c) \/ DownloadFails(c) \/ AddCrl(c) \/ FindSigner(c) \/ VerifyCrl(c)

addCerts(c) == AddCerts(c) \/ SetUniqueKeyId(c)

DownloadNext ==
  \/ Tick
  \/ \E c \in Calls : Begin(c) \/ BeginAddCerts(c) \/ validateByCrl(c) \/ addCerts(c)

(* A call that was made keeps running, a download ends. *)
DownloadSpec ==
  /\ DownloadInit /\ [][DownloadNext]_downloadVars
  /\ \A c \in Calls : WF_downloadVars(validateByCrl(c) \/ addCerts(c))

-----------------------------------------------------------------------------
DownloadTypeOK ==
  /\ now \in Times
  /\ items \in Seq(Times)
  /\ actuality \in [Times -> {"undefined", "last", "obsolete"}]
  /\ owner \in [crlStore : Calls \cup {NoCall}, first : Calls \cup {NoCall},
                cerStore : Calls \cup {NoCall}, cer : [Certs -> Calls \cup {NoCall}],
                crl : [Times -> Calls \cup {NoCall}]]
  /\ pc \in [Calls -> Points]
  /\ cerSubject \in [Calls -> Certs]
  /\ {validateTime, crl_item, sba_crl, used, seen} \subseteq [Calls -> Numbers]
  /\ marking \in [Calls -> SUBSET Times]

(* A validation never goes by an older CRL than one that ended before it   *)
(* began, whoever downloaded which meanwhile and however late the server.  *)
NeverOlder == \A c \in Calls : used[c] # 0 => used[c] >= seen[c]

(* While nobody is in the store at most one CRL is the last available one, *)
(* and what is obsolete is older than it.                                  *)
OneLastAvailable ==
  owner.crlStore = NoCall =>
    \A n, m \in Range(items) :
      actuality[n] = "last" /\ n # m => actuality[m] # "last" /\ (actuality[m] = "obsolete" => m < n)

(* Whatever calls interleave, the CRLs and the mutexes are in order.       *)
CrlsConsistent == DownloadTypeOK /\ OneLastAvailable

(* The mutexes that a call waits for. *)
WaitsFor(c) ==
  CASE pc[c] \in {"subject", "setUnique"} -> {owner.cer[cerSubject[c]]}
    [] pc[c] \in {"getCrl", "add"} -> {owner.crlStore}
    [] pc[c] = "mark" -> {owner.crl[Foremost(marking[c])]}
    [] pc[c] = "lock" -> {DownloadMutex(c)}
    [] pc[c] \in {"signer", "addCerts"} -> {owner.cerStore}
    [] pc[c] = "verify" -> {owner.crl[crl_item[c]]}
    [] OTHER -> {}

(* "The library supports multithreading": no validations wait for each     *)
(* other for ever.                                                         *)
NoDeadlock ==
  LET validations == {c \in Calls : pc[c] \notin {"addCerts", "setUnique"}} IN
  ~ \E S \in SUBSET validations : S # {} /\ \A c \in S : WaitsFor(c) \cap S # {}

(* Every call returns, unless a CRL that was in the cache is being         *)
(* refreshed or a renewed certificate is being added: the mutexes of the   *)
(* first download are taken in an order that cannot deadlock.              *)
Refreshing == \E n \in Times : owner.crl[n] # NoCall
Renewing == owner.cerStore # NoCall

FirstDownloadReturns ==
  [](~Refreshing /\ ~Renewing) => \A c \in Calls : pc[c] = "subject" ~> pc[c] = "done"
=============================================================================
