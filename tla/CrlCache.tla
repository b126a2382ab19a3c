------------------------------ MODULE CrlCache -------------------------------
(***************************************************************************)
(* The CRL cache: CrlStore (library/uapki/src/crl-store.cpp), the          *)
(* directory crlCache.path over many sessions, and the way                 *)
(* CertValidator::validateByCrl picks a full and a delta CRL from it or    *)
(* downloads them.                                                         *)
(*                                                                         *)
(* An operation is atomic here: module CrlDownload has the interleavings   *)
(* and mutexes of validateByCrl, module CertCache the failing file         *)
(* operations and the crashes between them, which are the same code here.  *)
(*                                                                         *)
(* A CRL is a record: id, aki (the authority), type, number (crlNumber),   *)
(* base (deltaCrlIndicator, 0 in a full CRL), thisUpdate, nextUpdate, and  *)
(* freshest (the URL of delta CRLs a full CRL names, or "none").  A        *)
(* subject, the certificate to validate, has aki and freshest.             *)
(***************************************************************************)
EXTENDS Naturals, FiniteSets, Functions

CONSTANTS
  Crls,       (* The CRLs.                                    *)
  NoCrl,      (* Stands for no CRL.                           *)
  Subjects,   (* The certificates to validate.                *)
  Times,      (* The times to validate for.                   *)
  UseDeltaCrl (* The parameter crlCache.useDeltaCrl of INIT.  *)

(* A name is generated from aki, type and crlNumber. *)
ASSUME CrlsAssumption ==
  /\ UseDeltaCrl \in BOOLEAN
  /\ IsFiniteSet(Crls) /\ NoCrl \notin Crls
  /\ \A c \in Crls : c.number \in Nat /\ c.thisUpdate \in Nat /\ c.nextUpdate \in Nat
  /\ \A c, d \in Crls : c.aki = d.aki /\ c.type = d.type /\ c.number = d.number => c = d

(* The order of m_Items decides nothing, because addItem sees to it that   *)
(* no two items have authority and number in common: it is a set here.     *)
VARIABLES
  initialized,   (* LibraryConfig::m_IsInitialized.                          *)
  items,         (* CrlStore::m_Items.                                       *)
  disk,          (* The files of the directory.                              *)
  saved          (* History: the CRLs saved, until REMOVE_CRL deletes them   *)
                 (* or one that has taken their place.                       *)

vars == <<initialized, items, disk, saved>>

Items == [crl : Crls, actuality : {"undefined", "last", "obsolete"}, file : {"generated", "none"}]
Files == [crl : Crls, name : {"generated", "other"}]

Init ==
  /\ initialized = FALSE
  /\ items = {}
  /\ disk \in SUBSET [crl : Crls, name : {"other"}]
  /\ saved = {}

-----------------------------------------------------------------------------
Item(c, file) == [crl |-> c, actuality |-> "undefined", file |-> file]

(* What addItem takes for the same CRL, a full CRL and a delta CRL even. *)
SameNumber(c, d) == c.aki = d.aki /\ c.number = d.number

There(its, c) == \E it \in its : SameNumber(it.crl, c)

addItem(its, it) == IF There(its, it.crl) THEN its ELSE its \cup {it}

(* removeObsolete keeps one item of each group, found by going through the *)
(* items: a full CRL's group is authority and freshest, a delta CRL's      *)
(* authority and base.                                                     *)
SameGroup(c, d) ==
  /\ c.type = d.type
  /\ c.aki = d.aki
  /\ IF c.type = "full" THEN c.freshest = d.freshest ELSE c.base = d.base

(* Mutant: the comparison the other way round. *)
Fresher_Reversed(c, d) == c.thisUpdate < d.thisUpdate

Fresher(c, d) == c.thisUpdate > d.thisUpdate

(* Of the files in the order of readdir those that become items: the other *)
(* ones are deleted. *)
Read(order) == {k \in DOMAIN order : \A j \in 1 .. k - 1 : ~SameNumber(order[j].crl, order[k].crl)}

(* An item is kept for a while if it is fresher than those before it... *)
Kept(order) ==
  {k \in Read(order) : \A j \in Read(order) :
     j < k /\ SameGroup(order[k].crl, order[j].crl) => Fresher(order[k].crl, order[j].crl)}

(* ... and for good if none after it is fresher. *)
Freshest(order) ==
  {k \in Kept(order) : \A j \in Read(order) :
     j > k /\ SameGroup(order[k].crl, order[j].crl) => ~Fresher(order[j].crl, order[k].crl)}

(* The full CRL of a delta CRL may be that of another authority. *)
HasFull(order, k) ==
  \E j \in Freshest(order) : order[j].crl.type = "full" /\ order[j].crl.number = order[k].crl.base

Remaining(order) == {k \in Freshest(order) : order[k].crl.type = "full" \/ HasFull(order, k)}

(* Of the others only those that were kept for a while are deleted from    *)
(* the directory.                                                          *)
Undeleted(order) == Read(order) \ (Kept(order) \ Remaining(order))

(* INIT: CrlStore::loadDir reads the directory, gives every file its       *)
(* generated name and calls removeObsolete.                                *)
uapki_init(order) ==
  /\ ~initialized
  /\ initialized' = TRUE
  /\ items' = {Item(order[k].crl, "generated") : k \in Remaining(order)}
  /\ disk' = [crl : {order[k].crl : k \in Undeleted(order)}, name : {"generated"}]
  /\ UNCHANGED saved

(* DEINIT, or the process ends. *)
uapki_deinit ==
  /\ initialized
  /\ initialized' = FALSE
  /\ items' = {}
  /\ UNCHANGED <<disk, saved>>

-----------------------------------------------------------------------------
(* CrlStore::addCrl of a CRL that is not there saves it if permanent. *)
Saved(its, c, permanent) == IF permanent /\ ~There(its, c) THEN {c} ELSE {}

addCrl(its, c, permanent) == addItem(its, Item(c, IF permanent THEN "generated" ELSE "none"))

SavedFiles(S) == [crl : S, name : {"generated"}]

uapki_add_crl(c, permanent) ==
  /\ initialized
  /\ items' = addCrl(items, c, permanent)
  /\ disk' = disk \cup SavedFiles(Saved(items, c, permanent))
  /\ saved' = saved \cup Saved(items, c, permanent)
  /\ UNCHANGED initialized

-----------------------------------------------------------------------------
(* The delta CRL's URL tells full CRLs of one authority apart, if both the *)
(* CRL and the certificate name one.                                       *)
check_uris_delta(type, fromCrl, fromCert) ==
  type = "full" /\ fromCrl # "none" /\ fromCert # "none" => fromCrl = fromCert

Matching(its, s, type) ==
  {it \in its : /\ it.crl.aki = s.aki
                /\ it.actuality # "obsolete"
                /\ it.crl.type = type
                /\ check_uris_delta(type, it.crl.freshest, s.freshest)}

(* The item with the greatest number. *)
find_last_available(match) ==
  CHOOSE it \in match : \A other \in match : other.crl.number <= it.crl.number

Marked(its, match) ==
  (its \ match) \cup
  {[it EXCEPT !.actuality = IF it = find_last_available(match) THEN "last" ELSE "obsolete"] : it \in match}

(* Mutant: the items of any series are marked. *)
SetActuality_All(its, s, type) == Marked(its, {it \in its : it.crl.aki = s.aki /\ it.crl.type = type})

(* The items after CrlStore::getCrl. *)
SetActuality(its, s, type) == Marked(its, Matching(its, s, type))

(* What the URLs in a certificate deliver; a download may fail. *)
Downloads(s, type) ==
  {NoCrl} \cup {c \in Crls : c.aki = s.aki /\ c.type = type /\ (type = "full" => c.freshest = s.freshest)}

(* The outcome of adding c: the item that was there, if there was one. *)
Downloaded(its, c, time) ==
  IF c = NoCrl THEN [items |-> its, crl |-> NoCrl, saves |-> {}]
  ELSE LET added == addCrl(its, c, TRUE)
           got == CHOOSE it \in added : SameNumber(it.crl, c)
       IN [items |-> added,
           crl |-> IF got.crl.nextUpdate >= time THEN got.crl ELSE NoCrl,
           saves |-> Saved(its, c, TRUE)]

(* CertValidator::getCrl: the outcomes it may have, by the item of the     *)
(* store if that covers the time, otherwise by what is downloaded.         *)
getCrl(its, s, type, time) ==
  LET match == Matching(its, s, type)
      cached == find_last_available(match).crl
      marked == SetActuality(its, s, type)
  IN IF match # {} /\ cached.nextUpdate >= time
     THEN {[items |-> marked, crl |-> cached, saves |-> {}]}
     ELSE {Downloaded(marked, c, time) : c \in Downloads(s, type)}

(* Mutant: the delta CRL is not compared with the full one. *)
DeltaFits_Always(full, delta) == TRUE

(* A full CRL has no deltaCrlIndicator: that is equal to no crlNumber. *)
DeltaFits(full, delta) == delta.type = "delta" /\ delta.base = full.number

(* The outcome of a validation by a full CRL, and with a delta CRL. *)
ByFull(full) == [items |-> full.items, full |-> full.crl, delta |-> NoCrl, saves |-> full.saves]

ByBoth(full, delta) ==
  LET fits == delta.crl # NoCrl /\ DeltaFits(full.crl, delta.crl) IN
  [items |-> delta.items, full |-> IF fits THEN full.crl ELSE NoCrl,
   delta |-> IF fits THEN delta.crl ELSE NoCrl, saves |-> full.saves \cup delta.saves]

(* Validation of a certificate by CRL: the full CRL, then the delta CRL if *)
(* the certificate names one and delta CRLs are used.                      *)
Validations(its, s, time) ==
  UNION {IF full.crl # NoCrl /\ UseDeltaCrl /\ s.freshest # "none"
         THEN {ByBoth(full, delta) : delta \in getCrl(full.items, s, "delta", time)}
         ELSE {ByFull(full)} : full \in getCrl(its, s, "full", time)}

validateByCrl(s, time) ==
  /\ initialized
  /\ \E validation \in Validations(items, s, time) :
       /\ items' = validation.items
       /\ disk' = disk \cup SavedFiles(validation.saves)
       /\ saved' = saved \cup validation.saves
  /\ UNCHANGED initialized

-----------------------------------------------------------------------------
(* What c stands for in the directory: the CRLs of its series up to it.    *)
NotFresher(c) == {d \in Crls : SameGroup(d, c) /\ ~Fresher(d, c)}

(* CrlStore::removeCrl: the item with the identifier (made of issuer and   *)
(* number), if one is given, and every obsolete one.                       *)
uapki_remove_crl(chosen, permanent) ==
  /\ initialized
  /\ LET gone == chosen \cup {it \in items : it.actuality = "obsolete"}
         files == {f \in disk : permanent /\ \E it \in gone : f.crl = it.crl /\ f.name = it.file}
     IN /\ items' = items \ gone
        /\ disk' = disk \ files
        /\ saved' = saved \ UNION {NotFresher(f.crl) : f \in files}
  /\ UNCHANGED initialized

Next ==
  \/ \E order \in Bijection(1 .. Cardinality(disk), disk) : uapki_init(order)
  \/ uapki_deinit
  \/ \E c \in Crls, permanent \in BOOLEAN : uapki_add_crl(c, permanent)
  \/ \E s \in Subjects, time \in Times : validateByCrl(s, time)
  \/ \E chosen \in {{}} \cup {{it} : it \in items}, permanent \in BOOLEAN : uapki_remove_crl(chosen, permanent)

Spec == Init /\ [][Next]_vars

-----------------------------------------------------------------------------
TypeOK ==
  /\ initialized \in BOOLEAN
  /\ items \subseteq Items
  /\ disk \subseteq Files
  /\ saved \subseteq Crls

(* No other CRL of the authority, full or delta, has the number.  The code *)
(* would take one for the other.                                           *)
OwnNumber(c) == \A d \in Crls : SameNumber(c, d) => c = d

(* A validation goes by CRLs of the certificate's authority, by a full one *)
(* where it says full, unless the authority gave a delta CRL the number of *)
(* a full one, and by the delta CRL issued against it, whatever the cache  *)
(* holds.                                                                  *)
UsedFits ==
  initialized =>
    \A s \in Subjects, time \in Times : \A by \in Validations(items, s, time) :
      by.full # NoCrl =>
        /\ by.full.aki = s.aki
        /\ OwnNumber(by.full) => by.full.type = "full"
        /\ by.delta # NoCrl =>
             by.delta.type = "delta" /\ by.delta.aki = s.aki /\ by.delta.base = by.full.number

(* The certificates and the CRLs of an authority all name the URL of their *)
(* series.                                                                 *)
Named(aki) ==
  /\ \A s \in Subjects : s.aki = aki => s.freshest # "none"
  /\ \A c \in Crls : c.aki = aki /\ c.type = "full" => c.freshest # "none"

(* A CRL is obsolete, never to be returned again and to be removed by the  *)
(* next REMOVE_CRL, only while a newer one of its authority is in use - a  *)
(* full CRL only while one of its series is, if the series have names.     *)
ObsoleteIsReplaced ==
  \A it \in items :
    it.actuality = "obsolete" =>
      \E other \in items :
        /\ other.actuality = "last"
        /\ other.crl.aki = it.crl.aki
        /\ other.crl.type = it.crl.type
        /\ other.crl.number > it.crl.number
        /\ it.crl.type = "full" /\ Named(it.crl.aki) => other.crl.freshest = it.crl.freshest

(* What addItem tells apart. *)
NoTwoAlike == \A it, other \in items : SameNumber(it.crl, other.crl) => it = other

(* Memory and directory hold CRLs, none is there twice, and of those in    *)
(* memory the right ones are given up.                                     *)
CacheConsistent == TypeOK /\ NoTwoAlike /\ ObsoleteIsReplaced

(* Through any number of sessions, in whatever order the directory is      *)
(* read, a full CRL that was saved is there or one of its series that is   *)
(* not older - until REMOVE_CRL deletes that one - provided that those of  *)
(* its series have numbers of their own.                                   *)
SavedOrFresher ==
  \A c \in saved :
    c.type = "full" /\ (\A d \in Crls : SameGroup(c, d) => OwnNumber(d)) =>
      \E f \in disk : SameGroup(f.crl, c) /\ f.crl.thisUpdate >= c.thisUpdate
=============================================================================
