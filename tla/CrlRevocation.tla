---------------------------- MODULE CrlRevocation ----------------------------
(***************************************************************************)
(* What CertValidator::validateByCrl finds out about a certificate in a    *)
(* full CRL and a delta CRL (library/uapki/src/crl-item.cpp): the places   *)
(* where the bytes of its serial number occur are looked up, by binary     *)
(* search, in the table of the entries' serial numbers, the entries found  *)
(* are decoded, and the one nearest before the time of validation decides. *)
(*                                                                         *)
(* The table is a sequence of the places of the serial numbers.  Which     *)
(* entries are the certificate's, and where else its bytes occur, is       *)
(* chosen freely; an entry's content is chosen when it is decoded.         *)
(***************************************************************************)
EXTENDS Naturals, Sequences, FiniteSets, SequencesExt

CONSTANTS
  Places,      (* Offsets in the encoded list of entries.                 *)
  Tables,      (* What a table of offsets may be: increasing sequences.   *)
  Width,       (* The number of bits of a size_t.                         *)
  Entries,     (* What an entry may say.                                  *)
  ValidateTimes,       (* The times to validate for.                              *)
  Versions,    (* The values of the field version: 0 stands for absent    *)
               (* (v1), 1 means v2.                                       *)
  MaxEntries   (* Bound: entries a certificate has in the two CRLs.       *)

Ordered(s) == \A j, k \in DOMAIN s : j < k => s[j] < s[k]

(* "none": an entry without extensions.  Other reasons than these are      *)
(* treated like keyCompromise.                                             *)
Reasons == {"none", "unspecified", "keyCompromise", "removeFromCrl"}

ASSUME RevocationAssumption ==
  /\ Places \subseteq Nat /\ ValidateTimes \subseteq Nat
  /\ \A e \in Entries :
       /\ DOMAIN e = {"revocationDate", "invalidityDate", "reason"}
       /\ e.revocationDate \in Nat \ {0} /\ e.invalidityDate \in Nat /\ e.reason \in Reasons
  /\ \A s \in Tables : s \in Seq(Places) /\ Ordered(s) /\ 2 * Len(s) < 2 ^ Width
  /\ Width \in Nat
  /\ Versions \subseteq Nat
  /\ MaxEntries \in Nat

VARIABLES
  at,          (* The step of the validation.                              *)
  crl,         (* The CRL looked into.                                     *)
  table,       (* CrlItem::m_RevokedCertOffsets, the places offsetSn.      *)
  own,         (* The places in table of the certificate's serial number.  *)
  places,      (* The places of its bytes still to look up.                *)
  left, right, (* The variables of search_offset.                          *)
  offsets,     (* The entries found.                                       *)
  revoked_items,       (* The entries decoded, revoked_items of validateByCrl.     *)
  time,        (* validateTime; 0 until it matters.                        *)
  result       (* ResultValidationByCrl: status, reason and date.          *)

vars == <<at, crl, table, own, places, left, right, offsets, revoked_items, time, result>>

Steps == {"parse", "search", "loop", "decode", "decide", "done", "error"}

Undecided == [status |-> "undefined", reason |-> "none", revocationDate |-> 0]

Start(step) ==
  /\ at' = step
  /\ table' = <<>> /\ own' = {} /\ places' = <<>>
  /\ left' = 0 /\ right' = 0
  /\ offsets' = <<>>

Init ==
  /\ at = "parse"
  /\ crl = "full"
  /\ table = <<>> /\ own = {} /\ places = <<>>
  /\ left = 0 /\ right = 0
  /\ offsets = <<>>
  /\ revoked_items = <<>>
  /\ time = 0
  /\ result = Undecided

-----------------------------------------------------------------------------
(* parseCrl makes the table, find_equal_sn collects the places: those that *)
(* are in the table are the certificate's.  Before the first serial number *)
(* there are only the headers of the list and of its first entry.          *)
Parse(version, serials, hits) ==
  LET mine == ToSet(serials) \cap ToSet(hits) IN
  /\ at = "parse"
  /\ version >= 1
  /\ Len(revoked_items) + Cardinality(mine) <= MaxEntries
  /\ \A p \in ToSet(hits) : \E q \in ToSet(serials) : q <= p
  /\ at' = IF serials = <<>> THEN "decode" ELSE "search"
  /\ table' = serials
  /\ own' = mine
  /\ places' = hits
  /\ UNCHANGED <<crl, left, right, offsets, revoked_items, time, result>>

(* RET_UAPKI_INVALID_STRUCT_VERSION *)
ParseFails(version) ==
  /\ at = "parse"
  /\ version < 1
  /\ Start("error")
  /\ UNCHANGED <<crl, revoked_items, time, result>>

-----------------------------------------------------------------------------
(* Mutant: the length for the last index. *)
SearchBegin_Length ==
  /\ at = "search" /\ places # <<>>
  /\ at' = "loop"
  /\ left' = 0
  /\ right' = Len(table)
  /\ UNCHANGED <<crl, table, own, places, offsets, revoked_items, time, result>>

(* search_offset for the next place. *)
SearchBegin ==
  /\ at = "search" /\ places # <<>>
  /\ at' = "loop"
  /\ left' = 0
  /\ right' = Len(table) - 1
  /\ UNCHANGED <<crl, table, own, places, offsets, revoked_items, time, result>>

mid == left + (right - left) \div 2

(* Of a size_t. *)
MinusOne(n) == IF n = 0 THEN 2 ^ Width - 1 ELSE n - 1

(* The place is in the table, at mid. *)
SearchHit ==
  /\ at = "loop" /\ left <= right
  /\ table[mid + 1] = Head(places)
  /\ at' = "search"
  /\ offsets' = Append(offsets, table[mid + 1])
  /\ places' = Tail(places)
  /\ UNCHANGED <<crl, table, own, left, right, revoked_items, time, result>>

(* Mutant: the half is not made smaller. *)
SearchHalf_Stays ==
  /\ at = "loop" /\ left <= right
  /\ \/ table[mid + 1] < Head(places) /\ left' = mid /\ right' = right
     \/ table[mid + 1] > Head(places) /\ right' = mid /\ left' = left
  /\ UNCHANGED <<at, crl, table, own, places, offsets, revoked_items, time, result>>

SearchHalf ==
  /\ at = "loop" /\ left <= right
  /\ \/ table[mid + 1] < Head(places) /\ left' = mid + 1 /\ right' = right
     \/ table[mid + 1] > Head(places) /\ right' = MinusOne(mid) /\ left' = left
  /\ UNCHANGED <<at, crl, table, own, places, offsets, revoked_items, time, result>>

(* Mutant: the loop ends when one index is left. *)
SearchMiss_Early ==
  /\ at = "loop" /\ left >= right
  /\ at' = "search"
  /\ places' = Tail(places)
  /\ UNCHANGED <<crl, table, own, left, right, offsets, revoked_items, time, result>>

(* It is not: the bytes are part of something else. *)
SearchMiss ==
  /\ at = "loop" /\ left > right
  /\ at' = "search"
  /\ places' = Tail(places)
  /\ UNCHANGED <<crl, table, own, left, right, offsets, revoked_items, time, result>>

SearchEnd ==
  /\ at = "search" /\ places = <<>>
  /\ at' = "decode"
  /\ UNCHANGED <<crl, table, own, places, left, right, offsets, revoked_items, time, result>>

-----------------------------------------------------------------------------
(* add_revokedcert *)
Decode(entry) ==
  /\ at = "decode" /\ offsets # <<>>
  /\ revoked_items' = Append(revoked_items, entry)
  /\ offsets' = Tail(offsets)
  /\ UNCHANGED <<at, crl, table, own, places, left, right, time, result>>

(* The entry has extensions and none of them is a reason: what getCrlReason *)
(* returns is what revokedCerts and validateByCrl return.                   *)
DecodeFails ==
  /\ at = "decode" /\ offsets # <<>>
  /\ Start("error")
  /\ UNCHANGED <<crl, revoked_items, time, result>>

(* The full CRL is followed by the delta CRL, if there is one. *)
NextCrl ==
  /\ at = "decode" /\ offsets = <<>> /\ crl = "full"
  /\ crl' = "delta"
  /\ Start("parse")
  /\ UNCHANGED <<revoked_items, time, result>>

DecodeEnd ==
  /\ at = "decode" /\ offsets = <<>>
  /\ Start("decide")
  /\ UNCHANGED <<crl, revoked_items, time, result>>

-----------------------------------------------------------------------------
getDate(item) == IF item.invalidityDate > 0 THEN item.invalidityDate ELSE item.revocationDate

(* The index of the entry, 0 if there is none: the first that is dated     *)
(* before the time, then each later one that is nearer to it than near_date *)
(* - which is the date of the entry chosen before the last.                *)
findNearBefore(its, validateTime) ==
  LET date(i) == getDate(its[i])
      near[i \in 0 .. Len(its)] ==
        IF i = 0 THEN [item |-> 0, date |-> 0]
        ELSE IF validateTime <= date(i) THEN near[i - 1]
        ELSE IF near[i - 1].item = 0 THEN [item |-> i, date |-> date(i)]
        ELSE IF date(i) > near[i - 1].date THEN [item |-> i, date |-> date(near[i - 1].item)]
        ELSE near[i - 1]
  IN near[Len(its)].item

findRevokedCert(its, validateTime) ==
  LET n == findNearBefore(its, validateTime)
      entry == its[n]
  IN IF n = 0 THEN [Undecided EXCEPT !.status = "good"]
     ELSE CASE entry.reason = "removeFromCrl" -> [Undecided EXCEPT !.status = "good"]
            [] entry.reason = "none" -> Undecided
            [] entry.reason = "unspecified" -> [Undecided EXCEPT !.status = "unknown"]
            [] OTHER -> [status |-> "revoked", reason |-> entry.reason,
                         revocationDate |-> entry.revocationDate]

(* Mutant: an entry without reason is left undecided. *)
Override_Keeps(found) == found

(* getVersion() is 1 for a v2 CRL, the only ones parseCrl accepts. *)
Override(found) == [found EXCEPT !.status = "revoked", !.reason = "unspecified"]

Decide(validateTime) ==
  /\ at = "decide"
  /\ LET found == findRevokedCert(revoked_items, validateTime)
     IN result' = IF findNearBefore(revoked_items, validateTime) # 0 THEN Override(found) ELSE found
  /\ time' = validateTime
  /\ at' = "done"
  /\ UNCHANGED <<crl, table, own, places, left, right, offsets, revoked_items>>

(* The next certificate, or the same at another time. *)
Again ==
  /\ at \in {"done", "error"}
  /\ Start("parse")
  /\ crl' = "full"
  /\ revoked_items' = <<>>
  /\ time' = 0
  /\ result' = Undecided

Next ==
  \/ \E version \in Versions :
       \/ \E serials, hits \in Tables : Parse(version, serials, hits)
       \/ ParseFails(version)
  \/ SearchBegin \/ SearchHit \/ SearchHalf \/ SearchMiss \/ SearchEnd
  \/ \E entry \in Entries : Decode(entry)
  \/ DecodeFails
  \/ NextCrl \/ DecodeEnd
  \/ \E validateTime \in ValidateTimes : Decide(validateTime)
  \/ Again

(* A validation is a computation of one thread: it goes on. *)
Spec == Init /\ [][Next]_vars /\ WF_vars(Next)

-----------------------------------------------------------------------------
TypeOK ==
  /\ at \in Steps
  /\ crl \in {"full", "delta"}
  /\ revoked_items \in Seq(Entries)
  /\ time \in ValidateTimes \cup {0}
  /\ result \in [status : {"undefined", "good", "revoked", "unknown"},
                 reason : Reasons, revocationDate : {0} \cup {e.revocationDate : e \in Entries}]

(* No index of the binary search wraps, ... *)
SearchTypes ==
  /\ table \in Seq(Places) /\ places \in Seq(Places) /\ offsets \in Seq(Places)
  /\ own \subseteq Places
  /\ {left, right} \subseteq 0 .. Len(table)

(* ... and it reads no element that the table does not have.               *)
InBounds == at = "loop" /\ left <= right => mid < Len(table)

(* The search keeps to its table, although its indices are unsigned.       *)
SearchSafe == SearchTypes /\ InBounds

(* The lookups find the entries of the certificate, all of them, and take  *)
(* no other for one of them.                                               *)
FoundExact == [][at = "search" /\ at' = "decode" => ToSet(offsets') = own]_vars

(* The lookups end, and with them the validation. *)
Terminates == []<>(at \in {"done", "error"})

Before == {revoked_items[i] : i \in {j \in DOMAIN revoked_items : getDate(revoked_items[j]) < time}}

(* A certificate is good if and only if no entry of either CRL is dated    *)
(* before the time, and it is revoked otherwise: there is no third answer. *)
GoodOrRevoked ==
  at = "done" => result.status = IF Before = {} THEN "good" ELSE "revoked"

(* The date reported, if one is, is that of a latest entry before the      *)
(* time. ("Search nearest"; of at most two entries.)                       *)
NearestReported ==
  at = "done" /\ result.revocationDate # 0 =>
    \E e \in Before :
      /\ e.revocationDate = result.revocationDate
      /\ \A f \in Before : getDate(f) <= getDate(e)

(* Status and date say what the entries say.                               *)
ResultRight == TypeOK /\ GoodOrRevoked /\ NearestReported
=============================================================================
