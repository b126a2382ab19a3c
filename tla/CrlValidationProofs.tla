-------------------------- MODULE CrlValidationProofs -------------------------
(* validateByCrl: what the binary search of CrlItem guarantees for tables  *)
(* of any length, and what the entries found say for any number of them;   *)
(* and which CRL it goes by, whatever other calls do to the cache.         *)
EXTENDS CrlRevocation, CrlDownload, SequenceTheorems, FiniteSetTheorems, NaturalsInduction,
        WellFoundedInduction, TLAPS

-----------------------------------------------------------------------------
(* In a CRL *)

(* While places are looked up: what has been found is the certificate's,   *)
(* what is not found yet is still to be looked up, and no place is before  *)
(* the table.                                                              *)
Looking ==
  /\ table # <<>>
  /\ \A k \in DOMAIN places : table[1] <= places[k]
  /\ \A k \in DOMAIN places, j \in DOMAIN table : table[j] = places[k] => places[k] \in own
  /\ \A k \in DOMAIN offsets : offsets[k] \in own
  /\ \A p \in own : /\ \E j \in DOMAIN table : table[j] = p
                    /\ \/ \E k \in DOMAIN offsets : offsets[k] = p
                       \/ \E k \in DOMAIN places : places[k] = p

(* In the loop: the place is between the indices, or not in the table.     *)
Between ==
  /\ places # <<>>
  /\ left \in 0 .. Len(table) /\ right \in 0 .. Len(table) - 1
  /\ \A k \in 1 .. left : table[k] < places[1]
  /\ \A k \in right + 2 .. Len(table) : places[1] < table[k]

IInv ==
  /\ SearchTypes
  /\ Ordered(table)
  /\ at = "parse" => left = 0 /\ right = 0 /\ offsets = <<>>
  /\ at \in {"search", "loop"} => Looking
  /\ at = "loop" => Between

-----------------------------------------------------------------------------
LEMMA Middle ==
  ASSUME left \in Nat, right \in Nat, left <= right
  PROVE  mid \in Nat /\ left <= mid /\ mid <= right
BY DEF mid

LEMMA TypesNumbers ==
  ASSUME SearchTypes
  PROVE  /\ Len(table) \in Nat /\ left \in Nat /\ right \in Nat
         /\ \A k \in DOMAIN table : table[k] \in Nat
         /\ \A k \in DOMAIN places : places[k] \in Nat
         /\ Ordered(table) => \A j, k \in 1 .. Len(table) : j <= k => table[j] <= table[k]
<1>1. Len(table) \in Nat /\ left \in Nat /\ right \in Nat /\ DOMAIN table = 1 .. Len(table)
  BY DEF SearchTypes
<1>2. \A p \in Places : p \in Nat
  BY RevocationAssumption
<1>3. \A k \in DOMAIN table : table[k] \in Nat
  BY <1>2 DEF SearchTypes
<1>4. \A k \in DOMAIN places : places[k] \in Nat
  BY <1>2 DEF SearchTypes
<1>5. ASSUME Ordered(table), NEW j \in 1 .. Len(table), NEW k \in 1 .. Len(table), j <= k
      PROVE  table[j] <= table[k]
  <2>1. j \in DOMAIN table /\ k \in DOMAIN table /\ table[j] \in Nat /\ table[k] \in Nat /\ (j = k \/ j < k)
    <3>1. j \in DOMAIN table /\ k \in DOMAIN table
      BY <1>1
    <3>2. j \in Nat /\ k \in Nat
      BY <1>1
    <3> QED
      BY <1>3, <1>5, <3>1, <3>2
  <2>2. j < k => table[j] < table[k]
    BY <1>5, <2>1 DEF Ordered
  <2> QED
    BY <2>1, <2>2
<1> QED
  BY <1>1, <1>3, <1>4, <1>5

LEMMA IInvInit == Init => IInv
BY DEF Init, IInv, SearchTypes, Ordered

LEMMA ParseStep ==
  ASSUME IInv, NEW version, NEW serials \in Tables, NEW hits \in Tables, Parse(version, serials, hits)
  PROVE  IInv'
<1>1. /\ serials \in Seq(Places) /\ hits \in Seq(Places) /\ Ordered(serials)
      /\ \A k \in DOMAIN serials : serials[k] \in Nat
      /\ \A k \in DOMAIN hits : hits[k] \in Nat
  <2>1. /\ serials \in Seq(Places) /\ hits \in Seq(Places) /\ Ordered(serials)
    BY RevocationAssumption
  <2>2. \A p \in Places : p \in Nat
    BY RevocationAssumption
  <2> QED
    BY <2>1, <2>2
<1>2. /\ table' = serials /\ places' = hits /\ own' = ToSet(serials) \cap ToSet(hits)
      /\ left' = 0 /\ right' = 0 /\ offsets' = <<>>
  BY DEF Parse, IInv
<1>3. SearchTypes'
  BY <1>1, <1>2 DEF SearchTypes, ToSet
<1>4. ASSUME at' = "search" PROVE Looking'
  <2>1. serials # <<>>
    BY <1>4 DEF Parse
  <2>2. \A k \in DOMAIN hits : serials[1] <= hits[k]
    <3> SUFFICES ASSUME NEW k \in DOMAIN hits PROVE serials[1] <= hits[k]
      OBVIOUS
    <3>1. PICK q \in ToSet(serials) : q <= hits[k]
      BY DEF Parse, ToSet
    <3>2. PICK j \in DOMAIN serials : serials[j] = q
      BY DEF ToSet
    <3>3. 1 \in DOMAIN serials /\ j \in Nat /\ 1 <= j
      BY <1>1, <2>1
    <3>4. serials[1] <= serials[j]
      BY <1>1, <3>3 DEF Ordered
    <3> QED
      BY <1>1, <3>1, <3>2, <3>3, <3>4
  <2>3. \A p : p \in own' <=> (\E j \in DOMAIN serials : serials[j] = p) /\ \E k \in DOMAIN hits : hits[k] = p
    BY <1>2 DEF ToSet
  <2> QED
    BY <1>2, <2>1, <2>2, <2>3 DEF Looking
<1>5. at' \in {"search", "decode"}
  BY DEF Parse
<1> QED
  BY <1>1, <1>2, <1>3, <1>4, <1>5 DEF IInv, Ordered

LEMMA BeginStep == IInv /\ SearchBegin => IInv'
<1> SUFFICES ASSUME IInv, SearchBegin PROVE IInv'
  OBVIOUS
<1>1. UNCHANGED <<table, own, places, offsets>> /\ Looking
  BY DEF SearchBegin, IInv
<1>2. Len(table) \in Nat \ {0} /\ left' = 0 /\ right' = Len(table) - 1 /\ at' = "loop" /\ places # <<>>
  BY <1>1 DEF SearchBegin, Looking, IInv, SearchTypes
<1>3. SearchTypes'
  BY <1>1, <1>2 DEF IInv, SearchTypes
<1>4. Looking' /\ Ordered(table)'
  BY <1>1 DEF Looking, IInv, Ordered
<1>5. Between'
  BY <1>1, <1>2 DEF Between
<1> QED
  BY <1>2, <1>3, <1>4, <1>5 DEF IInv

(* One place less: it was found, or it is not in the table. *)
LEMMA NextPlace ==
  ASSUME IInv, at = "loop", at' = "search", UNCHANGED <<table, own, left, right>>, places' = Tail(places),
         \/ offsets' = Append(offsets, places[1]) /\ \E j \in DOMAIN table : table[j] = places[1]
         \/ UNCHANGED offsets /\ \A j \in DOMAIN table : table[j] # places[1]
  PROVE  IInv'
<1>1. /\ places \in Seq(Places) /\ offsets \in Seq(Places) /\ places # <<>> /\ Looking
      /\ places' \in Seq(Places) /\ Len(places') = Len(places) - 1 /\ places[1] \in Places
  BY DEF IInv, SearchTypes, Between
<1>2. /\ \A k \in DOMAIN places' : k + 1 \in DOMAIN places /\ places'[k] = places[k + 1]
      /\ \A k \in DOMAIN places : k = 1 \/ (k - 1 \in DOMAIN places' /\ places'[k - 1] = places[k])
  <2>1. \A k \in 1 .. Len(places) - 1 : places'[k] = places[k + 1]
    BY <1>1, HeadTailProperties
  <2>2. DOMAIN places = 1 .. Len(places) /\ DOMAIN places' = 1 .. Len(places) - 1 /\ Len(places) \in Nat
    BY <1>1
  <2>3. ASSUME NEW k \in DOMAIN places, k # 1 PROVE k - 1 \in DOMAIN places' /\ places'[k - 1] = places[k]
    <3>1. k - 1 \in 1 .. Len(places) - 1 /\ (k - 1) + 1 = k
      BY <2>2, <2>3
    <3> QED
      BY <2>1, <2>2, <3>1
  <2> QED
    BY <2>1, <2>2, <2>3
<1>3. /\ offsets' \in Seq(Places)
      /\ \A k \in DOMAIN offsets : k \in DOMAIN offsets' /\ offsets'[k] = offsets[k]
  <2>1. CASE UNCHANGED offsets
    BY <1>1, <2>1
  <2>2. CASE offsets' = Append(offsets, places[1])
    BY <1>1, <2>2, AppendProperties
  <2> QED
    BY <2>1, <2>2
<1>4. SearchTypes' /\ Ordered(table)'
  BY <1>1, <1>3 DEF IInv, SearchTypes, Ordered
<1>5. \A k \in DOMAIN offsets' : offsets'[k] \in own
  <2>1. \A k \in DOMAIN offsets : offsets[k] \in own
    BY <1>1 DEF Looking
  <2>2. CASE UNCHANGED offsets
    BY <2>1, <2>2
  <2>3. CASE offsets' = Append(offsets, places[1]) /\ \E j \in DOMAIN table : table[j] = places[1]
    <3>1. 1 \in DOMAIN places /\ places[1] \in own
      BY <1>1, <2>3 DEF Looking
    <3>2. \A k \in DOMAIN offsets' : (k \in DOMAIN offsets /\ offsets'[k] = offsets[k]) \/ offsets'[k] = places[1]
      BY <1>1, <2>3, AppendProperties
    <3> QED
      BY <2>1, <3>1, <3>2
  <2> QED
    BY <2>2, <2>3
<1>6. ASSUME NEW p \in own
      PROVE  (\E k \in DOMAIN offsets' : offsets'[k] = p) \/ \E k \in DOMAIN places' : places'[k] = p
  <2>1. CASE \E k \in DOMAIN offsets : offsets[k] = p
    BY <2>1, <1>3
  <2>2. CASE p = places[1]
    <3>1. offsets' = Append(offsets, p)
      BY <1>1, <2>2 DEF Looking
    <3> QED
      BY <1>1, <3>1
  <2>3. CASE \E k \in DOMAIN places : k # 1 /\ places[k] = p
    <3>1. PICK k \in DOMAIN places : k # 1 /\ places[k] = p
      BY <2>3
    <3> QED
      BY <1>2, <3>1
  <2> QED
    BY <1>1, <2>1, <2>2, <2>3 DEF Looking
<1>7. Looking'
  BY <1>1, <1>2, <1>5, <1>6 DEF Looking
<1> QED
  BY <1>4, <1>7 DEF IInv

LEMMA HitStep == IInv /\ SearchHit => IInv'
<1> SUFFICES ASSUME IInv, SearchHit PROVE IInv'
  OBVIOUS
<1>1. Between
  BY DEF SearchHit, IInv
<1>2. places[1] = Head(places) /\ mid + 1 \in DOMAIN table
  BY <1>1, Middle DEF SearchHit, Between, IInv, SearchTypes
<1> QED
  BY <1>2, NextPlace DEF SearchHit

LEMMA MissStep == IInv /\ SearchMiss => IInv'
<1> SUFFICES ASSUME IInv, SearchMiss PROVE IInv'
  OBVIOUS
<1>1. Between
  BY DEF SearchMiss, IInv
<1>2. \A j \in DOMAIN table : j \in 1 .. left \/ j \in right + 2 .. Len(table)
  BY <1>1 DEF SearchMiss, Between, IInv, SearchTypes
<1>3. \A j \in DOMAIN table : table[j] # places[1]
  <2> SUFFICES ASSUME NEW j \in DOMAIN table, table[j] = places[1] PROVE FALSE
    OBVIOUS
  <2>1. table[j] \in Nat /\ ~(table[j] < table[j])
    BY TypesNumbers DEF IInv
  <2> QED
    BY <1>1, <1>2, <2>1 DEF Between
<1> QED
  BY <1>3, NextPlace DEF SearchMiss

(* The half that is given up does not have the place, and the index on its *)
(* other side does not wrap.                                               *)
LEMMA HalfStep == IInv /\ SearchHalf => IInv'
<1> SUFFICES ASSUME IInv, SearchHalf PROVE IInv'
  OBVIOUS
<1>1. UNCHANGED <<at, table, own, places, offsets>> /\ at = "loop" /\ Between /\ Looking /\ SearchTypes
  BY DEF SearchHalf, IInv
<1>2. left \in Nat /\ right \in Nat /\ mid \in Nat /\ left <= mid /\ mid <= right /\ mid + 1 \in 1 .. Len(table)
  BY <1>1, Middle DEF SearchHalf, Between, SearchTypes
<1>3. places[1] = Head(places) /\ places[1] \in Nat /\ table[mid + 1] \in Nat /\ table[1] \in Nat
  BY <1>1, <1>2, TypesNumbers DEF Between, SearchTypes
<1>4. Looking' /\ Ordered(table)'
  BY <1>1 DEF Looking, IInv, Ordered
<1>5. CASE table[mid + 1] < Head(places) /\ left' = mid + 1 /\ right' = right
  <2>1. \A k \in 1 .. left' : table[k] \in Nat /\ table[k] <= table[mid + 1]
    BY <1>1, <1>2, <1>5, TypesNumbers DEF IInv
  <2>2. \A k \in 1 .. left' : table[k] < places[1]
    BY <1>3, <1>5, <2>1
  <2>3. Between'
    BY <1>1, <1>2, <1>5, <2>2 DEF Between
  <2>4. SearchTypes'
    BY <1>1, <1>2, <1>5 DEF SearchTypes
  <2> QED
    BY <1>1, <1>4, <2>3, <2>4 DEF IInv
<1>6. CASE table[mid + 1] > Head(places) /\ right' = MinusOne(mid) /\ left' = left
  <2>1. mid # 0
    BY <1>1, <1>3, <1>6 DEF Looking, Between, SearchTypes
  <2>2. right' = mid - 1
    BY <1>6, <2>1 DEF MinusOne
  <2>3. \A k \in right' + 2 .. Len(table) : table[k] \in Nat /\ table[mid + 1] <= table[k]
    BY <1>1, <1>2, <2>2, TypesNumbers DEF IInv
  <2>4. \A k \in right' + 2 .. Len(table) : places[1] < table[k]
    BY <1>3, <1>6, <2>3
  <2>5. Between'
    BY <1>1, <1>2, <1>6, <2>1, <2>2, <2>4 DEF Between
  <2>6. SearchTypes'
    BY <1>1, <1>2, <1>6, <2>1, <2>2 DEF SearchTypes
  <2> QED
    BY <1>1, <1>4, <2>5, <2>6 DEF IInv
<1> QED
  BY <1>5, <1>6 DEF SearchHalf

(* The steps beside the search. *)
LEMMA OtherStep ==
  ASSUME IInv,
         \/ \E version \in Versions : ParseFails(version)
         \/ SearchEnd \/ (\E entry \in Entries : Decode(entry)) \/ DecodeFails
         \/ NextCrl \/ DecodeEnd \/ (\E forTime \in ValidateTimes : Decide(forTime)) \/ Again
  PROVE  IInv'
<1>1. CASE \E step \in {"error", "parse", "decide"} : Start(step)
  BY <1>1 DEF Start, IInv, SearchTypes, Ordered
<1>2. CASE SearchEnd \/ \E forTime \in ValidateTimes : Decide(forTime)
  BY <1>2 DEF SearchEnd, Decide, IInv, SearchTypes, Ordered
<1>3. CASE \E entry \in Entries : Decode(entry)
  BY <1>3 DEF Decode, IInv, SearchTypes, Ordered
<1> QED
  BY <1>1, <1>2, <1>3 DEF ParseFails, DecodeFails, NextCrl, DecodeEnd, Again

LEMMA IInvNext == IInv /\ [Next]_vars => IInv'
<1> SUFFICES ASSUME IInv, [Next]_vars PROVE IInv'
  OBVIOUS
<1>1. CASE Next
  BY <1>1, ParseStep, BeginStep, HitStep, MissStep, HalfStep, OtherStep DEF Next
<1>2. CASE UNCHANGED vars
  BY <1>2 DEF vars, IInv, SearchTypes, Ordered, Looking, Between
<1> QED
  BY <1>1, <1>2

LEMMA IInvHolds == Spec => []IInv
BY IInvInit, IInvNext, PTL DEF Spec

(* No index wraps or leaves the table, however long it is and wherever the *)
(* bytes of the serial number occur behind its first entry.                *)
THEOREM SearchKeepsToTable == Spec => []SearchSafe
<1>1. IInv => SearchSafe
  <2> SUFFICES ASSUME IInv PROVE SearchSafe
    OBVIOUS
  <2>1. ASSUME at = "loop", left <= right PROVE mid < Len(table)
    BY <2>1, Middle DEF IInv, Between, SearchTypes
  <2> QED
    BY <2>1 DEF IInv, SearchSafe, InBounds
<1> QED
  BY <1>1, IInvHolds, PTL

(* A search that ends has found the certificate's entries, all of them and *)
(* no other.                                                               *)
THEOREM SearchFinds == Spec => FoundExact
<1>1. IInv /\ [Next]_vars => [at = "search" /\ at' = "decode" => ToSet(offsets') = own]_vars
  <2> SUFFICES ASSUME IInv, Next, at = "search", at' = "decode" PROVE ToSet(offsets') = own
    OBVIOUS
  <2>1. SearchEnd
    BY DEF Next, Parse, ParseFails, SearchBegin, SearchHit, SearchHalf, SearchMiss, Decode, DecodeFails,
           NextCrl, DecodeEnd, Decide, Again, Start
  <2>2. offsets' = offsets /\ places = <<>> /\ Looking
    BY <2>1 DEF SearchEnd, IInv
  <2> QED
    BY <2>2 DEF Looking, ToSet
<1> QED
  BY <1>1, IInvHolds, PTL DEF Spec, FoundExact

-----------------------------------------------------------------------------
(* The entry that decides *)

(* Induction, for a set in place of a predicate. *)
LEMMA EveryNumber ==
  ASSUME NEW S, 0 \in S, \A n \in Nat : n \in S => n + 1 \in S
  PROVE  Nat \subseteq S
<1> SUFFICES ASSUME Nat \ S # {} PROVE FALSE
  OBVIOUS
<1> DEFINE R == {ss \in Nat \X Nat : ss[1] < ss[2]}
<1>1. IsWellFoundedOn(R, Nat)
  BY NatLessThanWellFounded DEF OpToRel
<1>2. PICK n \in Nat \ S : \A m \in Nat \ S : ~(<<m, n>> \in R)
  <2> HIDE DEF R
  <2> QED
    BY <1>1, WFMin
<1>3. ASSUME NEW m \in Nat \ S PROVE ~(m < n)
  BY <1>2
<1>4. n # 0
  OBVIOUS
<1>5. n - 1 \in Nat /\ n - 1 \in S
  BY <1>3, <1>4
<1> QED
  BY <1>2, <1>5

LEMMA Dates ==
  ASSUME NEW its \in Seq(Entries), NEW k \in DOMAIN its
  PROVE  getDate(its[k]) \in Nat
<1>1. its[k] \in Entries
  OBVIOUS
<1> QED
  BY <1>1, RevocationAssumption DEF getDate

(* findNearBefore finds an entry before the time if there is one, and of   *)
(* two entries the later one.                                              *)
LEMMA NearFound ==
  ASSUME NEW its \in Seq(Entries), NEW t \in Nat
  PROVE  LET n == findNearBefore(its, t) IN
         /\ n \in 0 .. Len(its)
         /\ n = 0 => \A k \in DOMAIN its : ~(getDate(its[k]) < t)
         /\ n # 0 => getDate(its[n]) < t
         /\ n # 0 /\ Len(its) <= 2 =>
              \A k \in DOMAIN its : getDate(its[k]) < t => getDate(its[k]) <= getDate(its[n])
<1> DEFINE N == Len(its)
           date(i) == getDate(its[i])
           Step(g, i) == IF i = 0 THEN [item |-> 0, date |-> 0]
                         ELSE IF t <= date(i) THEN g[i - 1]
                         ELSE IF g[i - 1].item = 0 THEN [item |-> i, date |-> date(i)]
                         ELSE IF date(i) > g[i - 1].date THEN [item |-> i, date |-> date(g[i - 1].item)]
                         ELSE g[i - 1]
           Upto(g, m) == g = [i \in 0 .. m |-> Step(g, i)]
           near == CHOOSE g : Upto(g, N)
<1>1. N \in Nat /\ DOMAIN its = 1 .. N
  OBVIOUS
<1>2. findNearBefore(its, t) = near[N].item
  BY DEF findNearBefore
<1>3. \A k \in 1 .. N : date(k) \in Nat
  BY <1>1, Dates
<1> HIDE DEF date
<1>4. \E g : Upto(g, N)
  <2> DEFINE Defined == {m \in Nat : \E g : Upto(g, m)}
  <2>1. 0 \in Defined
    <3>1. Upto([i \in 0 .. 0 |-> [item |-> 0, date |-> 0]], 0)
      OBVIOUS
    <3> QED
      BY <3>1
  <2>2. ASSUME NEW m \in Nat, m \in Defined PROVE m + 1 \in Defined
    <3>1. PICK g : Upto(g, m)
      BY <2>2
    <3> DEFINE h == [i \in 0 .. m + 1 |-> IF i <= m THEN g[i] ELSE Step(g, i)]
    <3>2. \A i \in 0 .. m + 1 : h[i] = Step(h, i)
      <4> SUFFICES ASSUME NEW i \in 0 .. m + 1 PROVE h[i] = Step(h, i)
        OBVIOUS
      <4>1. i # 0 => i - 1 \in 0 .. m /\ h[i - 1] = g[i - 1]
        OBVIOUS
      <4>2. h[i] = Step(g, i)
        <5>1. CASE i <= m
          <6>1. i \in 0 .. m /\ h[i] = g[i]
            BY <5>1
          <6>2. \A k \in 0 .. m : g[k] = Step(g, k)
            BY <3>1
          <6> QED
            BY <6>1, <6>2
        <5>2. CASE ~(i <= m)
          BY <5>2
        <5> QED
          BY <5>1, <5>2
      <4> HIDE DEF h
      <4> QED
        BY <4>1, <4>2
    <3>3. Upto(h, m + 1)
      <4>1. h = [i \in 0 .. m + 1 |-> h[i]]
        OBVIOUS
      <4> HIDE DEF h
      <4> QED
        BY <3>2, <4>1
    <3> HIDE DEF Upto, h
    <3> QED
      BY <3>3
  <2> HIDE DEF Defined
  <2>3. N \in Defined
    BY <1>1, <2>1, <2>2, EveryNumber
  <2> QED
    BY <2>3 DEF Defined
<1>5. Upto(near, N)
  BY <1>4
<1> HIDE DEF near
<1>6. \A i \in 0 .. N : near[i] = Step(near, i)
  BY <1>5
<1> HIDE DEF Upto, N
<1> DEFINE Fits(n) == LET r == near[n] IN
             /\ r.item \in 0 .. n
             /\ r.item = 0 => \A k \in 1 .. n : t <= date(k)
             /\ r.item # 0 => date(r.item) < t
             /\ r.item # 0 /\ n <= 1 => r.date = date(r.item)
             /\ r.item # 0 /\ n <= 2 => \A k \in 1 .. n : date(k) < t => date(k) <= date(r.item)
           Right == {n \in Nat : n <= N => Fits(n)}
<1>7. 0 \in Right
  <2>1. near[0] = [item |-> 0, date |-> 0]
    <3>1. 0 \in 0 .. N
      BY <1>1
    <3> HIDE DEF Step
    <3>2. near[0] = Step(near, 0)
      BY <1>6, <3>1
    <3> QED
      BY <3>2 DEF Step
  <2> QED
    BY <2>1
<1>8. ASSUME NEW n \in Nat, n \in Right PROVE n + 1 \in Right
  <2> SUFFICES ASSUME n + 1 <= N PROVE Fits(n + 1)
    OBVIOUS
  <2> DEFINE m == n + 1
             old == near[n]
             new == near[m]
  <2>1. Fits(n) /\ \A k \in 1 .. m : k = m \/ k \in 1 .. n
    BY <1>1, <1>8
  <2>2. new = IF t <= date(m) THEN old
              ELSE IF old.item = 0 THEN [item |-> m, date |-> date(m)]
              ELSE IF date(m) > old.date THEN [item |-> m, date |-> date(old.item)]
              ELSE old
    <3>1. m \in 0 .. N /\ m # 0 /\ m - 1 = n
      BY <1>1
    <3> QED
      BY <1>6, <3>1
  <2>3. /\ \A k \in 1 .. m : date(k) \in Nat
        /\ m \in 1 .. N
    BY <1>1, <1>3
  <2> HIDE DEF new, old
  <2>4. CASE t <= date(m)
    <3>1. new = old
      BY <2>2, <2>4
    <3> QED
      BY <2>1, <2>3, <2>4, <3>1 DEF old, new
  <2>5. CASE ~(t <= date(m)) /\ old.item = 0
    <3>1. new.item = m /\ new.date = date(m)
      BY <2>2, <2>5
    <3> QED
      BY <2>1, <2>3, <2>5, <3>1 DEF old, new
  <2>6. CASE ~(t <= date(m)) /\ old.item # 0 /\ date(m) > old.date
    <3>1. new.item = m /\ new.date = date(old.item)
      BY <2>2, <2>6
    <3>2. m <= 2 => n <= 1
      OBVIOUS
    <3>3. m <= 2 => \A k \in 1 .. m : date(k) < t => date(k) <= date(m)
      <4> SUFFICES ASSUME m <= 2, NEW k \in 1 .. n, date(k) < t PROVE date(k) <= date(m)
        BY <2>1, <2>3
      <4>1. old.date = date(old.item) /\ date(k) <= date(old.item) /\ old.item \in 1 .. n
        BY <2>1, <2>6 DEF old
      <4> QED
        BY <2>3, <2>6, <4>1
    <3>4. ~(m <= 1)
      BY <2>1, <2>6 DEF old
    <3>5. date(m) < t
      BY <1>1, <1>3, <2>3, <2>6
    <3>6. Fits(m)
      <4>1. new.item \in 0 .. m /\ new.item # 0 /\ date(new.item) < t
        BY <2>3, <3>1, <3>5
      <4>2. m <= 2 => \A k \in 1 .. m : date(k) < t => date(k) <= date(new.item)
        BY <3>1, <3>3
      <4> HIDE DEF m
      <4> QED
        BY <3>4, <4>1, <4>2 DEF new
    <3> QED
      BY <3>6
  <2>7. CASE ~(t <= date(m)) /\ old.item # 0 /\ ~(date(m) > old.date)
    <3>1. new = old
      BY <2>2, <2>7
    <3>2. ~(m <= 1)
      BY <2>1, <2>7 DEF old
    <3>3. m <= 2 => date(m) <= date(old.item)
      <4> SUFFICES ASSUME m <= 2 PROVE date(m) <= date(old.item)
        OBVIOUS
      <4>1. n <= 1 /\ old.item \in 1 .. n /\ old.date = date(old.item)
        BY <2>1, <2>7 DEF old
      <4> QED
        BY <2>3, <2>7, <4>1
    <3>4. old.item \in 1 .. n /\ date(old.item) < t
      BY <2>1, <2>7 DEF old
    <3>5. m <= 2 => \A k \in 1 .. m : date(k) < t => date(k) <= date(old.item)
      BY <2>1, <2>7, <3>3 DEF old
    <3>6. new.item \in 0 .. m /\ new.item # 0 /\ date(new.item) < t
      BY <3>1, <3>4
    <3>7. m <= 2 => \A k \in 1 .. m : date(k) < t => date(k) <= date(new.item)
      BY <3>1, <3>5
    <3>8. Fits(m)
      <4> HIDE DEF m
      <4> QED
        BY <3>2, <3>6, <3>7 DEF new
    <3> QED
      BY <3>8
  <2> QED
    BY <2>4, <2>5, <2>6, <2>7
<1> HIDE DEF Fits
<1>9. N \in Right
  <2> HIDE DEF Right
  <2> QED
    BY <1>1, <1>7, <1>8, EveryNumber
<1>10. Fits(N)
  BY <1>1, <1>9
<1> QED
  BY <1>1, <1>2, <1>3, <1>10 DEF Fits, N, date

-----------------------------------------------------------------------------
(* What is reported *)

(* The entries of the certificate that are decoded, found or still to be   *)
(* looked up are never more than there are.                                *)
Counted ==
  /\ Len(revoked_items) <= MaxEntries
  /\ at \in {"search", "loop"} =>
       /\ Ordered(places)
       /\ Len(revoked_items) + Len(offsets) + Cardinality(ToSet(places) \cap own) <= MaxEntries
  /\ at = "decode" => Len(revoked_items) + Len(offsets) <= MaxEntries

ResultInv ==
  /\ IInv /\ TypeOK /\ Counted
  /\ GoodOrRevoked
  /\ MaxEntries <= 2 => NearestReported

LEMMA SetOfSequence ==
  ASSUME NEW S, NEW s \in Seq(S)
  PROVE  /\ IsFiniteSet(ToSet(s))
         /\ s # <<>> => ToSet(s) = {Head(s)} \cup ToSet(Tail(s))
<1>1. Len(s) \in Nat /\ DOMAIN s = 1 .. Len(s) /\ s \in [1 .. Len(s) -> S]
  OBVIOUS
<1>2. IsFiniteSet(ToSet(s))
  <2>1. s \in Surjection(1 .. Len(s), ToSet(s))
    <3>1. s \in [1 .. Len(s) -> ToSet(s)]
      BY <1>1 DEF ToSet
    <3>2. \A y \in ToSet(s) : \E k \in 1 .. Len(s) : s[k] = y
      BY <1>1 DEF ToSet
    <3> QED
      BY <3>1, <3>2 DEF Surjection
  <2>2. IsFiniteSet(1 .. Len(s))
    BY <1>1, FS_Interval
  <2> QED
    BY <2>1, <2>2, FS_Surjection
<1>3. ASSUME s # <<>> PROVE ToSet(s) = {Head(s)} \cup ToSet(Tail(s))
  <2> DEFINE t == Tail(s)
  <2>1. /\ t \in Seq(S) /\ Len(t) = Len(s) - 1 /\ Head(s) = s[1] /\ Len(s) >= 1
        /\ \A k \in 1 .. Len(t) : t[k] = s[k + 1]
    BY <1>1, <1>3
  <2> HIDE DEF t
  <2>2. DOMAIN t = 1 .. Len(s) - 1
    BY <2>1
  <2>3. \A k \in DOMAIN t : k + 1 \in DOMAIN s /\ t[k] = s[k + 1]
    BY <1>1, <2>1, <2>2
  <2>4. \A k \in DOMAIN s : k = 1 \/ (k - 1 \in DOMAIN t /\ t[k - 1] = s[k])
    <3> SUFFICES ASSUME NEW k \in DOMAIN s, k # 1 PROVE k - 1 \in DOMAIN t /\ t[k - 1] = s[k]
      OBVIOUS
    <3>1. k - 1 \in DOMAIN t /\ (k - 1) + 1 = k
      BY <1>1, <2>2
    <3> QED
      BY <2>3, <3>1
  <2>5. 1 \in DOMAIN s
    BY <1>1, <2>1
  <2>6. ASSUME NEW y \in ToSet(s) PROVE y \in {Head(s)} \cup ToSet(t)
    BY <2>1, <2>4 DEF ToSet
  <2>7. ASSUME NEW y \in {Head(s)} \cup ToSet(t) PROVE y \in ToSet(s)
    BY <2>1, <2>3, <2>5 DEF ToSet
  <2> QED
    BY <2>6, <2>7 DEF t
<1> QED
  BY <1>2, <1>3

(* One place less to look up. *)
LEMMA PlaceLess ==
  ASSUME NEW s \in Seq(Nat), s # <<>>, Ordered(s), NEW S
  PROVE  LET n == Cardinality(ToSet(s) \cap S)
             m == Cardinality(ToSet(Tail(s)) \cap S)
         IN /\ Ordered(Tail(s)) /\ n \in Nat /\ m \in Nat /\ m <= n
            /\ Head(s) \in S => n = m + 1
<1> DEFINE t == Tail(s)
           more == ToSet(s) \cap S
           less == ToSet(t) \cap S
<1>1. /\ t \in Seq(Nat) /\ Len(t) = Len(s) - 1 /\ Head(s) = s[1] /\ Len(s) >= 1 /\ Len(s) \in Nat
      /\ \A k \in 1 .. Len(t) : t[k] = s[k + 1]
  OBVIOUS
<1>2. IsFiniteSet(ToSet(s)) /\ ToSet(s) = {Head(s)} \cup ToSet(t)
  BY SetOfSequence
<1> HIDE DEF t
<1>3. DOMAIN t = 1 .. Len(s) - 1 /\ DOMAIN s = 1 .. Len(s)
  BY <1>1
<1>4. \A k \in DOMAIN t : k + 1 \in DOMAIN s /\ t[k] = s[k + 1] /\ 1 \in DOMAIN s /\ 1 < k + 1
  BY <1>1, <1>3
<1>5. Ordered(t)
  <2> SUFFICES ASSUME NEW j \in DOMAIN t, NEW k \in DOMAIN t, j < k PROVE t[j] < t[k]
    BY DEF Ordered
  <2>1. j + 1 \in DOMAIN s /\ k + 1 \in DOMAIN s /\ j + 1 < k + 1
    BY <1>3, <1>4
  <2>2. s[j + 1] < s[k + 1]
    BY <2>1 DEF Ordered
  <2> QED
    BY <1>4, <2>2
<1>6. Head(s) \notin ToSet(t)
  <2> SUFFICES ASSUME NEW k \in DOMAIN t, t[k] = Head(s) PROVE FALSE
    BY DEF ToSet
  <2>1. 1 \in DOMAIN s /\ k + 1 \in DOMAIN s /\ 1 < k + 1
    BY <1>4
  <2>2. s[1] < s[k + 1]
    BY <2>1 DEF Ordered
  <2>3. s[k + 1] = s[1]
    BY <1>1, <1>4
  <2>4. s[1] \in Nat
    BY <2>1
  <2> QED
    BY <2>2, <2>3, <2>4
<1>7. IsFiniteSet(more) /\ Cardinality(more) \in Nat
  BY <1>2, FS_Subset, FS_CardinalityType
<1>8. less = more \ {Head(s)} /\ (Head(s) \in more <=> Head(s) \in S)
  BY <1>2, <1>6
<1> HIDE DEF more, less
<1>9. Cardinality(less) = IF Head(s) \in more THEN Cardinality(more) - 1 ELSE Cardinality(more)
  BY <1>7, <1>8, FS_RemoveElement
<1>10. Cardinality(less) \in Nat
  <2>1. IsFiniteSet(less)
    BY <1>7, <1>8, FS_RemoveElement
  <2> QED
    BY <2>1, FS_CardinalityType
<1>11. Cardinality(less) <= Cardinality(more) /\ (Head(s) \in S => Cardinality(more) = Cardinality(less) + 1)
  BY <1>7, <1>8, <1>9
<1> QED
  BY <1>5, <1>7, <1>10, <1>11 DEF t, more, less

LEMMA SomePlaces ==
  ASSUME SearchTypes
  PROVE  /\ places \in Seq(Nat) /\ Len(offsets) \in Nat
         /\ Cardinality(ToSet(places) \cap own) \in Nat
<1>1. Places \subseteq Nat
  BY RevocationAssumption
<1>2. Len(places) \in Nat /\ \A k \in 1 .. Len(places) : places[k] \in Places
  BY DEF SearchTypes
<1>3. places = [k \in 1 .. Len(places) |-> places[k]]
  BY DEF SearchTypes
<1>4. places \in Seq(Nat)
  <2>1. \A k \in 1 .. Len(places) : places[k] \in Nat
    BY <1>1, <1>2
  <2> QED
    BY <1>2, <1>3, <2>1
<1>5. IsFiniteSet(ToSet(places) \cap own)
  BY <1>4, SetOfSequence, FS_Subset
<1> QED
  BY <1>4, <1>5, FS_CardinalityType DEF SearchTypes

LEMMA CountedStep ==
  ASSUME IInv, IInv', Counted, TypeOK, Next
  PROVE  Counted'
<1>0. Len(revoked_items) \in Nat /\ MaxEntries \in Nat /\ Len(<<>>) = 0
  BY RevocationAssumption DEF TypeOK
<1>1. SearchTypes /\ SearchTypes'
  BY DEF IInv
<1>2. ASSUME NEW version \in Versions, NEW serials \in Tables, NEW hits \in Tables, Parse(version, serials, hits)
      PROVE  Counted'
  <2> DEFINE mine == ToSet(serials) \cap ToSet(hits)
  <2>1. /\ Len(revoked_items) + Cardinality(mine) <= MaxEntries /\ own' = mine /\ places' = hits
        /\ at' = IF serials = <<>> THEN "decode" ELSE "search"
        /\ UNCHANGED <<offsets, revoked_items>> /\ offsets = <<>>
    BY <1>2 DEF Parse, IInv
  <2>2. Ordered(hits) /\ ToSet(hits) \cap mine = mine
    BY RevocationAssumption
  <2> HIDE DEF mine
  <2>3. CASE at' = "search"
    <3>1. Len(revoked_items') = Len(revoked_items) /\ Len(offsets') = 0 /\ ToSet(places') \cap own' = mine /\ Ordered(places')
      BY <1>0, <2>1, <2>2
    <3>2. Cardinality(mine) \in Nat
      <4>1. Cardinality(ToSet(places') \cap own') \in Nat
        <5>1. IsFiniteSet(ToSet(hits))
          BY RevocationAssumption, SetOfSequence
        <5>2. IsFiniteSet(ToSet(hits) \cap mine)
          BY <5>1, FS_Subset
        <5> QED
          BY <2>1, <5>2, FS_CardinalityType
      <4> QED
        BY <3>1, <4>1
    <3>3. Cardinality(ToSet(places') \cap own') = Cardinality(mine)
      BY <3>1
    <3>4. Len(revoked_items') + Len(offsets') + Cardinality(ToSet(places') \cap own') <= MaxEntries
      BY <1>0, <2>1, <3>1, <3>2, <3>3
    <3>5. Len(revoked_items') <= MaxEntries
      BY <1>0, <2>1, <3>1, <3>2
    <3> QED
      BY <2>3, <3>1, <3>4, <3>5 DEF Counted
  <2>4. CASE at' = "decode"
    <3>1. Len(revoked_items') = Len(revoked_items) /\ Len(offsets') = 0
      BY <1>0, <2>1
    <3> QED
      BY <1>0, <2>4, <3>1 DEF Counted
  <2> QED
    BY <2>1, <2>3, <2>4
<1>3. CASE SearchBegin \/ SearchHalf
  BY <1>3 DEF SearchBegin, SearchHalf, Counted
<1>4. ASSUME at = "loop", at' = "search", places' = Tail(places), UNCHANGED <<own, revoked_items>>,
             \/ UNCHANGED offsets
             \/ Len(offsets') = Len(offsets) + 1 /\ Head(places) \in own
      PROVE  Counted'
  <2>1. places # <<>> /\ Ordered(places) /\ places \in Seq(Nat) /\ Len(offsets) \in Nat
        /\ Len(revoked_items) + Len(offsets) + Cardinality(ToSet(places) \cap own) <= MaxEntries
    BY <1>1, <1>4, SomePlaces DEF IInv, Between, Counted
  <2> DEFINE n == Cardinality(ToSet(places) \cap own)
             m == Cardinality(ToSet(Tail(places)) \cap own)
  <2>2. Ordered(Tail(places)) /\ n \in Nat /\ m \in Nat /\ m <= n /\ (Head(places) \in own => n = m + 1)
    BY <2>1, PlaceLess
  <2>3. Cardinality(ToSet(places') \cap own') = m
    BY <1>4
  <2>4. Len(revoked_items) + Len(offsets) + n <= MaxEntries
    BY <2>1
  <2> HIDE DEF n, m
  <2>5. Len(revoked_items) + Len(offsets') + m <= MaxEntries
    BY <1>0, <1>4, <2>1, <2>2, <2>4
  <2> QED
    BY <1>0, <1>4, <2>2, <2>3, <2>5 DEF Counted
<1>5. CASE SearchHit
  <2>1. /\ at = "loop" /\ at' = "search" /\ places' = Tail(places) /\ UNCHANGED <<own, revoked_items>>
        /\ offsets' = Append(offsets, table[mid + 1]) /\ table[mid + 1] = Head(places) /\ left <= right
    BY <1>5 DEF SearchHit
  <2>2. Len(offsets') = Len(offsets) + 1
    BY <1>1, <2>1 DEF SearchTypes
  <2>3. Head(places) \in own
    <3>1. Looking /\ Between
      BY <2>1 DEF IInv
    <3>2. mid + 1 \in DOMAIN table
      BY <1>1, <2>1, <3>1, Middle DEF Between, SearchTypes
    <3>3. Head(places) = places[1] /\ 1 \in DOMAIN places
      BY <1>1, <3>1 DEF Between, SearchTypes
    <3> QED
      BY <2>1, <3>1, <3>2, <3>3 DEF Looking
  <2> QED
    BY <1>4, <2>1, <2>2, <2>3
<1>6. CASE SearchMiss
  BY <1>4, <1>6 DEF SearchMiss
<1>7. CASE SearchEnd
  <2>1. Cardinality(ToSet(places) \cap own) \in Nat /\ Len(offsets) \in Nat
    BY <1>1, SomePlaces
  <2>2. /\ at = "search" /\ at' = "decode" /\ UNCHANGED <<revoked_items, offsets>>
    BY <1>7 DEF SearchEnd
  <2>3. Len(revoked_items) + Len(offsets) <= MaxEntries
    BY <1>0, <2>1, <2>2 DEF Counted
  <2> QED
    BY <2>2, <2>3 DEF Counted
<1>8. ASSUME NEW entry \in Entries, Decode(entry) PROVE Counted'
  <2>1. /\ at = "decode" /\ at' = "decode" /\ offsets # <<>> /\ revoked_items' = Append(revoked_items, entry) /\ offsets' = Tail(offsets)
    BY <1>8 DEF Decode
  <2>2. Len(revoked_items') = Len(revoked_items) + 1 /\ Len(offsets') = Len(offsets) - 1 /\ Len(offsets) \in Nat /\ Len(offsets) >= 1
    BY <1>1, <1>8, <2>1 DEF TypeOK, SearchTypes
  <2>3. Len(revoked_items) + Len(offsets) <= MaxEntries
    BY <2>1 DEF Counted
  <2> QED
    BY <1>0, <2>1, <2>2, <2>3 DEF Counted
<1>9. CASE \/ \E version \in Versions : ParseFails(version)
           \/ DecodeFails \/ NextCrl \/ DecodeEnd \/ \E forTime \in ValidateTimes : Decide(forTime)
  <2>1. at' \in {"error", "parse", "decide", "done"} /\ UNCHANGED revoked_items
    BY <1>9 DEF ParseFails, DecodeFails, NextCrl, DecodeEnd, Decide, Start
  <2> QED
    BY <2>1 DEF Counted
<1>10. CASE Again
  <2>1. at' = "parse" /\ revoked_items' = <<>>
    BY <1>10 DEF Again, Start
  <2> QED
    BY <1>0, <2>1 DEF Counted
<1> QED
  BY <1>2, <1>3, <1>5, <1>6, <1>7, <1>8, <1>9, <1>10 DEF Next

LEMMA TypeStep ==
  ASSUME TypeOK, Next
  PROVE  TypeOK'
<1>1. ASSUME NEW t \in ValidateTimes, Decide(t) PROVE TypeOK'
  <2> DEFINE n == findNearBefore(revoked_items, t)
             found == findRevokedCert(revoked_items, t)
             Found == [status : {"undefined", "good", "revoked", "unknown"},
                       reason : Reasons, revocationDate : {0} \cup {e.revocationDate : e \in Entries}]
  <2>1. t \in Nat /\ revoked_items \in Seq(Entries)
    BY RevocationAssumption DEF TypeOK
  <2>2. n \in 0 .. Len(revoked_items)
    BY <2>1, NearFound
  <2>3. n # 0 => revoked_items[n] \in Entries
    BY <2>1, <2>2
  <2>4. n # 0 => revoked_items[n].reason \in Reasons /\ revoked_items[n].revocationDate \in {e.revocationDate : e \in Entries}
    BY <2>3, RevocationAssumption
  <2>5. found \in Found
    <3> HIDE DEF n
    <3>1. CASE n = 0
      BY <3>1 DEF findRevokedCert, n, Undecided, Reasons
    <3>2. CASE n # 0
      BY <2>4, <3>2 DEF findRevokedCert, n, Undecided, Reasons
    <3> QED
      BY <3>1, <3>2
  <2> HIDE DEF found, n
  <2>6. Override(found) \in Found
    BY <2>5 DEF Override, Reasons
  <2>7. result' \in Found
    BY <1>1, <2>5, <2>6 DEF Decide, found
  <2> QED
    BY <1>1, <2>7 DEF Decide, TypeOK, Steps
<1>2. CASE Again
  BY <1>2 DEF Again, Start, TypeOK, Steps, Undecided, Reasons
<1>3. ASSUME NEW entry \in Entries, Decode(entry) PROVE TypeOK'
  BY <1>3 DEF Decode, TypeOK
<1>4. ASSUME \/ \E version \in Versions :
                  (\E serials, hits \in Tables : Parse(version, serials, hits)) \/ ParseFails(version)
             \/ SearchBegin \/ SearchHit \/ SearchHalf \/ SearchMiss \/ SearchEnd
             \/ DecodeFails \/ NextCrl \/ DecodeEnd
      PROVE  TypeOK'
  <2>1. at' \in Steps /\ crl' \in {"full", "delta"} /\ UNCHANGED <<revoked_items, time, result>>
    BY <1>4 DEF Parse, ParseFails, SearchBegin, SearchHit, SearchHalf, SearchMiss, SearchEnd,
                DecodeFails, NextCrl, DecodeEnd, Start, Steps, TypeOK
  <2> QED
    BY <2>1 DEF TypeOK
<1> QED
  BY <1>1, <1>2, <1>3, <1>4 DEF Next

(* What findRevokedCert makes of the entries, and Override of that. *)
LEMMA DecideStep ==
  ASSUME TypeOK, Counted, NEW t \in ValidateTimes, Decide(t)
  PROVE  GoodOrRevoked' /\ (MaxEntries <= 2 => NearestReported')
<1> DEFINE n == findNearBefore(revoked_items, t)
           found == findRevokedCert(revoked_items, t)
           earlier == {k \in DOMAIN revoked_items : getDate(revoked_items[k]) < t}
<1>1. t \in Nat /\ revoked_items \in Seq(Entries) /\ Len(revoked_items) <= MaxEntries /\ Len(revoked_items) \in Nat /\ MaxEntries \in Nat
  BY RevocationAssumption DEF TypeOK, Counted
<1>2. /\ n \in 0 .. Len(revoked_items)
      /\ n = 0 => \A k \in DOMAIN revoked_items : ~(getDate(revoked_items[k]) < t)
      /\ n # 0 => getDate(revoked_items[n]) < t
      /\ n # 0 /\ Len(revoked_items) <= 2 =>
           \A k \in DOMAIN revoked_items : getDate(revoked_items[k]) < t => getDate(revoked_items[k]) <= getDate(revoked_items[n])
  BY <1>1, NearFound
<1>3. /\ result' = IF n # 0 THEN Override(found) ELSE found
      /\ time' = t /\ at' = "done" /\ UNCHANGED revoked_items
  BY DEF Decide
<1>4. found = IF n = 0 THEN [Undecided EXCEPT !.status = "good"]
              ELSE CASE revoked_items[n].reason = "removeFromCrl" -> [Undecided EXCEPT !.status = "good"]
                     [] revoked_items[n].reason = "none" -> Undecided
                     [] revoked_items[n].reason = "unspecified" -> [Undecided EXCEPT !.status = "unknown"]
                     [] OTHER -> [status |-> "revoked", reason |-> revoked_items[n].reason,
                                  revocationDate |-> revoked_items[n].revocationDate]
  BY DEF findRevokedCert
<1>5. n # 0 => n \in DOMAIN revoked_items /\ n \in earlier
  BY <1>1, <1>2
<1> HIDE DEF n, found
<1>6. Before' = {revoked_items[k] : k \in earlier}
  BY <1>3 DEF Before
<1>7. n # 0 => Override(found).status = "revoked"
               /\ Override(found).revocationDate \in {0, revoked_items[n].revocationDate}
  BY <1>4 DEF Override, Undecided
<1>8. GoodOrRevoked'
  <2>1. CASE n = 0
    <3>1. Before' = {} /\ result'.status = "good"
      BY <1>2, <1>3, <1>4, <1>6, <2>1 DEF Undecided
    <3> QED
      BY <3>1 DEF GoodOrRevoked
  <2>2. CASE n # 0
    <3>1. Before' # {} /\ result'.status = "revoked"
      BY <1>3, <1>5, <1>6, <1>7, <2>2
    <3> QED
      BY <3>1 DEF GoodOrRevoked
  <2> QED
    BY <2>1, <2>2
<1>9. ASSUME MaxEntries <= 2, result'.revocationDate # 0
      PROVE  \E e \in Before' : /\ e.revocationDate = result'.revocationDate
                                /\ \A f \in Before' : getDate(f) <= getDate(e)
  <2>1. n # 0
    BY <1>3, <1>4, <1>9 DEF Undecided
  <2>2. revoked_items[n] \in Before' /\ revoked_items[n].revocationDate = result'.revocationDate
    BY <1>3, <1>5, <1>6, <1>7, <1>9, <2>1
  <2>3. Len(revoked_items) <= 2
    BY <1>1, <1>9
  <2>4. \A f \in Before' : getDate(f) <= getDate(revoked_items[n])
    BY <1>2, <1>6, <2>1, <2>3
  <2> QED
    BY <2>2, <2>4
<1> QED
  BY <1>8, <1>9 DEF NearestReported

LEMMA ResultInvHolds == Spec => []ResultInv
<1>1. Init => ResultInv
  <2> SUFFICES ASSUME Init PROVE ResultInv
    OBVIOUS
  <2>1. IInv
    BY IInvInit
  <2>2. TypeOK
    BY DEF Init, TypeOK, Steps, Undecided, Reasons
  <2>3. Counted
    <3>1. Len(<<>>) = 0 /\ MaxEntries \in Nat
      BY RevocationAssumption
    <3> QED
      BY <3>1 DEF Init, Counted
  <2> QED
    BY <2>1, <2>2, <2>3 DEF Init, ResultInv, GoodOrRevoked, NearestReported
<1>2. ASSUME ResultInv, [Next]_vars PROVE ResultInv'
  <2>1. IInv'
    BY <1>2, IInvNext DEF ResultInv
  <2>2. CASE Next
    <3>1. TypeOK' /\ Counted'
      BY <1>2, <2>1, <2>2, TypeStep, CountedStep DEF ResultInv
    <3>2. at' = "done" => \E t \in ValidateTimes : Decide(t)
      BY <2>2 DEF Next, Parse, ParseFails, SearchBegin, SearchHit, SearchHalf, SearchMiss, SearchEnd, Decode,
                  DecodeFails, NextCrl, DecodeEnd, Again, Start, ResultInv
    <3>3. GoodOrRevoked' /\ (MaxEntries <= 2 => NearestReported')
      <4>1. CASE at' = "done"
        BY <1>2, <3>2, <4>1, DecideStep DEF ResultInv
      <4>2. CASE at' # "done"
        BY <4>2 DEF GoodOrRevoked, NearestReported
      <4> QED
        BY <4>1, <4>2
    <3> QED
      BY <2>1, <3>1, <3>3 DEF ResultInv
  <2>3. CASE UNCHANGED vars
    BY <1>2, <2>1, <2>3 DEF vars, ResultInv, TypeOK, Counted, GoodOrRevoked, NearestReported, Before
  <2> QED
    BY <1>2, <2>2, <2>3
<1> QED
  BY <1>1, <1>2, PTL DEF Spec

(* However many entries a certificate has in the two CRLs: it is good if   *)
(* and only if none of them is dated before the time, revoked otherwise.   *)
THEOREM DecidedByEntries == Spec => [](TypeOK /\ GoodOrRevoked)
<1>1. ResultInv => TypeOK /\ GoodOrRevoked
  BY DEF ResultInv
<1> QED
  BY <1>1, ResultInvHolds, PTL

(* Of one entry in each CRL, or two in one, the later one is reported.     *)
(* (findNearBefore can miss it if there are three.)                        *)
THEOREM ResultIsRight ==
  ASSUME MaxEntries <= 2
  PROVE  Spec => []ResultRight
<1>1. ResultInv => ResultRight
  BY DEF ResultInv, ResultRight
<1> QED
  BY <1>1, ResultInvHolds, PTL

-----------------------------------------------------------------------------
(* Calls at the same time *)

LEMMA LeastNumber ==
  ASSUME NEW S \in SUBSET Nat, S # {}
  PROVE  \E n \in S : \A m \in S : n <= m
<1> DEFINE R == {ss \in Nat \X Nat : ss[1] < ss[2]}
<1>1. IsWellFoundedOn(R, Nat)
  BY NatLessThanWellFounded DEF OpToRel
<1>2. PICK n \in S : \A m \in S : ~(<<m, n>> \in R)
  <2> HIDE DEF R
  <2> QED
    BY <1>1, WFMin
<1>3. ASSUME NEW m \in S PROVE n <= m
  <2>1. ~(m < n) /\ m \in Nat /\ n \in Nat
    BY <1>2
  <2> QED
    BY <2>1
<1> QED
  BY <1>3

-----------------------------------------------------------------------------
(* The inductive invariant *)

(* A call that sets the actuality has locked the store; it has chosen the  *)
(* newest CRL, and those it is done with are marked.                       *)
Marking ==
  \A c \in Calls : pc[c] = "mark" =>
    /\ owner.crlStore = c
    /\ marking[c] # {} /\ marking[c] \subseteq Range(items)
    /\ crl_item[c] \in Range(items) /\ \A n \in Range(items) : n <= crl_item[c]
    /\ actuality[crl_item[c]] # "obsolete"
    /\ \A n \in Range(items) \ marking[c] :
         actuality[n] = IF n = crl_item[c] THEN "last" ELSE "obsolete"

(* A CRL that was not added yet has not been looked at. *)
Unmarked == \A n \in Times \ Range(items) : actuality[n] = "undefined"

(* Also in the middle of that a CRL is obsolete only if a newer one is not. *)
NewerAvailable ==
  \A m \in Range(items) : actuality[m] = "obsolete" =>
    \E n \in Range(items) : m < n /\ actuality[n] # "obsolete"

(* What a call knows of the CRL it got: the cache has it, it is not older  *)
(* than those of the calls before, and what it downloads is newer.         *)
Going ==
  \A c \in Calls :
    /\ {seen[c], used[c]} \subseteq Range(items) \cup {0}
    /\ pc[c] # "done" => used[c] = 0
    /\ pc[c] \in {"mark", "lock", "download", "add", "signer", "verify"} =>
         crl_item[c] >= seen[c] /\ crl_item[c] \in Range(items) \cup {0}
    /\ pc[c] \in {"download", "add"} => crl_item[c] < validateTime[c]
    /\ pc[c] = "add" => sba_crl[c] # 0
    /\ pc[c] \in {"signer", "verify"} => crl_item[c] # 0

DownloadInv ==
  /\ DownloadTypeOK /\ OneLastAvailable /\ NeverOlder
  /\ Marking /\ Unmarked /\ NewerAvailable /\ Going

-----------------------------------------------------------------------------
(* The newest and the first of some CRLs *)

LEMMA NewestFound ==
  ASSUME NEW S \in SUBSET Numbers
  PROVE  Newest(S) \in S \cup {0} /\ \A n \in S : n <= Newest(S)
<1> DEFINE T == {MaxTime - n : n \in S \cup {0}}
<1>1. MaxTime \in Nat /\ \A n \in S \cup {0} : n \in Nat /\ n <= MaxTime
  BY CallsAssumption DEF Numbers
<1>2. T \in SUBSET Nat /\ T # {}
  BY <1>1
<1>3. PICK t \in T : \A u \in T : t <= u
  <2> HIDE DEF T
  <2> QED
    BY <1>2, LeastNumber
<1>4. PICK k \in S \cup {0} : t = MaxTime - k
  BY <1>3
<1>5. \A n \in S \cup {0} : k >= n
  <2> SUFFICES ASSUME NEW n \in S \cup {0} PROVE k >= n
    OBVIOUS
  <2>1. MaxTime - k <= MaxTime - n
    BY <1>3, <1>4
  <2> QED
    BY <1>1, <2>1
<1>6. Newest(S) = CHOOSE x \in S \cup {0} : \A y \in S \cup {0} : x >= y
  BY DEF Newest, Max
<1>7. Newest(S) \in S \cup {0} /\ \A y \in S \cup {0} : Newest(S) >= y
  BY <1>5, <1>6
<1> QED
  BY <1>1, <1>7

LEMMA ForemostFound ==
  ASSUME items \in Seq(Times), NEW S \in SUBSET Range(items), S # {}
  PROVE  Foremost(S) \in S
<1> DEFINE spots == {i \in DOMAIN items : items[i] \in S}
<1>1. spots \in SUBSET Nat /\ spots # {}
  BY DEF Range
<1>2. Foremost(S) = items[Min(spots)]
  BY DEF Foremost
<1> HIDE DEF spots
<1>3. Min(spots) \in spots
  BY <1>1, LeastNumber DEF Min
<1> QED
  BY <1>2, <1>3 DEF spots

LEMMA Added ==
  ASSUME items \in Seq(Times), NEW n \in Times
  PROVE  /\ addItem(n) \in Seq(Times)
         /\ Range(addItem(n)) = Range(items) \cup {n}
<1>1. CASE n \in Range(items)
  BY <1>1 DEF addItem
<1>2. CASE n \notin Range(items)
  <2> DEFINE new == Append(items, n)
  <2>1. addItem(n) = new
    BY <1>2 DEF addItem
  <2>2. /\ Len(items) \in Nat /\ DOMAIN items = 1 .. Len(items)
        /\ new \in Seq(Times) /\ DOMAIN new = 1 .. Len(items) + 1
        /\ new[Len(items) + 1] = n /\ \A i \in 1 .. Len(items) : new[i] = items[i]
    OBVIOUS
  <2> HIDE DEF new
  <2>3. Range(new) = Range(items) \cup {n}
    <3>1. \A i \in DOMAIN new : new[i] \in Range(items) \cup {n}
      BY <2>2 DEF Range
    <3>2. \A m \in Range(items) : \E i \in DOMAIN new : new[i] = m
      BY <2>2 DEF Range
    <3>3. \E i \in DOMAIN new : new[i] = n
      BY <2>2
    <3> QED
      BY <3>1, <3>2, <3>3 DEF Range
  <2> QED
    BY <2>1, <2>2, <2>3
<1> QED
  BY <1>1, <1>2

LEMMA RangeItems == ASSUME items \in Seq(Times) PROVE Range(items) \subseteq Times
BY DEF Range

LEMMA RangeUsed ==
  ASSUME used \in [Calls -> Numbers]
  PROVE  /\ Range(used) \subseteq Numbers
         /\ \A n \in Range(used) : \E c \in Calls : n = used[c]
BY DEF Range

-----------------------------------------------------------------------------
(* The mutexes *)

Owners == [crlStore : Calls \cup {NoCall}, first : Calls \cup {NoCall},
           cerStore : Calls \cup {NoCall}, cer : [Certs -> Calls \cup {NoCall}],
           crl : [Times -> Calls \cup {NoCall}]]

(* Locking or unlocking any but the one of the store. *)
LEMMA DownloadLocked ==
  ASSUME DownloadTypeOK, NEW c \in Calls, NEW who \in Calls \cup {NoCall}
  PROVE  /\ WithDownloadMutex(c, who) \in Owners
         /\ WithDownloadMutex(c, who).crlStore = owner.crlStore
<1>1. owner \in Owners
  BY DEF DownloadTypeOK, Owners
<1>2. crl_item[c] # 0 => crl_item[c] \in Times
  BY CallsAssumption DEF DownloadTypeOK, Numbers, Times
<1> QED
  BY <1>1, <1>2 DEF WithDownloadMutex, Owners

LEMMA SubjectLocked ==
  ASSUME DownloadTypeOK, NEW c \in Calls, NEW who \in Calls \cup {NoCall}, NEW mutexes \in Owners
  PROVE  LET new == [mutexes EXCEPT !.cer[cerSubject[c]] = who] IN
         new \in Owners /\ new.crlStore = mutexes.crlStore
<1>1. cerSubject[c] \in Certs
  BY DEF DownloadTypeOK
<1> QED
  BY <1>1 DEF Owners

-----------------------------------------------------------------------------
(* The steps *)

(* A step that neither uses the store nor unlocks it. *)
LEMMA StoreKept ==
  ASSUME DownloadInv, items' = items, actuality' = actuality, owner'.crlStore = owner.crlStore,
         crl_item' = crl_item, marking' = marking, \A d \in Calls : pc'[d] = "mark" => pc[d] = "mark"
  PROVE  OneLastAvailable' /\ Marking' /\ Unmarked' /\ NewerAvailable'
<1>1. OneLastAvailable' /\ Unmarked' /\ NewerAvailable'
  BY DEF DownloadInv, OneLastAvailable, Unmarked, NewerAvailable
<1>2. Marking'
  BY DEF DownloadInv, Marking
<1> QED
  BY <1>1, <1>2

LEMMA Moved ==
  ASSUME DownloadTypeOK, NEW c \in Calls, NEW from, NEW to \in Points, Goto(c, from, to)
  PROVE  /\ pc[c] = from /\ pc'[c] = to /\ pc' \in [Calls -> Points]
         /\ \A d \in Calls \ {c} : pc'[d] = pc[d]
BY DEF Goto, DownloadTypeOK

LEMMA StepBegin ==
  ASSUME DownloadInv, NEW c \in Calls, Begin(c)
  PROVE  DownloadInv'
<1>1. /\ pc[c] = "ready" /\ pc'[c] = "subject" /\ pc' \in [Calls -> Points]
      /\ \A d \in Calls \ {c} : pc'[d] = pc[d]
  BY Moved DEF Begin, Points, DownloadInv
<1>2. PICK chosen \in 1 .. now : validateTime' = [validateTime EXCEPT ![c] = chosen]
  BY DEF Begin
<1>3. chosen \in Numbers
  BY <1>2, CallsAssumption DEF DownloadInv, DownloadTypeOK, Times, Numbers
<1>4. /\ Newest(Range(used)) \in Range(used) \cup {0}
      /\ Newest(Range(used)) \in Numbers
  <2>1. Range(used) \in SUBSET Numbers /\ 0 \in Numbers
    BY RangeUsed, CallsAssumption DEF DownloadInv, DownloadTypeOK, Numbers
  <2> QED
    BY <2>1, NewestFound
<1>5. Newest(Range(used)) \in Range(items) \cup {0}
  BY <1>4, RangeUsed DEF DownloadInv, DownloadTypeOK, Going
<1>6. /\ seen' = [seen EXCEPT ![c] = Newest(Range(used))]
      /\ items' = items /\ actuality' = actuality /\ now' = now /\ owner' = owner /\ cerSubject' = cerSubject
      /\ crl_item' = crl_item /\ marking' = marking /\ sba_crl' = sba_crl /\ used' = used
  BY DEF Begin, store
<1>7. DownloadTypeOK'
  BY <1>1, <1>2, <1>3, <1>4, <1>6 DEF DownloadInv, DownloadTypeOK
<1>8. NeverOlder'
  BY <1>1, <1>6 DEF DownloadInv, DownloadTypeOK, NeverOlder, Going
<1>9. OneLastAvailable' /\ Marking' /\ Unmarked' /\ NewerAvailable'
  BY <1>1, <1>6, StoreKept
<1>10. Going'
  <2> SUFFICES ASSUME NEW d \in Calls
               PROVE  /\ {seen'[d], used'[d]} \subseteq Range(items') \cup {0}
                      /\ pc'[d] # "done" => used'[d] = 0
                      /\ pc'[d] \in {"mark", "lock", "download", "add", "signer", "verify"} =>
                           crl_item'[d] >= seen'[d] /\ crl_item'[d] \in Range(items') \cup {0}
                      /\ pc'[d] \in {"download", "add"} => crl_item'[d] < validateTime'[d]
                      /\ pc'[d] = "add" => sba_crl'[d] # 0
                      /\ pc'[d] \in {"signer", "verify"} => crl_item'[d] # 0
    BY DEF Going
  <2>1. CASE d = c
    BY <1>1, <1>5, <1>6, <2>1 DEF DownloadInv, DownloadTypeOK, Going
  <2>2. CASE d # c
    BY <1>1, <1>2, <1>6, <2>2 DEF DownloadInv, DownloadTypeOK, Going
  <2> QED
    BY <2>1, <2>2
<1> QED
  BY <1>7, <1>8, <1>9, <1>10 DEF DownloadInv

(* What Going says of one call. *)
GoingOne(c) ==
  /\ {seen[c], used[c]} \subseteq Range(items) \cup {0}
  /\ pc[c] # "done" => used[c] = 0
  /\ pc[c] \in {"mark", "lock", "download", "add", "signer", "verify"} =>
       crl_item[c] >= seen[c] /\ crl_item[c] \in Range(items) \cup {0}
  /\ pc[c] \in {"download", "add"} => crl_item[c] < validateTime[c]
  /\ pc[c] = "add" => sba_crl[c] # 0
  /\ pc[c] \in {"signer", "verify"} => crl_item[c] # 0

(* The other calls know what they knew. *)
LEMMA OthersGoing ==
  ASSUME DownloadInv, NEW c \in Calls, GoingOne(c)', used'[c] # 0 => used'[c] >= seen'[c],
         Range(items) \subseteq Range(items'),
         \A d \in Calls \ {c} :
           /\ pc'[d] = pc[d] /\ validateTime'[d] = validateTime[d] /\ crl_item'[d] = crl_item[d]
           /\ sba_crl'[d] = sba_crl[d] /\ used'[d] = used[d] /\ seen'[d] = seen[d]
  PROVE  Going' /\ NeverOlder'
<1>1. ASSUME NEW d \in Calls PROVE GoingOne(d)'
  BY DEF DownloadInv, Going, GoingOne
<1>2. ASSUME NEW d \in Calls PROVE used'[d] # 0 => used'[d] >= seen'[d]
  BY DEF DownloadInv, NeverOlder
<1> QED
  BY <1>1, <1>2 DEF Going, GoingOne, NeverOlder

(* The steps of the mutexes of certificates and of their store. *)
LEMMA StepLock ==
  ASSUME DownloadInv, NEW c \in Calls,
         \/ LockSubject(c) \/ FindSigner(c) \/ TakeCached(c)
         \/ BeginAddCerts(c) \/ AddCerts(c) \/ SetUniqueKeyId(c)
  PROVE  DownloadInv'
<1>1. /\ now' = now /\ items' = items /\ actuality' = actuality /\ cerSubject' = cerSubject
      /\ validateTime' = validateTime /\ crl_item' = crl_item /\ marking' = marking
      /\ sba_crl' = sba_crl /\ used' = used /\ seen' = seen
  BY DEF LockSubject, FindSigner, TakeCached, BeginAddCerts,
         AddCerts, SetUniqueKeyId, store, locals
<1>2. DownloadTypeOK /\ GoingOne(c) /\ (used[c] # 0 => used[c] >= seen[c])
  BY DEF DownloadInv, Going, GoingOne, NeverOlder
<1>3. /\ pc' \in [Calls -> Points] /\ \A d \in Calls \ {c} : pc'[d] = pc[d]
      /\ \/ pc[c] \in {"subject", "ready", "addCerts", "setUnique"} /\
            pc'[c] \in {"getCrl", "addCerts", "setUnique", "done"}
         \/ pc[c] = "signer" /\ pc'[c] = "verify"
         \/ pc[c] = "lock" /\ pc'[c] = "signer" /\ crl_item[c] # 0
  <2>1. CASE LockSubject(c)
    BY <1>2, <2>1, Moved DEF LockSubject, Points
  <2>2. CASE FindSigner(c)
    BY <1>2, <2>2, Moved DEF FindSigner, Points
  <2>3. CASE TakeCached(c)
    BY <1>2, <2>3, Moved DEF TakeCached, Points
  <2>4. CASE BeginAddCerts(c)
    BY <1>2, <2>4, Moved DEF BeginAddCerts, Points
  <2>5. CASE AddCerts(c)
    BY <1>2, <2>5, Moved DEF AddCerts, Points
  <2>6. CASE SetUniqueKeyId(c)
    BY <1>2, <2>6, Moved DEF SetUniqueKeyId, Points
  <2> QED
    BY <2>1, <2>2, <2>3, <2>4, <2>5, <2>6
<1>4. owner' \in Owners /\ owner'.crlStore = owner.crlStore
  <2>1. owner \in Owners
    BY DEF DownloadInv, DownloadTypeOK, Owners
  <2>2. CASE LockSubject(c)
    BY <1>2, <2>1, <2>2, SubjectLocked DEF LockSubject
  <2>3. CASE AddCerts(c) \/ SetUniqueKeyId(c)
    BY <2>1, <2>3 DEF AddCerts, SetUniqueKeyId, Owners
  <2>4. CASE FindSigner(c) \/ TakeCached(c) \/ BeginAddCerts(c)
    BY <2>1, <2>4 DEF FindSigner, TakeCached, BeginAddCerts
  <2> QED
    BY <2>2, <2>3, <2>4
<1>5. DownloadTypeOK'
  BY <1>1, <1>2, <1>3, <1>4 DEF DownloadTypeOK, Owners
<1>6. OneLastAvailable' /\ Marking' /\ Unmarked' /\ NewerAvailable'
  <2>1. \A d \in Calls : pc'[d] = "mark" => pc[d] = "mark"
    BY <1>3
  <2> QED
    BY <1>1, <1>4, <2>1, StoreKept
<1>7. GoingOne(c)'
  BY <1>1, <1>2, <1>3 DEF GoingOne
<1>8. Going' /\ NeverOlder'
  BY <1>1, <1>2, <1>3, <1>7, OthersGoing
<1> QED
  BY <1>5, <1>6, <1>8 DEF DownloadInv

LEMMA StepGetCrl ==
  ASSUME DownloadInv, NEW c \in Calls, GetCrl(c)
  PROVE  DownloadInv'
<1> DEFINE n == Newest(Available)
<1>1. /\ pc[c] = "getCrl" /\ pc'[c] = IF Available = {} THEN "lock" ELSE "mark"
      /\ pc' \in [Calls -> Points] /\ \A d \in Calls \ {c} : pc'[d] = pc[d]
  <2>1. (IF Available = {} THEN "lock" ELSE "mark") \in Points
    BY DEF Points
  <2> QED
    BY <2>1, Moved DEF GetCrl, DownloadInv
<1>2. /\ owner.crlStore = NoCall /\ now' = now /\ items' = items /\ actuality' = actuality
      /\ cerSubject' = cerSubject /\ validateTime' = validateTime /\ sba_crl' = sba_crl
      /\ used' = used /\ seen' = seen
      /\ crl_item' = [crl_item EXCEPT ![c] = n] /\ marking' = [marking EXCEPT ![c] = Available]
      /\ owner' = IF Available = {} THEN owner ELSE [owner EXCEPT !.crlStore = c]
  BY DEF GetCrl, store, find_last_available
<1>3. DownloadTypeOK /\ GoingOne(c) /\ (used[c] # 0 => used[c] >= seen[c]) /\ items \in Seq(Times)
  BY DEF DownloadInv, DownloadTypeOK, Going, GoingOne, NeverOlder
<1>4. /\ Available \in SUBSET Range(items) /\ Range(items) \in SUBSET Times
      /\ Range(items) \in SUBSET Numbers
  BY <1>3, RangeItems DEF Available, Times, Numbers
<1>5. /\ n \in Available \cup {0} /\ n \in Numbers /\ \A m \in Available : m <= n
      /\ n \in Range(items) \cup {0}
  <2>1. Available \in SUBSET Numbers /\ 0 \in Numbers
    BY <1>4, CallsAssumption DEF Numbers
  <2> HIDE DEF n
  <2>2. n \in Available \cup {0} /\ \A m \in Available : m <= n
    BY <2>1, NewestFound DEF n
  <2> QED
    BY <1>4, <2>1, <2>2
<1> HIDE DEF n
(* Also of those that are obsolete none is newer. *)
<1>6. \A m \in Range(items) : m <= n
  <2> SUFFICES ASSUME NEW m \in Range(items) PROVE m <= n
    OBVIOUS
  <2>1. CASE actuality[m] # "obsolete"
    BY <1>5, <2>1 DEF Available
  <2>2. CASE actuality[m] = "obsolete"
    <3>1. PICK k \in Range(items) : m < k /\ actuality[k] # "obsolete"
      BY <2>2 DEF DownloadInv, NewerAvailable
    <3>2. k <= n
      BY <1>5, <3>1 DEF Available
    <3> QED
      BY <1>4, <1>5, <3>1, <3>2 DEF Numbers
  <2> QED
    BY <2>1, <2>2
<1>7. owner' \in Owners /\ (Available # {} => owner'.crlStore = c)
  BY <1>2, <1>3 DEF DownloadTypeOK, Owners
<1>8. DownloadTypeOK'
  <2>1. Available \in SUBSET Times
    BY <1>4
  <2>2. marking' \in [Calls -> SUBSET Times] /\ crl_item' \in [Calls -> Numbers]
    BY <1>2, <1>3, <1>5, <2>1 DEF DownloadTypeOK
  <2> QED
    BY <1>1, <1>2, <1>3, <1>7, <2>2 DEF DownloadTypeOK, Owners
<1>9. OneLastAvailable' /\ Unmarked' /\ NewerAvailable'
  BY <1>2 DEF DownloadInv, OneLastAvailable, Unmarked, NewerAvailable
<1>10. Marking'
  <2> SUFFICES ASSUME NEW d \in Calls, pc'[d] = "mark"
               PROVE  /\ owner'.crlStore = d
                      /\ marking'[d] # {} /\ marking'[d] \subseteq Range(items)
                      /\ crl_item'[d] \in Range(items) /\ \A k \in Range(items) : k <= crl_item'[d]
                      /\ actuality[crl_item'[d]] # "obsolete"
                      /\ \A k \in Range(items) \ marking'[d] :
                           actuality[k] = IF k = crl_item'[d] THEN "last" ELSE "obsolete"
    BY <1>2 DEF Marking
  <2>1. d = c
    BY <1>1, <1>2, CallsAssumption DEF DownloadInv, Marking
  <2>2. Available # {} /\ marking'[d] = Available /\ crl_item'[d] = n
    BY <1>1, <1>2, <1>3, <2>1 DEF DownloadTypeOK
  <2>3. n \in Available
    <3>1. PICK m \in Available : m <= n
      BY <1>5, <2>2
    <3>2. m # 0
      BY <1>4, <3>1 DEF Times
    <3>3. n # 0
      BY <1>4, <1>5, <3>1, <3>2 DEF Times, Numbers
    <3> QED
      BY <1>5, <3>3
  <2>4. \A k \in Range(items) \ Available : actuality[k] = "obsolete"
    BY DEF Available
  <2>5. n \in Range(items) /\ actuality[n] # "obsolete"
    BY <2>3 DEF Available
  <2>6. \A k \in Range(items) \ Available : k # n
    BY <2>3
  <2> QED
    BY <1>4, <1>6, <1>7, <2>1, <2>2, <2>4, <2>5, <2>6
<1>11. GoingOne(c)'
  <2>1. n >= seen[c]
    <3>1. seen[c] \in Numbers
      BY <1>3 DEF DownloadTypeOK
    <3>2. seen[c] <= n
      <4>1. seen[c] \in Range(items) \/ seen[c] = 0
        BY <1>3 DEF GoingOne
      <4>2. 0 <= n
        BY <1>5 DEF Numbers
      <4> QED
        BY <1>6, <4>1, <4>2
    <3> QED
      BY <1>5, <3>1, <3>2 DEF Numbers
  <2>2. crl_item'[c] = n
    BY <1>2, <1>3 DEF DownloadTypeOK
  <2> QED
    BY <1>1, <1>2, <1>3, <1>5, <2>1, <2>2 DEF GoingOne
<1>12. Going' /\ NeverOlder'
  BY <1>1, <1>2, <1>3, <1>11, OthersGoing
<1> QED
  BY <1>8, <1>9, <1>10, <1>12 DEF DownloadInv

LEMMA StepSetActuality ==
  ASSUME DownloadInv, NEW c \in Calls, SetActuality(c)
  PROVE  DownloadInv'
<1> DEFINE n == Foremost(marking[c])
           rest == marking[c] \ {n}
           act == IF n = crl_item[c] THEN "last" ELSE "obsolete"
<1>1. /\ pc[c] = "mark" /\ owner.crlStore = c
      /\ marking[c] # {} /\ marking[c] \subseteq Range(items)
      /\ crl_item[c] \in Range(items) /\ \A k \in Range(items) : k <= crl_item[c]
      /\ actuality[crl_item[c]] # "obsolete"
      /\ \A k \in Range(items) \ marking[c] :
           actuality[k] = IF k = crl_item[c] THEN "last" ELSE "obsolete"
  BY DEF SetActuality, DownloadInv, Marking
<1>2. DownloadTypeOK /\ GoingOne(c) /\ (used[c] # 0 => used[c] >= seen[c]) /\ items \in Seq(Times)
  BY DEF DownloadInv, DownloadTypeOK, Going, GoingOne, NeverOlder
<1>3. n \in marking[c] /\ n \in Range(items) /\ Range(items) \subseteq Times
  BY <1>1, <1>2, ForemostFound, RangeItems
<1>4. /\ now' = now /\ items' = items /\ cerSubject' = cerSubject /\ validateTime' = validateTime
      /\ crl_item' = crl_item /\ sba_crl' = sba_crl /\ used' = used /\ seen' = seen
      /\ actuality' = [actuality EXCEPT ![n] = act]
      /\ marking' = [marking EXCEPT ![c] = rest]
      /\ \/ rest # {} /\ pc' = pc /\ owner' = owner
         \/ rest = {} /\ Goto(c, "mark", "lock") /\ owner' = [owner EXCEPT !.crlStore = NoCall]
  <2>1. marking[c] # {n} => rest # {}
    BY <1>1
  <2>2. marking[c] = {n} => rest = {}
    OBVIOUS
  <2>3. /\ now' = now /\ items' = items /\ cerSubject' = cerSubject /\ validateTime' = validateTime
        /\ crl_item' = crl_item /\ sba_crl' = sba_crl /\ used' = used /\ seen' = seen
        /\ actuality' = [actuality EXCEPT ![n] = act]
        /\ marking' = [marking EXCEPT ![c] = rest]
    BY DEF SetActuality
  <2>4. IF marking[c] # {n} THEN UNCHANGED <<pc, owner>>
        ELSE Goto(c, "mark", "lock") /\ owner' = [owner EXCEPT !.crlStore = NoCall]
    BY DEF SetActuality
  <2> HIDE DEF n, rest, act
  <2> QED
    BY <2>1, <2>2, <2>3, <2>4
<1>5. /\ pc' \in [Calls -> Points] /\ \A d \in Calls \ {c} : pc'[d] = pc[d]
      /\ rest # {} => pc'[c] = "mark" /\ owner' = owner
      /\ rest = {} => pc'[c] = "lock" /\ owner' = [owner EXCEPT !.crlStore = NoCall]
  <2>1. "lock" \in Points
    BY DEF Points
  <2> HIDE DEF rest
  <2>2. CASE rest # {}
    BY <1>1, <1>2, <1>4, <2>2 DEF DownloadTypeOK
  <2>3. CASE rest = {}
    BY <1>2, <1>4, <2>1, <2>3, Moved
  <2> QED
    BY <2>2, <2>3
<1>6. rest \subseteq marking[c] /\ n \notin rest /\ \A k \in marking[c] : k = n \/ k \in rest
  OBVIOUS
<1>7. act \in {"last", "obsolete"}
  OBVIOUS
<1> HIDE DEF n, rest
<1>8. /\ marking'[c] = rest /\ actuality'[n] = act
      /\ \A k \in Times \ {n} : actuality'[k] = actuality[k]
  BY <1>2, <1>3, <1>4 DEF DownloadTypeOK
<1>9. DownloadTypeOK'
  <2>1. /\ marking' \in [Calls -> SUBSET Times]
        /\ actuality' \in [Times -> {"undefined", "last", "obsolete"}]
    BY <1>1, <1>2, <1>3, <1>4, <1>6, <1>7 DEF DownloadTypeOK
  <2>2. owner' \in Owners
    BY <1>2, <1>5 DEF DownloadTypeOK, Owners
  <2> QED
    BY <1>2, <1>4, <1>5, <2>1, <2>2 DEF DownloadTypeOK, Owners
(* The newest CRL stays available. *)
<1>10. actuality'[crl_item[c]] # "obsolete"
  BY <1>1, <1>3, <1>8
<1>11. \A k \in Range(items) \ rest : actuality'[k] = IF k = crl_item[c] THEN "last" ELSE "obsolete"
  BY <1>1, <1>3, <1>6, <1>8
<1>12. Marking'
  <2> SUFFICES ASSUME NEW d \in Calls, pc'[d] = "mark"
               PROVE  /\ owner'.crlStore = d
                      /\ marking'[d] # {} /\ marking'[d] \subseteq Range(items)
                      /\ crl_item[d] \in Range(items) /\ \A k \in Range(items) : k <= crl_item[d]
                      /\ actuality'[crl_item[d]] # "obsolete"
                      /\ \A k \in Range(items) \ marking'[d] :
                           actuality'[k] = IF k = crl_item[d] THEN "last" ELSE "obsolete"
    BY <1>4 DEF Marking
  <2>1. d = c
    BY <1>1, <1>5 DEF DownloadInv, Marking
  <2> QED
    BY <1>1, <1>5, <1>6, <1>8, <1>10, <1>11, <2>1
<1>13. OneLastAvailable'
  <2> SUFFICES ASSUME owner'.crlStore = NoCall, NEW k \in Range(items), NEW m \in Range(items),
                      actuality'[k] = "last", k # m
               PROVE  actuality'[m] # "last" /\ (actuality'[m] = "obsolete" => m < k)
    BY <1>4 DEF OneLastAvailable
  <2>1. rest = {}
    BY <1>1, <1>5, CallsAssumption
  <2>2. k = crl_item[c] /\ actuality'[m] = "obsolete" /\ m <= k
    BY <1>1, <1>11, <2>1
  <2> QED
    BY <1>3, <2>2 DEF Times
<1>14. Unmarked'
  BY <1>3, <1>4, <1>8 DEF DownloadInv, Unmarked
<1>15. NewerAvailable'
  <2> SUFFICES ASSUME NEW m \in Range(items), actuality'[m] = "obsolete"
               PROVE  m < crl_item[c]
    BY <1>1, <1>4, <1>10 DEF NewerAvailable
  <2>1. m # crl_item[c] /\ m <= crl_item[c]
    BY <1>1, <1>10
  <2> QED
    BY <1>1, <1>3, <2>1 DEF Times
<1>16. GoingOne(c)'
  BY <1>1, <1>2, <1>4, <1>5 DEF GoingOne
<1>17. Going' /\ NeverOlder'
  BY <1>2, <1>4, <1>5, <1>16, OthersGoing
<1> QED
  BY <1>9, <1>12, <1>13, <1>14, <1>15, <1>17 DEF DownloadInv

LEMMA StepTick ==
  ASSUME DownloadInv, Tick
  PROVE  DownloadInv'
<1>1. /\ now \in Times /\ now < MaxTime /\ now' = now + 1 /\ items' = items /\ actuality' = actuality
      /\ owner' = owner /\ pc' = pc /\ cerSubject' = cerSubject /\ validateTime' = validateTime
      /\ crl_item' = crl_item /\ marking' = marking /\ sba_crl' = sba_crl /\ used' = used /\ seen' = seen
  BY DEF Tick, store, locals, DownloadInv, DownloadTypeOK
<1>2. now' \in Times
  BY <1>1, CallsAssumption DEF Times
<1>3. DownloadTypeOK'
  BY <1>1, <1>2 DEF DownloadInv, DownloadTypeOK
<1>4. OneLastAvailable' /\ Marking' /\ Unmarked' /\ NewerAvailable'
  BY <1>1, StoreKept
<1>5. Going' /\ NeverOlder'
  BY <1>1 DEF DownloadInv, Going, NeverOlder
<1> QED
  BY <1>3, <1>4, <1>5 DEF DownloadInv

LEMMA StepLockDownload ==
  ASSUME DownloadInv, NEW c \in Calls, LockDownload(c)
  PROVE  DownloadInv'
<1>1. /\ now' = now /\ items' = items /\ actuality' = actuality /\ cerSubject' = cerSubject
      /\ validateTime' = validateTime /\ crl_item' = crl_item /\ marking' = marking
      /\ sba_crl' = sba_crl /\ used' = used /\ seen' = seen
      /\ crl_item[c] < validateTime[c]
  BY DEF LockDownload, store, locals
<1>2. DownloadTypeOK /\ GoingOne(c) /\ (used[c] # 0 => used[c] >= seen[c])
  BY DEF DownloadInv, Going, GoingOne, NeverOlder
<1>3. /\ pc[c] = "lock" /\ pc'[c] = "download"
      /\ pc' \in [Calls -> Points] /\ \A d \in Calls \ {c} : pc'[d] = pc[d]
  BY <1>2, Moved DEF LockDownload, Points
<1>4. owner' \in Owners /\ owner'.crlStore = owner.crlStore
  BY <1>2, DownloadLocked DEF LockDownload
<1>5. DownloadTypeOK'
  BY <1>1, <1>2, <1>3, <1>4 DEF DownloadTypeOK, Owners
<1>6. OneLastAvailable' /\ Marking' /\ Unmarked' /\ NewerAvailable'
  <2>1. \A d \in Calls : pc'[d] = "mark" => pc[d] = "mark"
    BY <1>3
  <2> QED
    BY <1>1, <1>4, <2>1, StoreKept
<1>7. GoingOne(c)'
  BY <1>1, <1>2, <1>3 DEF GoingOne
<1>8. Going' /\ NeverOlder'
  BY <1>1, <1>2, <1>3, <1>7, OthersGoing
<1> QED
  BY <1>5, <1>6, <1>8 DEF DownloadInv

LEMMA StepDownload ==
  ASSUME DownloadInv, NEW c \in Calls, Download(c)
  PROVE  DownloadInv'
<1>1. /\ now' = now /\ items' = items /\ actuality' = actuality /\ cerSubject' = cerSubject
      /\ validateTime' = validateTime /\ crl_item' = crl_item /\ marking' = marking
      /\ owner' = owner /\ used' = used /\ seen' = seen
  BY DEF Download, store
<1>2. DownloadTypeOK /\ GoingOne(c) /\ (used[c] # 0 => used[c] >= seen[c])
  BY DEF DownloadInv, Going, GoingOne, NeverOlder
<1>3. /\ pc[c] = "download" /\ pc'[c] = "add"
      /\ pc' \in [Calls -> Points] /\ \A d \in Calls \ {c} : pc'[d] = pc[d]
  BY <1>2, Moved DEF Download, Points
<1>4. PICK n \in {now, now - 1} \ {0} : sba_crl' = [sba_crl EXCEPT ![c] = n]
  BY DEF Download
<1>5. n \in Numbers /\ n # 0
  BY <1>2, <1>4, CallsAssumption DEF DownloadTypeOK, Times, Numbers
<1>6. sba_crl' \in [Calls -> Numbers] /\ sba_crl'[c] = n /\ \A d \in Calls \ {c} : sba_crl'[d] = sba_crl[d]
  BY <1>2, <1>4, <1>5 DEF DownloadTypeOK
<1>7. DownloadTypeOK'
  BY <1>1, <1>2, <1>3, <1>6 DEF DownloadTypeOK
<1>8. OneLastAvailable' /\ Marking' /\ Unmarked' /\ NewerAvailable'
  <2>1. \A d \in Calls : pc'[d] = "mark" => pc[d] = "mark"
    BY <1>3
  <2> QED
    BY <1>1, <2>1, StoreKept
<1>9. GoingOne(c)'
  BY <1>1, <1>2, <1>3, <1>5, <1>6 DEF GoingOne
<1>10. Going' /\ NeverOlder'
  BY <1>1, <1>2, <1>3, <1>6, <1>9, OthersGoing
<1> QED
  BY <1>7, <1>8, <1>10 DEF DownloadInv

(* How a validation ends: with the CRL it had, or without one. *)
LEMMA Ended ==
  ASSUME DownloadInv, NEW c \in Calls, NEW from, NEW n, NEW mutexes \in Owners,
         End(c, from, n, mutexes),
         pc[c] # "ready", n = 0 \/ (n = crl_item[c] /\ crl_item[c] >= seen[c] /\ n \in Range(items)),
         mutexes.crlStore = owner.crlStore, now' = now, actuality' = actuality, cerSubject' = cerSubject,
         validateTime' = validateTime, marking' = marking, sba_crl' = sba_crl, seen' = seen
  PROVE  /\ pc[c] = from /\ pc'[c] = "done"
         /\ pc' \in [Calls -> Points] /\ \A d \in Calls \ {c} : pc'[d] = pc[d]
         /\ owner' \in Owners /\ owner'.crlStore = owner.crlStore
         /\ used'[c] = n /\ used' \in [Calls -> Numbers] /\ \A d \in Calls \ {c} : used'[d] = used[d]
         /\ Range(items) \subseteq Range(items') => GoingOne(c)'
         /\ used'[c] # 0 => used'[c] >= seen'[c]
<1>1. DownloadTypeOK /\ GoingOne(c) /\ items \in Seq(Times)
  BY DEF DownloadInv, DownloadTypeOK, Going, GoingOne
<1>2. /\ pc[c] = from /\ pc'[c] = "done"
      /\ pc' \in [Calls -> Points] /\ \A d \in Calls \ {c} : pc'[d] = pc[d]
  BY <1>1, Moved DEF End, Points
<1>3. owner' \in Owners /\ owner'.crlStore = owner.crlStore
  BY <1>1, SubjectLocked DEF End
<1>4. n \in Numbers
  BY <1>1, RangeItems, CallsAssumption DEF Times, Numbers
<1>5. used' \in [Calls -> Numbers] /\ used'[c] = n /\ \A d \in Calls \ {c} : used'[d] = used[d]
  BY <1>1, <1>4 DEF End, DownloadTypeOK
<1>6. Range(items) \subseteq Range(items') => GoingOne(c)'
  BY <1>1, <1>2, <1>5 DEF GoingOne
<1> QED
  BY <1>2, <1>3, <1>5, <1>6

LEMMA StepEnd ==
  ASSUME DownloadInv, NEW c \in Calls, DownloadFails(c) \/ VerifyCrl(c)
  PROVE  DownloadInv'
<1>1. /\ now' = now /\ items' = items /\ actuality' = actuality /\ cerSubject' = cerSubject
      /\ validateTime' = validateTime /\ crl_item' = crl_item /\ marking' = marking
      /\ sba_crl' = sba_crl /\ seen' = seen
  BY DEF DownloadFails, VerifyCrl, store
<1>2. DownloadTypeOK /\ GoingOne(c) /\ owner \in Owners /\ Range(items) \subseteq Range(items')
  BY <1>1 DEF DownloadInv, DownloadTypeOK, Going, GoingOne, Owners
<1>3. /\ pc'[c] = "done" /\ pc[c] # "mark"
      /\ pc' \in [Calls -> Points] /\ \A d \in Calls \ {c} : pc'[d] = pc[d]
      /\ owner' \in Owners /\ owner'.crlStore = owner.crlStore
      /\ used' \in [Calls -> Numbers] /\ \A d \in Calls \ {c} : used'[d] = used[d]
      /\ GoingOne(c)' /\ (used'[c] # 0 => used'[c] >= seen'[c])
  <2>1. CASE DownloadFails(c)
    <3> DEFINE mutexes == WithDownloadMutex(c, NoCall)
    <3>1. mutexes \in Owners /\ mutexes.crlStore = owner.crlStore
      BY <1>2, DownloadLocked
    <3> HIDE DEF mutexes
    <3>2. End(c, "download", 0, mutexes) /\ pc[c] = "download"
      BY <2>1 DEF DownloadFails, End, Goto, mutexes
    <3> QED
      BY <1>1, <1>2, <3>1, <3>2, Ended
  <2>2. CASE VerifyCrl(c)
    <3>1. End(c, "verify", crl_item[c], owner) /\ pc[c] = "verify"
      BY <2>2 DEF VerifyCrl, End, Goto
    <3>2. crl_item[c] >= seen[c] /\ crl_item[c] \in Range(items)
      BY <1>2, <3>1 DEF GoingOne
    <3> QED
      BY <1>1, <1>2, <3>1, <3>2, Ended
  <2> QED
    BY <2>1, <2>2
<1>4. DownloadTypeOK'
  BY <1>1, <1>2, <1>3 DEF DownloadTypeOK, Owners
<1>5. OneLastAvailable' /\ Marking' /\ Unmarked' /\ NewerAvailable'
  <2>1. \A d \in Calls : pc'[d] = "mark" => pc[d] = "mark"
    BY <1>3
  <2> QED
    BY <1>1, <1>3, <2>1, StoreKept
<1>6. Going' /\ NeverOlder'
  BY <1>1, <1>2, <1>3, OthersGoing
<1> QED
  BY <1>4, <1>5, <1>6 DEF DownloadInv

LEMMA StepAddCrl ==
  ASSUME DownloadInv, NEW c \in Calls, AddCrl(c)
  PROVE  DownloadInv'
<1> DEFINE n == sba_crl[c]
           mutexes == WithDownloadMutex(c, NoCall)
<1>1. /\ owner.crlStore = NoCall /\ pc[c] = "add"
      /\ now' = now /\ items' = addItem(n) /\ actuality' = actuality /\ cerSubject' = cerSubject
      /\ validateTime' = validateTime /\ crl_item' = [crl_item EXCEPT ![c] = n] /\ marking' = marking
      /\ sba_crl' = sba_crl /\ seen' = seen
      /\ \/ n >= validateTime[c] /\ Goto(c, "add", "signer") /\ owner' = mutexes /\ used' = used
         \/ End(c, "add", 0, mutexes)
  BY DEF AddCrl, End, Goto
<1>2. DownloadTypeOK /\ GoingOne(c) /\ (used[c] # 0 => used[c] >= seen[c]) /\ items \in Seq(Times)
  BY DEF DownloadInv, DownloadTypeOK, Going, GoingOne, NeverOlder
<1>3. n \in Times /\ n \in Numbers
  BY <1>1, <1>2, CallsAssumption DEF GoingOne, DownloadTypeOK, Times, Numbers
<1>4. items' \in Seq(Times) /\ Range(items') = Range(items) \cup {n}
  BY <1>1, <1>2, <1>3, Added
<1>5. mutexes \in Owners /\ mutexes.crlStore = owner.crlStore
  BY <1>2, DownloadLocked
<1>6. /\ crl_item'[c] = n /\ crl_item' \in [Calls -> Numbers]
      /\ \A d \in Calls \ {c} : crl_item'[d] = crl_item[d]
  BY <1>1, <1>2, <1>3 DEF DownloadTypeOK
<1> HIDE DEF n, mutexes
<1>7. /\ pc'[c] \in {"signer", "done"}
      /\ pc' \in [Calls -> Points] /\ \A d \in Calls \ {c} : pc'[d] = pc[d]
      /\ owner' \in Owners /\ owner'.crlStore = NoCall
      /\ used' \in [Calls -> Numbers] /\ \A d \in Calls \ {c} : used'[d] = used[d]
      /\ GoingOne(c)' /\ (used'[c] # 0 => used'[c] >= seen'[c])
  <2>1. CASE n >= validateTime[c] /\ Goto(c, "add", "signer") /\ owner' = mutexes /\ used' = used
    <3>1. pc'[c] = "signer" /\ pc' \in [Calls -> Points] /\ \A d \in Calls \ {c} : pc'[d] = pc[d]
      BY <1>2, <2>1, Moved DEF Points
    <3>2. n >= seen[c] /\ n # 0
      <4>1. crl_item[c] < validateTime[c] /\ crl_item[c] >= seen[c]
        BY <1>1, <1>2 DEF GoingOne
      <4>2. {crl_item[c], validateTime[c], seen[c]} \subseteq Numbers
        BY <1>2 DEF DownloadTypeOK
      <4> QED
        BY <1>3, <2>1, <4>1, <4>2, CallsAssumption DEF Times, Numbers
    <3>3. GoingOne(c)'
      BY <1>1, <1>2, <1>4, <1>6, <2>1, <3>1, <3>2 DEF GoingOne
    <3> QED
      BY <1>1, <1>2, <1>5, <2>1, <3>1, <3>3 DEF DownloadTypeOK
  <2>2. CASE End(c, "add", 0, mutexes)
    <3>1. Range(items) \subseteq Range(items')
      BY <1>4
    <3> QED
      BY <1>1, <1>5, <2>2, <3>1, Ended
  <2> QED
    BY <1>1, <2>1, <2>2
<1>8. DownloadTypeOK'
  BY <1>1, <1>2, <1>4, <1>6, <1>7 DEF DownloadTypeOK, Owners
<1>9. n \notin Range(items) => actuality[n] = "undefined"
  BY <1>3 DEF DownloadInv, Unmarked
<1>10. Marking'
  BY <1>1, <1>7, CallsAssumption DEF DownloadInv, Marking
<1>11. OneLastAvailable'
  BY <1>1, <1>4, <1>9 DEF DownloadInv, OneLastAvailable
<1>12. Unmarked' /\ NewerAvailable'
  BY <1>1, <1>4, <1>9 DEF DownloadInv, Unmarked, NewerAvailable
<1>13. Going' /\ NeverOlder'
  <2>1. Range(items) \subseteq Range(items')
    BY <1>4
  <2> QED
    BY <1>1, <1>6, <1>7, <2>1, OthersGoing
<1> QED
  BY <1>8, <1>10, <1>11, <1>12, <1>13 DEF DownloadInv

-----------------------------------------------------------------------------
(* The invariant holds *)

LEMMA DownloadInvInit ==
  DownloadInit => DownloadInv
<1> SUFFICES ASSUME DownloadInit PROVE DownloadInv
  OBVIOUS
<1>1. 1 \in Times /\ 0 \in Numbers /\ MaxTime \in Nat
  BY CallsAssumption DEF Times, Numbers
<1>2. /\ now = 1 /\ owner.crlStore = NoCall /\ owner \in Owners
      /\ actuality = [n \in Times |-> "undefined"] /\ items \in {<<>>, <<1>>} /\ cerSubject \in [Calls -> Certs]
      /\ pc = [c \in Calls |-> "ready"] /\ marking = [c \in Calls |-> {}]
      /\ validateTime = [c \in Calls |-> 0] /\ crl_item = [c \in Calls |-> 0] /\ sba_crl = [c \in Calls |-> 0]
      /\ used = [c \in Calls |-> 0] /\ seen = [c \in Calls |-> 0]
  BY DEF DownloadInit, Owners
<1>3. items \in Seq(Times)
  <2>1. <<>> \in Seq(Times)
    OBVIOUS
  <2>2. <<1>> \in Seq(Times)
    BY <1>1
  <2> QED
    BY <1>2, <2>1, <2>2
<1>4. DownloadTypeOK
  <2>1. {validateTime, crl_item, sba_crl, used, seen} \subseteq [Calls -> Numbers]
    BY <1>1, <1>2
  <2> QED
    BY <1>1, <1>2, <1>3, <2>1 DEF DownloadTypeOK, Owners, Points
<1>5. \A n \in Range(items) : actuality[n] = "undefined"
  BY <1>2, <1>3, RangeItems
<1>6. OneLastAvailable /\ Unmarked /\ NewerAvailable
  BY <1>2, <1>5 DEF OneLastAvailable, Unmarked, NewerAvailable
<1>7. Marking /\ Going /\ NeverOlder
  BY <1>2 DEF Marking, Going, NeverOlder
<1> QED
  BY <1>4, <1>6, <1>7 DEF DownloadInv

LEMMA DownloadInvStep ==
  DownloadInv /\ [DownloadNext]_downloadVars => DownloadInv'
<1> SUFFICES ASSUME DownloadInv, [DownloadNext]_downloadVars PROVE DownloadInv'
  OBVIOUS
<1>1. CASE Tick
  BY <1>1, StepTick
<1>2. ASSUME NEW c \in Calls,
             Begin(c) \/ BeginAddCerts(c) \/ validateByCrl(c) \/ addCerts(c)
      PROVE  DownloadInv'
  <2>1. CASE Begin(c)
    BY <2>1, StepBegin
  <2>2. CASE \/ LockSubject(c) \/ FindSigner(c) \/ TakeCached(c)
             \/ BeginAddCerts(c) \/ addCerts(c)
    BY <2>2, StepLock DEF addCerts
  <2>3. CASE GetCrl(c)
    BY <2>3, StepGetCrl
  <2>4. CASE SetActuality(c)
    BY <2>4, StepSetActuality
  <2>5. CASE LockDownload(c)
    BY <2>5, StepLockDownload
  <2>6. CASE Download(c)
    BY <2>6, StepDownload
  <2>7. CASE DownloadFails(c) \/ VerifyCrl(c)
    BY <2>7, StepEnd
  <2>8. CASE AddCrl(c)
    BY <2>8, StepAddCrl
  <2> QED
    BY <1>2, <2>1, <2>2, <2>3, <2>4, <2>5, <2>6, <2>7, <2>8 DEF validateByCrl
<1>3. CASE UNCHANGED downloadVars
  BY <1>3
     DEF downloadVars, DownloadInv, DownloadTypeOK, OneLastAvailable, NeverOlder,
         Marking, Unmarked, NewerAvailable, Going
<1> QED
  BY <1>1, <1>2, <1>3 DEF DownloadNext

(* The inductive invariant. *)
THEOREM DownloadInvariant ==
  DownloadSpec => []DownloadInv
BY DownloadInvInit, DownloadInvStep, PTL DEF DownloadSpec

(* Whatever calls look up, mark, download and add CRLs at the same time:   *)
(* whenever CrlStore is unlocked, one CRL at most is the last available    *)
(* one, and only older ones are obsolete.                                  *)
THEOREM CrlsStayConsistent ==
  DownloadSpec => []CrlsConsistent
<1>1. DownloadInv => CrlsConsistent
  BY DEF DownloadInv, CrlsConsistent
<1> QED
  BY <1>1, DownloadInvariant, PTL

(* No validation goes by an older CRL than one that ended before it began: *)
(* getCrl gives the newest the cache has, what is downloaded under the     *)
(* mutex is newer than the one it found, and late servers change nothing.  *)
THEOREM ValidationsNeverGoBack ==
  DownloadSpec => []NeverOlder
<1>1. DownloadInv => NeverOlder
  BY DEF DownloadInv
<1> QED
  BY <1>1, DownloadInvariant, PTL
=============================================================================
