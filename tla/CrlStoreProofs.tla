---------------------------- MODULE CrlStoreProofs ----------------------------
(* CrlStore: the cache over many sessions, for any CRLs and any order in   *)
(* which the directory is read.                                            *)
EXTENDS CrlCache, FiniteSetTheorems, NaturalsInduction, WellFoundedInduction, TLAPS

LEMMA LeastNumber ==
  ASSUME NEW S \in SUBSET Nat, S # {}
  PROVE  \E n \in S : \A m \in S : n <= m
<1> DEFINE R == {ss \in Nat \X Nat : ss[1] < ss[2]}
<1>1. IsWellFoundedOn(R, Nat)
  BY NatLessThanWellFounded DEF OpToRel
<1>2. PICK n \in S : \A m \in S : ~(<<m, n>> \in R)
  <2> HIDE DEF R
  <2> QED
    BY <1>1, WFMin
<1>3. ASSUME NEW m \in S PROVE n <= m
  <2>1. ~(m < n) /\ m \in Nat /\ n \in Nat
    BY <1>2
  <2> QED
    BY <2>1
<1> QED
  BY <1>3

LEMMA GreatestFound ==
  ASSUME NEW S, S # {}, NEW f, NEW b \in Nat, \A x \in S : f[x] \in Nat /\ f[x] <= b
  PROVE  \E x \in S : \A y \in S : f[y] <= f[x]
<1> DEFINE T == {b - f[x] : x \in S}
<1>1. T \in SUBSET Nat /\ T # {}
  OBVIOUS
<1>2. PICK t \in T : \A u \in T : t <= u
  <2> HIDE DEF T
  <2> QED
    BY <1>1, LeastNumber
<1>3. PICK x \in S : t = b - f[x]
  BY <1>2
<1>4. ASSUME NEW y \in S PROVE f[y] <= f[x]
  <2>1. b - f[x] <= b - f[y]
    BY <1>2, <1>3
  <2>2. f[x] \in Nat /\ f[y] \in Nat
    OBVIOUS
  <2> QED
    BY <2>1, <2>2
<1> QED
  BY <1>4

(* The numbers and times of finitely many CRLs have a bound: the least     *)
(* number of CRLs without one would have a predecessor.                    *)
LEMMA CrlsBounded == \E b \in Nat : \A c \in Crls : c.number <= b /\ c.thisUpdate <= b
<1>1. PICK n \in Nat : ExistsSurjection(1 .. n, Crls)
  BY FS_NatSurjection, CrlsAssumption
<1>2. PICK f \in [1 .. n -> Crls] : \A c \in Crls : \E k \in 1 .. n : f[k] = c
  BY <1>1 DEF ExistsSurjection, Surjection
<1> DEFINE Bounds(b, m) == \A k \in 1 .. m : f[k].number <= b /\ f[k].thisUpdate <= b
           U == {m \in Nat : m <= n /\ ~\E b \in Nat : Bounds(b, m)}
<1>3. \A k \in 1 .. n : f[k].number \in Nat /\ f[k].thisUpdate \in Nat
  BY <1>2, CrlsAssumption
<1>4. U = {}
  <2> SUFFICES ASSUME U # {} PROVE FALSE
    OBVIOUS
  <2>1. PICK m \in U : \A u \in U : m <= u
    <3>1. U \in SUBSET Nat
      OBVIOUS
    <3> HIDE DEF U
    <3> QED
      BY <3>1, LeastNumber
  <2>2. m # 0
    <3>1. Bounds(0, 0)
      OBVIOUS
    <3> QED
      BY <2>1, <3>1
  <2>3. m - 1 \in Nat /\ m - 1 <= n /\ m \in 1 .. n /\ ~(m <= m - 1)
    BY <2>1, <2>2
  <2>4. PICK b \in Nat : Bounds(b, m - 1)
    BY <2>1, <2>3
  <2>7. ~\E c \in Nat : Bounds(c, m)
    BY <2>1
  <2> HIDE DEF U
  <2> DEFINE d == b + f[m].number + f[m].thisUpdate
  <2>5. Bounds(d, m)
    <3> SUFFICES ASSUME NEW k \in 1 .. m PROVE f[k].number <= d /\ f[k].thisUpdate <= d
      OBVIOUS
    <3>0. k \in 1 .. n
      BY <2>3
    <3>1. f[k].number \in Nat /\ f[k].thisUpdate \in Nat /\ f[m].number \in Nat /\ f[m].thisUpdate \in Nat
      BY <1>3, <2>3, <3>0
    <3>2. k = m \/ k \in 1 .. m - 1
      BY <2>3
    <3> QED
      BY <2>4, <3>1, <3>2
  <2>6. d \in Nat
    BY <1>3, <2>3
  <2> HIDE DEF Bounds, d
  <2> QED
    BY <2>5, <2>6, <2>7
<1>5. PICK b \in Nat : Bounds(b, n)
  <2> HIDE DEF Bounds
  <2>1. n \notin U
    BY <1>4
  <2> QED
    BY <2>1
<1> QED
  BY <1>2, <1>5

LEMMA FilesFinite ==
  ASSUME NEW S \in SUBSET Files
  PROVE  IsFiniteSet(S) /\ Cardinality(S) \in Nat
<1> DEFINE names == {"generated", "other"}
           P == Crls \X names
           f == [p \in P |-> [crl |-> p[1], name |-> p[2]]]
<1>1. IsFiniteSet(names)
  <2>1. names = {"generated"} \cup {"other"} /\ IsFiniteSet({"generated"})
    BY FS_Singleton
  <2>2. IsFiniteSet({"generated"} \cup {"other"})
    BY <2>1, FS_AddElement
  <2> QED
    BY <2>1, <2>2
<1>2. IsFiniteSet(P)
  BY <1>1, FS_Product, CrlsAssumption
<1>3. f \in Surjection(P, Files)
  <2>1. f \in [P -> Files]
    BY DEF Files
  <2>2. \A y \in Files : \E p \in P : f[p] = y
    <3> SUFFICES ASSUME NEW y \in Files PROVE \E p \in P : f[p] = y
      OBVIOUS
    <3>1. <<y.crl, y.name>> \in P /\ y = [crl |-> y.crl, name |-> y.name]
      BY DEF Files
    <3> QED
      BY <3>1
  <2> HIDE DEF f
  <2> QED
    BY <2>1, <2>2 DEF Surjection
<1>4. IsFiniteSet(Files)
  BY <1>2, <1>3, FS_Surjection
<1> QED
  BY <1>4, FS_Subset, FS_CardinalityType

-----------------------------------------------------------------------------
(* INIT *)

(* Whatever order the directory is read in. *)
LEMMA OrderOfFiles ==
  ASSUME disk \subseteq Files, NEW order \in Bijection(1 .. Cardinality(disk), disk)
  PROVE  /\ DOMAIN order \subseteq Nat \ {0}
         /\ \A k \in DOMAIN order : order[k] \in disk /\ order[k].crl \in Crls
         /\ \A k \in DOMAIN order : 1 .. k - 1 \subseteq DOMAIN order
         /\ \A f \in disk : \E k \in DOMAIN order : order[k] = f
<1>1. Cardinality(disk) \in Nat
  BY FilesFinite
<1>2. order \in [1 .. Cardinality(disk) -> disk] /\ \A f \in disk : \E k \in 1 .. Cardinality(disk) : order[k] = f
  BY DEF Bijection, Injection, Surjection
<1>3. DOMAIN order = 1 .. Cardinality(disk)
  BY <1>2
<1>4. \A f \in disk : f.crl \in Crls
  BY DEF Files
<1>5. \A k \in DOMAIN order : 1 .. k - 1 \subseteq DOMAIN order
  BY <1>1, <1>3
<1> QED
  BY <1>1, <1>2, <1>3, <1>4, <1>5

LEMMA FirstRead ==
  ASSUME disk \subseteq Files, NEW order \in Bijection(1 .. Cardinality(disk), disk), NEW m \in DOMAIN order
  PROVE  \E k \in Read(order) : SameNumber(order[k].crl, order[m].crl)
<1> DEFINE S == {k \in DOMAIN order : SameNumber(order[k].crl, order[m].crl)}
<1>1. S \in SUBSET Nat /\ m \in S
  BY OrderOfFiles DEF SameNumber
<1>2. PICK k \in S : \A j \in S : k <= j
  <2> HIDE DEF S
  <2> QED
    BY <1>1, LeastNumber
<1>3. \A j \in 1 .. k - 1 : ~SameNumber(order[j].crl, order[k].crl)
  <2> SUFFICES ASSUME NEW j \in 1 .. k - 1, SameNumber(order[j].crl, order[k].crl) PROVE FALSE
    OBVIOUS
  <2>1. j \in DOMAIN order /\ j \in Nat /\ k \in Nat /\ ~(k <= j)
    BY OrderOfFiles
  <2>2. j \in S
    BY <1>2, <2>1 DEF SameNumber
  <2> QED
    BY <1>2, <2>1, <2>2
<1> QED
  BY <1>2, <1>3 DEF Read

(* No two of the files that become items are of one authority and number. *)
LEMMA ReadApart ==
  ASSUME disk \subseteq Files, NEW order \in Bijection(1 .. Cardinality(disk), disk),
         NEW j \in Read(order), NEW k \in Read(order), SameNumber(order[j].crl, order[k].crl)
  PROVE  j = k
<1>1. j \in Nat \ {0} /\ k \in Nat \ {0}
  BY OrderOfFiles DEF Read
<1>2. ~(j < k)
  <2> SUFFICES ASSUME j < k PROVE FALSE
    OBVIOUS
  <2>1. j \in 1 .. k - 1
    BY <1>1
  <2> QED
    BY <2>1 DEF Read
<1>3. ~(k < j)
  <2> SUFFICES ASSUME k < j PROVE FALSE
    OBVIOUS
  <2>1. k \in 1 .. j - 1
    BY <1>1
  <2>2. SameNumber(order[k].crl, order[j].crl)
    BY DEF SameNumber
  <2> QED
    BY <2>1, <2>2 DEF Read
<1> QED
  BY <1>1, <1>2, <1>3

(* Of each series of full CRLs one is kept that is not older than any file *)
(* of the series: the first of the freshest in the order of reading.       *)
LEMMA LoadKeeps ==
  ASSUME disk \subseteq Files, NEW order \in Bijection(1 .. Cardinality(disk), disk),
         NEW c \in Crls, c.type = "full", \A d \in Crls : SameGroup(c, d) => OwnNumber(d),
         NEW f \in disk, SameGroup(f.crl, c)
  PROVE  \E k \in Undeleted(order) :
           SameGroup(order[k].crl, c) /\ order[k].crl.thisUpdate >= f.crl.thisUpdate
<1> DEFINE series == {k \in Read(order) : SameGroup(order[k].crl, c)}
           time == [k \in series |-> order[k].crl.thisUpdate]
<1>1. /\ Read(order) \subseteq DOMAIN order /\ Read(order) \subseteq Nat
      /\ \A k \in Read(order) : order[k].crl \in Crls /\ order[k].crl.thisUpdate \in Nat
  BY OrderOfFiles, CrlsAssumption DEF Read
<1>2. PICK m \in series : order[m].crl = f.crl
  <2>1. PICK l \in DOMAIN order : order[l] = f
    BY OrderOfFiles
  <2>2. PICK m \in Read(order) : SameNumber(order[m].crl, order[l].crl)
    BY FirstRead
  <2>3. f.crl \in Crls /\ SameGroup(c, f.crl)
    BY DEF Files, SameGroup
  <2>4. SameNumber(f.crl, order[m].crl)
    BY <2>1, <2>2 DEF SameNumber
  <2>5. order[m].crl = f.crl
    BY <1>1, <2>3, <2>4 DEF OwnNumber
  <2> QED
    BY <2>2, <2>5
<1>3. PICK g \in series : \A j \in series : time[j] <= time[g]
  <2>1. PICK b \in Nat : \A d \in Crls : d.number <= b /\ d.thisUpdate <= b
    BY CrlsBounded
  <2>2. \A k \in series : time[k] \in Nat /\ time[k] <= b
    BY <1>1, <2>1
  <2>3. series # {}
    BY <1>2
  <2> HIDE DEF series, time
  <2> QED
    BY <2>2, <2>3, GreatestFound
<1> DEFINE best == {j \in series : time[j] = time[g]}
<1>4. PICK k \in best : \A j \in best : k <= j
  <2>1. best \in SUBSET Nat /\ g \in best
    BY <1>1, <1>3
  <2> HIDE DEF best
  <2> QED
    BY <2>1, LeastNumber
<1>5. k \in series /\ k \in Nat /\ \A j \in series : time[j] \in Nat /\ time[j] <= time[k]
  BY <1>1, <1>3, <1>4
<1>6. \A j \in Read(order) : SameGroup(order[k].crl, order[j].crl) => j \in series
  BY <1>5 DEF SameGroup
<1>7. ASSUME NEW j \in Read(order), SameGroup(order[k].crl, order[j].crl)
      PROVE  ~Fresher(order[j].crl, order[k].crl) /\ (j < k => Fresher(order[k].crl, order[j].crl))
  <2>1. j \in series /\ j \in Nat
    BY <1>1, <1>6, <1>7
  <2>2. j < k => time[j] # time[k]
    BY <1>4, <1>5, <2>1
  <2>3. time[j] = order[j].crl.thisUpdate /\ time[k] = order[k].crl.thisUpdate
    BY <1>5, <2>1
  <2>4. time[j] \in Nat /\ time[k] \in Nat /\ time[j] <= time[k]
    BY <1>5, <2>1
  <2> HIDE DEF time
  <2> QED
    BY <2>2, <2>3, <2>4 DEF Fresher
<1>8. k \in Kept(order)
  BY <1>5, <1>7 DEF Kept
<1>9. k \in Freshest(order)
  BY <1>7, <1>8 DEF Freshest
<1>10. k \in Remaining(order)
  BY <1>5, <1>9 DEF Remaining, SameGroup
<1>11. k \in Undeleted(order)
  BY <1>5, <1>10 DEF Undeleted
<1>12. order[k].crl.thisUpdate >= f.crl.thisUpdate
  <2>1. time[m] <= time[k] /\ time[m] = f.crl.thisUpdate /\ time[k] = order[k].crl.thisUpdate
    BY <1>2, <1>5
  <2>2. time[m] \in Nat /\ time[k] \in Nat
    BY <1>2, <1>5
  <2> HIDE DEF time
  <2> QED
    BY <2>1, <2>2
<1> QED
  BY <1>5, <1>11, <1>12

-----------------------------------------------------------------------------
(* The items *)

Replaced(it, its) ==
  \E other \in its :
    /\ other.actuality = "last"
    /\ other.crl.aki = it.crl.aki
    /\ other.crl.type = it.crl.type
    /\ other.crl.number > it.crl.number
    /\ it.crl.type = "full" /\ Named(it.crl.aki) => other.crl.freshest = it.crl.freshest

Apart(its) == \A it, other \in its : SameNumber(it.crl, other.crl) => it = other

InOrder(its) ==
  /\ its \subseteq Items
  /\ Apart(its)
  /\ \A it \in its : it.actuality = "obsolete" => Replaced(it, its)

LEMMA AddedInOrder ==
  ASSUME NEW its, InOrder(its), NEW c \in Crls, NEW file \in {"generated", "none"}
  PROVE  /\ InOrder(addItem(its, Item(c, file)))
         /\ \E it \in addItem(its, Item(c, file)) : SameNumber(it.crl, c)
<1> DEFINE new == Item(c, file)
           added == addItem(its, new)
<1>1. new \in Items /\ new.crl = c /\ new.actuality = "undefined"
  BY DEF Item, Items
<1>2. CASE There(its, c)
  <2>1. added = its
    BY <1>1, <1>2 DEF addItem
  <2> QED
    BY <1>2, <2>1 DEF There
<1>3. CASE ~There(its, c)
  <2>1. added = its \cup {new}
    BY <1>1, <1>3 DEF addItem
  <2> HIDE DEF new, added
  <2>2. \A it \in its : ~SameNumber(it.crl, c) /\ ~SameNumber(c, it.crl)
    BY <1>3 DEF There, SameNumber
  <2>3. Apart(added)
    BY <1>1, <2>1, <2>2 DEF InOrder, Apart
  <2>4. ASSUME NEW it \in added, it.actuality = "obsolete" PROVE Replaced(it, added)
    <3>1. it \in its /\ Replaced(it, its)
      BY <1>1, <2>1, <2>4 DEF InOrder
    <3> QED
      BY <2>1, <3>1 DEF Replaced
  <2>5. added \subseteq Items
    BY <1>1, <2>1 DEF InOrder
  <2>6. SameNumber(new.crl, c)
    BY <1>1 DEF SameNumber
  <2>7. InOrder(added) /\ \E it \in added : SameNumber(it.crl, c)
    BY <2>1, <2>3, <2>4, <2>5, <2>6 DEF InOrder
  <2> QED
    BY <2>7 DEF added, new
<1> QED
  BY <1>2, <1>3

LEMMA NumberOfItem ==
  ASSUME NEW it \in Items
  PROVE  it.crl \in Crls /\ it.crl.number \in Nat
BY CrlsAssumption DEF Items

(* getCrl takes the one item of the matching ones that has the greatest    *)
(* number.                                                                 *)
LEMMA LastFound ==
  ASSUME NEW its, InOrder(its), NEW match \in SUBSET its, match # {}
  PROVE  /\ find_last_available(match) \in match
         /\ \A it \in match : it = find_last_available(match)
                              \/ it.crl.number < find_last_available(match).crl.number
                              \/ it.crl.aki # find_last_available(match).crl.aki
<1> DEFINE number == [it \in match |-> it.crl.number]
           last == find_last_available(match)
<1>1. \A it \in match : it \in Items /\ it.crl \in Crls /\ it.crl.number \in Nat
  BY NumberOfItem DEF InOrder
<1>2. \E it \in match : \A other \in match : other.crl.number <= it.crl.number
  <2>1. PICK b \in Nat : \A d \in Crls : d.number <= b /\ d.thisUpdate <= b
    BY CrlsBounded
  <2>2. \A it \in match : number[it] \in Nat /\ number[it] <= b
    BY <1>1, <2>1
  <2>3. \A it \in match : number[it] = it.crl.number
    OBVIOUS
  <2> HIDE DEF number
  <2>4. \E it \in match : \A other \in match : number[other] <= number[it]
    BY <2>2, GreatestFound
  <2> QED
    BY <2>3, <2>4
<1>3. last \in match /\ \A other \in match : other.crl.number <= last.crl.number
  BY <1>2 DEF find_last_available
<1> HIDE DEF last
<1>4. ASSUME NEW it \in match, it # last, it.crl.aki = last.crl.aki
      PROVE  it.crl.number < last.crl.number
  <2>1. ~SameNumber(it.crl, last.crl)
    BY <1>3, <1>4 DEF InOrder, Apart
  <2>2. it.crl.number # last.crl.number
    BY <1>4, <2>1 DEF SameNumber
  <2>3. it.crl.number \in Nat /\ last.crl.number \in Nat /\ it.crl.number <= last.crl.number
    BY <1>1, <1>3
  <2> QED
    BY <2>2, <2>3
<1> QED
  BY <1>3, <1>4 DEF last

(* The item after getCrl has matched it and set its actuality. *)
Mark(it, match) ==
  [it EXCEPT !.actuality = IF it = find_last_available(match) THEN "last" ELSE "obsolete"]

LEMMA MarkedItems ==
  ASSUME NEW its, InOrder(its), NEW match \in SUBSET its
  PROVE  /\ \A it \in its : it \in match => /\ Mark(it, match) \in Marked(its, match)
                                            /\ Mark(it, match) \in Items
                                            /\ Mark(it, match).crl = it.crl
                                            /\ Mark(it, match).actuality =
                                                 IF it = find_last_available(match) THEN "last" ELSE "obsolete"
         /\ \A it \in its : it \notin match => it \in Marked(its, match)
         /\ \A x \in Marked(its, match) :
              x \in its \ match \/ \E it \in match : x = Mark(it, match)
<1>1. ASSUME NEW it \in match
      PROVE  /\ Mark(it, match) \in Items
             /\ Mark(it, match).crl = it.crl
             /\ Mark(it, match).actuality = IF it = find_last_available(match) THEN "last" ELSE "obsolete"
  <2>1. it \in Items
    BY DEF InOrder
  <2> QED
    BY <2>1 DEF Items, Mark
<1>2. Marked(its, match) = (its \ match) \cup {Mark(it, match) : it \in match}
  BY DEF Marked, Mark
<1> QED
  BY <1>1, <1>2

(* The series of what getCrl matched, if the series of the authority have  *)
(* names.                                                                  *)
LEMMA MatchingSeries ==
  ASSUME NEW its, InOrder(its), NEW s \in Subjects, NEW type, NEW it \in Matching(its, s, type)
  PROVE  /\ it \in its /\ it.crl.aki = s.aki /\ it.crl.type = type
         /\ type = "full" /\ Named(s.aki) => it.crl.freshest = s.freshest
<1>1. it \in its /\ it.crl.aki = s.aki /\ it.crl.type = type /\ check_uris_delta(type, it.crl.freshest, s.freshest)
  BY DEF Matching
<1>2. it.crl \in Crls
  BY <1>1, NumberOfItem DEF InOrder
<1> QED
  BY <1>1, <1>2 DEF Named, check_uris_delta

LEMMA MarkedInOrder ==
  ASSUME NEW its, InOrder(its), NEW s \in Subjects, NEW type
  PROVE  InOrder(SetActuality(its, s, type))
<1> DEFINE match == Matching(its, s, type)
           marked == Marked(its, match)
           last == find_last_available(match)
<1>1. match \in SUBSET its
  BY DEF Matching
<1>2. SetActuality(its, s, type) = marked
  BY DEF SetActuality
<1>3. \A it \in match : /\ it \in its /\ it.crl.aki = s.aki /\ it.crl.type = type
                        /\ type = "full" /\ Named(s.aki) => it.crl.freshest = s.freshest
  BY MatchingSeries
<1> HIDE DEF match
<1>4. /\ \A it \in its : it \in match => /\ Mark(it, match) \in marked
                                         /\ Mark(it, match) \in Items
                                         /\ Mark(it, match).crl = it.crl
                                         /\ Mark(it, match).actuality = IF it = last THEN "last" ELSE "obsolete"
      /\ \A it \in its : it \notin match => it \in marked
      /\ \A x \in marked : x \in its \ match \/ \E it \in match : x = Mark(it, match)
  BY <1>1, MarkedItems
<1>5. match # {} => /\ last \in match
                    /\ \A it \in match : it = last \/ it.crl.number < last.crl.number
  BY <1>1, <1>3, LastFound
<1> HIDE DEF marked, last
<1>6. \A x \in marked : \E it \in its : x.crl = it.crl /\ x = IF it \in match THEN Mark(it, match) ELSE it
  BY <1>1, <1>4
<1>7. marked \subseteq Items
  BY <1>1, <1>4 DEF InOrder
<1>8. Apart(marked)
  <2> SUFFICES ASSUME NEW x \in marked, NEW y \in marked, SameNumber(x.crl, y.crl) PROVE x = y
    BY DEF Apart
  <2>1. PICK it \in its : x.crl = it.crl /\ x = IF it \in match THEN Mark(it, match) ELSE it
    BY <1>6
  <2>2. PICK other \in its : y.crl = other.crl /\ y = IF other \in match THEN Mark(other, match) ELSE other
    BY <1>6
  <2>3. it = other
    BY <2>1, <2>2 DEF InOrder, Apart
  <2> QED
    BY <2>1, <2>2, <2>3
(* Whatever an obsolete item had in its place, if that is matched the last *)
(* of the matched ones is there.                                           *)
<1>9. ASSUME NEW x \in marked, x.crl \in Crls, NEW other \in match,
             other.crl.aki = x.crl.aki, other.crl.type = x.crl.type,
             other # last => other.crl.number >= x.crl.number,
             other = last => other.crl.number > x.crl.number,
             x.crl.type = "full" /\ Named(x.crl.aki) => other.crl.freshest = x.crl.freshest
      PROVE  Replaced(x, marked)
  <2>1. last \in match /\ last \in its /\ other \in its
    BY <1>1, <1>5
  <2>2. /\ Mark(last, match) \in marked
        /\ Mark(last, match).crl = last.crl
        /\ Mark(last, match).actuality = "last"
    BY <1>4, <2>1
  <2>3. x.crl.number \in Nat /\ last.crl.number \in Nat /\ other.crl.number \in Nat
    BY <2>1, <1>9, NumberOfItem, CrlsAssumption DEF InOrder
  <2>4. last.crl.number > x.crl.number
    BY <1>5, <1>9, <2>3
  <2>5. last.crl.aki = x.crl.aki /\ last.crl.type = x.crl.type
    BY <1>3, <1>9, <2>1
  <2>6. x.crl.type = "full" /\ Named(x.crl.aki) => last.crl.freshest = x.crl.freshest
    BY <1>3, <1>9, <2>1
  <2> QED
    BY <2>2, <2>4, <2>5, <2>6 DEF Replaced
<1>10. ASSUME NEW x \in marked, x.actuality = "obsolete" PROVE Replaced(x, marked)
  <2>1. x.crl \in Crls
    BY <1>7, NumberOfItem
  <2>2. CASE x \in its \ match
    <3>1. PICK other \in its : /\ other.actuality = "last"
                               /\ other.crl.aki = x.crl.aki
                               /\ other.crl.type = x.crl.type
                               /\ other.crl.number > x.crl.number
                               /\ x.crl.type = "full" /\ Named(x.crl.aki) => other.crl.freshest = x.crl.freshest
      BY <1>10, <2>2 DEF InOrder, Replaced
    <3>2. CASE other \in match
      <4>1. other.crl.number >= x.crl.number
        BY <3>1, <2>1, NumberOfItem, CrlsAssumption DEF InOrder
      <4> QED
        BY <1>9, <2>1, <3>1, <3>2, <4>1
    <3>3. CASE other \notin match
      BY <1>4, <3>1, <3>3 DEF Replaced
    <3> QED
      BY <3>2, <3>3
  <2>3. CASE \E it \in match : x = Mark(it, match)
    <3>1. PICK it \in match : x = Mark(it, match)
      BY <2>3
    <3>2. it \in its /\ x.crl = it.crl /\ it # last
      BY <1>1, <1>4, <1>10, <3>1
    <3>3. last \in match /\ it.crl.number < last.crl.number /\ last.crl.number \in Nat /\ it.crl.number \in Nat
      BY <1>1, <1>5, <3>2, NumberOfItem DEF InOrder
    <3>4. last.crl.aki = x.crl.aki /\ last.crl.type = x.crl.type /\ last.crl.number > x.crl.number
      BY <1>3, <3>2, <3>3
    <3>5. x.crl.type = "full" /\ Named(x.crl.aki) => last.crl.freshest = x.crl.freshest
      BY <1>3, <3>2, <3>3
    <3> QED
      BY <1>9, <2>1, <3>3, <3>4, <3>5
  <2> QED
    BY <1>4, <2>2, <2>3
<1> QED
  BY <1>2, <1>7, <1>8, <1>10 DEF InOrder

-----------------------------------------------------------------------------
(* Validation *)

LEMMA Found ==
  ASSUME NEW its, InOrder(its), NEW s \in Subjects, NEW type, NEW time,
         NEW outcome \in getCrl(its, s, type, time)
  PROVE  /\ InOrder(outcome.items) /\ outcome.saves \subseteq Crls
         /\ outcome.crl # NoCrl =>
              /\ outcome.crl \in Crls /\ outcome.crl.aki = s.aki
              /\ OwnNumber(outcome.crl) => outcome.crl.type = type
<1> DEFINE match == Matching(its, s, type)
           cached == find_last_available(match)
           marked == SetActuality(its, s, type)
<1>1. InOrder(marked)
  BY MarkedInOrder
<1>2. match \in SUBSET its /\ \A it \in match : it \in its /\ it.crl.aki = s.aki /\ it.crl.type = type
  BY DEF Matching
<1>3. \/ match # {} /\ outcome = [items |-> marked, crl |-> cached.crl, saves |-> {}]
      \/ \E c \in Downloads(s, type) : outcome = Downloaded(marked, c, time)
  BY DEF getCrl
<1> HIDE DEF match, marked
<1>4. CASE match # {} /\ outcome = [items |-> marked, crl |-> cached.crl, saves |-> {}]
  <2>1. cached \in match
    BY <1>2, <1>4, LastFound
  <2> HIDE DEF cached
  <2>2. cached.crl \in Crls /\ cached.crl.aki = s.aki /\ cached.crl.type = type
    BY <1>2, <2>1, NumberOfItem DEF InOrder
  <2> QED
    BY <1>1, <1>4, <2>2
<1>5. ASSUME NEW c \in Downloads(s, type), outcome = Downloaded(marked, c, time)
      PROVE  /\ InOrder(outcome.items) /\ outcome.saves \subseteq Crls
             /\ outcome.crl # NoCrl =>
                  /\ outcome.crl \in Crls /\ outcome.crl.aki = s.aki
                  /\ OwnNumber(outcome.crl) => outcome.crl.type = type
  <2>1. CASE c = NoCrl
    <3>1. outcome = [items |-> marked, crl |-> NoCrl, saves |-> {}]
      BY <1>5, <2>1 DEF Downloaded
    <3> QED
      BY <1>1, <3>1
  <2>2. CASE c # NoCrl
    <3> DEFINE added == addCrl(marked, c, TRUE)
               got == CHOOSE it \in added : SameNumber(it.crl, c)
    <3>1. c \in Crls /\ c.aki = s.aki /\ c.type = type
      BY <2>2 DEF Downloads
    <3>2. outcome = [items |-> added, crl |-> IF got.crl.nextUpdate >= time THEN got.crl ELSE NoCrl,
                     saves |-> Saved(marked, c, TRUE)]
      BY <1>5, <2>2 DEF Downloaded
    <3>3. InOrder(added) /\ \E it \in added : SameNumber(it.crl, c)
      BY <1>1, <3>1, AddedInOrder DEF addCrl
    <3>4. got \in added /\ SameNumber(got.crl, c)
      BY <3>3
    <3>5. Saved(marked, c, TRUE) \subseteq Crls
      BY <3>1 DEF Saved
    <3> HIDE DEF added, got
    <3>6. got.crl \in Crls /\ got.crl.aki = s.aki
      BY <3>1, <3>3, <3>4, NumberOfItem DEF InOrder, SameNumber
    <3>7. OwnNumber(got.crl) => got.crl.type = type
      BY <3>1, <3>4 DEF OwnNumber
    <3>8. outcome.crl # NoCrl => outcome.crl = got.crl
      BY <3>2
    <3> QED
      BY <3>2, <3>3, <3>5, <3>6, <3>7, <3>8
  <2> QED
    BY <2>1, <2>2
<1> QED
  BY <1>3, <1>4, <1>5

(* What a validation goes by. *)
Fitting(by, s) ==
  by.full # NoCrl =>
    /\ by.full.aki = s.aki
    /\ OwnNumber(by.full) => by.full.type = "full"
    /\ by.delta # NoCrl =>
         by.delta.type = "delta" /\ by.delta.aki = s.aki /\ by.delta.base = by.full.number

LEMMA Validated ==
  ASSUME NEW its, InOrder(its), NEW s \in Subjects, NEW time, NEW by \in Validations(its, s, time)
  PROVE  InOrder(by.items) /\ by.saves \subseteq Crls /\ Fitting(by, s)
<1>1. PICK full \in getCrl(its, s, "full", time) :
        \/ full.crl # NoCrl /\ \E delta \in getCrl(full.items, s, "delta", time) : by = ByBoth(full, delta)
        \/ by = ByFull(full)
  BY DEF Validations
<1>2. /\ InOrder(full.items) /\ full.saves \subseteq Crls
      /\ full.crl # NoCrl =>
           /\ full.crl \in Crls /\ full.crl.aki = s.aki
           /\ OwnNumber(full.crl) => full.crl.type = "full"
  BY Found
<1>3. CASE by = ByFull(full)
  <2>1. by.items = full.items /\ by.saves = full.saves /\ by.full = full.crl /\ by.delta = NoCrl
    BY <1>3 DEF ByFull
  <2> QED
    BY <1>2, <2>1 DEF Fitting
<1>4. ASSUME full.crl # NoCrl, NEW delta \in getCrl(full.items, s, "delta", time), by = ByBoth(full, delta)
      PROVE  InOrder(by.items) /\ by.saves \subseteq Crls /\ Fitting(by, s)
  <2>1. /\ InOrder(delta.items) /\ delta.saves \subseteq Crls
        /\ delta.crl # NoCrl =>
             /\ delta.crl \in Crls /\ delta.crl.aki = s.aki
             /\ OwnNumber(delta.crl) => delta.crl.type = "delta"
    BY <1>2, Found
  <2>2. by.items = delta.items /\ by.saves = full.saves \cup delta.saves
    BY <1>4 DEF ByBoth
  <2>3. by.full # NoCrl => /\ by.full = full.crl /\ by.delta = delta.crl
                           /\ delta.crl # NoCrl /\ delta.crl.type = "delta"
                           /\ delta.crl.base = full.crl.number
    BY <1>4 DEF ByBoth, DeltaFits
  <2>4. Fitting(by, s)
    BY <1>2, <1>4, <2>1, <2>3 DEF Fitting
  <2> QED
    BY <1>2, <2>1, <2>2, <2>4
<1> QED
  BY <1>1, <1>3, <1>4

-----------------------------------------------------------------------------
(* The inductive invariant *)

(* That a saved full CRL stays is inductive by itself, given that a        *)
(* directory holds CRLs only; what the items in memory are like is         *)
(* inductive whatever the directory holds.                                 *)
IInv == TypeOK /\ InOrder(items) /\ SavedOrFresher

LEMMA InvInit == Init => IInv
<1> SUFFICES ASSUME Init PROVE IInv
  OBVIOUS
<1>1. TypeOK
  BY DEF Init, TypeOK, Files
<1>2. InOrder(items)
  BY DEF Init, InOrder, Apart
<1>3. SavedOrFresher
  BY DEF Init, SavedOrFresher
<1> QED
  BY <1>1, <1>2, <1>3 DEF IInv

LEMMA InitStep ==
  ASSUME IInv, NEW order \in Bijection(1 .. Cardinality(disk), disk), uapki_init(order)
  PROVE  IInv'
<1>1. disk \subseteq Files /\ saved \subseteq Crls
  BY DEF IInv, TypeOK
<1>2. Remaining(order) \subseteq Read(order) /\ Undeleted(order) \subseteq Read(order)
  BY DEF Remaining, Freshest, Kept, Undeleted
<1>3. \A k \in Read(order) : order[k].crl \in Crls
  BY <1>1, OrderOfFiles DEF Read
<1>4. items' = {Item(order[k].crl, "generated") : k \in Remaining(order)}
  BY DEF uapki_init
<1>5. disk' = [crl : {order[k].crl : k \in Undeleted(order)}, name : {"generated"}]
  BY DEF uapki_init
<1>6. \A c \in Crls : /\ Item(c, "generated") \in Items /\ Item(c, "generated").crl = c
                      /\ Item(c, "generated").actuality = "undefined"
  BY DEF Item, Items
<1>7. \A it \in items' : \E k \in Read(order) : it = Item(order[k].crl, "generated") /\ it.crl = order[k].crl
  BY <1>2, <1>3, <1>4, <1>6
<1>8. InOrder(items')
  <2>1. items' \subseteq Items /\ \A it \in items' : it.actuality = "undefined"
    BY <1>3, <1>6, <1>7
  <2>2. Apart(items')
    <3> SUFFICES ASSUME NEW it \in items', NEW other \in items', SameNumber(it.crl, other.crl) PROVE it = other
      BY DEF Apart
    <3>1. PICK k \in Read(order) : it = Item(order[k].crl, "generated") /\ it.crl = order[k].crl
      BY <1>7
    <3>2. PICK j \in Read(order) : other = Item(order[j].crl, "generated") /\ other.crl = order[j].crl
      BY <1>7
    <3>3. k = j
      BY <1>1, <3>1, <3>2, ReadApart
    <3> QED
      BY <3>1, <3>2, <3>3
  <2> QED
    BY <2>1, <2>2 DEF InOrder
<1>9. TypeOK'
  <2>1. disk' \subseteq Files
    BY <1>2, <1>3, <1>5 DEF Files
  <2>2. items' \subseteq Items
    BY <1>8 DEF InOrder
  <2>3. initialized' \in BOOLEAN /\ saved' \subseteq Crls
    BY <1>1 DEF uapki_init
  <2> QED
    BY <2>1, <2>2, <2>3 DEF TypeOK
<1>10. SavedOrFresher'
  <2> SUFFICES ASSUME NEW c \in saved, c.type = "full", \A d \in Crls : SameGroup(c, d) => OwnNumber(d)
               PROVE  \E f \in disk' : SameGroup(f.crl, c) /\ f.crl.thisUpdate >= c.thisUpdate
    BY DEF SavedOrFresher, uapki_init
  <2>1. PICK f \in disk : SameGroup(f.crl, c) /\ f.crl.thisUpdate >= c.thisUpdate
    BY DEF IInv, SavedOrFresher
  <2>2. PICK k \in Undeleted(order) :
          SameGroup(order[k].crl, c) /\ order[k].crl.thisUpdate >= f.crl.thisUpdate
    BY <1>1, <2>1, LoadKeeps
  <2> DEFINE g == [crl |-> order[k].crl, name |-> "generated"]
  <2>3. g \in disk' /\ g.crl = order[k].crl
    BY <1>5
  <2>4. order[k].crl.thisUpdate \in Nat /\ c.thisUpdate \in Nat /\ f.crl.thisUpdate \in Nat
    BY <1>1, <1>2, <1>3, CrlsAssumption DEF Files
  <2>5. order[k].crl.thisUpdate >= c.thisUpdate
    BY <2>1, <2>2, <2>4
  <2> HIDE DEF g
  <2> QED
    BY <2>2, <2>3, <2>5
<1> QED
  BY <1>8, <1>9, <1>10 DEF IInv

(* Files of CRLs are saved. *)
LEMMA MoreSaved ==
  ASSUME IInv, NEW S \in SUBSET Crls, disk' = disk \cup SavedFiles(S), saved' = saved \cup S
  PROVE  SavedOrFresher' /\ disk' \subseteq Files /\ saved' \subseteq Crls
<1>1. disk' \subseteq Files /\ saved' \subseteq Crls
  BY DEF IInv, TypeOK, Files, SavedFiles
<1>2. ASSUME NEW c \in saved', c.type = "full", \A d \in Crls : SameGroup(c, d) => OwnNumber(d)
      PROVE  \E f \in disk' : SameGroup(f.crl, c) /\ f.crl.thisUpdate >= c.thisUpdate
  <2>1. CASE c \in saved
    BY <1>2, <2>1 DEF IInv, SavedOrFresher
  <2>2. CASE c \in S
    <3> DEFINE f == [crl |-> c, name |-> "generated"]
    <3>1. f \in disk' /\ f.crl = c
      BY <2>2 DEF SavedFiles
    <3>2. SameGroup(c, c) /\ c.thisUpdate >= c.thisUpdate
      BY <2>2, CrlsAssumption DEF SameGroup
    <3> HIDE DEF f
    <3> QED
      BY <3>1, <3>2
  <2> QED
    BY <2>1, <2>2
<1>3. SavedOrFresher'
  BY <1>2 DEF SavedOrFresher
<1> QED
  BY <1>1, <1>3

LEMMA AddStep ==
  ASSUME IInv, NEW c \in Crls, NEW permanent \in BOOLEAN, uapki_add_crl(c, permanent)
  PROVE  IInv'
<1>1. InOrder(items')
  BY AddedInOrder DEF IInv, uapki_add_crl, addCrl
<1>2. Saved(items, c, permanent) \in SUBSET Crls
  BY DEF Saved
<1>3. SavedOrFresher' /\ disk' \subseteq Files /\ saved' \subseteq Crls
  BY <1>2, MoreSaved DEF uapki_add_crl
<1>4. initialized' \in BOOLEAN /\ items' \subseteq Items
  BY <1>1 DEF IInv, TypeOK, InOrder, uapki_add_crl
<1> QED
  BY <1>1, <1>3, <1>4 DEF IInv, TypeOK

LEMMA ValidateStep ==
  ASSUME IInv, NEW s \in Subjects, NEW time \in Times, validateByCrl(s, time)
  PROVE  IInv'
<1>1. PICK by \in Validations(items, s, time) :
        items' = by.items /\ disk' = disk \cup SavedFiles(by.saves) /\ saved' = saved \cup by.saves
  BY DEF validateByCrl
<1>2. InOrder(by.items) /\ by.saves \in SUBSET Crls
  BY Validated DEF IInv
<1>3. SavedOrFresher' /\ disk' \subseteq Files /\ saved' \subseteq Crls
  BY <1>1, <1>2, MoreSaved
<1>4. initialized' \in BOOLEAN /\ items' \subseteq Items
  BY <1>1, <1>2 DEF IInv, TypeOK, InOrder, validateByCrl
<1> QED
  BY <1>1, <1>2, <1>3, <1>4 DEF IInv, TypeOK

LEMMA RemoveStep ==
  ASSUME IInv, NEW chosen, NEW permanent \in BOOLEAN, uapki_remove_crl(chosen, permanent)
  PROVE  IInv'
<1> DEFINE gone == chosen \cup {it \in items : it.actuality = "obsolete"}
           files == {f \in disk : permanent /\ \E it \in gone : f.crl = it.crl /\ f.name = it.file}
<1>1. items' = items \ gone /\ disk' = disk \ files /\ saved' = saved \ UNION {NotFresher(f.crl) : f \in files}
  BY DEF uapki_remove_crl
<1>2. files \subseteq disk
  OBVIOUS
<1>3. \A it \in items \ gone : it \in items /\ it.actuality # "obsolete"
  OBVIOUS
<1> HIDE DEF gone, files
<1>4. InOrder(items')
  BY <1>1, <1>3 DEF IInv, InOrder, Apart
<1>5. TypeOK'
  BY <1>1 DEF IInv, TypeOK, uapki_remove_crl
<1>6. SavedOrFresher'
  <2> SUFFICES ASSUME NEW c \in saved', c.type = "full", \A d \in Crls : SameGroup(c, d) => OwnNumber(d)
               PROVE  \E f \in disk' : SameGroup(f.crl, c) /\ f.crl.thisUpdate >= c.thisUpdate
    BY DEF SavedOrFresher
  <2>1. c \in saved /\ c \in Crls
    BY <1>1 DEF IInv, TypeOK
  <2>2. PICK f \in disk : SameGroup(f.crl, c) /\ f.crl.thisUpdate >= c.thisUpdate
    BY <2>1 DEF IInv, SavedOrFresher
  <2>3. f \notin files
    <3> SUFFICES ASSUME f \in files PROVE FALSE
      OBVIOUS
    <3>1. f.crl.thisUpdate \in Nat /\ c.thisUpdate \in Nat
      BY <2>1, CrlsAssumption DEF IInv, TypeOK, Files
    <3>2. ~Fresher(c, f.crl)
      BY <2>2, <3>1 DEF Fresher
    <3>3. SameGroup(c, f.crl)
      BY <2>2 DEF SameGroup
    <3>4. c \in NotFresher(f.crl)
      BY <2>1, <3>2, <3>3 DEF NotFresher
    <3> QED
      BY <1>1, <3>4
  <2> QED
    BY <1>1, <2>2, <2>3
<1> QED
  BY <1>4, <1>5, <1>6 DEF IInv

LEMMA InvStep == IInv /\ [Next]_vars => IInv'
<1> SUFFICES ASSUME IInv, [Next]_vars PROVE IInv'
  OBVIOUS
<1>1. ASSUME NEW order \in Bijection(1 .. Cardinality(disk), disk), uapki_init(order) PROVE IInv'
  BY <1>1, InitStep
<1>2. CASE uapki_deinit
  <2>1. items' = {} /\ disk' = disk /\ saved' = saved /\ initialized' = FALSE
    BY <1>2 DEF uapki_deinit
  <2>2. InOrder(items')
    BY <2>1 DEF InOrder, Apart
  <2> QED
    BY <2>1, <2>2 DEF IInv, TypeOK, SavedOrFresher
<1>3. ASSUME NEW c \in Crls, NEW permanent \in BOOLEAN, uapki_add_crl(c, permanent) PROVE IInv'
  BY <1>3, AddStep
<1>4. ASSUME NEW s \in Subjects, NEW time \in Times, validateByCrl(s, time) PROVE IInv'
  BY <1>4, ValidateStep
<1>5. ASSUME NEW chosen, NEW permanent \in BOOLEAN, uapki_remove_crl(chosen, permanent) PROVE IInv'
  BY <1>5, RemoveStep
<1>6. CASE UNCHANGED vars
  BY <1>6 DEF IInv, TypeOK, SavedOrFresher, vars
<1> QED
  BY <1>1, <1>2, <1>3, <1>4, <1>5, <1>6 DEF Next

(* The inductive invariant. *)
THEOREM Invariant == Spec => []IInv
BY InvInit, InvStep, PTL DEF Spec

(* Whatever is loaded, added, downloaded, looked up and removed in however *)
(* many sessions: no two CRLs in memory have authority and number in       *)
(* common, and getCrl gives up a CRL only for a newer one of its series.   *)
THEOREM CacheStaysConsistent == Spec => []CacheConsistent
<1>1. IInv => CacheConsistent
  <2>1. InOrder(items) => NoTwoAlike /\ ObsoleteIsReplaced
    BY DEF InOrder, Apart, Replaced, NoTwoAlike, ObsoleteIsReplaced
  <2> QED
    BY <2>1 DEF IInv, CacheConsistent
<1> QED
  BY <1>1, Invariant, PTL

(* A validation never goes by a delta CRL issued against another full CRL, *)
(* or by a CRL of another authority, whatever the cache holds; it takes a  *)
(* delta CRL for a full one only if the authority gave both one number.    *)
THEOREM UsedCrlsFit == Spec => []UsedFits
<1>1. IInv => UsedFits
  BY Validated DEF IInv, UsedFits, Fitting
<1> QED
  BY <1>1, Invariant, PTL

(* removeObsolete deletes a saved full CRL only in favour of one of its    *)
(* series that is not older, in whatever order the directory is read, and  *)
(* REMOVE_CRL only that one.                                               *)
THEOREM SavedStays == Spec => []SavedOrFresher
<1>1. IInv => SavedOrFresher
  BY DEF IInv
<1> QED
  BY <1>1, Invariant, PTL
=============================================================================
