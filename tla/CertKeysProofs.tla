--------------------------- MODULE CertKeysProofs ----------------------------
(* What the certificate store's own operations guarantee, for stores of    *)
(* any size: addItem keeps certificates and flags apart, a search by key   *)
(* identifier finds the newest certificate.                                *)
EXTENDS CertKeys, SequenceTheorems, NaturalsInduction, WellFoundedInduction, TLAPS

-----------------------------------------------------------------------------
(* Natural numbers *)

(* Every set of numbers has a least one. *)
LEMMA LeastNumber ==
  ASSUME NEW S \in SUBSET Nat, S # {}
  PROVE  \E n \in S : \A m \in S : n <= m
<1> DEFINE R == {ss \in Nat \X Nat : ss[1] < ss[2]}
<1>1. IsWellFoundedOn(R, Nat)
  BY NatLessThanWellFounded DEF OpToRel
<1>2. PICK n \in S : \A m \in S : ~(<<m, n>> \in R)
  <2> HIDE DEF R
  <2> QED
    BY <1>1, WFMin
<1>3. ASSUME NEW m \in S PROVE n <= m
  <2>1. ~(m < n) /\ m \in Nat /\ n \in Nat
    BY <1>2
  <2> QED
    BY <2>1
<1> QED
  BY <1>3

LEMMA LeastIsMin ==
  ASSUME NEW S \in SUBSET Nat, S # {}
  PROVE  Min(S) \in S /\ \A n \in S : Min(S) <= n
BY LeastNumber DEF Min

(* Induction, for a set in place of a predicate. *)
LEMMA Numbers ==
  ASSUME NEW S, 0 \in S, \A n \in Nat : n \in S => n + 1 \in S
  PROVE  Nat \subseteq S
<1> SUFFICES ASSUME Nat \ S # {} PROVE FALSE
  OBVIOUS
<1>1. PICK n \in Nat \ S : \A m \in Nat \ S : n <= m
  BY LeastNumber
<1>2. n - 1 \in Nat /\ n - 1 \in S
  BY <1>1
<1> QED
  BY <1>1, <1>2

(* A loop: step n, f[n], leads from V[n - 1] to V[n]. *)
StaysIn(f, N, V) == \A n \in 1 .. N : \A x \in V[n - 1] : f[n][x] \in V[n]
Loop(g, f, N, base) == \A n \in 0 .. N : g[n] = IF n = 0 THEN base ELSE f[n][g[n - 1]]

(* What is defined from one number to the next is defined for all of them... *)
LEMMA Iterated ==
  ASSUME NEW N \in Nat, NEW V, NEW base \in V[0], NEW f, StaysIn(f, N, V)
  PROVE  \E W : \E g \in [0 .. N -> W] : Loop(g, f, N, base) /\ \A n \in 0 .. N : g[n] \in V[n]
<1> DEFINE Step(g, n) == IF n = 0 THEN base ELSE f[n][g[n - 1]]
           Upto(g, m) == g = [n \in 0 .. m |-> Step(g, n)] /\ \A n \in 0 .. m : g[n] \in V[n]
           Defined == {m \in Nat : m <= N => \E g : Upto(g, m)}
<1>1. 0 \in Defined
  <2>1. Upto([n \in 0 .. 0 |-> base], 0)
    OBVIOUS
  <2> QED
    BY <2>1
<1>2. ASSUME NEW m \in Nat, m \in Defined PROVE m + 1 \in Defined
  <2> SUFFICES ASSUME m + 1 <= N PROVE \E g : Upto(g, m + 1)
    OBVIOUS
  <2>1. PICK g : Upto(g, m)
    <3>1. m <= N
      OBVIOUS
    <3> QED
      BY <1>2, <3>1
  <2> DEFINE h == [n \in 0 .. m + 1 |-> IF n <= m THEN g[n] ELSE Step(g, n)]
  <2>2. \A n \in 0 .. m : n \in 0 .. m + 1 /\ h[n] = g[n] /\ g[n] = Step(g, n) /\ g[n] \in V[n]
    BY <2>1
  <2>3. ASSUME NEW n \in 0 .. m + 1 PROVE h[n] = Step(h, n) /\ h[n] \in V[n]
    <3>1. n # 0 => n - 1 \in 0 .. m
      OBVIOUS
    <3>2. Step(g, n) = Step(h, n)
      BY <2>2, <3>1
    <3>3. CASE n <= m
      <4>1. n \in 0 .. m
        BY <3>3
      <4> QED
        BY <2>2, <3>2, <4>1
    <3>4. CASE ~(n <= m)
      <4>1. n = m + 1 /\ n # 0 /\ n - 1 = m /\ m \in 0 .. m /\ n \in 1 .. N
        BY <3>4
      <4>2. h[n] = f[n][g[n - 1]]
        BY <3>4, <4>1
      <4>3. g[n - 1] \in V[n - 1]
        BY <2>2, <4>1
      <4>4. h[n] \in V[n]
        BY <4>1, <4>2, <4>3 DEF StaysIn
      <4>5. h[n] = Step(g, n)
        BY <4>1, <4>2
      <4> QED
        BY <3>2, <4>4, <4>5
    <3> QED
      BY <3>3, <3>4
  <2>4. h = [n \in 0 .. m + 1 |-> h[n]]
    OBVIOUS
  <2> HIDE DEF h
  <2>5. h = [n \in 0 .. m + 1 |-> Step(h, n)]
    BY <2>3, <2>4
  <2> QED
    BY <2>3, <2>5
<1> HIDE DEF Defined
<1>3. N \in Defined
  BY <1>1, <1>2, Numbers
<1>4. PICK g : Upto(g, N)
  BY <1>3 DEF Defined
<1> DEFINE W == UNION {V[n] : n \in 0 .. N}
<1>5. \A n \in 0 .. N : g[n] \in V[n] /\ g[n] = Step(g, n)
  BY <1>4
<1>6. g \in [0 .. N -> W]
  <2>1. \A n \in 0 .. N : g[n] \in W
    BY <1>5
  <2> HIDE DEF W, Step
  <2> QED
    BY <1>4, <2>1
<1> HIDE DEF W
<1> QED
  BY <1>5, <1>6 DEF Loop

(* ... and what each step keeps. *)
LEMMA Stays ==
  ASSUME NEW N \in Nat, NEW V, NEW h, h[0] \in V[0], \A n \in 1 .. N : h[n - 1] \in V[n - 1] => h[n] \in V[n]
  PROVE  \A n \in 0 .. N : h[n] \in V[n]
<1> DEFINE Right == {n \in Nat : n <= N => h[n] \in V[n]}
<1>1. 0 \in Right
  OBVIOUS
<1>2. ASSUME NEW n \in Nat, n \in Right PROVE n + 1 \in Right
  <2> SUFFICES ASSUME n + 1 <= N PROVE h[n + 1] \in V[n + 1]
    OBVIOUS
  <2>1. n + 1 \in 1 .. N /\ (n + 1) - 1 = n /\ n <= N
    OBVIOUS
  <2> QED
    BY <1>2, <2>1
<1> HIDE DEF Right
<1>3. \A n \in 0 .. N : n \in Right
  BY <1>1, <1>2, Numbers
<1> QED
  BY <1>3 DEF Right

(* Of finitely many items one is the newest. *)
LEMMA NewestExists ==
  ASSUME NEW N \in Nat, NEW f \in [1 .. N -> Nat], NEW T \in SUBSET (1 .. N), T # {}
  PROVE  \E k \in T : \A j \in T : f[k] >= f[j]
<1> DEFINE Has(U) == \E k \in U : \A j \in U : f[k] >= f[j]
           Done == {n \in Nat : n <= N => \A U \in SUBSET (1 .. n) : U # {} => Has(U)}
<1>1. 0 \in Done
  <2>1. \A U \in SUBSET (1 .. 0) : U = {}
    OBVIOUS
  <2> QED
    BY <2>1
<1>2. ASSUME NEW n \in Nat, n \in Done PROVE n + 1 \in Done
  <2> SUFFICES ASSUME n + 1 <= N, NEW U \in SUBSET (1 .. n + 1), U # {} PROVE Has(U)
    OBVIOUS
  <2>0. n <= N /\ \A V \in SUBSET (1 .. n) : V # {} => Has(V)
    <3>1. n <= N
      OBVIOUS
    <3> QED
      BY <1>2, <3>1
  <2>1. CASE n + 1 \notin U
    <3>1. U \in SUBSET (1 .. n)
      BY <2>1
    <3> QED
      BY <2>0, <3>1
  <2>2. CASE U = {n + 1}
    BY <2>2
  <2>3. CASE n + 1 \in U /\ U # {n + 1}
    <3>1. PICK k \in U \ {n + 1} : \A j \in U \ {n + 1} : f[k] >= f[j]
      <4>1. U \ {n + 1} \in SUBSET (1 .. n) /\ U \ {n + 1} # {}
        BY <2>3
      <4>2. Has(U \ {n + 1})
        BY <2>0, <4>1
      <4> QED
        BY <4>2
    <3>2. k \in 1 .. N /\ n + 1 \in 1 .. N /\ \A j \in U : j \in 1 .. N
      OBVIOUS
    <3>3. CASE f[k] >= f[n + 1]
      BY <3>1, <3>2, <3>3
    <3>4. CASE f[n + 1] >= f[k]
      <4>1. ASSUME NEW j \in U PROVE f[n + 1] >= f[j]
        BY <3>1, <3>2, <3>4
      <4> QED
        BY <2>3, <4>1
    <3> QED
      BY <3>2, <3>3, <3>4
  <2> QED
    BY <2>1, <2>2, <2>3
<1> HIDE DEF Done
<1>3. N \in Done
  BY <1>1, <1>2, Numbers
<1> QED
  BY <1>3 DEF Done

-----------------------------------------------------------------------------
(* Items *)

(* Of the items of a store only the flag changes: it can be set in any of  *)
(* them, and no more than the flag is different then.                      *)
WithFlag(it, flag) == [it EXCEPT !.unique = flag]

Flagged(I) ==
  /\ \A it \in I : it.unique \in BOOLEAN /\ it.cert.notBefore \in Nat
  /\ \A it \in I, flag \in BOOLEAN :
       /\ WithFlag(it, flag) \in I
       /\ WithFlag(it, flag).unique = flag
       /\ WithFlag(it, flag).cert = it.cert

(* No two certificates with the same keys and notBefore. *)
Distinct(its) == \A j, k \in DOMAIN its : Duplicate(its[j].cert, its[k].cert) => j = k

(* An item with the flag has its keys to itself. *)
FlagsRight(its) ==
  \A j, k \in DOMAIN its : j # k /\ SameKeys(its[j].cert, its[k].cert) => ~its[j].unique

(* The first duplicate is one, and is there if there is any. *)
LEMMA DuplicateFound ==
  ASSUME NEW I, NEW its \in Seq(I), NEW c
  PROVE  LET at == FirstDuplicate(its, c) IN
         /\ at \in 0 .. Len(its)
         /\ at # 0 => Duplicate(its[at].cert, c)
         /\ at = 0 => \A k \in DOMAIN its : ~Duplicate(its[k].cert, c)
<1> DEFINE found == {k \in 1 .. Len(its) : Duplicate(its[k].cert, c)}
<1>1. FirstDuplicate(its, c) = IF found # {} THEN Min(found) ELSE 0
  BY DEF FirstDuplicate, SelectInSeq
<1>2. found # {} => Min(found) \in found
  <2>1. found \in SUBSET Nat
    OBVIOUS
  <2> HIDE DEF found
  <2> QED
    BY <2>1, LeastIsMin
<1>3. DOMAIN its = 1 .. Len(its) /\ Len(its) \in Nat
  OBVIOUS
<1> QED
  BY <1>1, <1>2, <1>3

(* The store afterwards has the items it had at their places, but for the  *)
(* flags of those that share their keys with c.                            *)
FlagsOnly(its, c, new) ==
  \A k \in DOMAIN its :
    /\ k \in DOMAIN new
    /\ \/ new[k] = its[k]
       \/ SameKeys(its[k].cert, c) /\ new[k] = WithFlag(its[k], FALSE)

LEMMA FlagsReset ==
  ASSUME NEW I, Flagged(I), NEW its \in Seq(I), NEW c, NEW n \in Nat
  PROVE  LET new == ResetUniqueKeyId(its, c, n) IN
         /\ new \in Seq(I) /\ Len(new) = Len(its)
         /\ FlagsOnly(its, c, new)
         /\ \A k \in DOMAIN its : k < n /\ SameKeys(its[k].cert, c) => ~new[k].unique
<1> DEFINE new == ResetUniqueKeyId(its, c, n)
<1>1. Len(its) \in Nat /\ DOMAIN its = 1 .. Len(its)
  OBVIOUS
<1>2. \A k \in DOMAIN its : /\ its[k] \in I /\ WithFlag(its[k], FALSE) \in I
                            /\ ~WithFlag(its[k], FALSE).unique
  <2>1. \A k \in DOMAIN its : its[k] \in I
    BY <1>1
  <2> QED
    BY <2>1 DEF Flagged
<1>3. new = [k \in 1 .. Len(its) |->
               IF k < n /\ SameKeys(its[k].cert, c) THEN WithFlag(its[k], FALSE) ELSE its[k]]
  BY <1>1 DEF ResetUniqueKeyId, WithFlag
<1> HIDE DEF new
<1>4. new \in [1 .. Len(its) -> I]
  BY <1>1, <1>2, <1>3
<1>5. new \in Seq(I) /\ Len(new) = Len(its)
  BY <1>1, <1>4
<1>6. FlagsOnly(its, c, new)
  BY <1>1, <1>3 DEF FlagsOnly
<1>7. \A k \in DOMAIN its : k < n /\ SameKeys(its[k].cert, c) => ~new[k].unique
  BY <1>1, <1>2, <1>3
<1> QED
  BY <1>5, <1>6, <1>7 DEF new

(* addItem keeps the items there are and appends the new one if it is one. *)
LEMMA ItemAdded ==
  ASSUME NEW I, Flagged(I), NEW its \in Seq(I), NEW it \in I
  PROVE  LET new == addItem(its, it)
             dup == FirstDuplicate(its, it.cert)
         IN /\ new \in Seq(I)
            /\ FlagsOnly(its, it.cert, new)
            /\ dup # 0 => Len(new) = Len(its)
            /\ dup = 0 =>
                 /\ Len(new) = Len(its) + 1
                 /\ new[Len(its) + 1] = WithFlag(it, \A k \in DOMAIN its : ~SameKeys(its[k].cert, it.cert))
                 /\ \A k \in DOMAIN its : SameKeys(its[k].cert, it.cert) => ~new[k].unique
<1> DEFINE dup == FirstDuplicate(its, it.cert)
           alone == \A k \in DOMAIN its : ~SameKeys(its[k].cert, it.cert)
           last == WithFlag(it, alone)
           old == ResetUniqueKeyId(its, it.cert, Len(its) + 1)
           new == addItem(its, it)
<1>1. Len(its) \in Nat /\ DOMAIN its = 1 .. Len(its) /\ dup \in 0 .. Len(its)
  BY DuplicateFound
<1>2. CASE dup # 0
  <2>1. new = ResetUniqueKeyId(its, it.cert, dup)
    BY <1>2 DEF addItem
  <2> HIDE DEF new, dup
  <2>2. new \in Seq(I) /\ Len(new) = Len(its) /\ FlagsOnly(its, it.cert, new)
    BY <1>1, <2>1, FlagsReset
  <2> QED
    BY <1>2, <2>2 DEF new, dup
<1>3. CASE dup = 0
  <2>1. new = Append(old, last)
    BY <1>3 DEF addItem, WithFlag
  <2>2. last \in I
    BY DEF Flagged
  <2> HIDE DEF new, dup, last, alone
  <2>3. /\ old \in Seq(I) /\ Len(old) = Len(its)
        /\ FlagsOnly(its, it.cert, old)
        /\ \A k \in DOMAIN its : k < Len(its) + 1 /\ SameKeys(its[k].cert, it.cert) => ~old[k].unique
    BY <1>1, FlagsReset
  <2> HIDE DEF old
  <2>4. /\ new \in Seq(I) /\ Len(new) = Len(its) + 1 /\ new[Len(its) + 1] = last
        /\ \A k \in DOMAIN its : new[k] = old[k] /\ k \in DOMAIN new
    BY <1>1, <2>1, <2>2, <2>3, AppendProperties
  <2>5. \A k \in DOMAIN its : SameKeys(its[k].cert, it.cert) => ~new[k].unique
    BY <1>1, <2>3, <2>4
  <2>6. FlagsOnly(its, it.cert, new)
    BY <2>3, <2>4 DEF FlagsOnly
  <2> QED
    BY <1>3, <2>4, <2>5, <2>6 DEF new, dup, last, alone
<1> QED
  BY <1>2, <1>3

(* What is said of the certificates of a store is said of it afterwards. *)
LEMMA CertsKept ==
  ASSUME NEW I, Flagged(I), NEW its \in Seq(I), NEW c, NEW new, FlagsOnly(its, c, new), NEW k \in DOMAIN its
  PROVE  /\ k \in DOMAIN new
         /\ new[k].cert = its[k].cert
         /\ new[k].unique => its[k].unique
<1>1. its[k] \in I
  OBVIOUS
<1> QED
  BY <1>1 DEF FlagsOnly, Flagged

(* addItem lets no duplicate in... *)
LEMMA AddedDistinct ==
  ASSUME NEW I, Flagged(I), NEW its \in Seq(I), NEW it \in I, Distinct(its)
  PROVE  Distinct(addItem(its, it))
<1> DEFINE new == addItem(its, it)
           dup == FirstDuplicate(its, it.cert)
<1>1. /\ new \in Seq(I)
      /\ FlagsOnly(its, it.cert, new)
      /\ dup # 0 => Len(new) = Len(its)
      /\ dup = 0 => Len(new) = Len(its) + 1 /\ new[Len(its) + 1].cert = it.cert
  <2>1. \A flag \in BOOLEAN : WithFlag(it, flag).cert = it.cert
    BY DEF Flagged
  <2> QED
    BY <2>1, ItemAdded
<1>2. dup = 0 => \A k \in DOMAIN its : ~Duplicate(its[k].cert, it.cert)
  BY DuplicateFound
<1> HIDE DEF new, dup
<1>3. \A k \in DOMAIN its : new[k].cert = its[k].cert
  BY <1>1, CertsKept
<1>4. Len(its) \in Nat /\ DOMAIN its = 1 .. Len(its) /\ DOMAIN new = 1 .. Len(new)
  BY <1>1
<1>5. \A c, d : Duplicate(c, d) => Duplicate(d, c)
  BY DEF Duplicate, SameKeys
<1> SUFFICES ASSUME NEW j \in DOMAIN new, NEW k \in DOMAIN new, Duplicate(new[j].cert, new[k].cert)
             PROVE  j = k
  BY DEF Distinct, new
<1>6. CASE j \in DOMAIN its /\ k \in DOMAIN its
  BY <1>3, <1>6 DEF Distinct
<1>7. CASE dup = 0 /\ ~(j \in DOMAIN its /\ k \in DOMAIN its)
  <2>1. \A n \in DOMAIN new : n \in DOMAIN its \/ n = Len(its) + 1
    BY <1>1, <1>4, <1>7
  <2> QED
    BY <1>1, <1>2, <1>3, <1>5, <1>7, <2>1
<1> QED
  BY <1>1, <1>4, <1>6, <1>7

(* ... and leaves the flag only to items that have their keys to themselves. *)
LEMMA AddedFlagsRight ==
  ASSUME NEW I, Flagged(I), NEW its \in Seq(I), NEW it \in I, FlagsRight(its)
  PROVE  FlagsRight(addItem(its, it))
<1> DEFINE new == addItem(its, it)
           dup == FirstDuplicate(its, it.cert)
           alone == \A k \in DOMAIN its : ~SameKeys(its[k].cert, it.cert)
<1>1. /\ new \in Seq(I)
      /\ FlagsOnly(its, it.cert, new)
      /\ dup # 0 => Len(new) = Len(its)
      /\ dup = 0 => /\ Len(new) = Len(its) + 1
                    /\ new[Len(its) + 1].cert = it.cert /\ new[Len(its) + 1].unique = alone
                    /\ \A k \in DOMAIN its : SameKeys(its[k].cert, it.cert) => ~new[k].unique
  <2>1. alone \in BOOLEAN
    OBVIOUS
  <2>2. WithFlag(it, alone).cert = it.cert /\ WithFlag(it, alone).unique = alone
    BY <2>1 DEF Flagged
  <2> QED
    BY <2>2, ItemAdded
<1> HIDE DEF new, dup
<1>2. \A k \in DOMAIN its : new[k].cert = its[k].cert /\ (new[k].unique => its[k].unique)
  BY <1>1, CertsKept
<1>3. Len(its) \in Nat /\ DOMAIN its = 1 .. Len(its) /\ DOMAIN new = 1 .. Len(new)
  BY <1>1
<1>4. \A c, d : SameKeys(c, d) => SameKeys(d, c)
  BY DEF SameKeys
<1> SUFFICES ASSUME NEW j \in DOMAIN new, NEW k \in DOMAIN new, j # k, SameKeys(new[j].cert, new[k].cert)
             PROVE  ~new[j].unique
  BY DEF FlagsRight, new
<1>5. CASE j \in DOMAIN its /\ k \in DOMAIN its
  BY <1>2, <1>5 DEF FlagsRight
<1>6. CASE dup = 0 /\ ~(j \in DOMAIN its /\ k \in DOMAIN its)
  <2>1. \A n \in DOMAIN new : n \in DOMAIN its \/ n = Len(its) + 1
    BY <1>1, <1>3, <1>6
  <2> QED
    BY <1>1, <1>2, <1>4, <1>6, <2>1
<1> QED
  BY <1>1, <1>3, <1>5, <1>6

-----------------------------------------------------------------------------
(* Searching by key *)

(* What getCertByKeyId finds is there and has the key, or is what the      *)
(* caller's pointer holds; it finds nothing only if nothing has the key.   *)
LEMMA KeyFound ==
  ASSUME NEW I, Flagged(I), NEW its \in Seq(I), NEW keyId, NEW actual
  PROVE  LET n == getCertByKeyId(its, keyId, actual)
             found == {k \in DOMAIN its : its[k].cert.keyId = keyId}
         IN /\ n \in {0, actual} \cup DOMAIN its
            /\ n # 0 /\ n # actual => n \in found
            /\ n = 0 => keyId = NoKeyId \/ found = {}
            /\ actual = 0 /\ n # 0 =>
                 its[n].unique \/ \A k \in found : its[k].cert.notBefore <= its[n].cert.notBefore
<1> DEFINE found == {k \in DOMAIN its : its[k].cert.keyId = keyId}
           stops == {k \in found : its[k].unique}
           newest == {k \in found : \A j \in found : its[k].cert.notBefore >= its[j].cert.notBefore}
           n == getCertByKeyId(its, keyId, actual)
<1>1. Len(its) \in Nat /\ DOMAIN its = 1 .. Len(its) /\ 0 \notin DOMAIN its
  OBVIOUS
<1>2. \A k \in DOMAIN its : its[k].cert.notBefore \in Nat
  <2>1. \A k \in DOMAIN its : its[k] \in I
    OBVIOUS
  <2> QED
    BY <2>1 DEF Flagged
<1>3. ASSUME NEW S \in SUBSET (DOMAIN its), S # {} PROVE Min(S) \in S
  BY <1>1, <1>3, LeastIsMin
<1>4. ASSUME found # {} PROVE newest # {}
  <2> DEFINE f == [k \in 1 .. Len(its) |-> its[k].cert.notBefore]
  <2>1. f \in [1 .. Len(its) -> Nat]
    BY <1>1, <1>2
  <2>2. \E k \in found : \A j \in found : f[k] >= f[j]
    <3>1. found \in SUBSET (1 .. Len(its))
      BY <1>1
    <3> HIDE DEF f, found
    <3> QED
      BY <1>1, <1>4, <2>1, <3>1, NewestExists
  <2> QED
    BY <1>1, <2>2
<1>5. \/ n = 0 /\ (keyId = NoKeyId \/ found = {})
      \/ found # {} /\ stops # {} /\ n = Min(stops)
      \/ found # {} /\ actual # 0 /\ n = actual
      \/ found # {} /\ n = Min(newest)
  BY DEF getCertByKeyId
<1>6. found # {} /\ stops # {} => Min(stops) \in stops
  BY <1>3
<1>7. found # {} => Min(newest) \in newest
  BY <1>3, <1>4
<1> HIDE DEF n
<1>8. n \in {0, actual} \cup DOMAIN its
  BY <1>5, <1>6, <1>7
<1>9. n # 0 /\ n # actual => n \in found
  BY <1>5, <1>6, <1>7
<1>10. n = 0 => keyId = NoKeyId \/ found = {}
  BY <1>1, <1>5, <1>6, <1>7
<1>11. actual = 0 /\ n # 0 => its[n].unique \/ \A k \in found : its[k].cert.notBefore <= its[n].cert.notBefore
  BY <1>2, <1>5, <1>6, <1>7
<1> QED
  BY <1>8, <1>9, <1>10, <1>11 DEF n

(* A search by key finds a certificate of that key whenever there is one,  *)
(* and of those one authority issued for the key the newest: in whatever   *)
(* order they were added, and wherever the search ends early.              *)
THEOREM LookupFindsNewest ==
  ASSUME NEW I, Flagged(I), NEW its \in Seq(I), FlagsRight(its),
         NEW m \in DOMAIN its, its[m].cert.keyId # NoKeyId
  PROVE  LET n == getCertByKeyId(its, its[m].cert.keyId, 0) IN
         /\ n \in DOMAIN its
         /\ its[n].cert.keyId = its[m].cert.keyId
         /\ \A k \in DOMAIN its :
              SameKeys(its[k].cert, its[n].cert) => its[k].cert.notBefore <= its[n].cert.notBefore
<1> DEFINE keyId == its[m].cert.keyId
           n == getCertByKeyId(its, keyId, 0)
           found == {k \in DOMAIN its : its[k].cert.keyId = keyId}
<1>1. /\ n # 0 => n \in found
      /\ n = 0 => keyId = NoKeyId \/ found = {}
      /\ n # 0 => its[n].unique \/ \A k \in found : its[k].cert.notBefore <= its[n].cert.notBefore
  BY KeyFound
<1>2. m \in found
  OBVIOUS
<1>3. n \in found
  BY <1>1, <1>2
<1>4. ASSUME NEW k \in DOMAIN its, SameKeys(its[k].cert, its[n].cert)
      PROVE  its[k].cert.notBefore <= its[n].cert.notBefore
  <2>1. its[k] \in I /\ k \in found
    BY <1>3, <1>4 DEF SameKeys
  <2>2. CASE its[n].unique
    <3>1. k = n
      BY <1>3, <1>4, <2>2 DEF FlagsRight, SameKeys
    <3>2. its[k].cert.notBefore \in Nat
      BY <2>1 DEF Flagged
    <3> HIDE DEF n
    <3> QED
      BY <3>1, <3>2
  <2> QED
    BY <1>1, <1>3, <2>1, <2>2
<1> QED
  BY <1>3, <1>4

-----------------------------------------------------------------------------
(* Removing items *)

(* A store is made of the items that another one has at some places. *)
Part(new, its, places) ==
  \E e \in [DOMAIN new -> places] :
    /\ \A j, k \in DOMAIN new : e[j] = e[k] => j = k
    /\ \A j \in DOMAIN new : new[j] = its[e[j]]
    /\ \A p \in places : \E j \in DOMAIN new : e[j] = p

(* One more item. *)
LEMMA PartAppended ==
  ASSUME NEW I, NEW its \in Seq(I), NEW new \in Seq(I), NEW places \in SUBSET DOMAIN its,
         NEW p \in DOMAIN its \ places, Part(new, its, places)
  PROVE  Part(Append(new, its[p]), its, places \cup {p})
<1> DEFINE more == Append(new, its[p])
<1>1. PICK e \in [DOMAIN new -> places] :
        /\ \A j, k \in DOMAIN new : e[j] = e[k] => j = k
        /\ \A j \in DOMAIN new : new[j] = its[e[j]]
        /\ \A q \in places : \E j \in DOMAIN new : e[j] = q
  BY DEF Part
<1>2. /\ more \in Seq(I) /\ DOMAIN more = DOMAIN new \cup {Len(new) + 1} /\ Len(new) + 1 \notin DOMAIN new
      /\ \A j \in DOMAIN new : more[j] = new[j]
      /\ more[Len(new) + 1] = its[p]
  <2>1. its[p] \in I /\ Len(new) \in Nat /\ DOMAIN new = 1 .. Len(new)
    OBVIOUS
  <2>2. /\ more \in Seq(I) /\ Len(more) = Len(new) + 1
        /\ \A j \in 1 .. Len(new) : more[j] = new[j]
        /\ more[Len(new) + 1] = its[p]
    BY <2>1, AppendProperties
  <2> QED
    BY <2>1, <2>2
<1> HIDE DEF more
<1> DEFINE d == [j \in DOMAIN more |-> IF j \in DOMAIN new THEN e[j] ELSE p]
<1>3. d \in [DOMAIN more -> places \cup {p}]
  BY <1>2
<1>4. \A j \in DOMAIN new : d[j] = e[j] /\ d[j] \in places
  BY <1>2
<1>5. d[Len(new) + 1] = p
  BY <1>2
<1> HIDE DEF d
<1>6. \A j, k \in DOMAIN more : d[j] = d[k] => j = k
  BY <1>1, <1>2, <1>4, <1>5
<1>7. \A j \in DOMAIN more : more[j] = its[d[j]]
  BY <1>1, <1>2, <1>4, <1>5
<1>8. \A q \in places \cup {p} : \E j \in DOMAIN more : d[j] = q
  BY <1>1, <1>2, <1>4, <1>5
<1> QED
  BY <1>3, <1>6, <1>7, <1>8 DEF Part, more

LEMMA RemainingPart ==
  ASSUME NEW I, NEW its \in Seq(I), NEW places \in SUBSET DOMAIN its
  PROVE  Remaining(its, places) \in Seq(I) /\ Part(Remaining(its, places), its, places)
<1> DEFINE N == Len(its)
           Step(g, n) == IF n = 0 THEN <<>> ELSE IF n \in places THEN Append(g[n - 1], its[n]) ELSE g[n - 1]
           Upto(g, m) == g = [n \in 0 .. m |-> Step(g, n)]
           kept == CHOOSE g : Upto(g, N)
<1>1. N \in Nat /\ DOMAIN its = 1 .. N
  OBVIOUS
<1>2. \E g : Upto(g, N)
  <2> DEFINE Defined == {m \in Nat : \E g : Upto(g, m)}
  <2>1. 0 \in Defined
    <3>1. Upto([n \in 0 .. 0 |-> <<>>], 0)
      OBVIOUS
    <3> QED
      BY <3>1
  <2>2. ASSUME NEW m \in Nat, m \in Defined PROVE m + 1 \in Defined
    <3>1. PICK g : Upto(g, m)
      BY <2>2
    <3> DEFINE h == [n \in 0 .. m + 1 |-> IF n <= m THEN g[n] ELSE Step(g, n)]
    <3>2. \A n \in 0 .. m + 1 : h[n] = Step(h, n)
      <4> SUFFICES ASSUME NEW n \in 0 .. m + 1 PROVE h[n] = Step(h, n)
        OBVIOUS
      <4>1. n # 0 => n - 1 \in 0 .. m /\ h[n - 1] = g[n - 1]
        OBVIOUS
      <4>2. h[n] = Step(g, n)
        <5>1. CASE n <= m
          <6>1. n \in 0 .. m /\ h[n] = g[n]
            BY <5>1
          <6>2. \A k \in 0 .. m : g[k] = Step(g, k)
            BY <3>1
          <6> QED
            BY <6>1, <6>2
        <5>2. CASE ~(n <= m)
          BY <5>2
        <5> QED
          BY <5>1, <5>2
      <4> QED
        BY <4>1, <4>2
    <3>3. Upto(h, m + 1)
      <4>1. h = [n \in 0 .. m + 1 |-> h[n]]
        OBVIOUS
      <4> QED
        BY <3>2, <4>1
    <3> HIDE DEF Upto, h
    <3> QED
      BY <3>3
  <2> HIDE DEF Defined
  <2>3. N \in Defined
    BY <1>1, <2>1, <2>2, Numbers
  <2> QED
    BY <2>3 DEF Defined
<1>3. Upto(kept, N)
  BY <1>2
<1>4. Remaining(its, places) = kept[N]
  BY DEF Remaining
<1> HIDE DEF kept
<1>5. \A n \in 0 .. N : kept[n] = Step(kept, n)
  BY <1>3
<1> DEFINE Right == {n \in Nat : n <= N => kept[n] \in Seq(I) /\ Part(kept[n], its, places \cap 1 .. n)}
<1>6. 0 \in Right
  <2>1. kept[0] = <<>> /\ places \cap 1 .. 0 = {}
    BY <1>1, <1>5
  <2>2. Part(<<>>, its, {})
    <3> DEFINE e == [j \in {} |-> j]
    <3>1. DOMAIN <<>> = {} /\ e \in [{} -> {}]
      OBVIOUS
    <3> QED
      BY <3>1 DEF Part
  <2>3. kept[0] \in Seq(I)
    BY <2>1
  <2> QED
    BY <2>1, <2>2, <2>3
<1>7. ASSUME NEW n \in Nat, n \in Right PROVE n + 1 \in Right
  <2> SUFFICES ASSUME n + 1 <= N
               PROVE  kept[n + 1] \in Seq(I) /\ Part(kept[n + 1], its, places \cap 1 .. n + 1)
    OBVIOUS
  <2>1. kept[n] \in Seq(I) /\ Part(kept[n], its, places \cap 1 .. n)
    BY <1>1, <1>7
  <2>2. n + 1 \in DOMAIN its /\ n + 1 \in 0 .. N /\ (n + 1) - 1 = n
    BY <1>1
  <2>3. CASE n + 1 \in places
    <3>1. kept[n + 1] = Append(kept[n], its[n + 1])
      <4>1. kept[n + 1] = Step(kept, n + 1)
        BY <1>5, <2>2
      <4>2. n + 1 # 0
        OBVIOUS
      <4> QED
        BY <2>2, <2>3, <4>1, <4>2
    <3>2. kept[n + 1] \in Seq(I)
      BY <2>1, <2>2, <3>1
    <3>3. Part(kept[n + 1], its, (places \cap 1 .. n) \cup {n + 1})
      BY <2>1, <2>2, <3>1, PartAppended
    <3>4. (places \cap 1 .. n) \cup {n + 1} = places \cap 1 .. n + 1
      BY <2>3
    <3> QED
      BY <3>2, <3>3, <3>4
  <2>4. CASE n + 1 \notin places
    <3>1. kept[n + 1] = kept[n]
      <4>1. kept[n + 1] = Step(kept, n + 1)
        BY <1>5, <2>2
      <4>2. n + 1 # 0
        OBVIOUS
      <4> QED
        BY <2>2, <2>4, <4>1, <4>2
    <3>2. places \cap 1 .. n = places \cap 1 .. n + 1
      BY <2>4
    <3> QED
      BY <2>1, <3>1, <3>2
  <2> QED
    BY <2>3, <2>4
<1> HIDE DEF Right
<1>8. N \in Right
  BY <1>1, <1>6, <1>7, Numbers
<1>9. places \cap 1 .. N = places
  BY <1>1
<1>10. kept[N] \in Seq(I) /\ Part(kept[N], its, places \cap 1 .. N)
  BY <1>1, <1>8 DEF Right
<1> QED
  BY <1>4, <1>9, <1>10

LEMMA RemovedPart ==
  ASSUME NEW I, NEW its \in Seq(I), NEW p \in DOMAIN its
  PROVE  RemoveAt(its, p) \in Seq(I) /\ Part(RemoveAt(its, p), its, DOMAIN its \ {p})
<1> DEFINE new == RemoveAt(its, p)
           e == [j \in DOMAIN new |-> IF j < p THEN j ELSE j + 1]
<1>1. Len(its) \in Nat /\ DOMAIN its = 1 .. Len(its) /\ p \in 1 .. Len(its)
  OBVIOUS
<1>2. /\ SubSeq(its, 1, p - 1) \in Seq(I) /\ Len(SubSeq(its, 1, p - 1)) = p - 1
      /\ \A j \in 1 .. p - 1 : SubSeq(its, 1, p - 1)[j] = its[j]
  BY <1>1, SubSeqProperties
<1>3. /\ SubSeq(its, p + 1, Len(its)) \in Seq(I) /\ Len(SubSeq(its, p + 1, Len(its))) = Len(its) - p
      /\ \A j \in 1 .. Len(its) - p : SubSeq(its, p + 1, Len(its))[j] = its[p + j]
  BY <1>1, SubSeqProperties
<1>4. /\ new \in Seq(I) /\ Len(new) = Len(its) - 1
      /\ \A j \in 1 .. Len(new) : new[j] = IF j < p THEN its[j] ELSE its[j + 1]
  <2> DEFINE before == SubSeq(its, 1, p - 1)
             after == SubSeq(its, p + 1, Len(its))
  <2>1. new = before \o after
    BY DEF RemoveAt
  <2>2. /\ before \in Seq(I) /\ Len(before) = p - 1 /\ \A j \in 1 .. p - 1 : before[j] = its[j]
        /\ after \in Seq(I) /\ Len(after) = Len(its) - p
        /\ \A j \in 1 .. Len(its) - p : after[j] = its[p + j]
    BY <1>2, <1>3
  <2> HIDE DEF before, after, new
  <2>3. /\ new \in Seq(I) /\ Len(new) = Len(before) + Len(after)
        /\ \A j \in 1 .. Len(before) + Len(after) :
             new[j] = IF j <= Len(before) THEN before[j] ELSE after[j - Len(before)]
    BY <2>1, <2>2, ConcatProperties
  <2> SUFFICES ASSUME NEW j \in 1 .. Len(new) PROVE new[j] = IF j < p THEN its[j] ELSE its[j + 1]
    BY <1>1, <2>2, <2>3
  <2>4. CASE j < p
    BY <1>1, <2>2, <2>3, <2>4
  <2>5. CASE ~(j < p)
    <3>1. j - (p - 1) \in 1 .. Len(its) - p /\ p + (j - (p - 1)) = j + 1
      BY <1>1, <2>2, <2>3, <2>5
    <3>2. new[j] = after[j - (p - 1)]
      BY <1>1, <2>2, <2>3, <2>5
    <3> QED
      BY <2>2, <2>5, <3>1, <3>2
  <2> QED
    BY <2>4, <2>5
<1> HIDE DEF new
<1>5. DOMAIN new = 1 .. Len(its) - 1
  BY <1>1, <1>4
<1>6. e \in [DOMAIN new -> DOMAIN its \ {p}]
  BY <1>1, <1>5
<1>7. \A j, k \in DOMAIN new : e[j] = e[k] => j = k
  BY <1>1, <1>5
<1>8. \A j \in DOMAIN new : new[j] = its[e[j]]
  BY <1>1, <1>4, <1>5
<1>9. ASSUME NEW q \in DOMAIN its \ {p} PROVE \E j \in DOMAIN new : e[j] = q
  <2>1. CASE q < p
    BY <1>1, <1>5, <2>1
  <2>2. CASE q > p
    <3>1. q - 1 \in DOMAIN new /\ e[q - 1] = q
      BY <1>1, <1>5, <2>2
    <3> QED
      BY <3>1
  <2> QED
    BY <1>1, <2>1, <2>2
<1> HIDE DEF e
<1> QED
  BY <1>4, <1>6, <1>7, <1>8, <1>9 DEF Part, new
=============================================================================
