----------------------------- MODULE DrbgProofs ------------------------------
(* What the random generator guarantees, for any number of threads and of  *)
(* calls, if no method overlaps INIT.                                      *)
EXTENDS Drbg, SequenceTheorems, TLAPS

-----------------------------------------------------------------------------
(* Types *)

LEMMA ValueType == NewV \in Value /\ \A s \in Nat : TypeOK => NextV(s) \in Value
BY DEF TypeOK, NewV, NextV, Value, Zero

LEMMA KeyType ==
  ASSUME TypeOK, NEW s \in Nat
  PROVE  /\ Updated(s) => drbg_Key' \in Nat /\ drbg_V' \in Value
         /\ UpdateFails(s) => drbg_Key' \in Nat \cup {NULL} /\ drbg_V' \in Value
         /\ drbg_free_internal => drbg_Key' = NULL /\ drbg_V' \in Value /\ drbg_reseed_counter' \in Nat
<1>1. Updated(s) => drbg_Key' \in Nat /\ drbg_V' \in Value
  BY ValueType DEF Updated
<1>2. ASSUME UpdateFails(s) PROVE drbg_Key' \in Nat \cup {NULL} /\ drbg_V' \in Value
  <2>1. drbg_Key' \in Nat \cup {NULL}
    BY <1>2 DEF UpdateFails, TypeOK
  <2>2. CASE drbg_V' = drbg_V
    BY <2>1, <2>2 DEF TypeOK
  <2>3. CASE drbg_V' = NextV(drbg_Key') /\ drbg_Key' # NULL
    BY <2>1, <2>3, ValueType
  <2> QED
    BY <2>1, <2>2, <2>3, <1>2 DEF UpdateFails
<1>3. drbg_free_internal => drbg_Key' = NULL /\ drbg_V' \in Value /\ drbg_reseed_counter' \in Nat
  BY ValueType DEF drbg_free_internal
<1> QED
  BY <1>1, <1>2, <1>3

LEMMA PointType ==
  ASSUME TypeOK, NEW t \in Threads, NEW from, NEW to \in Points, Goto(t, from, to)
  PROVE  pc' \in [Threads -> Points]
BY DEF TypeOK, Goto

(* The parts of the type that the caller's variables have. *)
LEMMA CallerType ==
  ASSUME TypeOK, UNCHANGED callers
  PROVE  /\ random' \in [Threads -> Seq(Value)] /\ outlen' \in [Threads -> Nat]
         /\ tmp' \in [Threads -> Value] /\ given' \in Seq(Value)
BY DEF TypeOK, callers

LEMMA LockType ==
  ASSUME TypeOK, NEW t \in Threads, NEW from, NEW to \in Points, Lock(t, from, to)
  PROVE  TypeOK'
BY PointType, CallerType DEF Lock, TypeOK, generator

LEMMA EntropyType ==
  ASSUME TypeOK, NEW t \in Threads, NEW from, NEW to \in Points, NEW failed \in Points,
         entropy_get(t, from, to, failed)
  PROVE  TypeOK'
BY PointType, CallerType DEF entropy_get, TypeOK, generator

LEMMA AllocType ==
  ASSUME TypeOK, NEW t \in Threads, NEW from, NEW to \in Points, NEW failed \in Points,
         Alloc(t, from, to, failed)
  PROVE  TypeOK'
BY PointType, CallerType, KeyType, ValueType DEF Alloc, TypeOK, Zero

LEMMA SeedType ==
  ASSUME TypeOK, NEW t \in Threads, NEW from, NEW to \in Points, NEW failed \in Points,
         Seed(t, from, to, failed)
  PROVE  TypeOK'
<1>1. entropy + 1 \in Nat
  BY DEF TypeOK
<1> QED
  BY <1>1, PointType, CallerType, KeyType DEF Seed, TypeOK

LEMMA TypeNext ==
  ASSUME TypeOK, NEW t \in Threads, Next(t)
  PROVE  TypeOK'
<1> USE DEF Points, RandomPoints, InitPoints, TestPoints
<1>1. ASSUME NEW n \in 1 .. MaxBlocks + 1, RandomCall(t, n) PROVE TypeOK'
  BY <1>1, PointType DEF RandomCall, TypeOK, generator
<1>2. CASE RandomLock(t)
  BY <1>2, LockType DEF RandomLock
<1>3. CASE RandomEnter(t)
  BY <1>3, PointType, CallerType DEF RandomEnter, TypeOK, generator
<1>4. CASE RandomInit(t)
  BY <1>4, EntropyType, AllocType, SeedType DEF RandomInit
<1>5. CASE RandomReseed(t)
  <2>1. pc' \in [Threads -> Points]
    BY <1>5, PointType DEF RandomReseed
  <2>2. drbg_Key' \in Nat \cup {NULL} /\ drbg_V' \in Value /\ drbg_reseed_counter' \in Nat
    <3>1. CASE drbg_Key = NULL
      <4>1. drbg_reseed_counter' \in Nat
        BY <1>5, <3>1 DEF RandomReseed, TypeOK
      <4>2. CASE UNCHANGED <<drbg_Key, drbg_V>>
        BY <4>1, <4>2 DEF TypeOK
      <4>3. CASE UpdateFails(drbg_Key)
        BY <3>1, <4>1, <4>3 DEF UpdateFails, TypeOK
      <4> QED
        BY <1>5, <3>1, <4>2, <4>3 DEF RandomReseed, Updated
    <3>2. CASE drbg_Key \in Nat
      BY <1>5, <3>2, KeyType DEF RandomReseed, TypeOK
    <3> QED
      BY <3>1, <3>2 DEF TypeOK
  <2> QED
    BY <1>5, <2>1, <2>2, CallerType DEF RandomReseed, TypeOK
<1>6. CASE RandomHmac(t)
  <2>1. pc' \in [Threads -> Points]
    BY <1>6, PointType DEF RandomHmac
  <2>2. tmp' \in [Threads -> Value]
    BY <1>6, ValueType DEF RandomHmac, TypeOK
  <2> QED
    BY <1>6, <2>1, <2>2 DEF RandomHmac, TypeOK, generator
<1>7. CASE RandomCopy(t)
  BY <1>7, PointType, AppendProperties, ValueType DEF RandomCopy, TypeOK
<1>8. CASE RandomUpdate(t)
  <2>1. pc' \in [Threads -> Points]
    BY <1>8, PointType DEF RandomUpdate
  <2>2. drbg_Key' \in Nat \cup {NULL} /\ drbg_V' \in Value
    <3>1. CASE drbg_Key = NULL
      BY <1>8, <3>1 DEF RandomUpdate, Updated, UpdateFails, TypeOK
    <3>2. CASE drbg_Key \in Nat
      BY <1>8, <3>2, KeyType DEF RandomUpdate
    <3> QED
      BY <3>1, <3>2 DEF TypeOK
  <2>3. given' \in Seq(Value) /\ random' \in [Threads -> Seq(Value)]
    <3>1. given \o random[t] \in Seq(Value) /\ <<>> \in Seq(Value)
      BY ConcatProperties DEF TypeOK
    <3> QED
      BY <1>8, <3>1 DEF RandomUpdate, TypeOK
  <2> QED
    BY <1>8, <2>1, <2>2, <2>3 DEF RandomUpdate, TypeOK
<1>9. CASE RandomUnlock(t)
  BY <1>9, PointType DEF RandomUnlock, TypeOK, generator
<1>10. ASSUME NEW skipSelfTest \in BOOLEAN, uapkic_init(t, skipSelfTest) PROVE TypeOK'
  BY <1>10, PointType, CallerType DEF uapkic_init, TypeOK, generator
<1>11. CASE drbg_self_test(t)
  <2>1. CASE SelfTestAllowed(t)
    BY <2>1, PointType, CallerType DEF SelfTestAllowed, TypeOK, generator
  <2>2. CASE TestSeed(t)
    BY <2>2, PointType, CallerType, KeyType DEF TestSeed, TypeOK, Test
  <2>3. CASE TestGenerate(t)
    <3>1. drbg_V' \in Value
      <4>1. PICK n \in 0 .. 10 : drbg_V' = [drbg_V EXCEPT !.age = @ + n]
        BY <2>3 DEF TestGenerate
      <4>2. drbg_V \in Value
        BY DEF TypeOK
      <4> QED
        BY <4>1, <4>2 DEF Value
    <3> QED
      BY <2>3, <3>1, PointType, CallerType DEF TestGenerate, TypeOK
  <2>4. CASE TestFree(t)
    BY <2>4, PointType, CallerType, KeyType DEF TestFree, TypeOK
  <2>5. CASE TestUnlock(t)
    BY <2>5, PointType, CallerType DEF TestUnlock, TypeOK, generator
  <2> QED
    BY <1>11, <2>1, <2>2, <2>3, <2>4, <2>5, LockType, AllocType DEF drbg_self_test
<1>12. CASE Check(t) \/ InitDone(t)
  BY <1>12, PointType, CallerType DEF Check, InitDone, TypeOK, generator
<1>13. CASE InitDrbg(t)
  BY <1>13, EntropyType, AllocType, SeedType DEF InitDrbg
<1> QED
  BY <1>1, <1>2, <1>3, <1>4, <1>5, <1>6, <1>7, <1>8, <1>9, <1>10, <1>11, <1>12, <1>13 DEF Next, drbg_random

-----------------------------------------------------------------------------
(* The mutex, and INIT *)

LEMMA OwnerSame ==
  ASSUME TypeOK, MutexOwner, NEW t \in Threads, NEW from, NEW to, Goto(t, from, to),
         from \in Holding <=> to \in Holding, UNCHANGED drbg_mutex
  PROVE  MutexOwner'
BY DEF TypeOK, MutexOwner, Goto

LEMMA OwnerLock ==
  ASSUME TypeOK, MutexOwner, NEW t \in Threads, NEW from, NEW to \in Holding, Lock(t, from, to)
  PROVE  MutexOwner'
BY DrbgAssumption DEF TypeOK, MutexOwner, Goto, Lock

LEMMA OwnerUnlock ==
  ASSUME TypeOK, MutexOwner, NEW t \in Threads, NEW from \in Holding, NEW to, to \notin Holding,
         Goto(t, from, to), drbg_mutex' = NoThread
  PROVE  MutexOwner'
BY DrbgAssumption DEF TypeOK, MutexOwner, Goto

LEMMA OwnerNext ==
  ASSUME TypeOK, MutexOwner, NEW t \in Threads, Next(t)
  PROVE  MutexOwner'
<1> USE DEF Holding, RandomPoints, TestPoints
<1>1. ASSUME NEW n \in 1 .. MaxBlocks + 1, RandomCall(t, n) PROVE MutexOwner'
  BY <1>1, OwnerSame DEF RandomCall
<1>2. CASE RandomLock(t)
  BY <1>2, OwnerLock DEF RandomLock
<1>3. CASE RandomEnter(t)
  BY <1>3, OwnerSame DEF RandomEnter
<1>4. CASE RandomInit(t)
  BY <1>4, OwnerSame DEF RandomInit, entropy_get, Alloc, Seed
<1>5. CASE RandomReseed(t)
  BY <1>5, OwnerSame DEF RandomReseed
<1>6. CASE RandomHmac(t)
  <2>1. CASE UNCHANGED <<pc, drbg_mutex>>
    BY <2>1 DEF MutexOwner
  <2> QED
    BY <1>6, <2>1, OwnerSame DEF RandomHmac
<1>7. CASE RandomCopy(t) \/ RandomUpdate(t)
  BY <1>7, OwnerSame DEF RandomCopy, RandomUpdate
<1>8. CASE RandomUnlock(t)
  BY <1>8, OwnerUnlock DEF RandomUnlock
<1>9. ASSUME NEW skipSelfTest \in BOOLEAN, uapkic_init(t, skipSelfTest) PROVE MutexOwner'
  BY <1>9, OwnerSame DEF uapkic_init
<1>10. CASE drbg_self_test(t)
  <2>1. CASE Lock(t, "i_lock", "i_alloc")
    BY <2>1, OwnerLock
  <2>2. CASE TestUnlock(t)
    BY <2>2, OwnerUnlock DEF TestUnlock
  <2> QED
    BY <1>10, <2>1, <2>2, OwnerSame DEF drbg_self_test, SelfTestAllowed, Alloc, TestSeed, TestGenerate, TestFree
<1>11. CASE Check(t) \/ InitDrbg(t) \/ InitDone(t)
  BY <1>11, OwnerSame DEF Check, InitDrbg, InitDone, entropy_get, Alloc, Seed
<1> QED
  BY <1>1, <1>2, <1>3, <1>4, <1>5, <1>6, <1>7, <1>8, <1>9, <1>10, <1>11 DEF Next, drbg_random

(* A step that neither starts nor leaves uapkic_init, or that ends a call. *)
LEMMA AloneSame ==
  ASSUME TypeOK, InitAlone, Overlapping = {}, NEW t \in Threads, NEW from, from # "idle", NEW to,
         Goto(t, from, to), to = "idle" \/ (from \in InitPoints <=> to \in InitPoints)
  PROVE  InitAlone'
BY DEF TypeOK, InitAlone, Goto, InitPoints, TestPoints

LEMMA AloneNext ==
  ASSUME TypeOK, InitAlone, Overlapping = {}, NEW t \in Threads, Next(t)
  PROVE  InitAlone'
<1> USE DEF InitPoints, TestPoints
<1>1. ASSUME NEW n \in 1 .. MaxBlocks + 1, RandomCall(t, n) PROVE InitAlone'
  <2>1. \A u \in Threads : pc[u] \notin InitPoints
    BY <1>1 DEF RandomCall, Held
  <2> QED
    BY <1>1, <2>1 DEF RandomCall, Goto, InitAlone, TypeOK
<1>2. CASE RandomLock(t) \/ RandomEnter(t) \/ RandomInit(t)
  BY <1>2, AloneSame DEF RandomLock, Lock, RandomEnter, RandomInit, entropy_get, Alloc, Seed
<1>3. CASE RandomHmac(t)
  <2>1. CASE UNCHANGED pc
    BY <2>1 DEF InitAlone
  <2> QED
    BY <1>3, <2>1, AloneSame DEF RandomHmac
<1>4. CASE RandomReseed(t) \/ RandomCopy(t) \/ RandomUpdate(t) \/ RandomUnlock(t)
  BY <1>4, AloneSame DEF RandomReseed, RandomCopy, RandomUpdate, RandomUnlock
<1>5. ASSUME NEW skipSelfTest \in BOOLEAN, uapkic_init(t, skipSelfTest) PROVE InitAlone'
  BY <1>5 DEF uapkic_init, Goto, InitAlone, TypeOK
<1>6. CASE drbg_self_test(t)
  BY <1>6, AloneSame DEF drbg_self_test, SelfTestAllowed, Lock, Alloc, TestSeed, TestGenerate, TestFree, TestUnlock
<1>7. CASE Check(t) \/ InitDrbg(t) \/ InitDone(t)
  BY <1>7, AloneSame DEF Check, InitDrbg, InitDone, entropy_get, Alloc, Seed
<1> QED
  BY <1>1, <1>2, <1>3, <1>4, <1>5, <1>6, <1>7 DEF Next, drbg_random

(* While one thread is in drbg_random, others can only ask for it too. *)
LEMMA OthersOnlyCall ==
  ASSUME MutexOwner, InitAlone, Overlapping = {}, NEW t \in Threads, NEW u \in Threads, u # t,
         pc[u] \in RandomPoints \cap Holding, Next(t)
  PROVE  \E n \in 1 .. MaxBlocks + 1 : RandomCall(t, n)
<1>1. pc[t] \notin Holding /\ drbg_mutex # NoThread
  BY DrbgAssumption DEF MutexOwner
<1>2. pc[t] \notin InitPoints /\ pc[u] # "idle"
  BY DEF InitAlone, RandomPoints
<1> USE DEF Goto
<1>3. ~RandomLock(t)
  BY <1>1 DEF RandomLock, Lock
<1>4. ~RandomEnter(t) /\ ~RandomInit(t) /\ ~RandomReseed(t) /\ ~RandomHmac(t)
  BY <1>1 DEF RandomEnter, RandomInit, RandomReseed, RandomHmac, entropy_get, Alloc, Seed, Holding, RandomPoints
<1>5. ~RandomCopy(t) /\ ~RandomUpdate(t) /\ ~RandomUnlock(t)
  BY <1>1 DEF RandomCopy, RandomUpdate, RandomUnlock, Holding, RandomPoints
<1>6. ASSUME NEW skipSelfTest \in BOOLEAN PROVE ~uapkic_init(t, skipSelfTest)
  BY <1>2 DEF uapkic_init
<1>7. ~drbg_self_test(t)
  BY <1>2 DEF drbg_self_test, SelfTestAllowed, Lock, Alloc, TestSeed, TestGenerate, TestFree, TestUnlock,
              InitPoints, TestPoints
<1>8. ~Check(t) /\ ~InitDrbg(t) /\ ~InitDone(t)
  BY <1>2 DEF Check, InitDrbg, InitDone, entropy_get, Alloc, Seed, InitPoints
<1> QED
  BY <1>3, <1>4, <1>5, <1>6, <1>7, <1>8 DEF Next, drbg_random

-----------------------------------------------------------------------------
(* Keys *)

LEMMA KeySame ==
  ASSUME TypeOK, KeyDrawn, NEW t \in Threads, NEW from, NEW to, Goto(t, from, to),
         from \notin Building \/ to \in Building, UNCHANGED <<drbg_Key, entropy>>
  PROVE  KeyDrawn'
BY DEF TypeOK, KeyDrawn, Goto, Secret

LEMMA KeyFreed ==
  ASSUME KeyDrawn, drbg_free_internal, entropy' \in {entropy, entropy + 1}, TypeOK
  PROVE  KeyDrawn'
BY DEF KeyDrawn, drbg_free_internal, TypeOK, Test

LEMMA KeyBuilt ==
  ASSUME TypeOK, KeyDrawn, NEW t \in Threads, NEW from, NEW to \in Building, Goto(t, from, to),
         drbg_Key' \in {drbg_Key, Zero, Test}, UNCHANGED entropy
  PROVE  KeyDrawn'
BY DrbgAssumption DEF TypeOK, KeyDrawn, Goto, Zero, Test

LEMMA KeySeeded ==
  ASSUME TypeOK, KeyDrawn, NEW t \in Threads, NEW from, NEW to, NEW failed, Seed(t, from, to, failed)
  PROVE  KeyDrawn'
<1>1. CASE drbg_free_internal
  BY <1>1, KeyFreed DEF Seed
<1>2. CASE drbg_Key' = entropy + 1
  BY <1>2, DrbgAssumption DEF Seed, KeyDrawn, Secret, TypeOK, Test
<1> QED
  BY <1>1, <1>2 DEF Seed, Updated

LEMMA KeyAllocated ==
  ASSUME TypeOK, KeyDrawn, NEW t \in Threads, NEW from, NEW to \in Building, NEW failed, Alloc(t, from, to, failed)
  PROVE  KeyDrawn'
BY KeyFreed, KeyBuilt DEF Alloc

LEMMA KeyNext ==
  ASSUME TypeOK, KeyDrawn, NEW t \in Threads, Next(t)
  PROVE  KeyDrawn'
<1> USE DEF Building
<1>1. ASSUME NEW n \in 1 .. MaxBlocks + 1, RandomCall(t, n) PROVE KeyDrawn'
  BY <1>1, KeySame DEF RandomCall, generator
<1>2. CASE RandomLock(t) \/ RandomEnter(t) \/ RandomUnlock(t)
  BY <1>2, KeySame DEF RandomLock, Lock, RandomEnter, RandomUnlock, generator
<1>3. CASE RandomInit(t)
  BY <1>3, KeySame, KeyAllocated, KeySeeded DEF RandomInit, entropy_get, generator
<1>4. CASE RandomReseed(t)
  BY <1>4, KeySame DEF RandomReseed, Updated, UpdateFails
<1>5. CASE RandomHmac(t)
  <2>1. CASE UNCHANGED <<pc, drbg_Key, entropy>>
    BY <2>1 DEF KeyDrawn, Secret
  <2> QED
    BY <1>5, <2>1, KeySame DEF RandomHmac, generator
<1>6. CASE RandomCopy(t) \/ RandomUpdate(t)
  BY <1>6, KeySame DEF RandomCopy, RandomUpdate, Updated, UpdateFails
<1>7. ASSUME NEW skipSelfTest \in BOOLEAN, uapkic_init(t, skipSelfTest) PROVE KeyDrawn'
  BY <1>7, KeySame DEF uapkic_init, generator
<1>8. CASE drbg_self_test(t)
  <2>1. CASE SelfTestAllowed(t) \/ Lock(t, "i_lock", "i_alloc") \/ TestGenerate(t) \/ TestUnlock(t)
    BY <2>1, KeySame DEF SelfTestAllowed, Lock, TestGenerate, TestUnlock, generator
  <2>2. CASE TestSeed(t)
    BY <2>2, KeyBuilt, KeyFreed DEF TestSeed, Updated, UpdateFails
  <2>3. CASE TestFree(t)
    BY <2>3, KeyFreed DEF TestFree
  <2> QED
    BY <1>8, <2>1, <2>2, <2>3, KeyAllocated DEF drbg_self_test
<1>9. CASE Check(t) \/ InitDone(t)
  BY <1>9, KeySame DEF Check, InitDone, generator
<1>10. CASE InitDrbg(t)
  BY <1>10, KeySame, KeyAllocated, KeySeeded DEF InitDrbg, entropy_get, generator
<1> QED
  BY <1>1, <1>2, <1>3, <1>4, <1>5, <1>6, <1>7, <1>8, <1>9, <1>10 DEF Next, drbg_random

LEMMA OthersStay ==
  ASSUME TypeOK, NEW t \in Threads, Next(t), NEW u \in Threads, u # t
  PROVE  pc'[u] = pc[u] /\ random'[u] = random[u] /\ tmp'[u] = tmp[u]
<1> USE DEF TypeOK, Goto, callers
<1>1. CASE drbg_random(t)
  BY <1>1 DEF drbg_random, RandomCall, RandomLock, Lock, RandomEnter, RandomInit, entropy_get, Alloc, Seed,
              RandomReseed, RandomHmac, RandomCopy, RandomUpdate, RandomUnlock
<1>2. ASSUME NEW skipSelfTest \in BOOLEAN, uapkic_init(t, skipSelfTest)
      PROVE  pc'[u] = pc[u] /\ random'[u] = random[u] /\ tmp'[u] = tmp[u]
  BY <1>2 DEF uapkic_init
<1>3. CASE drbg_self_test(t)
  BY <1>3 DEF drbg_self_test, SelfTestAllowed, Lock, Alloc, TestSeed, TestGenerate, TestFree, TestUnlock
<1>4. CASE Check(t) \/ InitDrbg(t) \/ InitDone(t)
  BY <1>4 DEF Check, InitDrbg, InitDone, entropy_get, Alloc, Seed
<1> QED
  BY <1>1, <1>2, <1>3, <1>4 DEF Next

Using == {"r_reseed", "r_hmac", "r_copy", "r_update"}

(* A thread that takes up a generator that is set up finds a secret key:   *)
(* nobody else is building one.                                            *)
LEMMA EnterSecret ==
  ASSUME MutexOwner, InitAlone, Overlapping = {}, KeyDrawn, NEW t \in Threads, pc[t] = "r_enter", drbg_Key # NULL
  PROVE  Secret(drbg_Key)
<1> SUFFICES ASSUME NEW u \in Threads, pc[u] \in Building PROVE FALSE
  BY DEF KeyDrawn
<1>1. CASE pc[u] = "r_seed"
  BY <1>1 DEF MutexOwner, Holding, RandomPoints
<1>2. CASE pc[u] \in InitPoints
  BY <1>2 DEF InitAlone, InitPoints, TestPoints
<1> QED
  BY <1>1, <1>2 DEF Building, InitPoints, TestPoints

LEMMA UseNext ==
  ASSUME TypeOK, MutexOwner, InitAlone, Overlapping = {}, KeyDrawn, SecretInUse, NEW t \in Threads, Next(t)
  PROVE  SecretInUse'
<1> SUFFICES ASSUME NEW u \in Threads, pc'[u] \in Using PROVE Secret(drbg_Key')
  BY DEF SecretInUse, Using, Secret
<1>1. CASE u # t
  <2>1. PICK n \in 1 .. MaxBlocks + 1 : RandomCall(t, n)
    BY <1>1, OthersStay, OthersOnlyCall DEF Using, RandomPoints, Holding
  <2> QED
    BY <1>1, <2>1, OthersStay DEF RandomCall, SecretInUse, Using, generator
<1>2. CASE u = t
  <2> USE <1>2 DEF Goto, Using, TypeOK
  <2>1. CASE RandomEnter(t)
    <3>1. pc[t] = "r_enter" /\ drbg_Key # NULL /\ drbg_Key' = drbg_Key
      BY <2>1 DEF RandomEnter, generator
    <3> QED
      BY <3>1, EnterSecret
  <2>2. CASE RandomInit(t)
    <3>1. drbg_Key' = entropy + 1 /\ entropy \in Nat /\ entropy >= Test
      BY <2>2 DEF RandomInit, entropy_get, Alloc, Seed, Updated, KeyDrawn
    <3> QED
      BY <3>1, DrbgAssumption DEF Secret, Test
  <2>3. CASE RandomReseed(t) \/ RandomHmac(t) \/ RandomCopy(t)
    <3>1. pc[t] \in Using /\ drbg_Key' = drbg_Key
      BY <2>3 DEF RandomReseed, Updated, UpdateFails, RandomHmac, RandomCopy, generator
    <3> QED
      BY <3>1 DEF SecretInUse
  <2>4. ~drbg_self_test(t) /\ ~Check(t) /\ ~InitDrbg(t) /\ ~InitDone(t)
    BY DEF drbg_self_test, SelfTestAllowed, Lock, Alloc, TestSeed, TestGenerate, TestFree, TestUnlock,
           Check, InitDrbg, InitDone, entropy_get, Seed
  <2>5. \A n \in 1 .. MaxBlocks + 1 : ~RandomCall(t, n)
    BY DEF RandomCall
  <2>6. ~RandomLock(t) /\ ~RandomUpdate(t) /\ ~RandomUnlock(t)
    BY DEF RandomLock, Lock, RandomUpdate, RandomUnlock
  <2>7. \A skipSelfTest \in BOOLEAN : ~uapkic_init(t, skipSelfTest)
    BY DEF uapkic_init
  <2> QED
    BY <2>1, <2>2, <2>3, <2>4, <2>5, <2>6, <2>7 DEF Next, drbg_random
<1> QED
  BY <1>1, <1>2

-----------------------------------------------------------------------------
(* Blocks *)

(* What a step does to the key: it stays and V goes on, or it is one that  *)
(* no block was made from, or it is new.                                   *)
LEMMA GeneratorStep ==
  ASSUME TypeOK, BlocksMade, NEW t \in Threads, Next(t)
  PROVE  \/ UNCHANGED <<drbg_Key, entropy>> /\ drbg_V'.age >= drbg_V.age
         \/ drbg_Key' \in {Zero, Test, NULL} /\ entropy' \in {entropy, entropy + 1}
         \/ drbg_Key' = entropy + 1 /\ entropy' = entropy + 1
<1> DEFINE Goal == \/ UNCHANGED <<drbg_Key, entropy>> /\ drbg_V'.age >= drbg_V.age
                   \/ drbg_Key' \in {Zero, Test, NULL} /\ entropy' \in {entropy, entropy + 1}
                   \/ drbg_Key' = entropy + 1 /\ entropy' = entropy + 1
<1>1. drbg_V.age \in Nat /\ \A s : NextV(s).age = drbg_V.age + 1
  BY DEF TypeOK, Value, NextV
<1>2. UNCHANGED generator => Goal
  BY <1>1 DEF generator
<1>3. ASSUME NEW s \in {drbg_Key, Test}, Updated(s) \/ UpdateFails(s), UNCHANGED entropy PROVE Goal
  BY <1>1, <1>3 DEF Updated, UpdateFails
<1>4. ASSUME NEW from, NEW to, NEW failed, Alloc(t, from, to, failed) \/ Seed(t, from, to, failed) PROVE Goal
  BY <1>4 DEF Alloc, Seed, Updated, drbg_free_internal
<1>5. CASE drbg_random(t)
  <2>1. CASE RandomReseed(t)
    BY <1>1, <1>3, <2>1 DEF RandomReseed
  <2>2. CASE RandomCopy(t)
    <3>1. drbg_V' = NextV(drbg_Key)
      BY <2>2 DEF RandomCopy, Goto, BlocksMade
    <3> QED
      BY <1>1, <2>2, <3>1 DEF RandomCopy
  <2>3. CASE RandomUpdate(t)
    BY <1>3, <2>3 DEF RandomUpdate
  <2> QED
    BY <1>2, <1>4, <1>5, <2>1, <2>2, <2>3
       DEF drbg_random, RandomCall, RandomLock, Lock, RandomEnter, RandomInit, entropy_get, RandomHmac, RandomUnlock
<1>6. ASSUME NEW skipSelfTest \in BOOLEAN, uapkic_init(t, skipSelfTest) PROVE Goal
  BY <1>2, <1>6 DEF uapkic_init
<1>7. CASE drbg_self_test(t)
  <2>1. CASE TestSeed(t)
    BY <1>3, <2>1 DEF TestSeed, drbg_free_internal
  <2>2. CASE TestGenerate(t)
    <3>1. drbg_V'.age >= drbg_V.age
      <4>1. PICK n \in 0 .. 10 : drbg_V' = [drbg_V EXCEPT !.age = @ + n]
        BY <2>2 DEF TestGenerate
      <4>2. drbg_V \in Value
        BY DEF TypeOK
      <4> QED
        BY <4>1, <4>2 DEF Value
    <3> QED
      BY <2>2, <3>1 DEF TestGenerate
  <2>3. CASE TestFree(t)
    BY <2>3 DEF TestFree, drbg_free_internal
  <2> QED
    BY <1>2, <1>4, <1>7, <2>1, <2>2, <2>3 DEF drbg_self_test, SelfTestAllowed, Lock, TestUnlock
<1>8. CASE Check(t) \/ InitDrbg(t) \/ InitDone(t)
  BY <1>2, <1>4, <1>8 DEF Check, InitDrbg, InitDone, entropy_get
<1> QED
  BY <1>5, <1>6, <1>7, <1>8 DEF Next

LEMMA MadeNext ==
  ASSUME TypeOK, KeyDrawn, BlocksMade, NEW t \in Threads, Next(t), NEW b \in Value, Made(b)
  PROVE  Made(b)'
<1>1. b.seed \in Nat /\ b.age \in Nat /\ drbg_V.age \in Nat /\ drbg_V'.age \in Nat /\ entropy \in Nat
  BY TypeNext DEF TypeOK, Value
<1> QED
  BY <1>1, GeneratorStep, DrbgAssumption DEF Made, Zero, Test

Filled == {"r_hmac", "r_copy", "r_update", "r_unlock"}

(* What a step does to the buffer of its thread, and to what was given.    *)
LEMMA CallerStep ==
  ASSUME TypeOK, NEW t \in Threads, Next(t)
  PROVE  \/ UNCHANGED <<random, given>> /\ (pc'[t] \in Filled \/ pc[t] \notin Filled)
         \/ UNCHANGED given /\ random' = [random EXCEPT ![t] = <<>>]
         \/ RandomCopy(t)
         \/ given' = given \o random[t] /\ random' = [random EXCEPT ![t] = <<>>]
<1> DEFINE Same == UNCHANGED <<random, given>> /\ (pc'[t] \in Filled \/ pc[t] \notin Filled)
<1> USE DEF Filled, Goto, TypeOK
<1>1. RandomUnlock(t) => UNCHANGED given /\ random' = [random EXCEPT ![t] = <<>>]
  BY DEF RandomUnlock
<1>2. \A n \in 1 .. MaxBlocks + 1 : RandomCall(t, n) => UNCHANGED given /\ random' = [random EXCEPT ![t] = <<>>]
  BY DEF RandomCall
<1>3. RandomLock(t) \/ RandomEnter(t) \/ RandomInit(t) => Same
  BY DEF RandomLock, Lock, RandomEnter, RandomInit, entropy_get, Alloc, Seed, callers
<1>4. RandomReseed(t) \/ RandomHmac(t) => Same
  BY DEF RandomReseed, RandomHmac, callers
<1>5. CASE RandomUpdate(t)
  BY <1>5 DEF RandomUpdate
<1>6. \A skipSelfTest \in BOOLEAN : uapkic_init(t, skipSelfTest) => Same
  BY DEF uapkic_init, callers
<1>7. drbg_self_test(t) => Same
  BY DEF drbg_self_test, SelfTestAllowed, Lock, Alloc, TestSeed, TestGenerate, TestFree, TestUnlock, callers
<1>8. Check(t) \/ InitDrbg(t) \/ InitDone(t) => Same
  BY DEF Check, InitDrbg, InitDone, entropy_get, Alloc, Seed, callers
<1> QED
  BY <1>1, <1>2, <1>3, <1>4, <1>5, <1>6, <1>7, <1>8 DEF Next, drbg_random

LEMMA BufferTypes ==
  ASSUME TypeOK
  PROVE  /\ \A u \in Threads : random[u] \in Seq(Value) /\ \A j \in DOMAIN random[u] : random[u][j] \in Value
         /\ \A k \in DOMAIN given : given[k] \in Value
BY DEF TypeOK

(* What RandomCopy appends. *)
LEMMA CopyStep ==
  ASSUME TypeOK, BlocksMade, NEW t \in Threads, RandomCopy(t)
  PROVE  /\ random'[t] = Append(random[t], NextV(drbg_Key)) /\ drbg_V' = NextV(drbg_Key)
         /\ DOMAIN random'[t] = DOMAIN random[t] \cup {Len(random[t]) + 1}
         /\ random'[t][Len(random[t]) + 1] = NextV(drbg_Key)
         /\ \A j \in DOMAIN random[t] : random'[t][j] = random[t][j] /\ j # Len(random[t]) + 1
<1>1. tmp[t] = NextV(drbg_Key) /\ tmp[t] \in Value
  BY DEF RandomCopy, Goto, BlocksMade, TypeOK
<1>2. random'[t] = Append(random[t], NextV(drbg_Key)) /\ drbg_V' = NextV(drbg_Key)
  BY <1>1 DEF RandomCopy, TypeOK
<1> QED
  BY <1>1, <1>2, BufferTypes, AppendProperties

(* What is appended to what was given. *)
LEMMA GivenStep ==
  ASSUME TypeOK, NEW t \in Threads, given' = given \o random[t]
  PROVE  /\ given' \in Seq(Value) /\ Len(given') = Len(given) + Len(random[t])
         /\ \A k \in DOMAIN given' : k \in DOMAIN given \/ k - Len(given) \in DOMAIN random[t]
         /\ \A k \in DOMAIN given : k \in DOMAIN given' /\ given'[k] = given[k]
         /\ \A k \in DOMAIN given' \ DOMAIN given : given'[k] = random[t][k - Len(given)]
BY BufferTypes, ConcatProperties DEF TypeOK

LEMMA BlocksNext ==
  ASSUME TypeOK, MutexOwner, InitAlone, Overlapping = {}, KeyDrawn, SecretInUse, BlocksMade,
         NEW t \in Threads, Next(t)
  PROVE  BlocksMade'
<1>1. ASSUME NEW k \in DOMAIN given' PROVE Made(given[k])'
  <2>1. CASE UNCHANGED given
    BY <1>1, <2>1, BufferTypes, MadeNext DEF BlocksMade, Made
  <2>2. CASE given' = given \o random[t]
    BY <1>1, <2>2, GivenStep, BufferTypes, MadeNext DEF BlocksMade, Made
  <2> QED
    BY <2>1, <2>2, CallerStep DEF RandomCopy
<1>2. ASSUME NEW u \in Threads, NEW j \in DOMAIN random'[u] PROVE Made(random[u][j])'
  <2>1. CASE random'[u] = random[u]
    BY <1>2, <2>1, BufferTypes, MadeNext DEF BlocksMade, Made
  <2>2. CASE u = t /\ RandomCopy(t)
    <3>1. CASE j \in DOMAIN random[t]
      BY <2>2, <3>1, CopyStep, BufferTypes, MadeNext DEF BlocksMade, Made
    <3>2. CASE random'[t][j] = NextV(drbg_Key)
      <4>1. Secret(drbg_Key) /\ drbg_Key <= entropy /\ UNCHANGED <<entropy, drbg_Key>>
        BY <2>2 DEF RandomCopy, Goto, SecretInUse, KeyDrawn, Secret
      <4>2. NextV(drbg_Key).seed = drbg_Key /\ drbg_V' = NextV(drbg_Key) /\ drbg_V'.age \in Nat
        BY <2>2, CopyStep, TypeNext DEF NextV, TypeOK, Value
      <4> QED
        BY <2>2, <3>2, <4>1, <4>2 DEF Made, Secret
    <3> QED
      BY <1>2, <2>2, <3>1, <3>2, CopyStep
  <2>3. CASE random'[u] = <<>>
    BY <1>2, <2>3
  <2> QED
    BY <2>1, <2>2, <2>3, CallerStep, OthersStay DEF TypeOK
<1>3. ASSUME NEW u \in Threads, pc'[u] = "r_copy" PROVE tmp'[u] = NextV(drbg_Key)'
  <2>1. CASE u # t
    <3>1. PICK n \in 1 .. MaxBlocks + 1 : RandomCall(t, n)
      BY <1>3, <2>1, OthersStay, OthersOnlyCall DEF RandomPoints, Holding
    <3> QED
      BY <1>3, <2>1, <3>1, OthersStay DEF RandomCall, BlocksMade, generator, NextV
  <2>2. CASE u = t /\ RandomHmac(t)
    BY <1>3, <2>2 DEF RandomHmac, Goto, NextV, generator, TypeOK
  <2>3. pc'[t] = "r_copy" => RandomHmac(t)
    <3>1. CASE drbg_random(t)
      BY <3>1 DEF drbg_random, RandomCall, RandomLock, Lock, RandomEnter, RandomInit, entropy_get, Alloc, Seed,
                  RandomReseed, RandomCopy, RandomUpdate, RandomUnlock, Goto, TypeOK
    <3>2. CASE drbg_self_test(t) \/ Check(t) \/ InitDrbg(t) \/ InitDone(t)
      BY <3>2 DEF drbg_self_test, SelfTestAllowed, Lock, Alloc, TestSeed, TestGenerate, TestFree, TestUnlock,
                  Check, InitDrbg, InitDone, entropy_get, Seed, Goto, TypeOK
    <3>3. \A skipSelfTest \in BOOLEAN : uapkic_init(t, skipSelfTest) => pc'[t] # "r_copy"
      BY DEF uapkic_init, Goto, TypeOK
    <3> QED
      BY <3>1, <3>2, <3>3 DEF Next
  <2> QED
    BY <1>3, <2>1, <2>2, <2>3
<1>4. ASSUME NEW u \in Threads, pc'[u] \notin Filled PROVE random'[u] = <<>>
  <2>1. CASE u # t
    BY <1>4, <2>1, OthersStay DEF BlocksMade, Filled
  <2>2. CASE u = t /\ RandomCopy(t)
    BY <1>4, <2>2 DEF RandomCopy, Goto, TypeOK, Filled
  <2> QED
    BY <1>4, <2>1, <2>2, CallerStep DEF BlocksMade, Filled, TypeOK
<1> QED
  BY <1>1, <1>2, <1>3, <1>4 DEF BlocksMade, Filled

LEMMA ApartNext ==
  ASSUME TypeOK, KeyDrawn, BlocksMade, BuffersApart, Source!Distinct(given), NEW t \in Threads, Next(t)
  PROVE  BuffersApart' /\ Source!Distinct(given')
<1>1. CASE UNCHANGED given /\ \A u \in Threads : random'[u] \in {random[u], <<>>}
  BY <1>1 DEF BuffersApart
<1>2. CASE RandomCopy(t)
  <2>1. \A b \in Value : Made(b) => b # NextV(drbg_Key)
    BY DEF Made, NextV, Value, TypeOK
  <2>2. \A u \in Threads : u # t => random'[u] = random[u]
    BY OthersStay
  <2>3. UNCHANGED given
    BY <1>2 DEF RandomCopy
  <2>4. \A k \in DOMAIN given : given[k] # NextV(drbg_Key)
    BY <2>1, BufferTypes DEF BlocksMade
  <2>5. \A u \in Threads : \A j \in DOMAIN random[u] : random[u][j] # NextV(drbg_Key)
    BY <2>1, BufferTypes DEF BlocksMade
  <2> QED
    BY <1>2, <2>2, <2>3, <2>4, <2>5, CopyStep DEF BuffersApart
<1>3. CASE given' = given \o random[t] /\ random' = [random EXCEPT ![t] = <<>>]
  <2>1. \A u \in Threads : random'[u] = IF u = t THEN <<>> ELSE random[u]
    BY <1>3 DEF TypeOK
  <2>2. BuffersApart'
    BY <1>3, <2>1, GivenStep DEF BuffersApart
  <2>3. Source!Distinct(given')
    BY <1>3, GivenStep DEF BuffersApart, Source!Distinct
  <2> QED
    BY <2>2, <2>3
<1> QED
  BY <1>1, <1>2, <1>3, CallerStep DEF TypeOK

-----------------------------------------------------------------------------
IInv == GeneratorKept /\ SecretInUse /\ BuffersApart /\ Source!Distinct(given)

LEMMA IInvInit == Init => IInv
<1> SUFFICES ASSUME Init PROVE IInv
  OBVIOUS
<1>1. /\ \A t \in Threads : pc[t] = "idle" /\ random[t] = <<>>
      /\ drbg_mutex = NoThread /\ drbg_Key = NULL /\ given = <<>> /\ entropy = Test
  BY DEF Init
<1>2. TypeOK
  <2>1. pc \in [Threads -> Points] /\ outlen \in [Threads -> Nat]
    BY DEF Init, Points
  <2>2. NewV \in Value
    BY DEF NewV, Value, Zero
  <2>3. <<>> \in Seq(Value)
    OBVIOUS
  <2> QED
    BY <2>1, <2>2, <2>3 DEF Init, TypeOK, Test
<1>3. MutexOwner
  BY <1>1, DrbgAssumption DEF MutexOwner, Holding, RandomPoints, TestPoints
<1>4. InitAlone
  BY <1>1 DEF InitAlone
<1>5. KeyDrawn
  BY <1>1, DrbgAssumption DEF KeyDrawn, Test
<1>6. BlocksMade
  BY <1>1 DEF BlocksMade
<1>7. SecretInUse /\ BuffersApart /\ Source!Distinct(given)
  BY <1>1 DEF SecretInUse, BuffersApart, Source!Distinct
<1> QED
  BY <1>2, <1>3, <1>4, <1>5, <1>6, <1>7 DEF IInv, GeneratorKept

LEMMA IInvNext == Overlapping = {} /\ IInv /\ [\E t \in Threads : Next(t)]_vars => IInv'
<1> SUFFICES ASSUME Overlapping = {}, IInv, [\E t \in Threads : Next(t)]_vars PROVE IInv'
  OBVIOUS
<1>1. ASSUME NEW t \in Threads, Next(t) PROVE IInv'
  BY <1>1, TypeNext, OwnerNext, AloneNext, KeyNext, UseNext, BlocksNext, ApartNext DEF IInv, GeneratorKept
<1>2. CASE UNCHANGED vars
  BY <1>2 DEF vars, generator, IInv, GeneratorKept, TypeOK, MutexOwner, InitAlone, KeyDrawn, BlocksMade, Made,
              SecretInUse, BuffersApart, Source!Distinct, Secret, NextV
<1> QED
  BY <1>1, <1>2

LEMMA IInvHolds == ASSUME Overlapping = {} PROVE Spec => []IInv
BY IInvInit, IInvNext, PTL DEF Spec

(* The mutex is held exactly by who locked it, INIT runs alone, a key that *)
(* is not secret is there only while the generator is set up or tested,    *)
(* and blocks in buffers are older than V: whatever fails on the way.      *)
THEOREM Kept == ASSUME Overlapping = {} PROVE Spec => []GeneratorKept
<1>1. IInv => GeneratorKept
  BY DEF IInv
<1> QED
  BY <1>1, IInvHolds, PTL

(* Nobody ever generates from a key that the program's text gives away.    *)
THEOREM Secrets == ASSUME Overlapping = {} PROVE Spec => []SecretInUse
<1>1. IInv => SecretInUse
  BY DEF IInv
<1> QED
  BY <1>1, IInvHolds, PTL

(* No two threads ever hold the same block, whatever they interleave.      *)
THEOREM Apart == ASSUME Overlapping = {} PROVE Spec => []BuffersApart
<1>1. IInv => BuffersApart
  BY DEF IInv
<1> QED
  BY <1>1, IInvHolds, PTL

(* A step of the generator gives blocks made from entropy, in order, or is *)
(* one that its callers do not see.                                        *)
LEMMA GiveStep ==
  ASSUME IInv, IInv', NEW t \in Threads, Next(t)
  PROVE  Source!Give \/ UNCHANGED given
<1>1. CASE given' = given \o random[t] /\ random[t] # <<>>
  <2>1. /\ given \in Seq(Value) /\ given' \in Seq(Value) /\ Len(given') = Len(given) + Len(random[t])
        /\ \A k \in DOMAIN given : k \in DOMAIN given' /\ given'[k] = given[k]
    BY <1>1, GivenStep DEF IInv, GeneratorKept, TypeOK
  <2>2. \A k \in DOMAIN given' : given'[k] \in Block
    <3> SUFFICES ASSUME NEW k \in DOMAIN given' PROVE given'[k] \in Block
      OBVIOUS
    <3>1. given'[k] \in Value
      BY <2>1
    <3>2. Test < given'[k].seed
      BY DEF IInv, GeneratorKept, BlocksMade, Made
    <3> QED
      BY <3>1, <3>2, DrbgAssumption DEF Block, Secret, Value, Test
  <2>3. given' \in Seq(Block)
    BY <2>1, <2>2
  <2>4. Len(random[t]) \in Nat \ {0}
    BY <1>1, EmptySeq, BufferTypes DEF IInv, GeneratorKept
  <2>5. given = SubSeq(given', 1, Len(given))
    <3>1. Len(given) \in Nat /\ Len(given) <= Len(given')
      BY <2>1, <2>4
    <3>2. \A i \in 1 .. Len(given) : given'[i] = given[i]
      BY <2>1
    <3> QED
      BY <2>1, <3>1, <3>2, SubSeqProperties, SeqEqual
  <2>6. Len(given) < Len(given')
    BY <2>1, <2>4
  <2> QED
    BY <2>3, <2>5, <2>6 DEF Source!Give, IInv
<1>2. CASE given' = given \o random[t] /\ random[t] = <<>>
  BY <1>2, ConcatEmptySeq DEF IInv, GeneratorKept, TypeOK
<1> QED
  BY <1>1, <1>2, CallerStep DEF RandomCopy, IInv, GeneratorKept

(* The calls that succeed implement the abstract generator.                *)
THEOREM Implements == ASSUME Overlapping = {} PROVE Spec => ImplementsSource
<1>1. Init => Source!Init
  BY DEF Init, Source!Init
<1>2. IInv /\ IInv' /\ [\E t \in Threads : Next(t)]_vars => [Source!Give]_given
  BY GiveStep DEF vars
<1> QED
  BY <1>1, <1>2, IInvHolds, PTL DEF Spec, ImplementsSource, Source!Spec

=============================================================================
