-------------------------------- MODULE Drbg ---------------------------------
(***************************************************************************)
(* The random generator of uapkic (library/uapkic/src/drbg.c), which all   *)
(* threads share, with uapkic_init (uapkic.c), which INIT calls: HMAC-DRBG *)
(* with SHA-512.  Nonces of signatures, keys, salts and RANDOM_BYTES are   *)
(* its output; two signatures with the same nonce give the key away.       *)
(*                                                                         *)
(* drbg_random runs under a mutex and sets the generator up if nobody did. *)
(* The self-test looks at the generator before it takes the mutex, and     *)
(* uapkic_init sets it up without the mutex.                               *)
(*                                                                         *)
(* HMAC is taken to be perfect: of the values drbg_Key and drbg_V only     *)
(* their origin counts.  A seed is the last input that was mixed in: Zero, *)
(* the constants the generator starts from, Test, the entropy of the       *)
(* self-test, or a number above Test for every draw of real entropy.  V is *)
(* the seed of the key that made it and its age, the number of times it    *)
(* was replaced since the generator was set up.                            *)
(***************************************************************************)
EXTENDS Naturals, Sequences

CONSTANTS
  Threads,
  NoThread,
  Overlapping,     (* Threads whose method the gate of the API let in while *)
                   (* INIT runs (module ApiDispatch).                       *)
  NULL,
  ReseedInterval,  (* Generations before drbg_random updates the key, 10^6. *)
  MaxBlocks,       (* Most blocks of 64 bytes that a call may ask for, 2^13.*)
  MaxEntropy,      (* Bound: draws of entropy.                              *)
  MaxAge           (* Bound: age up to which callers ask for more.          *)

ASSUME DrbgAssumption ==
  /\ NoThread \notin Threads
  /\ Overlapping \subseteq Threads
  /\ NULL \notin Nat
  /\ MaxBlocks \in Nat /\ ReseedInterval \in Nat

VARIABLES
  pc,
  drbg_mutex,           (* Holder, or NoThread.                             *)
  drbg_Key,             (* Its seed; NULL: not set up (with drbg_hmac_ctx). *)
  drbg_V,               (* seed and age.                                    *)
  drbg_reseed_counter,
  initialized,          (* Of uapkic_init.                                  *)
  entropy,              (* The last seed drawn.                             *)
  random,               (* What each caller's buffer has so far: blocks,    *)
  outlen,               (* how many it wants,                               *)
  tmp,                  (* and the one that comes next.                     *)
  given                 (* The blocks of calls that succeeded, in order.    *)

generator == <<drbg_Key, drbg_V, drbg_reseed_counter, entropy>>
vars == <<pc, drbg_mutex, generator, initialized, random, outlen, tmp, given>>

Zero == 0
Test == 1
NewV == [seed |-> Zero, age |-> 0]
Value == [seed : Nat, age : Nat]
Secret(seed) == seed # NULL /\ seed > Test

(* Points in drbg_random; r_entropy to r_seed are in the drbg_init it calls. *)
RandomPoints == {"r_lock", "r_enter", "r_entropy", "r_alloc", "r_seed", "r_reseed", "r_hmac", "r_copy", "r_update", "r_unlock"}
(* Points in uapkic_init: the self-test, and its own drbg_init. *)
TestPoints == {"i_lock", "i_alloc", "i_seed", "i_reseed", "i_generate", "i_free", "i_unlock"}
InitPoints == {"i_test", "i_check", "i_entropy", "e_alloc", "e_seed", "i_done"} \cup TestPoints
Points == {"idle"} \cup RandomPoints \cup InitPoints

Init ==
  /\ pc = [t \in Threads |-> "idle"]
  /\ drbg_mutex = NoThread
  /\ drbg_Key = NULL /\ drbg_V = NewV /\ drbg_reseed_counter = 0
  /\ initialized = FALSE /\ entropy = Test
  /\ random = [t \in Threads |-> <<>>] /\ outlen = [t \in Threads |-> 0]
  /\ tmp = [t \in Threads |-> NewV]
  /\ given = <<>>

Goto(t, from, to) == pc[t] = from /\ pc' = [pc EXCEPT ![t] = to]
callers == <<random, outlen, tmp, given>>

-----------------------------------------------------------------------------
(* Steps that the functions share *)

Lock(t, from, to) ==
  /\ drbg_mutex = NoThread
  /\ Goto(t, from, to)
  /\ drbg_mutex' = t
  /\ UNCHANGED <<generator, initialized, callers>>

(* entropy_get: 512 bytes, or it fails. *)
entropy_get(t, from, to, failed) ==
  /\ \/ entropy < MaxEntropy /\ Goto(t, from, to)
     \/ Goto(t, from, failed)
  /\ UNCHANGED <<drbg_mutex, generator, initialized, callers>>

drbg_free_internal == drbg_Key' = NULL /\ drbg_V' = NewV /\ drbg_reseed_counter' = 0

(* The first half of drbg_init_internal: the state is allocated and set to *)
(* constants.  It frees it all if that fails.                              *)
Alloc(t, from, to, failed) ==
  /\ \/ /\ Goto(t, from, to)
        /\ drbg_Key' = Zero /\ drbg_V' = NewV /\ UNCHANGED drbg_reseed_counter
     \/ Goto(t, from, failed) /\ drbg_free_internal
  /\ UNCHANGED <<drbg_mutex, entropy, initialized, callers>>

(* drbg_update: the key and V after it, with an input if there is one.  An *)
(* HMAC that fails leaves a part of it undone.                             *)
NextV(seed) == [seed |-> seed, age |-> drbg_V.age + 1]
Updated(seed) == seed # NULL /\ drbg_Key' = seed /\ drbg_V' = NextV(seed)
UpdateFails(seed) ==
  /\ drbg_Key' \in {drbg_Key, seed}
  /\ drbg_V' \in {drbg_V} \cup {NextV(key) : key \in {drbg_Key'} \ {NULL}}

(* The second half: drbg_update with the entropy drawn. *)
Seed(t, from, to, failed) ==
  /\ entropy' = entropy + 1
  /\ \/ Goto(t, from, to) /\ Updated(entropy + 1) /\ drbg_reseed_counter' = 1
     \/ Goto(t, from, failed) /\ drbg_free_internal
  /\ UNCHANGED <<drbg_mutex, initialized, callers>>

-----------------------------------------------------------------------------
(* drbg_random *)

(* A method of the API or a signature asks for random bytes.  The gate     *)
(* holds methods back while INIT runs, but for those that overlap.         *)
Held(t) == t \notin Overlapping /\ \E u \in Threads : pc[u] \in InitPoints

RandomCall(t, n) ==
  /\ ~Held(t) /\ drbg_V.age <= MaxAge
  /\ Goto(t, "idle", "r_lock")
  /\ outlen' = [outlen EXCEPT ![t] = n] /\ random' = [random EXCEPT ![t] = <<>>]
  /\ UNCHANGED <<drbg_mutex, generator, initialized, tmp, given>>

(* Mutant: no mutex. *)
RandomLock_None(t) ==
  /\ Goto(t, "r_lock", "r_enter")
  /\ UNCHANGED <<drbg_mutex, generator, initialized, callers>>

RandomLock(t) == Lock(t, "r_lock", "r_enter")

(* More than 2^19 bytes at once are refused. *)
TooLong(t) == pc[t] = "r_enter" /\ outlen[t] > MaxBlocks

RandomEnter(t) ==
  /\ Goto(t, "r_enter", IF TooLong(t) THEN "r_unlock" ELSE IF drbg_Key = NULL THEN "r_entropy" ELSE "r_reseed")
  /\ UNCHANGED <<drbg_mutex, generator, initialized, callers>>

(* drbg_init, if nobody did. *)
RandomInit(t) ==
  \/ entropy_get(t, "r_entropy", "r_alloc", "r_unlock")
  \/ Alloc(t, "r_alloc", "r_seed", "r_unlock")
  \/ Seed(t, "r_seed", "r_reseed", "r_unlock")

(* drbg_reseed_internal(NULL), when the counter is above the interval. *)
RandomReseed(t) ==
  /\ \/ /\ drbg_reseed_counter <= ReseedInterval
        /\ Goto(t, "r_reseed", "r_hmac")
        /\ drbg_reseed_counter' = drbg_reseed_counter + 1
        /\ UNCHANGED <<drbg_Key, drbg_V>>
     \/ /\ drbg_reseed_counter > ReseedInterval
        /\ \/ Goto(t, "r_reseed", "r_hmac") /\ Updated(drbg_Key) /\ drbg_reseed_counter' = 2
           \/ Goto(t, "r_reseed", "r_unlock") /\ UpdateFails(drbg_Key) /\ UNCHANGED drbg_reseed_counter
  /\ UNCHANGED <<drbg_mutex, entropy, initialized, callers>>

(* The loop: HMAC of V... *)
RandomHmac(t) ==
  /\ pc[t] = "r_hmac"
  /\ IF Len(random[t]) < outlen[t]
     THEN \/ /\ drbg_Key # NULL /\ Goto(t, "r_hmac", "r_copy")
             /\ tmp' = [tmp EXCEPT ![t] = NextV(drbg_Key)]
          \/ Goto(t, "r_hmac", "r_unlock") /\ UNCHANGED tmp
     ELSE Goto(t, "r_hmac", "r_update") /\ UNCHANGED tmp
  /\ UNCHANGED <<drbg_mutex, generator, initialized, random, outlen, given>>

(* Mutant: the buffer gets it, V does not. *)
RandomCopy_KeepsV(t) ==
  /\ Goto(t, "r_copy", "r_hmac")
  /\ random' = [random EXCEPT ![t] = Append(@, tmp[t])] /\ tmp' = [tmp EXCEPT ![t] = NewV]
  /\ UNCHANGED <<drbg_mutex, generator, initialized, outlen, given>>

(* ... which takes its place and is copied to the caller's buffer. *)
RandomCopy(t) ==
  /\ Goto(t, "r_copy", "r_hmac")
  /\ drbg_V' = tmp[t]
  /\ random' = [random EXCEPT ![t] = Append(@, drbg_V')] /\ tmp' = [tmp EXCEPT ![t] = NewV]
  /\ UNCHANGED <<drbg_mutex, drbg_Key, drbg_reseed_counter, entropy, initialized, outlen, given>>

(* drbg_update(NULL): the caller gets its bytes if that succeeds too. *)
RandomUpdate(t) ==
  /\ Goto(t, "r_update", "r_unlock")
  /\ \/ /\ Updated(drbg_Key)
        /\ given' = given \o random[t] /\ random' = [random EXCEPT ![t] = <<>>]
     \/ UpdateFails(drbg_Key) /\ UNCHANGED <<random, given>>
  /\ UNCHANGED <<drbg_mutex, drbg_reseed_counter, entropy, initialized, outlen, tmp>>

RandomUnlock(t) ==
  /\ Goto(t, "r_unlock", "idle")
  /\ drbg_mutex' = NoThread
  /\ random' = [random EXCEPT ![t] = <<>>]
  /\ UNCHANGED <<generator, initialized, outlen, tmp, given>>

drbg_random(t) ==
  \/ \E n \in 1 .. MaxBlocks + 1 : RandomCall(t, n)
  \/ RandomLock(t) \/ RandomEnter(t) \/ RandomInit(t) \/ RandomReseed(t)
  \/ RandomHmac(t) \/ RandomCopy(t) \/ RandomUpdate(t) \/ RandomUnlock(t)

-----------------------------------------------------------------------------
(* uapkic_init *)

(* INIT runs alone among the ST methods, after MT methods have ended. *)
uapkic_init(t, skipSelfTest) ==
  /\ \A u \in Threads \ Overlapping : pc[u] = "idle"
  /\ \A u \in Threads : pc[u] \notin InitPoints
  /\ Goto(t, "idle", IF skipSelfTest THEN "i_check" ELSE "i_test")
  /\ UNCHANGED <<drbg_mutex, generator, initialized, callers>>

(* A generator that is set up is not tested, and INIT fails for it. *)
SelfTestAllowed(t) ==
  /\ Goto(t, "i_test", IF drbg_Key # NULL THEN "i_check" ELSE "i_lock")
  /\ UNCHANGED <<drbg_mutex, generator, initialized, callers>>

(* drbg_update with the entropy of the test, twice: to set up and to reseed. *)
TestSeed(t) ==
  /\ \/ Goto(t, "i_seed", "i_reseed") /\ Updated(Test) /\ drbg_reseed_counter' = 1
     \/ Goto(t, "i_seed", "i_free") /\ drbg_free_internal
     \/ Goto(t, "i_reseed", "i_generate") /\ Updated(Test) /\ drbg_reseed_counter' = 1
     \/ Goto(t, "i_reseed", "i_free") /\ UpdateFails(Test) /\ UNCHANGED drbg_reseed_counter
  /\ UNCHANGED <<drbg_mutex, entropy, initialized, callers>>

(* Two requests of the test, for its own buffer. *)
TestGenerate(t) ==
  /\ Goto(t, "i_generate", "i_free")
  /\ drbg_V' \in {[drbg_V EXCEPT !.age = @ + n] : n \in 0 .. 10}
  /\ UNCHANGED <<drbg_mutex, drbg_Key, drbg_reseed_counter, entropy, initialized, callers>>

(* Mutant: what the test leaves stays for drbg_init to replace. *)
TestFree_Keeps(t) ==
  /\ Goto(t, "i_free", "i_unlock")
  /\ UNCHANGED <<drbg_mutex, generator, initialized, callers>>

TestFree(t) ==
  /\ Goto(t, "i_free", "i_unlock")
  /\ drbg_free_internal
  /\ UNCHANGED <<drbg_mutex, entropy, initialized, callers>>

TestUnlock(t) ==
  /\ Goto(t, "i_unlock", "i_check")
  /\ drbg_mutex' = NoThread
  /\ UNCHANGED <<generator, initialized, callers>>

drbg_self_test(t) ==
  \/ SelfTestAllowed(t)
  \/ Lock(t, "i_lock", "i_alloc")
  \/ Alloc(t, "i_alloc", "i_seed", "i_free")
  \/ TestSeed(t) \/ TestGenerate(t) \/ TestFree(t) \/ TestUnlock(t)

Check(t) ==
  /\ Goto(t, "i_check", IF initialized THEN "idle" ELSE "i_entropy")
  /\ UNCHANGED <<drbg_mutex, generator, initialized, callers>>

(* drbg_init, here without the mutex and whether or not it is set up. *)
InitDrbg(t) ==
  \/ entropy_get(t, "i_entropy", "e_alloc", "idle")
  \/ Alloc(t, "e_alloc", "e_seed", "idle")
  \/ Seed(t, "e_seed", "i_done", "idle")

InitDone(t) ==
  /\ Goto(t, "i_done", "idle")
  /\ initialized' = TRUE
  /\ UNCHANGED <<drbg_mutex, generator, callers>>

-----------------------------------------------------------------------------
Next(t) ==
  \/ drbg_random(t)
  \/ \E skipSelfTest \in BOOLEAN : uapkic_init(t, skipSelfTest)
  \/ drbg_self_test(t) \/ Check(t) \/ InitDrbg(t) \/ InitDone(t)

Spec == Init /\ [][\E t \in Threads : Next(t)]_vars

-----------------------------------------------------------------------------
Block == {b \in Value : Secret(b.seed)}

TypeOK ==
  /\ pc \in [Threads -> Points]
  /\ drbg_mutex \in Threads \cup {NoThread}
  /\ drbg_Key \in Nat \cup {NULL} /\ drbg_V \in Value
  /\ drbg_reseed_counter \in Nat /\ initialized \in BOOLEAN
  /\ entropy \in Nat
  /\ random \in [Threads -> Seq(Value)] /\ outlen \in [Threads -> Nat]
  /\ tmp \in [Threads -> Value]
  /\ given \in Seq(Value)

(* The mutex is held by the thread between locking and unlocking it. *)
Holding == (RandomPoints \ {"r_lock"}) \cup (TestPoints \ {"i_lock"})
MutexOwner == \A t \in Threads : pc[t] \in Holding <=> drbg_mutex = t

(* INIT runs alone, but for methods that overlap. *)
InitAlone == \A t, u \in Threads : pc[t] \in InitPoints /\ u # t /\ u \notin Overlapping => pc[u] = "idle"

(* Only while it is set up or tested does it know what the program's text  *)
(* says; no draw of entropy is used twice.                                 *)
Building == {"r_seed", "i_seed", "i_reseed", "i_generate", "i_free", "e_seed"}
KeyDrawn ==
  /\ entropy >= Test /\ (drbg_Key # NULL => drbg_Key <= entropy)
  /\ drbg_Key = NULL \/ Secret(drbg_Key) \/ \E t \in Threads : pc[t] \in Building

(* Blocks were made by keys drawn so far, before the V of their key. *)
Made(b) == Test < b.seed /\ b.seed <= entropy /\ (b.seed = drbg_Key => b.age <= drbg_V.age)
BlocksMade ==
  /\ \A k \in DOMAIN given : Made(given[k])
  /\ \A t \in Threads : /\ \A j \in DOMAIN random[t] : Made(random[t][j])
                        /\ pc[t] = "r_copy" => tmp[t] = NextV(drbg_Key)
                        /\ pc[t] \notin {"r_hmac", "r_copy", "r_update", "r_unlock"} => random[t] = <<>>

(* The types, and everything that keeps the generator's promise: together  *)
(* an inductive invariant.  A step that forgets the mutex, leaves the key  *)
(* of a test or takes up an old V breaks one of its parts.                 *)
GeneratorKept == TypeOK /\ MutexOwner /\ InitAlone /\ KeyDrawn /\ BlocksMade

(* Nobody generates from a generator that is not set up, or that knows no  *)
(* more than the program's text: not after a self-test, nor after setting  *)
(* it up failed at any step, nor while another thread sets it up.          *)
SecretInUse ==
  \A t \in Threads : pc[t] \in {"r_reseed", "r_hmac", "r_copy", "r_update"} => Secret(drbg_Key)

(* No two callers hold the same block, and none one that was given out:    *)
(* two signatures made at once never have a nonce in common.               *)
BuffersApart ==
  \A t, u \in Threads : \A j \in DOMAIN random[t] :
    /\ \A k \in DOMAIN random[u] : <<t, j>> # <<u, k>> => random[t][j] # random[u][k]
    /\ \A k \in DOMAIN given : random[t][j] # given[k]

Source == INSTANCE RandomSource

(* The calls that succeed implement the abstract generator. *)
ImplementsSource == Source!Spec
=============================================================================
