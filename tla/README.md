# A TLA+ development of UAPKI

UAPKI is a library for cryptography and PKI with Ukrainian and international
algorithms. An application calls one function, `process()`, with a JSON
request (`{"method": "VERIFY", "parameters": ...}`) and gets a JSON answer,
possibly from many threads. This directory has TLA+ models of the parts that
keep state between calls, the TLC configurations that check them, and proofs
that TLAPS checks. Paths below are relative to `library/` in the repository.

## 1. The system

| Component | State | Operations | Works with |
|---|---|---|---|
| **Dispatcher** `uapki/src/api/api-json.cpp` | mutex, flag and counter, the last two atomic | `process()`: single-threaded (ST), multi-threaded (MT) and static methods | calls every method |
| **Certificate cache** `uapki/src/cer-store.cpp`, `cer-item.cpp` | items in memory, their flags (trusted, marked to remove, unique key), the directory `certCache.path` | INIT, ADD_CERT, REMOVE_CERT, DEINIT; lookups by identifier, key, subject; chain building | every method that meets certificates adds them |
| **CRL cache** `uapki/src/crl-store.cpp` | items with their "actuality", the directory `crlCache.path` | INIT, ADD_CRL, REMOVE_CRL, lookup of the last available CRL | filled by validation |
| **Revocation search** `uapki/src/crl-item.cpp` | a table of offsets per CRL | search of a serial number, choice of an entry | used by validation |
| **Certificate validation** `uapki/src/cert-validator.cpp`, `ocsp-helper.cpp` | mutexes of certificates, CRLs, stores and downloads; OCSP answers kept in `CerItem` | validation by CRL or OCSP of a certificate or a chain, CERT_STATUS_BY_OCSP | both caches, HTTP; called by SIGN, VERIFY, VERIFY_CERT |
| **Verification** `uapki/src/doc-verify.cpp`, `api/verify.cpp` | none between calls but `m_VerifyStatus` of certificates and `m_StatusSign` of CRLs, which all calls share | VERIFY, VERIFY_CERT | validation, the certificate cache |
| **Random generator** `uapkic/src/drbg.c`, `entropy.c`, `uapkic.c` | key, V, counter, HMAC context and a mutex, global | `drbg_random`, the self-test, `uapkic_init` | keys, signatures, salts, RANDOM_BYTES; INIT |
| **Key session** `uapki/src/cm-providers.cpp`, `cm-storage-proxy.cpp` | loaded providers, the active storage, the selected key with its certificate | OPEN, CLOSE, SELECT_KEY, CREATE_KEY, DELETE_KEY, CHANGE_PASSWORD, KEYS | a provider; the certificate cache; SIGN |
| **PKCS12 provider** `cm-pkcs12/src` | a container in memory, the selected bag; the file | the session's functions, `FileStorage::store` | called by the proxy |
| PKCS11 provider `cm-pkcs11/src` | sessions and objects of a token | the same interface | called by the proxy |
| Signing `doc-sign.cpp`, `sign.cpp` | none between calls | SIGN, 2-pass methods | session, both caches, TSP, OCSP |
| HTTP `common/pkix/http-helper.cpp` | a mutex per address | requests, offline mode | validation, TSP |
| Cryptography, the rest of `uapkic/` | a cache of curves that nothing fills | primitives | everything |

The rest keeps no state: ASN.1 structures (`uapkif`, generated), PKIX and JSON
encoding, conversions. `hostapp`, `uapki-1c` and `integration/` pass calls to
`process()`. `PROJECT.json` lists every component with its sources.

What is hard here, and what correctness means:

* **Dispatcher.** A gate made of three variables that are read and written at
  different moments. An ST method must have the library to itself; MT methods
  must not starve it, nor may it be stuck.
* **Certificate cache.** Identity is key, authority key and start of validity;
  a flag ends searches early; a permanent certificate has to survive
  crashes, failing file operations and any order of sessions; cleaning must
  not touch what is trusted or saved.
* **Chain.** A walk without a bound, with a variable kept from turn to turn.
* **Validation.** Four kinds of mutexes taken by several calls, two of them in
  both orders; a CRL looked up, waited for, then used; CRLs replaced meanwhile.
* **CRL cache.** A full and a delta CRL come from files, requests and
  downloads independently and must belong together; what is marked obsolete is
  marked for every later call.
* **Revocation.** A binary search over unsigned indices; of several entries
  the one at the right time.
* **Status of a chain.** OCSP answers are kept and serve later calls; responders
  enter the store, answer, and only then is it looked into where they come from.
* **Verification.** One status is put together from a dozen others, found in an
  order that depends on the format; what earlier or concurrent calls found of
  a certificate takes part.
* **Random generator.** Global state under a mutex that two of the four paths to it
  do not take; any step of setting it up can fail.
* **Session.** Three layers each know which key is selected; memory is changed
  before the file; storing can fail or be cut off.

## 2. Modules

| Module | Models |
|---|---|
| `ApiGate` | abstract: a gate that is closed, admits nobody, and lets one ST method start when nobody is inside |
| `ApiDispatch` | `process()` and the three ways of calling a method, each atomic access a step; implements `ApiGate` |
| `CertKeys` | `CerStore::addItem`, `getCertByKeyId`: how certificates are told apart and found |
| `CertKeysProofs` | lemmas about its operators and about loops, for the three below that extend it |
| `CertCache` | the certificate cache with its directory; extends `CertKeys` |
| `CertCacheProofs` | its theorems |
| `CertChain` | `getChainCerts` over a store; extends `CertKeys` |
| `CrlDownload` | concurrent `validateByCrl` and `addCerts` with every mutex |
| `CrlCache` | `CrlStore` with its directory and the choice of a full and a delta CRL |
| `CrlStoreProofs` | its theorems |
| `CrlRevocation` | what `validateByCrl` finds out in the CRLs it has |
| `CrlValidationProofs` | theorems of `CrlRevocation` and of `CrlDownload` |
| `CertStatus` | `CertValidator::getStatus` and the OCSP answers it shares with CERT_STATUS_BY_OCSP; extends `CertChain` |
| `CertStatusProofs` | its theorems and that of the walk |
| `VerifyStatus` | VERIFY of a CMS or CAdES signature, with the certificate statuses it shares with VERIFY_CERT and SIGN; extends `CertKeys` |
| `VerifyStatusProofs` | its theorems |
| `RandomSource` | abstract: blocks made from entropy, none given out twice |
| `Drbg` | the random generator and `uapkic_init`; implements `RandomSource` |
| `DrbgProofs` | its theorems |
| `KeySession` | the active storage, the selected key, the PKCS12 containers |
| `SessionProofs` | theorems of `KeySession` and of `ApiDispatch` |
| `MC...` | TLC's values of the constants |

`CrlDownload`, `CrlCache` and `CrlRevocation` are three views of one function,
`CertValidator::validateByCrl`: who waits for whom, which CRLs it takes, and
what it reads in them. Each takes from the others only what it needs:
in `CrlDownload` a CRL is a number, in `CrlCache` a record of what tells CRLs
apart, in `CrlRevocation` a table of entries.

`CertStatus` takes the walk of `CertChain` as it is, step by step, and goes on where it
ends. What `validateByCrl` answers is chosen freely there and in `VerifyStatus`,
within what the three modules above allow; in `VerifyStatus` the same goes for
what `validateByOcsp` answers.

**State and code.** Variables have the names of the code's where there is one
(`api_serialmethod_is_running`, `cer_issuer`, `validateTime`); `m_Items` is
`items`, the directory is `disk` (`files` in `KeySession`). Variables that
only record what has happened are marked "History". An action is named after
the function or the API method it stands for and the map in `PROJECT.json`
gives the lines of each definition. The operators called "Mutant" before a
definition are what it would be with a plausible mistake in it; no
specification uses them. They show that each property can fail.

**Atomicity.** ST methods never overlap (`SerialAlone`), so `KeySession`
takes a method as one step, except that the process may end in the middle of
writing a file. In `CertCache` the store's mutex makes an operation atomic
for other threads but not for a crash: each change of the directory is a step.
`CrlCache` takes an operation as one step. `ApiDispatch`, `CrlDownload` and `Drbg`
have one step for each access to shared state or mutex. `CertStatus` has
one for each turn of a loop and one for each request to a server, since other
calls run while it waits; `VerifyStatus` one for each function `verify_p7s`
calls, and two for the two readings of a certificate's status.

**Names.** Two modules of proofs are about two models each, one beside the other: SIGN's storage
and the gate that lets one method at a time change it (`SessionProofs`), and what
`validateByCrl` reads in a CRL and which CRL it has (`CrlValidationProofs`). Where both have
a definition of the same name, one has a prefix: `SessionSpec` and `SessionTypeOK` in `KeySession`,
`DownloadSpec` and `DownloadTypeOK` in `CrlDownload`.

## 3. What the runs show

| Run | Question and answer | Properties | Bounds |
|---|---|---|---|
| `dispatch` | Is the dispatcher a gate? ST methods exclude each other, the counter is exact, a raised flag lets nobody past; ST calls go on being served | `SerialAlone`, `CounterExact`, `GateHolds`, `SerialProgress`, `ImplementsGate` | 4 threads: two compete for the mutex while two pass the gate |
| `dispatch_exclusion` | Does an ST method run alone, as the manual says? No, see 6 | `Exclusion` | 2 threads |
| `cache` | Is the certificate cache consistent, and does it keep what it saved? Yes | `StoreConsistent`, `KeyIdFindsNewest`, `SavedIsKept`, `SavedIsLoaded`, `TemporaryOnly`, `LoadNormalises` | 5 certificates: one, its renewal, a twin, one of another authority, one without file name; requests start with fewer than 3 items |
| `chain` | Is every certificate followed by its issuer, does the walk end? Yes, where whoever issued others has its key to itself | `ChainSound`, `ChainEnds` | 6 certificates, every subset in every order |
| `download` | What concurrent validations agree on: no older CRL than before, one last CRL; the first download cannot deadlock | `CrlsConsistent`, `NeverOlder`, `FirstDownloadReturns` | 3 calls, 2 certificates, 2 instants |
| `download_expired` | Can two validations deadlock? Yes, see 6 | `NoDeadlock` | 2 calls |
| `crl_cache` | Does a full CRL go with its delta CRL, is what is saved kept? Yes, but a full CRL whose number a delta CRL has, too, may be dropped, see 6 | `CacheConsistent`, `UsedFits`, `SavedOrFresher` | 5 CRLs: two of a series, a delta CRL, one of another series, a delta CRL with its number |
| `revocation` | Does the search find exactly the certificate's entries, and is the certificate good exactly if none is dated before the time? Yes | `SearchSafe`, `ResultRight`, `FoundExact`, `Terminates` | every table of up to 4 places, 4-bit indices, 2 entries |
| `session` | Do answers and files agree, is one storage open, does SIGN take the right key? Yes, with the exceptions in 6 | `OneStorage`, `Durable`, `ListedIsSaved`, `SignerMatches`, `NoDanglingKey`, `WrittenReadable` | 2 files, 3 keys, 2 passwords |
| `status` | Can an old or unverified OCSP answer decide? Does a caller get what a signature must embed, and hear what lacks? No; yes | `NeverStale`, `AnswersVerified`, `ObtainedLinked`, `MissingIsExpected` | a chain of 3; 5 kinds of responders; instants 0 to 2, answers kept for 1 |
| `verify` | Is TOTAL-VALID justified, whatever earlier and concurrent calls left? Yes, with the exceptions in 6 | `TotalValidJustified`, `SourcesTried`, `MissingListed`, `ChainVerified` | 2 calls; 25 signatures, 28 requests; 7 certificates |
| `drbg` | Can the generator give out what is known, or the same twice? No, while nothing runs beside INIT | `SecretInUse`, `BuffersApart`, `ImplementsSource` | 2 threads, requests of up to 3 blocks (2 are allowed), 2 draws of entropy |

Why these bounds are enough to be interesting: in `cache` a duplicate, a
newer and an unrelated certificate may meet in the store and in the
directory at once; in `download` the third call makes the other two's views stale;
in `revocation` a table of four places has every shape of a half;
in `session` the second file shows that storages are not mixed up, the third key that a
part of the bags is encoded when CHANGE_PASSWORD fails; in `status`
an answer can be kept, expire and be asked for again within three instants, and two
calls can follow each other; in `verify` the second call meets what the first one left;
in `drbg` one thread is between two blocks while the other one asks, fails, or
initialises. Bounds on behaviours:
`MaxItems` (a request to add certificates starts only below it), `MaxTime`
(the last instant, in `CrlDownload` and `CertStatus`) and one call per caller in
`CrlDownload`, `MaxEntries` (entries of one certificate in two CRLs), `MaxCalls`
(calls of VERIFY), `MaxEntropy` (draws of entropy, which only fail beyond it) and
`MaxAge` (above it no caller asks for more random bytes). Everything else is finite by itself.
`session` uses symmetry of files, keys and passwords, which the
module never tells apart.

**Deadlock** is checked in every passing run but four: a walk in
`CertChain` ends; in `CrlDownload` calls end and the deadlock of section 6 exists;
in `CertStatus` and `VerifyStatus` time and the calls of VERIFY are bounded.
`FirstDownloadReturns` states what the lack of deadlock amounts to there.

**Fairness.** `ApiDispatch`: weak fairness of each thread's step once it has called
`process()`; nobody has to call it. It says that a thread is
scheduled and a method returns. Nothing is assumed of the order in which the
mutex is given, so `SerialProgress` says that *some* waiting call goes on.
`CrlDownload`: weak fairness of a call that was made; that downloads end is
taken for granted (no time limit is set for libcurl, see 6). `CertChain`, `CrlRevocation`:
one thread's computation goes on. `CertCache`, `CrlCache` and
`KeySession` need none, and neither do `CertStatus`, `VerifyStatus` and `Drbg`, of which only safety is
stated.

### The models, one by one

**Dispatcher.** `call_serial_method` is six steps (lock, raise the flag,
wait for the counter to be zero, run, lower the flag, unlock),
`call_thread_method` three (sample the flag, increment, run and decrement).
`GateHolds` is about two threads: while the flag stays up nobody passes the
sampling of it. `SerialProgress`: whoever waits, at the mutex or for the
counter, some ST call gets further. `ImplementsGate` maps the three variables to `ApiGate`:
the gate is closed by the holder of the mutex while the flag is up; threads
that have sampled it but are not counted are "admitted". The abstract gate
makes the weakness visible: `Start` asks for nobody *inside*, not for nobody admitted.

**Certificate cache.** `op` is the position in ADD_CERT or INIT: "add"
(the loop over the certificates), "save" (for each new one opening, then
writing its file), "load" (the files in any order), "rename". A file
that is cut off has no certificate in it and is left out.
`failed` remembers that a file operation failed: without one names in
memory are exact and loading leaves a file per certificate; what was saved is
kept in any case. REMOVE_CERT is one step since removing the item is not
visible to another process.

**Chain.** A turn of the loop is a step.
`ChainSound` is about the next turn too: the issuer that would be taken has the
key the certificate names. `StoresAssumption` is what it takes: a certificate that
issued another one of the store is the only one with its key there. The code does not
see to it (section 6).

**CRL download.** The clock moves; the server gives the current
CRL or the one before. `seen` remembers the newest CRL used by calls that had ended
when this one began. A validation of an earlier time may use an
older CRL than the last one, not an older one than the cache has.

**CRL cache.** `Validations` has the outcomes the function may have, one for
each thing a server may deliver; `UsedFits` is about all of them, so that it
speaks of any call that could come next. Servers are taken to deliver, under the
addresses in a certificate, CRLs of its authority, of the type and series asked for.
`items` is a set, since `addItem` lets no two items have authority and
number in common and nothing depends on their order; the order of `readdir`, which
matters, is chosen freely. `Kept` and `Freshest` are what the maps
of `removeObsolete` hold while it goes through the items and at the end. `saved` forgets a CRL when REMOVE_CRL deletes
the file that stands for it.

**Revocation.** Where bytes equal to the serial number occur is chosen
freely; the CRL's entries are data. Numbers of `Width` bits wrap as `size_t` does.
`ResultRight` has two parts: `GoodOrRevoked`, which holds for any number of entries,
and `NearestReported`, the date of a revoked certificate, which holds up to two entries: with
three `findNearBefore` may report a date that is not the nearest (section 6).

**Status of a chain.** `pc` follows `getStatus`: the walk, signatures and
validity, a loop over the chain that asks OCSP or takes the CRL's answer, the
restrictions, a loop over those who answered. An answer is a record of what the
responder knew at `thisUpdate` and of what may be wrong with it; it arrives after other
calls have had their steps. `cache` is `m_CertStatusByOcsp`, with the end of
its validity. `NeverStale` relates the time of a revocation, of the answer
and of the call, for answers from the server and the cache alike;
`ObtainedLinked` says why SIGN can embed what it got: with the chain it leads to a root.
`MissingIsExpected` is about the step that ends a call: it has named a key that is not in the store, but
for two cases in which the code names nothing (`LeftUnnamed`).
The flag `needUpdate` says the same as the time and is left out.

**Verification.** A signature is a record of what it carries and of what in it
is as signed; `info` holds the statuses of `VerifiedSignerInfo`. Items of
`m_CertChainItems` note the sources asked, for `SourcesTried`. `store`
keeps `m_VerifyStatus` of each certificate from call to call; SIGN takes two steps
to set it. `TotalValidJustified` states, in terms of the signature and the
certificates alone, what TOTAL-VALID promises; `ChainVerified` that a call that
has the issuer does not go by what was found without it.

**Random generator.** HMAC is perfect: a value is its origin. A key is the last
entropy mixed in, V and the blocks are that key and an age. So "the same block
twice" and "known from the program's text" are facts about pairs of numbers.
All that may fail, fails: entropy, allocation, every HMAC, and an update
half-way. `BuffersApart` covers the buffers of calls under way and what was
given out; `ImplementsSource` the calls that succeed.

**Session.** `active` is `activeStorage` of `CmProviders`, `session` the
provider's session with its `FileStorage`, `proxy` the three fields of
`CmStorageProxy`. A container is a set of key bags, each with the password it
is encoded with, and the password of its MAC: that is what decides
whether it opens. `store()` may succeed, fail before the file is touched, or
leave it damaged. `told` is what the answers let an application
believe of a file, and becomes `Unknown` when an operation on the file fails,
until the next OPEN.

## 4. Proofs

TLAPS checks these for all values of the constants that satisfy the named
assumptions. Temporal steps are `PTL` from three facts: the invariant holds at
first, a step keeps it, and it implies the property.

**`SessionProofs`, the dispatcher** (assumption: `Threads` is finite, `NoThread` is none of
them). `TypeCorrect`, `CounterCorrect`, `SerialMethodsExclude`,
`RaisedFlagAdmitsNobody`, `SerialStartsQuiet` (an ST method starts with no MT
method counted) and `DispatchImplementsGate`.
The inductive invariant is

    IInv == TypeOK /\ MutexOwner /\ FlagOwner /\ CounterExact

None of the properties is inductive alone: that two threads do not run ST
methods together needs that the mutex is held exactly by the thread between
locking and unlocking (`MutexOwner`); that the flag is up while one runs needs
that it is up exactly between raising and lowering (`FlagOwner`); and that the
counter's type is kept by decrementing it needs that it is the number of
threads at work (`CounterExact`), for which the lemmas `RunningMore` and
`RunningLess` count a finite set.

**`SessionProofs`, the storage** (assumption: what stands for nothing is no key, session,
container or answer; `Files`, `Keys` and `Passwords` are any sets, infinite
ones included). All properties of the run `session` are proved: `SessionTypeCorrect`, `OneStorageOpen`,
`AnswersDurable`, `ListedSaved`, `SignerRight`, `NothingDangles`, `WrittenOpens`;
and `OnlyWriter`: a file changes only while it is open for writing.
The inductive invariant is

    SessionInv == Base /\ NoDanglingKey /\ PairedRight /\ MemoryAsTold /\ MemoryReadable /\ Durable

in three layers, each proved from the one before. `Base` (types and
`OneStorage`) makes the session a session wherever an action uses it.
`PairedRight` is what makes `SignerMatches` true: while the proxy and the provider
both point to a key, identifier and certificate are that key's - the proxy
learns of nothing that the provider deselects, so the two pointers have to be
looked at together. `Durable` speaks of files only; what a later
`store()` writes is in memory, hence `MemoryAsTold` (bags and password are
those of the answers) and, for `WrittenOpens`, which holds after
failures too, `MemoryReadable` (every bag has the session's password unless
encoding one has failed). `StoredAsTold` is the lemma the three operations that
store share.

**`DrbgProofs`** (assumptions: `DrbgAssumption`, and `Overlapping = {}` in each theorem: no
method runs beside INIT; any number of threads, any interval, any length of
requests). `Secrets`, `Apart`, `Implements` (the refinement of `RandomSource`), and `Kept`, that

    GeneratorKept == TypeOK /\ MutexOwner /\ InitAlone /\ KeyDrawn /\ BlocksMade

is invariant. With `SecretInUse`, `BuffersApart` and that the blocks given out
are distinct it is inductive. That a fresh block differs from all others needs
that each was made by a key drawn so far and, if by the present one, before the
present V (`BlocksMade`); that needs that only the holder of the mutex moves V
(`MutexOwner`) but for INIT, which then is alone (`InitAlone`).

**`CertKeysProofs`** (no assumption about the store but what an item is). `addItem` and
`removeMarked` keep certificates apart and the flag `unique` sound; they change nothing else of
the items that stay. `LookupFindsNewest`: a search by key identifier that
ends early at a flag finds a certificate of the key if there is one, and of those of one authority
the newest. Induction over the length of a store is done with
sets in place of predicates (`LeastNumber`, `Numbers`).

**`CertCacheProofs`** (assumption: `CertsAssumption`; any certificates, lists and
requests). All properties of the run `cache`: `StoreStaysConsistent`, `KeyIdSearchFindsNewest`,
`SavedStaysSaved`, `SavedGetsLoaded`, `OnlyTemporaryRemoved`, `LoadingNormalises`.
The inductive invariant is

    IInv == TypeOK /\ InOrder /\ Phases /\ FromList /\ NamesExact /\ Named
            /\ Loading /\ FreshAdded /\ SavedIsKept

`SavedIsKept` fails only in INIT, where files are deleted: a duplicate's file goes because
another item stands for it, and that item's file must not go later. So INIT's
progress is in the invariant: every file that has been read has an item that is its own or a
duplicate of it (`Loading`), no two items name one file (part of `InOrder`), and a file an
item names is there, whatever failed in earlier sessions (`NamesExact`). A file of a
trusted certificate may be deleted, and only those (`FromList`). `Named` is the
reason why the new name of a file is never that of another one. For ADD_CERT: what it has
yet to save is in memory and is not marked (`FreshAdded`).

**`CertStatusProofs`** (assumptions: `ScenariosAssumption`, `TimeAssumption`;
chains and stores of any size, any responders and revocations). All properties of
the run `status`: `StatusNeverStale`, `StatusAnswersVerified`, `StatusObtainedLinked`,
`StatusMissingIsExpected`. The inductive invariant is

    IInv == TypeOK /\ AnswersKept /\ ResultsRecent /\ Progress /\ HandedOn /\ IssuerThere

What is kept ends an offset after it was made (`AnswersKept`), so an answer that is
used was made at most an offset before the call began or, if it came from the server, not
longer ago than the server takes (`ResultsRecent`). That a result belongs to
the certificate at its place needs how far the loops have come (`Progress`).
`ObtainedLinked` needs that those before `i` are linked when the
call is at responder `i` (`HandedOn`), and that a call about a responder finds its
issuer (`IssuerThere`); the certificates between a responder and its root are linked by
induction over the chain the walk returns (`AboveIsLinked`).
`ChainIsSound` proves the property of the run `chain` for the walk by itself, from
`StoresAssumption`: the lemma `IssuerRight` is that the lookup then does not take the issuer of an
earlier turn, so `ChainComplete` and the range of `cer_subject` are inductive (`WalkInv`).

**`CrlStoreProofs`** (assumption: `CrlsAssumption`: finitely many CRLs,
told apart by authority, type and number; any certificates and times, any
directory in any order). All properties of the run `crl_cache`: `CacheStaysConsistent`, `UsedCrlsFit`,
`SavedStays`, from

    IInv == TypeOK /\ InOrder(items) /\ SavedOrFresher

The lemmas are about the operations: adding and marking keep an obsolete CRL's newer one
(`AddedInOrder`, `MarkedInOrder`); what the lookup takes is of the certificate's
authority and series (`Found`), and so is all a validation goes by (`Validated`);
of all the files of a series one that is not older survives `removeObsolete`
(`LoadKeeps`).

**`CrlValidationProofs`, in a CRL** (assumption: `RevocationAssumption`; tables of any length).
`SearchKeepsToTable` and `SearchFinds`: the invariant of the binary search is that
the table is ordered and that the place looked for, if it is in the table,
is between the two indices (`Looking`, `Between`). The index that is decremented
below zero is the reason why the assumption on `Width` is there.
`DecidedByEntries`: for any number of entries the certificate is good exactly if none is dated
before the time, so the mistake of `findNearBefore` does not matter to the status.
`ResultIsRight` is the property of the run, with the hypothesis `MaxEntries <= 2`, without
which it is false; it needs that the entries read and those yet to be looked up are never more
than there are (`Counted`). The loop of `findNearBefore` is a recursive function.

**`CrlValidationProofs`, calls at the same time** (assumption: `CallsAssumption`; any number of calls, certificates
and instants). `CrlsStayConsistent` and `ValidationsNeverGoBack` are the invariants of the run
`download`. The inductive invariant is

    DownloadInv == DownloadTypeOK /\ OneLastAvailable /\ NeverOlder
                   /\ Marking /\ Unmarked /\ NewerAvailable /\ Going

`OneLastAvailable` fails while a call marks one CRL after the other. `Marking` says how far
it is and, because the store is locked, that nobody else marks. `NewerAvailable` holds in the
middle of it as well; it is why a call never finds the newest CRL obsolete. `NeverOlder` is about
the end of a call: what it holds before, between two mutexes, is not older than
what others had used when it began (`Going`).

**`VerifyStatusProofs`** (assumptions: `CertificatesAssumption`, that an id names one certificate,
and `RequestsAssumption`, that what a request carries is of its type; any signatures with any
number of references, embedded certificates and answers, any stores, any number of calls). All
properties of the run `verify`. `SourcesAreTried` and `MissingIsListed` need nothing else, and
neither does `TotalValidIsSeen`: behind a TOTAL-VALID are an intact signature, references and time-stamps, nothing
missing, and complete chains of sound certificates valid at the best time. The other two have
hypotheses, each of which the code does not see to (section 6):

* `TotalValidIsJustified`: no CRL is damaged (`DamagedCrls = {}`) and SIGN validates roots only
  (`RootsReverified`). They are needed for one thing, that every certificate below a root was called GOOD
  by a source in order.
* `ChainIsVerified`: of the certificates with one key all may sign certificates or none (`KeysAgree`).

The inductive invariant is

    IInv == TypeOK /\ Progress /\ Known /\ Seen /\ Collected
            /\ ChainsThere /\ AskedInOrder /\ Settled /\ GoneThrough

A status is put together long after what it rests on was found, so each part carries a fact to where it is used.
`Seen`: what `info` says of signature, time-stamps and references was seen in the signature, or
what it takes is expected. `Collected`: TOTAL-VALID was given only when all of that was valid, and nothing
gives it afterwards. `ChainsThere`: the signer and each time-stamp service have an item, and each item has its issuer's
or its issuer is expected. `AskedInOrder`: what an item was asked is a beginning of the
format's order, all of it once the loop has passed. `GoneThrough`: while the status is TOTAL-VALID, the items the last
loop has passed are sound, valid and GOOD. `Settled` is about the certificates' own
statuses, which other calls set: one that is settled comes from an issuer's key, and of two items of which
one issued the other, the lower one is settled unless SIGN is at it. `Known` (certificates that were
found stay in the store, at their place) and `Progress` (what has been done at each `pc`) serve the others.
`ChainsThere` rests on the walk: `PathGoesOn` and `PathIsAbove` say that the chain of a certificate has
above each of its members the one the lookup gives, up to a root or to an issuer that is not there.
The loops over certificates and answers are recursive functions; `Iterated` and `Stays` of
`CertKeysProofs` show that such a function is defined and what every step of it keeps. TLC found no violation of `IInv` on the instance of the run `verify`.

**Proved only:** the type invariants of `ApiDispatch`, `KeySession`,
`Drbg`, `CertStatus` and `VerifyStatus`, parts of the inductive invariants; `DecidedByEntries`, `TotalValidIsSeen`,
`SerialStartsQuiet`, `OnlyWriter`, `LookupFindsNewest`.

**Only model-checked:** liveness (`SerialProgress`, `ChainEnds`, `FirstDownloadReturns`,
`Terminates`), which needs fairness and `ENABLED`. Every invariant and every action property of a run
that passes is proved, and so are both refinements.

## 5. What is not modelled, and why

* The order in which SIGN builds a signature. Which key and certificate it takes is in
  `KeySession`, how it validates them in `CertStatus`, what has to come
  out in `VerifyStatus`.
* In `CertStatus`: encodings, and signatures of OCSP requests; answers to CERT_STATUS_BY_OCSP whose issuer
  is given in two ways that do not agree.
* In `VerifyStatus`: more than one signer; the statuses of single references;
  `verify_raw`; whether a root is trusted, which is only reported.
* In `Drbg`: `drbg_reseed`, which nothing calls. The cache of curves (`ec-cache.c`) stays empty:
  nothing calls the functions that fill it and the default level is 0.
* Containers that are read-only (JKS, PKCS8, IIT), certificates in containers,
  the PKCS11 provider: the interface they have to the proxy is the one modelled.
* Cryptography, ASN.1, JSON, texts: data that the models take as given. By lines
  they are most of the repository (`uapkic`, `uapkif`, parson, the headers of libcurl and
  PKCS#11); they keep no state between calls.
* The stores that are created when first asked for.

## 6. Where code and documentation disagree

These two are runs that TLC finds violated; the counterexamples are short.

* `dispatch_exclusion`: an MT method samples the flag, an ST method raises it
  and reads a counter of zero, both run. The manual (section 1) says that an
  ST method blocks the others.
* `download_expired`: `getCrl` of the validator holds the expired CRL and locks
  the store, `CrlStore::getCrl` holds the store and locks the CRL.

Met on the way, without a run of their own (the properties except them, where
they say so, and can be seen to fail without the exception):

* `cer_issuer` of an earlier turn takes part in the next lookup of
  `getChainCerts` and wins if it is newer: below a root renewed with its key the walk
  takes the CA for its own issuer, for ever.
* A full CRL is dropped if a delta CRL of its authority has its
  number, and the delta CRL is taken for the full one (`CrlStore::addItem`).
* The treatment meant for v1 CRLs is given to v2 CRLs: every revocation is
  reported as UNSPECIFIED (`validateByCrl`; manual, `revocationReason`).
* The manual says that SIGN fails for a revoked certificate; `getStatus` never looks
  at the status that OCSP or the CRL gave and RET_UAPKI_CERT_STATUS_REVOKED is used
  nowhere.
* When the issuer of the certificate a call is about is missing, it is not listed
  under `expectedCerts`: `getStatus` returns before. Nor is the missing issuer of a responder that has the key
  of a certificate of the chain but is another certificate (`cert-validator.cpp:427`).
  `MissingIsExpected` excepts both (`LeftUnnamed`). When a responder is refused, the entry is a certificate that is in the store.
* No time limit is set for libcurl; a server that does not answer keeps the mutex of the certificate.
* CERT_STATUS_BY_OCSP may put an older answer in the place of a newer one.
* VERIFY ends with VERIFY_FAILED at the first wrong signature: INVALID is never reported for
  it and the other signers' results are lost.
* A CRL whose signature was found wrong is accepted by the next call
  (`CrlItem::verify` answers RET_OK): `TotalValidJustified` fails with
  `DamagedCrls = {"c"}`.
* SIGN sets a certificate's status to INDETERMINATE while it verifies it; VERIFY may
  read VALID before and skip the answer of OCSP or CRL after:
  `TotalValidJustified` fails with `Reverified = {"ca"}`.
* VERIFY_CERT does not verify again a certificate that was left INDETERMINATE.
* A certificate keeps the status it got from the issuer taken first. If a newer certificate with the issuer's
  key is added that may not sign certificates, the chain shows that one and the status is still the first one's:
  `ChainVerified` fails when `Certificates` and `Later` have a second certificate of the CA's key with `ca = FALSE`.
* A chain without its root makes a CA's certificate UNDEFINED and the result TOTAL-FAILED, a missing
  issuer of the signer makes it INDETERMINATE; for responders and CRL issuers with an incomplete
  chain the result is TOTAL-FAILED and nothing is expected.
* An embedded OCSP answer is taken by serial number, whatever its
  signature; `addedCrls` is never filled, so an archive time-stamp over embedded CRLs cannot be verified.
* `uapkic_init` runs `drbg_init` without the mutex: a method the gate let in beside INIT may
  generate from constants (`SecretInUse` fails with `Overlapping = {t1}`).
* The generator's self-test fails when the generator is set up: so does a second INIT after DEINIT,
  one after a failed INIT, or one after RANDOM_BYTES, unless `skipSelfTest` is given.
* After 10^6 requests `drbg_reseed_internal(NULL)` mixes in no entropy.
* ADD_CERT with `permanent` of a certificate that is in memory already saves
  nothing and succeeds. A certificate with keys and `notBefore` of another is
  not added.
* INIT deletes the file of a certificate it also gets as trusted.
  REMOVE_CERT with `permanent` of a certificate whose file was not loaded or
  saved by the item leaves the file.
* Two authorities that certified each other lead `getChainCerts` round for ever.
* A call that adds a renewed certificate locks store and certificate in the
  opposite order to a validation.
* `findNearBefore` keeps the date of the entry it gave up: dates 10, 30, 20
  at time 40 give 20.
* An entry of a CRL that has extensions but no reason ends the validation with an error.
* REMOVE_CRL with `permanent` of a CRL that was not saved removes the
  directory if it is empty.
* CREATE_KEY leaves identifier and certificate of the key selected before:
  SIGN then signs with the new key for the old certificate
  (`SignerMatches` ends at CREATE_KEY).
* DEINIT with an open storage leaves `activeStorage` pointing to it.
* CHANGE_PASSWORD of a storage without keys opened with CREATE over a file
  deletes the file and keeps the old password, and answers OK.
* CHANGE_PASSWORD that fails between two keys leaves keys with different
  passwords; if the one that failed is deleted, a container is written that no
  password opens (`WrittenReadable` excepts these sessions).
* `ba_to_file` empties a file before it writes it.

## 7. Plan

Done: the dispatcher, both caches, chain, validation by CRL and OCSP, VERIFY, the session,
the random generator. In order:

1. SIGN's order of attributes, time-stamps and certificate values for each
   format, composed with `VerifyStatus`: what SIGN made is TOTAL-VALID.
2. Library state: creation of the stores, INIT that fails half-way; an abstract
   certificate store (a set with identity) that `CertCache` implements.
3. HTTP mutexes per address, PKCS11.

Theorems worth proving next: those of these models, as they are written; for the present ones
liveness remains, with a prover that knows `ENABLED`.
