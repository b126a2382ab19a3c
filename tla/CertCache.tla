------------------------------ MODULE CertCache ------------------------------
(***************************************************************************)
(* The certificate cache: CerStore (library/uapki/src/cer-store.cpp), the  *)
(* CerItem flags it relies on, and the directory certCache.path in which   *)
(* permanent certificates live, over many sessions INIT ... DEINIT and     *)
(* crashes of the process.                                                 *)
(*                                                                         *)
(* CerStore::m_Mutex makes an operation atomic for the other threads, not  *)
(* for a crash: INIT and ADD_CERT are modelled step by step (variable op), *)
(* with every change of the directory a step of its own.                   *)
(*                                                                         *)
(* The store itself, addItem and the lookups are in module CertKeys.  The  *)
(* id of a certificate stands for its encoding and for issuer and serial   *)
(* number (CertId), which also determine the file name generated for it.   *)
(*                                                                         *)
(* certCache.path is configured; without it nothing is read or saved.      *)
(***************************************************************************)
EXTENDS CertKeys

CONSTANTS
  Certs,          (* The certificates: the records of module CertKeys.       *)
  TrustedLists,   (* The values certCache.trustedCerts takes: sequences.     *)
  Batches,        (* The certificate lists of the ADD_CERT requests.         *)
  MaxItems        (* Bound: no ADD_CERT with this many items in memory.      *)

ASSUME CertsAssumption ==
  /\ \A c \in Certs : c.keyId # NoKeyId /\ c.notBefore \in Nat
  /\ \A c, d \in Certs : c.id = d.id => c = d
  /\ TrustedLists \subseteq Seq(Certs)
  /\ Batches \subseteq Seq(Certs)
  /\ MaxItems \in Nat

VARIABLES
  initialized,   (* LibraryConfig::m_IsInitialized.                              *)
  items,         (* CerStore::m_Items.                                           *)
  disk,          (* The files of the directory: [cert, name].                    *)
  op,            (* The operation in progress.                                   *)
  failed,        (* History: writing, deleting or renaming a file has failed.    *)
  saved          (* History: certificates whose ADD_CERT with permanent=true     *)
                 (* succeeded, until a REMOVE_CERT with permanent=true.          *)

vars == <<initialized, items, disk, op, failed, saved>>

(* A file has the name the cache generates or one the user gave it. *)
Names == {"generated", "other"}
Files == [cert : Certs, name : Names]
Items == [cert : Certs, trusted : BOOLEAN, marked : BOOLEAN, unique : BOOLEAN,
          file : Names \cup {"none"}]

OpKinds == {"idle", "add", "save", "load", "rename"}
Ops == [at : OpKinds, todo : Seq(Certs), init : BOOLEAN, permanent : BOOLEAN,
        fresh : SUBSET Certs, files : SUBSET Files]

Idle == [at |-> "idle", todo |-> <<>>, init |-> FALSE, permanent |-> FALSE, fresh |-> {}, files |-> {}]

Init ==
  /\ initialized = FALSE
  /\ items = <<>>
  /\ disk \in SUBSET [cert : Certs, name : {"other"}]
  /\ op = Idle
  /\ failed = FALSE
  /\ saved = {}

-----------------------------------------------------------------------------
NewItem(c, trusted, marked, file) ==
  [cert |-> c, trusted |-> trusted, marked |-> marked, unique |-> TRUE, file |-> file]

-----------------------------------------------------------------------------
(* INIT: setup_cert_cache.  The trusted certificates are added first, then *)
(* the directory is read in the order readdir gives.                       *)

uapki_init(list) ==
  /\ ~initialized
  /\ op = Idle
  /\ items' = <<>>
  /\ op' = [Idle EXCEPT !.at = "add", !.init = TRUE, !.todo = list]
  /\ UNCHANGED <<initialized, disk, failed, saved>>

(* ADD_CERT and every method that adds certificates it meets (OPEN,        *)
(* SELECT_KEY, VERIFY, DECRYPT... with permanent = FALSE).                 *)
uapki_add_cert(batch, permanent) ==
  /\ initialized
  /\ op = Idle
  /\ Len(items) < MaxItems
  /\ op' = [Idle EXCEPT !.at = "add", !.todo = batch, !.permanent = permanent]
  /\ UNCHANGED <<initialized, items, disk, failed, saved>>

(* Mutant: a certificate added for good is marked like a temporary one. *)
AddStep_MarksAll ==
  /\ op.at = "add" /\ op.todo # <<>>
  /\ LET c == Head(op.todo)
         isUnique == FirstDuplicate(items, c) = 0
     IN /\ items' = addItem(items, NewItem(c, op.init, ~op.init, "none"))
        /\ op' = [op EXCEPT !.todo = Tail(@),
                            !.fresh = IF isUnique /\ op.permanent THEN @ \cup {c} ELSE @]
  /\ UNCHANGED <<initialized, disk, failed, saved>>

(* One turn of the loop of CerStore::addCerts over the parsed certificates. *)
AddStep ==
  /\ op.at = "add" /\ op.todo # <<>>
  /\ LET c == Head(op.todo)
         isUnique == FirstDuplicate(items, c) = 0
     IN /\ items' = addItem(items, NewItem(c, op.init, ~op.init /\ ~op.permanent, "none"))
        /\ op' = [op EXCEPT !.todo = Tail(@),
                            !.fresh = IF isUnique /\ op.permanent THEN @ \cup {c} ELSE @]
  /\ UNCHANGED <<initialized, disk, failed, saved>>

(* Mutant: with trusted certificates the directory is not read. *)
AddDone_TrustedOnly ==
  /\ op.at = "add" /\ op.todo = <<>>
  /\ op' = IF op.init THEN [op EXCEPT !.at = "load", !.files = IF items = <<>> THEN disk ELSE {}]
           ELSE [op EXCEPT !.at = "save"]
  /\ UNCHANGED <<initialized, items, disk, failed, saved>>

AddDone ==
  /\ op.at = "add" /\ op.todo = <<>>
  /\ op' = IF op.init THEN [op EXCEPT !.at = "load", !.files = disk]
           ELSE [op EXCEPT !.at = "save"]
  /\ UNCHANGED <<initialized, items, disk, failed, saved>>

IndexOf(c) == SelectInSeq(items, LAMBDA it : it.cert = c)

SetFile(its, i, name) == [its EXCEPT ![i].file = name]

(* The file name cannot be generated: the certificate stays in memory and  *)
(* its errorCode is RET_UAPKI_GENERAL_ERROR.                               *)
SaveUnnamed(c) ==
  /\ op.at = "save" /\ c \in op.fresh
  /\ c.authorityKeyId = NoKeyId
  /\ op' = [op EXCEPT !.fresh = @ \ {c}]
  /\ UNCHANGED <<initialized, items, disk, failed, saved>>

(* ba_to_file cannot open the file: as when writing it fails, the errorCode *)
(* is set and the item stays in memory with its file name.                  *)
SaveFails(c) ==
  /\ op.at = "save" /\ c \in op.fresh
  /\ c.authorityKeyId # NoKeyId
  /\ items[IndexOf(c)].file = "none"
  /\ failed' = TRUE
  /\ items' = SetFile(items, IndexOf(c), "generated")
  /\ op' = [op EXCEPT !.fresh = @ \ {c}]
  /\ UNCHANGED <<initialized, disk, saved>>

(* It opens the file, which empties it if it was there... *)
SaveOpen(c) ==
  /\ op.at = "save" /\ c \in op.fresh
  /\ c.authorityKeyId # NoKeyId
  /\ items[IndexOf(c)].file = "none"
  /\ items' = SetFile(items, IndexOf(c), "generated")
  /\ disk' = disk \ {[cert |-> c, name |-> "generated"]}
  /\ saved' = {d \in saved : ~Duplicate(d, c)}
  /\ UNCHANGED <<initialized, op, failed>>

(* ... and writes the encoded certificate, or fails. *)
SaveWrite(c) ==
  /\ op.at = "save" /\ c \in op.fresh
  /\ items[IndexOf(c)].file = "generated"
  /\ op' = [op EXCEPT !.fresh = @ \ {c}]
  /\ \E ok \in BOOLEAN :
       /\ failed' = (failed \/ ~ok)
       /\ disk' = IF ok THEN disk \cup {[cert |-> c, name |-> "generated"]} ELSE disk
       /\ saved' = IF ok THEN saved \cup {c} ELSE saved
  /\ UNCHANGED <<initialized, items>>

SaveDone ==
  /\ op.at = "save" /\ op.fresh = {}
  /\ op' = Idle
  /\ UNCHANGED <<initialized, items, disk, failed, saved>>

(* Mutant: the file of a duplicate stays. *)
LoadFile_KeepsDuplicate(f) ==
  /\ op.at = "load" /\ f \in op.files
  /\ op' = [op EXCEPT !.files = @ \ {f}]
  /\ items' = addItem(items, NewItem(f.cert, FALSE, FALSE, f.name))
  /\ UNCHANGED <<initialized, disk, failed, saved>>

(* Mutant: the file is deleted before the store is asked for a duplicate. *)
LoadFile_DeletesFirst(f) ==
  /\ op.at = "load" /\ f \in op.files
  /\ op' = [op EXCEPT !.files = @ \ {f}]
  /\ items' = addItem(items, NewItem(f.cert, FALSE, FALSE, f.name))
  /\ disk' = disk \ {f}
  /\ UNCHANGED <<initialized, failed, saved>>

(* One turn of the loop of CerStore::loadDir: the file of a certificate    *)
(* that duplicates one already in memory is deleted.                       *)
LoadFile(f) ==
  /\ op.at = "load" /\ f \in op.files
  /\ op' = [op EXCEPT !.files = @ \ {f}]
  /\ items' = addItem(items, NewItem(f.cert, FALSE, FALSE, f.name))
  /\ IF FirstDuplicate(items, f.cert) = 0 THEN UNCHANGED <<disk, failed>>
     ELSE \E ok \in BOOLEAN : /\ failed' = (failed \/ ~ok)
                              /\ disk' = IF ok THEN disk \ {f} ELSE disk
  /\ UNCHANGED <<initialized, saved>>

LoadDone ==
  /\ op.at = "load" /\ op.files = {}
  /\ op' = [op EXCEPT !.at = "rename"]
  /\ UNCHANGED <<initialized, items, disk, failed, saved>>

Renamable == {i \in DOMAIN items : items[i].file = "other" /\ items[i].cert.authorityKeyId # NoKeyId}

(* Mutant: the item keeps the name its file had. *)
RenameFile_KeepsName(i) ==
  /\ op.at = "rename" /\ i \in Renamable
  /\ disk' = (disk \ {[cert |-> items[i].cert, name |-> "other"]})
                \cup {[cert |-> items[i].cert, name |-> "generated"]}
  /\ UNCHANGED <<initialized, items, op, failed, saved>>

(* loadDir gives every file its generated name; rename() replaces a file   *)
(* that has it.                                                            *)
RenameFile(i) ==
  /\ op.at = "rename" /\ i \in Renamable
  /\ items' = SetFile(items, i, "generated")
  /\ disk' = (disk \ {[cert |-> items[i].cert, name |-> "other"]})
                \cup {[cert |-> items[i].cert, name |-> "generated"]}
  /\ UNCHANGED <<initialized, op, failed, saved>>

(* INIT succeeds.  Files whose rename failed keep the name they had. *)
InitDone ==
  /\ op.at = "rename"
  /\ op' = Idle
  /\ initialized' = TRUE
  /\ failed' = (failed \/ Renamable # {})
  /\ UNCHANGED <<items, disk, saved>>

-----------------------------------------------------------------------------
(* REMOVE_CERT with certId or bytes: CerStore::removeCert erases the item  *)
(* and, with permanent, deletes its file; a failure to delete is reported  *)
(* after the item is gone.                                                 *)
uapki_remove_cert(i, permanent) ==
  /\ initialized /\ op = Idle /\ i \in DOMAIN items
  /\ LET it == items[i]
         f == [cert |-> it.cert, name |-> it.file]
     IN \E ok \in {TRUE, ~permanent \/ it.file = "none"} :
          /\ failed' = (failed \/ ~ok)
          /\ disk' = IF permanent /\ ok THEN disk \ {f} ELSE disk
          /\ saved' = IF permanent THEN {c \in saved : ~Duplicate(c, it.cert)} ELSE saved
  /\ items' = RemoveAt(items, i)
  /\ UNCHANGED <<initialized, op>>

(* REMOVE_CERT with neither: CerStore::removeMarkedCerts. *)
removeMarkedCerts ==
  /\ initialized /\ op = Idle
  /\ items' = Remaining(items, {k \in DOMAIN items : ~items[k].marked})
  /\ UNCHANGED <<initialized, disk, op, failed, saved>>

(* DEINIT: release_stores() deletes the store. *)
uapki_deinit ==
  /\ initialized /\ op = Idle
  /\ initialized' = FALSE
  /\ items' = <<>>
  /\ UNCHANGED <<disk, op, failed, saved>>

(* The process ends at any point, or INIT fails and releases the stores;   *)
(* the directory is what is left.                                          *)
Crash ==
  /\ initialized \/ op # Idle
  /\ initialized' = FALSE
  /\ items' = <<>>
  /\ op' = Idle
  /\ UNCHANGED <<disk, failed, saved>>

AddAndLoad ==
  \/ AddStep \/ AddDone \/ SaveDone \/ LoadDone \/ InitDone
  \/ \E c \in Certs : SaveUnnamed(c) \/ SaveFails(c) \/ SaveOpen(c) \/ SaveWrite(c)
  \/ \E f \in Files : LoadFile(f)
  \/ \E i \in DOMAIN items : RenameFile(i)

Next ==
  \/ \E list \in TrustedLists : uapki_init(list)
  \/ \E batch \in Batches, permanent \in BOOLEAN : uapki_add_cert(batch, permanent)
  \/ AddAndLoad
  \/ \E i \in DOMAIN items, permanent \in BOOLEAN : uapki_remove_cert(i, permanent)
  \/ removeMarkedCerts
  \/ uapki_deinit
  \/ Crash

Spec == Init /\ [][Next]_vars

-----------------------------------------------------------------------------
TypeOK ==
  /\ initialized \in BOOLEAN
  /\ items \in Seq(Items)
  /\ disk \subseteq Files
  /\ op \in Ops
  /\ failed \in BOOLEAN
  /\ saved \subseteq Certs

(* The store never holds two items for the same keys and notBefore,        *)
(* whatever mix of trusted lists, files and added certificates filled it   *)
(* (certificates without an authority key identifier excepted).            *)
NoDuplicates ==
  \A i, j \in DOMAIN items : Duplicate(items[i].cert, items[j].cert) => i = j

(* The flag by which getCertByKeyId stops its search early is set only on  *)
(* an item with whose keys there is no other.                              *)
UniqueFlagSound ==
  \A i, j \in DOMAIN items :
    i # j /\ SameKeys(items[i].cert, items[j].cert) => ~items[i].unique

(* A search by key identifier finds a certificate of that key whenever     *)
(* there is one, and of the certificates one authority issued for the key  *)
(* the newest ("few certs - to continue search").                          *)
KeyIdFindsNewest ==
  \A k \in {items[i].cert.keyId : i \in DOMAIN items} :
    LET n == getCertByKeyId(items, k, 0) IN
    /\ n # 0
    /\ items[n].cert.keyId = k
    /\ \A i \in DOMAIN items :
         SameKeys(items[i].cert, items[n].cert) => items[i].cert.notBefore <= items[n].cert.notBefore

(* Some session passes the certificate to INIT as a trusted one. *)
Configured(c) == \E list \in TrustedLists : \E i \in DOMAIN list : Duplicate(list[i], c)

(* What ADD_CERT saved is still in the directory after any sequence of     *)
(* sessions, removals of other certificates, failing file operations and   *)
(* crashes, in whatever order readdir returns the files - unless INIT gets *)
(* the certificate as a trusted one.                                       *)
SavedIsKept ==
  \A c \in saved : Configured(c) \/ \E f \in disk : Duplicate(f.cert, c)

(* An INIT that completes finds every such certificate. *)
SavedIsLoaded ==
  [][~initialized /\ initialized' =>
       \A c \in saved : Configured(c) \/ \E i \in DOMAIN items : Duplicate(items[i].cert, c)]_vars

(* A file name kept in memory is the name of a file with that certificate: *)
(* REMOVE_CERT with permanent deletes no other file - as long as no file   *)
(* operation has failed.                                                   *)
FileNamesExact ==
  op.at # "save" /\ ~failed =>
    \A i \in DOMAIN items :
      items[i].file # "none" => [cert |-> items[i].cert, name |-> items[i].file] \in disk

(* The store in memory, with itself and with the directory: no session and *)
(* no failure leaves a duplicate, a flag that ends a search too early or a *)
(* name by which another certificate's file would be deleted.              *)
StoreConsistent == TypeOK /\ NoDuplicates /\ UniqueFlagSound /\ FileNamesExact

(* "all temporary certificates are removed from the cache": none that is   *)
(* trusted, or that this session saved to a file or loaded from one.       *)
TemporaryOnly ==
  [][removeMarkedCerts =>
       \A i \in DOMAIN items :
         items[i].trusted \/ items[i].file # "none" => \E j \in DOMAIN items' : items'[j] = items[i]]_vars

(* When INIT is done every certificate has one file, as long as no file    *)
(* operation has failed.                                                   *)
LoadNormalises ==
  [][op.at = "rename" /\ op'.at = "idle" /\ initialized' /\ ~failed' =>
       \A f, g \in disk : Duplicate(f.cert, g.cert) => f = g]_vars
=============================================================================
