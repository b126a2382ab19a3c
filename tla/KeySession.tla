----------------------------- MODULE KeySession ------------------------------
(***************************************************************************)
(* The open storage and the selected key: CmProviders and CmStorageProxy   *)
(* (library/uapki/src/cm-providers.cpp, cm-storage-proxy.cpp) over the     *)
(* PKCS12 provider (library/cm-pkcs12/src), with the container files the   *)
(* storages are.                                                           *)
(*                                                                         *)
(* The methods here are single-threaded ones (module ApiDispatch), each is *)
(* an action; SIGN, which changes nothing here, is the operator Signer.    *)
(* The process may end at any time, in the middle of writing a file too.   *)
(* Memory used after it was freed is modelled as an error answered: the    *)
(* other outcome, that the process ends, is Crash.                         *)
(*                                                                         *)
(* A container has key bags, each encoded with a password, and a MAC made  *)
(* with a password.  Left out: its certificate bags, containers of other   *)
(* formats (JKS, PKCS8, IIT), which are read-only, and "on memory" ones.   *)
(* The certificate cache may have any certificates at any time.            *)
(***************************************************************************)
EXTENDS FiniteSets

CONSTANTS
  Files,      (* The storages: names of files.                *)
  Keys,       (* The keys, each generated once.               *)
  Passwords,
  NoKey,      (* Stands for no key.                           *)
  NoSession,  (* Stands for no session.                       *)
  Absent,     (* There is no such file.                       *)
  Damaged,    (* The file is truncated.                       *)
  Unknown     (* Nothing is known of the file.                *)

VARIABLES
  files,      (* The contents of the files.                                  *)
  providers,  (* Whether INIT has loaded the providers.                      *)
  active,     (* activeStorage: "none", "open", or "freed" with its provider.*)
  session,    (* m_Session with its FileStorage, or NoSession.               *)
  proxy,      (* m_SelectedKey (whether it is set), m_SelectedKeyId and      *)
              (* m_PairedCertId (the key the certificate is of).             *)
  unused,     (* The keys not generated yet.                                 *)
  told,       (* History: the keys and password of a file by the answers     *)
              (* and whether, opened with CREATE, it has to be written yet.  *)
              (* Unknown after an operation on it failed, until OPEN.        *)
  created     (* History: whether the last selection is CREATE_KEY's.        *)

history == <<told, created>>
sessionVars == <<files, providers, active, session, proxy, unused, history>>

(* The provider's bags map a key to the password it is encoded with;       *)
(* "cleared" stands for an encoding lost in a failed encodeBag.            *)
Bags(values) == UNION {[ks -> values] : ks \in SUBSET Keys}
Containers == [bags : Bags(Passwords), mac : Passwords]
Sessions == [file : Files, mode : {"RW", "RO", "CREATE"}, password : Passwords,
             bags : Bags(Passwords \cup {"cleared"}), selected : Keys \cup {NoKey},
             halfway : BOOLEAN]   (* History: encodeBag has failed. *)

Answers == [keys : SUBSET Keys, password : Passwords, pending : BOOLEAN]

(* What stands for nothing is nothing else. *)
ASSUME NamesAssumption ==
  /\ NoKey \notin Keys /\ NoSession \notin Sessions /\ Unknown \notin Answers
  /\ {Absent, Damaged} \cap Containers = {} /\ Absent # Damaged

Container(keys, pw) == [bags |-> [k \in keys |-> pw], mac |-> pw]
Readable(c, pw) == c = Container(DOMAIN c.bags, pw)

NothingSelected == [key |-> FALSE, id |-> NoKey, cert |-> NoKey]

SessionInit ==
  /\ files \in [Files -> {Absent} \cup {Container(ks, pw) : ks \in (SUBSET Keys) \ {{}}, pw \in Passwords}]
  /\ \A f, g \in Files : f # g /\ files[f] # Absent /\ files[g] # Absent
                           => DOMAIN files[f].bags \cap DOMAIN files[g].bags = {}
  /\ unused = {k \in Keys : \A f \in Files : files[f] = Absent \/ k \notin DOMAIN files[f].bags}
  /\ providers = FALSE /\ active = "none" /\ session = NoSession
  /\ proxy = NothingSelected
  /\ told = [f \in Files |-> Unknown]
  /\ created = FALSE

-----------------------------------------------------------------------------
(* INIT and DEINIT.  Deleting a proxy closes its storage; activeStorage    *)
(* keeps pointing to it.                                                   *)

INIT ==
  /\ ~providers
  /\ providers' = TRUE
  /\ UNCHANGED <<files, active, session, proxy, unused, history>>

DEINIT ==
  /\ providers
  /\ providers' = FALSE
  /\ active' = IF active = "none" THEN "none" ELSE "freed"
  /\ session' = NoSession
  /\ proxy' = NothingSelected /\ created' = FALSE
  /\ UNCHANGED <<files, unused, told>>

(* The process ends; a file being written is truncated. *)
Crash ==
  /\ \/ UNCHANGED <<files, told>>
     \/ /\ session # NoSession /\ session.mode # "RO"
        /\ files' = [files EXCEPT ![session.file] = Damaged]
        /\ told' = [told EXCEPT ![session.file] = Unknown]
  /\ providers' = FALSE /\ active' = "none" /\ session' = NoSession
  /\ proxy' = NothingSelected /\ created' = FALSE
  /\ UNCHANGED unused

-----------------------------------------------------------------------------
(* OPEN: storageOpen reads the file, sessionLogin decodes it, session_info *)
(* may fail yet; a storage that is not to be used is closed again.         *)

storageOpen(f, mode, pw) ==
  [file |-> f, mode |-> mode, password |-> pw, selected |-> NoKey, halfway |-> FALSE,
   bags |-> IF mode = "CREATE" THEN Container({}, pw).bags ELSE files[f].bags]

sessionLogin(f, mode, pw) == mode # "CREATE" => files[f] # Damaged /\ Readable(files[f], pw)

Opened(f, mode, pw) ==
  /\ sessionLogin(f, mode, pw)
  /\ active' = "open"
  /\ session' = storageOpen(f, mode, pw)
  /\ told' = [told EXCEPT ![f] = [keys |-> DOMAIN session'.bags, password |-> pw,
                                  pending |-> mode = "CREATE" /\ files[f] # Absent]]

(* Mutant: the storage stays open in the proxy if session_info fails. *)
OpenFails_LeavesOpen(f, mode, pw) ==
  /\ session' = IF sessionLogin(f, mode, pw) THEN storageOpen(f, mode, pw) ELSE NoSession
  /\ UNCHANGED <<active, told>>

OpenFails(f, mode, pw) ==
  /\ session' = NoSession
  /\ UNCHANGED <<active, told>>

OPEN ==
  /\ providers /\ active = "none"
  /\ \E f \in Files, mode \in {"RW", "RO", "CREATE"}, pw \in Passwords :
       /\ mode # "CREATE" => files[f] # Absent
       /\ Opened(f, mode, pw) \/ OpenFails(f, mode, pw)
  /\ UNCHANGED <<files, providers, proxy, unused, created>>

(* CLOSE: of a storage that was freed, nothing but the pointer is left. *)
CLOSE ==
  /\ active # "none"
  /\ active' = "none"
  /\ session' = NoSession
  /\ proxy' = NothingSelected /\ created' = FALSE
  /\ UNCHANGED <<files, providers, unused, told>>

-----------------------------------------------------------------------------
(* FileStorage::store of the session s: "ok", "error" (nothing encoded, or *)
(* the file not opened) or "damaged" (opened, so emptied, and not written).*)

EncodesBags(s) == \A k \in DOMAIN s.bags : s.bags[k] # "cleared"

store(s, r) ==
  IF DOMAIN s.bags = {}
  THEN /\ r = "ok" => files[s.file] # Absent
       /\ r # "damaged"
       /\ files' = [files EXCEPT ![s.file] = IF r = "ok" THEN Absent ELSE @]
  ELSE /\ r # "error" => EncodesBags(s)
       /\ files' = [files EXCEPT ![s.file] = CASE r = "ok" -> [bags |-> s.bags, mac |-> s.password]
                                               [] r = "error" -> @
                                               [] r = "damaged" -> Damaged]

Results == {"ok", "error", "damaged"}

Told == IF told[session.file] = Unknown THEN [keys |-> {}, password |-> session.password]
        ELSE told[session.file]

(* What the application knows after an answer. *)
Tell(r, keys, pw) ==
  told' = [told EXCEPT ![session.file] =
             IF r = "ok" /\ @ # Unknown
             THEN [keys |-> keys, password |-> pw, pending |-> FALSE]
             ELSE Unknown]

-----------------------------------------------------------------------------
(* SELECT_KEY, by the key's identifier or its certificate's. *)

(* Mutant: the proxy does not forget the key selected before. *)
deselectKey_KeyOnly == [proxy EXCEPT !.key = FALSE]

deselectKey == NothingSelected

Found(k) == k \in DOMAIN session.bags

(* The key is not there, or keyGetInfo fails and it is deselected again,   *)
(* which the provider is not told.                                         *)
SelectFails(k) ==
  /\ session' = [session EXCEPT !.selected = IF Found(k) THEN k ELSE NoKey]
  /\ proxy' = deselectKey

(* The certificate is paired if it is in the certificate cache. *)
Selected(k) ==
  /\ Found(k)
  /\ session' = [session EXCEPT !.selected = k]
  /\ \E c \in {deselectKey.cert, k} : proxy' = [key |-> TRUE, id |-> k, cert |-> c]

SELECT_KEY ==
  /\ active = "open"
  /\ \E k \in Keys : SelectFails(k) \/ Selected(k)
  /\ created' = FALSE
  /\ UNCHANGED <<files, providers, active, unused, told>>

-----------------------------------------------------------------------------
(* CREATE_KEY.  The provider clears the proxy's pointer first of all.      *)

CreateFails ==
  /\ proxy' = [proxy EXCEPT !.key = FALSE]
  /\ UNCHANGED <<files, session, unused, told, created>>

AddBag(s, k) ==
  [s EXCEPT !.bags = [x \in DOMAIN @ \cup {k} |-> IF x = k THEN s.password ELSE @[x]],
            !.selected = k]

(* If keyGetInfo fails after store, the answer is an error. *)
Created(k, r) ==
  /\ session.mode # "RO"
  /\ session' = AddBag(session, k)
  /\ store(session', r)
  /\ proxy' = [proxy EXCEPT !.key = TRUE] /\ created' = TRUE
  /\ unused' = unused \ {k}
  /\ \E answer \in {r, "error"} : Tell(answer, Told.keys \cup {k}, Told.password)

CREATE_KEY ==
  /\ active = "open"
  /\ CreateFails \/ \E k \in unused, r \in Results : Created(k, r)
  /\ UNCHANGED <<providers, active>>

-----------------------------------------------------------------------------
(* DELETE_KEY.  The proxy is not told if it was the selected one. *)

(* Mutant: the provider goes on pointing to the deleted bag. *)
DeleteBag_KeepsSelected(s, k) == [s EXCEPT !.bags = [x \in DOMAIN @ \ {k} |-> @[x]]]

DeleteBag(s, k) ==
  [s EXCEPT !.bags = [x \in DOMAIN @ \ {k} |-> @[x]],
            !.selected = IF @ = k THEN NoKey ELSE @]

(* Mutant: the file is written before the bag is deleted. *)
DeletedKey_StoresFirst(k, r) ==
  /\ session' = DeleteBag(session, k)
  /\ store(session, r)
  /\ Tell(r, Told.keys \ {k}, Told.password)

DeletedKey(k, r) ==
  /\ session' = DeleteBag(session, k)
  /\ store(session', r)
  /\ Tell(r, Told.keys \ {k}, Told.password)

DELETE_KEY ==
  /\ active = "open" /\ session.mode # "RO"
  /\ \E k \in DOMAIN session.bags, r \in Results : DeletedKey(k, r)
  /\ UNCHANGED <<providers, active, proxy, unused, created>>

-----------------------------------------------------------------------------
(* CHANGE_PASSWORD encodes the bags one by one, then stores them.          *)

(* One fails, some before it have the new password. *)
EncodeFails(pw) ==
  /\ \E k \in DOMAIN session.bags : \E done \in SUBSET (DOMAIN session.bags \ {k}) :
       session' = [session EXCEPT !.halfway = TRUE,
                     !.bags = [x \in DOMAIN @ |-> CASE x = k -> "cleared"
                                                    [] x \in done -> pw
                                                    [] OTHER -> @[x]]]
  /\ Tell("error", {}, pw)
  /\ UNCHANGED files

(* Mutant: only the MAC is made with the new password. *)
Encoded_MacOnly(pw) == [session EXCEPT !.password = pw]

(* store() takes the new password only if there is a bag. *)
Encoded(pw) ==
  IF DOMAIN session.bags = {} THEN session
  ELSE [session EXCEPT !.password = pw, !.bags = [x \in DOMAIN @ |-> pw]]

(* Mutant: the file is written with the old password. *)
PasswordChanged_NotStored(pw, r) ==
  /\ session' = Encoded(pw)
  /\ UNCHANGED files
  /\ Tell(r, Told.keys, IF DOMAIN session.bags = {} THEN Told.password ELSE pw)

PasswordChanged(pw, r) ==
  /\ session' = Encoded(pw)
  /\ store(session', r)
  /\ Tell(r, Told.keys, IF DOMAIN session.bags = {} THEN Told.password ELSE pw)

CHANGE_PASSWORD ==
  /\ active = "open" /\ session.mode # "RO"
  /\ \E pw \in Passwords : EncodeFails(pw) \/ \E r \in Results : PasswordChanged(pw, r)
  /\ UNCHANGED <<providers, active, proxy, unused, created>>

-----------------------------------------------------------------------------
SessionNext ==
  \/ INIT \/ DEINIT \/ Crash
  \/ OPEN \/ CLOSE \/ SELECT_KEY \/ CREATE_KEY \/ DELETE_KEY \/ CHANGE_PASSWORD

SessionSpec == SessionInit /\ [][SessionNext]_sessionVars

-----------------------------------------------------------------------------
(* What SIGN would do: sign with the provider's selected key, for the      *)
(* paired certificate or else the one found with m_SelectedKeyId.          *)
CanSign ==
  /\ active = "open" /\ proxy.key /\ session.selected # NoKey
  /\ proxy.id # NoKey

Signer == [key |-> session.selected,
           cert |-> IF proxy.cert # NoKey THEN proxy.cert ELSE proxy.id]

-----------------------------------------------------------------------------
Known(f) == told[f] # Unknown /\ ~told[f].pending

(* Every variable has its type: a container written has a key, a session   *)
(* and the keys of the proxy are ones there may be.                        *)
SessionTypeOK ==
  /\ files \in [Files -> {Absent, Damaged} \cup {c \in Containers : DOMAIN c.bags # {}}]
  /\ providers \in BOOLEAN /\ active \in {"none", "open", "freed"}
  /\ session \in Sessions \cup {NoSession}
  /\ proxy \in [key : BOOLEAN, id : Keys \cup {NoKey}, cert : Keys \cup {NoKey}]
  /\ unused \subseteq Keys
  /\ told \in [Files -> {Unknown} \cup Answers]
  /\ created \in BOOLEAN

(* One storage is open at a time: a provider has a session exactly while   *)
(* it is the active storage, whatever has failed in OPEN, and none after   *)
(* DEINIT.  doc/UAPKI-PM-2.0.16.en.md:675 says so.                         *)
OneStorage == (session # NoSession) <=> (active = "open")

(* What the answers said of a storage is what its file has: the keys found *)
(* or created and not deleted, all of them encoded with the last password, *)
(* and no file if there are none.  It holds through CLOSE, DEINIT and the  *)
(* end of the process, unless an operation on the storage has failed.      *)
Durable ==
  \A f \in Files : Known(f) =>
    files[f] = IF told[f].keys = {} THEN Absent ELSE Container(told[f].keys, told[f].password)

(* The keys in memory, which KEYS lists and SELECT_KEY finds, are those in *)
(* the file, unless an operation has failed since OPEN.                    *)
ListedIsSaved ==
  session # NoSession /\ Known(session.file) =>
    DOMAIN session.bags = IF files[session.file] = Absent THEN {} ELSE DOMAIN files[session.file].bags

(* SIGN signs with the key of the signer's certificate it puts in the CMS, *)
(* after any SELECT_KEY, failed or not, and DELETE_KEY.  After CREATE_KEY  *)
(* it need not: the new key is selected, the identifier and certificate of *)
(* the one before stay.                                                    *)
SignerMatches == CanSign /\ ~created => Signer.key = Signer.cert

(* Neither the provider nor the proxy keeps a pointer to what was deleted: *)
(* the selected key is in the open storage, and no key is selected when    *)
(* the session, which has the key's functions, is gone.                    *)
NoDanglingKey ==
  /\ session # NoSession => session.selected \in DOMAIN session.bags \cup {NoKey}
  /\ session = NoSession => proxy = NothingSelected

(* A file changes only while it is open for writing. *)
OnlyWriterChanges ==
  [][\A f \in Files : files'[f] # files[f] =>
       session # NoSession /\ session.file = f /\ session.mode # "RO"]_sessionVars

(* A container written can be opened again, with the password of its MAC,  *)
(* even if writing has failed before, unless CHANGE_PASSWORD has failed in *)
(* the middle of its keys in this session.                                 *)
WrittenReadable ==
  [][\A f \in Files : files'[f] # files[f] /\ files'[f] \notin {Absent, Damaged} /\ ~session.halfway
       => Readable(files'[f], files'[f].mac)]_sessionVars
=============================================================================
