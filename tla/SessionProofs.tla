---------------------------- MODULE SessionProofs ----------------------------
(* What the dispatcher guarantees, for any finite set of threads, and what *)
(* the open storage, for any files, keys and passwords.  The methods that  *)
(* change the storage are serial: that they exclude each other is why      *)
(* module KeySession may take each of them as one step.                    *)
EXTENDS ApiDispatch, KeySession, FiniteSetTheorems, TLAPS

-----------------------------------------------------------------------------
(* The dispatcher *)

HoldsMutex == {"s_raise", "s_count", "s_run", "s_lower", "s_unlock"}
RaisedFlag == {"s_count", "s_run", "s_lower"}

(* The mutex is held exactly by the thread inside call_serial_method. *)
MutexOwner == \A t \in Threads : pc[t] \in HoldsMutex <=> api_mtx_serialmethod = t

(* The flag is up exactly while a thread is between raising and lowering it. *)
FlagOwner == api_serialmethod_is_running <=> \E t \in Threads : pc[t] \in RaisedFlag

IInv == TypeOK /\ MutexOwner /\ FlagOwner /\ CounterExact

-----------------------------------------------------------------------------
(* What leaving for another program point does to the set of threads at t_run. *)
LEMMA RunningFinite == IsFiniteSet(ThreadRunning) /\ Cardinality(ThreadRunning) \in Nat
<1>1. IsFiniteSet(ThreadRunning)
  BY ThreadsAssumption, FS_Subset DEF ThreadRunning, At
<1> QED
  BY <1>1, FS_CardinalityType

LEMMA RunningSame ==
  ASSUME TypeOK, NEW t \in Threads, NEW q \in Points \ {"t_run"},
         pc[t] # "t_run", pc' = [pc EXCEPT ![t] = q]
  PROVE  ThreadRunning' = ThreadRunning
BY DEF TypeOK, ThreadRunning, At

LEMMA RunningMore ==
  ASSUME TypeOK, NEW t \in Threads, Goto(t, "t_enter", "t_run")
  PROVE  Cardinality(ThreadRunning') = Cardinality(ThreadRunning) + 1
<1>1. ThreadRunning' = ThreadRunning \cup {t} /\ t \notin ThreadRunning
  BY DEF TypeOK, Goto, ThreadRunning, At
<1> QED
  BY <1>1, RunningFinite, FS_AddElement

LEMMA RunningLess ==
  ASSUME TypeOK, NEW t \in Threads, Goto(t, "t_run", "idle")
  PROVE  /\ Cardinality(ThreadRunning') = Cardinality(ThreadRunning) - 1
         /\ Cardinality(ThreadRunning) > 0
<1>1. ThreadRunning' = ThreadRunning \ {t} /\ t \in ThreadRunning
  BY DEF TypeOK, Goto, ThreadRunning, At
<1>2. Cardinality(ThreadRunning') = Cardinality(ThreadRunning) - 1
  BY <1>1, RunningFinite, FS_RemoveElement
<1>3. Cardinality(ThreadRunning) # 0
  BY <1>1, RunningFinite, FS_EmptySet
<1> QED
  BY <1>2, <1>3, RunningFinite

-----------------------------------------------------------------------------
LEMMA IInvInit == Init => IInv
<1> SUFFICES ASSUME Init PROVE IInv
  OBVIOUS
<1>1. TypeOK
  BY DEF Init, TypeOK, Points
<1>2. MutexOwner /\ FlagOwner
  BY ThreadsAssumption DEF Init, MutexOwner, FlagOwner, HoldsMutex, RaisedFlag
<1>3. ThreadRunning = {}
  BY DEF Init, ThreadRunning, At
<1>4. CounterExact
  BY <1>3, FS_EmptySet DEF Init, CounterExact
<1> QED
  BY <1>1, <1>2, <1>4 DEF IInv

LEMMA IInvNext == IInv /\ [Next]_vars => IInv'
<1> SUFFICES ASSUME IInv, [Next]_vars PROVE IInv'
  OBVIOUS
<1> USE ThreadsAssumption DEF IInv
<1>0. CASE UNCHANGED vars
  BY <1>0 DEF vars, TypeOK, MutexOwner, FlagOwner, CounterExact, ThreadRunning, At
<1>1. ASSUME NEW t \in Threads, process(t) \/ Step(t) PROVE IInv'
  <2>1. TypeOK'
    <3>1. CASE ThreadEnter(t)
      BY <3>1 DEF TypeOK, ThreadEnter, Goto, Points, ThreadPoints
    <3>2. CASE ThreadLeave(t)
      <4>1. api_counter_methods - 1 \in Nat
        BY <3>2, RunningLess, RunningFinite DEF ThreadLeave, CounterExact
      <4> QED
        BY <3>2, <4>1 DEF TypeOK, ThreadLeave, Goto, Points
    <3>3. CASE process(t) \/ call_serial_method(t) \/ ThreadSample(t) \/ StaticReturn(t)
      BY <3>3 DEF TypeOK, process, call_serial_method, ThreadSample, StaticReturn, SerialLock, SerialRaise,
         SerialCount, SerialReturn, SerialLower, SerialUnlock, Goto, Points, SerialPoints, ThreadPoints
    <3> QED
      BY <1>1, <3>1, <3>2, <3>3 DEF Step, call_thread_method, call_static_method
  <2>2. MutexOwner' /\ FlagOwner'
    <3> USE DEF MutexOwner, FlagOwner, HoldsMutex, RaisedFlag, Goto
    <3>1. CASE process(t)
      BY <3>1 DEF TypeOK, process
    <3>2. CASE SerialLock(t)
      BY <3>2 DEF TypeOK, SerialLock
    <3>3. CASE SerialRaise(t)
      BY <3>3 DEF TypeOK, SerialRaise
    <3>4. CASE SerialCount(t)
      BY <3>4 DEF TypeOK, SerialCount
    <3>5. CASE SerialReturn(t)
      BY <3>5 DEF TypeOK, SerialReturn
    <3>6. CASE SerialLower(t)
      BY <3>6 DEF TypeOK, SerialLower
    <3>7. CASE SerialUnlock(t)
      BY <3>7 DEF TypeOK, SerialUnlock
    <3>8. CASE call_thread_method(t)
      BY <3>8 DEF TypeOK, call_thread_method, ThreadSample, ThreadEnter, ThreadLeave
    <3>9. CASE StaticReturn(t)
      BY <3>9 DEF TypeOK, StaticReturn
    <3> QED
      BY <1>1, <3>1, <3>2, <3>3, <3>4, <3>5, <3>6, <3>7, <3>8, <3>9
      DEF Step, call_serial_method, call_static_method
  <2>3. CounterExact'
    <3>1. CASE ThreadEnter(t)
      BY <3>1, RunningMore, RunningFinite DEF ThreadEnter, CounterExact
    <3>2. CASE ThreadLeave(t)
      BY <3>2, RunningLess, RunningFinite DEF ThreadLeave, CounterExact
    <3>3. CASE process(t) \/ call_serial_method(t) \/ ThreadSample(t) \/ StaticReturn(t)
      <4>1. PICK q \in Points \ {"t_run"} : pc[t] # "t_run" /\ pc' = [pc EXCEPT ![t] = q]
        BY <3>3 DEF process, call_serial_method, ThreadSample, StaticReturn, SerialLock, SerialRaise,
           SerialCount, SerialReturn, SerialLower, SerialUnlock, Goto, Points, SerialPoints, ThreadPoints
      <4>2. ThreadRunning' = ThreadRunning
        BY <4>1, RunningSame
      <4>3. api_counter_methods' = api_counter_methods
        BY <3>3 DEF process, call_serial_method, ThreadSample, StaticReturn, SerialLock, SerialRaise,
           SerialCount, SerialReturn, SerialLower, SerialUnlock
      <4> QED
        BY <4>2, <4>3 DEF CounterExact
    <3> QED
      BY <1>1, <3>1, <3>2, <3>3 DEF Step, call_thread_method, call_static_method
  <2> QED
    BY <2>1, <2>2, <2>3
<1> QED
  BY <1>0, <1>1 DEF Next

LEMMA Invariance == Spec => []IInv
BY IInvInit, IInvNext, PTL DEF Spec

-----------------------------------------------------------------------------
(* The dispatcher's variables keep their types; in particular the unsigned *)
(* counter is never decremented below zero.                                *)
THEOREM TypeCorrect == Spec => []TypeOK
BY Invariance, PTL DEF IInv

(* The counter is at all times the number of MT methods in progress: the   *)
(* loop of call_serial_method waits for nobody else and forgets nobody.    *)
THEOREM CounterCorrect == Spec => []CounterExact
BY Invariance, PTL DEF IInv

(* Two ST methods never overlap, whatever the number of threads. *)
THEOREM SerialMethodsExclude == Spec => []SerialAlone
<1>1. IInv => SerialAlone
  <2> SUFFICES ASSUME IInv PROVE SerialAlone
    OBVIOUS
  <2>1. \A s, t \in SerialRunning : s = t
    BY DEF IInv, MutexOwner, HoldsMutex, SerialRunning, At
  <2>2. SerialRunning = {} \/ \E t \in Threads : SerialRunning = {t}
    BY <2>1 DEF SerialRunning, At
  <2>3. Cardinality(SerialRunning) <= 1
    <3>1. CASE SerialRunning = {}
      BY <3>1, FS_EmptySet
    <3>2. ASSUME NEW t \in Threads, SerialRunning = {t} PROVE Cardinality(SerialRunning) <= 1
      <4>1. Cardinality(SerialRunning) = 1
        BY <3>2, FS_Singleton
      <4> QED
        BY <4>1
    <3> QED
      BY <2>2, <3>1, <3>2
  <2>4. SerialRunning # {} => api_serialmethod_is_running
    BY DEF IInv, FlagOwner, RaisedFlag, SerialRunning, At
  <2> QED
    BY <2>3, <2>4 DEF SerialAlone
<1> QED
  BY <1>1, Invariance, PTL

(* Once the flag is up no further MT method is admitted until it is        *)
(* lowered.                                                                *)
THEOREM RaisedFlagAdmitsNobody == Spec => GateHolds
<1> DEFINE Holds == api_serialmethod_is_running /\ api_serialmethod_is_running' =>
             \A t \in Threads : pc'[t] \in {"t_enter", "t_run"} => pc[t] \in {"t_enter", "t_run"}
<1>1. TypeOK /\ Next => Holds
  BY DEF TypeOK, Next, Step, process, call_serial_method, call_thread_method, call_static_method, Goto,
     SerialLock, SerialRaise, SerialCount, SerialReturn, SerialLower, SerialUnlock,
     ThreadSample, ThreadEnter, ThreadLeave, StaticReturn
<1>2. TypeOK /\ [Next]_vars => [Holds]_vars
  BY <1>1
<1> QED
  BY <1>2, TypeCorrect, PTL DEF Spec, GateHolds

(* An ST method starts only when no MT method is in progress. *)
THEOREM SerialStartsQuiet == Spec => StartsQuiet
<1> DEFINE Quiet == \A t \in Threads : pc[t] # "s_run" /\ pc'[t] = "s_run" => ThreadRunning = {}
<1>1. ASSUME IInv, Next PROVE Quiet
  <2> SUFFICES ASSUME NEW t \in Threads, pc[t] # "s_run", pc'[t] = "s_run" PROVE ThreadRunning = {}
    OBVIOUS
  <2>1. SerialCount(t)
    BY <1>1 DEF IInv, TypeOK, Next, Step, process, call_serial_method, call_thread_method, call_static_method,
       Goto, SerialLock, SerialRaise, SerialCount, SerialReturn, SerialLower, SerialUnlock,
       ThreadSample, ThreadEnter, ThreadLeave, StaticReturn
  <2>2. Cardinality(ThreadRunning) = 0
    BY <1>1, <2>1 DEF IInv, CounterExact, SerialCount
  <2> QED
    BY <2>2, RunningFinite, FS_EmptySet
<1>2. IInv /\ [Next]_vars => [Quiet]_vars
  BY <1>1
<1> QED
  BY <1>2, Invariance, PTL DEF Spec, StartsQuiet

-----------------------------------------------------------------------------
(* The dispatcher implements ApiGate: every atomic access to the mutex, the *)
(* flag or the counter is a step of the gate or leaves it as it is.         *)
THEOREM DispatchImplementsGate == Spec => ImplementsGate
<1> DEFINE gate == IF api_serialmethod_is_running THEN api_mtx_serialmethod ELSE NoThread
           serial == SerialRunning # {}
           admitted == At({"t_enter"})
           entered == ThreadRunning
<1> USE DEF Gate!vars
<1>1. Init => Gate!Init
  BY DEF Init, Gate!Init, SerialRunning, ThreadRunning, At
<1>2. IInv /\ [Next]_vars => [Gate!Next]_(Gate!vars)
  <2> SUFFICES ASSUME IInv, [Next]_vars PROVE [Gate!Next]_(Gate!vars)
    OBVIOUS
  <2> USE DEF SerialRunning, ThreadRunning, At
  <2>0. CASE UNCHANGED vars
    BY <2>0 DEF vars
  <2>1. ASSUME NEW t \in Threads, process(t) \/ Step(t) PROVE [Gate!Next]_(Gate!vars)
    <3> USE DEF IInv, TypeOK, MutexOwner, FlagOwner, HoldsMutex, RaisedFlag, Goto
    <3>1. CASE process(t)
      BY <3>1 DEF process
    <3>2. CASE SerialLock(t)
      <4>1. ~api_serialmethod_is_running /\ ~api_serialmethod_is_running'
        BY <3>2, ThreadsAssumption DEF SerialLock
      <4>2. UNCHANGED <<gate, serial, admitted, entered>>
        BY <3>2, <4>1 DEF SerialLock
      <4> QED
        BY <4>2
    <3>3. CASE SerialRaise(t)
      <4>1. Gate!Close(t)
        BY <3>3 DEF SerialRaise, Gate!Close
      <4> QED
        BY <4>1 DEF Gate!Next
    <3>4. CASE SerialCount(t)
      <4>1. Gate!Start(t)
        <5>1. entered = {}
          BY <3>4, RunningFinite, FS_EmptySet DEF SerialCount, CounterExact
        <5> QED
          BY <3>4, <5>1 DEF SerialCount, Gate!Start
      <4> QED
        BY <4>1 DEF Gate!Next
    <3>5. CASE SerialReturn(t)
      BY <3>5 DEF SerialReturn
    <3>6. CASE SerialLower(t)
      <4>1. Gate!Open(t)
        BY <3>6 DEF SerialLower, Gate!Open
      <4> QED
        BY <4>1 DEF Gate!Next
    <3>7. CASE SerialUnlock(t)
      BY <3>7 DEF SerialUnlock
    <3>8. CASE ThreadSample(t)
      <4>1. Gate!Admit(t)
        BY <3>8 DEF ThreadSample, Gate!Admit
      <4> QED
        BY <4>1 DEF Gate!Next
    <3>9. CASE ThreadEnter(t)
      <4>1. Gate!Enter(t)
        BY <3>9 DEF ThreadEnter, Gate!Enter
      <4> QED
        BY <4>1 DEF Gate!Next
    <3>10. CASE ThreadLeave(t)
      <4>1. Gate!Leave(t)
        BY <3>10 DEF ThreadLeave, Gate!Leave
      <4> QED
        BY <4>1 DEF Gate!Next
    <3>11. CASE StaticReturn(t)
      BY <3>11 DEF StaticReturn
    <3> QED
      BY <2>1, <3>1, <3>2, <3>3, <3>4, <3>5, <3>6, <3>7, <3>8, <3>9, <3>10, <3>11
      DEF Step, call_serial_method, call_thread_method, call_static_method
  <2> QED
    BY <2>0, <2>1 DEF Next
<1> QED
  BY <1>1, <1>2, Invariance, PTL DEF Spec, Gate!Spec, ImplementsGate

-----------------------------------------------------------------------------
(* The open storage and the selected key *)

(* The proxy's identifier and certificate are the selected key's. *)
PairedRight ==
  proxy.key /\ ~created /\ session # NoSession /\ session.selected # NoKey =>
    proxy.id = session.selected /\ proxy.cert \in {NoKey, session.selected}

(* While no operation has failed, memory has what the answers said. *)
MemoryAsTold ==
  session # NoSession /\ told[session.file] # Unknown =>
    /\ session.password = told[session.file].password
    /\ session.bags = Container(told[session.file].keys, session.password).bags

(* Unless encoding has failed, the bags have the session's password. *)
MemoryReadable ==
  session # NoSession /\ ~session.halfway =>
    session.bags = Container(DOMAIN session.bags, session.password).bags

Base == SessionTypeOK /\ OneStorage

SessionInv == Base /\ NoDanglingKey /\ PairedRight /\ MemoryAsTold /\ MemoryReadable /\ Durable

-----------------------------------------------------------------------------
LEMMA BagsMember ==
  ASSUME NEW V, NEW b, DOMAIN b \subseteq Keys, b \in [DOMAIN b -> V]
  PROVE  b \in Bags(V)
BY DEF Bags

LEMMA BagsDomain ==
  ASSUME NEW V, NEW b \in Bags(V)
  PROVE  DOMAIN b \in SUBSET Keys /\ b \in [DOMAIN b -> V]
BY DEF Bags

LEMMA ContainerType ==
  ASSUME NEW ks \in SUBSET Keys, NEW pw \in Passwords
  PROVE  /\ Container(ks, pw) \in Containers
         /\ Container(ks, pw).bags \in Bags(Passwords)
         /\ DOMAIN Container(ks, pw).bags = ks
<1>1. [k \in ks |-> pw] \in Bags(Passwords)
  BY BagsMember
<1> QED
  BY <1>1 DEF Container, Containers

-----------------------------------------------------------------------------
(* The provider's session has its type whatever is done to it. *)
LEMMA SessionOpened ==
  ASSUME SessionTypeOK, NEW f \in Files, NEW mode \in {"RW", "RO", "CREATE"}, NEW pw \in Passwords,
         mode # "CREATE" => files[f] \notin {Absent, Damaged}
  PROVE  storageOpen(f, mode, pw) \in Sessions
<1>1. Container({}, pw).bags \in Bags(Passwords)
  BY ContainerType
<1>2. mode # "CREATE" => files[f].bags \in Bags(Passwords)
  BY DEF SessionTypeOK, Containers
<1>3. Bags(Passwords) \subseteq Bags(Passwords \cup {"cleared"})
  BY DEF Bags
<1> QED
  BY <1>1, <1>2, <1>3 DEF storageOpen, Sessions

LEMMA SessionSelected ==
  ASSUME NEW s \in Sessions, NEW k \in Keys \cup {NoKey}
  PROVE  [s EXCEPT !.selected = k] \in Sessions
BY DEF Sessions

LEMMA SessionAdded ==
  ASSUME NEW s \in Sessions, NEW k \in Keys
  PROVE  /\ AddBag(s, k) \in Sessions
         /\ DOMAIN AddBag(s, k).bags = DOMAIN s.bags \cup {k}
<1> DEFINE b == [x \in DOMAIN s.bags \cup {k} |-> IF x = k THEN s.password ELSE s.bags[x]]
<1>1. DOMAIN s.bags \in SUBSET Keys /\ s.bags \in [DOMAIN s.bags -> Passwords \cup {"cleared"}]
  BY BagsDomain DEF Sessions
<1>2. s.password \in Passwords
  BY DEF Sessions
<1>3. b \in Bags(Passwords \cup {"cleared"})
  BY <1>1, <1>2, BagsMember
<1> QED
  BY <1>3 DEF AddBag, Sessions

LEMMA SessionDeleted ==
  ASSUME NEW s \in Sessions, NEW k \in Keys
  PROVE  /\ DeleteBag(s, k) \in Sessions
         /\ DOMAIN DeleteBag(s, k).bags = DOMAIN s.bags \ {k}
<1> DEFINE b == [x \in DOMAIN s.bags \ {k} |-> s.bags[x]]
<1>1. DOMAIN s.bags \in SUBSET Keys /\ s.bags \in [DOMAIN s.bags -> Passwords \cup {"cleared"}]
  BY BagsDomain DEF Sessions
<1>2. b \in Bags(Passwords \cup {"cleared"})
  BY <1>1, BagsMember
<1> QED
  BY <1>2 DEF DeleteBag, Sessions

LEMMA SessionEncoded ==
  ASSUME session \in Sessions, NEW pw \in Passwords
  PROVE  /\ Encoded(pw) \in Sessions
         /\ DOMAIN Encoded(pw).bags = DOMAIN session.bags
<1> DEFINE b == [x \in DOMAIN session.bags |-> pw]
<1>1. DOMAIN session.bags \in SUBSET Keys
  BY BagsDomain DEF Sessions
<1>2. b \in Bags(Passwords \cup {"cleared"})
  BY <1>1, BagsMember
<1> QED
  BY <1>2 DEF Encoded, Sessions

LEMMA SessionHalfway ==
  ASSUME session \in Sessions, NEW pw \in Passwords, EncodeFails(pw)
  PROVE  /\ session' \in Sessions
         /\ DOMAIN session'.bags = DOMAIN session.bags
<1>1. PICK k \in DOMAIN session.bags : \E done \in SUBSET (DOMAIN session.bags \ {k}) :
        session' = [session EXCEPT !.halfway = TRUE,
                      !.bags = [x \in DOMAIN @ |-> CASE x = k -> "cleared"
                                                     [] x \in done -> pw
                                                     [] OTHER -> @[x]]]
  BY DEF EncodeFails
<1>2. PICK done \in SUBSET (DOMAIN session.bags \ {k}) :
        session' = [session EXCEPT !.halfway = TRUE,
                      !.bags = [x \in DOMAIN @ |-> CASE x = k -> "cleared"
                                                     [] x \in done -> pw
                                                     [] OTHER -> @[x]]]
  BY <1>1
<1> DEFINE b == [x \in DOMAIN session.bags |-> CASE x = k -> "cleared"
                                                 [] x \in done -> pw
                                                 [] OTHER -> session.bags[x]]
<1>3. DOMAIN session.bags \in SUBSET Keys
      /\ session.bags \in [DOMAIN session.bags -> Passwords \cup {"cleared"}]
  BY BagsDomain DEF Sessions
<1>4. b \in Bags(Passwords \cup {"cleared"})
  BY <1>3, BagsMember
<1> QED
  BY <1>2, <1>4 DEF Sessions

-----------------------------------------------------------------------------
(* What store() leaves in the file of the session it stores. *)
Written(s) == [bags |-> s.bags, mac |-> s.password]

LEMMA StoreShape ==
  ASSUME SessionTypeOK, NEW s \in Sessions, NEW r \in Results, store(s, r)
  PROVE  \E c \in {files[s.file], Absent, Damaged, Written(s)} :
           /\ files' = [files EXCEPT ![s.file] = c]
           /\ r = "ok" => c = IF DOMAIN s.bags = {} THEN Absent ELSE Written(s)
           /\ \/ c \in {files[s.file], Absent, Damaged}
              \/ DOMAIN s.bags # {} /\ EncodesBags(s)
<1>1. CASE DOMAIN s.bags = {}
  BY <1>1 DEF store, Results
<1>2. CASE DOMAIN s.bags # {} /\ r = "ok"
  BY <1>2 DEF store, Written
<1>3. CASE DOMAIN s.bags # {} /\ r = "error"
  <2>1. files' = [files EXCEPT ![s.file] = files[s.file]]
    BY <1>3 DEF store
  <2> QED
    BY <1>3, <2>1
<1>4. CASE DOMAIN s.bags # {} /\ r = "damaged"
  <2>1. files' = [files EXCEPT ![s.file] = Damaged]
    BY <1>4 DEF store
  <2> QED
    BY <1>4, <2>1
<1> QED
  BY <1>1, <1>2, <1>3, <1>4 DEF Results

LEMMA WrittenType ==
  ASSUME NEW s \in Sessions, EncodesBags(s)
  PROVE  Written(s) \in Containers
<1>1. DOMAIN s.bags \in SUBSET Keys /\ s.bags \in [DOMAIN s.bags -> Passwords \cup {"cleared"}]
  BY BagsDomain DEF Sessions
<1>2. s.bags \in [DOMAIN s.bags -> Passwords]
  BY <1>1 DEF EncodesBags
<1>3. s.bags \in Bags(Passwords)
  BY <1>1, <1>2, BagsMember
<1> QED
  BY <1>3 DEF Written, Containers, Sessions

FileContents == {Absent, Damaged} \cup {c \in Containers : DOMAIN c.bags # {}}

LEMMA StoreType ==
  ASSUME SessionTypeOK, NEW s \in Sessions, NEW r \in Results, store(s, r)
  PROVE  files' \in [Files -> FileContents]
<1>1. PICK c \in {files[s.file], Absent, Damaged, Written(s)} :
        /\ files' = [files EXCEPT ![s.file] = c]
        /\ \/ c \in {files[s.file], Absent, Damaged}
           \/ DOMAIN s.bags # {} /\ EncodesBags(s)
  BY StoreShape
<1>2. files \in [Files -> FileContents] /\ s.file \in Files
  BY DEF SessionTypeOK, FileContents, Sessions
<1>3. c \in FileContents
  BY <1>1, <1>2, WrittenType DEF FileContents, Written
<1> QED
  BY <1>1, <1>2, <1>3

LEMMA TellType ==
  ASSUME SessionTypeOK, session # NoSession, NEW r, NEW ks \in SUBSET Keys, NEW pw \in Passwords,
         Tell(r, ks, pw)
  PROVE  told' \in [Files -> {Unknown} \cup Answers]
BY DEF SessionTypeOK, Tell, Answers

LEMMA ToldType ==
  ASSUME SessionTypeOK, session # NoSession
  PROVE  Told.keys \in SUBSET Keys /\ Told.password \in Passwords
<1>1. session \in Sessions
  BY DEF SessionTypeOK
<1>2. session.file \in Files /\ session.password \in Passwords
  BY <1>1 DEF Sessions
<1> QED
  BY <1>2 DEF SessionTypeOK, Told, Answers

-----------------------------------------------------------------------------
(* Types, and one storage at a time. *)
LEMMA BaseInit == SessionInit => Base
<1> SUFFICES ASSUME SessionInit PROVE Base
  OBVIOUS
<1>1. \A ks \in (SUBSET Keys) \ {{}}, pw \in Passwords : Container(ks, pw) \in FileContents
  BY ContainerType DEF FileContents
<1>2. files \in [Files -> FileContents]
  BY <1>1 DEF SessionInit, FileContents
<1>3. told \in [Files -> {Unknown} \cup Answers]
  BY DEF SessionInit
<1> QED
  BY <1>2, <1>3 DEF SessionInit, Base, SessionTypeOK, OneStorage, NothingSelected, FileContents

LEMMA BaseNext == Base /\ [SessionNext]_sessionVars => Base'
<1> SUFFICES ASSUME Base, [SessionNext]_sessionVars PROVE Base'
  OBVIOUS
<1> USE NamesAssumption DEF Base
<1>0. CASE UNCHANGED sessionVars
  BY <1>0 DEF sessionVars, history, SessionTypeOK, OneStorage
<1>1. CASE INIT
  BY <1>1 DEF INIT, history, SessionTypeOK, OneStorage
<1>2. CASE DEINIT
  BY <1>2 DEF DEINIT, history, SessionTypeOK, OneStorage, NothingSelected
<1>3. CASE Crash
  <2>1. session \in Sessions \/ session = NoSession
    BY DEF SessionTypeOK
  <2>2. files' \in [Files -> FileContents] /\ told' \in [Files -> {Unknown} \cup Answers]
    <3>1. CASE UNCHANGED <<files, told>>
      BY <3>1 DEF SessionTypeOK, FileContents
    <3>2. CASE /\ files' = [files EXCEPT ![session.file] = Damaged]
               /\ told' = [told EXCEPT ![session.file] = Unknown]
      BY <3>2 DEF SessionTypeOK, FileContents
    <3> QED
      BY <1>3, <3>1, <3>2 DEF Crash
  <2> QED
    BY <1>3, <2>2 DEF Crash, SessionTypeOK, OneStorage, NothingSelected, FileContents
<1>4. CASE OPEN
  <2>1. PICK f \in Files, mode \in {"RW", "RO", "CREATE"}, pw \in Passwords :
          /\ mode # "CREATE" => files[f] # Absent
          /\ Opened(f, mode, pw) \/ OpenFails(f, mode, pw)
    BY <1>4 DEF OPEN
  <2>2. CASE Opened(f, mode, pw)
    <3>1. session' = storageOpen(f, mode, pw) /\ session' \in Sessions
      BY <2>1, <2>2, SessionOpened DEF Opened, sessionLogin
    <3>2. DOMAIN session'.bags \in SUBSET Keys
      BY <3>1, BagsDomain DEF Sessions
    <3>3. told' \in [Files -> {Unknown} \cup Answers]
      BY <2>2, <3>2 DEF Opened, SessionTypeOK, Answers
    <3> QED
      BY <1>4, <2>2, <3>1, <3>3 DEF OPEN, Opened, SessionTypeOK, OneStorage
  <2>3. CASE OpenFails(f, mode, pw)
    BY <1>4, <2>3 DEF OPEN, OpenFails, history, SessionTypeOK, OneStorage
  <2> QED
    BY <2>1, <2>2, <2>3
<1>5. CASE CLOSE
  BY <1>5 DEF CLOSE, SessionTypeOK, OneStorage, NothingSelected
<1>6. ASSUME active = "open" PROVE session \in Sessions
  BY <1>6 DEF SessionTypeOK, OneStorage
<1>7. CASE SELECT_KEY
  <2>1. PICK k \in Keys : SelectFails(k) \/ Selected(k)
    BY <1>7 DEF SELECT_KEY
  <2>2. \E l \in Keys \cup {NoKey} : session' = [session EXCEPT !.selected = l]
    BY <2>1 DEF SelectFails, Selected
  <2>3. session' \in Sessions
    BY <1>6, <1>7, <2>2, SessionSelected DEF SELECT_KEY
  <2>4. proxy' \in [key : BOOLEAN, id : Keys \cup {NoKey}, cert : Keys \cup {NoKey}]
    <3>1. CASE SelectFails(k)
      BY <3>1 DEF SelectFails, deselectKey, NothingSelected
    <3>2. CASE Selected(k)
      BY <3>2 DEF Selected, deselectKey, NothingSelected
    <3> QED
      BY <2>1, <3>1, <3>2
  <2> QED
    BY <1>7, <2>3, <2>4 DEF SELECT_KEY, SessionTypeOK, OneStorage
<1>8. CASE CREATE_KEY
  <2>1. CASE CreateFails
    BY <1>8, <2>1 DEF CREATE_KEY, CreateFails, SessionTypeOK, OneStorage
  <2>2. CASE \E k \in unused, r \in Results : Created(k, r)
    <3>1. PICK k \in unused, r \in Results : Created(k, r)
      BY <2>2
    <3>2. session \in Sessions /\ k \in Keys /\ session # NoSession
      BY <1>6, <1>8 DEF CREATE_KEY, SessionTypeOK
    <3>3. session' \in Sessions
      BY <3>1, <3>2, SessionAdded DEF Created
    <3>4. files' \in [Files -> FileContents]
      BY <3>1, <3>3, StoreType DEF Created
    <3>5. PICK answer : Tell(answer, Told.keys \cup {k}, Told.password)
      BY <3>1 DEF Created
    <3>6. told' \in [Files -> {Unknown} \cup Answers]
      BY <3>2, <3>5, ToldType, TellType
    <3> QED
      BY <1>8, <3>1, <3>3, <3>4, <3>6 DEF CREATE_KEY, Created, SessionTypeOK, OneStorage, FileContents
  <2> QED
    BY <1>8, <2>1, <2>2 DEF CREATE_KEY
<1>9. CASE DELETE_KEY
  <2>1. PICK k \in DOMAIN session.bags, r \in Results : DeletedKey(k, r)
    BY <1>9 DEF DELETE_KEY
  <2>2. session \in Sessions /\ session # NoSession
    BY <1>6, <1>9 DEF DELETE_KEY
  <2>3. DOMAIN session.bags \in SUBSET Keys
    BY <2>2, BagsDomain DEF Sessions
  <2>6. session' \in Sessions
    BY <2>1, <2>2, <2>3, SessionDeleted DEF DeletedKey
  <2>4. files' \in [Files -> FileContents]
    BY <2>1, <2>6, StoreType DEF DeletedKey
  <2>5. told' \in [Files -> {Unknown} \cup Answers]
    BY <2>1, <2>2, ToldType, TellType DEF DeletedKey
  <2> QED
    BY <1>9, <2>4, <2>5, <2>6 DEF DELETE_KEY, SessionTypeOK, OneStorage, FileContents
<1>10. CASE CHANGE_PASSWORD
  <2>1. PICK pw \in Passwords : EncodeFails(pw) \/ \E r \in Results : PasswordChanged(pw, r)
    BY <1>10 DEF CHANGE_PASSWORD
  <2>2. session \in Sessions /\ session # NoSession
    BY <1>6, <1>10 DEF CHANGE_PASSWORD
  <2>3. session' \in Sessions
    BY <2>1, <2>2, SessionHalfway, SessionEncoded DEF PasswordChanged
  <2>4. files' \in [Files -> FileContents]
    <3>1. CASE EncodeFails(pw)
      BY <3>1 DEF EncodeFails, SessionTypeOK, FileContents
    <3>2. ASSUME NEW r \in Results, PasswordChanged(pw, r) PROVE files' \in [Files -> FileContents]
      BY <2>3, <3>2, StoreType DEF PasswordChanged
    <3> QED
      BY <2>1, <3>1, <3>2
  <2>5. told' \in [Files -> {Unknown} \cup Answers]
    <3>1. CASE EncodeFails(pw)
      BY <2>2, <3>1, TellType DEF EncodeFails
    <3>2. ASSUME NEW r \in Results, PasswordChanged(pw, r)
          PROVE  told' \in [Files -> {Unknown} \cup Answers]
      <4>1. CASE DOMAIN session.bags = {}
        BY <2>2, <3>2, <4>1, ToldType, TellType DEF PasswordChanged
      <4>2. CASE DOMAIN session.bags # {}
        BY <2>2, <3>2, <4>2, ToldType, TellType DEF PasswordChanged
      <4> QED
        BY <4>1, <4>2
    <3> QED
      BY <2>1, <3>1, <3>2
  <2> QED
    BY <1>10, <2>3, <2>4, <2>5 DEF CHANGE_PASSWORD, SessionTypeOK, OneStorage, FileContents
<1> QED
  BY <1>0, <1>1, <1>2, <1>3, <1>4, <1>5, <1>7, <1>8, <1>9, <1>10 DEF SessionNext

-----------------------------------------------------------------------------
(* What is selected.  The proxy tells the provider of every deselection    *)
(* but that of a deleted key, and the provider never tells the proxy:      *)
(* between them the identifier is right while both point to a key.         *)
Pointers == NoDanglingKey /\ PairedRight

LEMMA PointersNext == Base /\ Pointers /\ [SessionNext]_sessionVars => Pointers'
<1> SUFFICES ASSUME Base, Pointers, [SessionNext]_sessionVars PROVE Pointers'
  OBVIOUS
<1> USE NamesAssumption DEF Pointers
<1>0. CASE UNCHANGED sessionVars
  BY <1>0 DEF sessionVars, history, NoDanglingKey, PairedRight
<1>1. CASE INIT
  BY <1>1 DEF INIT, history, NoDanglingKey, PairedRight
<1>2. CASE DEINIT \/ Crash \/ CLOSE
  BY <1>2 DEF DEINIT, Crash, CLOSE, NoDanglingKey, PairedRight
<1>3. CASE OPEN
  <2>1. session = NoSession /\ proxy = NothingSelected /\ proxy' = proxy
    BY <1>3 DEF OPEN, Base, OneStorage, NoDanglingKey
  <2>2. session' = NoSession \/ session'.selected = NoKey
    BY <1>3 DEF OPEN, Opened, OpenFails, storageOpen
  <2> QED
    BY <2>1, <2>2 DEF NoDanglingKey, PairedRight
<1>4. ASSUME active = "open" PROVE session \in Sessions /\ session # NoSession
  BY <1>4 DEF Base, SessionTypeOK, OneStorage
<1>5. ASSUME active = "open" PROVE session.selected \in DOMAIN session.bags \cup {NoKey}
  BY <1>4, <1>5 DEF NoDanglingKey
<1>6. ASSUME active' = "open" PROVE session' # NoSession
  BY <1>6, BaseNext DEF Base, OneStorage
<1>7. CASE SELECT_KEY
  <2>1. PICK k \in Keys : SelectFails(k) \/ Selected(k)
    BY <1>7 DEF SELECT_KEY
  <2>2. session \in Sessions /\ session' # NoSession
    BY <1>4, <1>6, <1>7 DEF SELECT_KEY
  <2>3. CASE SelectFails(k)
    <3>1. session'.selected \in {k, NoKey} /\ session'.bags = session.bags
          /\ (session'.selected = k => k \in DOMAIN session.bags \/ k = NoKey)
      BY <2>2, <2>3 DEF SelectFails, Found, Sessions
    <3> QED
      BY <2>2, <2>3, <3>1 DEF SelectFails, deselectKey, NothingSelected, NoDanglingKey, PairedRight
  <2>4. CASE Selected(k)
    <3>1. session'.selected = k /\ session'.bags = session.bags /\ k \in DOMAIN session.bags
      BY <2>2, <2>4 DEF Selected, Found, Sessions
    <3>2. proxy'.id = k /\ proxy'.cert \in {NoKey, k}
      BY <2>4 DEF Selected, deselectKey, NothingSelected
    <3> QED
      BY <2>2, <3>1, <3>2 DEF NoDanglingKey, PairedRight
  <2> QED
    BY <2>1, <2>3, <2>4
<1>8. CASE CREATE_KEY
  <2>1. session \in Sessions /\ session # NoSession /\ session' # NoSession
    BY <1>4, <1>6, <1>8 DEF CREATE_KEY
  <2>2. CASE CreateFails
    BY <1>8, <2>1, <2>2 DEF CreateFails, Base, SessionTypeOK, NoDanglingKey, PairedRight
  <2>3. CASE \E k \in unused, r \in Results : Created(k, r)
    <3>1. PICK k \in unused : session' = AddBag(session, k)
      BY <2>3 DEF Created
    <3>2. k \in DOMAIN session'.bags /\ session'.selected = k
      BY <2>1, <3>1, SessionAdded DEF Base, SessionTypeOK, AddBag, Sessions
    <3> QED
      BY <2>1, <2>3, <3>2 DEF Created, NoDanglingKey, PairedRight
  <2> QED
    BY <1>8, <2>2, <2>3 DEF CREATE_KEY
<1>9. CASE DELETE_KEY
  <2>1. session \in Sessions /\ session # NoSession /\ session' # NoSession
    BY <1>4, <1>6, <1>9 DEF DELETE_KEY
  <2>2. PICK k \in DOMAIN session.bags : session' = DeleteBag(session, k)
    BY <1>9 DEF DELETE_KEY, DeletedKey
  <2>3. DOMAIN session'.bags = DOMAIN session.bags \ {k}
        /\ session'.selected = IF session.selected = k THEN NoKey ELSE session.selected
    BY <2>1, <2>2 DEF DeleteBag, Sessions
  <2>4. session.selected \in DOMAIN session.bags \cup {NoKey}
    BY <1>5, <1>9 DEF DELETE_KEY
  <2>5. session'.selected \in DOMAIN session'.bags \cup {NoKey}
        /\ session'.selected \in {session.selected, NoKey}
    BY <2>3, <2>4
  <2> QED
    BY <1>9, <2>1, <2>5 DEF DELETE_KEY, NoDanglingKey, PairedRight
<1>10. CASE CHANGE_PASSWORD
  <2>1. session \in Sessions /\ session # NoSession /\ session' # NoSession
    BY <1>4, <1>6, <1>10 DEF CHANGE_PASSWORD
  <2>2. PICK pw \in Passwords : EncodeFails(pw) \/ \E r \in Results : PasswordChanged(pw, r)
    BY <1>10 DEF CHANGE_PASSWORD
  <2>3. DOMAIN session'.bags = DOMAIN session.bags
    BY <2>1, <2>2, SessionHalfway, SessionEncoded DEF PasswordChanged
  <2>4. session'.selected = session.selected
    <3>1. CASE EncodeFails(pw)
      BY <2>1, <3>1 DEF EncodeFails, Sessions
    <3>2. CASE session' = Encoded(pw)
      BY <2>1, <3>2 DEF Encoded, Sessions
    <3> QED
      BY <2>2, <3>1, <3>2 DEF PasswordChanged
  <2>5. session'.selected \in DOMAIN session'.bags \cup {NoKey}
    BY <1>5, <1>10, <2>3, <2>4 DEF CHANGE_PASSWORD
  <2> QED
    BY <1>10, <2>1, <2>4, <2>5 DEF CHANGE_PASSWORD, NoDanglingKey, PairedRight
<1> QED
  BY <1>0, <1>1, <1>2, <1>3, <1>7, <1>8, <1>9, <1>10 DEF SessionNext

-----------------------------------------------------------------------------
(* What is in memory and in the file.  An operation that stores s and      *)
(* answers with ks and pw keeps the two in step if s has just these.       *)
Contents == MemoryAsTold /\ MemoryReadable /\ Durable

LEMMA StoredAsTold ==
  ASSUME SessionTypeOK, Durable, session \in Sessions, session # NoSession,
         NEW s \in Sessions, s.file = session.file, session' = s,
         NEW r \in Results, store(s, r), NEW answer \in {r, "error"},
         NEW ks \in SUBSET Keys, NEW pw \in Passwords, Tell(answer, ks, pw),
         told[session.file] # Unknown => s.password = pw /\ s.bags = Container(ks, pw).bags
  PROVE  Durable' /\ MemoryAsTold'
<1> DEFINE f == session.file
<1>1. f \in Files
  BY DEF Sessions
<1>2. PICK c :
        /\ files' = [files EXCEPT ![f] = c]
        /\ r = "ok" => c = IF DOMAIN s.bags = {} THEN Absent ELSE Written(s)
  BY StoreShape
<1>3. ASSUME NEW g \in Files, g # f PROVE files'[g] = files[g] /\ told'[g] = told[g]
  BY <1>2, <1>3 DEF SessionTypeOK, Tell
<1>4. CASE answer = "ok" /\ told[f] # Unknown
  <2>1. told'[f] = [keys |-> ks, password |-> pw, pending |-> FALSE]
    BY <1>1, <1>4 DEF SessionTypeOK, Tell
  <2>2. s.password = pw /\ s.bags = Container(ks, pw).bags /\ DOMAIN s.bags = ks
    BY <1>4, ContainerType
  <2>3. files'[f] = IF ks = {} THEN Absent ELSE Container(ks, pw)
    BY <1>1, <1>2, <1>4, <2>2 DEF SessionTypeOK, Written, Container
  <2>4. MemoryAsTold'
    BY <2>1, <2>2 DEF MemoryAsTold
  <2>5. Durable'
    BY <1>3, <2>1, <2>3 DEF Durable, Known
  <2> QED
    BY <2>4, <2>5
<1>5. CASE ~(answer = "ok" /\ told[f] # Unknown)
  <2>1. told'[f] = Unknown
    BY <1>1, <1>5 DEF SessionTypeOK, Tell
  <2> QED
    BY <1>3, <2>1 DEF Durable, Known, MemoryAsTold
<1> QED
  BY <1>4, <1>5

LEMMA ToldKnown ==
  ASSUME SessionTypeOK, MemoryAsTold, session \in Sessions, session # NoSession,
         told[session.file] # Unknown
  PROVE  /\ Told.keys \in SUBSET Keys
         /\ Told.password = session.password /\ session.password \in Passwords
         /\ session.bags = [k \in Told.keys |-> Told.password]
BY ToldType DEF MemoryAsTold, Told, Container

LEMMA ContentsNext == Base /\ Contents /\ [SessionNext]_sessionVars => Contents'
<1> SUFFICES ASSUME Base, Contents, [SessionNext]_sessionVars PROVE Contents'
  OBVIOUS
<1> USE NamesAssumption DEF Base, Contents
<1>0. CASE UNCHANGED <<files, session, told>>
  BY <1>0 DEF MemoryAsTold, MemoryReadable, Durable, Known
<1>1. CASE DEINIT \/ CLOSE
  BY <1>1 DEF DEINIT, CLOSE, MemoryAsTold, MemoryReadable, Durable, Known
<1>2. CASE Crash
  <2>1. session' = NoSession
    BY <1>2 DEF Crash
  <2>2. CASE UNCHANGED <<files, told>>
    BY <2>1, <2>2 DEF MemoryAsTold, MemoryReadable, Durable, Known
  <2>3. CASE /\ files' = [files EXCEPT ![session.file] = Damaged]
             /\ told' = [told EXCEPT ![session.file] = Unknown]
    BY <2>1, <2>3 DEF SessionTypeOK, MemoryAsTold, MemoryReadable, Durable, Known
  <2> QED
    BY <1>2, <2>2, <2>3 DEF Crash
<1>3. CASE OPEN
  <2>1. PICK f \in Files, mode \in {"RW", "RO", "CREATE"}, pw \in Passwords :
          /\ mode # "CREATE" => files[f] # Absent
          /\ Opened(f, mode, pw) \/ OpenFails(f, mode, pw)
    BY <1>3 DEF OPEN
  <2>2. files' = files /\ session = NoSession
    BY <1>3 DEF OPEN, OneStorage
  <2>3. CASE OpenFails(f, mode, pw)
    BY <2>2, <2>3 DEF OpenFails, MemoryAsTold, MemoryReadable, Durable, Known
  <2>4. CASE Opened(f, mode, pw)
    <3> DEFINE ks == DOMAIN session'.bags
    <3>1. session' = storageOpen(f, mode, pw) /\ session'.file = f /\ session'.password = pw
      BY <2>4 DEF Opened, storageOpen
    <3>2. session'.bags = Container(ks, pw).bags
      <4>1. CASE mode = "CREATE"
        BY <3>1, <4>1 DEF storageOpen, Container
      <4>2. CASE mode # "CREATE"
        BY <2>4, <3>1, <4>2 DEF Opened, sessionLogin, storageOpen, Readable
      <4> QED
        BY <4>1, <4>2
    <3>3. told' = [told EXCEPT ![f] = [keys |-> ks, password |-> pw,
                                       pending |-> mode = "CREATE" /\ files[f] # Absent]]
      BY <2>4 DEF Opened
    <3>4. Known(f)' => files[f] = IF ks = {} THEN Absent ELSE Container(ks, pw)
      <4>1. CASE mode = "CREATE"
        BY <3>1, <3>3, <4>1 DEF Known, SessionTypeOK, storageOpen, Container
      <4>2. CASE mode # "CREATE"
        <5>1. ks = DOMAIN files[f].bags /\ files[f] = Container(ks, pw)
          BY <2>4, <3>1, <4>2 DEF Opened, sessionLogin, storageOpen, Readable
        <5>2. ks # {}
          BY <2>1, <2>4, <4>2, <5>1 DEF SessionTypeOK, Opened, sessionLogin
        <5> QED
          BY <5>1, <5>2
      <4> QED
        BY <4>1, <4>2
    <3>5. Durable'
      BY <2>2, <3>3, <3>4 DEF Durable, Known, SessionTypeOK
    <3> QED
      BY <3>1, <3>2, <3>3, <3>5 DEF MemoryAsTold, MemoryReadable, SessionTypeOK
  <2> QED
    BY <2>1, <2>3, <2>4
<1>4. ASSUME active = "open" PROVE session \in Sessions /\ session # NoSession
  BY <1>4 DEF SessionTypeOK, OneStorage
<1>5. CASE SELECT_KEY
  <2>1. session \in Sessions /\ session # NoSession /\ UNCHANGED <<files, told>>
    BY <1>4, <1>5 DEF SELECT_KEY
  <2>2. \E l : session' = [session EXCEPT !.selected = l]
    BY <1>5 DEF SELECT_KEY, SelectFails, Selected
  <2>3. /\ session'.file = session.file /\ session'.password = session.password
        /\ session'.bags = session.bags /\ session'.halfway = session.halfway
    BY <2>1, <2>2 DEF Sessions
  <2> QED
    BY <2>1, <2>3 DEF MemoryAsTold, MemoryReadable, Durable, Known
<1>6. CASE CREATE_KEY
  <2>1. session \in Sessions /\ session # NoSession
    BY <1>4, <1>6 DEF CREATE_KEY
  <2>2. CASE CreateFails
    BY <1>0, <2>2 DEF CreateFails
  <2>3. CASE \E k \in unused, r \in Results : Created(k, r)
    <3>1. PICK k \in unused, r \in Results : Created(k, r)
      BY <2>3
    <3>2. PICK answer \in {r, "error"} : Tell(answer, Told.keys \cup {k}, Told.password)
      BY <3>1 DEF Created
    <3>3. session' = AddBag(session, k) /\ store(session', r) /\ k \in Keys
      BY <3>1 DEF Created, SessionTypeOK
    <3> DEFINE s == AddBag(session, k)
    <3>4. s \in Sessions /\ s.file = session.file /\ s.password = session.password
          /\ s.halfway = session.halfway
          /\ s.bags = [x \in DOMAIN session.bags \cup {k} |->
                         IF x = k THEN session.password ELSE session.bags[x]]
      <4> DEFINE b == [x \in DOMAIN session.bags \cup {k} |->
                         IF x = k THEN session.password ELSE session.bags[x]]
      <4>1. s = [[session EXCEPT !.bags = b] EXCEPT !.selected = k]
        BY DEF AddBag
      <4>2. s \in Sessions
        BY <2>1, <3>3, SessionAdded
      <4> HIDE DEF b
      <4>3. s.file = session.file /\ s.password = session.password
            /\ s.halfway = session.halfway /\ s.bags = b
        BY <2>1, <4>1 DEF Sessions
      <4> QED
        BY <4>2, <4>3 DEF b
    <3>5. Told.keys \cup {k} \in SUBSET Keys /\ Told.password \in Passwords
      BY <2>1, <3>3, ToldType
    <3>6. ASSUME told[session.file] # Unknown
          PROVE  s.password = Told.password
                 /\ s.bags = Container(Told.keys \cup {k}, Told.password).bags
      BY <2>1, <3>4, <3>6, ToldKnown DEF Container
    <3>7. Durable' /\ MemoryAsTold'
      BY <2>1, <3>2, <3>3, <3>4, <3>5, <3>6, StoredAsTold
    <3>8. MemoryReadable'
      BY <2>1, <3>3, <3>4 DEF MemoryReadable, Container
    <3> QED
      BY <3>7, <3>8
  <2> QED
    BY <1>6, <2>2, <2>3 DEF CREATE_KEY
<1>7. CASE DELETE_KEY
  <2>1. session \in Sessions /\ session # NoSession
    BY <1>4, <1>7 DEF DELETE_KEY
  <2>2. PICK k \in DOMAIN session.bags, r \in Results : DeletedKey(k, r)
    BY <1>7 DEF DELETE_KEY
  <2> DEFINE s == DeleteBag(session, k)
  <2>3. session' = s /\ store(s, r) /\ Tell(r, Told.keys \ {k}, Told.password)
    BY <2>2 DEF DeletedKey
  <2>4. DOMAIN session.bags \in SUBSET Keys
    BY <2>1, BagsDomain DEF Sessions
  <2>5. s \in Sessions /\ s.file = session.file /\ s.password = session.password
        /\ s.halfway = session.halfway
        /\ s.bags = [x \in DOMAIN session.bags \ {k} |-> session.bags[x]]
    BY <2>1, <2>2, <2>4, SessionDeleted DEF DeleteBag, Sessions
  <2>6. Told.keys \ {k} \in SUBSET Keys /\ Told.password \in Passwords
    BY <2>1, ToldType
  <2>7. ASSUME told[session.file] # Unknown
        PROVE  s.password = Told.password
               /\ s.bags = Container(Told.keys \ {k}, Told.password).bags
    BY <2>1, <2>5, <2>7, ToldKnown DEF Container
  <2>8. Durable' /\ MemoryAsTold'
    BY <2>1, <2>3, <2>5, <2>6, <2>7, StoredAsTold
  <2>9. MemoryReadable'
    BY <2>1, <2>3, <2>5 DEF MemoryReadable, Container
  <2> QED
    BY <2>8, <2>9
<1>8. CASE CHANGE_PASSWORD
  <2>1. session \in Sessions /\ session # NoSession
    BY <1>4, <1>8 DEF CHANGE_PASSWORD
  <2>2. PICK pw \in Passwords : EncodeFails(pw) \/ \E r \in Results : PasswordChanged(pw, r)
    BY <1>8 DEF CHANGE_PASSWORD
  <2>3. CASE EncodeFails(pw)
    <3>1. session'.file = session.file /\ session'.halfway
      BY <2>1, <2>3 DEF EncodeFails, Sessions
    <3>2. told' = [told EXCEPT ![session.file] = Unknown] /\ files' = files
      BY <2>1, <2>3 DEF EncodeFails, Tell
    <3> QED
      BY <2>1, <3>1, <3>2 DEF MemoryAsTold, MemoryReadable, Durable, Known, SessionTypeOK, Sessions
  <2>4. ASSUME NEW r \in Results, PasswordChanged(pw, r) PROVE Contents'
    <3> DEFINE s == Encoded(pw)
               new == IF DOMAIN session.bags = {} THEN Told.password ELSE pw
    <3>1. session' = s /\ store(s, r) /\ Tell(r, Told.keys, new)
      BY <2>4 DEF PasswordChanged
    <3>2. s \in Sessions /\ s.file = session.file /\ s.halfway = session.halfway
      BY <2>1, SessionEncoded DEF Encoded, Sessions
    <3>3. IF DOMAIN session.bags = {} THEN s = session
          ELSE s.password = pw /\ s.bags = [x \in DOMAIN session.bags |-> pw]
      BY <2>1 DEF Encoded, Sessions
    <3>4. Told.keys \in SUBSET Keys /\ new \in Passwords
      BY <2>1, ToldType
    <3>5. ASSUME told[session.file] # Unknown
          PROVE  s.password = new /\ s.bags = Container(Told.keys, new).bags
      BY <2>1, <3>3, <3>5, ToldKnown DEF Container
    <3>6. Durable' /\ MemoryAsTold'
      BY <2>1, <3>1, <3>2, <3>4, <3>5, StoredAsTold
    <3>7. MemoryReadable'
      BY <2>1, <3>1, <3>2, <3>3 DEF MemoryReadable, Container
    <3> QED
      BY <3>6, <3>7
  <2> QED
    BY <2>2, <2>3, <2>4
<1> QED
  BY <1>0, <1>1, <1>2, <1>3, <1>5, <1>6, <1>7, <1>8 DEF SessionNext, INIT, sessionVars, history

-----------------------------------------------------------------------------
LEMMA IInvHolds == SessionSpec => []SessionInv
<1>1. SessionInit => SessionInv
  <2> SUFFICES ASSUME SessionInit PROVE SessionInv
    OBVIOUS
  <2>1. Base
    BY BaseInit
  <2> QED
    BY <2>1 DEF SessionInit, SessionInv, NoDanglingKey, PairedRight, MemoryAsTold, MemoryReadable, Durable, Known
<1>2. SessionInv /\ [SessionNext]_sessionVars => SessionInv'
  BY BaseNext, PointersNext, ContentsNext DEF SessionInv, Pointers, Contents
<1> QED
  BY <1>1, <1>2, PTL DEF SessionSpec

(* Every variable keeps its type. *)
THEOREM SessionTypeCorrect == SessionSpec => []SessionTypeOK
<1>1. SessionInv => SessionTypeOK
  BY DEF SessionInv, Base
<1> QED
  BY <1>1, IInvHolds, PTL

(* There is never more than one storage open, whatever has failed in OPEN, *)
(* and none after DEINIT (CmProviders, cm-providers.cpp).                  *)
THEOREM OneStorageOpen == SessionSpec => []OneStorage
<1>1. SessionInv => OneStorage
  BY DEF SessionInv, Base
<1> QED
  BY <1>1, IInvHolds, PTL

(* What OPEN, CREATE_KEY, DELETE_KEY and CHANGE_PASSWORD answered of a     *)
(* storage is in its file, later sessions and processes included, until an *)
(* operation on it fails (FileStorage::store, file-storage.cpp).           *)
THEOREM AnswersDurable == SessionSpec => []Durable
<1>1. SessionInv => Durable
  BY DEF SessionInv
<1> QED
  BY <1>1, IInvHolds, PTL

(* KEYS lists the keys of the file until an operation on it fails. *)
THEOREM ListedSaved == SessionSpec => []ListedIsSaved
<1>1. ASSUME SessionInv PROVE ListedIsSaved
  <2>1. SUFFICES ASSUME session # NoSession, Known(session.file)
                 PROVE  DOMAIN session.bags = IF files[session.file] = Absent THEN {}
                                              ELSE DOMAIN files[session.file].bags
    BY DEF ListedIsSaved
  <2> DEFINE ks == told[session.file].keys
  <2>2. session \in Sessions /\ told[session.file] \in Answers
    BY <1>1, <2>1 DEF SessionInv, Base, SessionTypeOK, Known, Sessions
  <2>3. ks \in SUBSET Keys /\ session.password \in Passwords
        /\ session.password = told[session.file].password
        /\ session.bags = Container(ks, session.password).bags
    BY <1>1, <2>1, <2>2 DEF SessionInv, MemoryAsTold, Known, Answers, Sessions
  <2>4. files[session.file] = IF ks = {} THEN Absent ELSE Container(ks, session.password)
    BY <1>1, <2>1, <2>2, <2>3 DEF SessionInv, Durable, Sessions
  <2>5. Container(ks, session.password) # Absent
        /\ DOMAIN Container(ks, session.password).bags = ks
    BY <2>3, ContainerType, NamesAssumption
  <2> QED
    BY <2>3, <2>4, <2>5
<1> QED
  BY <1>1, IInvHolds, PTL

(* SIGN never signs with one key for the certificate of another after      *)
(* SELECT_KEY (CmStorageProxy, cm-storage-proxy.cpp).                      *)
THEOREM SignerRight == SessionSpec => []SignerMatches
<1>1. SessionInv => SignerMatches
  BY DEF SessionInv, Base, OneStorage, PairedRight, SignerMatches, CanSign, Signer
<1> QED
  BY <1>1, IInvHolds, PTL

(* No pointer to a deleted key or a closed session is kept. *)
THEOREM NothingDangles == SessionSpec => []NoDanglingKey
<1>1. SessionInv => NoDanglingKey
  BY DEF SessionInv
<1> QED
  BY <1>1, IInvHolds, PTL

-----------------------------------------------------------------------------
(* How the files change in a step: by a crash while one is open for        *)
(* writing, or by the session that has it open, which writes what it has   *)
(* in memory after the step.                                               *)
Changed ==
  /\ session \in Sessions /\ session # NoSession /\ session.mode # "RO"
  /\ \E c : /\ files' = [files EXCEPT ![session.file] = c]
            /\ \/ c \in {files[session.file], Absent, Damaged}
               \/ /\ c = Written(session')
                  /\ session' \in Sessions /\ session'.halfway = session.halfway

LEMMA StoreChanges ==
  ASSUME SessionInv, active = "open", session.mode # "RO", session' \in Sessions,
         session'.file = session.file, session'.halfway = session.halfway,
         NEW r \in Results, store(session', r)
  PROVE  Changed
<1>1. session \in Sessions /\ session # NoSession
  BY DEF SessionInv, Base, SessionTypeOK, OneStorage
<1>2. SessionTypeOK
  BY DEF SessionInv, Base
<1> QED
  BY <1>1, <1>2, StoreShape DEF Changed

LEMMA FilesChange == SessionInv /\ SessionNext => files' = files \/ Changed
<1> SUFFICES ASSUME SessionInv, SessionNext PROVE files' = files \/ Changed
  OBVIOUS
<1>1. CASE INIT \/ DEINIT \/ OPEN \/ CLOSE \/ SELECT_KEY
  BY <1>1 DEF INIT, DEINIT, OPEN, CLOSE, SELECT_KEY
<1>2. CASE Crash
  <2>1. session = NoSession \/ session \in Sessions
    BY DEF SessionInv, Base, SessionTypeOK
  <2> QED
    BY <1>2, <2>1 DEF Crash, Changed
<1>3. ASSUME active = "open" PROVE session \in Sessions /\ session # NoSession
  BY <1>3 DEF SessionInv, Base, SessionTypeOK, OneStorage
<1>4. ASSUME active' = "open" PROVE session' \in Sessions
  BY <1>4, BaseNext DEF SessionInv, Base, SessionTypeOK, OneStorage
<1>5. CASE CREATE_KEY
  <2>1. CASE CreateFails
    BY <2>1 DEF CreateFails
  <2>2. ASSUME NEW k \in unused, NEW r \in Results, Created(k, r) PROVE Changed
    <3>1. session' \in Sessions /\ session \in Sessions /\ active = "open"
      BY <1>3, <1>4, <1>5 DEF CREATE_KEY
    <3>2. session'.file = session.file /\ session'.halfway = session.halfway
      <4> DEFINE b == [x \in DOMAIN session.bags \cup {k} |->
                         IF x = k THEN session.password ELSE session.bags[x]]
      <4>1. session' = [[session EXCEPT !.bags = b] EXCEPT !.selected = k]
        BY <2>2 DEF Created, AddBag
      <4> HIDE DEF b
      <4> QED
        BY <3>1, <4>1 DEF Sessions
    <3> QED
      BY <2>2, <3>1, <3>2, StoreChanges DEF Created
  <2> QED
    BY <1>5, <2>1, <2>2 DEF CREATE_KEY
<1>6. CASE DELETE_KEY
  <2>1. PICK k \in DOMAIN session.bags, r \in Results : DeletedKey(k, r)
    BY <1>6 DEF DELETE_KEY
  <2>2. session' \in Sessions /\ session \in Sessions /\ active = "open" /\ session.mode # "RO"
    BY <1>3, <1>4, <1>6 DEF DELETE_KEY
  <2>3. session'.file = session.file /\ session'.halfway = session.halfway
    BY <2>1, <2>2 DEF DeletedKey, DeleteBag, Sessions
  <2> QED
    BY <2>1, <2>2, <2>3, StoreChanges DEF DeletedKey
<1>7. CASE CHANGE_PASSWORD
  <2>1. PICK pw \in Passwords : EncodeFails(pw) \/ \E r \in Results : PasswordChanged(pw, r)
    BY <1>7 DEF CHANGE_PASSWORD
  <2>2. session' \in Sessions /\ session \in Sessions /\ active = "open" /\ session.mode # "RO"
    BY <1>3, <1>4, <1>7 DEF CHANGE_PASSWORD
  <2>3. CASE EncodeFails(pw)
    BY <2>3 DEF EncodeFails
  <2>4. ASSUME NEW r \in Results, PasswordChanged(pw, r) PROVE Changed
    <3>1. session'.file = session.file /\ session'.halfway = session.halfway
      BY <2>2, <2>4 DEF PasswordChanged, Encoded, Sessions
    <3> QED
      BY <2>2, <2>4, <3>1, StoreChanges DEF PasswordChanged
  <2> QED
    BY <2>1, <2>3, <2>4
<1> QED
  BY <1>1, <1>2, <1>5, <1>6, <1>7 DEF SessionNext

(* A file changes only while it is open for writing: two storages are      *)
(* never mixed up, nothing is written to one opened with RO.               *)
THEOREM OnlyWriter == SessionSpec => OnlyWriterChanges
<1> DEFINE Writer == \A f \in Files : files'[f] # files[f] =>
                       session # NoSession /\ session.file = f /\ session.mode # "RO"
<1>1. ASSUME SessionInv, SessionNext PROVE Writer
  <2>1. files' = files \/ Changed
    BY <1>1, FilesChange
  <2>2. CASE Changed
    BY <1>1, <2>2 DEF Changed, SessionInv, Base, SessionTypeOK
  <2> QED
    BY <2>1, <2>2
<1>2. SessionInv /\ [SessionNext]_sessionVars => [Writer]_sessionVars
  BY <1>1
<1> QED
  BY <1>2, IInvHolds, PTL DEF SessionSpec, OnlyWriterChanges

(* A container written can be opened with the password of its MAC, unless  *)
(* CHANGE_PASSWORD has failed between two keys in this session.            *)
THEOREM WrittenOpens == SessionSpec => WrittenReadable
<1> DEFINE Opens == \A f \in Files :
             files'[f] # files[f] /\ files'[f] \notin {Absent, Damaged} /\ ~session.halfway
               => Readable(files'[f], files'[f].mac)
<1>1. ASSUME SessionInv, SessionNext PROVE Opens
  <2> SUFFICES ASSUME NEW f \in Files, files'[f] # files[f],
                      files'[f] \notin {Absent, Damaged}, ~session.halfway
               PROVE  Readable(files'[f], files'[f].mac)
    OBVIOUS
  <2>1. Changed
    BY <1>1, FilesChange
  <2>2. files'[f] = Written(session') /\ session' \in Sessions /\ ~session'.halfway
    BY <1>1, <2>1 DEF Changed, SessionInv, Base, SessionTypeOK
  <2>3. session' # NoSession
    BY <2>2, NamesAssumption
  <2>4. MemoryReadable'
    BY <1>1, ContentsNext DEF SessionInv, Contents
  <2>5. session'.bags = Container(DOMAIN session'.bags, session'.password).bags
    BY <2>2, <2>3, <2>4 DEF MemoryReadable
  <2> QED
    BY <2>2, <2>5 DEF Readable, Written, Container
<1>2. SessionInv /\ [SessionNext]_sessionVars => [Opens]_sessionVars
  BY <1>1
<1> QED
  BY <1>2, IInvHolds, PTL DEF SessionSpec, WrittenReadable
=============================================================================
