----------------------------- MODULE ApiDispatch -----------------------------
(***************************************************************************)
(* The dispatcher of UAPKI's JSON API (library/uapki/src/api/api-json.cpp).*)
(* Any thread of the application may call process() at any time.  The      *)
(* table uapki_methods gives every method one of three ways to be called:  *)
(*                                                                         *)
(*   call_serial_method  single-threaded (ST): INIT, OPEN, REMOVE_CERT...  *)
(*   call_thread_method  multi-threaded (MT): SIGN, VERIFY, ADD_CERT...    *)
(*   call_static_method  independent (IND): VERSION, DIGEST...             *)
(*                                                                         *)
(* ST methods are serialised by a mutex.  ST and MT methods exclude each   *)
(* other by an atomic flag and an atomic counter, each polled in a loop    *)
(* that sleeps 1 ms.  Every atomic access is a step of its own; a poll     *)
(* that goes on waiting changes nothing and is left out.                   *)
(***************************************************************************)
EXTENDS Naturals, FiniteSets

CONSTANTS
  Threads,   (* The threads of the application.          *)
  NoThread   (* Stands for nobody holding the mutex.     *)

ASSUME ThreadsAssumption == IsFiniteSet(Threads) /\ NoThread \notin Threads

VARIABLES
  pc,                            (* Where each thread is.                       *)
  api_mtx_serialmethod,          (* Holder of the mutex, or NoThread.           *)
  api_serialmethod_is_running,   (* The atomic flag.                            *)
  api_counter_methods            (* The atomic counter.                         *)

vars == <<pc, api_mtx_serialmethod, api_serialmethod_is_running, api_counter_methods>>

(* Program points of the three ways to be called. *)
SerialPoints == {"s_lock", "s_raise", "s_count", "s_run", "s_lower", "s_unlock"}
ThreadPoints == {"t_sample", "t_enter", "t_run"}
Points == {"idle", "x_run"} \cup SerialPoints \cup ThreadPoints

Init ==
  /\ pc = [t \in Threads |-> "idle"]
  /\ api_mtx_serialmethod = NoThread
  /\ api_serialmethod_is_running = FALSE
  /\ api_counter_methods = 0

Goto(t, from, to) ==
  /\ pc[t] = from
  /\ pc' = [pc EXCEPT ![t] = to]

-----------------------------------------------------------------------------
(* process(): the method's name selects one row of uapki_methods. *)

process(t) ==
  /\ \E entry \in {"s_lock", "t_sample", "x_run"} : Goto(t, "idle", entry)
  /\ UNCHANGED <<api_mtx_serialmethod, api_serialmethod_is_running, api_counter_methods>>

-----------------------------------------------------------------------------
(* Mutant: the flag alone serialises ST methods. *)
SerialLock_NoMutex(t) ==
  /\ Goto(t, "s_lock", "s_raise")
  /\ api_mtx_serialmethod' = t
  /\ UNCHANGED <<api_serialmethod_is_running, api_counter_methods>>

(* call_serial_method *)

SerialLock(t) ==
  /\ api_mtx_serialmethod = NoThread
  /\ Goto(t, "s_lock", "s_raise")
  /\ api_mtx_serialmethod' = t
  /\ UNCHANGED <<api_serialmethod_is_running, api_counter_methods>>

SerialRaise(t) ==
  /\ Goto(t, "s_raise", "s_count")
  /\ api_serialmethod_is_running' = TRUE
  /\ UNCHANGED <<api_mtx_serialmethod, api_counter_methods>>

(* Mutant: the flag lowered before the method runs. *)
SerialCount_Lowers(t) ==
  /\ api_counter_methods = 0
  /\ Goto(t, "s_count", "s_run")
  /\ api_serialmethod_is_running' = FALSE
  /\ UNCHANGED <<api_mtx_serialmethod, api_counter_methods>>

(* The loop "while (cnt_threadmethods > 0)" ends. *)
SerialCount(t) ==
  /\ api_counter_methods = 0
  /\ Goto(t, "s_count", "s_run")
  /\ UNCHANGED <<api_mtx_serialmethod, api_serialmethod_is_running, api_counter_methods>>

SerialReturn(t) ==
  /\ Goto(t, "s_run", "s_lower")
  /\ UNCHANGED <<api_mtx_serialmethod, api_serialmethod_is_running, api_counter_methods>>

SerialLower(t) ==
  /\ Goto(t, "s_lower", "s_unlock")
  /\ api_serialmethod_is_running' = FALSE
  /\ UNCHANGED <<api_mtx_serialmethod, api_counter_methods>>

(* Mutant: lock() with no unlock() on the way out. *)
SerialUnlock_Forgotten(t) ==
  /\ Goto(t, "s_unlock", "idle")
  /\ UNCHANGED <<api_mtx_serialmethod, api_serialmethod_is_running, api_counter_methods>>

(* The lock_guard is destroyed when the function returns. *)
SerialUnlock(t) ==
  /\ Goto(t, "s_unlock", "idle")
  /\ api_mtx_serialmethod' = NoThread
  /\ UNCHANGED <<api_serialmethod_is_running, api_counter_methods>>

-----------------------------------------------------------------------------
(* call_thread_method *)

(* Mutant: no wait for the ST method. *)
ThreadSample_NoWait(t) ==
  /\ Goto(t, "t_sample", "t_enter")
  /\ UNCHANGED <<api_mtx_serialmethod, api_serialmethod_is_running, api_counter_methods>>

(* The loop "while (serialmethod_is_running)" ends: the flag was read down. *)
ThreadSample(t) ==
  /\ ~api_serialmethod_is_running
  /\ Goto(t, "t_sample", "t_enter")
  /\ UNCHANGED <<api_mtx_serialmethod, api_serialmethod_is_running, api_counter_methods>>

ThreadEnter(t) ==
  /\ Goto(t, "t_enter", "t_run")
  /\ api_counter_methods' = api_counter_methods + 1
  /\ UNCHANGED <<api_mtx_serialmethod, api_serialmethod_is_running>>

(* Mutant: an early return of the method skips the decrement. *)
ThreadLeave_Leaks(t) ==
  /\ Goto(t, "t_run", "idle")
  /\ api_counter_methods' \in {api_counter_methods, api_counter_methods - 1}
  /\ UNCHANGED <<api_mtx_serialmethod, api_serialmethod_is_running>>

(* The method returns and the counter is decremented. *)
ThreadLeave(t) ==
  /\ Goto(t, "t_run", "idle")
  /\ api_counter_methods' = api_counter_methods - 1
  /\ UNCHANGED <<api_mtx_serialmethod, api_serialmethod_is_running>>

-----------------------------------------------------------------------------
(* call_static_method: calls the method, with no synchronisation. *)

StaticReturn(t) ==
  /\ Goto(t, "x_run", "idle")
  /\ UNCHANGED <<api_mtx_serialmethod, api_serialmethod_is_running, api_counter_methods>>

-----------------------------------------------------------------------------

call_serial_method(t) ==
  SerialLock(t) \/ SerialRaise(t) \/ SerialCount(t) \/ SerialReturn(t) \/ SerialLower(t) \/ SerialUnlock(t)

call_thread_method(t) == ThreadSample(t) \/ ThreadEnter(t) \/ ThreadLeave(t)

call_static_method(t) == StaticReturn(t)

Step(t) == call_serial_method(t) \/ call_thread_method(t) \/ call_static_method(t)

Next == \E t \in Threads : process(t) \/ Step(t)

Spec == Init /\ [][Next]_vars

(* A thread inside the library keeps running and every method returns; the *)
(* application may stop calling.  Nothing is assumed about which waiter a  *)
(* std::mutex serves.                                                      *)
FairSpec == Spec /\ \A t \in Threads : WF_vars(Step(t))

-----------------------------------------------------------------------------
TypeOK ==
  /\ pc \in [Threads -> Points]
  /\ api_mtx_serialmethod \in Threads \cup {NoThread}
  /\ api_serialmethod_is_running \in BOOLEAN
  /\ api_counter_methods \in Nat

At(points) == {t \in Threads : pc[t] \in points}

SerialRunning == At({"s_run", "s_lower"})
ThreadRunning == At({"t_run"})

(* "single-threaded (ST) ... can be executed only in one thread": two ST   *)
(* methods never overlap, and while one runs the flag is up.               *)
SerialAlone ==
  /\ Cardinality(SerialRunning) <= 1
  /\ SerialRunning # {} => api_serialmethod_is_running

(* The counter is the number of MT methods being executed: it never leaks  *)
(* a method that returned (every later ST method would wait forever) nor   *)
(* misses one that runs.                                                   *)
CounterExact == api_counter_methods = Cardinality(ThreadRunning)

(* "when called block all other single-threaded and multi-threaded         *)
(* methods": an ST method never overlaps an MT method.                     *)
Exclusion == SerialRunning = {} \/ ThreadRunning = {}

(* While the flag is up no MT method is admitted: only threads that had    *)
(* read the flag before it was raised can run beside the ST method.        *)
GateHolds ==
  [][api_serialmethod_is_running /\ api_serialmethod_is_running' =>
       \A t \in Threads : pc'[t] \in {"t_enter", "t_run"} => pc[t] \in {"t_enter", "t_run"}]_vars

(* An ST method starts only in a state where no MT method is executed. *)
StartsQuiet ==
  [][\A t \in Threads : pc[t] # "s_run" /\ pc'[t] = "s_run" => ThreadRunning = {}]_vars

(* While ST calls wait for the mutex or for the MT methods to end, ST      *)
(* methods go on being executed, whatever MT methods arrive: the flag      *)
(* keeps new ones out until the counter drains.                            *)
SerialProgress == At({"s_lock", "s_count"}) # {} ~> SerialRunning # {}

-----------------------------------------------------------------------------
(* The dispatcher implements the gate: the mutex, the flag and the counter *)
(* stand for who closed it and for the set of MT methods in progress.      *)
Gate == INSTANCE ApiGate WITH
  gate     <- IF api_serialmethod_is_running THEN api_mtx_serialmethod ELSE NoThread,
  serial   <- SerialRunning # {},
  admitted <- At({"t_enter"}),
  entered  <- ThreadRunning

ImplementsGate == Gate!Spec
=============================================================================
