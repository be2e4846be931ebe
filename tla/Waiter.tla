------------------------------- MODULE Waiter -------------------------------
(***************************************************************************)
(* utils.Waiter (pkg/utils/waiter.go): a WaitGroup with a mutex, a task    *)
(* counter "state" that is negative once the waiter has finished, and the  *)
(* error of the call that finished it.  WebRTCBridge.Start waits on one    *)
(* for the camera's answer, MQTTManager.connect on another for the broker. *)
(* The bodies of Add and of Wait's locked part are one step each; Done is  *)
(* two steps, because it wakes the waiters (WaitGroup.Done) before it      *)
(* stores the error, and Wait reads the error without the mutex.           *)
(***************************************************************************)
EXTENDS Integers

CONSTANTS Waiting,     \* goroutines that call Wait, or WaitChan
          Completing,  \* goroutines that call Done, once each
          Outcomes,    \* the errors Done may be given, Nil among them
          Nil,
          Nobody,      \* the mutex is free
          MaxTasks     \* bound on the tasks Add registers

ASSUME WaiterAssumption == /\ Nil \in Outcomes
                           /\ Nobody \notin Completing
                           /\ MaxTasks \in Nat \ {0}

VARIABLES
  mu,       \* the Done call that holds w.mu between its two halves, or Nobody
  state,    \* w.state
  wg,       \* the counter of the embedded sync.WaitGroup
  err,      \* w.err
  phase,    \* phase[w]: where the waiting goroutine is
  result,   \* result[w]: what its Wait returned
  called,   \* called[d]: the outcome Done(d) was given
  dpc       \* dpc[d]: where the completing goroutine is

waiterVars == <<mu, state, wg, err, phase, result, called, dpc>>

Phases == {"idle", "spawned", "blocked", "returned", "noChannel"}

(* Types of the variables.  The WaitGroup counter never goes negative, which *)
(* sync.WaitGroup answers with a panic, however many Done calls there are.   *)
WaiterTypeOK ==
  /\ mu \in Completing \cup {Nobody}
  /\ state \in Int /\ state >= -1 /\ state <= MaxTasks
  /\ wg \in Nat
  /\ err \in Outcomes
  /\ phase \in [Waiting -> Phases]
  /\ result \in [Waiting -> Outcomes]
  /\ called \in [Completing -> Outcomes]
  /\ dpc \in [Completing -> {"idle", "inside", "finished"}]

WaiterInit ==
  /\ mu = Nobody /\ state = 0 /\ wg = 0 /\ err = Nil
  /\ phase = [w \in Waiting |-> "idle"]
  /\ result = [w \in Waiting |-> Nil]
  /\ called = [d \in Completing |-> Nil]
  /\ dpc = [d \in Completing |-> "idle"]

Add == /\ mu = Nobody
       /\ state >= 0
       /\ state < MaxTasks
       /\ state' = state + 1
       /\ wg' = wg + 1
       /\ UNCHANGED <<mu, err, phase, result, called, dpc>>

\* Waits that never register a task of their own, or also after the finish.
NeverAutoStart == FALSE
AutoRestart == state <= 0

AutoStart == state = 0

Wait(w) == /\ mu = Nobody
           /\ phase[w] \in {"idle", "spawned"}
           /\ phase' = [phase EXCEPT ![w] = "blocked"]
           /\ \/ AutoStart /\ state' = 1 /\ wg' = wg + 1
              \/ ~AutoStart /\ UNCHANGED <<state, wg>>
           /\ UNCHANGED <<mu, err, result, called, dpc>>

\* w.WaitGroup.Wait() lets the goroutine through; "return w.err" holds no lock.
WaitReturn(w) == /\ phase[w] = "blocked"
                 /\ wg = 0
                 /\ phase' = [phase EXCEPT ![w] = "returned"]
                 /\ result' = [result EXCEPT ![w] = err]
                 /\ UNCHANGED <<mu, state, wg, err, called, dpc>>

\* A nil channel once the waiter has finished, else a goroutine that calls Wait.
WaitChan(w) == /\ mu = Nobody
               /\ phase[w] = "idle"
               /\ phase' = [phase EXCEPT ![w] =
                              IF state >= 0 THEN "spawned" ELSE "noChannel"]
               /\ UNCHANGED <<mu, state, wg, err, result, called, dpc>>

HasTasks == state > 0

DoneBegin(d, e) ==
  /\ mu = Nobody
  /\ dpc[d] = "idle"
  /\ mu' = d
  /\ called' = [called EXCEPT ![d] = e]
  /\ dpc' = [dpc EXCEPT ![d] = "inside"]
  /\ \/ HasTasks /\ state' = state - 1 /\ wg' = wg - 1
     \/ ~HasTasks /\ UNCHANGED <<state, wg>>
  /\ UNCHANGED <<err, phase, result>>

\* A Done that finishes the waiter again ("last error wins").
FinishAgain == state <= 0

LastDone == state = 0
Stored(d) == called[d]

DoneEnd(d) ==
  /\ mu = d
  /\ mu' = Nobody
  /\ dpc' = [dpc EXCEPT ![d] = "finished"]
  /\ \/ LastDone /\ state' = -1 /\ err' = Stored(d)
     \/ ~LastDone /\ UNCHANGED <<state, err>>
  /\ UNCHANGED <<wg, phase, result, called>>

WaiterNext ==
  \/ Add
  \/ \E w \in Waiting : Wait(w) \/ WaitReturn(w) \/ WaitChan(w)
  \/ \E d \in Completing : DoneEnd(d) \/ \E e \in Outcomes : DoneBegin(d, e)

WaiterSpec == WaiterInit /\ [][WaiterNext]_waiterVars

(* The Go scheduler runs every runnable goroutine, and sync.Mutex hands    *)
(* the lock over in order.  Nothing makes a caller call Done.              *)
WaiterFairness ==
  /\ \A w \in Waiting : WF_waiterVars(WaitReturn(w))
  /\ \A w \in Waiting : WF_waiterVars(Wait(w) /\ phase[w] = "spawned")
  /\ \A d \in Completing : WF_waiterVars(DoneEnd(d))

WaiterFairSpec == WaiterSpec /\ WaiterFairness
-----------------------------------------------------------------------------
(* Nobody is let through early: a Wait has returned only if the counted    *)
(* tasks were all done, be it the last Done is still inside its critical   *)
(* section.  With several Done calls and a waiter that comes late this is  *)
(* what Start relies on when it reports a stream as established.           *)
NoEarlyReturn == (\E w \in Waiting : phase[w] = "returned")
                   => state = -1 \/ (mu # Nobody /\ state = 0)

(* Once finished, later Add, Wait and Done calls change nothing: the first *)
(* outcome is the waiter's outcome (comment "safe Done after finish").     *)
FinishIsFinal == [][state = -1 => UNCHANGED <<state, wg, err>>]_waiterVars

(* The outcome is that of one of the callers which really ran, or none.    *)
OutcomeWasReported ==
  state = -1 => \E d \in Completing : dpc[d] = "finished" /\ called[d] = err

(* After the finish every goroutine inside Wait gets out, also one that    *)
(* arrives late ("block new waiters after last Done" refuses new tasks, it *)
(* must not hang a new Wait).                                              *)
WaitersGetOut == \A w \in Waiting :
                   (state = -1 /\ phase[w] \in {"spawned", "blocked"}) ~> (phase[w] = "returned")
=============================================================================
