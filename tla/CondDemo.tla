------------------------------- MODULE CondDemo -------------------------------
(***************************************************************************)
(* Threads that wait for an activation: thread/thread.c, test_cond.        *)
(*                                                                         *)
(* The main thread sets thread_active and broadcasts the condition under   *)
(* the mutex, again and again.  A worker tests the flag once, waits if it  *)
(* is not set, and when it goes on clears the flag without another look.   *)
(* pthread_cond_wait may return without a broadcast, as POSIX allows.      *)
(***************************************************************************)
CONSTANTS
    Workers,        \* thread4 and thread5
    Main,           \* the thread that runs test_cond
    Nobody          \* no thread

ASSUME ThreadsAssumption == Main \notin Workers /\ Nobody \notin Workers \cup {Main}

VARIABLES
    mpc, wpc,       \* where the threads are; "none" is not created
    holder,         \* of thread_active_mutex, or Nobody
    thread_active,
    asked,          \* history: the workers with a broadcast since their last round
    spurious        \* history: the workers whose wait ended by itself

condVars == <<mpc, wpc, holder, thread_active, asked, spurious>>

CondInit ==
    /\ mpc = "create" /\ wpc = [w \in Workers |-> "none"]
    /\ holder = Nobody /\ thread_active = FALSE
    /\ asked = {} /\ spurious = {}

-----------------------------------------------------------------------------
(***************************************************************************)
(* The main thread.                                                        *)
(***************************************************************************)
\* The results of pthread_create are not looked at: some threads may be missing.
CreateWorkers ==
    /\ mpc = "create" /\ mpc' = "reset"
    /\ \E made \in SUBSET Workers :
            wpc' = [w \in Workers |-> IF w \in made THEN "lock" ELSE "none"]
    /\ UNCHANGED <<holder, thread_active, asked, spurious>>

\* Without the mutex, while the threads run already.
ResetActive ==
    /\ mpc = "reset" /\ mpc' = "sleep"
    /\ thread_active' = FALSE
    /\ UNCHANGED <<wpc, holder, asked, spurious>>

Sleep ==
    /\ mpc = "sleep" /\ mpc' = "lock"
    /\ UNCHANGED <<wpc, holder, thread_active, asked, spurious>>

\* Mutant: the flag is set without the mutex.
MainLock_None ==
    /\ mpc = "lock" /\ mpc' = "set"
    /\ UNCHANGED <<wpc, holder, thread_active, asked, spurious>>
MainLock ==
    /\ mpc = "lock" /\ mpc' = "set"
    /\ holder = Nobody /\ holder' = Main
    /\ UNCHANGED <<wpc, thread_active, asked, spurious>>

SetActive ==
    /\ mpc = "set" /\ mpc' = "broadcast"
    /\ thread_active' = TRUE
    /\ UNCHANGED <<wpc, holder, asked, spurious>>

\* Mutant: nobody is woken, the waiters are left to find the flag by themselves.
Woken_None == {}
Woken == {w \in Workers : wpc[w] = "waiting"}

Broadcast ==
    /\ mpc = "broadcast" /\ mpc' = "unlock"
    /\ wpc' = [w \in Workers |-> IF w \in Woken THEN "woken" ELSE wpc[w]]
    /\ asked' = Workers
    /\ UNCHANGED <<holder, thread_active, spurious>>

MainUnlock ==
    /\ mpc = "unlock" /\ mpc' = "sleep"
    /\ holder' = Nobody
    /\ UNCHANGED <<wpc, thread_active, asked, spurious>>

-----------------------------------------------------------------------------
(***************************************************************************)
(* A worker.                                                               *)
(***************************************************************************)
Goto(w, l) == wpc' = [wpc EXCEPT ![w] = l]

Lock(w) ==
    /\ wpc[w] = "lock" /\ Goto(w, "test")
    /\ holder = Nobody /\ holder' = w
    /\ UNCHANGED <<mpc, thread_active, asked, spurious>>

Test(w) ==
    /\ wpc[w] = "test" /\ Goto(w, IF thread_active THEN "clear" ELSE "wait")
    /\ UNCHANGED <<mpc, holder, thread_active, asked, spurious>>

\* pthread_cond_wait lets go of the mutex and blocks in one step ...
CondWait(w) ==
    /\ wpc[w] = "wait" /\ Goto(w, "waiting")
    /\ holder' = Nobody
    /\ UNCHANGED <<mpc, thread_active, asked, spurious>>

\* ... and when it is woken takes the mutex before it returns.
Resume(w) ==
    /\ wpc[w] = "woken" /\ Goto(w, "clear")
    /\ holder = Nobody /\ holder' = w
    /\ UNCHANGED <<mpc, thread_active, asked, spurious>>

WakeByItself(w) ==
    /\ wpc[w] = "waiting" /\ Goto(w, "woken")
    /\ spurious' = spurious \cup {w}
    /\ UNCHANGED <<mpc, holder, thread_active, asked>>

\* Mutant: the activation is not used up.
Cleared_Kept == thread_active
Cleared == FALSE

Clear(w) ==
    /\ wpc[w] = "clear" /\ Goto(w, "work")
    /\ thread_active' = Cleared
    /\ holder' = Nobody
    /\ asked' = asked \ {w} /\ spurious' = spurious \ {w}
    /\ UNCHANGED mpc

Work(w) ==
    /\ wpc[w] = "work" /\ Goto(w, "lock")
    /\ UNCHANGED <<mpc, holder, thread_active, asked, spurious>>

-----------------------------------------------------------------------------
MainHolding == SetActive \/ Broadcast \/ MainUnlock
MainStep == CreateWorkers \/ ResetActive \/ Sleep \/ MainLock \/ MainHolding
Acquire(w) == Lock(w) \/ Resume(w)
WorkerStep(w) == Test(w) \/ CondWait(w) \/ Clear(w) \/ Work(w)

CondNext ==
    \/ MainStep
    \/ \E w \in Workers : Acquire(w) \/ WorkerStep(w) \/ WakeByItself(w)

CondSpec == CondInit /\ [][CondNext]_condVars

-----------------------------------------------------------------------------
(***************************************************************************)
(* Properties.                                                             *)
(***************************************************************************)
\* Type correctness.
CondTypeOK ==
    /\ mpc \in {"create", "reset", "sleep", "lock", "set", "broadcast", "unlock"}
    /\ wpc \in [Workers -> {"none", "lock", "test", "wait", "waiting", "woken", "clear", "work"}]
    /\ holder \in Workers \cup {Main, Nobody}
    /\ thread_active \in BOOLEAN
    /\ asked \subseteq Workers /\ spurious \subseteq Workers

\* No lost wake-up: once the broadcast is over no thread is blocked, or about to block,
\* in pthread_cond_wait while the flag is set.  The test and the wait are one piece
\* under the mutex, and so are the setting and the broadcast.
NoSleepThroughActivation ==
    thread_active /\ mpc # "broadcast" => \A w \in Workers : wpc[w] \notin {"wait", "waiting"}

\* A round of work is asked for: a worker that is about to clear the flag has had a
\* broadcast since its last round, though it may not have looked at the flag again
\* after its wait and another may have cleared it; or its wait ended by itself.
WorkIsAskedFor ==
    \A w \in Workers : wpc[w] = "clear" => w \in asked \cup spurious

\* An activation is taken: as long as there is a worker the flag is cleared again.
ActivationTaken ==
    thread_active /\ (\E w \in Workers : wpc[w] # "none") ~> ~thread_active
=============================================================================
