----------------------------- MODULE ThreadProofs -----------------------------
(***************************************************************************)
(* Proofs about the two thread demonstrations, each by itself.             *)
(*   - CondDemo: no lost wake-up and no work unasked for, for any number   *)
(*     of workers.                                                         *)
(*   - SemDemo: the structure of c4-2 outlives its users and its semaphore *)
(*     is bounded by the posts, for any number of consumers and of posts.  *)
(***************************************************************************)
EXTENDS CondDemo, SemDemo, TLAPS

-----------------------------------------------------------------------------
(***************************************************************************)
(* CondDemo.                                                               *)
(***************************************************************************)
\* Who is between lock and unlock holds the mutex.
Mutex ==
    /\ mpc \in {"set", "broadcast", "unlock"} => holder = Main
    /\ \A w \in Workers : wpc[w] \in {"test", "wait", "clear"} => holder = w

\* The flag is seen by the workers only when all of them have been asked.
FlagMeansAsked == thread_active /\ mpc # "broadcast" => asked = Workers

\* A wait that has ended did so by a broadcast or by itself.
WokenMeansAsked == \A w \in Workers : wpc[w] = "woken" => w \in asked \cup spurious

CInv ==
    /\ CondTypeOK /\ Mutex
    /\ FlagMeansAsked /\ WokenMeansAsked
    /\ NoSleepThroughActivation /\ WorkIsAskedFor

-----------------------------------------------------------------------------
\* The first state has no worker and no activation.
LEMMA InitCInv == CondInit => CInv
BY ThreadsAssumption
   DEF CondInit, CInv, CondTypeOK, Mutex, FlagMeansAsked, WokenMeansAsked,
       NoSleepThroughActivation, WorkIsAskedFor

\* The steps of the main thread: it changes the flag and wakes the waiting only while no
\* worker is between its test and its wait.
LEMMA MainKeepsCInv == CInv /\ MainStep => CInv'
<1> SUFFICES ASSUME CInv, MainStep PROVE CInv'
  OBVIOUS
<1> USE ThreadsAssumption
        DEF CInv, CondTypeOK, Mutex, FlagMeansAsked, WokenMeansAsked,
            NoSleepThroughActivation, WorkIsAskedFor
<1>1. CASE CreateWorkers
  BY <1>1 DEF CreateWorkers
<1>2. CASE ResetActive
  BY <1>2 DEF ResetActive
<1>3. CASE Sleep
  BY <1>3 DEF Sleep
<1>4. CASE MainLock
  BY <1>4 DEF MainLock
<1>5. CASE SetActive
  BY <1>5 DEF SetActive
<1>6. CASE Broadcast
  BY <1>6 DEF Broadcast, Woken
<1>7. CASE MainUnlock
  BY <1>7 DEF MainUnlock
<1> QED
  BY <1>1, <1>2, <1>3, <1>4, <1>5, <1>6, <1>7 DEF MainStep, MainHolding

\* The steps of a worker: it goes to its wait only when it has seen the flag down, and to
\* its work only when it has seen it up or was woken.
LEMMA WorkerKeepsCInv ==
    ASSUME CInv, NEW w \in Workers, Acquire(w) \/ WorkerStep(w) \/ WakeByItself(w)
    PROVE  CInv'
<1> USE ThreadsAssumption
        DEF CInv, CondTypeOK, Mutex, FlagMeansAsked, WokenMeansAsked,
            NoSleepThroughActivation, WorkIsAskedFor, Goto
<1>1. CASE Lock(w)
  BY <1>1 DEF Lock
<1>2. CASE Resume(w)
  BY <1>2 DEF Resume
<1>3. CASE Test(w)
  BY <1>3 DEF Test
<1>4. CASE CondWait(w)
  BY <1>4 DEF CondWait
<1>5. CASE WakeByItself(w)
  BY <1>5 DEF WakeByItself
<1>6. CASE Clear(w)
  BY <1>6 DEF Clear, Cleared
<1>7. CASE Work(w)
  BY <1>7 DEF Work
<1> QED
  BY <1>1, <1>2, <1>3, <1>4, <1>5, <1>6, <1>7 DEF Acquire, WorkerStep

\* Every step of thread.c's test_cond and of its threads keeps the inductive invariant.
LEMMA NextKeepsCInv == CInv /\ [CondNext]_condVars => CInv'
<1> SUFFICES ASSUME CInv, [CondNext]_condVars PROVE CInv'
  OBVIOUS
<1>1. CASE MainStep
  BY <1>1, MainKeepsCInv
<1>2. CASE \E w \in Workers : Acquire(w) \/ WorkerStep(w) \/ WakeByItself(w)
  BY <1>2, WorkerKeepsCInv
<1>3. CASE UNCHANGED condVars
  BY <1>3 DEF condVars, CInv, CondTypeOK, Mutex, FlagMeansAsked, WokenMeansAsked,
              NoSleepThroughActivation, WorkIsAskedFor
<1> QED
  BY <1>1, <1>2, <1>3 DEF CondNext

-----------------------------------------------------------------------------
\* The inductive invariant of test_cond: the mutex is held where the code says so, and the
\* flag is up for a worker only when a broadcast has reached all of them.
THEOREM CondInvariant == CondSpec => []CInv
<1>1. CondInit => CInv
  BY InitCInv
<1>2. CInv /\ [CondNext]_condVars => CInv'
  BY NextKeepsCInv
<1> QED
  BY <1>1, <1>2, PTL DEF CondSpec

\* The flag of thread.c, its mutex and the places of its threads keep their types: the mutex
\* has one holder or none, whoever unlocks it in between.
THEOREM CondTypeCorrect == CondSpec => []CondTypeOK
<1>1. CInv => CondTypeOK
  BY DEF CInv
<1> QED
  BY <1>1, CondInvariant, PTL

\* No worker of thread.c sleeps through an activation: with the flag set and the broadcast
\* over none is in pthread_cond_wait or on its way into it.
THEOREM NoLostWakeup == CondSpec => []NoSleepThroughActivation
<1>1. CInv => NoSleepThroughActivation
  BY DEF CInv
<1> QED
  BY <1>1, CondInvariant, PTL

\* A worker of thread.c works only after a broadcast since its last round, or a wait that
\* ended by itself, though it does not look at the flag again after its wait.
THEOREM NoWorkUnasked == CondSpec => []WorkIsAskedFor
<1>1. CInv => WorkIsAskedFor
  BY DEF CInv
<1> QED
  BY <1>1, CondInvariant, PTL

-----------------------------------------------------------------------------
(***************************************************************************)
(* SemDemo.                                                                *)
(***************************************************************************)
\* Where main has got to, and who has ended by then.
JoinedSoFar ==
    /\ main \in {"cancel", "join", "free", "return"} => at[Producer] = "ended"
    /\ main \in {"free", "return"} => \A c \in Consumers : at[c] = "ended"
    /\ freed => main \in {"return", "exit"}

SemInv == at \in [Threads -> Places] /\ JoinedSoFar

-----------------------------------------------------------------------------
\* Before main of c4-2 creates its threads nothing is joined and nothing freed.
LEMMA InitSemInv == SemInit => SemInv
BY DEF SemInit, SemInv, JoinedSoFar, Places, ReadsShared

\* A thread that has ended makes no step, and no thread's step moves main.
LEMMA ThreadKeepsSemInv ==
    ASSUME SemInv, NEW t \in Threads,
           at[t] # "ended", NEW l \in Places, To(t, l), UNCHANGED <<main, freed>>
    PROVE  SemInv'
BY DEF SemInv, JoinedSoFar, To, Threads

\* The steps of main: each join waits for the end of the thread.
LEMMA MainKeepsSemInv == SemInv /\ MainThread => SemInv'
<1> SUFFICES ASSUME SemInv, MainThread PROVE SemInv'
  OBVIOUS
<1> USE ProducerAssumption DEF SemInv, JoinedSoFar, Threads, MainTo, Places, ReadsShared
<1>1. CASE NoMemory
  BY <1>1 DEF NoMemory
<1>2. ASSUME NEW t \in Threads, Create(t) PROVE SemInv'
  BY <1>2 DEF Create, To
<1>3. CASE JoinProducer
  BY <1>3 DEF JoinProducer
<1>4. CASE CancelConsumers
  BY <1>4 DEF CancelConsumers
<1>5. CASE JoinConsumers
  BY <1>5 DEF JoinConsumers, Joined
<1>6. CASE Free
  BY <1>6 DEF Free
<1>7. CASE Return
  BY <1>7 DEF Return
<1> QED
  BY <1>1, <1>2, <1>3, <1>4, <1>5, <1>6, <1>7 DEF MainThread

\* Every step of main and of the threads of c4-2 keeps what main knows of the ended ones.
LEMMA NextKeepsSemInv == SemInv /\ [SemNext]_semVars => SemInv'
<1> SUFFICES ASSUME SemInv, [SemNext]_semVars PROVE SemInv'
  OBVIOUS
<1>1. CASE MainThread
  BY <1>1, MainKeepsSemInv
<1>2. CASE Produce
  <2>1. Producer \in Threads
    BY DEF Threads
  <2> USE DEF Places, ReadsShared
  <2>2. CASE Begin(Producer)
    BY <2>1, <2>2, ThreadKeepsSemInv DEF Begin, LookAtStop
  <2>3. CASE Post
    BY <2>1, <2>3, ThreadKeepsSemInv DEF Post
  <2>4. CASE CountDown
    BY <2>1, <2>4, ThreadKeepsSemInv DEF CountDown
  <2> QED
    BY <1>2, <2>2, <2>3, <2>4 DEF Produce
<1>3. ASSUME NEW c \in Consumers, Consume(c) \/ CancelTakesEffect(c) PROVE SemInv'
  <2>1. c \in Threads
    BY DEF Threads
  <2> USE DEF Places, ReadsShared
  <2>2. CASE Begin(c)
    BY <2>1, <2>2, ThreadKeepsSemInv DEF Begin, LookAtStop
  <2>3. CASE sem_wait(c)
    BY <2>1, <2>3, ThreadKeepsSemInv DEF sem_wait
  <2>4. CASE TookOne(c)
    BY <2>1, <2>4, ThreadKeepsSemInv DEF TookOne, LookAtStop
  <2>5. CASE Nap(c)
    BY <2>1, <2>5, ThreadKeepsSemInv DEF Nap
  <2>6. CASE CancelTakesEffect(c)
    BY <2>1, <2>6, ThreadKeepsSemInv DEF CancelTakesEffect
  <2> QED
    BY <1>3, <2>2, <2>3, <2>4, <2>5, <2>6 DEF Consume
<1>4. CASE UNCHANGED semVars
  BY <1>4 DEF semVars, SemInv, JoinedSoFar
<1> QED
  BY <1>1, <1>2, <1>3, <1>4 DEF SemNext

-----------------------------------------------------------------------------
\* main of c4-2 frees the structure only when no thread will touch it again: it has joined
\* the producer and, after cancelling them, both consumers.
THEOREM FreeIsLast == SemSpec => []FreedAfterUse
<1>1. SemInit => SemInv
  BY InitSemInv
<1>2. SemInv /\ [SemNext]_semVars => SemInv'
  BY NextKeepsSemInv
<1>3. SemInv => FreedAfterUse
  BY DEF SemInv, JoinedSoFar, FreedAfterUse, Alive, ReadsShared, Threads
<1> QED
  BY <1>1, <1>2, <1>3, PTL DEF SemSpec

-----------------------------------------------------------------------------
\* The tokens of the semaphore against the count: a post is paid for by the count-down
\* that follows it, and until the producer has ended there is one to come.
Account(s, n, l) ==
    /\ s \in Nat /\ n \in 0..Count
    /\ s <= Count - n + 1 \/ (l = "count" /\ s <= Count - n + 2)
    /\ l # "ended" => n > 0
Tokens == Account(sem, cnt, at[Producer])

Ranges ==
    /\ main \in {"start", "join producer", "cancel", "join", "free", "return", "exit"}
    /\ at \in [Threads -> Places]
    /\ seen \subseteq Threads /\ cancelled \subseteq Consumers
    /\ stop \in BOOLEAN /\ freed \in BOOLEAN

\* main of c4-2 starts with one token and the whole count.
LEMMA InitTokens == SemInit => Ranges /\ Tokens
<1> SUFFICES ASSUME SemInit PROVE Ranges /\ Tokens
  OBVIOUS
<1>1. Ranges
  BY DEF SemInit, Ranges, Places, ReadsShared
<1>2. Tokens
  <2>1. sem = 1 /\ cnt = Count /\ at[Producer] = "none"
    BY DEF SemInit, Threads
  <2> QED
    BY <2>1, CountAssumption DEF Tokens, Account
<1> QED
  BY <1>1, <1>2

\* A wait takes a token, a post adds one, and the count-down pays for it.
LEMMA AccountKept ==
    ASSUME NEW s, NEW n, NEW l, Account(s, n, l)
    PROVE  /\ s > 0 => Account(s - 1, n, l)
           /\ l = "post" => Account(s + 1, n, "count")
           /\ l = "count" => Account(s, n - 1, "ended")
           /\ l = "count" /\ n - 1 # 0 => Account(s, n - 1, "post")
BY CountAssumption DEF Account

\* The steps of main leave the semaphore and the count alone.
LEMMA MainKeepsTokens == Ranges /\ Tokens /\ MainThread => Ranges' /\ Tokens'
<1> SUFFICES ASSUME Ranges, Tokens, MainThread PROVE Ranges' /\ Tokens'
  OBVIOUS
<1> USE ProducerAssumption DEF Ranges, Tokens, Account, Threads, MainTo, Places, ReadsShared
<1>1. CASE NoMemory
  BY <1>1 DEF NoMemory
<1>2. ASSUME NEW t \in Threads, Create(t) PROVE Ranges' /\ Tokens'
  BY <1>2 DEF Create, To
<1>3. CASE JoinProducer
  BY <1>3 DEF JoinProducer
<1>4. CASE CancelConsumers
  BY <1>4 DEF CancelConsumers
<1>5. CASE JoinConsumers
  BY <1>5 DEF JoinConsumers
<1>6. CASE Free
  BY <1>6 DEF Free
<1>7. CASE Return
  BY <1>7 DEF Return
<1> QED
  BY <1>1, <1>2, <1>3, <1>4, <1>5, <1>6, <1>7 DEF MainThread

\* Every step of main and of the threads of c4-2 keeps the account of the tokens.
LEMMA NextKeepsTokens == Ranges /\ Tokens /\ [SemNext]_semVars => Ranges' /\ Tokens'
<1> SUFFICES ASSUME Ranges, Tokens, [SemNext]_semVars PROVE Ranges' /\ Tokens'
  OBVIOUS
<1> USE ProducerAssumption, CountAssumption
        DEF Ranges, Tokens, Threads, Places, ReadsShared, To, LookAtStop
<1>1. CASE MainThread
  BY <1>1, MainKeepsTokens
<1>2. CASE Begin(Producer)
  <2>1. Ranges'
    BY <1>2 DEF Begin
  <2>2. /\ UNCHANGED <<sem, cnt>> /\ at[Producer] = "begin"
        /\ at'[Producer] \in {"ended", "post"}
    BY <1>2 DEF Begin
  <2>3. Tokens'
    BY <2>2 DEF Account
  <2> QED
    BY <2>1, <2>3
<1>3. CASE Post
  <2>1. Ranges'
    BY <1>3 DEF Post
  <2>2. sem' = sem + 1 /\ cnt' = cnt /\ at[Producer] = "post" /\ at'[Producer] = "count"
    BY <1>3 DEF Post
  <2>3. Account(sem, cnt, "post")
    BY <2>2
  <2>4. Account(sem + 1, cnt, "count")
    BY ONLY <2>3, CountAssumption, AccountKept
  <2>5. Tokens'
    BY <2>2, <2>4
  <2> QED
    BY <2>1, <2>5
<1>4. CASE CountDown
  <2>1. Ranges'
    BY <1>4 DEF CountDown
  <2>2. /\ sem' = sem /\ cnt' = cnt - 1 /\ at[Producer] = "count"
        /\ at'[Producer] = "ended" \/ (at'[Producer] = "post" /\ cnt' # 0)
    BY <1>4 DEF CountDown
  <2>3. Account(sem, cnt, "count")
    BY <2>2
  <2>4. /\ Account(sem, cnt - 1, "ended")
        /\ cnt - 1 # 0 => Account(sem, cnt - 1, "post")
    BY ONLY <2>3, CountAssumption, AccountKept
  <2>5. Tokens'
    BY <2>2, <2>4
  <2> QED
    BY <2>1, <2>5
<1>5. ASSUME NEW c \in Consumers, Consume(c) \/ CancelTakesEffect(c)
      PROVE  Ranges' /\ Tokens'
  <2>1. c # Producer
    OBVIOUS
  <2>2. CASE Begin(c)
    BY <2>1, <2>2 DEF Begin
  <2>3. CASE sem_wait(c)
    <3>1. Ranges'
      BY <2>3 DEF sem_wait
    <3>2. sem > 0 /\ sem' = sem - 1 /\ cnt' = cnt /\ at'[Producer] = at[Producer]
      BY <2>1, <2>3 DEF sem_wait
    <3>3. Account(sem - 1, cnt, at[Producer])
      BY <3>2, AccountKept
    <3>4. Tokens'
      BY <3>2, <3>3
    <3> QED
      BY <3>1, <3>4
  <2>4. CASE TookOne(c)
    BY <2>1, <2>4 DEF TookOne
  <2>5. CASE Nap(c)
    BY <2>1, <2>5 DEF Nap
  <2>6. CASE CancelTakesEffect(c)
    BY <2>1, <2>6 DEF CancelTakesEffect
  <2> QED
    BY <1>5, <2>2, <2>3, <2>4, <2>5, <2>6 DEF Consume
<1>6. CASE UNCHANGED semVars
  BY <1>6 DEF semVars
<1> QED
  BY <1>1, <1>2, <1>3, <1>4, <1>5, <1>6 DEF SemNext, Produce

\* The variables of c4-2 keep their types, and the semaphore never holds more than its
\* first token and one for each of the cnt posts: the producer stops in time.
THEOREM SemTypeCorrect == SemSpec => []SemTypeOK
<1>1. SemInit => Ranges /\ Tokens
  BY InitTokens
<1>2. Ranges /\ Tokens /\ [SemNext]_semVars => Ranges' /\ Tokens'
  BY NextKeepsTokens
<1>3. Ranges /\ Tokens => SemTypeOK
  <2>1. Tokens => sem \in 0..(Count + 1) /\ cnt \in 0..Count
    BY CountAssumption DEF Tokens, Account
  <2> QED
    BY <2>1 DEF Ranges, SemTypeOK
<1> QED
  BY <1>1, <1>2, <1>3, PTL DEF SemSpec
=============================================================================
