------------------------------- MODULE SemDemo -------------------------------
(***************************************************************************)
(* Producer and consumers that share one structure: c4-2/main.c.           *)
(*                                                                         *)
(* The producer posts the semaphore cnt times and then raises stop.  A     *)
(* consumer waits for the semaphore and looks at stop only after it has    *)
(* one, so it may never see it: main cancels the consumers.  Then it joins *)
(* them and frees the structure.  The waits of slot[] are left out, their  *)
(* reads of the structure are not.                                         *)
(***************************************************************************)
EXTENDS Integers

CONSTANTS
    Consumers,      \* subid[0] and subid[1]
    Producer,       \* subid[2]
    Count           \* ptd->cnt at the start, 10 in the code

ASSUME ProducerAssumption == Producer \notin Consumers
ASSUME CountAssumption == Count \in Nat \ {0}

Threads == Consumers \cup {Producer}

VARIABLES
    main,           \* where main is
    at,             \* where each thread is; "none" is not created
    seen,           \* the threads whose local stop is set
    cancelled,      \* the threads with a cancellation pending
    sem, cnt, stop, \* the fields of *ptd
    freed           \* free(ptd)

semVars == <<main, at, seen, cancelled, sem, cnt, stop, freed>>

SemInit ==
    /\ main = "start" /\ at = [t \in Threads |-> "none"]
    /\ seen = {} /\ cancelled = {}
    /\ sem = 1 /\ cnt = Count /\ stop = FALSE
    /\ freed = FALSE

\* The process is there; its end ends all threads.
Alive == main # "exit"
To(t, l) == at' = [at EXCEPT ![t] = l]

-----------------------------------------------------------------------------
(***************************************************************************)
(* The threads.  ReadsShared are the places from which the next step of a  *)
(* thread goes through pd.                                                 *)
(***************************************************************************)
ReadsShared == {"begin", "wait", "took", "nap", "post", "count"}
Places == ReadsShared \cup {"none", "ended"}

\* A thread copies stop before its loop, and at the end of each round.
LookAtStop(t, from, next) ==
    /\ Alive /\ at[t] = from
    /\ seen' = IF stop THEN seen \cup {t} ELSE seen
    /\ To(t, next)
    /\ UNCHANGED <<main, cancelled, sem, cnt, stop, freed>>

Begin(t) ==
    LookAtStop(t, "begin", IF stop THEN "ended" ELSE IF t = Producer THEN "post" ELSE "wait")

sem_wait(c) ==
    /\ Alive /\ at[c] = "wait" /\ sem > 0
    /\ sem' = sem - 1
    /\ To(c, "took")
    /\ UNCHANGED <<main, seen, cancelled, cnt, stop, freed>>

TookOne(c) == LookAtStop(c, "took", "nap")

\* usleep(pd->slot[0]), and the head of the loop.
Nap(c) ==
    /\ Alive /\ at[c] = "nap"
    /\ To(c, IF c \in seen THEN "ended" ELSE "wait")
    /\ UNCHANGED <<main, seen, cancelled, sem, cnt, stop, freed>>

\* sleep, gen_thread_slot and sem_post.
Post ==
    /\ Alive /\ at[Producer] = "post"
    /\ sem' = sem + 1
    /\ To(Producer, "count")
    /\ UNCHANGED <<main, seen, cancelled, cnt, stop, freed>>

\* Only the producer writes cnt and stop, so that what it reads back is what it wrote.
CountDown ==
    /\ Alive /\ at[Producer] = "count"
    /\ cnt' = cnt - 1
    /\ stop' = (stop \/ cnt' = 0)
    /\ seen' = IF stop' THEN seen \cup {Producer} ELSE seen
    /\ To(Producer, IF stop' THEN "ended" ELSE "post")
    /\ UNCHANGED <<main, cancelled, sem, freed>>

\* Cancellation is deferred to the next cancellation point; the printf, sem_wait and
\* usleep calls put one at each place a consumer can be.
CancelTakesEffect(t) ==
    /\ Alive /\ t \in cancelled /\ at[t] \notin {"none", "ended"}
    /\ To(t, "ended")
    /\ UNCHANGED <<main, seen, cancelled, sem, cnt, stop, freed>>

Consume(c) == Begin(c) \/ sem_wait(c) \/ TookOne(c) \/ Nap(c)
Produce == Begin(Producer) \/ Post \/ CountDown

-----------------------------------------------------------------------------
(***************************************************************************)
(* The main thread.                                                        *)
(***************************************************************************)
MainTo(l) == main' = l

\* Without memory for the structure, which is then not there to be freed, or for the
\* thread attributes there are no threads.
NoMemory ==
    /\ main = "start" /\ (\A t \in Threads : at[t] = "none") /\ MainTo("exit")
    /\ freed' \in BOOLEAN
    /\ UNCHANGED <<at, seen, cancelled, sem, cnt, stop>>

\* The threads are created in the order of func_list, the producer last.  A failure
\* ends the process, with the threads that are there.
Create(t) ==
    /\ main = "start" /\ at[t] = "none"
    /\ t = Producer => \A c \in Consumers : at[c] # "none"
    /\ \/ To(t, "begin") /\ MainTo(IF t = Producer THEN "join producer" ELSE "start")
       \/ MainTo("exit") /\ UNCHANGED at
    /\ UNCHANGED <<seen, cancelled, sem, cnt, stop, freed>>

JoinProducer ==
    /\ main = "join producer" /\ at[Producer] = "ended" /\ MainTo("cancel")
    /\ UNCHANGED <<at, seen, cancelled, sem, cnt, stop, freed>>

\* Mutant: the consumers are left to find stop by themselves.
CancelConsumers_None ==
    /\ main = "cancel" /\ MainTo("join")
    /\ UNCHANGED <<at, seen, cancelled, sem, cnt, stop, freed>>
CancelConsumers ==
    /\ main = "cancel" /\ MainTo("join")
    /\ cancelled' = Consumers
    /\ UNCHANGED <<at, seen, sem, cnt, stop, freed>>

\* Mutant: one consumer is joined, the other forgotten.
Joined_One == \E c \in Consumers : at[c] = "ended"
Joined == \A c \in Consumers : at[c] = "ended"

JoinConsumers ==
    /\ main = "join" /\ Joined /\ MainTo("free")
    /\ UNCHANGED <<at, seen, cancelled, sem, cnt, stop, freed>>

Free ==
    /\ main = "free" /\ MainTo("return")
    /\ freed' = TRUE
    /\ UNCHANGED <<at, seen, cancelled, sem, cnt, stop>>

Return ==
    /\ main = "return" /\ MainTo("exit")
    /\ UNCHANGED <<at, seen, cancelled, sem, cnt, stop, freed>>

MainThread ==
    \/ NoMemory \/ \E t \in Threads : Create(t)
    \/ JoinProducer \/ CancelConsumers \/ JoinConsumers \/ Free \/ Return

SemNext ==
    \/ MainThread \/ Produce
    \/ \E c \in Consumers : Consume(c) \/ CancelTakesEffect(c)

SemSpec == SemInit /\ [][SemNext]_semVars

-----------------------------------------------------------------------------
(***************************************************************************)
(* Properties.                                                             *)
(***************************************************************************)
\* Type correctness; the semaphore has at most the first token and one for each post.
SemTypeOK ==
    /\ main \in {"start", "join producer", "cancel", "join", "free", "return", "exit"}
    /\ at \in [Threads -> Places]
    /\ seen \subseteq Threads /\ cancelled \subseteq Consumers
    /\ sem \in 0..(Count + 1) /\ cnt \in 0..Count
    /\ stop \in BOOLEAN /\ freed \in BOOLEAN

\* The structure outlives its users: once it is freed no thread of a living process is at
\* a place from which it goes on to read or write it.
FreedAfterUse == freed /\ Alive => \A t \in Threads : at[t] \notin ReadsShared

\* The program ends when its threads have been created, whichever consumer is blocked
\* when the producer stops posting.
ProgramEnds == at[Producer] # "none" ~> main = "exit"
=============================================================================
