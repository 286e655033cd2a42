---------------------------- MODULE SerialThread ----------------------------
(***************************************************************************)
(* The serial device of demo-dh (drivers/serial_thread.c, with the state   *)
(* table of common/island.c and the wrappers of common/oslib.c).           *)
(*                                                                         *)
(* A device owns one worker thread.  A caller of read or write fills a     *)
(* channel, stores a command in the single slot ctrl->cmd, posts `active'  *)
(* and waits for the worker's `rx_ready' (with a time-out) or `tx_ready'   *)
(* (without one).  No lock is taken anywhere: the lock functions of the    *)
(* file are compiled out, so every access to shared memory is a step.      *)
(*                                                                         *)
(* The DEBUG build is modelled, the default target: there the worker's     *)
(* receive step loops the transmit channel back.                           *)
(***************************************************************************)
EXTENDS Integers, FiniteSets, Sequences

CONSTANTS
    Callers,    \* threads that call read and write
    Owner,      \* the caller that creates and destroys the device
    Bytes,      \* byte values
    BufSize,    \* SERIAL_CHAN_BUF_SIZE
    Payloads,   \* what write is called with: byte sequences of any length
    ReadSizes,  \* sizes of the buffers that read is called with
    FreshLens,  \* what the length of a new channel may hold, read as an int
    Bauds,      \* line speeds
    DefaultBaud,\* SER_CONF_DEFAULT_BAUD
    Junk,       \* the content of a byte nobody has written
    MaxCalls    \* bound: read and write calls of each caller

ASSUME CallersAssumption == IsFiniteSet(Callers) /\ Owner \in Callers
ASSUME BufSizeAssumption == BufSize \in Nat \ {0}
ASSUME PayloadsAssumption == Payloads \subseteq Seq(Bytes)
ASSUME LengthsAssumption == ReadSizes \subseteq Nat /\ FreshLens \subseteq Int
ASSUME BaudAssumption == DefaultBaud \in Bauds
ASSUME MaxCallsAssumption == MaxCalls \in Nat
ASSUME JunkAssumption == Junk \notin Bytes

VARIABLES
    dev,        \* the struct serial_dev: "none", "live" or "freed"
    status,     \* ctrl->status
    speed,      \* conf->speed
    cmd,        \* ctrl->cmd
    stop,       \* ctrl->stop
    active,     \* value of the semaphore ctrl->active
    ready,      \* values of ctrl->rx_ready ("RD") and ctrl->tx_ready ("WR")
    txLen, txBuf,   \* prop->txchan
    rxCnt, rxBuf,   \* prop->rxchan
    wpc, land, wcmd, wlen, wi,  \* the worker: control point and locals
    pc, op, arg, size,          \* the callers: control point, call, arguments,
    k, dst, ret,                \* byte being copied, buffer of the read, result
    calls,      \* calls made, against MaxCalls
    pend,       \* history: the command sent and not yet fetched by the worker
    lost,       \* history: commands overwritten before the worker fetched them
    timeouts,   \* history: reads that gave up waiting
    last, wrote,\* history: the payload of the latest write call, if there was one
    overran     \* the buffer that was accessed past its end: "tx" or "rx" for a
                \* channel's, "dst" for the reader's, "no" for none

ctrlVars == <<dev, status, speed, stop>>
chanVars == <<txLen, txBuf, rxCnt, rxBuf>>
workData == <<land, wcmd, wlen, wi>>
workVars == <<wpc, workData>>
callData == <<op, arg, size, k, dst, ret, calls>>
callVars == <<pc, callData>>
histVars == <<pend, lost, timeouts, last, wrote, overran>>
vars == <<ctrlVars, cmd, active, ready, chanVars, workVars, callVars, histVars>>

Ops == {"RD", "WR"}
Cmds == Ops \cup {"NULL"}
Lands == {"ISLAND_NULL", "ISLAND_IDLE", "ISLAND_TX", "ISLAND_RX"}
Cells == Bytes \cup {Junk}
Buffers == [1..BufSize -> Cells]
Blank == [i \in 1..BufSize |-> Junk]

-----------------------------------------------------------------------------
(***************************************************************************)
(* island.c: the worker moves between islands with a ticket; a ticket that *)
(* is not in the table leads to ISLAND_NULL.                               *)
(***************************************************************************)
\* Mutant: the ticket back from the receive island is missing.
tickets_NoWayBack ==
    { <<"ISLAND_IDLE", "ISLAND_TX", "TK_IDLE_TO_TX">>,
      <<"ISLAND_TX", "ISLAND_IDLE", "TK_TX_TO_IDLE">>,
      <<"ISLAND_IDLE", "ISLAND_RX", "TK_IDLE_TO_RX">> }

tickets ==
    { <<"ISLAND_IDLE", "ISLAND_IDLE", "TK_IDLE_TO_IDLE">>,
      <<"ISLAND_IDLE", "ISLAND_TX",   "TK_IDLE_TO_TX">>,
      <<"ISLAND_TX",   "ISLAND_IDLE", "TK_TX_TO_IDLE">>,
      <<"ISLAND_IDLE", "ISLAND_RX",   "TK_IDLE_TO_RX">>,
      <<"ISLAND_RX",   "ISLAND_RX",   "TK_RX_TO_RX">>,
      <<"ISLAND_RX",   "ISLAND_IDLE", "TK_RX_TO_IDLE">> }

take_ship(from, t) ==
    IF \E to \in Lands : <<from, to, t>> \in tickets
    THEN CHOOSE to \in Lands : <<from, to, t>> \in tickets
    ELSE "ISLAND_NULL"

\* serial_run's switch: where the loop goes next from an island.  The default
\* arm, serial_rst_process, resets the island to idle.
Entry(l) == CASE l = "ISLAND_TX" -> "tx"
              [] l = "ISLAND_RX" -> "rx"
              [] OTHER           -> "wait"
Reset(l) == IF l = "ISLAND_NULL" THEN "ISLAND_IDLE" ELSE l

(***************************************************************************)
(* oslib.c: sem_post, sem_wait and pthread_join; then the small decisions  *)
(* of serial_thread.c that the mutants of this module change.              *)
(***************************************************************************)
Posted_Lost(value) == value                 \* mutant: the post is forgotten
Posted(value) == value + 1

Available_Always(value) == TRUE             \* mutant: nobody waits
Available(value) == value > 0

Joined_Skipped == TRUE                        \* mutant: the join is left out
Joined == wpc = "done"

ClearedSlot_Kept == cmd                     \* mutant: the slot is not cleared
ClearedSlot == "NULL"

StoredLen_Kept(p) == txLen                  \* mutant: the length is not stored
StoredLen(p) == Len(p)

WriteResult == txLen

LastByte_Early(i, n) == i >= n - 1          \* mutant: the loop ends one byte early
LastByte(i, n) == i = n

-----------------------------------------------------------------------------
Init ==
    /\ dev = "none" /\ status = 0 /\ speed = DefaultBaud
    /\ cmd = "NULL" /\ stop = FALSE /\ active = 0 /\ ready = [o \in Ops |-> 0]
    /\ txLen = 0 /\ txBuf = Blank /\ rxCnt = 0 /\ rxBuf = Blank
    /\ wpc = "off" /\ land = "ISLAND_IDLE" /\ wcmd = "NULL" /\ wlen = 0 /\ wi = 1
    /\ pc = [c \in Callers |-> "idle"] /\ op = [c \in Callers |-> "WR"]
    /\ arg = [c \in Callers |-> <<>>] /\ size = [c \in Callers |-> 0]
    /\ k = [c \in Callers |-> 1]
    /\ dst = [c \in Callers |-> Blank] /\ ret = [c \in Callers |-> -1]
    /\ calls = [c \in Callers |-> 0]
    /\ pend = "NULL" /\ lost = [o \in Ops |-> 0] /\ timeouts = 0
    /\ last = <<>> /\ wrote = FALSE /\ overran = "no"

(***************************************************************************)
(* serial_dev_create.  The structure comes from malloc: txchan->len keeps  *)
(* whatever the memory held until the first write stores it.  When a       *)
(* semaphore or the thread cannot be had, the structure is freed again and *)
(* the caller gets NULL.                                                   *)
(***************************************************************************)
serial_dev_create ==
    /\ dev = "none" /\ pc[Owner] = "idle"
    /\ dev' = "live" /\ wpc' = "wait" /\ txLen' \in FreshLens
    /\ status' = 0 /\ speed' = DefaultBaud
    /\ UNCHANGED <<stop, cmd, active, ready, txBuf, rxCnt, rxBuf, workData,
                   callVars, histVars>>

serial_dev_create_fails ==
    /\ dev = "none" /\ pc[Owner] = "idle"
    /\ dev' = "freed"
    /\ UNCHANGED <<status, speed, stop, cmd, active, ready, chanVars, workVars,
                   callVars, histVars>>

\* A thread uses the device between its creation and its destruction; the owner
\* destroys it once no call is in progress (tests/main.c, lines 22-47).
CanCall(c) == dev = "live" /\ ~stop /\ pc[c] = "idle" /\ overran = "no"

serial_dev_open(c) ==
    /\ CanCall(c) /\ status' = 1
    /\ UNCHANGED <<dev, speed, stop, cmd, active, ready, chanVars, workVars,
                   callVars, histVars>>

serial_dev_close(c) ==
    /\ CanCall(c) /\ status' = 0
    /\ UNCHANGED <<dev, speed, stop, cmd, active, ready, chanVars, workVars,
                   callVars, histVars>>

serial_dev_config(c) ==
    /\ CanCall(c) /\ speed' \in Bauds
    /\ UNCHANGED <<dev, status, stop, cmd, active, ready, chanVars, workVars,
                   callVars, histVars>>

-----------------------------------------------------------------------------
(***************************************************************************)
(* The callers.  Nothing in the file compares a length with the size of    *)
(* a buffer.  What follows an access past the end of one is undefined; the *)
(* model records it and says nothing of what comes after.                  *)
(***************************************************************************)
Overrun(buffer) ==
    /\ overran' = buffer
    /\ UNCHANGED <<ctrlVars, cmd, active, ready, chanVars, workVars, callVars, pend,
                   lost, timeouts, last, wrote>>

\* serial_dev_write, up to the copy of the caller's bytes.
serial_dev_write(c) ==
    \E p \in Payloads :
        /\ CanCall(c) /\ calls[c] < MaxCalls
        /\ txLen' = StoredLen(p)
        /\ pc' = [pc EXCEPT ![c] = IF p = <<>> THEN "cmd" ELSE "copyIn"]
        /\ op' = [op EXCEPT ![c] = "WR"] /\ arg' = [arg EXCEPT ![c] = p]
        /\ k' = [k EXCEPT ![c] = 1] /\ calls' = [calls EXCEPT ![c] = @ + 1]
        /\ last' = p /\ wrote' = TRUE
        /\ UNCHANGED <<ctrlVars, cmd, active, ready, txBuf, rxCnt, rxBuf, workVars,
                   size, dst, ret, pend, lost, timeouts, overran>>

\* Its memcpy into txchan->buf, a byte a step: the worker may read meanwhile.
CopyIn(c) ==
    /\ pc[c] = "copyIn" /\ k[c] <= BufSize
    /\ txBuf' = [txBuf EXCEPT ![k[c]] = arg[c][k[c]]]
    /\ k' = [k EXCEPT ![c] = @ + 1]
    /\ pc' = [pc EXCEPT ![c] = IF LastByte(k[c], Len(arg[c])) THEN "cmd" ELSE "copyIn"]
    /\ UNCHANGED <<ctrlVars, cmd, active, ready, txLen, rxCnt, rxBuf, workVars,
                   op, arg, size, dst, ret, calls, histVars>>

\* serial_dev_read into a buffer of n bytes, up to the command.  rxchan->len, where
\* n is stored, is never read.
serial_dev_read(c) ==
    \E n \in ReadSizes :
        /\ CanCall(c) /\ calls[c] < MaxCalls
        /\ rxCnt' = 0 /\ size' = [size EXCEPT ![c] = n]
        /\ pc' = [pc EXCEPT ![c] = "cmd"] /\ op' = [op EXCEPT ![c] = "RD"]
        /\ calls' = [calls EXCEPT ![c] = @ + 1]
        /\ dst' = [dst EXCEPT ![c] = Blank]
        /\ UNCHANGED <<ctrlVars, cmd, active, ready, txLen, txBuf, rxBuf, workVars,
                       arg, k, ret, histVars>>

\* What an overwritten command adds to `lost'.
Lose(o) == IF o \in Ops THEN [lost EXCEPT ![o] = @ + 1] ELSE lost

\* serial_send_cmd: the store into the slot ...
SendCmd(c) ==
    /\ pc[c] = "cmd"
    /\ cmd' = op[c] /\ pend' = op[c] /\ lost' = Lose(pend)
    /\ pc' = [pc EXCEPT ![c] = "post"]
    /\ UNCHANGED <<ctrlVars, active, ready, chanVars, workVars, callData,
                   timeouts, last, wrote, overran>>

\* ... and the post that wakes the worker.
SendPost(c) ==
    /\ pc[c] = "post"
    /\ active' = Posted(active) /\ pc' = [pc EXCEPT ![c] = "wait"]
    /\ UNCHANGED <<ctrlVars, cmd, ready, chanVars, workVars, callData, histVars>>

\* serial_wait_tx_ready and the return of serial_dev_write.
serial_wait_tx_ready(c) ==
    /\ pc[c] = "wait" /\ op[c] = "WR" /\ Available(ready["WR"])
    /\ ready' = [ready EXCEPT !["WR"] = @ - 1]
    /\ ret' = [ret EXCEPT ![c] = WriteResult] /\ pc' = [pc EXCEPT ![c] = "idle"]
    /\ UNCHANGED <<ctrlVars, cmd, active, chanVars, workVars, op, arg, size, k,
                   dst, calls, histVars>>

\* serial_wait_rx_ready that gets a token, and the read of rxchan->cnt.
serial_wait_rx_ready(c) ==
    /\ pc[c] = "wait" /\ op[c] = "RD" /\ Available(ready["RD"])
    /\ ready' = [ready EXCEPT !["RD"] = @ - 1]
    /\ ret' = [ret EXCEPT ![c] = rxCnt] /\ k' = [k EXCEPT ![c] = 1]
    /\ pc' = [pc EXCEPT ![c] = IF rxCnt = 0 THEN "idle" ELSE "copyOut"]
    /\ UNCHANGED <<ctrlVars, cmd, active, chanVars, workVars, op, arg, size, dst,
                   calls, histVars>>

\* serial_wait_rx_ready that fails: the deadline passes (sem_timedwait may report
\* it although a post has just come) or clock_gettime fails.
ReadTimeout(c) ==
    /\ pc[c] = "wait" /\ op[c] = "RD"
    /\ ret' = [ret EXCEPT ![c] = -1] /\ pc' = [pc EXCEPT ![c] = "idle"]
    /\ timeouts' = timeouts + 1
    /\ UNCHANGED <<ctrlVars, cmd, active, ready, chanVars, workVars, op, arg,
                   size, k, dst, calls, pend, lost, last, wrote, overran>>

\* The memcpy of serial_dev_read out of rxchan->buf.
CopyOut(c) ==
    /\ pc[c] = "copyOut" /\ k[c] <= size[c]
    /\ dst' = [dst EXCEPT ![c][k[c]] = rxBuf[k[c]]]
    /\ k' = [k EXCEPT ![c] = @ + 1]
    /\ pc' = [pc EXCEPT ![c] = IF LastByte(k[c], ret[c]) THEN "idle" ELSE "copyOut"]
    /\ UNCHANGED <<ctrlVars, cmd, active, ready, chanVars, workVars, op, arg, size,
                   ret, calls, histVars>>

\* Either memcpy past the end of the buffer it fills.
CopyOverrun(c) ==
    \/ pc[c] = "copyIn" /\ k[c] > BufSize /\ Overrun("tx")
    \/ pc[c] = "copyOut" /\ k[c] > size[c] /\ Overrun("dst")

\* serial_dev_destroy: serial_send_stop (store, then post), join, close, free.
serial_dev_destroy ==
    /\ CanCall(Owner) /\ \A c \in Callers : pc[c] = "idle"
    /\ stop' = TRUE /\ pc' = [pc EXCEPT ![Owner] = "stopPost"]
    /\ UNCHANGED <<dev, status, speed, cmd, active, ready, chanVars, workVars,
                   callData, histVars>>

StopPost ==
    /\ pc[Owner] = "stopPost"
    /\ active' = Posted(active) /\ pc' = [pc EXCEPT ![Owner] = "join"]
    /\ UNCHANGED <<ctrlVars, cmd, ready, chanVars, workVars, callData, histVars>>

JoinAndFree ==
    /\ pc[Owner] = "join" /\ Joined
    /\ status' = 0 /\ dev' = "freed" /\ pc' = [pc EXCEPT ![Owner] = "idle"]
    /\ UNCHANGED <<speed, stop, cmd, active, ready, chanVars, workVars, callData,
                   histVars>>

-----------------------------------------------------------------------------
(***************************************************************************)
(* The worker, serial_run.                                                 *)
(***************************************************************************)
\* serial_idle_process waits for a post ...
IdleWait ==
    /\ wpc = "wait" /\ Available(active)
    /\ active' = active - 1 /\ wpc' = "check"
    /\ UNCHANGED <<ctrlVars, cmd, ready, chanVars, workData, callVars, histVars>>

\* ... returns at once when the device is being stopped ...
IdleCheck ==
    /\ wpc = "check"
    /\ wpc' = IF stop THEN "recheck" ELSE "fetch"
    /\ UNCHANGED <<ctrlVars, cmd, active, ready, chanVars, workData, callVars,
                   histVars>>

\* ... and else takes the command out of the slot, with a load ...
IdleFetch ==
    /\ wpc = "fetch"
    /\ wcmd' = cmd /\ pend' = "NULL" /\ wpc' = "clear"
    /\ UNCHANGED <<ctrlVars, cmd, active, ready, chanVars, land, wlen, wi,
                   callVars, lost, timeouts, last, wrote, overran>>

\* ... and a store.  Whatever was sent between the two is lost.
IdleClear ==
    /\ wpc = "clear"
    /\ cmd' = ClearedSlot /\ pend' = "NULL" /\ lost' = Lose(pend)
    /\ land' = CASE wcmd = "WR" -> take_ship(land, "TK_IDLE_TO_TX")
                 [] wcmd = "RD" -> take_ship(land, "TK_IDLE_TO_RX")
                 [] OTHER       -> land
    /\ wpc' = "recheck"
    /\ UNCHANGED <<ctrlVars, active, ready, chanVars, wcmd, wlen, wi, callVars,
                   timeouts, last, wrote, overran>>

\* serial_run looks at the stop flag again after serial_idle_process; a command
\* just fetched is dropped when it is set.
RunRecheck ==
    /\ wpc = "recheck"
    /\ wpc' = IF stop THEN "done" ELSE Entry(land)
    /\ land' = IF stop THEN land ELSE Reset(land)
    /\ lost' = CASE stop /\ land = "ISLAND_TX" -> Lose("WR")
                 [] stop /\ land = "ISLAND_RX" -> Lose("RD")
                 [] OTHER -> lost
    /\ UNCHANGED <<ctrlVars, cmd, active, ready, chanVars, wcmd, wlen, wi,
                   callVars, pend, timeouts, last, wrote, overran>>

serial_tx_process ==
    /\ wpc = "tx"
    /\ land' = take_ship(land, "TK_TX_TO_IDLE") /\ wpc' = Entry(land')
    /\ ready' = [ready EXCEPT !["WR"] = Posted(@)]
    /\ UNCHANGED <<ctrlVars, cmd, active, chanVars, wcmd, wlen, wi, callVars,
                   histVars>>

\* serial_rx_process: the length is read once, then the bytes one by one, then
\* the count is stored and the reader woken.  The loop counts with an int, so a
\* length that is negative as an int copies nothing.
serial_rx_process ==
    /\ wpc = "rx"
    /\ land' = take_ship(land, "TK_RX_TO_IDLE")
    /\ wlen' = txLen /\ wi' = 1
    /\ wpc' = IF txLen <= 0 THEN "rxCnt" ELSE "rxCopy"
    /\ UNCHANGED <<ctrlVars, cmd, active, ready, chanVars, wcmd, callVars,
                   histVars>>

RxCopy ==
    /\ wpc = "rxCopy" /\ wi <= BufSize
    /\ rxBuf' = [rxBuf EXCEPT ![wi] = txBuf[wi]]
    /\ wi' = wi + 1 /\ wpc' = IF LastByte(wi, wlen) THEN "rxCnt" ELSE "rxCopy"
    /\ UNCHANGED <<ctrlVars, cmd, active, ready, txLen, txBuf, rxCnt, land, wcmd,
                   wlen, callVars, histVars>>

\* The loop past the end of the two channels.
RxOverrun == wpc = "rxCopy" /\ wi > BufSize /\ Overrun("rx")

RxCount ==
    /\ wpc = "rxCnt"
    /\ rxCnt' = wi - 1 /\ wpc' = "rxPost"
    /\ UNCHANGED <<ctrlVars, cmd, active, ready, txLen, txBuf, rxBuf, workData,
                   callVars, histVars>>

RxPost ==
    /\ wpc = "rxPost"
    /\ ready' = [ready EXCEPT !["RD"] = Posted(@)] /\ wpc' = Entry(land)
    /\ UNCHANGED <<ctrlVars, cmd, active, chanVars, workData, callVars, histVars>>

-----------------------------------------------------------------------------
\* The steps of a call in progress, the steps that start a call, the worker.
CallStep(c) ==
    /\ overran = "no"
    /\ \/ CopyIn(c) \/ SendCmd(c) \/ SendPost(c) \/ serial_wait_tx_ready(c)
       \/ serial_wait_rx_ready(c) \/ ReadTimeout(c) \/ CopyOut(c) \/ CopyOverrun(c)

StartCall(c) ==
    \/ serial_dev_write(c) \/ serial_dev_read(c)
    \/ serial_dev_open(c) \/ serial_dev_close(c) \/ serial_dev_config(c)

OwnerStep == overran = "no" /\ (StopPost \/ JoinAndFree)

Worker ==
    /\ overran = "no"
    /\ \/ IdleWait \/ IdleCheck \/ IdleFetch \/ IdleClear \/ RunRecheck
       \/ serial_tx_process \/ serial_rx_process \/ RxCopy \/ RxOverrun \/ RxCount
       \/ RxPost

\* The program is over once the device is gone, the model after an overrun.
Finished == (dev = "freed" \/ overran # "no") /\ UNCHANGED vars

Next ==
    \/ serial_dev_create \/ serial_dev_create_fails \/ serial_dev_destroy
    \/ \E c \in Callers : StartCall(c) \/ CallStep(c)
    \/ OwnerStep \/ Worker \/ Finished

Spec == Init /\ [][Next]_vars

(***************************************************************************)
(* Every thread that can run is run by the scheduler.  Nothing obliges a   *)
(* thread to make another call.                                            *)
(***************************************************************************)
Fairness ==
    /\ WF_vars(Worker) /\ WF_vars(OwnerStep)
    /\ \A c \in Callers : WF_vars(CallStep(c))

FairSpec == Spec /\ Fairness

-----------------------------------------------------------------------------
(***************************************************************************)
(* Properties.                                                             *)
(***************************************************************************)

CtrlType ==
    /\ dev \in {"none", "live", "freed"} /\ status \in {0, 1} /\ speed \in Bauds
    /\ cmd \in Cmds /\ stop \in BOOLEAN /\ active \in Nat /\ ready \in [Ops -> Nat]
ChanType ==
    /\ txLen \in Int /\ txBuf \in Buffers
    /\ rxCnt \in 0..BufSize /\ rxBuf \in Buffers
WorkType ==
    /\ wpc \in {"off", "wait", "check", "fetch", "clear", "recheck", "tx",
                 "rx", "rxCopy", "rxCnt", "rxPost", "done"}
    /\ land \in Lands \ {"ISLAND_NULL"} /\ wcmd \in Cmds
    /\ wlen \in Int /\ wi \in 1..(BufSize + 1)
CallType ==
    /\ pc \in [Callers -> {"idle", "copyIn", "cmd", "post", "wait", "copyOut",
                           "stopPost", "join"}]
    /\ op \in [Callers -> Ops] /\ arg \in [Callers -> Payloads \cup {<<>>}]
    /\ size \in [Callers -> Nat] /\ k \in [Callers -> 1..(BufSize + 1)]
    /\ dst \in [Callers -> Buffers] /\ ret \in [Callers -> Int]
    /\ calls \in [Callers -> 0..MaxCalls]
HistType ==
    /\ pend \in Cmds /\ lost \in [Ops -> Nat] /\ timeouts \in Nat
    /\ last \in Payloads \cup {<<>>} /\ wrote \in BOOLEAN
    /\ overran \in {"no", "tx", "rx", "dst"}

\* Every variable keeps its type; in particular serial_run never finds itself on
\* ISLAND_NULL, so serial_rst_process is never needed.
TypeOK == CtrlType /\ ChanType /\ WorkType /\ CallType /\ HistType

\* The calls whose command is out and that have not got their answer.
Waiting(o) == {c \in Callers : pc[c] \in {"post", "wait"} /\ op[c] = o}

\* The worker has fetched command o and not answered it yet.
Serving(o) ==
    \/ wpc = "clear" /\ wcmd = o
    \/ wpc \in {"recheck", "tx"} /\ land = "ISLAND_TX" /\ o = "WR"
    \/ wpc \in {"recheck", "rx"} /\ land = "ISLAND_RX" /\ o = "RD"
    \/ wpc \in {"rxCopy", "rxCnt", "rxPost"} /\ o = "RD"

One(b) == IF b THEN 1 ELSE 0
GaveUp(o) == IF o = "RD" THEN timeouts ELSE 0

\* Every answer has one question: the calls waiting for command o, with the reads
\* that gave up, are matched one to one by tokens of the semaphore, the command in
\* the slot, the command being served and the commands that were overwritten.  So
\* the surplus tokens of rx_ready are exactly those of timed-out reads, and a write
\* that never returns is a command that was overwritten.
AnswersAccounted ==
    \A o \in Ops :
        Cardinality(Waiting(o)) + GaveUp(o)
            = ready[o] + One(pend = o) + One(Serving(o)) + lost[o]

\* A command in the slot always has a post of `active' behind it: the worker never
\* goes to sleep on it (unless the device is being stopped).
CommandWakesWorker ==
    pend # "NULL" => \/ active > 0
                     \/ wpc \in {"check", "fetch"}
                     \/ \E c \in Callers : pc[c] = "post"
                     \/ stop

\* A thread that is alone with the device loses a write command only after one of
\* its reads timed out: the late read command is what the write then races with.
LoneWriteNotLost ==
    Cardinality(Callers) = 1 /\ timeouts = 0 => lost["WR"] = 0

\* serial_dev_destroy frees the structure only when nobody can touch it any more:
\* the worker has left serial_run and no call is in progress.
NoUseAfterFree ==
    dev = "freed" => /\ wpc \in {"off", "done"}
                     /\ \A c \in Callers : pc[c] = "idle"

\* For a thread alone with the device, as long as no read has timed out, a read
\* returns the bytes of the latest write, all of them and nothing else (the
\* loop-back of the DEBUG build), the empty write included.
LoopbackExact ==
    \A c \in Callers :
        Callers = {c} /\ pc[c] = "idle" /\ op[c] = "RD" /\ timeouts = 0 /\ wrote
        => /\ ret[c] = Len(last)
           /\ \A i \in 1..Len(last) : dst[c][i] = last[i]

\* serial_thread.c checks no length, so buffers do get overrun.  But for a thread
\* alone with the device that has written something and none of whose reads has
\* timed out, only its own latest arguments can do that: the channel is overrun by a
\* write that does not fit it, its own buffer when it is smaller than what it wrote,
\* and the loop-back, which meets a length nobody stored on a fresh device, is safe.
OverrunIsAsked ==
    \A c \in Callers :
        Callers = {c} /\ timeouts = 0 /\ wrote
        => /\ overran = "tx" => Len(last) > BufSize
           /\ overran = "dst" => Len(last) > size[c]
           /\ overran # "rx"

\* Every call returns, serial_dev_write although it waits without a time-out, unless
\* a write command was overwritten in the slot before the worker fetched it, or a
\* buffer was overrun.
CallReturnsUnlessLost ==
    \A c \in Callers :
        pc[c] # "idle" ~> pc[c] = "idle" \/ lost["WR"] > 0 \/ overran # "no"

\* serial_dev_destroy gets through its join: the worker sees the stop flag wherever
\* it is, and with commands still in the slot (unless a buffer was overrun).
DestroyReturns == stop ~> dev = "freed" \/ overran # "no"
=============================================================================
