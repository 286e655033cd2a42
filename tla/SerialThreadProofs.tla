------------------------- MODULE SerialThreadProofs -------------------------
(***************************************************************************)
(* Proofs about SerialThread, for any number of calling threads.           *)
(***************************************************************************)
EXTENDS SerialThread, FiniteSetTheorems, TLAPS

(***************************************************************************)
(* The inductive invariant.  WorkerShape ties the worker's island to its   *)
(* control point, CopyBounds relates the three byte loops to their         *)
(* lengths, SlotShape says that outside the worker's load/store window    *)
(* the slot holds the command last sent, and LifeShape orders creation,    *)
(* use and destruction.                                                    *)
(***************************************************************************)
WorkerShape ==
    /\ wpc = "tx" => land = "ISLAND_TX"
    /\ wpc = "rx" => land = "ISLAND_RX"
    /\ wpc \notin {"tx", "rx", "recheck", "done"} => land = "ISLAND_IDLE"

CopyBounds ==
    /\ wpc = "rxCopy" => wi <= wlen
    /\ wpc = "rxCnt" => wi = IF wlen > 0 THEN wlen + 1 ELSE 1
    /\ \A c \in Callers :
        /\ pc[c] = "copyIn" => k[c] <= Len(arg[c])
        /\ pc[c] = "copyOut" => k[c] <= ret[c] /\ ret[c] <= BufSize

SlotShape == wpc # "clear" => cmd = pend

LifeShape ==
    /\ dev = "none" => /\ wpc = "off" /\ ~stop /\ overran = "no"
                       /\ \A c \in Callers : pc[c] = "idle"
    /\ dev = "live" => wpc # "off"
    /\ wpc = "done" => stop
    /\ stop => \A c \in Callers : pc[c] \in {"idle", "stopPost", "join"}
    /\ \A c \in Callers : pc[c] \in {"stopPost", "join"} => c = Owner /\ stop
    /\ dev = "freed" => /\ wpc \in {"off", "done"}
                        /\ \A c \in Callers : pc[c] = "idle"

IInv == TypeOK /\ WorkerShape /\ CopyBounds /\ SlotShape /\ LifeShape

-----------------------------------------------------------------------------
\* A payload, or the empty initial argument, is a sequence of bytes.
LEMMA PayloadFits ==
    ASSUME NEW p \in Payloads \cup {<<>>}
    PROVE  /\ Len(p) \in Nat
           /\ \A i \in 1..Len(p) : p[i] \in Bytes
           /\ p = <<>> <=> Len(p) = 0
<1>1. CASE p = <<>>
  BY <1>1
<1>2. CASE p \in Payloads
  <2>1. p \in Seq(Bytes)
    BY <1>2, PayloadsAssumption
  <2> QED
    BY <2>1
<1> QED
  BY <1>1, <1>2

\* take_ship follows the table of island.c.
LEMMA Tickets ==
    /\ take_ship("ISLAND_IDLE", "TK_IDLE_TO_TX") = "ISLAND_TX"
    /\ take_ship("ISLAND_IDLE", "TK_IDLE_TO_RX") = "ISLAND_RX"
    /\ take_ship("ISLAND_TX", "TK_TX_TO_IDLE") = "ISLAND_IDLE"
    /\ take_ship("ISLAND_RX", "TK_RX_TO_IDLE") = "ISLAND_IDLE"
<1>1. \A y \in Lands :
        /\ <<"ISLAND_IDLE", y, "TK_IDLE_TO_TX">> \in tickets <=> y = "ISLAND_TX"
        /\ <<"ISLAND_IDLE", y, "TK_IDLE_TO_RX">> \in tickets <=> y = "ISLAND_RX"
        /\ <<"ISLAND_TX", y, "TK_TX_TO_IDLE">> \in tickets <=> y = "ISLAND_IDLE"
        /\ <<"ISLAND_RX", y, "TK_RX_TO_IDLE">> \in tickets <=> y = "ISLAND_IDLE"
  BY DEF tickets
<1>2. {"ISLAND_TX", "ISLAND_RX", "ISLAND_IDLE"} \subseteq Lands
  BY DEF Lands
<1>3. take_ship("ISLAND_IDLE", "TK_IDLE_TO_TX") = "ISLAND_TX"
  BY <1>1, <1>2 DEF take_ship
<1>4. take_ship("ISLAND_IDLE", "TK_IDLE_TO_RX") = "ISLAND_RX"
  BY <1>1, <1>2 DEF take_ship
<1>5. take_ship("ISLAND_TX", "TK_TX_TO_IDLE") = "ISLAND_IDLE"
  BY <1>1, <1>2 DEF take_ship
<1>6. take_ship("ISLAND_RX", "TK_RX_TO_IDLE") = "ISLAND_IDLE"
  BY <1>1, <1>2 DEF take_ship
<1> QED
  BY <1>3, <1>4, <1>5, <1>6

-----------------------------------------------------------------------------
\* The initial state satisfies the invariant.
LEMMA InitIInv == Init => IInv
<1> SUFFICES ASSUME Init PROVE IInv
  OBVIOUS
<1> USE DEF Init, Ops, Cmds, Lands
<1>1. Blank \in Buffers
  BY DEF Blank, Buffers, Cells
<1>2. CtrlType /\ HistType
  BY BaudAssumption DEF CtrlType, HistType
<1>3. ChanType /\ WorkType
  BY <1>1, BufSizeAssumption DEF ChanType, WorkType
<1>4. CallType
  BY <1>1, BufSizeAssumption, MaxCallsAssumption DEF CallType
<1> QED
  BY <1>2, <1>3, <1>4 DEF IInv, TypeOK, WorkerShape, CopyBounds, SlotShape, LifeShape

\* Creating, stopping, joining and freeing the device preserve it.
LEMMA OwnerKeepsIInv ==
    ASSUME IInv,
           \/ serial_dev_create \/ serial_dev_create_fails
           \/ serial_dev_destroy \/ OwnerStep
    PROVE  IInv'
<1> USE DEF IInv, TypeOK,
    serial_dev_create, serial_dev_create_fails, serial_dev_destroy, CanCall,
    StopPost, Posted, JoinAndFree, Joined, OwnerStep, ctrlVars, chanVars, workVars,
    workData, callVars, callData, histVars
<1>1. CtrlType'
  <2>1. CASE serial_dev_create
    BY <2>1, BaudAssumption DEF CtrlType, CallType, Ops, Cmds
  <2>2. CASE serial_dev_create_fails
    BY <2>2, BaudAssumption DEF CtrlType, CallType, Ops, Cmds
  <2>3. CASE serial_dev_destroy
    BY <2>3, BaudAssumption DEF CtrlType, CallType, Ops, Cmds
  <2>4. CASE StopPost
    BY <2>4, BaudAssumption DEF CtrlType, CallType, Ops, Cmds
  <2>5. CASE JoinAndFree
    BY <2>5, BaudAssumption DEF CtrlType, CallType, Ops, Cmds
  <2> QED
    BY <2>1, <2>2, <2>3, <2>4, <2>5 DEF OwnerStep
<1>2. ChanType'
  <2>1. CASE serial_dev_create
    BY <2>1, BufSizeAssumption, LengthsAssumption, PayloadFits
       DEF ChanType, CallType, WorkType, CopyBounds, Buffers, Cells
  <2>2. CASE serial_dev_create_fails
    BY <2>2, BufSizeAssumption, LengthsAssumption, PayloadFits
       DEF ChanType, CallType, WorkType, CopyBounds, Buffers, Cells
  <2>3. CASE serial_dev_destroy
    BY <2>3, BufSizeAssumption, LengthsAssumption, PayloadFits
       DEF ChanType, CallType, WorkType, CopyBounds, Buffers, Cells
  <2>4. CASE StopPost
    BY <2>4, BufSizeAssumption, LengthsAssumption, PayloadFits
       DEF ChanType, CallType, WorkType, CopyBounds, Buffers, Cells
  <2>5. CASE JoinAndFree
    BY <2>5, BufSizeAssumption, LengthsAssumption, PayloadFits
       DEF ChanType, CallType, WorkType, CopyBounds, Buffers, Cells
  <2> QED
    BY <2>1, <2>2, <2>3, <2>4, <2>5 DEF OwnerStep
<1>3. WorkType'
  BY BufSizeAssumption, Tickets DEF WorkType, WorkerShape, CtrlType, ChanType,
     CopyBounds, Lands, Cmds, Ops
<1>4. CallType'
  BY BufSizeAssumption, MaxCallsAssumption, LengthsAssumption, PayloadFits
     DEF CallType, ChanType, CopyBounds, Ops, Buffers, Cells, Blank
<1>5. HistType'
  BY DEF HistType, CallType, Ops, Cmds
<1>6. WorkerShape'
  BY Tickets DEF WorkerShape, WorkType, LifeShape, Lands
<1>7. CopyBounds'
  BY BufSizeAssumption, PayloadFits DEF CopyBounds, CallType, WorkType, ChanType
<1>8. SlotShape'
  BY DEF SlotShape, LifeShape
<1>9. LifeShape'
  <2>1. CASE serial_dev_create
    BY <2>1, CallersAssumption DEF LifeShape, CallType
  <2>2. CASE serial_dev_create_fails
    BY <2>2, CallersAssumption DEF LifeShape, CallType
  <2>3. CASE serial_dev_destroy
    BY <2>3, CallersAssumption DEF LifeShape, CallType
  <2>4. CASE StopPost
    BY <2>4, CallersAssumption DEF LifeShape, CallType
  <2>5. CASE JoinAndFree
    BY <2>5, CallersAssumption DEF LifeShape, CallType
  <2> QED
    BY <2>1, <2>2, <2>3, <2>4, <2>5 DEF OwnerStep
<1> QED
  BY <1>1, <1>2, <1>3, <1>4, <1>5, <1>6, <1>7, <1>8, <1>9 DEF IInv, TypeOK

\* So does the start of a call.
LEMMA StartKeepsIInv ==
    ASSUME IInv, NEW c \in Callers, StartCall(c)
    PROVE  IInv'
<1> USE DEF IInv, TypeOK,
    StartCall, serial_dev_write, StoredLen, CanCall, serial_dev_read, serial_dev_open,
    serial_dev_close, serial_dev_config, ctrlVars, chanVars, workVars, workData,
    callVars, callData, histVars
<1>1. CtrlType'
  BY BaudAssumption DEF CtrlType, CallType, Ops, Cmds
<1>2. ChanType'
  <2>1. CASE serial_dev_write(c)
    BY <2>1, BufSizeAssumption, LengthsAssumption, PayloadFits
       DEF ChanType, CallType, WorkType, CopyBounds, Buffers, Cells
  <2>2. CASE serial_dev_read(c)
    BY <2>2, BufSizeAssumption, LengthsAssumption, PayloadFits
       DEF ChanType, CallType, WorkType, CopyBounds, Buffers, Cells
  <2>3. CASE serial_dev_open(c)
    BY <2>3, BufSizeAssumption, LengthsAssumption, PayloadFits
       DEF ChanType, CallType, WorkType, CopyBounds, Buffers, Cells
  <2>4. CASE serial_dev_close(c)
    BY <2>4, BufSizeAssumption, LengthsAssumption, PayloadFits
       DEF ChanType, CallType, WorkType, CopyBounds, Buffers, Cells
  <2>5. CASE serial_dev_config(c)
    BY <2>5, BufSizeAssumption, LengthsAssumption, PayloadFits
       DEF ChanType, CallType, WorkType, CopyBounds, Buffers, Cells
  <2> QED
    BY <2>1, <2>2, <2>3, <2>4, <2>5 DEF StartCall
<1>3. WorkType'
  BY BufSizeAssumption, Tickets DEF WorkType, WorkerShape, CtrlType, ChanType,
     CopyBounds, Lands, Cmds, Ops
<1>4. CallType'
  <2>1. CASE serial_dev_write(c)
    BY <2>1, BufSizeAssumption, MaxCallsAssumption, LengthsAssumption, PayloadFits
       DEF CallType, ChanType, CopyBounds, Ops, Buffers, Cells, Blank
  <2>2. CASE serial_dev_read(c)
    BY <2>2, BufSizeAssumption, MaxCallsAssumption, LengthsAssumption, PayloadFits
       DEF CallType, ChanType, CopyBounds, Ops, Buffers, Cells, Blank
  <2>3. CASE serial_dev_open(c)
    BY <2>3, BufSizeAssumption, MaxCallsAssumption, LengthsAssumption, PayloadFits
       DEF CallType, ChanType, CopyBounds, Ops, Buffers, Cells, Blank
  <2>4. CASE serial_dev_close(c)
    BY <2>4, BufSizeAssumption, MaxCallsAssumption, LengthsAssumption, PayloadFits
       DEF CallType, ChanType, CopyBounds, Ops, Buffers, Cells, Blank
  <2>5. CASE serial_dev_config(c)
    BY <2>5, BufSizeAssumption, MaxCallsAssumption, LengthsAssumption, PayloadFits
       DEF CallType, ChanType, CopyBounds, Ops, Buffers, Cells, Blank
  <2> QED
    BY <2>1, <2>2, <2>3, <2>4, <2>5 DEF StartCall
<1>5. HistType'
  BY DEF HistType, CallType, Ops, Cmds
<1>6. WorkerShape'
  BY Tickets DEF WorkerShape, WorkType, LifeShape, Lands
<1>7. CopyBounds'
  <2>1. CASE serial_dev_write(c)
    BY <2>1, BufSizeAssumption, PayloadFits DEF CopyBounds, CallType, WorkType, ChanType
  <2>2. CASE serial_dev_read(c)
    BY <2>2, BufSizeAssumption, PayloadFits DEF CopyBounds, CallType, WorkType, ChanType
  <2>3. CASE serial_dev_open(c)
    BY <2>3, BufSizeAssumption, PayloadFits DEF CopyBounds, CallType, WorkType, ChanType
  <2>4. CASE serial_dev_close(c)
    BY <2>4, BufSizeAssumption, PayloadFits DEF CopyBounds, CallType, WorkType, ChanType
  <2>5. CASE serial_dev_config(c)
    BY <2>5, BufSizeAssumption, PayloadFits DEF CopyBounds, CallType, WorkType, ChanType
  <2> QED
    BY <2>1, <2>2, <2>3, <2>4, <2>5 DEF StartCall
<1>8. SlotShape'
  BY DEF SlotShape, LifeShape
<1>9. LifeShape'
  BY CallersAssumption DEF LifeShape, CallType
<1> QED
  BY <1>1, <1>2, <1>3, <1>4, <1>5, <1>6, <1>7, <1>8, <1>9 DEF IInv, TypeOK

\* So does every step of a call in progress.
LEMMA CallKeepsIInv ==
    ASSUME IInv, NEW c \in Callers, CallStep(c)
    PROVE  IInv'
<1> USE DEF IInv, TypeOK,
    CallStep, CopyIn, LastByte, SendCmd, Lose, SendPost, Posted,
    serial_wait_tx_ready, Available, WriteResult, serial_wait_rx_ready, ReadTimeout,
    CopyOut, CopyOverrun, Overrun, ctrlVars, chanVars, workVars, workData, callVars,
    callData, histVars
<1>1. CtrlType'
  BY BaudAssumption DEF CtrlType, CallType, Ops, Cmds
<1>2. ChanType'
  <2>1. CASE CopyIn(c)
    BY <2>1, BufSizeAssumption, LengthsAssumption, PayloadFits
       DEF ChanType, CallType, WorkType, CopyBounds, Buffers, Cells
  <2>2. CASE SendCmd(c)
    BY <2>2, BufSizeAssumption, LengthsAssumption, PayloadFits
       DEF ChanType, CallType, WorkType, CopyBounds, Buffers, Cells
  <2>3. CASE SendPost(c)
    BY <2>3, BufSizeAssumption, LengthsAssumption, PayloadFits
       DEF ChanType, CallType, WorkType, CopyBounds, Buffers, Cells
  <2>4. CASE serial_wait_tx_ready(c)
    BY <2>4, BufSizeAssumption, LengthsAssumption, PayloadFits
       DEF ChanType, CallType, WorkType, CopyBounds, Buffers, Cells
  <2>5. CASE serial_wait_rx_ready(c)
    BY <2>5, BufSizeAssumption, LengthsAssumption, PayloadFits
       DEF ChanType, CallType, WorkType, CopyBounds, Buffers, Cells
  <2>6. CASE ReadTimeout(c)
    BY <2>6, BufSizeAssumption, LengthsAssumption, PayloadFits
       DEF ChanType, CallType, WorkType, CopyBounds, Buffers, Cells
  <2>7. CASE CopyOut(c)
    BY <2>7, BufSizeAssumption, LengthsAssumption, PayloadFits
       DEF ChanType, CallType, WorkType, CopyBounds, Buffers, Cells
  <2>8. CASE CopyOverrun(c)
    BY <2>8, BufSizeAssumption, LengthsAssumption, PayloadFits
       DEF ChanType, CallType, WorkType, CopyBounds, Buffers, Cells
  <2> QED
    BY <2>1, <2>2, <2>3, <2>4, <2>5, <2>6, <2>7, <2>8 DEF CallStep
<1>3. WorkType'
  BY BufSizeAssumption, Tickets DEF WorkType, WorkerShape, CtrlType, ChanType,
     CopyBounds, Lands, Cmds, Ops
<1>4. CallType'
  <2>1. CASE CopyIn(c)
    BY <2>1, BufSizeAssumption, MaxCallsAssumption, LengthsAssumption, PayloadFits
       DEF CallType, ChanType, CopyBounds, Ops, Buffers, Cells, Blank
  <2>2. CASE SendCmd(c)
    BY <2>2, BufSizeAssumption, MaxCallsAssumption, LengthsAssumption, PayloadFits
       DEF CallType, ChanType, CopyBounds, Ops, Buffers, Cells, Blank
  <2>3. CASE SendPost(c)
    BY <2>3, BufSizeAssumption, MaxCallsAssumption, LengthsAssumption, PayloadFits
       DEF CallType, ChanType, CopyBounds, Ops, Buffers, Cells, Blank
  <2>4. CASE serial_wait_tx_ready(c)
    BY <2>4, BufSizeAssumption, MaxCallsAssumption, LengthsAssumption, PayloadFits
       DEF CallType, ChanType, CopyBounds, Ops, Buffers, Cells, Blank
  <2>5. CASE serial_wait_rx_ready(c)
    BY <2>5, BufSizeAssumption, MaxCallsAssumption, LengthsAssumption, PayloadFits
       DEF CallType, ChanType, CopyBounds, Ops, Buffers, Cells, Blank
  <2>6. CASE ReadTimeout(c)
    BY <2>6, BufSizeAssumption, MaxCallsAssumption, LengthsAssumption, PayloadFits
       DEF CallType, ChanType, CopyBounds, Ops, Buffers, Cells, Blank
  <2>7. CASE CopyOut(c)
    BY <2>7, BufSizeAssumption, MaxCallsAssumption, LengthsAssumption, PayloadFits
       DEF CallType, ChanType, CopyBounds, Ops, Buffers, Cells, Blank
  <2>8. CASE CopyOverrun(c)
    BY <2>8, BufSizeAssumption, MaxCallsAssumption, LengthsAssumption, PayloadFits
       DEF CallType, ChanType, CopyBounds, Ops, Buffers, Cells, Blank
  <2> QED
    BY <2>1, <2>2, <2>3, <2>4, <2>5, <2>6, <2>7, <2>8 DEF CallStep
<1>5. HistType'
  BY DEF HistType, CallType, Ops, Cmds
<1>6. WorkerShape'
  BY Tickets DEF WorkerShape, WorkType, LifeShape, Lands
<1>7. CopyBounds'
  <2>1. CASE CopyIn(c)
    BY <2>1, BufSizeAssumption, PayloadFits DEF CopyBounds, CallType, WorkType, ChanType
  <2>2. CASE SendCmd(c)
    BY <2>2, BufSizeAssumption, PayloadFits DEF CopyBounds, CallType, WorkType, ChanType
  <2>3. CASE SendPost(c)
    BY <2>3, BufSizeAssumption, PayloadFits DEF CopyBounds, CallType, WorkType, ChanType
  <2>4. CASE serial_wait_tx_ready(c)
    BY <2>4, BufSizeAssumption, PayloadFits DEF CopyBounds, CallType, WorkType, ChanType
  <2>5. CASE serial_wait_rx_ready(c)
    BY <2>5, BufSizeAssumption, PayloadFits DEF CopyBounds, CallType, WorkType, ChanType
  <2>6. CASE ReadTimeout(c)
    BY <2>6, BufSizeAssumption, PayloadFits DEF CopyBounds, CallType, WorkType, ChanType
  <2>7. CASE CopyOut(c)
    BY <2>7, BufSizeAssumption, PayloadFits DEF CopyBounds, CallType, WorkType, ChanType
  <2>8. CASE CopyOverrun(c)
    BY <2>8, BufSizeAssumption, PayloadFits DEF CopyBounds, CallType, WorkType, ChanType
  <2> QED
    BY <2>1, <2>2, <2>3, <2>4, <2>5, <2>6, <2>7, <2>8 DEF CallStep
<1>8. SlotShape'
  BY DEF SlotShape, LifeShape
<1>9. LifeShape'
  <2>1. UNCHANGED <<dev, stop, wpc>> /\ pc[c] \in {"copyIn", "cmd", "post", "wait", "copyOut"}
    OBVIOUS
  <2>2. \/ pc' = pc
        \/ \E l \in {"idle", "copyIn", "cmd", "post", "wait", "copyOut"} :
                pc' = [pc EXCEPT ![c] = l]
    OBVIOUS
  <2> HIDE DEF CallStep
  <2>3. pc \in [Callers -> {"idle", "copyIn", "cmd", "post", "wait", "copyOut", "stopPost",
                            "join"}]
    BY DEF CallType
  <2>4. ASSUME NEW b \in Callers
        PROVE  \/ pc'[b] = pc[b]
               \/ b = c /\ pc'[b] \in {"idle", "copyIn", "cmd", "post", "wait", "copyOut"}
    BY <2>2, <2>3
  <2>5. dev # "none" /\ dev # "freed" /\ ~stop
    BY <2>1 DEF LifeShape
  <2> QED
    BY <2>1, <2>4, <2>5 DEF LifeShape
<1> QED
  BY <1>1, <1>2, <1>3, <1>4, <1>5, <1>6, <1>7, <1>8, <1>9 DEF IInv, TypeOK

\* So does every step of the worker.
LEMMA WorkerKeepsIInv ==
    ASSUME IInv, Worker
    PROVE  IInv'
<1> USE DEF IInv, TypeOK,
    Worker, IdleWait, Available, IdleCheck, IdleFetch, IdleClear, ClearedSlot, Lose,
    RunRecheck, Entry, Reset, serial_tx_process, Posted, serial_rx_process, RxCopy,
    RxOverrun, Overrun, LastByte, RxCount, RxPost, ctrlVars, chanVars, workVars,
    workData, callVars, callData, histVars
<1>1. CtrlType'
  <2>1. CASE IdleWait
    BY <2>1, BaudAssumption DEF CtrlType, CallType, Ops, Cmds
  <2>2. CASE IdleCheck
    BY <2>2, BaudAssumption DEF CtrlType, CallType, Ops, Cmds
  <2>3. CASE IdleFetch
    BY <2>3, BaudAssumption DEF CtrlType, CallType, Ops, Cmds
  <2>4. CASE IdleClear
    BY <2>4, BaudAssumption DEF CtrlType, CallType, Ops, Cmds
  <2>5. CASE RunRecheck
    BY <2>5, BaudAssumption DEF CtrlType, CallType, Ops, Cmds
  <2>6. CASE serial_tx_process
    BY <2>6, BaudAssumption DEF CtrlType, CallType, Ops, Cmds
  <2>7. CASE serial_rx_process
    BY <2>7, BaudAssumption DEF CtrlType, CallType, Ops, Cmds
  <2>8. CASE RxCopy
    BY <2>8, BaudAssumption DEF CtrlType, CallType, Ops, Cmds
  <2>9. CASE RxCount
    BY <2>9, BaudAssumption DEF CtrlType, CallType, Ops, Cmds
  <2>10. CASE RxPost
    BY <2>10, BaudAssumption DEF CtrlType, CallType, Ops, Cmds
  <2>11. CASE RxOverrun
    BY <2>11, BaudAssumption DEF CtrlType, CallType, Ops, Cmds
  <2> QED
    BY <2>1, <2>2, <2>3, <2>4, <2>5, <2>6, <2>7, <2>8, <2>9, <2>10, <2>11 DEF Worker
<1>2. ChanType'
  <2>1. CASE RxCopy
    <3>1. wi \in 1..BufSize /\ txBuf \in Buffers /\ rxBuf \in Buffers
      BY <2>1, BufSizeAssumption DEF ChanType, WorkType
    <3>2. rxBuf' \in Buffers
      BY <2>1, <3>1 DEF Buffers
    <3> QED
      BY <2>1, <3>2 DEF ChanType
  <2>2. CASE RxCount
    BY <2>2, BufSizeAssumption DEF ChanType, WorkType
  <2>3. CASE ~RxCopy /\ ~RxCount
    BY <2>3 DEF ChanType
  <2> QED
    BY <2>1, <2>2, <2>3
<1>3. WorkType'
  BY BufSizeAssumption, Tickets DEF WorkType, WorkerShape, CtrlType, ChanType,
     CopyBounds, Lands, Cmds, Ops
<1>4. CallType'
  BY BufSizeAssumption, MaxCallsAssumption, LengthsAssumption, PayloadFits
     DEF CallType, ChanType, CopyBounds, Ops, Buffers, Cells, Blank
<1>5. HistType'
  BY DEF HistType, CallType, Ops, Cmds
<1>6. WorkerShape'
  BY Tickets DEF WorkerShape, WorkType, LifeShape, Lands
<1>7. CopyBounds'
  BY BufSizeAssumption, PayloadFits DEF CopyBounds, CallType, WorkType, ChanType
<1>8. SlotShape'
  BY DEF SlotShape, LifeShape
<1>9. LifeShape'
  BY CallersAssumption DEF LifeShape, CallType
<1> QED
  BY <1>1, <1>2, <1>3, <1>4, <1>5, <1>6, <1>7, <1>8, <1>9 DEF IInv, TypeOK

\* The invariant is inductive.
LEMMA StepIInv == IInv /\ [Next]_vars => IInv'
<1> SUFFICES ASSUME IInv, [Next]_vars PROVE IInv'
  OBVIOUS
<1>1. CASE UNCHANGED vars
  <2> USE <1>1 DEF IInv, vars, ctrlVars, chanVars, workVars, workData, callVars, callData,
        histVars
  <2>1. TypeOK'
    BY DEF TypeOK, CtrlType, ChanType, WorkType, CallType, HistType
  <2> QED
    BY <2>1 DEF WorkerShape, CopyBounds, SlotShape, LifeShape
<1>2. CASE Finished
  BY <1>1, <1>2 DEF Finished
<1> QED
  BY <1>1, <1>2, OwnerKeepsIInv, StartKeepsIInv, CallKeepsIInv, WorkerKeepsIInv DEF Next

\* Every variable of the device, its worker and its callers keeps its type, whatever
\* the number of threads and the lengths they use: the worker never reaches
\* ISLAND_NULL, and the count it stores for the reader is one of the channel.
THEOREM TypeCorrect == Spec => []TypeOK
<1>1. IInv => TypeOK
  BY DEF IInv
<1> QED
  BY InitIInv, StepIInv, <1>1, PTL DEF Spec

\* serial_dev_destroy frees the device only after the worker has gone.
THEOREM FreeIsSafe == Spec => []NoUseAfterFree
<1>1. IInv => NoUseAfterFree
  BY DEF IInv, LifeShape, NoUseAfterFree
<1> QED
  BY InitIInv, StepIInv, <1>1, PTL DEF Spec

-----------------------------------------------------------------------------
(***************************************************************************)
(* The accounting of answers.  Only four actions change the set of waiting *)
(* calls: SendCmd adds the caller, and the two ends of a wait and the      *)
(* time-out remove it.                                                     *)
(***************************************************************************)

\* The set of waiting calls is finite, so adding or removing a caller changes its
\* cardinality by one.
LEMMA WaitingCount ==
    ASSUME NEW o \in Ops
    PROVE  /\ Cardinality(Waiting(o)) \in Nat
           /\ \A c : c \notin Waiting(o) =>
                Cardinality(Waiting(o) \cup {c}) = Cardinality(Waiting(o)) + 1
           /\ \A c : c \in Waiting(o) =>
                Cardinality(Waiting(o) \ {c}) = Cardinality(Waiting(o)) - 1
<1>1. IsFiniteSet(Waiting(o))
  <2>1. Waiting(o) \subseteq Callers
    BY DEF Waiting
  <2> QED
    BY <2>1, CallersAssumption, FS_Subset
<1> QED
  BY <1>1, FS_CardinalityType, FS_AddElement, FS_RemoveElement

\* A step that changes neither the waiting calls nor any of the counters keeps the
\* books balanced.
LEMMA QuietKeepsAccounts ==
    ASSUME AnswersAccounted, \A o \in Ops : Waiting(o)' = Waiting(o),
           \A o \in Ops : Serving(o)' <=> Serving(o),
           UNCHANGED <<ready, pend, lost, timeouts>>
    PROVE  AnswersAccounted'
  BY DEF AnswersAccounted, GaveUp, One

\* Lose enters one lost command x under x, and nothing when there is none.
LEMMA LoseCounts ==
    ASSUME HistType, NEW x \in Cmds, NEW o \in Ops
    PROVE  Lose(x)[o] = lost[o] + One(x = o) /\ lost[o] \in Nat
  BY DEF HistType, Lose, One, Ops, Cmds

\* Owner and caller actions outside the wait leave the waiting calls alone.
LEMMA OwnerKeepsAccounts ==
    ASSUME IInv, AnswersAccounted,
           \/ serial_dev_create \/ serial_dev_create_fails
           \/ serial_dev_destroy \/ OwnerStep
    PROVE  AnswersAccounted'
<1> USE DEF serial_dev_create, serial_dev_create_fails, serial_dev_destroy, OwnerStep,
        StopPost, JoinAndFree, CanCall, chanVars, workVars, workData, callVars,
        callData, histVars, ctrlVars
<1>1. \A o \in Ops : Waiting(o)' = Waiting(o)
  BY DEF Waiting, IInv, TypeOK, CallType
<1>2. \A o \in Ops : Serving(o)' <=> Serving(o)
  BY DEF Serving, IInv, LifeShape
<1> QED
  BY <1>1, <1>2, QuietKeepsAccounts

\* The start of a call changes none of the accounts: its command is not out yet.
LEMMA StartKeepsAccounts ==
    ASSUME IInv, AnswersAccounted, NEW c \in Callers, StartCall(c)
    PROVE  AnswersAccounted'
<1> USE DEF StartCall, serial_dev_write, serial_dev_read, serial_dev_open, serial_dev_close,
        serial_dev_config, CanCall, ctrlVars, chanVars, workVars, workData, callVars,
        callData, histVars
<1>1. \A o \in Ops : Waiting(o)' = Waiting(o)
  BY DEF Waiting, IInv, TypeOK, CallType
<1>2. \A o \in Ops : Serving(o)' <=> Serving(o)
  BY DEF Serving
<1> QED
  BY <1>1, <1>2, QuietKeepsAccounts

\* Sending a command, taking a token and giving up keep the accounts balanced.
LEMMA CallKeepsAccounts ==
    ASSUME IInv, AnswersAccounted, NEW c \in Callers, CallStep(c)
    PROVE  AnswersAccounted'
<1> USE DEF IInv, TypeOK, CallType, ctrlVars, chanVars, workVars, workData, callData,
        histVars
<1>1. \A o \in Ops : Serving(o)' <=> Serving(o)
  BY DEF CallStep, CopyIn, SendCmd, SendPost, serial_wait_tx_ready, serial_wait_rx_ready,
         ReadTimeout, CopyOut, CopyOverrun, Overrun, Serving
<1>s. \A o \in Ops : One(Serving(o))' = One(Serving(o)) /\ One(Serving(o)) \in Nat
  BY <1>1 DEF One
<1>a. \A o \in Ops : Cardinality(Waiting(o)) + GaveUp(o)
                       = ready[o] + One(pend = o) + One(Serving(o)) + lost[o]
  BY DEF AnswersAccounted
<1>2. CASE CopyIn(c) \/ SendPost(c) \/ CopyOut(c) \/ CopyOverrun(c)
  <2>1. \A o \in Ops : Waiting(o)' = Waiting(o)
    BY <1>2 DEF CopyIn, SendPost, CopyOut, CopyOverrun, Overrun, callVars, Waiting
  <2> QED
    BY <1>1, <1>2, <2>1, QuietKeepsAccounts
    DEF CopyIn, SendPost, CopyOut, CopyOverrun, Overrun
<1>3. CASE SendCmd(c)
  <2> SUFFICES ASSUME NEW o \in Ops
               PROVE  AnswersAccounted!(o)'
    BY DEF AnswersAccounted
  <2>1. lost'[o] = lost[o] + One(pend = o) /\ lost[o] \in Nat
    BY <1>3, LoseCounts DEF SendCmd, HistType
  <2>2. /\ ready'[o] = ready[o] /\ GaveUp(o)' = GaveUp(o) /\ ready[o] \in Nat
        /\ GaveUp(o) \in Nat /\ One(pend = o) \in Nat
        /\ One(pend = o)' = One(o = op[c]) /\ One(o = op[c]) \in Nat
    BY <1>3 DEF SendCmd, GaveUp, One, CtrlType, HistType
  <2>3. /\ Cardinality(Waiting(o))' = Cardinality(Waiting(o)) + One(o = op[c])
        /\ Cardinality(Waiting(o)) \in Nat
    <3>1. CASE o = op[c]
      <4>1. Waiting(o)' = Waiting(o) \cup {c} /\ c \notin Waiting(o)
        BY <1>3, <3>1 DEF SendCmd, Waiting
      <4> QED
        BY <3>1, <4>1, WaitingCount DEF One
    <3>2. CASE o # op[c]
      <4>1. Waiting(o)' = Waiting(o)
        BY <1>3, <3>2 DEF SendCmd, Waiting
      <4> QED
        BY <3>2, <4>1, WaitingCount DEF One
    <3> QED
      BY <3>1, <3>2
  <2> QED
    <3> HIDE DEF IInv, TypeOK, CallType
    <3> QED
      BY <1>a, <1>s, <2>1, <2>2, <2>3
<1>4. CASE serial_wait_tx_ready(c) \/ serial_wait_rx_ready(c) \/ ReadTimeout(c)
  <2> SUFFICES ASSUME NEW o \in Ops
               PROVE  AnswersAccounted!(o)'
    BY DEF AnswersAccounted
  <2> USE DEF serial_wait_tx_ready, serial_wait_rx_ready, ReadTimeout, Available
  <2>1. CASE o = op[c]
    <3>1. Waiting(o)' = Waiting(o) \ {c} /\ c \in Waiting(o)
      BY <1>4, <2>1 DEF Waiting
    <3>2. /\ Cardinality(Waiting(o))' = Cardinality(Waiting(o)) - 1
          /\ Cardinality(Waiting(o)) \in Nat
      BY <3>1, WaitingCount
    <3>3. ready'[o] + GaveUp(o) = ready[o] - 1 + GaveUp(o)'
      BY <1>4, <2>1 DEF GaveUp, CtrlType, HistType, Ops
    <3>4. /\ ready[o] \in Nat /\ ready'[o] \in Int /\ lost[o] \in Nat
          /\ GaveUp(o) \in Nat /\ GaveUp(o)' \in Nat
          /\ lost'[o] = lost[o] /\ One(pend = o)' = One(pend = o)
          /\ One(pend = o) \in Nat
      <4>1. /\ ready \in [Ops -> Nat] /\ lost \in [Ops -> Nat] /\ timeouts \in Nat
            /\ lost' = lost /\ pend' = pend
            /\ timeouts' \in Nat /\ (ready' = ready \/ \E q \in Ops :
                                        ready' = [ready EXCEPT ![q] = @ - 1])
        BY <1>4 DEF CtrlType, HistType, Ops
      <4> QED
        BY <4>1 DEF GaveUp, One
    <3> QED
      <4> HIDE DEF IInv, TypeOK, CallType, serial_wait_tx_ready, serial_wait_rx_ready,
                   ReadTimeout
      <4> QED
        BY <1>a, <1>s, <3>2, <3>3, <3>4
  <2>2. CASE o # op[c]
    <3>1. Waiting(o)' = Waiting(o)
      BY <1>4, <2>2 DEF Waiting
    <3> QED
      BY <1>1, <1>4, <2>2, <3>1, WaitingCount
      DEF AnswersAccounted, GaveUp, One, CtrlType, HistType, Ops
  <2> QED
    BY <2>1, <2>2
<1> QED
  BY <1>2, <1>3, <1>4 DEF CallStep

\* The worker moves a command from the slot to its hands to a token; what it drops
\* is entered as lost.
LEMMA WorkerKeepsAccounts ==
    ASSUME IInv, AnswersAccounted, Worker
    PROVE  AnswersAccounted'
<1> USE DEF IInv, TypeOK, ctrlVars, chanVars, workData, callVars, callData, histVars
<1>1. \A o \in Ops : Waiting(o)' = Waiting(o)
  BY DEF Worker, IdleWait, IdleCheck, IdleFetch, IdleClear, RunRecheck, serial_tx_process,
         serial_rx_process, RxCopy, RxOverrun, Overrun, RxCount, RxPost, Waiting
<1>2. CASE IdleWait \/ IdleCheck \/ serial_rx_process \/ RxCopy \/ RxOverrun \/ RxCount
  <2>1. \A o \in Ops : Serving(o)' <=> Serving(o)
    BY <1>2, Tickets DEF IdleWait, IdleCheck, serial_rx_process, RxCopy, RxOverrun,
       Overrun, workVars, RxCount, Serving, WorkerShape, Ops
  <2> QED
    BY <1>1, <1>2, <2>1, QuietKeepsAccounts
    DEF IdleWait, IdleCheck, serial_rx_process, RxCopy, RxOverrun, Overrun, RxCount
<1>3. ASSUME NEW o \in Ops,
             IdleFetch \/ IdleClear \/ RunRecheck \/ serial_tx_process \/ RxPost
      PROVE  AnswersAccounted!(o)'
  <2>1. /\ ready[o] \in Nat /\ lost[o] \in Nat /\ Cardinality(Waiting(o)) \in Nat
        /\ GaveUp(o) \in Nat /\ Cardinality(Waiting(o)') = Cardinality(Waiting(o))
        /\ GaveUp(o)' = GaveUp(o)
    BY <1>1, <1>3, WaitingCount DEF CtrlType, HistType, GaveUp, IdleFetch, IdleClear,
       RunRecheck, serial_tx_process, RxPost
  \* It suffices that the right-hand side keeps its value.
  <2>2. SUFFICES ready'[o] + One(pend = o)' + One(Serving(o))' + lost'[o]
                   = ready[o] + One(pend = o) + One(Serving(o)) + lost[o]
    BY <2>1 DEF AnswersAccounted
  <2>3. CASE IdleFetch
    BY <2>1, <2>3 DEF IdleFetch, Serving, SlotShape, WorkerShape, One, Ops
  <2>4. CASE IdleClear
    <3>1. lost'[o] = lost[o] + One(pend = o)
      BY <2>4, LoseCounts DEF IdleClear, HistType
    <3>2. Serving(o)' <=> Serving(o)
      BY <2>4, Tickets DEF IdleClear, Serving, WorkerShape, Ops, WorkType, Cmds
    <3> QED
      BY <2>1, <2>4, <3>1, <3>2 DEF IdleClear, One, Ops
  <2>5. CASE RunRecheck
    <3>1. lost'[o] + One(Serving(o))' = lost[o] + One(Serving(o))
      <4>1. CASE stop
        BY <2>1, <2>5, <4>1, LoseCounts DEF RunRecheck, Serving, One, Ops, Cmds, HistType
      <4>2. CASE ~stop
        BY <2>1, <2>5, <4>2 DEF RunRecheck, Entry, Reset, Serving, One, Ops, WorkType, Lands
      <4> QED
        BY <4>1, <4>2
    <3>2. ready'[o] = ready[o] /\ One(pend = o)' = One(pend = o) /\ One(pend = o) \in Nat
      BY <2>5 DEF RunRecheck, One
    <3>3. lost'[o] \in Int /\ One(Serving(o)) \in Nat /\ One(Serving(o))' \in Nat
      BY <2>1, <2>5, LoseCounts DEF RunRecheck, One, HistType, Ops, Cmds
    <3> QED
      BY <2>1, <3>1, <3>2, <3>3
  <2>6. CASE serial_tx_process
    BY <2>1, <2>6, Tickets DEF serial_tx_process, Entry, Posted, Serving, WorkerShape,
       CtrlType, One, Ops
  <2>7. CASE RxPost
    BY <2>1, <2>7 DEF RxPost, Entry, Posted, Serving, WorkerShape, CtrlType, One, Ops
  <2> QED
    BY <1>3, <2>3, <2>4, <2>5, <2>6, <2>7
<1> QED
  BY <1>2, <1>3 DEF Worker, AnswersAccounted

\* Every step keeps the accounts balanced.
LEMMA StepAccounted == IInv /\ AnswersAccounted /\ [Next]_vars => AnswersAccounted'
<1> SUFFICES ASSUME IInv, AnswersAccounted, [Next]_vars PROVE AnswersAccounted'
  OBVIOUS
<1>1. CASE UNCHANGED vars
  BY <1>1, QuietKeepsAccounts
  DEF vars, ctrlVars, chanVars, workVars, workData, callVars, callData, histVars,
      Waiting, Serving
<1>2. CASE Finished
  BY <1>1, <1>2 DEF Finished
<1> QED
  BY <1>1, <1>2, OwnerKeepsAccounts, StartKeepsAccounts, CallKeepsAccounts,
     WorkerKeepsAccounts DEF Next

\* At first nobody waits and there is nothing to account for.
LEMMA InitAccounted == Init => AnswersAccounted
<1> SUFFICES ASSUME Init, NEW o \in Ops PROVE AnswersAccounted!(o)
  BY DEF AnswersAccounted
<1>1. Waiting(o) = {}
  BY DEF Init, Waiting
<1>2. Cardinality(Waiting(o)) = 0
  BY <1>1, FS_EmptySet
<1> QED
  BY <1>2 DEF Init, Serving, GaveUp, One, Ops

\* However many threads share the device, every call that waits is matched by a token,
\* by a command in the slot or in the worker's hands, or by a command that was
\* overwritten; only reads that timed out leave tokens behind.
THEOREM AnswersAreAccounted == Spec => []AnswersAccounted
  BY InitIInv, StepIInv, InitAccounted, StepAccounted, PTL DEF Spec

\* A command in the slot always has a post of `active' behind it, whoever else posts
\* and whatever the worker is doing: it does not sleep on an unserved command.
THEOREM WorkerIsWoken == Spec => []CommandWakesWorker
<1>1. Init => CommandWakesWorker
  BY DEF Init, CommandWakesWorker
<1>2. IInv /\ CommandWakesWorker /\ [Next]_vars => CommandWakesWorker'
  <2> SUFFICES ASSUME IInv, CommandWakesWorker, [Next]_vars PROVE CommandWakesWorker'
    OBVIOUS
  <2> USE DEF CommandWakesWorker, CanCall, Posted, Available, ctrlVars, chanVars, workVars,
          workData, callVars, callData, histVars
  <2>1. CASE UNCHANGED vars \/ Finished
    BY <2>1 DEF vars, Finished
  <2>2. CASE \/ serial_dev_create \/ serial_dev_create_fails
             \/ serial_dev_destroy \/ OwnerStep
    BY <2>2, CallersAssumption
    DEF serial_dev_create, serial_dev_create_fails, serial_dev_destroy, OwnerStep, StopPost,
        JoinAndFree, IInv, TypeOK, CtrlType, CallType, LifeShape
  <2>3. ASSUME NEW c \in Callers, StartCall(c) PROVE CommandWakesWorker'
    BY <2>3 DEF StartCall, serial_dev_write, serial_dev_read, serial_dev_open,
       serial_dev_close, serial_dev_config, IInv, TypeOK, CallType
  <2>4. ASSUME NEW c \in Callers, CallStep(c) PROVE CommandWakesWorker'
    BY <2>4 DEF CallStep, CopyIn, SendCmd, SendPost, serial_wait_tx_ready,
       serial_wait_rx_ready, ReadTimeout, CopyOut, CopyOverrun, Overrun, IInv, TypeOK,
       CallType, CtrlType
  <2>5. CASE Worker
    BY <2>5 DEF Worker, IdleWait, IdleCheck, IdleFetch, IdleClear, RunRecheck,
       serial_tx_process, serial_rx_process, RxCopy, RxOverrun, Overrun, RxCount, RxPost,
       Entry, IInv, TypeOK,
       CtrlType
  <2> QED
    BY <2>1, <2>2, <2>3, <2>4, <2>5 DEF Next
<1> QED
  BY <1>1, <1>2, InitIInv, StepIInv, PTL DEF Spec

-----------------------------------------------------------------------------
(***************************************************************************)
(* A thread alone with the device, until one of its reads times out.       *)
(***************************************************************************)
Alone(c) == Callers = {c} /\ timeouts = 0

\* A thread alone with the device: while the device is not being stopped, a command in
\* the slot and the one post behind it go together, so the worker never wakes for
\* nothing, and no command is ever lost.
Awake == One(wpc \in {"check", "fetch"})
NothingLost(c) ==
    /\ \A o \in Ops : lost[o] = 0
    /\ ~stop => active + Awake + One(pc[c] = "post") = One(pend # "NULL")
    /\ wpc = "clear" => wcmd \in Ops \/ stop
LoneCommands == \A c \in Callers : Alone(c) => NothingLost(c)

\* The first m bytes of a buffer are those of the latest write.
Holds(buf, m) == \A i \in 1..m : buf[i] = last[i]

\* The data of a thread alone with the device, from its latest write to its reads.
Transmitted(c) ==
    /\ txLen = Len(last)
    /\ IF pc[c] = "copyIn" THEN op[c] = "WR" /\ arg[c] = last /\ Holds(txBuf, k[c] - 1)
       ELSE Len(last) <= BufSize /\ Holds(txBuf, Len(last))
Received ==
    /\ wpc \in {"rxCopy", "rxCnt", "rxPost"} => wlen = Len(last)
    /\ wpc = "rxCopy" => Holds(rxBuf, wi - 1)
    /\ wpc \in {"rxCnt", "rxPost"} => Holds(rxBuf, Len(last))
    /\ wpc = "rxPost" => rxCnt = Len(last)
    /\ ready["RD"] > 0 => rxCnt = Len(last) /\ Holds(rxBuf, Len(last))
Returned(c) ==
    /\ pc[c] = "copyOut" =>
        /\ op[c] = "RD" /\ ret[c] = Len(last)
        /\ Holds(rxBuf, Len(last)) /\ Holds(dst[c], k[c] - 1)
    /\ pc[c] \in {"idle", "stopPost", "join"} /\ op[c] = "RD" =>
        ret[c] = Len(last) /\ Holds(dst[c], Len(last))
LoneData ==
    /\ dev = "none" => ~wrote
    /\ \A c \in Callers : Alone(c) /\ wrote =>
        Transmitted(c) /\ Received /\ Returned(c)

\* A thread alone with the device has at most one answer to come; between its calls,
\* and for the other kind of call, there is none.
LEMMA LoneCount ==
    ASSUME IInv, AnswersAccounted, NEW c \in Callers, Alone(c), NEW o \in Ops
    PROVE  /\ ready[o] \in Nat /\ lost[o] \in Nat
           /\ pc[c] \notin {"post", "wait"} \/ op[c] # o =>
                ready[o] = 0 /\ pend # o /\ ~Serving(o) /\ lost[o] = 0
           /\ Serving(o) => ready[o] = 0 /\ pend # o /\ lost[o] = 0
           /\ ready[o] > 0 => pend # o
<1>1. /\ Cardinality(Waiting(o)) \in 0..1
      /\ pc[c] \notin {"post", "wait"} \/ op[c] # o => Cardinality(Waiting(o)) = 0
  <2>1. CASE pc[c] \in {"post", "wait"} /\ op[c] = o
    <3>1. Waiting(o) = {c}
      BY <2>1 DEF Waiting, Alone
    <3> QED
      BY <2>1, <3>1, FS_Singleton
  <2>2. CASE ~(pc[c] \in {"post", "wait"} /\ op[c] = o)
    <3>1. Waiting(o) = {}
      BY <2>2 DEF Waiting, Alone
    <3> QED
      BY <3>1, FS_EmptySet
  <2> QED
    BY <2>1, <2>2
<1>2. Cardinality(Waiting(o)) = ready[o] + One(pend = o) + One(Serving(o)) + lost[o]
  <2>1. GaveUp(o) = 0
    BY DEF GaveUp, Alone
  <2>2. Cardinality(Waiting(o)) + GaveUp(o)
            = ready[o] + One(pend = o) + One(Serving(o)) + lost[o]
    BY DEF AnswersAccounted
  <2> QED
    BY <1>1, <2>1, <2>2
<1>3. ready[o] \in Nat /\ lost[o] \in Nat
  BY DEF IInv, TypeOK, CtrlType, HistType
<1>4. /\ One(pend = o) \in {0, 1} /\ (pend = o => One(pend = o) = 1)
      /\ One(Serving(o)) \in {0, 1} /\ (Serving(o) => One(Serving(o)) = 1)
  BY DEF One
<1> DEFINE x == One(pend = o)
           y == One(Serving(o))
<1>5. x \in {0, 1} /\ y \in {0, 1} /\ (pend = o => x = 1) /\ (Serving(o) => y = 1)
  BY <1>4
<1> HIDE DEF x, y
<1>6. Cardinality(Waiting(o)) = ready[o] + x + y + lost[o]
  BY <1>2 DEF x, y
<1>7. Cardinality(Waiting(o)) = 0 => ready[o] = 0 /\ x = 0 /\ y = 0 /\ lost[o] = 0
  BY <1>3, <1>5, <1>6
<1>8. y = 1 => ready[o] = 0 /\ x = 0 /\ lost[o] = 0
  BY <1>1, <1>3, <1>5, <1>6
<1>9. ready[o] > 0 => x = 0
  BY <1>1, <1>3, <1>5, <1>6
<1>10. (x = 0 => pend # o) /\ (y = 0 => ~Serving(o))
  <2>1. 0 # 1
    OBVIOUS
  <2> QED
    BY <1>5, <2>1, Zenon
<1> QED
  BY <1>1, <1>3, <1>5, <1>7, <1>8, <1>9, <1>10, Zenon

\* Nothing is lost before the first command.
LEMMA InitLoneCommands == Init => LoneCommands
  BY DEF Init, LoneCommands, NothingLost, Awake, One, Ops

\* A step that gives no command up leaves the reads that gave up as they were, so a
\* thread that is alone after it was alone before it.
LEMMA AloneBefore ==
    ASSUME IInv, NEW c \in Callers, Alone(c)', [Next]_vars
    PROVE  Alone(c) /\ timeouts' = timeouts
<1>1. timeouts \in Nat
  BY DEF IInv, TypeOK, HistType
<1>2. timeouts' = timeouts \/ timeouts' = timeouts + 1
  BY DEF Next, vars, Finished, serial_dev_create, serial_dev_create_fails,
     serial_dev_destroy, OwnerStep, StopPost, JoinAndFree, StartCall, serial_dev_write,
     serial_dev_read, serial_dev_open, serial_dev_close, serial_dev_config, CallStep,
     CopyIn, SendCmd, SendPost, serial_wait_tx_ready, serial_wait_rx_ready, ReadTimeout,
     CopyOut, CopyOverrun, RxOverrun, Overrun, Worker, IdleWait, IdleCheck, IdleFetch,
     IdleClear, RunRecheck, serial_tx_process, serial_rx_process, RxCopy, RxCount, RxPost,
     histVars
<1> QED
  BY <1>1, <1>2 DEF Alone

\* No step of a thread alone with the device, or of its worker, loses a command
\* before a read has timed out.
LEMMA StepLoneCommands ==
    IInv /\ AnswersAccounted /\ LoneCommands /\ [Next]_vars => LoneCommands'
<1> SUFFICES ASSUME IInv, AnswersAccounted, LoneCommands, [Next]_vars,
                    NEW c \in Callers, Alone(c)'
             PROVE  NothingLost(c)'
  BY DEF LoneCommands
<1>1. Alone(c) /\ timeouts' = timeouts /\ timeouts = 0 /\ Callers = {c}
  BY AloneBefore DEF Alone
<1>2. NothingLost(c)
  BY <1>1 DEF LoneCommands
<1>3. \A o \in Ops :
        /\ pc[c] \notin {"post", "wait"} \/ op[c] # o => pend # o /\ ~Serving(o) /\ lost[o] = 0
        /\ Serving(o) => pend # o
  BY <1>1, LoneCount
<1>4. /\ active \in Nat /\ pc \in [Callers -> {"idle", "copyIn", "cmd", "post", "wait",
                                   "copyOut", "stopPost", "join"}]
      /\ pend \in Cmds /\ op[c] \in Ops /\ wcmd \in Cmds /\ lost \in [Ops -> Nat]
  BY DEF IInv, TypeOK, CtrlType, CallType, HistType, WorkType
<1>5. stop => pc[c] \notin {"post", "wait"}
  BY DEF IInv, LifeShape
<1>6. pc[c] \notin {"post", "wait"} => pend = "NULL"
  BY <1>3, <1>4 DEF Cmds
<1>7. CASE UNCHANGED <<lost, stop, active, wpc, pend, wcmd, pc>>
  BY <1>2, <1>7 DEF NothingLost, Awake
<1>8. CASE serial_dev_create \/ serial_dev_create_fails \/ serial_dev_destroy \/ OwnerStep
  <2> USE DEF serial_dev_create, serial_dev_create_fails, serial_dev_destroy, OwnerStep,
        StopPost, JoinAndFree, CanCall, chanVars, workVars, workData, callVars, callData,
        histVars, ctrlVars
  <2>1. lost' = lost /\ pend' = pend /\ wcmd' = wcmd
    BY <1>8
  <2>2. CASE stop'
    <3>1. wpc' = "clear" => wpc = "clear"
      BY <1>8
    <3> QED
      BY <1>2, <2>1, <2>2, <3>1 DEF NothingLost
  <2>3. CASE ~stop'
    <3>1. serial_dev_create \/ serial_dev_create_fails
      BY <1>8, <2>3, CallersAssumption DEF IInv, LifeShape
    <3>2. /\ ~stop /\ active' = active /\ pc' = pc /\ wpc' \notin {"check", "fetch", "clear"}
          /\ wpc \notin {"check", "fetch"}
      BY <2>3, <3>1 DEF IInv, LifeShape
    <3> QED
      BY <1>2, <2>1, <3>2 DEF NothingLost, Awake, One
  <2> QED
    BY <2>2, <2>3
<1>9. CASE StartCall(c)
  <2> USE DEF StartCall, serial_dev_write, serial_dev_read, serial_dev_open, serial_dev_close,
        serial_dev_config, CanCall, chanVars, workVars, workData, callVars, callData,
        histVars, ctrlVars
  <2>1. /\ UNCHANGED <<lost, stop, active, wpc, pend, wcmd>>
        /\ pc[c] # "post" /\ pc'[c] # "post"
    BY <1>4, <1>9
  <2> QED
    BY <1>2, <2>1 DEF NothingLost, Awake, One
<1>10. CASE CallStep(c)
  <2> USE DEF CopyIn, SendCmd, SendPost, serial_wait_tx_ready, serial_wait_rx_ready,
        ReadTimeout, CopyOut, CopyOverrun, Overrun, ctrlVars, chanVars, workVars, workData,
        callVars, callData, histVars
  <2>1. UNCHANGED <<stop, wpc, wcmd>>
    BY <1>10 DEF CallStep
  <2>2. CASE SendCmd(c)
    <3>1. pend = "NULL" /\ pc[c] = "cmd" /\ pc'[c] = "post" /\ pend' = op[c] /\ pend' # "NULL"
      BY <1>4, <1>6, <2>2 DEF Ops
    <3>2. lost' = lost /\ active' = active
      BY <2>2, <3>1 DEF Lose, Ops
    <3>3. Awake' = Awake /\ Awake \in {0, 1}
      BY <2>1 DEF Awake, One
    <3>4. /\ One(pc[c] = "post") = 0 /\ One(pc[c] = "post")' = 1
          /\ One(pend # "NULL") = 0 /\ One(pend # "NULL")' = 1
      BY <3>1 DEF One
    <3>5. ~stop => active' + Awake' + One(pc[c] = "post")' = One(pend # "NULL")'
      BY <1>2, <1>4, <3>2, <3>3, <3>4 DEF NothingLost
    <3> QED
      BY <1>2, <2>1, <3>2, <3>5 DEF NothingLost
  <2>3. CASE SendPost(c)
    <3>1. pc[c] = "post" /\ pc'[c] = "wait" /\ active' = active + 1 /\ UNCHANGED <<lost, pend>>
      BY <1>4, <2>3 DEF Posted
    <3>2. Awake' = Awake /\ Awake \in {0, 1}
      BY <2>1 DEF Awake, One
    <3>3. /\ One(pc[c] = "post") = 1 /\ One(pc[c] = "post")' = 0
          /\ One(pend # "NULL")' = One(pend # "NULL") /\ One(pend # "NULL") \in {0, 1}
      BY <3>1 DEF One
    <3>4. ~stop => active' + Awake' + One(pc[c] = "post")' = One(pend # "NULL")'
      BY <1>2, <1>4, <3>1, <3>2, <3>3 DEF NothingLost
    <3> QED
      BY <1>2, <2>1, <3>1, <3>4 DEF NothingLost
  <2>4. CASE CopyIn(c) \/ serial_wait_tx_ready(c) \/ serial_wait_rx_ready(c)
             \/ ReadTimeout(c) \/ CopyOut(c) \/ CopyOverrun(c)
    <3>1. /\ UNCHANGED <<lost, active, pend>> /\ pc[c] # "post" /\ pc'[c] # "post"
      BY <1>4, <2>4
    <3> QED
      BY <1>2, <2>1, <3>1 DEF NothingLost, Awake, One
  <2> QED
    BY <1>10, <2>2, <2>3, <2>4 DEF CallStep
<1>11. CASE Worker
  <2> USE DEF IdleWait, IdleCheck, IdleFetch, IdleClear, RunRecheck, serial_tx_process,
        serial_rx_process, RxCopy, RxOverrun, Overrun, RxCount, RxPost, ctrlVars, chanVars,
        workVars, workData, callVars, callData, histVars
  <2>1. stop' = stop /\ pc' = pc
    BY <1>11 DEF Worker
  <2>2. CASE IdleWait
    <3>1. /\ wpc = "wait" /\ wpc' = "check" /\ active' = active - 1 /\ active > 0
          /\ UNCHANGED <<lost, pend>>
      BY <2>2 DEF Available
    <3> QED
      BY <1>2, <1>4, <2>1, <3>1 DEF NothingLost, Awake, One
  <2>3. CASE IdleCheck
    <3>1. /\ wpc = "check" /\ (~stop => wpc' = "fetch") /\ wpc' # "clear"
          /\ UNCHANGED <<active, lost, pend>>
      BY <2>3
    <3> QED
      BY <1>2, <2>1, <3>1 DEF NothingLost, Awake, One
  <2>4. CASE IdleFetch
    <3>1. /\ wpc = "fetch" /\ wpc' = "clear" /\ wcmd' = cmd /\ cmd = pend /\ pend' = "NULL"
          /\ UNCHANGED <<active, lost>>
      BY <2>4 DEF IInv, SlotShape
    <3>2. /\ Awake = 1 /\ Awake' = 0
          /\ One(pc[c] = "post") \in {0, 1} /\ One(pc[c] = "post")' = One(pc[c] = "post")
          /\ One(pend # "NULL")' = 0
          /\ One(pend # "NULL") \in {0, 1} /\ (pend = "NULL" => One(pend # "NULL") = 0)
      BY <2>1, <3>1 DEF Awake, One
    <3>3. ~stop => active + 1 + One(pc[c] = "post") = One(pend # "NULL")
      BY <1>2, <3>2 DEF NothingLost
    <3>4. ~stop => pend # "NULL" /\ active + One(pc[c] = "post") = 0
      BY <1>4, <3>2, <3>3
    <3>5. ~stop => active' + Awake' + One(pc[c] = "post")' = One(pend # "NULL")'
      BY <1>4, <3>1, <3>2, <3>4
    <3>6. wcmd' \in Ops \/ stop'
      BY <1>4, <2>1, <3>1, <3>4 DEF Cmds
    <3> QED
      BY <1>2, <2>1, <3>1, <3>5, <3>6 DEF NothingLost
  <2>5. CASE IdleClear
    <3>1. /\ wpc = "clear" /\ wpc' = "recheck" /\ pend' = "NULL" /\ lost' = Lose(pend)
          /\ active' = active
      BY <2>5
    <3>2. pend = "NULL"
      <4>1. CASE stop
        BY <1>5, <1>6, <4>1
      <4>2. CASE ~stop
        <5>1. wcmd \in Ops /\ Serving(wcmd)
          BY <1>2, <3>1, <4>2 DEF NothingLost, Serving
        <5>2. op[c] = wcmd /\ pend # wcmd
          BY <1>3, <5>1
        <5>3. \A o \in Ops : o # wcmd => pend # o
          BY <1>3, <5>2
        <5> QED
          BY <1>4, <5>1, <5>2, <5>3 DEF Cmds
      <4> QED
        BY <4>1, <4>2
    <3>3. lost' = lost
      BY <3>1, <3>2 DEF Lose, Ops
    <3> QED
      BY <1>2, <2>1, <3>1, <3>2, <3>3 DEF NothingLost, Awake, One
  <2>6. CASE RunRecheck
    <3>1. wpc = "recheck" /\ UNCHANGED <<pend, active>> /\ wpc' \notin {"check", "fetch", "clear"}
      BY <2>6 DEF Entry
    <3>2. lost' = lost
      <4>1. CASE stop
        <5>1. ~Serving("WR") /\ ~Serving("RD")
          BY <1>3, <1>5, <4>1 DEF Ops
        <5>2. land # "ISLAND_TX" /\ land # "ISLAND_RX"
          BY <3>1, <5>1 DEF Serving
        <5> QED
          BY <2>6, <5>2
      <4>2. CASE ~stop
        BY <2>6, <4>2
      <4> QED
        BY <4>1, <4>2
    <3> QED
      BY <1>2, <2>1, <3>1, <3>2 DEF NothingLost, Awake, One
  <2>7. CASE \/ serial_tx_process \/ serial_rx_process \/ RxCopy \/ RxOverrun
             \/ RxCount \/ RxPost
    <3>1. /\ UNCHANGED <<lost, active, pend>> /\ wpc \notin {"check", "fetch"}
          /\ wpc' \notin {"check", "fetch", "clear"}
      BY <2>7 DEF Entry
    <3> QED
      BY <1>2, <2>1, <3>1 DEF NothingLost, Awake, One
  <2> QED
    BY <1>11, <2>2, <2>3, <2>4, <2>5, <2>6, <2>7 DEF Worker
<1>12. CASE UNCHANGED vars \/ Finished
  BY <1>7, <1>12 DEF vars, Finished, ctrlVars, chanVars, workVars, workData, callVars,
     callData, histVars
<1> QED
  BY <1>1, <1>8, <1>9, <1>10, <1>11, <1>12 DEF Next

\* A thread alone with the device loses no write before one of its reads has timed
\* out: each command is fetched before the next one is stored.
THEOREM LoneWritesAreKept == Spec => []LoneWriteNotLost
<1>1. LoneCommands => LoneWriteNotLost
  <2> SUFFICES ASSUME LoneCommands, Cardinality(Callers) = 1, timeouts = 0
               PROVE  lost["WR"] = 0
    BY DEF LoneWriteNotLost
  <2>1. PICK c : Callers = {c}
    BY CallersAssumption, FS_Singleton
  <2> QED
    BY <2>1 DEF LoneCommands, Alone, NothingLost, Ops
<1> QED
  BY <1>1, InitIInv, StepIInv, InitAccounted, StepAccounted, InitLoneCommands,
     StepLoneCommands, PTL DEF Spec

\* Nothing has been written at first.
LEMMA InitLoneData == Init => LoneData
  BY DEF Init, LoneData

\* Adding byte m + 1 to a buffer that holds the first m bytes.
LEMMA OneMoreByte ==
    ASSUME NEW m \in Nat \ {0}, m <= BufSize, NEW buf \in Buffers, Holds(buf, m - 1)
    PROVE  Holds([buf EXCEPT ![m] = last[m]], m)
<1>1. m \in 1..BufSize
  BY BufSizeAssumption
<1>2. ASSUME NEW i \in 1..m PROVE [buf EXCEPT ![m] = last[m]][i] = last[i]
  <2>1. i \in 1..BufSize /\ (i = m \/ i \in 1..(m - 1))
    BY <1>1, BufSizeAssumption
  <2> QED
    BY <1>1, <2>1 DEF Buffers, Holds
<1> QED
  BY <1>2 DEF Holds

\* What is known of the latest write, and of the thread when an answer to its read is
\* on the way.
LEMMA LoneFacts ==
    ASSUME IInv, AnswersAccounted, NEW c \in Callers, Alone(c)
    PROVE  /\ Len(last) \in Nat
           /\ pc[c] \notin {"post", "wait"} \/ op[c] # "RD" =>
                ready["RD"] = 0 /\ wpc \notin {"rx", "rxCopy", "rxCnt", "rxPost"}
           /\ wpc \in {"rx", "rxCopy", "rxCnt", "rxPost"} => ready["RD"] = 0
<1>1. last \in Payloads \cup {<<>>}
  BY DEF IInv, TypeOK, HistType
<1>2. Len(last) \in Nat
  BY <1>1, PayloadFits
<1>3. wpc \in {"rx", "rxCopy", "rxCnt", "rxPost"} => Serving("RD")
  BY DEF Serving, IInv, WorkerShape
<1>4. /\ pc[c] \notin {"post", "wait"} \/ op[c] # "RD" => ready["RD"] = 0 /\ ~Serving("RD")
      /\ Serving("RD") => ready["RD"] = 0
  BY LoneCount DEF Ops
<1> QED
  BY <1>2, <1>3, <1>4

\* The bytes of the latest write travel unchanged through the transmit channel, the
\* worker's copy and the receive channel into the reader's buffer.
LEMMA StepLoneData ==
    IInv /\ AnswersAccounted /\ LoneData /\ [Next]_vars => LoneData'
<1> SUFFICES ASSUME IInv, AnswersAccounted, LoneData, [Next]_vars PROVE LoneData'
  OBVIOUS
<1>1. dev' = "none" => ~wrote'
  <2>1. dev' = "none" => dev = "none" /\ wrote' = wrote
    BY DEF Next, vars, Finished, serial_dev_create, serial_dev_create_fails,
       serial_dev_destroy, OwnerStep, StopPost, JoinAndFree, StartCall, serial_dev_write,
       serial_dev_read, serial_dev_open, serial_dev_close, serial_dev_config, CanCall,
       CallStep, CopyIn, SendCmd, SendPost, serial_wait_tx_ready, serial_wait_rx_ready,
       ReadTimeout, CopyOut, CopyOverrun, RxOverrun, Overrun, Worker, IdleWait, IdleCheck,
       IdleFetch, IdleClear, RunRecheck, serial_tx_process, serial_rx_process, RxCopy,
       RxCount, RxPost, histVars, ctrlVars
  <2> QED
    BY <2>1 DEF LoneData
<1>2. SUFFICES ASSUME NEW c \in Callers, Alone(c)', wrote'
               PROVE  Transmitted(c)' /\ Received' /\ Returned(c)'
  BY <1>1 DEF LoneData
<1>3. Alone(c) /\ timeouts' = timeouts /\ timeouts = 0 /\ Callers = {c}
  BY <1>2, AloneBefore DEF Alone
<1> DEFINE L == Len(last)
<1>4. /\ pc \in [Callers -> {"idle", "copyIn", "cmd", "post", "wait", "copyOut",
                             "stopPost", "join"}]
      /\ op \in [Callers -> Ops] /\ arg \in [Callers -> Payloads \cup {<<>>}]
      /\ k \in [Callers -> 1..(BufSize + 1)] /\ dst \in [Callers -> Buffers]
      /\ ret \in [Callers -> Int] /\ rxCnt \in 0..BufSize
      /\ txBuf \in Buffers /\ rxBuf \in Buffers /\ wi \in 1..(BufSize + 1)
      /\ ready \in [Ops -> Nat] /\ timeouts \in Nat
  BY DEF IInv, TypeOK, CtrlType, CallType, ChanType, WorkType, HistType
<1>5. /\ L \in Nat
      /\ pc[c] \notin {"post", "wait"} \/ op[c] # "RD" =>
           ready["RD"] = 0 /\ wpc \notin {"rx", "rxCopy", "rxCnt", "rxPost"}
      /\ wpc \in {"rx", "rxCopy", "rxCnt", "rxPost"} => ready["RD"] = 0
  BY <1>3, LoneFacts
<1>6. CASE serial_dev_write(c)
  <2>1. PICK p \in Payloads :
          /\ pc[c] = "idle" /\ txLen' = Len(p) /\ txBuf' = txBuf
          /\ pc' = [pc EXCEPT ![c] = IF p = <<>> THEN "cmd" ELSE "copyIn"]
          /\ op' = [op EXCEPT ![c] = "WR"] /\ arg' = [arg EXCEPT ![c] = p]
          /\ k' = [k EXCEPT ![c] = 1] /\ last' = p
          /\ UNCHANGED <<ready, wpc>>
    BY <1>6 DEF serial_dev_write, StoredLen, CanCall, workVars
  <2>2. /\ op'[c] = "WR" /\ arg'[c] = last' /\ k'[c] = 1 /\ txLen' = Len(last')
        /\ pc'[c] = IF last' = <<>> THEN "cmd" ELSE "copyIn"
    BY <1>4, <2>1
  <2>3. Transmitted(c)'
    BY <2>2, BufSizeAssumption DEF Transmitted, Holds
  <2>4. ready'["RD"] = 0 /\ wpc' \notin {"rx", "rxCopy", "rxCnt", "rxPost"}
    BY <1>5, <2>1
  <2> QED
    BY <2>2, <2>3, <2>4 DEF Received, Returned
<1>7. ASSUME ~serial_dev_write(c)
      PROVE  last' = last /\ wrote' = wrote
  BY <1>3, <1>7 DEF Next, vars, Finished, serial_dev_create, serial_dev_create_fails,
     serial_dev_destroy, OwnerStep, StopPost, JoinAndFree, StartCall,
     serial_dev_read, serial_dev_open, serial_dev_close, serial_dev_config,
     CallStep, CopyIn, SendCmd, SendPost, serial_wait_tx_ready, serial_wait_rx_ready,
     ReadTimeout, CopyOut, CopyOverrun, RxOverrun, Overrun, Worker, IdleWait, IdleCheck,
     IdleFetch, IdleClear, RunRecheck, serial_tx_process, serial_rx_process, RxCopy,
     RxCount, RxPost, histVars
<1>8. ASSUME ~serial_dev_write(c)
      PROVE  Transmitted(c)' /\ Received' /\ Returned(c)'
  <2>1. last' = last /\ wrote
    BY <1>2, <1>7, <1>8
  <2>2. /\ txLen = L
        /\ pc[c] = "copyIn" => op[c] = "WR" /\ arg[c] = last /\ Holds(txBuf, k[c] - 1)
        /\ pc[c] # "copyIn" => L <= BufSize /\ Holds(txBuf, L)
    BY <1>3, <2>1 DEF LoneData, Transmitted
  <2>3. Received /\ Returned(c)
    BY <1>3, <2>1 DEF LoneData
  \* A step that leaves the channels, the worker's copy and the caller's data alone.
  <2>4. ASSUME UNCHANGED <<txLen, txBuf, rxBuf, rxCnt, wlen, wi, arg, k, dst, ret, op>>,
               ready'["RD"] = ready["RD"],
               \/ wpc' = wpc
               \/ wpc' \notin {"rxCopy", "rxCnt", "rxPost"},
               \/ pc'[c] = pc[c]
               \/ pc[c] # "copyIn" /\ pc'[c] \in {"cmd", "post", "wait"}
               \/ pc[c] # "copyIn" /\ pc'[c] \in {"idle", "stopPost", "join"}
                    /\ (pc[c] \in {"idle", "stopPost", "join"} \/ op[c] = "WR")
        PROVE  Transmitted(c)' /\ Received' /\ Returned(c)'
    <3>1. Transmitted(c)'
      BY <2>1, <2>2, <2>4 DEF Transmitted, Holds
    <3>2. Received'
      BY <2>1, <2>3, <2>4 DEF Received, Holds
    <3>3. Returned(c)'
      BY <2>1, <2>3, <2>4 DEF Returned, Holds
    <3> QED
      BY <3>1, <3>2, <3>3
  <2>5. CASE CopyIn(c)
    <3>1. /\ pc[c] = "copyIn" /\ k[c] <= BufSize /\ txBuf' = [txBuf EXCEPT ![k[c]] = arg[c][k[c]]]
          /\ k'[c] = k[c] + 1 /\ pc'[c] = (IF k[c] = Len(arg[c]) THEN "cmd" ELSE "copyIn")
          /\ UNCHANGED <<ready, txLen, rxCnt, rxBuf, wpc, wlen, wi, op, arg>>
      BY <1>4, <2>5 DEF CopyIn, LastByte, workVars, workData
    <3>2. arg[c] = last /\ op[c] = "WR" /\ Holds(txBuf, k[c] - 1) /\ k[c] <= L
          /\ k[c] \in Nat \ {0}
      BY <1>4, <2>2, <3>1, BufSizeAssumption DEF IInv, CopyBounds
    <3>3. Holds(txBuf', k[c])
      <4>1. Holds([txBuf EXCEPT ![k[c]] = last[k[c]]], k[c])
        BY <1>4, <3>1, <3>2, OneMoreByte
      <4> QED
        BY <3>1, <3>2, <4>1
    <3>4. Transmitted(c)'
      <4>1. txLen' = Len(last')
        BY <2>1, <2>2, <3>1
      <4>2. CASE k[c] = L
        BY <2>1, <3>1, <3>2, <3>3, <4>1, <4>2 DEF Transmitted, Holds
      <4>3. CASE k[c] # L
        <5>1. pc'[c] = "copyIn" /\ op'[c] = "WR" /\ arg'[c] = last' /\ k'[c] - 1 = k[c]
          BY <2>1, <3>1, <3>2, <4>3
        <5> QED
          BY <2>1, <3>3, <4>1, <5>1 DEF Transmitted, Holds
      <4> QED
        BY <4>2, <4>3
    <3>5. Received' /\ Returned(c)'
      BY <2>1, <2>3, <3>1 DEF Received, Returned, Holds
    <3> QED
      BY <3>4, <3>5
  <2>6. CASE serial_dev_read(c)
    <3>1. /\ pc[c] = "idle" /\ pc'[c] = "cmd"
          /\ UNCHANGED <<txLen, txBuf, ready, wpc>>
      BY <1>4, <2>6 DEF serial_dev_read, CanCall, workVars
    <3>2. ready'["RD"] = 0 /\ wpc' \notin {"rx", "rxCopy", "rxCnt", "rxPost"}
      BY <1>5, <3>1
    <3> QED
      BY <2>1, <2>2, <3>1, <3>2 DEF Transmitted, Received, Returned, Holds
  <2>7. CASE serial_dev_open(c) \/ serial_dev_close(c) \/ serial_dev_config(c)
             \/ UNCHANGED vars \/ Finished
    <3>1. UNCHANGED <<chanVars, ready, workVars, callVars>>
      BY <2>7 DEF serial_dev_open, serial_dev_close, serial_dev_config, vars, Finished
    <3> QED
      BY <2>4, <3>1 DEF chanVars, workVars, workData, callVars, callData
  <2>8. CASE SendCmd(c) \/ SendPost(c)
    <3>1. /\ UNCHANGED <<chanVars, ready, workVars, callData>>
          /\ pc[c] # "copyIn" /\ pc'[c] \in {"cmd", "post", "wait"}
      BY <1>4, <2>8 DEF SendCmd, SendPost
    <3> QED
      BY <2>4, <3>1 DEF chanVars, workVars, workData, callData
  <2>9. CASE serial_wait_tx_ready(c)
    <3>1. /\ UNCHANGED <<chanVars, workVars, op, arg, k, dst>>
          /\ pc[c] = "wait" /\ pc'[c] = "idle" /\ op[c] = "WR"
          /\ ready'["RD"] = ready["RD"]
      BY <1>4, <2>9 DEF serial_wait_tx_ready, Ops
    <3>2. Transmitted(c)' /\ Returned(c)'
      BY <2>1, <2>2, <3>1 DEF Transmitted, Returned, Holds, chanVars
    <3>3. Received'
      BY <2>1, <2>3, <3>1 DEF Received, Holds, chanVars, workVars, workData
    <3> QED
      BY <3>2, <3>3
  <2>10. CASE serial_wait_rx_ready(c)
    <3>1. /\ UNCHANGED <<chanVars, workVars, op, arg, dst>>
          /\ pc[c] = "wait" /\ op[c] = "RD" /\ ready["RD"] > 0
          /\ ret'[c] = rxCnt /\ k'[c] = 1
          /\ pc'[c] = (IF rxCnt = 0 THEN "idle" ELSE "copyOut")
      BY <1>4, <2>10 DEF serial_wait_rx_ready, Available
    <3>2. rxCnt = L /\ Holds(rxBuf, L)
      BY <2>3, <3>1 DEF Received
    <3>3. ret'[c] = L /\ pc'[c] = IF L = 0 THEN "idle" ELSE "copyOut"
      BY <3>1, <3>2
    <3>4. Transmitted(c)'
      BY <2>1, <2>2, <3>1, <3>3 DEF Transmitted, Holds, chanVars
    <3>5. Received'
      BY <2>1, <2>3, <3>1, <3>2 DEF Received, Holds, chanVars, workVars, workData
    <3>6. Returned(c)'
      BY <2>1, <3>1, <3>2, <3>3 DEF Returned, Holds, chanVars
    <3> QED
      BY <3>4, <3>5, <3>6
  <2>11. CASE ReadTimeout(c)
    BY <1>3, <1>4, <2>11 DEF ReadTimeout
  <2>12. CASE CopyOut(c)
    <3>1. /\ UNCHANGED <<chanVars, ready, workVars, op, arg, ret>>
          /\ pc[c] = "copyOut" /\ dst'[c] = [dst[c] EXCEPT ![k[c]] = rxBuf[k[c]]]
          /\ k'[c] = k[c] + 1 /\ pc'[c] = (IF k[c] = ret[c] THEN "idle" ELSE "copyOut")
      BY <1>4, <2>12 DEF CopyOut, LastByte
    <3>2. /\ op[c] = "RD" /\ ret[c] = L /\ Holds(rxBuf, L) /\ Holds(dst[c], k[c] - 1)
          /\ k[c] <= L /\ k[c] \in Nat \ {0}
      BY <1>4, <2>3, <3>1, BufSizeAssumption DEF Returned, IInv, CopyBounds
    <3>a. L <= BufSize
      BY <2>2, <3>1
    <3>3. Holds(dst'[c], k[c])
      <4>1. k[c] \in 1..L
        BY <1>5, <3>2, BufSizeAssumption
      <4>2. rxBuf[k[c]] = last[k[c]]
        BY <3>2, <4>1 DEF Holds
      <4>3. k[c] <= BufSize
        BY <1>5, <3>2, <3>a, BufSizeAssumption
      <4> QED
        BY <1>4, <3>1, <3>2, <4>2, <4>3, OneMoreByte
    <3>4. Transmitted(c)'
      BY <2>1, <2>2, <3>1 DEF Transmitted, Holds, chanVars
    <3>5. Received'
      BY <2>1, <2>3, <3>1 DEF Received, Holds, chanVars, workVars, workData
    <3>6. Returned(c)'
      <4>1. CASE k[c] = L
        BY <2>1, <3>1, <3>2, <3>3, <4>1 DEF Returned, Holds, chanVars
      <4>2. CASE k[c] # L
        <5>1. pc'[c] = "copyOut" /\ op'[c] = "RD" /\ ret'[c] = L /\ k'[c] - 1 = k[c]
          BY <3>1, <3>2, <4>2
        <5> QED
          BY <2>1, <3>1, <3>2, <3>3, <5>1 DEF Returned, Holds, chanVars
      <4> QED
        BY <4>1, <4>2
    <3> QED
      BY <3>4, <3>5, <3>6
  <2>13. CASE serial_dev_create \/ serial_dev_create_fails
    BY <2>1, <2>13 DEF serial_dev_create, serial_dev_create_fails, LoneData
  <2>14. CASE serial_dev_destroy \/ OwnerStep
    <3>1. /\ UNCHANGED <<chanVars, ready, workVars, callData>>
          /\ pc[c] \in {"idle", "stopPost", "join"} /\ pc'[c] \in {"idle", "stopPost", "join"}
      BY <1>3, <1>4, <2>14, CallersAssumption
      DEF serial_dev_destroy, OwnerStep, StopPost, JoinAndFree, CanCall
    <3> QED
      BY <2>4, <3>1 DEF chanVars, workVars, workData, callData
  <2>15. CASE Worker
    <3>1. UNCHANGED <<txLen, txBuf, callVars>>
      BY <2>15 DEF Worker, IdleWait, IdleCheck, IdleFetch, IdleClear, RunRecheck,
         serial_tx_process, serial_rx_process, RxCopy, RxOverrun, Overrun, RxCount, RxPost,
         chanVars
    <3>2. Transmitted(c)'
      BY <2>1, <2>2, <3>1 DEF Transmitted, Holds, callVars, callData
    <3>3. CASE IdleWait \/ IdleCheck \/ IdleFetch \/ IdleClear \/ RunRecheck \/ serial_tx_process
      <4>1. /\ UNCHANGED <<rxBuf, rxCnt, wlen, wi>> /\ ready'["RD"] = ready["RD"]
            /\ wpc' \notin {"rxCopy", "rxCnt", "rxPost"}
        BY <1>4, <3>3 DEF IdleWait, IdleCheck, IdleFetch, IdleClear, RunRecheck,
           serial_tx_process, Entry, chanVars, workData, Ops
      <4> QED
        BY <2>4, <3>1, <4>1 DEF callVars, callData
    <3>4. CASE serial_rx_process \/ RxCopy \/ RxCount \/ RxPost
      <4>1. /\ wpc \in {"rx", "rxCopy", "rxCnt", "rxPost"} /\ ready["RD"] = 0
            /\ pc[c] \in {"post", "wait"}
        BY <1>5, <3>4 DEF serial_rx_process, RxCopy, RxCount, RxPost
      <4>2. Returned(c)'
        BY <3>1, <4>1 DEF Returned, callVars
      <4>3. Holds(txBuf, L) /\ txLen = L /\ L <= BufSize
        BY <2>2, <4>1
      <4>4. CASE serial_rx_process
        <5>1. /\ wlen' = L /\ wi' = 1 /\ ready' = ready
              /\ wpc' = IF L = 0 THEN "rxCnt" ELSE "rxCopy"
          BY <1>5, <4>3, <4>4 DEF serial_rx_process
        <5>2. Received'
          BY <2>1, <4>1, <5>1 DEF Received, Holds
        <5> QED
          BY <3>2, <4>2, <5>2
      <4>5. CASE RxCopy
        <5>1. /\ wpc = "rxCopy" /\ rxBuf' = [rxBuf EXCEPT ![wi] = txBuf[wi]]
              /\ wi' = wi + 1 /\ wpc' = (IF wi = wlen THEN "rxCnt" ELSE "rxCopy")
              /\ wlen' = wlen /\ ready' = ready
          BY <4>5 DEF RxCopy, LastByte
        <5>2. wlen = L /\ Holds(rxBuf, wi - 1) /\ wi <= L /\ wi \in Nat \ {0}
          BY <1>4, <2>3, <5>1, BufSizeAssumption DEF Received, IInv, CopyBounds
        <5>3. Holds(rxBuf', wi)
          <6>1. wi \in 1..L
            BY <1>5, <5>2, BufSizeAssumption
          <6>2. txBuf[wi] = last[wi]
            BY <4>3, <6>1 DEF Holds
          <6>3. wi <= BufSize
            BY <4>5 DEF RxCopy
          <6>4. Holds([rxBuf EXCEPT ![wi] = last[wi]], wi)
            BY <1>4, <5>2, <6>3, OneMoreByte
          <6> QED
            BY <5>1, <6>2, <6>4
        <5>4. Received'
          <6>1. CASE wi = L
            BY <2>1, <4>1, <5>1, <5>2, <5>3, <6>1 DEF Received, Holds
          <6>2. CASE wi # L
            <7>1. wpc' = "rxCopy" /\ wi' - 1 = wi
              BY <5>1, <5>2, <6>2
            <7> QED
              BY <2>1, <4>1, <5>1, <5>2, <5>3, <7>1 DEF Received, Holds
          <6> QED
            BY <6>1, <6>2
        <5> QED
          BY <3>2, <4>2, <5>4
      <4>6. CASE RxCount
        <5>1. /\ wpc = "rxCnt" /\ rxCnt' = wi - 1 /\ wpc' = "rxPost"
              /\ UNCHANGED <<rxBuf, wlen, ready>>
          BY <4>6 DEF RxCount, workData
        <5>2. wlen = L /\ rxCnt' = L
          BY <1>5, <2>3, <5>1 DEF Received, IInv, CopyBounds
        <5>3. Received'
          BY <2>1, <2>3, <4>1, <5>1, <5>2 DEF Received, Holds
        <5> QED
          BY <3>2, <4>2, <5>3
      <4>7. CASE RxPost
        <5>1. wpc = "rxPost" /\ wpc' = "wait" /\ UNCHANGED <<rxBuf, rxCnt>>
          BY <4>7 DEF RxPost, Entry, chanVars, IInv, WorkerShape
        <5>2. Received'
          BY <2>1, <2>3, <5>1 DEF Received, Holds
        <5> QED
          BY <3>2, <4>2, <5>2
      <4> QED
        BY <3>4, <4>4, <4>5, <4>6, <4>7
    <3>5. CASE RxOverrun
      <4>1. UNCHANGED <<chanVars, ready, workVars, callVars>>
        BY <3>5 DEF RxOverrun, Overrun
      <4> QED
        BY <2>4, <4>1 DEF chanVars, workVars, workData, callVars, callData
    <3> QED
      BY <2>15, <3>3, <3>4, <3>5 DEF Worker
  <2>16. CASE CopyOverrun(c)
    <3>1. UNCHANGED <<chanVars, ready, workVars, callVars>>
      BY <2>16 DEF CopyOverrun, Overrun
    <3> QED
      BY <2>4, <3>1 DEF chanVars, workVars, workData, callVars, callData
  <2> QED
    BY <1>3, <1>8, <2>5, <2>6, <2>7, <2>8, <2>9, <2>10, <2>11, <2>12, <2>13, <2>14, <2>15,
       <2>16
    DEF Next, StartCall, CallStep
<1> QED
  BY <1>6, <1>8

\* For every payload and any channel size: a thread alone with the device, none of
\* whose reads has timed out, reads the bytes of its latest write, all of them and
\* nothing else.
THEOREM LoopbackIsExact == Spec => []LoopbackExact
<1>1. LoneData => LoopbackExact
  BY DEF LoneData, Alone, Returned, Holds, LoopbackExact
<1> QED
  BY <1>1, InitIInv, StepIInv, InitAccounted, StepAccounted, InitLoneData, StepLoneData,
     PTL DEF Spec

-----------------------------------------------------------------------------
(***************************************************************************)
(* Overruns.                                                               *)
(***************************************************************************)

\* After an overrun the model stands still.
LEMMA NothingAfterOverrun ==
    ASSUME IInv, [Next]_vars, overran # "no"
    PROVE  UNCHANGED vars
  BY DEF IInv, LifeShape, Next, Finished, serial_dev_create, serial_dev_create_fails,
     serial_dev_destroy, OwnerStep, StartCall, serial_dev_write, serial_dev_read,
     serial_dev_open, serial_dev_close, serial_dev_config, CanCall, CallStep, Worker

\* Only a memcpy of a caller or the worker's loop overruns a buffer.
LEMMA WhoOverruns ==
    ASSUME [Next]_vars, overran = "no", overran' # "no"
    PROVE  RxOverrun \/ \E c \in Callers : CopyOverrun(c)
  BY DEF Next, vars, Finished, serial_dev_create, serial_dev_create_fails,
     serial_dev_destroy, OwnerStep, StopPost, JoinAndFree, StartCall, serial_dev_write,
     serial_dev_read, serial_dev_open, serial_dev_close, serial_dev_config, CallStep,
     CopyIn, SendCmd, SendPost, serial_wait_tx_ready, serial_wait_rx_ready, ReadTimeout,
     CopyOut, Worker, IdleWait, IdleCheck, IdleFetch, IdleClear, RunRecheck,
     serial_tx_process, serial_rx_process, RxCopy, RxCount, RxPost, histVars

\* A thread alone with the device overruns a buffer with its own arguments only.
LEMMA StepOverrun ==
    IInv /\ AnswersAccounted /\ LoneData /\ OverrunIsAsked /\ [Next]_vars => OverrunIsAsked'
<1> SUFFICES ASSUME IInv, AnswersAccounted, LoneData, OverrunIsAsked, [Next]_vars,
                    NEW c \in Callers, Alone(c)', wrote', overran' # "no"
             PROVE  OverrunIsAsked!(c)'
  BY DEF OverrunIsAsked, Alone
<1>1. Alone(c)
  BY AloneBefore
<1>2. CASE overran # "no"
  <2>1. UNCHANGED vars
    BY <1>2, NothingAfterOverrun
  <2> QED
    BY <2>1 DEF OverrunIsAsked, vars, histVars, callVars, callData
<1>3. CASE RxOverrun \/ CopyOverrun(c)
  <2>1. wrote /\ UNCHANGED <<last, size>>
    BY <1>3 DEF RxOverrun, CopyOverrun, Overrun, callVars, callData
  <2>2. Transmitted(c) /\ Received /\ Returned(c)
    BY <1>1, <2>1 DEF LoneData
  <2>3. /\ Len(last) \in Nat /\ BufSize \in Nat /\ wi \in Nat
        /\ k[c] \in Nat /\ size[c] \in Nat
        /\ wpc = "rxCopy" => pc[c] \in {"post", "wait"}
    BY <1>1, LoneFacts, BufSizeAssumption DEF IInv, TypeOK, WorkType, CallType
  <2>4. CASE RxOverrun
    <3>1. wpc = "rxCopy" /\ wi > BufSize /\ wi <= Len(last) /\ Len(last) <= BufSize
      BY <2>2, <2>3, <2>4 DEF RxOverrun, IInv, CopyBounds, Received, Transmitted
    <3> QED
      BY <2>3, <3>1
  <2>5. CASE pc[c] = "copyIn" /\ k[c] > BufSize /\ Overrun("tx")
    <3>1. Len(last) > BufSize
      BY <2>2, <2>3, <2>5 DEF Transmitted, IInv, CopyBounds
    <3> QED
      BY <2>1, <2>5, <3>1 DEF Overrun
  <2>6. CASE pc[c] = "copyOut" /\ k[c] > size[c] /\ Overrun("dst")
    <3>1. Len(last) > size[c]
      BY <2>2, <2>3, <2>6 DEF Returned, IInv, CopyBounds
    <3> QED
      BY <2>1, <2>6, <3>1 DEF Overrun
  <2> QED
    BY <1>3, <2>4, <2>5, <2>6 DEF CopyOverrun
<1> QED
  BY <1>1, <1>2, <1>3, WhoOverruns DEF Alone

\* Whatever the sizes and the lengths: once a thread alone with the device has
\* written something, and until a read of its own times out, the loop-back never
\* leaves the channels, and a memcpy leaves its buffer only where the thread's own
\* latest write is longer than that buffer.
THEOREM OverrunsAreAsked == Spec => []OverrunIsAsked
<1>1. Init => OverrunIsAsked
  BY DEF Init, OverrunIsAsked
<1> QED
  BY <1>1, InitIInv, StepIInv, InitAccounted, StepAccounted, InitLoneData, StepLoneData,
     StepOverrun, PTL DEF Spec
=============================================================================
