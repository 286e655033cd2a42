------------------------------- MODULE XyzModem -------------------------------
(***************************************************************************)
(* The X-modem receiver of demo-dh, drivers/xyzmodem.c, against a sender   *)
(* on a line that loses, damages and delays.                               *)
(*                                                                         *)
(* The line carries blocks and single characters; a block that lost some   *)
(* of its characters is "cut", or a "stub" when nothing came after its     *)
(* first, one whose number and complement disagree is "frame", one with    *)
(* damaged data is "crc" (the CRC is taken to find any damage).  The       *)
(* sender and the line are external: the sender is the usual one, that     *)
(* repeats the current block when it hears nothing or another "C", and     *)
(* goes on to the next when it hears an ACK, which has no number.          *)
(***************************************************************************)
EXTENDS Integers, Sequences

CONSTANTS
    File,           \* the blocks that the sender has: sequences of characters
    CtrlZ,          \* the padding character, EOF in the code
    BlkMod,         \* the number of block numbers, 256 in the code
    MaxRetries,     \* xyzModem_MAX_RETRIES
    CanCount,       \* xyzModem_CAN_COUNT
    Sizes,          \* the sizes that stream_read is called with
    MaxLine,        \* bound: characters and blocks under way
    MaxReads,       \* bound: calls of stream_read
    MaxFaults       \* bound: faults of the line, noise apart, and premature repetitions

N == Len(File)

ASSUME FileAssumption == File \in Seq(Seq(STRING)) /\ \A i \in 1..N : Len(File[i]) >= 3
ASSUME BlkModAssumption == BlkMod \in Nat /\ BlkMod > 2
ASSUME RetriesAssumption == MaxRetries \in Nat \ {0} /\ CanCount \in Nat \ {0}
ASSUME SizesAssumption == Sizes \subseteq Nat \ {0}
ASSUME BoundsAssumption == MaxLine \in Nat \ {0} /\ MaxReads \in Nat /\ MaxFaults \in Nat

VARIABLES
    pc,         \* where the receiver is
    next_blk, len, off, at_eof, tx_ack,     \* xyz; off is bufp - pkt
    pkt,        \* the block in xyz.pkt
    hdr,        \* get_hdr: hdr_chars, of which it matters whether it is 0, and can_total
    size, retries, stat,                    \* stream_read
    err,        \* *err of the latest call that reported one, or 0
    rx, tx,     \* the line to and from the receiver
    snd,        \* external: the block the sender is at; N + 1 is EOT
    out,        \* history: all that was copied to the caller
    taken,      \* history: how many blocks were accepted as new
    spent,      \* history: the retries ran out on a repeated block
    early,      \* history: the sender took the ACK of one block for that of another
    reads, faults

xyzVars == <<next_blk, len, off, at_eof, tx_ack, pkt>>
readVars == <<size, retries, stat, err>>
histVars == <<out, taken, spent>>
extVars == <<snd, early, faults>>
vars == <<pc, next_blk, len, off, at_eof, tx_ack, pkt, hdr, size, retries, stat, err,
          rx, tx, snd, out, taken, spent, early, reads, faults>>

xyzModem_access == -1
xyzModem_timeout == -3
xyzModem_eof == -4
xyzModem_cancel == -5
xyzModem_frame == -6
xyzModem_cksum == -7
xyzModem_sequence == -8

Char(c) == [k |-> c, i |-> 0]
ACK(i) == [k |-> "ACK", i |-> i]            \* the i of an ACK is history
Block(i, k) == [k |-> k, i |-> i]
BlockKinds == {"good", "crc", "frame", "cut"}
Blk(i) == i % BlkMod                        \* the number that block i carries

\* xyz_putc; a line that is full loses the character.
Said(line, c) == IF Len(line) < MaxLine THEN Append(line, c) ELSE line

\* The length of a block without its padding: padding is at least three characters.
Unpadded(b) ==
    LET last == Len(b)
        ends == {e \in 0..last : (\A i \in (e + 1)..last : b[i] = CtrlZ)
                                 /\ (e > 0 => b[e] # CtrlZ)}
    IN  IF \A i \in (last - 2)..last : b[i] = CtrlZ THEN CHOOSE e \in ends : TRUE ELSE last

Init ==
    /\ pc = "uninit"
    /\ next_blk = 0 /\ len = 0 /\ off = 0 /\ at_eof = FALSE /\ tx_ack = FALSE
    /\ pkt = 0 /\ hdr = [chars |-> 0, cans |-> 0]
    /\ size = 0 /\ retries = 0 /\ stat = 0 /\ err = 0
    /\ rx = <<>> /\ tx = <<>>
    /\ snd = 0
    /\ out = <<>> /\ taken = 0 /\ spent = FALSE /\ early = FALSE
    /\ reads = 0 /\ faults = 0

-----------------------------------------------------------------------------
(***************************************************************************)
(* The receiver.                                                           *)
(***************************************************************************)
xyzModem_init ==
    /\ pc = "uninit" /\ pc' = "closed"
    /\ UNCHANGED <<xyzVars, hdr, readVars, rx, tx, histVars, reads, extVars>>

\* Without a tty to talk to the stream cannot be opened.
OpenFails ==
    /\ pc = "uninit" /\ err' = xyzModem_access
    /\ UNCHANGED <<pc, xyzVars, hdr, size, retries, stat, rx, tx, histVars, reads, extVars>>

xyzModem_stream_open ==
    /\ pc = "closed" /\ pc' = "idle"
    /\ len' = 0 /\ at_eof' = FALSE /\ tx_ack' = FALSE /\ next_blk' = 1
    /\ tx' = Said(tx, Char("C"))
    /\ err' = 0                                 \* the caller clears its err for each call
    /\ UNCHANGED <<off, pkt, hdr, size, retries, stat, rx, histVars, reads, extVars>>

\* A caller does not read on after an error: xyz.len is -1 then.
xyzModem_stream_read ==
    /\ pc = "idle" /\ len >= 0 /\ reads < MaxReads
    /\ \E s \in Sizes : size' = s
    /\ reads' = reads + 1
    /\ stat' = xyzModem_cancel
    /\ pc' = "loop"
    /\ UNCHANGED <<xyzVars, hdr, retries, err, rx, tx, histVars, extVars>>

\* The head of the outer loop: return, look for a block, or copy from the one there is.
ReadLoop ==
    /\ pc = "loop"
    /\ IF at_eof \/ size = 0
       THEN pc' = "idle" /\ UNCHANGED <<retries, size, len, off, out>>
       ELSE IF len = 0
       THEN pc' = "try" /\ retries' = MaxRetries /\ UNCHANGED <<size, len, off, out>>
       ELSE LET k == IF size < len THEN size ELSE len
            IN  /\ out' = out \o SubSeq(File[pkt], off + 1, off + k)
                /\ size' = size - k /\ len' = len - k /\ off' = off + k
                /\ UNCHANGED <<pc, retries>>
    /\ UNCHANGED <<next_blk, at_eof, tx_ack, pkt, hdr, stat, err, rx, tx, taken, spent, reads,
                   extVars>>

\* The end of stream_read with an error.
Fail(s) == err' = s /\ len' = -1 /\ pc' = "idle"

\* Mutant: the retries are not counted.
Countdown_Stuck(k) == k
Countdown(k) == k - 1

\* The head of the inner loop, and the head of xyzModem_get_hdr, which sends the ACK
\* of the block before.  When the retries run out stat decides whether that is an error.
Retry ==
    /\ pc = "try"
    /\ IF retries = 0
       THEN /\ IF stat < 0 THEN Fail(stat) /\ spent' = spent
               ELSE pc' = "loop" /\ spent' = TRUE /\ UNCHANGED <<err, len>>
            /\ UNCHANGED <<retries, tx, tx_ack, hdr>>
       ELSE /\ retries' = Countdown(retries)
            /\ tx' = IF tx_ack THEN Said(tx, ACK(pkt)) ELSE tx
            /\ tx_ack' = FALSE
            /\ hdr' = [chars |-> 0, cans |-> 0]
            /\ pc' = "hdr"
            /\ UNCHANGED <<err, len, spent>>
    /\ UNCHANGED <<next_blk, off, at_eof, pkt, size, stat, rx, out, taken, reads, extVars>>

\* An error that stream_read answers with another "C".
Again(s, line) == stat' = s /\ tx' = Said(line, Char("C")) /\ pc' = "try"

\* A character ahead of the header: noise and CAN are counted, EOT counts only
\* when it comes first and is acknowledged by get_hdr and by stream_read.
HeaderChar ==
    /\ pc = "hdr" /\ rx # <<>> /\ Head(rx).k \in {"noise", "CAN", "EOT"}
    /\ LET c == Head(rx).k
           cans == hdr.cans + IF c = "CAN" THEN 1 ELSE 0
       IN  /\ hdr' = [chars |-> 1, cans |-> cans]
           /\ IF c = "CAN" /\ cans = CanCount
              THEN stat' = xyzModem_cancel /\ Fail(stat') /\ UNCHANGED <<tx, at_eof>>
              ELSE IF c = "EOT" /\ hdr.chars = 0
              THEN /\ stat' = xyzModem_eof /\ at_eof' = TRUE
                   /\ tx' = Said(Said(tx, ACK(N + 1)), ACK(N + 1))
                   /\ Fail(stat')
              ELSE UNCHANGED <<pc, stat, err, len, tx, at_eof>>
    /\ rx' = Tail(rx)
    /\ UNCHANGED <<next_blk, off, tx_ack, pkt, size, retries, histVars, reads, extVars>>

\* Mutant: the number does not wrap.
Following_NoWrap(b) == b + 1
Following(b) == (b + 1) % BlkMod

\* Mutant: the block is acknowledged as soon as it is there.
Accept_AckNow(i) ==
    /\ tx' = Said(tx, ACK(i)) /\ tx_ack' = FALSE
    /\ next_blk' = Following(next_blk)
    /\ len' = Unpadded(File[i])
    /\ stat' = 0 /\ pc' = "loop" /\ taken' = taken + 1
Accept(i) ==
    /\ tx_ack' = TRUE /\ tx' = tx
    /\ next_blk' = Following(next_blk)
    /\ len' = Unpadded(File[i])
    /\ stat' = 0 /\ pc' = "loop" /\ taken' = taken + 1

Repeated(i) == Blk(i) = (next_blk - 1) % BlkMod

\* Mutant: the order of the blocks is not checked.
Expected_Any(i) == TRUE
Expected(i) == Blk(i) = next_blk

\* A block: get_hdr reads all of it into xyz.pkt before it looks at it, stream_read
\* looks at its number.  A repeated block is acknowledged again and another looked for.
HeaderBlock ==
    /\ pc = "hdr" /\ rx # <<>> /\ Head(rx).k \in BlockKinds
    /\ LET b == Head(rx) IN
        /\ pkt' = b.i /\ off' = 0
        /\ rx' = IF b.k = "frame" THEN <<>> ELSE Tail(rx)
        /\ IF b.k = "good" /\ Expected(b.i) THEN Accept(b.i)
           ELSE /\ len' = Len(File[b.i])
                /\ UNCHANGED <<next_blk, tx_ack, taken>>
                /\ IF b.k = "cut" THEN Again(xyzModem_timeout, tx)
                   ELSE IF b.k = "frame" THEN Again(xyzModem_frame, tx)
                   ELSE IF b.k = "crc" THEN Again(xyzModem_cksum, tx)
                   ELSE IF Repeated(b.i)
                   THEN stat' = 0 /\ tx' = Said(tx, ACK(b.i)) /\ pc' = "try"
                   ELSE Again(xyzModem_sequence, tx)
    /\ UNCHANGED <<at_eof, hdr, size, retries, err, out, spent, reads, extVars>>

\* Nothing comes for two seconds, at all or after the first character of a block: the
\* packet and its length are not touched yet.
HeaderTimeout ==
    /\ pc = "hdr"
    /\ \/ rx = <<>> /\ rx' = rx
       \/ rx # <<>> /\ Head(rx).k = "stub" /\ rx' = Tail(rx)
    /\ Again(xyzModem_timeout, tx)
    /\ UNCHANGED <<xyzVars, hdr, size, retries, err, histVars, reads, extVars>>

xyzModem_get_hdr == HeaderChar \/ HeaderBlock \/ HeaderTimeout

\* Aborting sends a row of CAN and of backspaces; either way the input is thrown away.
xyzModem_stream_terminate ==
    /\ pc = "idle" /\ pc' = "ended"
    /\ rx' = <<>>
    /\ \/ at_eof' = TRUE /\ tx' = Said(tx, Char("CAN"))
       \/ UNCHANGED <<at_eof, tx>>
    /\ UNCHANGED <<next_blk, len, off, tx_ack, pkt, hdr, readVars, histVars, reads, extVars>>

-----------------------------------------------------------------------------
(***************************************************************************)
(* External: the sender and the line.                                      *)
(***************************************************************************)
Send(i) == rx' = Said(rx, IF i = N + 1 THEN Char("EOT") ELSE Block(i, "good"))
recvVars == <<pc, xyzVars, hdr, readVars, histVars, reads>>

SenderHears ==
    /\ tx # <<>> /\ tx' = Tail(tx)
    /\ LET c == Head(tx).k IN
       CASE c = "C" /\ snd = 0 -> snd' = 1 /\ Send(1) /\ UNCHANGED early
         [] c = "C" /\ snd \in 1..(N + 1) ->
                snd' = snd /\ (Send(snd) \/ UNCHANGED rx) /\ UNCHANGED early
         [] c = "ACK" /\ snd \in 1..(N + 1) ->
                /\ snd' = snd + 1
                /\ IF snd' <= N + 1 THEN Send(snd') ELSE UNCHANGED rx
                /\ early' = (early \/ Head(tx).i # snd)
         [] c = "CAN" -> snd' = N + 2 /\ UNCHANGED <<rx, early>>
         [] OTHER -> UNCHANGED <<snd, rx, early>>
    /\ UNCHANGED <<recvVars, faults>>

\* The sender hears nothing and repeats, or gives up and sends CAN.
SenderTimeout ==
    /\ snd \in 1..(N + 1) /\ faults < MaxFaults
    /\ faults' = faults + 1
    /\ \/ Send(snd) /\ UNCHANGED snd
       \/ rx' = rx \o [i \in 1..CanCount |-> Char("CAN")] /\ snd' = N + 2
    /\ UNCHANGED <<recvVars, tx, early>>

\* What is left of a block that lost its beginning, or its end: characters that are
\* looked at one by one and may happen to be an EOT, a row of CAN or the start of a block.
Leftovers ==
    {<<>>, <<Char("EOT")>>, <<Char("stub")>>, [i \in 1..CanCount |-> Char("CAN")]}

\* The line damages a block on its way, loses it but for a few characters, or loses an
\* answer.
Damage ==
    /\ faults < MaxFaults /\ faults' = faults + 1
    /\ \/ \E x \in 1..Len(rx) :
            /\ \/ rx[x].k = "good" /\ \E k \in BlockKinds : rx' = [rx EXCEPT ![x].k = k]
               \/ \E c \in Leftovers :
                    rx' = (SubSeq(rx, 1, x - 1) \o c) \o SubSeq(rx, x + 1, Len(rx))
            /\ tx' = tx
       \/ tx # <<>> /\ tx' = Tail(tx) /\ rx' = rx
    /\ UNCHANGED <<recvVars, snd, early>>

\* Noise on the line, any number of times: a character that means nothing ahead of a
\* header.  Wherever it came in between, it counts when it is read, so it is put on the
\* line when it is the next one to be read.
Noise ==
    /\ pc = "hdr" /\ (rx # <<>> => Head(rx) # Char("noise"))
    /\ rx' = <<Char("noise")>> \o rx
    /\ UNCHANGED <<recvVars, tx, extVars>>

Receiver == ReadLoop \/ Retry \/ xyzModem_get_hdr
Next ==
    \/ xyzModem_init \/ OpenFails \/ xyzModem_stream_open
    \/ xyzModem_stream_read \/ Receiver
    \/ xyzModem_stream_terminate
    \/ SenderHears \/ SenderTimeout \/ Damage \/ Noise

\* The receiver polls the line with a timeout, so a call that was begun goes on.
Spec == Init /\ [][Next]_vars /\ WF_vars(Receiver)

-----------------------------------------------------------------------------
(***************************************************************************)
(* Properties.                                                             *)
(***************************************************************************)
\* Type correctness: the receiver's variables keep their ranges; xyz.len stays between
\* the -1 of an error and the length of the block in the buffer.
TypeOK ==
    /\ pc \in {"uninit", "closed", "idle", "loop", "try", "hdr", "ended"}
    /\ next_blk \in 0..(BlkMod - 1) /\ at_eof \in BOOLEAN /\ tx_ack \in BOOLEAN
    /\ pkt \in 0..N
    /\ len >= -1 /\ off >= 0 /\ (pkt > 0 => len + off <= Len(File[pkt]))
    /\ hdr.chars \in {0, 1} /\ hdr.cans \in 0..CanCount
    /\ size \in Nat /\ retries \in 0..MaxRetries /\ stat \in -8..0 /\ err \in -8..0
    /\ snd \in 0..(N + 2) /\ taken \in Nat /\ spent \in BOOLEAN /\ early \in BOOLEAN

\* The contents of the first k blocks, without their padding.
Contents ==
    LET f[k \in 0..N] == IF k = 0 THEN <<>>
                         ELSE f[k - 1] \o SubSeq(File[k], 1, Unpadded(File[k]))
    IN  f

Prefix(s, t) == Len(s) <= Len(t) /\ s = SubSeq(t, 1, Len(s))

\* What the receiver promises (Delivery): the caller gets the blocks in order, no
\* character twice and none left out, and a block is acknowledged once, after all of it
\* has been copied out of the packet buffer; until the retries run out on a repeated
\* block.  The put-off ACK is the difference between the blocks taken and acknowledged.
D == INSTANCE Delivery WITH
        Blocks <- N,
        got <- out,
        acked <- taken - (IF tx_ack THEN 1 ELSE 0),
        lapsed <- spent

DeliversInOrder == D!Spec

\* A block is acknowledged only when the caller has all of it: the blocks the sender
\* has left behind have been copied out of the packet buffer, which the next one will
\* overwrite.  (Not so after the sender has taken a second ACK for one block, or the
\* one for an EOT that was none, as the first for the next.)
AckedIsDelivered ==
    ~spent /\ ~early /\ snd \in 1..(N + 1) => Len(out) >= Len(Contents[snd - 1])

\* "Need new header": what is copied to the caller always comes from a new block, so the
\* caller gets the file in order.
NeedNewHeader == Prefix(out, Contents[N])

\* A call of stream_read comes to an end, with data or with an error, on a line that is
\* free of noise from some time on.  Without that it need not: get_hdr takes any number
\* of characters that start no block, and begins its timeout anew with each of them.
Quiet == \A x \in 1..Len(rx) : rx[x].k # "noise"
ReadReturns == <>[]Quiet => (pc \in {"loop", "try", "hdr"} ~> pc = "idle")
=============================================================================
