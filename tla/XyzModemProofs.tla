---------------------------- MODULE XyzModemProofs ----------------------------
(***************************************************************************)
(* Proofs about XyzModem: type correctness, what an ACK promises and the   *)
(* order of delivery, for any file, any number of block numbers above two, *)
(* any sizes of the reads and any number of faults of the line.            *)
(***************************************************************************)
EXTENDS XyzModem, TLAPS, WellFoundedInduction, SequenceTheorems

-----------------------------------------------------------------------------
(***************************************************************************)
(* Facts about numbers.                                                    *)
(***************************************************************************)

\* A set of natural numbers has a least element; what is proved by induction below is
\* proved from a least counterexample.
LEMMA Least ==
    ASSUME NEW T \in SUBSET Nat, T # {}
    PROVE  \E x \in T : \A y \in T : x <= y
<1>1. PICK x \in T : \A y \in T : ~ (<<y, x>> \in {ss \in Nat \X Nat : ss[1] < ss[2]})
  <2>1. IsWellFoundedOn({ss \in Nat \X Nat : ss[1] < ss[2]}, Nat)
    BY NatLessThanWellFounded, Zenon DEF OpToRel
  <2> QED
    BY <2>1, WFMin, Zenon
<1>2. ASSUME NEW y \in T
      PROVE  x <= y
  <2>1. y < x => <<y, x>> \in {ss \in Nat \X Nat : ss[1] < ss[2]}
    OBVIOUS
  <2>2. ~ (y < x)
    BY <1>1, <2>1
  <2> QED
    BY <2>2
<1> QED
  BY <1>2

\* The remainder of the next number: one more, or 0 when it wraps.
LEMMA ModNext ==
    ASSUME NEW a \in Nat, NEW m \in Nat, m > 0
    PROVE  /\ a % m \in 0..(m - 1)
           /\ (a + 1) % m = IF (a % m) + 1 = m THEN 0 ELSE (a % m) + 1
<1>1. PICK q \in Nat, r \in 0..(m - 1) : a = m * q + r /\ r = a % m
  <2>1. a = m * (a \div m) + (a % m)
    BY SMT
  <2>2. a \div m \in Nat /\ a % m \in 0..(m - 1)
    BY SMT
  <2> QED
    BY <2>1, <2>2
<1>2. ASSUME NEW k \in Nat, NEW s \in 0..(m - 1)
      PROVE  (m * k + s) % m = s
  BY SMT
<1>3. CASE r + 1 = m
  <2>1. a + 1 = m * (q + 1) + 0
    BY <1>1, <1>3
  <2>2. (m * (q + 1) + 0) % m = 0
    BY <1>2
  <2> QED
    BY <1>1, <1>3, <2>1, <2>2
<1>4. CASE r + 1 < m
  <2>1. a + 1 = m * q + (r + 1)
    BY <1>1
  <2>2. (m * q + (r + 1)) % m = r + 1
    BY <1>2, <1>4
  <2> QED
    BY <1>1, <1>4, <2>1, <2>2
<1> QED
  BY <1>1, <1>3, <1>4

\* A number below the modulus is its own remainder, and -1 wraps to the greatest one.
LEMMA ModSmall ==
    ASSUME NEW m \in Nat, m > 0
    PROVE  /\ \A a \in 0..(m - 1) : a % m = a
           /\ (0 - 1) % m = m - 1
  BY SMT

\* xyz.next_blk counts on as the block numbers do, wrapping with them.
LEMMA FollowingNumber ==
    ASSUME NEW t \in Nat
    PROVE  /\ (t + 1) % BlkMod \in 0..(BlkMod - 1)
           /\ Following((t + 1) % BlkMod) = (t + 2) % BlkMod
<1> DEFINE r == (t + 1) % BlkMod
<1>1. r \in 0..(BlkMod - 1) /\ (t + 1 + 1) % BlkMod = IF r + 1 = BlkMod THEN 0 ELSE r + 1
  <2>1. t + 1 \in Nat /\ BlkMod > 0
    BY BlkModAssumption
  <2> QED
    BY <2>1, ModNext, BlkModAssumption
<1>2. (r + 1) % BlkMod = IF r + 1 = BlkMod THEN 0 ELSE r + 1
  <2>1. CASE r + 1 = BlkMod
    <3>1. r % BlkMod = r
      BY <1>1, ModSmall, BlkModAssumption
    <3> QED
      BY <1>1, <2>1, <3>1, ModNext, BlkModAssumption
  <2>2. CASE r + 1 < BlkMod
    BY <1>1, <2>2, ModSmall, BlkModAssumption
  <2> QED
    BY <1>1, <2>1, <2>2, BlkModAssumption
<1>3. t + 1 + 1 = t + 2
  OBVIOUS
<1> QED
  BY <1>1, <1>2, <1>3 DEF Following

\* A block that carries the expected number is the next one: when it is the latest one
\* taken or the next, and when it is not older than these and there are no more blocks
\* than block numbers.  One of the two that carries the number before is the latest.
LEMMA NumberTells ==
    ASSUME NEW t \in Nat, NEW i \in Nat,
           i \in {t, t + 1} \/ (i \in 1..N /\ t <= i /\ N <= BlkMod)
    PROVE  /\ i % BlkMod = (t + 1) % BlkMod => i = t + 1
           /\ i \in {t, t + 1} /\ i % BlkMod = (((t + 1) % BlkMod) - 1) % BlkMod => i = t
<1> USE BlkModAssumption
<1> DEFINE r == t % BlkMod
           s == (t + 1) % BlkMod
<1>1. r \in 0..(BlkMod - 1) /\ s = IF r + 1 = BlkMod THEN 0 ELSE r + 1
  <2>1. BlkMod > 0
    OBVIOUS
  <2> QED
    BY <2>1, ModNext
<1>2. s # r
  BY <1>1
<1>3. (s - 1) % BlkMod = r
  <2>1. CASE r + 1 = BlkMod
    BY <1>1, <2>1, ModSmall
  <2>2. CASE r + 1 # BlkMod
    <3>1. s - 1 = r
      BY <1>1, <2>2
    <3> QED
      BY <1>1, <3>1, ModSmall
  <2> QED
    BY <2>1, <2>2
<1>4. CASE i \in {t, t + 1}
  BY <1>2, <1>3, <1>4
<1>5. CASE i \in (t + 2)..BlkMod
  <2>1. s = t + 1 /\ t + 1 \in 0..(BlkMod - 1)
    BY <1>5, ModSmall
  <2>2. i % BlkMod = IF i = BlkMod THEN 0 ELSE i
    <3>1. CASE i = BlkMod
      <4>1. (BlkMod - 1) % BlkMod = BlkMod - 1 /\ BlkMod - 1 \in Nat /\ BlkMod > 0
        BY ModSmall
      <4>2. (BlkMod - 1 + 1) % BlkMod = 0
        BY <4>1, ModNext
      <4>3. BlkMod - 1 + 1 = BlkMod
        OBVIOUS
      <4> QED
        BY <3>1, <4>2, <4>3
    <3>2. CASE i \in 0..(BlkMod - 1)
      BY <3>2, ModSmall
    <3> QED
      BY <1>5, <3>1, <3>2
  <2>3. i % BlkMod # s
    BY <1>5, <2>1, <2>2
  <2>4. i \notin {t, t + 1}
    BY <1>5
  <2> QED
    BY <2>3, <2>4
<1>6. i \in {t, t + 1} \/ i \in (t + 2)..BlkMod
  <2>1. N \in Nat
    BY FileAssumption DEF N
  <2> QED
    BY <2>1
<1> QED
  BY <1>4, <1>5, <1>6

-----------------------------------------------------------------------------
(***************************************************************************)
(* Facts about the file.                                                   *)
(***************************************************************************)

\* The blocks are sequences of at least three characters.
LEMMA Blocks ==
    /\ N \in Nat
    /\ \A i \in 1..N : File[i] \in Seq(STRING) /\ Len(File[i]) \in Nat /\ Len(File[i]) >= 3
  BY FileAssumption DEF N

\* Taking the padding off leaves a length that the block has: the search for the end of
\* the contents does not run off the front of the buffer, even when all is padding.
LEMMA UnpaddedType ==
    ASSUME NEW b \in Seq(STRING)
    PROVE  Unpadded(b) \in 0..Len(b)
<1> DEFINE last == Len(b)
           pads == {e \in 0..last : \A i \in (e + 1)..last : b[i] = CtrlZ}
           ends == {e \in 0..last : (\A i \in (e + 1)..last : b[i] = CtrlZ)
                                    /\ (e > 0 => b[e] # CtrlZ)}
<1>0. last \in Nat
  OBVIOUS
<1>1. pads \in SUBSET Nat /\ last \in pads
  BY <1>0
<1>2. PICK e \in pads : \A y \in pads : e <= y
  BY <1>1, Least
<1>3. e > 0 => b[e] # CtrlZ
  <2> SUFFICES ASSUME e > 0, b[e] = CtrlZ
               PROVE  FALSE
    OBVIOUS
  <2>1. e - 1 \in 0..last /\ \A i \in e..last : b[i] = CtrlZ
    BY <1>0, <1>2
  <2>2. e - 1 \in pads
    BY <1>0, <1>2, <2>1
  <2> HIDE DEF pads
  <2>3. e <= e - 1
    BY <1>2, <2>2, Zenon
  <2> QED
    BY <1>0, <1>1, <2>1, <2>3
<1>4. e \in ends
  BY <1>2, <1>3
<1>5. (CHOOSE x \in ends : TRUE) \in ends
  BY <1>4
<1> QED
  BY <1>0, <1>5 DEF Unpadded

\* What block k holds without its padding.
Part(k) == SubSeq(File[k], 1, Unpadded(File[k]))
Unfolds(f, n) == f = [k \in 0..n |-> IF k = 0 THEN <<>> ELSE f[k - 1] \o Part(k)]

\* The part of a block that is copied to the caller has the length Unpadded says.
LEMMA PartType ==
    ASSUME NEW k \in 1..N
    PROVE  Part(k) \in Seq(STRING) /\ Len(Part(k)) = Unpadded(File[k])
<1>1. File[k] \in Seq(STRING) /\ Unpadded(File[k]) \in 0..Len(File[k])
  BY Blocks, UnpaddedType
<1> QED
  BY <1>1, SubSeqProperties DEF Part

\* The recursive function that Contents is exists, for any number of blocks.
LEMMA UnfoldingExists == \A n \in Nat : \E f : Unfolds(f, n)
<1> DEFINE T == {n \in Nat : ~ \E f : Unfolds(f, n)}
<1> SUFFICES ASSUME T # {}
             PROVE  FALSE
  OBVIOUS
<1>1. PICK n \in T : \A m \in T : n <= m
  BY Least
<1>2. n # 0
  <2>1. Unfolds([k \in 0..0 |-> <<>>], 0)
    BY DEF Unfolds
  <2> QED
    BY <2>1
<1>3. n \in Nat /\ n - 1 \in Nat /\ n - 1 \notin T
  BY <1>1, <1>2
<1>4. PICK f : Unfolds(f, n - 1)
  BY <1>3
<1> DEFINE g == [k \in 0..n |-> IF k = n THEN f[n - 1] \o Part(n) ELSE f[k]]
<1>5. ASSUME NEW k \in 0..n
      PROVE  g[k] = IF k = 0 THEN <<>> ELSE g[k - 1] \o Part(k)
  <2> HIDE DEF Part
  <2>1. \A j \in 0..(n - 1) : f[j] = IF j = 0 THEN <<>> ELSE f[j - 1] \o Part(j)
    BY <1>3, <1>4 DEF Unfolds
  <2>2. CASE k = 0
    BY <1>2, <2>1, <2>2
  <2>3. CASE k = n /\ k # 0
    <3>1. g[n] = f[n - 1] \o Part(n)
      BY <1>3
    <3>2. g[n - 1] = f[n - 1]
      BY <1>3
    <3> QED
      BY <2>3, <3>1, <3>2
  <2>4. CASE k \in 1..(n - 1)
    <3>1. g[k] = f[k] /\ g[k - 1] = f[k - 1]
      BY <1>3, <2>4
    <3>2. k \in 0..(n - 1) /\ k # 0
      BY <1>3, <2>4
    <3>3. f[k] = f[k - 1] \o Part(k)
      BY <2>1, <3>2, Zenon
    <3> HIDE DEF g
    <3> QED
      BY <3>1, <3>2, <3>3, Zenon
  <2> QED
    BY <1>3, <2>2, <2>3, <2>4
<1>6. Unfolds(g, n)
  BY <1>5 DEF Unfolds
<1> QED
  BY <1>6

\* The contents of the first k blocks are those of the first k - 1 and the part of block k.
LEMMA ContentsUnfolds ==
    /\ Contents[0] = <<>>
    /\ \A k \in 1..N : Contents[k] = Contents[k - 1] \o Part(k)
<1>1. PICK f : Unfolds(f, N)
  BY UnfoldingExists, Blocks
<1>2. Contents = [k \in 0..N |-> IF k = 0 THEN <<>> ELSE Contents[k - 1] \o Part(k)]
  BY <1>1 DEF Contents, Unfolds, Part
<1>3. \A k \in 0..N : Contents[k] = IF k = 0 THEN <<>> ELSE Contents[k - 1] \o Part(k)
  BY <1>2
<1>4. 0 \in 0..N /\ \A k \in 1..N : k \in 0..N /\ k # 0
  BY Blocks
<1> QED
  BY <1>3, <1>4, Zenon

\* The contents of any number of blocks are a sequence of characters.
LEMMA ContentsType == \A k \in 0..N : Contents[k] \in Seq(STRING)
<1> DEFINE T == {k \in 0..N : Contents[k] \notin Seq(STRING)}
<1> SUFFICES ASSUME T # {}
             PROVE  FALSE
  OBVIOUS
<1>1. PICK k \in T : \A m \in T : k <= m
  <2>1. T \in SUBSET Nat
    BY Blocks
  <2> QED
    BY <2>1, Least
<1>2. k # 0
  <2>1. Contents[0] \in Seq(STRING)
    BY ContentsUnfolds
  <2> QED
    BY <2>1
<1>3. k \in 1..N /\ k - 1 \in 0..N /\ k - 1 \notin T
  BY <1>1, <1>2, Blocks
<1>4. Contents[k - 1] \in Seq(STRING) /\ Part(k) \in Seq(STRING)
  BY <1>3, PartType
<1>5. Contents[k] = Contents[k - 1] \o Part(k)
  BY <1>3, ContentsUnfolds
<1>6. Contents[k] \in Seq(STRING)
  BY <1>4, <1>5
<1> QED
  BY <1>6

-----------------------------------------------------------------------------
(***************************************************************************)
(* The inductive invariant.  The promises need                             *)
(*   - where the receiver is: what len, off, pkt, tx_ack and next_blk are  *)
(*     in each state of stream_read (Shape);                               *)
(*   - that the blocks under way come in order and, as long as the sender  *)
(*     takes every ACK for what it is, are the one taken last or the next  *)
(*     (Incoming), and that the sender is no further than that (Window);   *)
(*     in a file with no more blocks than there are numbers, that neither  *)
(*     is behind the block taken last, even after that;                    *)
(*   - that every ACK under way is of a block that was copied (Outgoing);  *)
(*   - that out and the rest of the packet are the contents of the blocks  *)
(*     taken (Copied).                                                     *)
(***************************************************************************)

\* The file has no more blocks than there are block numbers.
Few == N <= BlkMod

\* The number of a block tells which it is: the sender is in step with the receiver, or
\* no two blocks have the same number.
InStep == ~early \/ Few

\* The blocks acknowledged: all that were taken but the one whose ACK was put off.
Acked == taken - (IF tx_ack THEN 1 ELSE 0)

Wire == [k : BlockKinds \cup {"EOT", "CAN", "noise", "stub"}, i : 0..N]
Answers == [k : {"C", "ACK", "CAN"}, i : 0..(N + 1)]

Flags == at_eof \in BOOLEAN /\ tx_ack \in BOOLEAN /\ spent \in BOOLEAN /\ early \in BOOLEAN

Ranges ==
    /\ pc \in {"uninit", "closed", "idle", "loop", "try", "hdr", "ended"}
    /\ next_blk \in 0..(BlkMod - 1)
    /\ pkt \in 0..N
    /\ len >= -1 /\ off >= 0 /\ (pkt > 0 => len + off <= Len(File[pkt]))
    /\ size \in Nat /\ retries \in 0..MaxRetries /\ stat \in -8..0 /\ err \in -8..0
    /\ snd \in 0..(N + 2) /\ taken \in Nat

Shape ==
    /\ len \in Int /\ off \in Nat /\ out \in Seq(STRING)
    /\ hdr \in [chars : {0, 1}, cans : 0..CanCount]
    /\ len > 0 => pkt > 0
    /\ pc = "hdr" => hdr.cans < CanCount /\ ~tx_ack
    /\ pc \in {"loop", "try", "hdr"} => len >= 0
    /\ pc \in {"uninit", "closed"} =>
            taken = 0 /\ len = 0 /\ pkt = 0 /\ off = 0 /\ ~tx_ack /\ out = <<>>
    /\ pc \notin {"uninit", "closed"} => next_blk = (taken + 1) % BlkMod

Numbers == InStep => taken <= N /\ (tx_ack => taken > 0 /\ pkt = taken)

LineOK(l, s, t, e) ==
    /\ l \in Seq(Wire)
    /\ \A x \in 1..Len(l) : l[x].k \in BlockKinds =>
            /\ l[x].i \in 1..N /\ l[x].i <= s
            /\ (~e => l[x].i \in {t, t + 1}) /\ (Few => t <= l[x].i)
    /\ \A x, y \in 1..Len(l) :
            x < y /\ l[x].k \in BlockKinds /\ l[y].k \in BlockKinds => l[x].i <= l[y].i
Incoming == LineOK(rx, snd, taken, early)

AnswersOK(l, a) ==
    /\ l \in Seq(Answers)
    /\ \A x \in 1..Len(l) : ~early /\ l[x].k = "ACK" => l[x].i = N + 1 \/ l[x].i \in 1..a
Outgoing == AnswersOK(tx, Acked)

Window ==
    /\ InStep => taken <= snd
    /\ ~early /\ snd \in 1..(N + 1) => snd <= Acked + 1

\* The part of the packet that the caller has still to get.
Left(b, f, n) == IF n > 0 THEN SubSeq(b, f + 1, f + n) ELSE <<>>
Rest == Left(File[pkt], off, len)

Copied ==
    InStep /\ ~spent =>
        IF pc \in {"try", "hdr"} THEN out = Contents[taken]
        ELSE /\ out \o Rest = Contents[taken]
             /\ tx_ack => len <= Unpadded(File[pkt])
             /\ ~tx_ack => len <= 0

XInv == Flags /\ Ranges /\ Shape /\ Numbers /\ Incoming /\ Outgoing /\ Window /\ Copied

-----------------------------------------------------------------------------
(***************************************************************************)
(* Facts about the line.                                                   *)
(***************************************************************************)

\* What is said comes last on the line, or is lost; nothing else changes.
LEMMA SaidLine ==
    ASSUME NEW S, NEW line \in Seq(S), NEW c \in S
    PROVE  /\ Said(line, c) \in Seq(S)
           /\ \A x \in 1..Len(Said(line, c)) :
                \/ x \in 1..Len(line) /\ Said(line, c)[x] = line[x]
                \/ x = Len(line) + 1 /\ Said(line, c)[x] = c
  BY DEF Said

\* An answer that keeps the promise of an ACK may be added to the answers under way.
LEMMA SaidAnswer ==
    ASSUME NEW l, NEW a \in Int, AnswersOK(l, a), NEW c \in Answers,
           ~early /\ c.k = "ACK" => c.i = N + 1 \/ c.i \in 1..a
    PROVE  AnswersOK(Said(l, c), a)
<1>1. l \in Seq(Answers)
  BY DEF AnswersOK
<1>2. Said(l, c) \in Seq(Answers)
      /\ \A x \in 1..Len(Said(l, c)) :
            \/ x \in 1..Len(l) /\ Said(l, c)[x] = l[x]
            \/ x = Len(l) + 1 /\ Said(l, c)[x] = c
  BY <1>1, SaidLine
<1> QED
  BY <1>2 DEF AnswersOK

\* The answers that the receiver gives.
LEMMA AnswerTypes ==
    /\ Char("C") \in Answers /\ Char("CAN") \in Answers
    /\ Char("C").k # "ACK" /\ Char("CAN").k # "ACK"
    /\ \A i \in 0..(N + 1) : ACK(i) \in Answers /\ ACK(i).i = i /\ ACK(i).k = "ACK"
  BY Blocks DEF Char, ACK, Answers

\* The first answer may be taken off the line.
LEMMA TailAnswers ==
    ASSUME NEW l, NEW a, AnswersOK(l, a), l # <<>>
    PROVE  AnswersOK(Tail(l), a) /\ Head(l) \in Answers
           /\ (~early /\ Head(l).k = "ACK" => Head(l).i = N + 1 \/ Head(l).i \in 1..a)
  BY DEF AnswersOK

\* Every block on the line new was on the line old, and in the same order: f tells where.
Thinned(new, old, f) ==
    /\ \A x \in 1..Len(new) : new[x].k \in BlockKinds =>
            f[x] \in 1..Len(old) /\ old[f[x]].k \in BlockKinds /\ old[f[x]].i = new[x].i
    /\ \A x, y \in 1..Len(new) : x < y => f[x] < f[y] \/ new[x].k \notin BlockKinds
                                                      \/ new[y].k \notin BlockKinds

\* A line that lost blocks, or got noise, is as good as it was.
LEMMA ThinnedOK ==
    ASSUME NEW new \in Seq(Wire), NEW old, NEW s, NEW t, NEW e, NEW f,
           LineOK(old, s, t, e), Thinned(new, old, f)
    PROVE  LineOK(new, s, t, e)
  BY DEF LineOK, Thinned

\* Reading the first character or block off the line.
LEMMA TailLine ==
    ASSUME NEW l, NEW s, NEW t, NEW e, LineOK(l, s, t, e), l # <<>>
    PROVE  LineOK(Tail(l), s, t, e) /\ LineOK(<<>>, s, t, e) /\ Head(l) \in Wire
           /\ Head(l) = l[1] /\ 1 \in 1..Len(l)
<1>1. l \in Seq(Wire)
  BY DEF LineOK
<1>2. Tail(l) \in Seq(Wire) /\ Len(Tail(l)) = Len(l) - 1
      /\ (\A x \in 1..Len(Tail(l)) : Tail(l)[x] = l[x + 1]) /\ Head(l) \in Wire
      /\ Head(l) = l[1] /\ 1 \in 1..Len(l)
  BY <1>1
<1>3. LineOK(Tail(l), s, t, e)
  BY <1>1, <1>2 DEF LineOK
<1> QED
  BY <1>2, <1>3 DEF LineOK

\* A character may be put on the line, and a block that is the latest or the next.
LEMMA SaidOnLine ==
    ASSUME NEW l, NEW s \in Int, NEW t, NEW e, LineOK(l, s, t, e), NEW c \in Wire,
           c.k \in BlockKinds =>
                c.i \in 1..N /\ c.i = s /\ (~e => c.i \in {t, t + 1}) /\ (Few => t <= c.i)
    PROVE  LineOK(Said(l, c), s, t, e)
<1>1. l \in Seq(Wire)
  BY DEF LineOK
<1>2. Said(l, c) \in Seq(Wire)
      /\ \A x \in 1..Len(Said(l, c)) :
            \/ x \in 1..Len(l) /\ Said(l, c)[x] = l[x]
            \/ x = Len(l) + 1 /\ Said(l, c)[x] = c
  BY <1>1, SaidLine
<1>3. Len(l) \in Nat /\ Len(Said(l, c)) \in Nat
  BY <1>1, <1>2
<1>4. ASSUME NEW x \in 1..Len(Said(l, c)), Said(l, c)[x].k \in BlockKinds
      PROVE  LET b == Said(l, c)[x]
             IN  /\ b.i \in 1..N /\ b.i <= s
                 /\ (~e => b.i \in {t, t + 1}) /\ (Few => t <= b.i)
  BY <1>2, <1>4 DEF LineOK
<1>5. ASSUME NEW x \in 1..Len(Said(l, c)), NEW y \in 1..Len(Said(l, c)), x < y,
             Said(l, c)[x].k \in BlockKinds, Said(l, c)[y].k \in BlockKinds
      PROVE  Said(l, c)[x].i <= Said(l, c)[y].i
  <2>1. x \in 1..Len(l) /\ Said(l, c)[x] = l[x]
    BY <1>2, <1>3, <1>5
  <2>2. CASE y \in 1..Len(l) /\ Said(l, c)[y] = l[y]
    BY <1>5, <2>1, <2>2 DEF LineOK
  <2>3. CASE Said(l, c)[y] = c
    BY <1>5, <2>1, <2>3 DEF LineOK
  <2> QED
    BY <1>2, <2>2, <2>3
<1> QED
  BY <1>2, <1>4, <1>5 DEF LineOK

-----------------------------------------------------------------------------
(***************************************************************************)
(* The invariant holds and is kept, action by action.                      *)
(***************************************************************************)

\* Before xyzModem_init there is nothing on the line and nothing in the buffer.
LEMMA InitXInv == Init => XInv
<1> SUFFICES ASSUME Init
             PROVE  XInv
  OBVIOUS
<1> USE DEF Init
<1>0. Flags
  BY Zenon DEF Flags
<1>1. Ranges
  BY BlkModAssumption, RetriesAssumption, Blocks DEF Ranges
<1>2. Shape /\ Numbers /\ Window
  BY RetriesAssumption, Blocks DEF Shape, Numbers, Window, Acked
<1>3. Incoming /\ Outgoing
  BY DEF Incoming, LineOK, Outgoing, AnswersOK
<1>4. Copied
  BY ContentsUnfolds DEF Copied, Rest, Left
<1> QED
  BY <1>0, <1>1, <1>2, <1>3, <1>4 DEF XInv

\* A step of the sender or of the line that leaves early alone changes no more than the
\* line and snd.
LEMMA OutsideKeeps ==
    ASSUME XInv, UNCHANGED recvVars, snd' \in 0..(N + 2), early' \in BOOLEAN, early => early',
           Incoming', Outgoing', Window'
    PROVE  XInv'
<1> USE DEF recvVars, xyzVars, readVars, histVars
<1>0. Flags'
  BY Zenon DEF XInv, Flags
<1>1. Ranges'
  BY DEF XInv, Ranges
<1>2. Shape'
  BY DEF XInv, Shape
<1>3. Numbers' /\ Copied'
  BY DEF XInv, Numbers, Copied, InStep, Rest, Left
<1> QED
  BY <1>0, <1>1, <1>2, <1>3 DEF XInv

\* xyzModem_init, a failed open and the start of stream_read touch neither line nor packet.
LEMMA StartKeeps ==
    ASSUME XInv, xyzModem_init \/ OpenFails \/ xyzModem_stream_read
    PROVE  XInv'
<1> USE DEF xyzModem_init, OpenFails, xyzModem_stream_read, xyzVars, readVars, histVars,
        extVars, XInv
<1>1. UNCHANGED <<next_blk, len, off, at_eof, tx_ack, pkt, hdr, rx, tx, snd, out, taken,
                  spent, early>>
  OBVIOUS
<1>0. Flags'
  BY <1>1, Zenon DEF Flags
<1>2. Ranges'
  <2>1. size' \in Nat
    <3>1. CASE xyzModem_stream_read
      <4>1. size' \in Sizes
        BY <3>1
      <4> QED
        BY <4>1, SizesAssumption
    <3> QED
      BY <3>1 DEF Ranges
  <2>2. pc' \in {"uninit", "closed", "idle", "loop", "try", "hdr", "ended"}
    BY DEF Ranges
  <2>3. retries' = retries /\ stat' \in -8..0 /\ err' \in -8..0
    <3>1. retries' = retries /\ stat' \in {stat, xyzModem_cancel}
          /\ err' \in {err, xyzModem_access}
      OBVIOUS
    <3>2. stat \in -8..0 /\ err \in -8..0
      BY DEF Ranges
    <3> QED
      BY ONLY <3>1, <3>2 DEF xyzModem_access, xyzModem_cancel
  <2> QED
    BY <1>1, <2>1, <2>2, <2>3 DEF Ranges
<1>3. Shape'
  BY DEF Shape
<1>4. Numbers' /\ Window'
  BY <1>1 DEF Numbers, Window, InStep, Acked
<1>5. Incoming' /\ Outgoing'
  BY <1>1 DEF Incoming, LineOK, Outgoing, AnswersOK, InStep, Acked
<1>6. Copied'
  <2>1. pc \notin {"try", "hdr"} /\ pc' \notin {"try", "hdr"}
    OBVIOUS
  <2>2. Rest' = Rest /\ InStep' = InStep
    BY <1>1 DEF Rest, Left, InStep
  <2> QED
    BY <1>1, <2>1, <2>2 DEF Copied
<1> QED
  BY <1>0, <1>2, <1>3, <1>4, <1>5, <1>6

\* Opening the stream sends the first "C" and expects block 1.
LEMMA OpenKeeps ==
    ASSUME XInv, xyzModem_stream_open
    PROVE  XInv'
<1> USE DEF xyzModem_stream_open, histVars, extVars, XInv
<1>0. Flags'
  BY Zenon DEF Flags
<1>1. Ranges' /\ Shape'
  BY BlkModAssumption, ModSmall DEF Ranges, Shape
<1>2. Numbers' /\ Window'
  BY DEF Numbers, Window, InStep, Acked, Shape
<1>3. Incoming'
  BY DEF Incoming, LineOK
<1>4. Outgoing'
  <2>1. AnswersOK(tx', Acked)
    BY SaidAnswer, AnswerTypes DEF Outgoing, Acked, Ranges
  <2>2. Acked' = Acked /\ InStep' = InStep
    BY DEF Acked, InStep, Shape
  <2> QED
    BY <2>1, <2>2 DEF Outgoing, AnswersOK
<1>5. Copied'
  BY DEF Copied, InStep, Rest, Left, Shape
<1> QED
  BY <1>0, <1>1, <1>2, <1>3, <1>4, <1>5

\* Copying k characters out of the packet leaves the rest in the packet.
LEMMA CopyPiece ==
    ASSUME NEW b \in Seq(STRING), NEW o \in Seq(STRING), NEW f \in Nat, NEW n \in Nat,
           f + n <= Len(b), NEW k \in 1..n
    PROVE  /\ SubSeq(b, f + 1, f + k) \in Seq(STRING)
           /\ Len(SubSeq(b, f + 1, f + k)) = k
           /\ o \o SubSeq(b, f + 1, f + k) \in Seq(STRING)
           /\ (o \o SubSeq(b, f + 1, f + k)) \o Left(b, f + k, n - k) = o \o Left(b, f, n)
<1> DEFINE piece == SubSeq(b, f + 1, f + k)
           rest == Left(b, f + k, n - k)
<1>0. Left(b, f, n) = SubSeq(b, f + 1, f + n)
  BY DEF Left
<1>1. piece \in Seq(STRING) /\ Len(piece) = k
  <2>1. \A x \in (f + 1)..(f + k) : x \in 1..Len(b)
    OBVIOUS
  <2> QED
    BY <2>1, SubSeqProperties
<1>2. piece \o rest = SubSeq(b, f + 1, f + n) /\ rest \in Seq(STRING)
  <2>1. CASE k = n
    BY <1>1, <2>1 DEF Left
  <2>2. CASE k < n
    <3>1. rest = SubSeq(b, f + k + 1, f + n)
      BY <2>2 DEF Left
    <3>2. SubSeq(b, f + 1, f + k) \o SubSeq(b, f + k + 1, f + n) = SubSeq(b, f + 1, f + n)
      BY <2>2, ConcatAdjacentSubSeq
    <3>3. SubSeq(b, f + k + 1, f + n) \in Seq(STRING)
      BY <2>2, SubSeqProperties
    <3> QED
      BY <3>1, <3>2, <3>3
  <2> QED
    BY <2>1, <2>2
<1> HIDE DEF piece, rest
<1>3. (o \o piece) \o rest = o \o (piece \o rest)
  <2>1. ASSUME NEW p \in Seq(STRING), NEW r \in Seq(STRING)
        PROVE  (o \o p) \o r = o \o (p \o r)
    BY ConcatAssociative
  <2> QED
    BY <1>1, <1>2, <2>1, Zenon
<1>4. /\ piece \in Seq(STRING) /\ Len(piece) = k
      /\ o \o piece \in Seq(STRING)
      /\ (o \o piece) \o rest = o \o Left(b, f, n)
  BY <1>0, <1>1, <1>2, <1>3
<1> QED
  BY <1>4 DEF piece, rest

\* The outer loop of stream_read: what is left of the packet stays in the packet.
LEMMA ReadLoopKeeps ==
    ASSUME XInv, ReadLoop
    PROVE  XInv'
<1> USE DEF extVars, XInv
<1>1. UNCHANGED <<next_blk, at_eof, tx_ack, pkt, hdr, stat, err, rx, tx, snd, taken, spent,
                  early>> /\ pc = "loop"
  BY DEF ReadLoop
<1>2. Flags'
  BY <1>1, Zenon DEF Flags
<1>3. Numbers' /\ Window'
  BY <1>1 DEF Numbers, Window, InStep, Acked
<1>4. Incoming' /\ Outgoing'
  BY <1>1 DEF Incoming, LineOK, Outgoing, AnswersOK, InStep, Acked
<1>5. CASE pc' \in {"idle", "try"} /\ UNCHANGED <<size, len, off, out>>
           /\ (pc' = "try" => len = 0 /\ retries' = MaxRetries)
           /\ (pc' = "idle" => retries' = retries)
  <2>1. Ranges'
    BY <1>1, <1>5, RetriesAssumption DEF Ranges
  <2>2. Shape'
    BY <1>1, <1>5 DEF Shape
  <2>3. Rest' = Rest /\ InStep' = InStep /\ (pc' = "try" => Rest = <<>>)
    BY <1>1, <1>5 DEF Rest, Left, InStep
  <2>4. out \o <<>> = out
    BY DEF Shape
  <2>5. Copied'
    BY <1>1, <1>5, <2>3, <2>4 DEF Copied
  <2> QED
    BY <1>2, <1>3, <1>4, <2>1, <2>2, <2>5
<1>6. ASSUME NEW k \in Int, k = IF size < len THEN size ELSE len, len # 0, size # 0,
             out' = out \o SubSeq(File[pkt], off + 1, off + k),
             size' = size - k, len' = len - k, off' = off + k, UNCHANGED <<pc, retries>>
      PROVE  XInv'
  <2>1. len \in Nat /\ k \in 1..len /\ pkt \in 1..N /\ off \in Nat
        /\ off + len <= Len(File[pkt]) /\ size \in Nat /\ k <= size
    BY <1>1, <1>6 DEF Shape, Ranges
  <2>2. File[pkt] \in Seq(STRING) /\ out \in Seq(STRING)
    BY <2>1, Blocks DEF Shape
  <2>3. Ranges'
    <3>1. len' \in Nat /\ off' \in Nat /\ size' \in Nat /\ off' + len' = off + len
      BY <1>6, <2>1
    <3>2. len' + off' <= Len(File[pkt])
      <4>1. len' + off' = off + len
        BY <3>1
      <4> QED
        BY <2>1, <4>1
    <3> QED
      BY <1>1, <1>6, <3>1, <3>2 DEF Ranges
  <2>4. out' \in Seq(STRING)
    BY <1>6, <2>1, <2>2, CopyPiece
  <2>5. Shape'
    BY <1>1, <1>6, <2>1, <2>4 DEF Shape
  <2>6. out' \o Rest' = out \o Rest
    <3>1. Rest = Left(File[pkt], off, len) /\ Rest' = Left(File[pkt], off + k, len - k)
      BY <1>1, <1>6 DEF Rest
    <3>2. (out \o SubSeq(File[pkt], off + 1, off + k)) \o Left(File[pkt], off + k, len - k)
          = out \o Left(File[pkt], off, len)
      BY <2>1, <2>2, CopyPiece, Zenon
    <3> QED
      BY <1>6, <3>1, <3>2, Zenon
  <2>7. InStep' = InStep /\ pc \notin {"try", "hdr"} /\ pc' \notin {"try", "hdr"}
    BY <1>1, <1>6 DEF InStep
  <2>8. len' <= len
    BY <1>6, <2>1
  <2>9. Copied'
    <3> SUFFICES ASSUME InStep, ~spent
                 PROVE  /\ out' \o Rest' = Contents[taken]
                        /\ tx_ack => len' <= Unpadded(File[pkt])
                        /\ ~tx_ack => len' <= 0
      BY <1>1, <2>7 DEF Copied
    <3>1. /\ out \o Rest = Contents[taken]
          /\ tx_ack => len <= Unpadded(File[pkt])
          /\ tx_ack
      BY <2>1, <2>7 DEF Copied
    <3>2. Unpadded(File[pkt]) \in Nat
      BY <2>2, UnpaddedType
    <3> QED
      BY <1>6, <2>1, <2>6, <3>1, <3>2
  <2> QED
    BY <1>2, <1>3, <1>4, <2>3, <2>5, <2>9
<1> DEFINE k == IF size < len THEN size ELSE len
<1>7. k \in Int
  BY DEF Shape, Ranges
<1>8. CASE at_eof \/ size = 0
  BY <1>5, <1>8 DEF ReadLoop
<1>9. CASE ~at_eof /\ size # 0 /\ len = 0
  BY <1>5, <1>9 DEF ReadLoop
<1>10. CASE ~at_eof /\ size # 0 /\ len # 0
  BY <1>6, <1>7, <1>10 DEF ReadLoop
<1> QED
  BY <1>8, <1>9, <1>10

\* The inner loop of stream_read: the put-off ACK is of a block that was copied, and an
\* error leaves nothing in the packet.
LEMMA RetryKeeps ==
    ASSUME XInv, Retry
    PROVE  XInv'
<1> USE DEF extVars, XInv
<1>1. UNCHANGED <<next_blk, off, at_eof, pkt, size, stat, rx, snd, out, taken, early>>
      /\ pc = "try" /\ InStep' = InStep
  BY DEF Retry, InStep
<1>2. CASE retries = 0 /\ stat < 0 /\ Fail(stat) /\ UNCHANGED <<spent, retries, tx, tx_ack, hdr>>
  <2>1. UNCHANGED <<spent, retries, tx, tx_ack, hdr>> /\ len' = -1 /\ pc' = "idle" /\ err' = stat
    BY <1>2 DEF Fail
  <2>2. Flags'
    BY <1>1, <2>1, Zenon DEF Flags
  <2>3. Ranges' /\ Shape'
    BY <1>1, <2>1, Blocks DEF Ranges, Shape
  <2>4. Numbers' /\ Window' /\ Incoming' /\ Outgoing'
    BY <1>1, <2>1 DEF Numbers, Window, Acked, Incoming, LineOK, Outgoing, AnswersOK
  <2>5. Copied'
    <3> SUFFICES ASSUME InStep, ~spent
                 PROVE  /\ out \o <<>> = Contents[taken]
                        /\ tx_ack => -1 <= Unpadded(File[pkt])
      BY <1>1, <2>1 DEF Copied, Rest, Left
    <3>1. out = Contents[taken] /\ out \in Seq(STRING)
      BY <1>1 DEF Copied, Shape
    <3>2. tx_ack => Unpadded(File[pkt]) \in Nat
      <4>1. tx_ack => pkt \in 1..N
        BY DEF Numbers, Ranges
      <4> QED
        BY <4>1, Blocks, UnpaddedType
    <3> QED
      BY <3>1, <3>2
  <2> QED
    BY <2>2, <2>3, <2>4, <2>5
<1>3. CASE pc' = "loop" /\ spent' = TRUE /\ UNCHANGED <<err, len, retries, tx, tx_ack, hdr>>
  <2>1. UNCHANGED <<err, len, retries, tx, tx_ack, hdr>> /\ pc' = "loop"
    BY <1>3
  <2>2. Flags'
    BY <1>1, <1>3, <2>1, Zenon DEF Flags
  <2>3. Ranges' /\ Shape'
    BY <1>1, <2>1 DEF Ranges, Shape
  <2>4. Numbers' /\ Window' /\ Incoming' /\ Outgoing'
    BY <1>1, <2>1 DEF Numbers, Window, Acked, Incoming, LineOK, Outgoing, AnswersOK
  <2>5. Copied'
    BY <1>3, Zenon DEF Copied
  <2> QED
    BY <2>2, <2>3, <2>4, <2>5
<1>4. CASE /\ retries # 0 /\ retries' = Countdown(retries)
           /\ tx' = IF tx_ack THEN Said(tx, ACK(pkt)) ELSE tx
           /\ tx_ack' = FALSE
           /\ hdr' = [chars |-> 0, cans |-> 0]
           /\ pc' = "hdr"
           /\ UNCHANGED <<err, len, spent>>
  <2>1. Flags'
    BY <1>1, <1>4, Zenon DEF Flags
  <2>2. Ranges' /\ Shape'
    BY <1>1, <1>4, RetriesAssumption DEF Ranges, Shape, Countdown
  <2>3. Numbers' /\ Acked' = taken /\ Acked <= taken /\ Acked \in Int
    BY <1>1, <1>4 DEF Numbers, Acked, Ranges
  <2>4. Window' /\ Incoming'
    <3>1. Incoming'
      BY <1>1 DEF Incoming, LineOK
    <3>2. ~early /\ snd \in 1..(N + 1) => snd <= Acked' + 1
      BY <2>3, Blocks DEF Window, Ranges
    <3> QED
      BY <1>1, <3>1, <3>2 DEF Window
  <2>5. AnswersOK(tx, taken)
    BY <2>3 DEF Outgoing, AnswersOK, Ranges
  <2>6. AnswersOK(tx', taken)
    <3>1. CASE tx_ack
      <4>1. pkt \in 0..(N + 1) /\ taken \in Int /\ (~early => pkt \in 1..taken)
        BY <3>1, Blocks DEF Ranges, Numbers, InStep
      <4>2. ACK(pkt) \in Answers /\ ACK(pkt).i = pkt
        BY <4>1, AnswerTypes
      <4> QED
        BY <1>4, <2>5, <3>1, <4>1, <4>2, SaidAnswer
    <3>2. CASE ~tx_ack
      BY <1>4, <2>5, <3>2
    <3> QED
      BY <3>1, <3>2
  <2>7. Outgoing'
    BY <1>1, <2>3, <2>6 DEF Outgoing, AnswersOK
  <2>8. Copied'
    BY <1>1, <1>4 DEF Copied
  <2> QED
    BY <2>1, <2>2, <2>3, <2>4, <2>7, <2>8
<1> QED
  BY <1>2, <1>3, <1>4 DEF Retry

\* A character ahead of the header, noise or CAN or EOT, leaves the packet and the count
\* of blocks alone; an EOT is acknowledged twice.
LEMMA HeaderCharKeeps ==
    ASSUME XInv, HeaderChar
    PROVE  XInv'
<1> USE DEF extVars, histVars, XInv
<1>1. UNCHANGED <<next_blk, off, tx_ack, pkt, size, retries, out, taken, spent, snd, early>>
      /\ pc = "hdr" /\ InStep' = InStep /\ Acked' = Acked /\ rx # <<>> /\ rx' = Tail(rx)
  BY DEF HeaderChar, InStep, Acked
<1>2. Incoming'
  <2>1. LineOK(Tail(rx), snd, taken, early)
    BY <1>1, TailLine DEF Incoming
  <2> QED
    BY <1>1, <2>1 DEF Incoming
<1>3. Numbers' /\ Window'
  BY <1>1 DEF Numbers, Window
<1>4. /\ hdr' \in [chars : {0, 1}, cans : 0..CanCount]
      /\ pc' = "hdr" => hdr'.cans < CanCount
  <2> DEFINE c == Head(rx).k
             cans == hdr.cans + IF c = "CAN" THEN 1 ELSE 0
  <2>1. hdr.cans \in 0..CanCount /\ hdr.cans < CanCount
    BY <1>1 DEF Shape
  <2>2. hdr' = [chars |-> 1, cans |-> cans]
    BY DEF HeaderChar
  <2>3. cans \in 0..CanCount
    BY <2>1, RetriesAssumption
  <2>4. pc' = "hdr" => ~ (c = "CAN" /\ cans = CanCount)
    BY DEF HeaderChar, Fail
  <2>5. pc' = "hdr" => cans < CanCount
    BY <2>1, <2>3, <2>4, RetriesAssumption
  <2> QED
    BY <2>1, <2>2, <2>3, <2>5
<1>5. \/ pc' = "idle" /\ len' = -1 /\ stat' \in -8..0 /\ err' \in -8..0
      \/ pc' = "hdr" /\ UNCHANGED <<len, stat, err>>
  BY <1>1 DEF HeaderChar, Fail, xyzModem_cancel, xyzModem_eof
<1>6. (at_eof' = TRUE \/ at_eof' = at_eof)
      /\ (tx' = tx \/ tx' = Said(Said(tx, ACK(N + 1)), ACK(N + 1)))
  BY DEF HeaderChar
<1>7. Flags'
  BY <1>1, <1>6, Zenon DEF Flags
<1>8. Ranges'
  <2>1. len' \in Int /\ len' >= -1 /\ (pkt > 0 => len' + off <= Len(File[pkt]))
    <3>1. len \in Nat /\ off \in Nat /\ len' \in Int /\ len' >= -1 /\ len' <= len
      BY <1>1, <1>5 DEF Shape
    <3>2. ASSUME pkt > 0
          PROVE  len' + off <= Len(File[pkt])
      <4>1. Len(File[pkt]) \in Nat /\ len + off <= Len(File[pkt])
        BY <3>2, Blocks DEF Ranges
      <4> QED
        BY <3>1, <4>1
    <3> QED
      BY <3>1, <3>2
  <2>2. stat' \in -8..0 /\ err' \in -8..0
        /\ pc' \in {"uninit", "closed", "idle", "loop", "try", "hdr", "ended"}
    BY <1>5 DEF Ranges
  <2> QED
    BY <1>1, <2>1, <2>2 DEF Ranges
<1>9. Shape'
  BY <1>1, <1>4, <1>5 DEF Shape
<1>10. Outgoing'
  <2>1. ACK(N + 1) \in Answers /\ ACK(N + 1).i = N + 1 /\ Acked \in Int
    BY AnswerTypes, Blocks DEF Acked, Ranges
  <2>2. AnswersOK(Said(tx, ACK(N + 1)), Acked)
    BY <2>1, SaidAnswer DEF Outgoing
  <2>3. AnswersOK(Said(Said(tx, ACK(N + 1)), ACK(N + 1)), Acked)
    BY <2>1, <2>2, SaidAnswer
  <2> QED
    BY <1>1, <1>6, <2>3 DEF Outgoing, AnswersOK
<1>11. Copied'
  <2>1. CASE pc' = "hdr"
    BY <1>1, <2>1 DEF Copied
  <2>2. CASE pc' = "idle" /\ len' = -1
    <3>1. Rest' = <<>> /\ out \o <<>> = out
      BY <2>2 DEF Rest, Left, Shape
    <3> QED
      BY <1>1, <2>2, <3>1 DEF Copied, Shape
  <2> QED
    BY <1>5, <2>1, <2>2
<1> QED
  BY <1>2, <1>3, <1>7, <1>8, <1>9, <1>10, <1>11

\* Two seconds without a character, at all or after the first one of a block: another "C"
\* and another try.
LEMMA HeaderTimeoutKeeps ==
    ASSUME XInv, HeaderTimeout
    PROVE  XInv'
<1> USE DEF extVars, histVars, xyzVars, XInv
<1>1. UNCHANGED <<next_blk, len, off, at_eof, tx_ack, pkt, hdr, size, retries, err, out,
                  taken, spent, snd, early>>
      /\ (rx' = rx \/ (rx # <<>> /\ rx' = Tail(rx)))
      /\ pc = "hdr" /\ pc' = "try" /\ stat' = xyzModem_timeout /\ tx' = Said(tx, Char("C"))
      /\ InStep' = InStep /\ Acked' = Acked
  BY DEF HeaderTimeout, Again, InStep, Acked
<1>2. Flags'
  BY <1>1, Zenon DEF Flags
<1>3. Ranges' /\ Shape'
  BY <1>1 DEF Ranges, Shape, xyzModem_timeout
<1>4. Numbers' /\ Window' /\ Copied'
  BY <1>1 DEF Numbers, Window, Copied
<1>5. Outgoing'
  <2>1. AnswersOK(tx', Acked)
    BY <1>1, SaidAnswer, AnswerTypes DEF Outgoing, Acked, Ranges
  <2> QED
    BY <1>1, <2>1 DEF Outgoing, AnswersOK
<1>6. Incoming'
  <2>1. LineOK(rx, snd, taken, early) /\ (rx # <<>> => LineOK(Tail(rx), snd, taken, early))
    BY TailLine DEF Incoming
  <2> QED
    BY <1>1, <2>1 DEF Incoming
<1> QED
  BY <1>2, <1>3, <1>4, <1>5, <1>6

\* The end of a transfer throws the input away.
LEMMA TerminateKeeps ==
    ASSUME XInv, xyzModem_stream_terminate
    PROVE  XInv'
<1> USE DEF extVars, histVars, readVars, XInv
<1>1. UNCHANGED <<next_blk, len, off, tx_ack, pkt, hdr, size, retries, stat, err, out, taken,
                  spent, snd, early>>
      /\ pc = "idle" /\ pc' = "ended" /\ rx' = <<>>
      /\ (tx' = tx \/ tx' = Said(tx, Char("CAN"))) /\ (at_eof' = TRUE \/ at_eof' = at_eof)
      /\ InStep' = InStep /\ Acked' = Acked /\ Rest' = Rest
  BY DEF xyzModem_stream_terminate, InStep, Acked, Rest
<1>2. Flags'
  BY <1>1, Zenon DEF Flags
<1>3. Ranges' /\ Shape'
  BY <1>1 DEF Ranges, Shape
<1>4. Numbers' /\ Window' /\ Incoming' /\ Copied'
  BY <1>1 DEF Numbers, Window, Incoming, LineOK, Copied
<1>5. Outgoing'
  <2>1. AnswersOK(tx', Acked)
    BY <1>1, SaidAnswer, AnswerTypes DEF Outgoing, Acked, Ranges
  <2> QED
    BY <1>1, <2>1 DEF Outgoing, AnswersOK
<1> QED
  BY <1>2, <1>3, <1>4, <1>5

\* A block: the one whose number is expected is the next one, it is unpadded and its ACK
\* put off; any other is answered at once and only asks for a header again.
LEMMA HeaderBlockKeeps ==
    ASSUME XInv, HeaderBlock
    PROVE  XInv'
<1> USE DEF extVars, XInv
<1> DEFINE b == Head(rx)
<1>1. UNCHANGED <<at_eof, hdr, size, retries, err, out, spent, snd, early>>
      /\ pc = "hdr" /\ rx # <<>> /\ b.k \in BlockKinds /\ pkt' = b.i /\ off' = 0
      /\ (rx' = <<>> \/ rx' = Tail(rx)) /\ InStep' = InStep
  BY DEF HeaderBlock, InStep
<1>2. b = rx[1] /\ 1 \in 1..Len(rx) /\ rx \in Seq(Wire) /\ LineOK(rx, snd, taken, early)
      /\ LineOK(Tail(rx), snd, taken, early) /\ LineOK(<<>>, snd, taken, early)
  BY <1>1, TailLine DEF Incoming, LineOK
<1>3. b.i \in 1..N /\ b.i <= snd /\ (~early => b.i \in {taken, taken + 1})
      /\ (Few => taken <= b.i)
  BY <1>1, <1>2 DEF LineOK
<1>4. next_blk = (taken + 1) % BlkMod /\ ~tx_ack /\ Acked = taken /\ taken \in Nat
  BY <1>1 DEF Shape, Acked, Ranges
<1>5. InStep => /\ Expected(b.i) => b.i = taken + 1
                /\ ~early /\ Repeated(b.i) => b.i = taken
  <2> SUFFICES ASSUME InStep
               PROVE  /\ Expected(b.i) => b.i = taken + 1
                      /\ ~early /\ Repeated(b.i) => b.i = taken
    OBVIOUS
  <2> HIDE DEF b
  <2>1. b.i \in {taken, taken + 1} \/ (b.i \in 1..N /\ taken <= b.i /\ N <= BlkMod)
    BY <1>3 DEF InStep, Few
  <2>2. b.i \in Nat
    BY <1>3, Blocks
  <2>3. /\ b.i % BlkMod = (taken + 1) % BlkMod => b.i = taken + 1
        /\ b.i \in {taken, taken + 1}
              /\ b.i % BlkMod = (((taken + 1) % BlkMod) - 1) % BlkMod => b.i = taken
    BY <1>4, <2>1, <2>2, NumberTells, Zenon
  <2> QED
    BY <1>3, <1>4, <2>3, Zenon DEF Expected, Repeated, Blk
<1>6. File[b.i] \in Seq(STRING) /\ Len(File[b.i]) \in Nat
      /\ Unpadded(File[b.i]) \in 0..Len(File[b.i])
  BY <1>3, Blocks, UnpaddedType
<1>7. CASE Expected(b.i) /\ Accept(b.i)
  <2>1. tx_ack' = TRUE /\ tx' = tx /\ next_blk' = Following(next_blk)
        /\ len' = Unpadded(File[b.i]) /\ stat' = 0 /\ pc' = "loop" /\ taken' = taken + 1
    BY <1>7 DEF Accept
  <2>2. next_blk' = (taken' + 1) % BlkMod /\ next_blk' \in 0..(BlkMod - 1)
    <3>1. Following((taken + 1) % BlkMod) = (taken + 2) % BlkMod
          /\ (taken + 1 + 1) % BlkMod \in 0..(BlkMod - 1)
      BY <1>4, FollowingNumber
    <3>2. taken + 2 = taken' + 1 /\ taken + 1 + 1 = taken' + 1
      BY <1>4, <2>1
    <3> QED
      BY <1>4, <2>1, <3>1, <3>2
  <2>3. Flags'
    BY <1>1, <2>1, Zenon DEF Flags
  <2>4. Ranges'
    <3>1. len' \in Nat /\ len' + 0 <= Len(File[b.i])
      BY <1>6, <2>1
    <3>2. pkt' \in 1..N /\ pkt' \in 0..N /\ taken' \in Nat
      BY <1>1, <1>3, <1>4, <2>1, Blocks
    <3> QED
      BY <1>1, <2>1, <2>2, <3>1, <3>2 DEF Ranges
  <2>5. Shape'
    BY <1>1, <1>3, <1>6, <2>1, <2>2 DEF Shape
  <2>6. Numbers' /\ Acked' = taken
    <3>1. InStep => b.i = taken + 1 /\ taken + 1 <= N /\ taken + 1 > 0
      BY <1>3, <1>4, <1>5, <1>7, Blocks
    <3>2. Numbers'
      BY <1>1, <2>1, <3>1 DEF Numbers
    <3> QED
      BY <1>4, <2>1, <3>2 DEF Acked
  <2>7. Outgoing'
    BY <1>1, <1>4, <2>1, <2>6 DEF Outgoing, AnswersOK
  <2>8. Window'
    BY <1>1, <1>3, <1>4, <1>5, <1>7, <2>1, <2>6 DEF Window, InStep
  <2>9. Incoming'
    <3>1. LineOK(Tail(rx), snd, taken + 1, early)
      <4>1. Tail(rx) \in Seq(Wire) /\ Len(Tail(rx)) = Len(rx) - 1
            /\ \A x \in 1..Len(Tail(rx)) : Tail(rx)[x] = rx[x + 1]
        BY <1>1, <1>2
      <4>2. ASSUME NEW x \in 1..Len(Tail(rx)), Tail(rx)[x].k \in BlockKinds, InStep
            PROVE  /\ taken + 1 <= Tail(rx)[x].i
                   /\ ~early => Tail(rx)[x].i \in {taken + 1, taken + 1 + 1}
        <5>1. x + 1 \in 1..Len(rx) /\ 1 < x + 1 /\ Tail(rx)[x] = rx[x + 1]
          BY <1>2, <4>1
        <5>2. (~early => rx[x + 1].i \in {taken, taken + 1}) /\ rx[1].i <= rx[x + 1].i
          BY <1>1, <1>2, <4>2, <5>1 DEF LineOK
        <5>3. rx[1].i = taken + 1
          BY <1>2, <1>5, <1>7, <4>2
        <5> QED
          BY <1>4, <5>1, <5>2, <5>3
      <4> QED
        BY <1>2, <4>2 DEF LineOK, InStep
    <3>2. LineOK(<<>>, snd, taken + 1, early)
      BY DEF LineOK
    <3> QED
      BY <1>1, <2>1, <3>1, <3>2 DEF Incoming
  <2>10. Copied'
    <3> SUFFICES ASSUME InStep, ~spent
                 PROVE  out \o Rest' = Contents[taken + 1]
      BY <1>1, <1>6, <2>1 DEF Copied
    <3>1. b.i = taken + 1 /\ taken + 1 \in 1..N /\ (taken + 1) - 1 = taken
      BY <1>3, <1>4, <1>5, <1>7
    <3>2. out = Contents[taken]
      BY <1>1 DEF Copied
    <3>3. Rest' = Part(taken + 1)
      <4>1. CASE len' > 0
        BY <1>1, <1>6, <2>1, <3>1, <4>1 DEF Rest, Left, Part
      <4>2. CASE len' = 0
        <5>1. Part(taken + 1) \in Seq(STRING) /\ Len(Part(taken + 1)) = 0
          BY <2>1, <3>1, <4>2, PartType
        <5>2. Part(taken + 1) = <<>>
          BY <5>1
        <5> QED
          BY <4>2, <5>2 DEF Rest, Left
      <4> QED
        BY <1>6, <2>1, <4>1, <4>2
    <3>4. Contents[taken + 1] = Contents[(taken + 1) - 1] \o Part(taken + 1)
      BY <3>1, ContentsUnfolds, Zenon
    <3> QED
      BY <3>1, <3>2, <3>3, <3>4
  <2> QED
    BY <2>3, <2>4, <2>5, <2>6, <2>7, <2>8, <2>9, <2>10
<1>8. CASE /\ len' = Len(File[b.i]) /\ UNCHANGED <<next_blk, tx_ack, taken>>
           /\ stat' \in -8..0 /\ pc' = "try"
           /\ \/ tx' = Said(tx, Char("C"))
              \/ Repeated(b.i) /\ tx' = Said(tx, ACK(b.i))
  <2>1. Acked' = Acked
    BY <1>8 DEF Acked
  <2>2. Flags'
    BY <1>1, <1>8, Zenon DEF Flags
  <2>3. Ranges'
    <3>1. len' \in Nat /\ len' + 0 <= Len(File[b.i])
      BY <1>6, <1>8
    <3> QED
      BY <1>1, <1>3, <1>8, <3>1, Blocks DEF Ranges
  <2>4. Shape'
    BY <1>1, <1>3, <1>6, <1>8 DEF Shape
  <2>5. Numbers' /\ Window'
    BY <1>1, <1>4, <1>8, <2>1 DEF Numbers, Window
  <2>6. Incoming'
    BY <1>1, <1>2, <1>8 DEF Incoming
  <2>7. Outgoing'
    <3>1. CASE tx' = Said(tx, Char("C"))
      <4>1. AnswersOK(tx', Acked)
        BY <1>4, <3>1, SaidAnswer, AnswerTypes DEF Outgoing
      <4> QED
        BY <1>1, <2>1, <4>1 DEF Outgoing, AnswersOK
    <3>2. CASE Repeated(b.i) /\ tx' = Said(tx, ACK(b.i))
      <4>1. ACK(b.i) \in Answers /\ ACK(b.i).i = b.i
        BY <1>3, AnswerTypes, Blocks
      <4>2. ~early => b.i \in 1..Acked
        BY <1>3, <1>4, <1>5, <3>2 DEF InStep
      <4>3. AnswersOK(tx', Acked)
        BY <1>4, <3>2, <4>1, <4>2, SaidAnswer DEF Outgoing
      <4> QED
        BY <1>1, <2>1, <4>3 DEF Outgoing, AnswersOK
    <3> QED
      BY <1>8, <3>1, <3>2
  <2>8. Copied'
    BY <1>1, <1>8 DEF Copied
  <2> QED
    BY <2>2, <2>3, <2>4, <2>5, <2>6, <2>7, <2>8
<1> QED
  BY <1>7, <1>8 DEF HeaderBlock, Again, xyzModem_timeout, xyzModem_frame, xyzModem_cksum,
     xyzModem_sequence

\* A sender that is further on, or out of step, asks less of the line.
LEMMA LineMonotone ==
    ASSUME NEW l, NEW s \in Int, NEW s2 \in Int, NEW t, NEW e, NEW e2,
           LineOK(l, s, t, e), s <= s2, e => e2
    PROVE  LineOK(l, s2, t, e2)
  BY Blocks DEF LineOK

\* What the sender puts on the line: EOT, or the block that it is at.
LEMMA SendKeepsLine ==
    ASSUME NEW s \in 1..(N + 1), NEW t, NEW e, LineOK(rx, s, t, e), Send(s),
           s <= N => (~e => s \in {t, t + 1}) /\ (Few => t <= s)
    PROVE  LineOK(rx', s, t, e)
<1>1. CASE s = N + 1
  <2>1. Char("EOT") \in Wire /\ Char("EOT").k \notin BlockKinds
    BY Blocks DEF Char, Wire, BlockKinds
  <2>2. rx' = Said(rx, Char("EOT")) /\ s \in Int
    BY <1>1 DEF Send
  <2> QED
    BY <2>1, <2>2, SaidOnLine
<1>2. CASE s \in 1..N
  <2>1. Block(s, "good") \in Wire /\ Block(s, "good").i = s
    BY <1>2, Blocks DEF Block, Wire, BlockKinds
  <2>2. rx' = Said(rx, Block(s, "good")) /\ s \in Int /\ s <= N
    BY <1>2, Blocks DEF Send
  <2> QED
    BY <1>2, <2>1, <2>2, SaidOnLine
<1> QED
  BY <1>1, <1>2, Blocks

\* A sender that takes an ACK for what it is goes no further than the block after the
\* latest one acknowledged; one that takes it for another sets early.
LEMMA SenderHearsKeeps ==
    ASSUME XInv, SenderHears
    PROVE  XInv'
<1> DEFINE c == Head(tx)
<1> USE DEF XInv
<1>1. UNCHANGED recvVars /\ tx # <<>> /\ tx' = Tail(tx) /\ Acked' = Acked
      /\ taken' = taken /\ tx_ack' = tx_ack
  BY DEF SenderHears, Acked, recvVars, xyzVars, histVars
<1>2. AnswersOK(Tail(tx), Acked) /\ c \in Answers
      /\ (~early /\ c.k = "ACK" => c.i = N + 1 \/ c.i \in 1..Acked)
  BY <1>1, TailAnswers DEF Outgoing
<1>3. snd \in 0..(N + 2) /\ taken \in Nat /\ N \in Nat /\ Acked \in Int /\ Acked <= taken
      /\ Acked >= taken - 1 /\ (InStep => taken <= N /\ (taken = 0 => Acked = 0))
      /\ (~early \/ Few <=> InStep)
  BY Blocks DEF Ranges, Acked, Numbers, InStep
<1>4. early \in BOOLEAN
  BY DEF Flags
<1>5. ASSUME early' \in BOOLEAN, early => early', snd' \in 0..(N + 2), Incoming', Window'
      PROVE  XInv'
  <2>1. InStep' => InStep
    BY <1>5 DEF InStep
  <2>2. Outgoing'
    BY <1>1, <1>2, <1>5 DEF Outgoing, AnswersOK
  <2> QED
    BY <1>1, <1>5, <2>2, OutsideKeeps
<1>6. LineOK(rx, snd, taken, early)
  BY DEF Incoming
<1>7. CASE c.k = "C" /\ snd = 0 /\ snd' = 1 /\ Send(1) /\ UNCHANGED early
  <2>1. LineOK(rx, 1, taken, early)
    BY <1>6, <1>7, LineMonotone
  <2>2. InStep => taken = 0 /\ Acked = 0
    BY <1>3, <1>7 DEF Window
  <2>3. LineOK(rx', 1, taken, early)
    BY <1>3, <1>7, <2>1, <2>2, SendKeepsLine
  <2>4. Incoming' /\ Window'
    BY <1>1, <1>3, <1>7, <2>2, <2>3 DEF Incoming, Window, InStep
  <2> QED
    BY <1>3, <1>4, <1>5, <1>7, <2>4
<1>8. CASE c.k = "C" /\ snd \in 1..(N + 1) /\ snd' = snd /\ (Send(snd) \/ UNCHANGED rx)
           /\ UNCHANGED early
  <2>1. (~early => snd \in {taken, taken + 1}) /\ (Few => taken <= snd)
    BY <1>3, <1>8 DEF Window
  <2>2. LineOK(rx', snd, taken, early)
    BY <1>6, <1>8, <2>1, SendKeepsLine
  <2>3. Incoming' /\ Window'
    BY <1>1, <1>8, <2>2 DEF Incoming, Window, InStep
  <2> QED
    BY <1>3, <1>4, <1>5, <1>8, <2>3
<1>9. CASE /\ c.k = "ACK" /\ snd \in 1..(N + 1) /\ snd' = snd + 1
           /\ IF snd' <= N + 1 THEN Send(snd') ELSE UNCHANGED rx
           /\ early' = (early \/ c.i # snd)
  <2>1. early' \in BOOLEAN /\ (early => early')
    BY <1>9
  <2>2. ~early' => ~early /\ c.i = snd
    BY <1>9
  <2>3. /\ ~early' => (snd <= N => snd <= Acked /\ snd = taken) /\ taken <= snd
        /\ Few => taken <= snd
    BY <1>2, <1>3, <1>9, <2>2 DEF Window
  <2>4. LineOK(rx, snd', taken, early')
    BY <1>3, <1>6, <1>9, <2>1, LineMonotone
  <2>5. LineOK(rx', snd', taken, early')
    <3>1. CASE snd' <= N + 1
      <4>1. snd' \in 1..(N + 1) /\ Send(snd') /\ (~early' => snd' \in {taken, taken + 1})
            /\ (Few => taken <= snd')
        BY <1>3, <1>9, <2>3, <3>1
      <4> QED
        BY <2>4, <4>1, SendKeepsLine
    <3>2. CASE ~ (snd' <= N + 1)
      BY <1>9, <2>4, <3>2
    <3> QED
      BY <3>1, <3>2
  <2>6. Incoming'
    BY <1>1, <2>5 DEF Incoming
  <2>7. Window'
    BY <1>1, <1>3, <1>9, <2>3 DEF Window, InStep
  <2> QED
    BY <1>3, <1>5, <1>9, <2>1, <2>6, <2>7
<1>10. CASE c.k = "CAN" /\ snd' = N + 2 /\ UNCHANGED <<rx, early>>
  <2>1. LineOK(rx, N + 2, taken, early)
    BY <1>3, <1>6, LineMonotone
  <2>2. Incoming' /\ Window'
    BY <1>1, <1>3, <1>10, <2>1 DEF Incoming, Window, InStep
  <2> QED
    BY <1>3, <1>4, <1>5, <1>10, <2>2
<1>11. CASE UNCHANGED <<snd, rx, early>>
  <2>1. Incoming' /\ Window'
    BY <1>1, <1>11 DEF Incoming, Window, InStep
  <2> QED
    BY <1>3, <1>4, <1>5, <1>11, <2>1
<1> QED
  BY <1>7, <1>8, <1>9, <1>10, <1>11 DEF SenderHears

\* A sender that hears nothing repeats the block that it is at, or gives up.
LEMMA SenderTimeoutKeeps ==
    ASSUME XInv, SenderTimeout
    PROVE  XInv'
<1> USE DEF XInv
<1>1. UNCHANGED <<recvVars, tx, early, tx_ack, taken>> /\ Acked' = Acked /\ InStep' = InStep
      /\ snd \in 1..(N + 1)
  BY DEF SenderTimeout, Acked, InStep, recvVars, xyzVars, histVars
<1>2. snd \in 0..(N + 2) /\ taken \in Nat /\ N \in Nat /\ Acked \in Int /\ Acked <= taken
      /\ Acked >= taken - 1 /\ (InStep => taken <= N) /\ LineOK(rx, snd, taken, early)
  BY Blocks DEF Ranges, Acked, Numbers, InStep, Incoming
<1>3. Outgoing'
  BY <1>1 DEF Outgoing, AnswersOK
<1>4. ASSUME snd' \in 0..(N + 2), Incoming', Window'
      PROVE  XInv'
  <2>1. early' \in BOOLEAN /\ (early => early')
    BY <1>1 DEF Flags
  <2> QED
    BY <1>1, <1>3, <1>4, <2>1, OutsideKeeps
<1>5. CASE Send(snd) /\ snd' = snd
  <2>1. (~early => snd \in {taken, taken + 1}) /\ (Few => taken <= snd)
    BY <1>1, <1>2 DEF Window, InStep
  <2>2. LineOK(rx', snd, taken, early)
    BY <1>1, <1>2, <1>5, <2>1, SendKeepsLine
  <2>3. Incoming' /\ Window'
    BY <1>1, <1>5, <2>2 DEF Incoming, Window, InStep
  <2> QED
    BY <1>2, <1>4, <1>5, <2>3
<1>6. CASE rx' = rx \o [i \in 1..CanCount |-> Char("CAN")] /\ snd' = N + 2
  <2> DEFINE cans == [i \in 1..CanCount |-> Char("CAN")]
  <2>1. cans \in Seq(Wire) /\ Len(cans) = CanCount
        /\ \A x \in 1..CanCount : cans[x].k \notin BlockKinds
    BY RetriesAssumption, Blocks DEF Char, Wire, BlockKinds
  <2>2. LineOK(rx, N + 2, taken, early) /\ rx \in Seq(Wire)
    BY <1>2, LineMonotone DEF LineOK
  <2> HIDE DEF cans
  <2>3. rx' \in Seq(Wire) /\ Len(rx') = Len(rx) + CanCount
        /\ \A x \in 1..Len(rx') : rx'[x] = IF x <= Len(rx) THEN rx[x] ELSE cans[x - Len(rx)]
    BY <1>6, <2>1, <2>2, ConcatProperties DEF cans
  <2>4. Thinned(rx', rx, [x \in 1..Len(rx') |-> x])
    <3>1. Len(rx) \in Nat /\ Len(rx') \in Nat
      BY <2>2, <2>3
    <3>2. ASSUME NEW x \in 1..Len(rx'), rx'[x].k \in BlockKinds
          PROVE  x \in 1..Len(rx) /\ rx'[x] = rx[x]
      <4>1. CASE x <= Len(rx)
        BY <2>3, <3>1, <4>1
      <4>2. CASE x > Len(rx)
        <5>1. x - Len(rx) \in 1..CanCount /\ rx'[x] = cans[x - Len(rx)]
          BY <2>3, <3>1, <4>2, RetriesAssumption
        <5> QED
          BY <2>1, <3>2, <5>1
      <4> QED
        BY <3>1, <4>1, <4>2
    <3> QED
      BY <3>1, <3>2 DEF Thinned
  <2>5. LineOK(rx', N + 2, taken, early)
    BY <2>2, <2>3, <2>4, ThinnedOK
  <2>6. Incoming' /\ Window'
    BY <1>1, <1>2, <1>6, <2>5 DEF Incoming, Window, InStep
  <2> QED
    BY <1>2, <1>4, <1>6, <2>6
<1> QED
  BY <1>5, <1>6 DEF SenderTimeout

\* Characters that start no block.
Characters == [k : {"EOT", "CAN", "noise", "stub"}, i : {0}]

\* What may be left of a block is a row of characters, none of them a block.
LEMMA LeftoverTypes ==
    /\ Leftovers \subseteq Seq(Characters) /\ Characters \subseteq Wire
    /\ \A c \in Characters : c.k \notin BlockKinds
    /\ Char("noise") \in Characters
<1>1. \A k \in {"EOT", "CAN", "noise", "stub"} : Char(k) \in Characters
  BY DEF Char, Characters
<1>2. \A c \in Characters : c \in Wire /\ c.k \notin BlockKinds
  BY Blocks DEF Characters, Wire, BlockKinds
<1>3. [i \in 1..CanCount |-> Char("CAN")] \in Seq(Characters)
  BY <1>1, RetriesAssumption
<1>4. <<>> \in Seq(Characters) /\ <<Char("EOT")>> \in Seq(Characters)
      /\ <<Char("stub")>> \in Seq(Characters)
  BY <1>1
<1> QED
  BY <1>1, <1>2, <1>3, <1>4 DEF Leftovers

\* A damaged block, or one of which a few characters are left, leaves the others in their
\* order.
LEMMA DamageKeepsLine ==
    ASSUME NEW l \in Seq(Wire), NEW x \in 1..Len(l), NEW s, NEW t, NEW e, LineOK(l, s, t, e)
    PROVE  /\ l[x].k = "good" =>
                \A k \in BlockKinds : LineOK([l EXCEPT ![x].k = k], s, t, e)
           /\ \A c \in Seq(Characters) :
                LineOK((SubSeq(l, 1, x - 1) \o c) \o SubSeq(l, x + 1, Len(l)), s, t, e)
<1> DEFINE n == Len(l)
           front == SubSeq(l, 1, x - 1)
           back == SubSeq(l, x + 1, n)
<1>0. n \in Nat /\ x \in 1..n
  OBVIOUS
<1>1. front \in Seq(Wire) /\ Len(front) = x - 1 /\ \A y \in 1..(x - 1) : front[y] = l[y]
  BY <1>0
<1>2. back \in Seq(Wire) /\ Len(back) = n - x /\ \A y \in 1..(n - x) : back[y] = l[x + y]
  BY <1>0
<1>5. ASSUME l[x].k = "good", NEW k \in BlockKinds
      PROVE  LineOK([l EXCEPT ![x].k = k], s, t, e)
  <2> DEFINE new == [l EXCEPT ![x].k = k]
  <2>0. l[x] \in Wire /\ [l[x] EXCEPT !.k = k] \in Wire
    <3>1. l[x] \in Wire
      BY <1>0
    <3>2. ASSUME NEW w \in Wire
          PROVE  [w EXCEPT !.k = k] \in Wire
      BY DEF Wire
    <3> QED
      BY <3>1, <3>2
  <2>1. new \in Seq(Wire) /\ Len(new) = n
    <3>1. ASSUME NEW w \in Wire
          PROVE  [l EXCEPT ![x] = w] \in Seq(Wire) /\ Len([l EXCEPT ![x] = w]) = n
      BY <1>0
    <3> QED
      BY <2>0, <3>1
  <2>2. \A y \in 1..n : new[y].i = l[y].i /\ (new[y].k \in BlockKinds => l[y].k \in BlockKinds)
    BY <1>5 DEF Wire, BlockKinds
  <2> HIDE DEF new
  <2>3. Thinned(new, l, [y \in 1..n |-> y])
    BY <2>1, <2>2 DEF Thinned
  <2>4. LineOK(new, s, t, e)
    BY <2>1, <2>3, ThinnedOK
  <2> QED
    BY <2>4 DEF new
<1> HIDE DEF front, back
<1>6. ASSUME NEW c \in Seq(Characters)
      PROVE  LineOK((front \o c) \o back, s, t, e)
  <2> DEFINE m == Len(c)
             got == front \o c
             new == got \o back
             f == [y \in 1..(n - 1 + m) |-> IF y < x THEN y ELSE y + 1 - m]
  <2>1. m \in Nat /\ c \in Seq(Wire) /\ \A y \in 1..m : c[y].k \notin BlockKinds
    <3>1. m \in Nat /\ \A y \in 1..m : c[y] \in Characters
      OBVIOUS
    <3>2. c \in Seq(Wire)
      BY LeftoverTypes
    <3> QED
      BY <3>1, <3>2, LeftoverTypes
  <2> HIDE DEF m
  <2>2. got \in Seq(Wire) /\ Len(got) = x - 1 + m
        /\ \A y \in 1..(x - 1 + m) : got[y] = IF y < x THEN l[y] ELSE c[y - (x - 1)]
    <3>1. got \in Seq(Wire) /\ Len(got) = Len(front) + Len(c)
          /\ \A y \in 1..(Len(front) + Len(c)) :
                got[y] = IF y <= Len(front) THEN front[y] ELSE c[y - Len(front)]
      BY <1>1, <2>1, ConcatProperties
    <3>2. Len(front) = x - 1 /\ Len(c) = m
      BY <1>1 DEF m
    <3>3. \A y \in 1..(x - 1 + m) : got[y] = IF y <= x - 1 THEN front[y] ELSE c[y - (x - 1)]
      BY <3>1, <3>2
    <3>4. \A y \in 1..(x - 1 + m) : (y <= x - 1 <=> y < x) /\ (y < x => front[y] = l[y])
      BY <1>0, <1>1, <2>1
    <3> HIDE DEF got
    <3> QED
      BY <3>1, <3>2, <3>3, <3>4
  <2> HIDE DEF got
  <2>3. new \in Seq(Wire) /\ Len(new) = n - 1 + m
        /\ \A y \in 1..(n - 1 + m) :
                new[y] = IF y <= x - 1 + m THEN got[y] ELSE l[x + (y - (x - 1 + m))]
    <3>1. new \in Seq(Wire) /\ Len(new) = Len(got) + Len(back)
          /\ \A y \in 1..(Len(got) + Len(back)) :
                new[y] = IF y <= Len(got) THEN got[y] ELSE back[y - Len(got)]
      BY <1>2, <2>2, ConcatProperties
    <3>2. Len(got) = x - 1 + m /\ Len(got) + Len(back) = n - 1 + m
      BY <1>0, <1>2, <2>1, <2>2
    <3> HIDE DEF new
    <3>3. ASSUME NEW y \in 1..(n - 1 + m)
          PROVE  new[y] = IF y <= x - 1 + m THEN got[y] ELSE l[x + (y - (x - 1 + m))]
      <4>1. new[y] = IF y <= x - 1 + m THEN got[y] ELSE back[y - (x - 1 + m)]
        BY <3>1, <3>2
      <4>2. ~ (y <= x - 1 + m) => y - (x - 1 + m) \in 1..(n - x)
        BY <1>0, <2>1
      <4> QED
        BY <1>2, <4>1, <4>2
    <3> QED
      BY <3>1, <3>2, <3>3
  <2> HIDE DEF new
  <2>4. \A y \in 1..(n - 1 + m) : f[y] = IF y < x THEN y ELSE y + 1 - m
    OBVIOUS
  <2> HIDE DEF f
  <2>5. ASSUME NEW y \in 1..(n - 1 + m), new[y].k \in BlockKinds
        PROVE  (y < x \/ y > x - 1 + m) /\ f[y] \in 1..n /\ new[y] = l[f[y]]
    <3>1. CASE y < x
      <4>1. y <= x - 1 + m /\ y \in 1..(x - 1 + m) /\ y \in 1..n
        BY <1>0, <2>1, <3>1
      <4>2. new[y] = got[y] /\ got[y] = l[y] /\ f[y] = y
        BY <2>2, <2>3, <2>4, <3>1, <4>1
      <4> QED
        BY <3>1, <4>1, <4>2
    <3>2. CASE y >= x /\ y <= x - 1 + m
      <4>1. y - (x - 1) \in 1..m /\ y \in 1..(x - 1 + m) /\ ~ (y < x)
        BY <1>0, <2>1, <3>2
      <4>2. new[y] = c[y - (x - 1)]
        BY <2>2, <2>3, <3>2, <4>1
      <4> QED
        BY <2>1, <2>5, <4>1, <4>2
    <3>3. CASE y > x - 1 + m
      <4>1. ~ (y <= x - 1 + m) /\ ~ (y < x) /\ x + (y - (x - 1 + m)) = y + 1 - m
            /\ y + 1 - m \in 1..n
        BY <1>0, <2>1, <3>3
      <4> QED
        BY <2>3, <2>4, <3>3, <4>1
    <3> QED
      BY <1>0, <2>1, <3>1, <3>2, <3>3
  <2>6. ASSUME NEW y \in 1..(n - 1 + m), NEW z \in 1..(n - 1 + m), y < z,
               new[y].k \in BlockKinds, new[z].k \in BlockKinds
        PROVE  f[y] < f[z]
    <3>1. (y < x \/ y > x - 1 + m) /\ (z < x \/ z > x - 1 + m)
      BY <2>5, <2>6
    <3>2. f[y] = (IF y < x THEN y ELSE y + 1 - m) /\ f[z] = (IF z < x THEN z ELSE z + 1 - m)
      BY <2>4
    <3> QED
      BY <1>0, <2>1, <2>6, <3>1, <3>2
  <2>7. Thinned(new, l, f)
    BY <2>3, <2>5, <2>6 DEF Thinned
  <2>8. LineOK(new, s, t, e)
    BY <2>3, <2>7, ThinnedOK
  <2> QED
    BY <2>8 DEF new, got
<1> QED
  BY <1>5, <1>6 DEF front, back

\* Whatever the line does, the receiver and the sender stay as they are.
LEMMA LineStepKeeps ==
    ASSUME XInv, UNCHANGED <<recvVars, snd, early>>,
           LineOK(rx', snd, taken, early), AnswersOK(tx', Acked)
    PROVE  XInv'
<1> USE DEF XInv
<1>1. UNCHANGED <<tx_ack, taken>> /\ Acked' = Acked /\ InStep' = InStep
  BY DEF Acked, InStep, recvVars, xyzVars, histVars
<1>2. Incoming' /\ Outgoing' /\ Window'
  BY <1>1 DEF Incoming, Outgoing, AnswersOK, Window
<1>3. snd' \in 0..(N + 2) /\ early' \in BOOLEAN /\ (early => early')
  <2>1. snd' \in 0..(N + 2)
    BY DEF Ranges
  <2>2. early' \in BOOLEAN
    BY DEF Flags
  <2> QED
    BY <2>1, <2>2
<1> QED
  BY <1>2, <1>3, OutsideKeeps

\* A line that damages or loses blocks, or answers.
LEMMA DamageKeeps ==
    ASSUME XInv, Damage
    PROVE  XInv'
<1> USE DEF XInv
<1>1. rx \in Seq(Wire) /\ LineOK(rx, snd, taken, early)
  BY DEF Incoming, LineOK
<1>2. LineOK(rx', snd, taken, early)
  <2>1. ASSUME NEW x \in 1..Len(rx),
               rx[x].k = "good" /\ \E k \in BlockKinds : rx' = [rx EXCEPT ![x].k = k]
        PROVE  LineOK(rx', snd, taken, early)
    <3>1. PICK k \in BlockKinds : rx' = [rx EXCEPT ![x].k = k]
      BY <2>1
    <3>2. LineOK([rx EXCEPT ![x].k = k], snd, taken, early)
      BY <1>1, <2>1, DamageKeepsLine
    <3> QED
      BY <3>1, <3>2
  <2>2. ASSUME NEW x \in 1..Len(rx), NEW c \in Leftovers,
               rx' = (SubSeq(rx, 1, x - 1) \o c) \o SubSeq(rx, x + 1, Len(rx))
        PROVE  LineOK(rx', snd, taken, early)
    <3>1. c \in Seq(Characters)
      BY LeftoverTypes
    <3> QED
      BY <1>1, <2>2, <3>1, DamageKeepsLine
  <2>3. CASE rx' = rx
    BY <1>1, <2>3
  <2> QED
    BY <2>1, <2>2, <2>3 DEF Damage
<1>3. AnswersOK(tx', Acked)
  BY TailAnswers DEF Damage, Outgoing
<1>4. UNCHANGED <<recvVars, snd, early>>
  BY DEF Damage
<1> QED
  BY <1>2, <1>3, <1>4, LineStepKeeps

\* Noise ahead of what is read next leaves the blocks in their order.
LEMMA NoiseKeeps ==
    ASSUME XInv, Noise
    PROVE  XInv'
<1> USE DEF XInv
<1> DEFINE noise == <<Char("noise")>>
<1>1. rx \in Seq(Wire) /\ LineOK(rx, snd, taken, early) /\ rx' = noise \o rx
  BY DEF Incoming, LineOK, Noise
<1>2. noise \in Seq(Wire) /\ Len(noise) = 1 /\ noise[1].k \notin BlockKinds
  BY LeftoverTypes
<1> HIDE DEF noise
<1>3. rx' \in Seq(Wire) /\ Len(rx') = 1 + Len(rx) /\ Len(rx) \in Nat
      /\ \A y \in 1..(1 + Len(rx)) : rx'[y] = IF y <= 1 THEN noise[y] ELSE rx[y - 1]
  <2>1. rx' \in Seq(Wire) /\ Len(rx') = Len(noise) + Len(rx)
        /\ \A y \in 1..(Len(noise) + Len(rx)) :
                rx'[y] = IF y <= Len(noise) THEN noise[y] ELSE rx[y - Len(noise)]
    <3>1. ASSUME NEW p \in Seq(Wire), NEW q \in Seq(Wire)
          PROVE  p \o q \in Seq(Wire) /\ Len(p \o q) = Len(p) + Len(q)
                 /\ \A y \in 1..(Len(p) + Len(q)) :
                        (p \o q)[y] = IF y <= Len(p) THEN p[y] ELSE q[y - Len(p)]
      BY ConcatProperties
    <3> QED
      BY <1>1, <1>2, <3>1, Zenon
  <2>2. Len(rx) \in Nat
    BY <1>1
  <2> QED
    BY <1>2, <2>1, <2>2
<1>4. Thinned(rx', rx, [y \in 1..Len(rx') |-> y - 1])
  <2>1. ASSUME NEW y \in 1..Len(rx'), rx'[y].k \in BlockKinds
        PROVE  y - 1 \in 1..Len(rx) /\ rx'[y] = rx[y - 1]
    <3>1. y # 1
      BY <1>2, <1>3, <2>1
    <3> QED
      BY <1>3, <3>1
  <2> QED
    BY <1>3, <2>1 DEF Thinned
<1>5. LineOK(rx', snd, taken, early)
  BY <1>1, <1>3, <1>4, ThinnedOK
<1>6. UNCHANGED <<recvVars, snd, early>> /\ AnswersOK(tx', Acked)
  BY DEF Noise, extVars, Outgoing
<1> QED
  BY <1>5, <1>6, LineStepKeeps

\* Every step keeps the invariant.
LEMMA NextKeeps == XInv /\ [Next]_vars => XInv'
<1> SUFFICES ASSUME XInv, [Next]_vars
             PROVE  XInv'
  OBVIOUS
<1>1. CASE xyzModem_init \/ OpenFails \/ xyzModem_stream_read
  BY <1>1, StartKeeps
<1>2. CASE xyzModem_stream_open
  BY <1>2, OpenKeeps
<1>3. CASE ReadLoop
  BY <1>3, ReadLoopKeeps
<1>4. CASE Retry
  BY <1>4, RetryKeeps
<1>5. CASE HeaderChar
  BY <1>5, HeaderCharKeeps
<1>6. CASE HeaderBlock
  BY <1>6, HeaderBlockKeeps
<1>7. CASE HeaderTimeout
  BY <1>7, HeaderTimeoutKeeps
<1>8. CASE xyzModem_stream_terminate
  BY <1>8, TerminateKeeps
<1>9. CASE SenderHears
  BY <1>9, SenderHearsKeeps
<1>10. CASE SenderTimeout
  BY <1>10, SenderTimeoutKeeps
<1>11. CASE Damage
  BY <1>11, DamageKeeps
<1>12. CASE Noise
  BY <1>12, NoiseKeeps
<1>13. CASE UNCHANGED vars
  <2> USE <1>13 DEF vars, XInv
  <2>1. Flags' /\ Ranges' /\ Shape'
    BY Zenon DEF Flags, Ranges, Shape
  <2>2. InStep' = InStep /\ Acked' = Acked /\ Rest' = Rest
    BY DEF InStep, Acked, Rest
  <2>3. Numbers' /\ Window'
    BY <2>2 DEF Numbers, Window
  <2>4. Incoming' /\ Outgoing'
    BY <2>2 DEF Incoming, Outgoing, AnswersOK
  <2>5. Copied'
    BY <2>2 DEF Copied
  <2> QED
    BY <2>1, <2>3, <2>4, <2>5
<1> QED
  BY <1>1, <1>2, <1>3, <1>4, <1>5, <1>6, <1>7, <1>8, <1>9, <1>10, <1>11, <1>12, <1>13
  DEF Next, Receiver, xyzModem_get_hdr

\* Every behaviour of the receiver, the sender and the line keeps the invariant.
LEMMA XInvHolds == Spec => []XInv
  BY InitXInv, NextKeeps, PTL DEF Spec

-----------------------------------------------------------------------------
(***************************************************************************)
(* The results.                                                            *)
(***************************************************************************)

\* Type correctness, for any file and any faults: xyz.len stays between the -1 of an error
\* and the length of the block in the buffer, CAN is counted no further than CanCount.
THEOREM TypeCorrect == Spec => []TypeOK
<1>1. XInv => TypeOK
  BY Zenon DEF XInv, Flags, Ranges, Shape, TypeOK
<1> QED
  BY <1>1, XInvHolds, PTL

\* What the caller has and what is left in the packet are the contents of the blocks
\* taken, and the caller has all of the blocks acknowledged.
LEMMA AckedCopied ==
    ASSUME XInv, InStep, ~spent
    PROVE  /\ Acked \in 0..N /\ out \in Seq(STRING)
           /\ Len(out) >= Len(Contents[Acked])
<1> USE DEF XInv
<1>1. taken \in 0..N /\ N \in Nat /\ out \in Seq(STRING) /\ (tx_ack => taken > 0 /\ pkt = taken)
  BY Blocks DEF Ranges, Numbers, Shape
<1>2. Acked \in 0..N /\ (tx_ack => Acked = taken - 1) /\ (~tx_ack => Acked = taken)
  BY <1>1 DEF Acked
<1>3. CASE pc \in {"try", "hdr"} \/ ~tx_ack
  <2>1. out = Contents[taken]
    <3>1. CASE pc \in {"try", "hdr"}
      BY <3>1 DEF Copied
    <3>2. CASE pc \notin {"try", "hdr"} /\ ~tx_ack
      <4>1. len <= 0 /\ out \o Rest = Contents[taken]
        BY <3>2 DEF Copied
      <4>2. Rest = <<>>
        BY <4>1 DEF Rest, Left, Shape
      <4> QED
        BY <1>1, <4>1, <4>2
    <3> QED
      BY <1>3, <3>1, <3>2
  <2>2. CASE ~tx_ack
    BY <1>1, <1>2, <2>1, <2>2
  <2>3. CASE tx_ack
    <3>1. taken \in 1..N /\ taken - 1 \in 0..N
      BY <1>1, <2>3
    <3>2. Contents[taken] = Contents[taken - 1] \o Part(taken)
      BY <3>1, ContentsUnfolds
    <3>3. Contents[taken - 1] \in Seq(STRING) /\ Part(taken) \in Seq(STRING)
      BY <3>1, ContentsType, PartType
    <3> QED
      BY <1>2, <2>1, <2>3, <3>2, <3>3
  <2> QED
    BY <1>1, <1>2, <2>2, <2>3
<1>4. CASE pc \notin {"try", "hdr"} /\ tx_ack
  <2>1. taken \in 1..N /\ taken - 1 \in 0..N
    BY <1>1, <1>4
  <2>2. Contents[taken] = Contents[taken - 1] \o Part(taken)
    BY <2>1, ContentsUnfolds
  <2>3. Contents[taken - 1] \in Seq(STRING) /\ Part(taken) \in Seq(STRING)
        /\ Len(Part(taken)) = Unpadded(File[taken])
    BY <2>1, ContentsType, PartType
  <2>4. out \o Rest = Contents[taken] /\ len <= Unpadded(File[taken])
    BY <1>1, <1>4 DEF Copied
  <2>5. Rest \in Seq(STRING) /\ Len(Rest) <= Unpadded(File[taken])
    <3>1. File[taken] \in Seq(STRING) /\ Unpadded(File[taken]) \in Nat
      BY <2>1, Blocks, UnpaddedType
    <3>2. CASE len > 0
      <4>1. len \in Nat /\ off \in Nat /\ off + len <= Len(File[taken])
        BY <1>1, <1>4, <2>1, <3>2 DEF Shape, Ranges
      <4>2. Rest = SubSeq(File[taken], off + 1, off + len)
        BY <1>1, <1>4, <3>2 DEF Rest, Left
      <4>3. Rest \in Seq(STRING) /\ Len(Rest) = len
        <5>1. \A x \in (off + 1)..(off + len) : x \in 1..Len(File[taken])
          BY <4>1
        <5> QED
          BY <3>1, <4>1, <4>2, <5>1, SubSeqProperties
      <4> QED
        BY <2>4, <4>3
    <3>3. CASE ~ (len > 0)
      <4>1. Rest = <<>>
        BY <3>3 DEF Rest, Left
      <4> QED
        BY <3>1, <4>1
    <3> QED
      BY <3>2, <3>3
  <2>6. Len(out) + Len(Rest) = Len(Contents[taken - 1]) + Len(Part(taken))
    <3>1. Len(out \o Rest) = Len(out) + Len(Rest)
      BY <1>1, <2>5, ConcatProperties
    <3>2. Len(Contents[taken - 1] \o Part(taken)) = Len(Contents[taken - 1]) + Len(Part(taken))
      BY <2>3, ConcatProperties
    <3> QED
      BY <2>2, <2>4, <3>1, <3>2
  <2>7. Len(out) \in Nat /\ Len(Rest) \in Nat /\ Len(Part(taken)) \in Nat
        /\ Len(Contents[taken - 1]) \in Nat
    BY <1>1, <2>3, <2>5
  <2>8. Len(out) >= Len(Contents[taken - 1])
    BY <2>3, <2>5, <2>6, <2>7
  <2> QED
    BY <1>1, <1>2, <1>4, <2>8
<1> QED
  BY <1>3, <1>4

\* A shorter prefix of the file has no more contents.
LEMMA ContentsGrow ==
    ASSUME NEW k \in 1..N
    PROVE  Len(Contents[k - 1]) <= Len(Contents[k])
<1>1. k - 1 \in 0..N /\ Contents[k - 1] \in Seq(STRING) /\ Part(k) \in Seq(STRING)
  BY Blocks, ContentsType, PartType
<1>2. Contents[k] = Contents[k - 1] \o Part(k)
  BY ContentsUnfolds
<1> QED
  BY <1>1, <1>2

\* What an ACK promises, for files of any length: the blocks that the sender has left
\* behind have been copied to the caller, whatever the line loses, damages or repeats.
THEOREM AckAfterDelivery == Spec => []AckedIsDelivered
<1>1. XInv => AckedIsDelivered
  <2> SUFFICES ASSUME XInv, ~spent, ~early, snd \in 1..(N + 1)
               PROVE  Len(out) >= Len(Contents[snd - 1])
    BY DEF AckedIsDelivered
  <2>1. InStep
    BY DEF InStep
  <2>2. Acked \in 0..N /\ out \in Seq(STRING) /\ Len(out) >= Len(Contents[Acked])
    BY <2>1, AckedCopied
  <2>3. taken \in Nat /\ taken <= snd /\ snd <= Acked + 1 /\ Acked \in {taken, taken - 1}
        /\ N \in Nat
    BY <2>1, Blocks DEF XInv, Window, Ranges, Acked
  <2>4. snd - 1 = Acked \/ (snd = Acked /\ Acked \in 1..N)
    BY <2>2, <2>3
  <2>5. CASE snd - 1 = Acked
    BY <2>2, <2>5
  <2>6. CASE snd = Acked /\ Acked \in 1..N
    <3>1. Len(Contents[Acked - 1]) <= Len(Contents[Acked])
      BY <2>6, ContentsGrow
    <3>2. Contents[Acked] \in Seq(STRING) /\ Contents[Acked - 1] \in Seq(STRING)
      BY <2>6, ContentsType, Blocks
    <3> QED
      BY <2>2, <2>6, <3>1, <3>2
  <2> QED
    BY <2>4, <2>5, <2>6
<1> QED
  BY <1>1, XInvHolds, PTL

-----------------------------------------------------------------------------
(***************************************************************************)
(* When the caller can get something out of order.                         *)
(***************************************************************************)

\* The front of a sequence is a prefix of it.
LEMMA FrontIsPrefix ==
    ASSUME NEW p \in Seq(STRING), NEW r \in Seq(STRING)
    PROVE  Prefix(p, p \o r)
<1>1. Len(p) <= Len(p \o r) /\ p = SubSeq(p \o r, 1, Len(p))
  BY SMT
<1> QED
  BY <1>1 DEF Prefix

\* A prefix of a prefix is a prefix.
LEMMA PrefixTransitive ==
    ASSUME NEW p \in Seq(STRING), NEW q \in Seq(STRING), NEW r \in Seq(STRING),
           Prefix(p, q), Prefix(q, r)
    PROVE  Prefix(p, r)
<1>1. Len(p) \in Nat /\ Len(q) \in Nat /\ Len(r) \in Nat /\ Len(p) <= Len(q) /\ Len(q) <= Len(r)
  BY DEF Prefix
<1>2. \A x \in 1..Len(p) : p[x] = q[x]
  BY <1>1 DEF Prefix
<1>3. \A x \in 1..Len(q) : q[x] = r[x]
  BY <1>1 DEF Prefix
<1>4. \A x \in 1..Len(p) : p[x] = r[x]
  BY <1>1, <1>2, <1>3
<1>5. SubSeq(r, 1, Len(p)) \in Seq(STRING) /\ Len(SubSeq(r, 1, Len(p))) = Len(p)
      /\ \A x \in 1..Len(p) : SubSeq(r, 1, Len(p))[x] = r[x]
  BY <1>1
<1>6. p = SubSeq(r, 1, Len(p))
  BY <1>4, <1>5, SeqEqual
<1> QED
  BY <1>1, <1>6 DEF Prefix

\* The contents of the first k blocks are a prefix of those of all of them.
LEMMA ContentsPrefix == \A k \in 0..N : Prefix(Contents[k], Contents[N])
<1> DEFINE T == {m \in 0..N : ~Prefix(Contents[N - m], Contents[N])}
<1>0. N \in Nat /\ N \in 0..N /\ Contents[N] \in Seq(STRING)
  BY Blocks, ContentsType
<1>1. T = {}
  <2> SUFFICES ASSUME T # {}
               PROVE  FALSE
    OBVIOUS
  <2>1. PICK m \in T : \A y \in T : m <= y
    <3>1. T \in SUBSET Nat
      BY <1>0
    <3> QED
      BY <3>1, Least
  <2>2. m # 0
    <3>1. Prefix(Contents[N], Contents[N])
      BY <1>0 DEF Prefix
    <3>2. N - 0 = N
      BY <1>0
    <3> QED
      BY <3>1, <3>2
  <2>3. m \in 1..N /\ m - 1 \in 0..N /\ m - 1 \notin T
    BY <1>0, <2>1, <2>2
  <2> DEFINE k == N - m
  <2>4. k \in 0..N /\ k + 1 \in 1..N /\ k + 1 \in 0..N /\ N - (m - 1) = k + 1 /\ (k + 1) - 1 = k
    BY <1>0, <2>3
  <2> HIDE DEF k
  <2>5. Prefix(Contents[k + 1], Contents[N])
    BY <2>3, <2>4
  <2>6. Contents[k + 1] = Contents[k] \o Part(k + 1)
    BY <2>4, ContentsUnfolds
  <2>7. Contents[k] \in Seq(STRING) /\ Contents[k + 1] \in Seq(STRING)
        /\ Part(k + 1) \in Seq(STRING)
    BY <2>4, ContentsType, PartType
  <2>8. Prefix(Contents[k], Contents[k + 1])
    BY <2>6, <2>7, FrontIsPrefix
  <2>9. Prefix(Contents[k], Contents[N])
    BY <1>0, <2>5, <2>7, <2>8, PrefixTransitive
  <2> QED
    BY <2>1, <2>9 DEF k
<1>2. ASSUME NEW k \in 0..N
      PROVE  Prefix(Contents[k], Contents[N])
  <2>1. N - k \in 0..N /\ N - (N - k) = k
    BY <1>0
  <2>2. N - k \notin T
    BY <1>1
  <2> HIDE DEF T
  <2>3. Prefix(Contents[N - (N - k)], Contents[N])
    BY <2>1, <2>2 DEF T
  <2> QED
    BY <2>1, <2>3
<1> QED
  BY <1>2

\* As long as the retries have not run out on a repeated block and the sender is in step,
\* the caller has a prefix of the blocks taken.
LEMMA OutIsPrefix ==
    ASSUME XInv, InStep, ~spent
    PROVE  taken \in 0..N /\ out \in Seq(STRING) /\ Prefix(out, Contents[taken])
<1> USE DEF XInv
<1>1. taken \in 0..N /\ out \in Seq(STRING) /\ Contents[taken] \in Seq(STRING)
  BY Blocks, ContentsType DEF Ranges, Numbers, Shape
<1>2. CASE pc \in {"try", "hdr"}
  <2>1. out = Contents[taken]
    BY <1>2 DEF Copied
  <2> QED
    BY <1>1, <2>1 DEF Prefix
<1>3. CASE pc \notin {"try", "hdr"}
  <2>1. out \o Rest = Contents[taken]
    BY <1>3 DEF Copied
  <2>2. Rest \in Seq(STRING)
    <3>1. CASE len > 0
      <4>1. pkt \in 1..N /\ len \in Nat /\ off \in Nat /\ off + len <= Len(File[pkt])
        BY <3>1 DEF Shape, Ranges
      <4>2. File[pkt] \in Seq(STRING) /\ Rest = SubSeq(File[pkt], off + 1, off + len)
        BY <3>1, <4>1, Blocks DEF Rest, Left
      <4>3. len \in 1..len
        BY <3>1, <4>1
      <4>4. SubSeq(File[pkt], off + 1, off + len) \in Seq(STRING)
        BY <1>1, <4>1, <4>2, <4>3, CopyPiece
      <4> QED
        BY <4>2, <4>4
    <3>2. CASE ~ (len > 0)
      BY <3>2 DEF Rest, Left
    <3> QED
      BY <3>1, <3>2
  <2>3. Prefix(out, out \o Rest)
    BY <1>1, <2>2, FrontIsPrefix
  <2> QED
    BY <1>1, <2>1, <2>3
<1> QED
  BY <1>2, <1>3

\* What stream_read means by "Need new header" after a repeated block, that the caller gets
\* the file in order, holds until the retries run out on a repeated block: for a sender in
\* step with the receiver and, when no two blocks have the same number, for any sender.
THEOREM InOrderUntilSpent == Spec => [](~spent /\ InStep => NeedNewHeader)
<1>1. XInv => (~spent /\ InStep => NeedNewHeader)
  <2> SUFFICES ASSUME XInv, ~spent, InStep
               PROVE  Prefix(out, Contents[N])
    BY DEF NeedNewHeader
  <2>1. taken \in 0..N /\ out \in Seq(STRING) /\ Prefix(out, Contents[taken])
    BY OutIsPrefix
  <2>2. Contents[taken] \in Seq(STRING) /\ Contents[N] \in Seq(STRING)
        /\ Prefix(Contents[taken], Contents[N])
    BY <2>1, Blocks, ContentsType, ContentsPrefix
  <2> QED
    BY <2>1, <2>2, PrefixTransitive
<1> QED
  BY <1>1, XInvHolds, PTL

-----------------------------------------------------------------------------
(***************************************************************************)
(* The receiver implements Delivery, step by step.                         *)
(***************************************************************************)

\* spent and early are never taken back, and the step that sets one copies nothing, takes
\* no block and acknowledges none.
LEMMA LapseStep ==
    ASSUME XInv, [Next]_vars
    PROVE  /\ spent' \in BOOLEAN /\ early' \in BOOLEAN
           /\ spent' = spent \/ (spent' = TRUE /\ UNCHANGED <<out, taken, tx_ack>>)
           /\ early' = early \/ (early' = TRUE /\ UNCHANGED <<out, taken, tx_ack>>)
<1> USE DEF extVars, histVars, xyzVars
<1>0. XInv'
  BY NextKeeps
<1>1. spent' \in BOOLEAN /\ early' \in BOOLEAN /\ spent \in BOOLEAN /\ early \in BOOLEAN
  BY <1>0, Zenon DEF XInv, Flags
<1>2. CASE Retry
  BY <1>1, <1>2 DEF Retry, Fail
<1>3. CASE SenderHears
  <2>1. UNCHANGED <<out, taken, tx_ack, spent>>
    BY <1>3 DEF SenderHears, recvVars
  <2>2. early' = early \/ early' = (early \/ Head(tx).i # snd)
    BY <1>3 DEF SenderHears
  <2> QED
    BY <1>1, <2>1, <2>2
<1>4. CASE UNCHANGED <<spent, early>>
  BY <1>1, <1>4
<1>5. CASE ReadLoop \/ xyzModem_get_hdr
  BY <1>4, <1>5 DEF ReadLoop, xyzModem_get_hdr, HeaderChar, HeaderBlock, HeaderTimeout
<1>6. CASE xyzModem_init \/ OpenFails \/ xyzModem_stream_open \/ xyzModem_stream_read
           \/ xyzModem_stream_terminate
  BY <1>4, <1>6 DEF xyzModem_init, OpenFails, xyzModem_stream_open, xyzModem_stream_read,
     xyzModem_stream_terminate
<1>7. CASE SenderTimeout \/ Damage \/ Noise
  BY <1>4, <1>7 DEF SenderTimeout, Damage, Noise, recvVars
<1>8. CASE UNCHANGED vars
  BY <1>4, <1>8 DEF vars
<1> QED
  BY <1>2, <1>3, <1>5, <1>6, <1>7, <1>8 DEF Next, Receiver

\* What a step of stream_read copies to the caller goes on where the last one stopped.
LEMMA CopyStep ==
    ASSUME XInv, ReadLoop, InStep, ~spent
    PROVE  UNCHANGED out
           \/ \E n \in (Len(out) + 1)..Len(Contents[taken]) : out' = SubSeq(Contents[taken], 1, n)
<1> USE DEF extVars, XInv
<1>1. CASE UNCHANGED out
  BY <1>1
<1> DEFINE k == IF size < len THEN size ELSE len
<1>2. CASE ~at_eof /\ size # 0 /\ len # 0
  <2>1. out' = out \o SubSeq(File[pkt], off + 1, off + k) /\ pc = "loop"
    BY <1>2 DEF ReadLoop
  <2>2. len \in Nat /\ size \in Nat /\ k \in 1..len /\ off \in Nat /\ pkt \in 1..N
        /\ off + len <= Len(File[pkt])
    BY <1>2, <2>1 DEF Shape, Ranges
  <2> HIDE DEF k
  <2>3. File[pkt] \in Seq(STRING) /\ out \in Seq(STRING) /\ taken \in 0..N
    BY <2>2, Blocks DEF Shape, Numbers, Ranges
  <2>4. Contents[taken] \in Seq(STRING) /\ out \o Rest = Contents[taken]
    BY <2>1, <2>3, ContentsType DEF Copied
  <2> DEFINE piece == SubSeq(File[pkt], off + 1, off + k)
             rest == Left(File[pkt], off + k, len - k)
  <2>5. piece \in Seq(STRING) /\ Len(piece) = k /\ out \o piece \in Seq(STRING)
        /\ (out \o piece) \o rest = out \o Left(File[pkt], off, len)
    <3>1. piece \in Seq(STRING) /\ Len(piece) = k /\ out \o piece \in Seq(STRING)
      BY <2>2, <2>3, CopyPiece
    <3>2. (out \o piece) \o rest = out \o Left(File[pkt], off, len)
      BY <2>2, <2>3, CopyPiece, Zenon
    <3> QED
      BY <3>1, <3>2, Zenon
  <2>6. rest \in Seq(STRING)
    <3>1. CASE len - k > 0
      <4>1. rest = SubSeq(File[pkt], off + k + 1, off + k + (len - k))
        BY <3>1 DEF Left
      <4>2. \A x \in (off + k + 1)..(off + k + (len - k)) : x \in 1..Len(File[pkt])
        BY <2>2
      <4>3. off + k + 1 \in Int /\ off + k + (len - k) \in Int
        BY <2>2
      <4>4. \A x \in (off + k + 1)..(off + k + (len - k)) : File[pkt][x] \in STRING
        BY <2>3, <4>2
      <4> HIDE DEF rest
      <4> QED
        BY <4>1, <4>3, <4>4, SubSeqProperties
    <3>2. CASE ~ (len - k > 0)
      BY <3>2 DEF Left
    <3> QED
      BY <3>1, <3>2
  <2>7. out' \o rest = Contents[taken] /\ out' = out \o piece
    BY <2>1, <2>4, <2>5 DEF Rest
  <2> HIDE DEF piece, rest
  <2>8. out' \in Seq(STRING) /\ Len(out') = Len(out) + k
    BY <2>3, <2>5, <2>7
  <2>9. Len(out') <= Len(Contents[taken]) /\ out' = SubSeq(Contents[taken], 1, Len(out'))
    <3>1. ASSUME NEW p \in Seq(STRING), NEW r \in Seq(STRING)
          PROVE  Len(p) <= Len(p \o r) /\ p = SubSeq(p \o r, 1, Len(p))
      BY SMT
    <3> QED
      BY <2>6, <2>7, <2>8, <3>1
  <2>10. Len(out') \in (Len(out) + 1)..Len(Contents[taken])
    BY <2>2, <2>3, <2>4, <2>8, <2>9
  <2> QED
    BY <2>9, <2>10
<1> QED
  BY <1>1, <1>2 DEF ReadLoop

\* Every step, as long as the sender is in step and the retries have not run out on a
\* repeated block: it takes the next block, goes on copying, acknowledges a block that
\* was copied, or does none of these.
LEMMA StepPromise ==
    ASSUME XInv, [Next]_vars, InStep, ~spent, UNCHANGED <<spent, early>>
    PROVE  \/ UNCHANGED <<out, taken, Acked>>
           \/ taken < N /\ Acked = taken /\ taken' = taken + 1 /\ UNCHANGED <<out, Acked>>
           \/ /\ \E n \in (Len(out) + 1)..Len(Contents[taken]) :
                    out' = SubSeq(Contents[taken], 1, n)
              /\ UNCHANGED <<taken, Acked>>
           \/ Acked < taken /\ out = Contents[taken] /\ Acked' = Acked + 1
              /\ UNCHANGED <<out, taken>>
<1> USE DEF extVars, histVars, xyzVars
<1>1. ASSUME UNCHANGED <<out, taken, tx_ack>>
      PROVE  UNCHANGED <<out, taken, Acked>>
  BY <1>1 DEF Acked
<1>2. CASE ReadLoop
  <2>1. UNCHANGED <<taken, tx_ack, Acked>>
    BY <1>2 DEF ReadLoop, Acked
  <2> QED
    BY <1>2, <2>1, CopyStep
<1>3. CASE Retry
  <2>1. UNCHANGED <<out, taken>> /\ pc = "try" /\ (tx_ack' = tx_ack \/ tx_ack' = FALSE)
    BY <1>3 DEF Retry
  <2>2. CASE tx_ack' = tx_ack
    BY <1>1, <2>1, <2>2
  <2>3. CASE tx_ack /\ tx_ack' = FALSE
    <3>1. taken \in Nat /\ Acked = taken - 1 /\ Acked' = taken
      BY <2>1, <2>3 DEF Acked, XInv, Ranges
    <3>2. out = Contents[taken]
      BY <2>1 DEF XInv, Copied
    <3> QED
      BY <2>1, <3>1, <3>2
  <2>4. tx_ack \in BOOLEAN
    BY DEF XInv, Flags
  <2> QED
    BY <2>1, <2>2, <2>3, <2>4
<1>4. CASE HeaderBlock
  <2>0. XInv' /\ InStep'
    BY NextKeeps DEF InStep
  <2>1. pc = "hdr" /\ UNCHANGED out
    BY <1>4 DEF HeaderBlock
  <2>2. ~tx_ack /\ Acked = taken /\ taken \in Nat /\ taken' \in Nat
    BY <2>0, <2>1 DEF XInv, Shape, Acked, Ranges
  <2>3. UNCHANGED <<taken, tx_ack>> \/ (taken' = taken + 1 /\ tx_ack' = TRUE)
    BY <1>4 DEF HeaderBlock, Accept
  <2>4. CASE taken' = taken + 1 /\ tx_ack' = TRUE
    <3>1. Acked' = taken
      BY <2>2, <2>4 DEF Acked
    <3>2. taken < N
      BY <2>0, <2>2, <2>4, Blocks DEF XInv, Numbers
    <3> QED
      BY <2>1, <2>2, <2>4, <3>1, <3>2
  <2> QED
    BY <1>1, <2>1, <2>3, <2>4
<1>5. CASE HeaderChar \/ HeaderTimeout
  BY <1>1, <1>5 DEF HeaderChar, HeaderTimeout
<1>6. CASE xyzModem_init \/ OpenFails \/ xyzModem_stream_read \/ xyzModem_stream_terminate
  BY <1>1, <1>6 DEF xyzModem_init, OpenFails, xyzModem_stream_read, xyzModem_stream_terminate
<1>7. CASE xyzModem_stream_open
  <2>1. UNCHANGED <<out, taken>> /\ ~tx_ack /\ tx_ack' = FALSE
    BY <1>7 DEF xyzModem_stream_open, XInv, Shape
  <2> QED
    BY <2>1 DEF Acked
<1>8. CASE SenderHears \/ SenderTimeout \/ Damage \/ Noise
  BY <1>1, <1>8 DEF SenderHears, SenderTimeout, Damage, Noise, recvVars
<1>9. CASE UNCHANGED vars
  BY <1>1, <1>9 DEF vars
<1> QED
  BY <1>2, <1>3, <1>4, <1>5, <1>6, <1>7, <1>8, <1>9 DEF Next, Receiver, xyzModem_get_hdr

\* Delivery, where the promise also ends when the sender of a file with more blocks than
\* there are block numbers has taken the ACK of one block for that of another.
DI == INSTANCE Delivery WITH
        Blocks <- N,
        got <- out,
        acked <- Acked,
        lapsed <- spent \/ (early /\ ~Few)

\* The receiver delivers in order, for files of any length: it implements Delivery until
\* the retries run out on a repeated block or, in a long file, the sender is out of step.
THEOREM DeliversInStep == Spec => DI!Spec
<1> DEFINE lapsed == spent \/ (early /\ ~Few)
<1>1. Init => DI!Init
  <2> SUFFICES ASSUME Init
               PROVE  DI!Init
    OBVIOUS
  <2>1. lapsed = FALSE
    BY Zenon DEF Init
  <2>2. out = <<>> /\ taken = 0 /\ Acked = 0
    <3>1. ~tx_ack /\ taken = 0 /\ out = <<>>
      BY Zenon DEF Init
    <3>2. 0 - 0 = 0
      OBVIOUS
    <3> QED
      BY <3>1, <3>2, Zenon DEF Acked
  <2> QED
    BY <2>1, <2>2 DEF DI!Init
<1>2. XInv /\ [Next]_vars => [DI!Next]_(DI!vars)
  <2> SUFFICES ASSUME XInv, [Next]_vars
               PROVE  DI!Next \/ UNCHANGED DI!vars
    OBVIOUS
  <2>1. /\ spent' \in BOOLEAN /\ early' \in BOOLEAN /\ spent \in BOOLEAN /\ early \in BOOLEAN
        /\ spent' = spent \/ (spent' = TRUE /\ UNCHANGED <<out, taken, tx_ack>>)
        /\ early' = early \/ (early' = TRUE /\ UNCHANGED <<out, taken, tx_ack>>)
    BY LapseStep DEF XInv, Flags
  <2>2. CASE lapsed'
    <3>1. lapsed \/ UNCHANGED <<out, taken, Acked>>
      BY <2>1, <2>2 DEF Acked
    <3> QED
      BY <2>2, <3>1 DEF DI!Next, DI!Lapse
  <2>3. CASE ~lapsed'
    <3>1. ~spent /\ InStep /\ (UNCHANGED <<spent, early>> \/ UNCHANGED <<out, taken, tx_ack>>)
      BY <2>1, <2>3 DEF InStep
    <3>2. ~lapsed
      BY <2>1, <2>3
    <3>3. CASE UNCHANGED <<out, taken, Acked>>
      BY <2>3, <3>2, <3>3 DEF DI!vars
    <3>4. CASE ~spent /\ InStep /\ UNCHANGED <<spent, early>>
      BY <2>3, <3>2, <3>3, <3>4, StepPromise
      DEF DI!Next, DI!Take, DI!HandOver, DI!Acknowledge
    <3>5. CASE UNCHANGED <<out, taken, tx_ack>>
      BY <3>3, <3>5 DEF Acked
    <3> QED
      BY <3>1, <3>4, <3>5
  <2> QED
    BY <2>2, <2>3
<1> QED
  BY <1>1, <1>2, XInvHolds, PTL DEF Spec, DI!Spec

\* A file with no more blocks than there are block numbers is delivered in order, no
\* character twice and none left out, and a block acknowledged only after all of it was
\* copied out of the packet buffer, even when the sender takes one ACK for another.
THEOREM DeliversShortFile ==
    ASSUME N <= BlkMod
    PROVE  Spec => DeliversInOrder
<1>1. Init => D!Init
  <2> SUFFICES ASSUME Init
               PROVE  D!Init
    OBVIOUS
  <2>1. taken - (IF tx_ack THEN 1 ELSE 0) = 0
    <3>1. ~tx_ack /\ taken = 0
      BY Zenon DEF Init
    <3>2. 0 - 0 = 0
      OBVIOUS
    <3> QED
      BY <3>1, <3>2, Zenon
  <2> QED
    BY <2>1, Zenon DEF Init, D!Init
<1>2. XInv /\ [Next]_vars => [D!Next]_(D!vars)
  <2> SUFFICES ASSUME XInv, [Next]_vars
               PROVE  D!Next \/ UNCHANGED D!vars
    OBVIOUS
  <2>1. /\ spent' \in BOOLEAN /\ early' \in BOOLEAN /\ spent \in BOOLEAN /\ early \in BOOLEAN
        /\ spent' = spent \/ (spent' = TRUE /\ UNCHANGED <<out, taken, tx_ack>>)
        /\ early' = early \/ (early' = TRUE /\ UNCHANGED <<out, taken, tx_ack>>)
    BY LapseStep DEF XInv, Flags
  <2>2. CASE spent'
    <3>1. spent' = TRUE /\ (spent \/ UNCHANGED <<out, taken, tx_ack>>)
      BY <2>1, <2>2
    <3>2. spent \/ UNCHANGED <<out, taken, taken - (IF tx_ack THEN 1 ELSE 0)>>
      BY <3>1
    <3> QED
      BY <3>1, <3>2 DEF D!Next, D!Lapse
  <2>3. CASE ~spent' /\ UNCHANGED <<out, taken, tx_ack>>
    BY <2>1, <2>3 DEF D!vars
  <2>4. CASE ~spent' /\ UNCHANGED <<spent, early>>
    <3>1. InStep
      BY DEF InStep, Few
    <3> QED
      BY <2>4, <3>1, StepPromise
      DEF D!Next, D!Take, D!HandOver, D!Acknowledge, D!vars, Acked
  <2> QED
    BY <2>1, <2>2, <2>3, <2>4
<1> QED
  BY <1>1, <1>2, XInvHolds, PTL DEF Spec, DeliversInOrder, D!Spec
=============================================================================
