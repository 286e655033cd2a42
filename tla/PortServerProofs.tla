--------------------------- MODULE PortServerProofs ---------------------------
(***************************************************************************)
(* Proofs about PortServer: for any number of clients with any arguments,  *)
(* on either port, in any order and with any failures, each is answered    *)
(* the lines it sent.                                                      *)
(***************************************************************************)
EXTENDS PortServer, TLAPS, WellFoundedInduction, SequenceTheorems, FiniteSetTheorems

\* What client c has sent after n writes: W(c)[n].
WriteNo(c, n) == IF n % 2 = 0 THEN Args[c][n \div 2 + 1] ELSE <<CR, LF>>
Writes(c, w) ==
    /\ w \in [0..(2 * Len(Args[c])) -> Seq(STRING)]
    /\ w[0] = <<>> /\ w[2 * Len(Args[c])] = Text(c)
    /\ \A n \in 0..(2 * Len(Args[c]) - 1) : w[n + 1] = w[n] \o WriteNo(c, n)
W(c) == CHOOSE w : Writes(c, w)

-----------------------------------------------------------------------------
(***************************************************************************)
(* The invariant.                                                          *)
(***************************************************************************)
\* Where the text of client c ends that has been sent, and that has been read.
Upto(c) == Len(W(c)[sent[c]])
Taken(c) == Upto(c) - Len(inbox[c])

\* A connection waits in one place of one queue, until it is accepted once.
Waits(c) == \E p \in {0, 1} : \E i \in 1..Len(queue[p]) : queue[p][i] = c
Turns ==
    /\ \A p \in {0, 1} : \A i \in 1..Len(queue[p]) : PortOf[queue[p][i]] = p
    /\ \A p \in {0, 1} : \A i, k \in 1..Len(queue[p]) : queue[p][i] = queue[p][k] => i = k
    /\ \A c \in Clients : Waits(c) => c # cur /\ conn[c] \notin {"new", "served"}
    /\ cur # NoClient => conn[cur] \notin {"new", "served"}

\* What is in the inbox is the text behind the place the server has come to; of a client
\* that has not been accepted nothing has been read.
Streams ==
    \A c \in Clients :
        /\ Len(inbox[c]) <= Upto(c) /\ inbox[c] = SubSeq(Text(c), Taken(c) + 1, Upto(c))
        /\ conn[c] = "new" \/ Waits(c) => Taken(c) = 0

\* b is the end of the line before place k.
IsEnd(t, k, b) ==
    /\ b \in 0..k /\ (b = 0 \/ t[b] = LF)
    /\ \A x \in (b + 1)..k : t[x] # LF

\* ps is the beginning of the line that the server is in.
InLine ==
    cur # NoClient =>
        \E b \in 0..Taken(cur) : /\ IsEnd(Text(cur), Taken(cur), b)
                                 /\ ps = SubSeq(Text(cur), b + 1, Taken(cur))

\* There are as many answers as lines read that call for one.
Counted == \A c \in Clients : Len(reply[c]) = Cardinality(Answered(Text(c), Taken(c)))

\* The two halves of AnswersOwnLines: whose answers they are, and where they end.
Own ==
    \A c \in Clients : \A i \in 1..Len(reply[c]) :
        \E e \in Answered(Text(c), Len(Text(c))) :
            /\ Cardinality(Answered(Text(c), e)) = i
            /\ reply[c][i] = Answer(Text(c), e)
Quits ==
    \A c \in Clients :
        /\ \A i \in 1..Len(reply[c]) :
             reply[c][i] = Quit <=> conn[c] = "served" /\ i = Len(reply[c])
        /\ conn[c] = "served" => Len(reply[c]) > 0

SrvInv == SrvTypeOK /\ Turns /\ Streams /\ InLine /\ Counted /\ Own /\ Quits
-----------------------------------------------------------------------------
(***************************************************************************)
(* What a client sends.                                                    *)
(***************************************************************************)

\* A set of natural numbers has a least element; what is proved by induction below is
\* proved from a least counterexample.
LEMMA Least ==
    ASSUME NEW T \in SUBSET Nat, T # {}
    PROVE  \E x \in T : \A y \in T : x <= y
<1>1. PICK x \in T : \A y \in T : ~ (<<y, x>> \in {ss \in Nat \X Nat : ss[1] < ss[2]})
  <2>1. IsWellFoundedOn({ss \in Nat \X Nat : ss[1] < ss[2]}, Nat)
    BY NatLessThanWellFounded, Zenon DEF OpToRel
  <2> QED
    BY <2>1, WFMin, Zenon
<1>2. ASSUME NEW y \in T
      PROVE  x <= y
  <2>1. y < x => <<y, x>> \in {ss \in Nat \X Nat : ss[1] < ss[2]}
    OBVIOUS
  <2>2. ~ (y < x)
    BY <1>1, <2>1
  <2> QED
    BY <2>2
<1> QED
  BY <1>2

\* f joins the sequences one after the other.
Unfolds(f, seqs, n) ==
    f = [i \in 1..n |-> IF i = 1 THEN seqs[i] ELSE f[i - 1] \o seqs[i]]

\* The recursive function of FlattenSeq unfolds.
LEMMA UnfoldingExists == ASSUME NEW seqs PROVE \A n \in Nat : \E f : Unfolds(f, seqs, n)
<1> DEFINE T == {n \in Nat : ~ \E f : Unfolds(f, seqs, n)}
<1> SUFFICES ASSUME T # {}
             PROVE  FALSE
  OBVIOUS
<1>1. PICK n \in T : \A k \in T : n <= k
  BY Least
<1>2. n # 0
  <2>1. Unfolds([i \in 1..0 |-> seqs[i]], seqs, 0)
    BY DEF Unfolds
  <2> QED
    BY <2>1
<1>3. n \in Nat /\ n - 1 \in Nat /\ n - 1 \notin T
  BY <1>1, <1>2
<1>4. PICK f : Unfolds(f, seqs, n - 1)
  BY <1>3
<1> DEFINE last == IF n = 1 THEN seqs[n] ELSE f[n - 1] \o seqs[n]
           g == [i \in 1..n |-> IF i = n THEN last ELSE f[i]]
<1> HIDE DEF last
<1>5. ASSUME NEW i \in 1..n
      PROVE  g[i] = IF i = 1 THEN seqs[i] ELSE g[i - 1] \o seqs[i]
  <2>1. \A x \in 1..(n - 1) : f[x] = IF x = 1 THEN seqs[x] ELSE f[x - 1] \o seqs[x]
    BY <1>3, <1>4 DEF Unfolds
  <2>2. CASE i = n
    <3>1. g[n] = last /\ (n # 1 => g[n - 1] = f[n - 1])
      BY <1>2, <1>3
    <3> HIDE DEF g
    <3> QED
      BY <2>2, <3>1, Zenon DEF last
  <2>3. CASE i # n /\ i # 1
    <3>1. g[i] = f[i] /\ g[i - 1] = f[i - 1] /\ i \in 1..(n - 1)
      BY <1>3, <2>3
    <3>2. f[i] = f[i - 1] \o seqs[i]
      BY <2>1, <2>3, <3>1, Zenon
    <3> HIDE DEF g
    <3> QED
      BY <2>3, <3>1, <3>2, Zenon
  <2>4. CASE i # n /\ i = 1
    BY <1>3, <2>1, <2>4
  <2> QED
    BY <2>2, <2>3, <2>4
<1>6. Unfolds(g, seqs, n)
  BY <1>5 DEF Unfolds
<1> QED
  BY <1>6

\* FlattenSeq joins: it is the last of the partial joins.
LEMMA FlattenIs ==
    ASSUME NEW S, NEW seqs \in Seq(Seq(S))
    PROVE  \E f \in [0..Len(seqs) -> Seq(S)] :
             /\ f[0] = <<>> /\ f[Len(seqs)] = Sq!FlattenSeq(seqs)
             /\ \A i \in 1..Len(seqs) : f[i] = f[i - 1] \o seqs[i]
<1> DEFINE n == Len(seqs)
           f == CHOOSE f : Unfolds(f, seqs, n)
           g == [i \in 0..n |-> IF i = 0 THEN <<>> ELSE f[i]]
<1>0. n \in Nat /\ \A i \in 1..n : seqs[i] \in Seq(S)
  OBVIOUS
<1>1. Unfolds(f, seqs, n)
  <2> HIDE DEF n
  <2>1. \E h : Unfolds(h, seqs, n)
    BY <1>0, UnfoldingExists
  <2> QED
    BY <2>1
<1> HIDE DEF f
<1>2. \A i \in 1..n : f[i] = IF i = 1 THEN seqs[i] ELSE f[i - 1] \o seqs[i]
  BY <1>0, <1>1 DEF Unfolds
<1>3. ASSUME NEW i \in 1..n
      PROVE  g[i] = g[i - 1] \o seqs[i]
  <2>1. CASE i = 1
    <3>1. g[0] = <<>> /\ g[1] = seqs[1] /\ seqs[1] \in Seq(S)
      BY <1>0, <1>2, <2>1
    <3>2. <<>> \o seqs[1] = seqs[1]
      BY <3>1, ConcatEmptySeq
    <3>3. i - 1 = 0
      BY <2>1
    <3> HIDE DEF g, n
    <3> QED
      BY <2>1, <3>1, <3>2, <3>3, Zenon
  <2>2. CASE i # 1
    <3>1. g[i] = f[i] /\ g[i - 1] = f[i - 1]
      BY <1>0, <2>2
    <3> HIDE DEF g, n
    <3> QED
      BY <1>2, <2>2, <3>1, Zenon
  <2> QED
    BY <2>1, <2>2
<1>4. g[0] = <<>> /\ DOMAIN g = 0..n
  BY <1>0
<1>5. g[n] = Sq!FlattenSeq(seqs)
  <2>1. CASE n = 0
    <3>1. seqs = <<>>
      BY <2>1
    <3> QED
      BY <1>4, <2>1, <3>1 DEF Sq!FlattenSeq
  <2>2. CASE n # 0
    <3>1. g[n] = f[n]
      BY <1>0, <2>2
    <3>2. Sq!FlattenSeq(seqs) = f[n]
      BY <2>2 DEF Sq!FlattenSeq, f, Unfolds
    <3> QED
      BY <3>1, <3>2
  <2> QED
    BY <2>1, <2>2
<1> HIDE DEF g
<1>6. \A i \in 0..n : g[i] \in Seq(S)
  <2> DEFINE T == {i \in 0..n : g[i] \notin Seq(S)}
  <2> SUFFICES ASSUME T # {}
               PROVE  FALSE
    OBVIOUS
  <2> HIDE DEF n
  <2>0. T \in SUBSET Nat
    BY <1>0
  <2>1. PICK i \in T : \A k \in T : i <= k
    BY <2>0, Least
  <2>2. i # 0
    <3>1. g[i] \notin Seq(S)
      BY <2>1
    <3>2. g[0] \in Seq(S)
      BY <1>4, EmptySeq
    <3> QED
      BY <3>1, <3>2, Zenon
  <2>3. i \in 1..n /\ i - 1 \in 0..n /\ i - 1 \notin T
    BY <1>0, <2>1, <2>2
  <2>4. g[i - 1] \in Seq(S) /\ seqs[i] \in Seq(S)
    BY <1>0, <2>3
  <2>5. g[i - 1] \o seqs[i] \in Seq(S)
    BY <2>4, ConcatProperties
  <2>6. g[i] \in Seq(S)
    BY <1>3, <2>3, <2>5
  <2> QED
    BY <2>1, <2>6
<1>7. g \in [0..n -> Seq(S)]
  <2>1. g = [i \in 0..n |-> g[i]]
    BY DEF g
  <2> QED
    BY <1>6, <2>1
<1> QED
  BY <1>3, <1>4, <1>5, <1>7

\* The writes of a client are the lines of its text, each in two pieces.
LEMMA WritesAre == ASSUME NEW c \in Clients PROVE Writes(c, W(c))
<1> DEFINE a == Args[c]
           n == Len(a)
           ls == [k \in 1..n |-> a[k] \o <<CR, LF>>]
<1>1. a \in Seq(Seq(STRING)) /\ n \in Nat /\ \A k \in 1..n : a[k] \in Seq(STRING)
  BY ArgsAssumption
<1>2. <<CR, LF>> \in Seq(STRING)
  BY ArgsAssumption
<1>3. \A k \in 1..n : a[k] \o <<CR, LF>> \in Seq(STRING)
  BY <1>1, <1>2, ConcatProperties
<1>4. ls \in Seq(Seq(STRING)) /\ Len(ls) = n
  <2> HIDE DEF n, a
  <2> QED
    BY <1>1, <1>3
<1>5. Text(c) = Sq!FlattenSeq(ls)
  BY DEF Text
<1>6. \A k \in 1..n : ls[k] = a[k] \o <<CR, LF>>
  OBVIOUS
<1> HIDE DEF n, a, ls
<1>7. PICK f \in [0..n -> Seq(STRING)] :
        /\ f[0] = <<>> /\ f[n] = Text(c)
        /\ \A k \in 1..n : f[k] = f[k - 1] \o ls[k]
  BY <1>4, <1>5, FlattenIs
<1> DEFINE w == [i \in 0..(2 * n) |-> IF i % 2 = 0 THEN f[i \div 2]
                                      ELSE f[i \div 2] \o a[i \div 2 + 1]]
<1>8. ASSUME NEW h \in 0..n
      PROVE  /\ w[2 * h] = f[h] /\ (2 * h) % 2 = 0 /\ (2 * h) \div 2 = h
             /\ h < n => /\ w[2 * h + 1] = f[h] \o a[h + 1]
                         /\ (2 * h + 1) % 2 = 1 /\ (2 * h + 1) \div 2 = h
  <2>1. (2 * h) % 2 = 0 /\ (2 * h) \div 2 = h
    BY <1>1
  <2>2. (2 * h + 1) % 2 = 1 /\ (2 * h + 1) \div 2 = h
    BY <1>1
  <2>3. 2 * h \in 0..(2 * n) /\ (h < n => 2 * h + 1 \in 0..(2 * n))
    BY <1>1
  <2>4. w[2 * h] = IF (2 * h) % 2 = 0 THEN f[(2 * h) \div 2]
                   ELSE f[(2 * h) \div 2] \o a[(2 * h) \div 2 + 1]
    BY <2>3
  <2>5. h < n => w[2 * h + 1] = IF (2 * h + 1) % 2 = 0 THEN f[(2 * h + 1) \div 2]
                                ELSE f[(2 * h + 1) \div 2] \o a[(2 * h + 1) \div 2 + 1]
    BY <2>3
  <2>6. 1 # 0
    OBVIOUS
  <2> HIDE DEF w
  <2> QED
    BY <2>1, <2>2, <2>4, <2>5, <2>6, Zenon
<1>9. ASSUME NEW i \in Nat
      PROVE  \E h \in Nat : i = 2 * h \/ i = 2 * h + 1
  <2>1. i \div 2 \in Nat /\ (i = 2 * (i \div 2) \/ i = 2 * (i \div 2) + 1)
    OBVIOUS
  <2> QED
    BY <2>1
<1>10. ASSUME NEW i \in 0..(2 * n)
       PROVE  w[i] \in Seq(STRING)
  <2>0. i \in Nat
    BY <1>1
  <2>1. PICK h \in Nat : i = 2 * h \/ i = 2 * h + 1
    BY <1>9, <2>0, Zenon
  <2>2. h \in 0..n /\ (i = 2 * h + 1 => h < n)
    BY <1>1, <2>1
  <2>3. w[i] = f[h] \/ (w[i] = f[h] \o a[h + 1] /\ h < n)
    BY <1>8, <2>1, <2>2
  <2>4. f[h] \in Seq(STRING) /\ (h < n => a[h + 1] \in Seq(STRING))
    BY <1>1, <1>7, <2>2
  <2> HIDE DEF w
  <2>5. h < n => f[h] \o a[h + 1] \in Seq(STRING)
    BY <2>4, ConcatProperties
  <2> QED
    BY <2>3, <2>4, <2>5
<1>11. ASSUME NEW i \in 0..(2 * n - 1)
       PROVE  w[i + 1] = w[i] \o WriteNo(c, i)
  <2>0. i \in Nat
    BY <1>1
  <2>1. PICK h \in Nat : i = 2 * h \/ i = 2 * h + 1
    BY <1>9, <2>0, Zenon
  <2>2. h \in 0..n /\ h < n /\ h + 1 \in 1..n /\ h + 1 \in 0..n
    BY <1>1, <2>1
  <2>3. CASE i = 2 * h
    <3>1. WriteNo(c, i) = a[h + 1]
      BY <1>8, <2>2, <2>3 DEF WriteNo, a
    <3>2. w[i] = f[h] /\ w[i + 1] = f[h] \o a[h + 1]
      BY <1>8, <2>2, <2>3
    <3> QED
      BY <3>1, <3>2, Zenon
  <2>4. CASE i = 2 * h + 1
    <3>1. WriteNo(c, i) = <<CR, LF>>
      BY <1>8, <2>2, <2>4 DEF WriteNo
    <3>2. w[i] = f[h] \o a[h + 1]
      BY <1>8, <2>2, <2>4
    <3>3. w[i + 1] = f[h + 1]
      <4>1. i + 1 = 2 * (h + 1)
        BY <2>4
      <4>2. w[2 * (h + 1)] = f[h + 1]
        BY <1>8, <2>2
      <4> QED
        BY <4>1, <4>2
    <3>4. f[h + 1] = f[h] \o (a[h + 1] \o <<CR, LF>>)
      <4>1. (h + 1) - 1 = h
        BY <2>2
      <4>2. f[h + 1] = f[(h + 1) - 1] \o ls[h + 1] /\ ls[h + 1] = a[h + 1] \o <<CR, LF>>
        BY <1>6, <1>7, <2>2, Zenon
      <4> QED
        BY <4>1, <4>2, Zenon
    <3>5. f[h] \in Seq(STRING) /\ a[h + 1] \in Seq(STRING)
      BY <1>1, <1>7, <2>2
    <3>6. (f[h] \o a[h + 1]) \o <<CR, LF>> = f[h] \o (a[h + 1] \o <<CR, LF>>)
      <4> DEFINE x == f[h]
                 y == a[h + 1]
                 z == <<CR, LF>>
      <4>1. x \in Seq(STRING) /\ y \in Seq(STRING) /\ z \in Seq(STRING)
        BY <1>2, <3>5
      <4> HIDE DEF x, y, z
      <4>2. (x \o y) \o z = x \o (y \o z)
        BY <4>1, ConcatAssociative
      <4> QED
        BY <4>2 DEF x, y, z
    <3> HIDE DEF w
    <3> QED
      BY <3>1, <3>2, <3>3, <3>4, <3>6
  <2> QED
    BY <2>1, <2>3, <2>4
<1>12. w[0] = <<>> /\ w[2 * n] = Text(c)
  <2>1. 0 \in 0..n /\ n \in 0..n /\ 2 * 0 = 0
    BY <1>1
  <2>2. w[2 * 0] = f[0] /\ w[2 * n] = f[n]
    BY <1>8, <2>1
  <2> HIDE DEF w
  <2> QED
    BY <1>7, <2>1, <2>2
<1>13. w \in [0..(2 * n) -> Seq(STRING)]
  BY <1>10
<1> HIDE DEF w
<1>14. Writes(c, w)
  BY <1>11, <1>12, <1>13 DEF Writes, n, a
<1> QED
  BY <1>14, Zenon DEF W

\* What has been sent is the beginning of the text.
LEMMA SentIsPrefix ==
    ASSUME NEW c \in Clients, NEW n \in 0..(2 * Len(Args[c]))
    PROVE  /\ W(c)[n] \in Seq(STRING) /\ Text(c) \in Seq(STRING)
           /\ Len(W(c)[n]) <= Len(Text(c))
           /\ \A x \in 1..Len(W(c)[n]) : W(c)[n][x] = Text(c)[x]
<1> DEFINE N == 2 * Len(Args[c])
           w == W(c)
           t == Text(c)
           Pre(i) == Len(w[i]) <= Len(t) /\ \A x \in 1..Len(w[i]) : w[i][x] = t[x]
<1>1. N \in Nat
  BY ArgsAssumption
<1>2. /\ w \in [0..N -> Seq(STRING)] /\ w[N] = t
      /\ \A i \in 0..(N - 1) : w[i + 1] = w[i] \o WriteNo(c, i)
  BY WritesAre DEF Writes
<1> HIDE DEF w, t, N
<1>3. t \in Seq(STRING) /\ Pre(N)
  BY <1>1, <1>2
<1>4. ASSUME NEW i \in 0..(N - 1), Pre(i + 1)
      PROVE  Pre(i)
  <2>1. WriteNo(c, i) \in Seq(STRING)
    <3>1. i % 2 = 0 => i \div 2 + 1 \in 1..Len(Args[c])
      BY ArgsAssumption, <1>1 DEF N
    <3>2. \A k \in 1..Len(Args[c]) : Args[c][k] \in Seq(STRING)
      BY ArgsAssumption
    <3>3. <<CR, LF>> \in Seq(STRING)
      BY ArgsAssumption
    <3> QED
      BY <3>1, <3>2, <3>3, Zenon DEF WriteNo
  <2>2. w[i] \in Seq(STRING) /\ w[i + 1] = w[i] \o WriteNo(c, i)
    BY <1>1, <1>2
  <2>3. /\ Len(w[i]) <= Len(w[i + 1])
        /\ \A x \in 1..Len(w[i]) : w[i + 1][x] = w[i][x]
    BY <2>1, <2>2, ConcatProperties
  <2>4. w[i + 1] \in Seq(STRING)
    BY <2>1, <2>2, ConcatProperties
  <2>5. /\ Len(w[i + 1]) <= Len(t) /\ \A x \in 1..Len(w[i + 1]) : w[i + 1][x] = t[x]
        /\ Len(t) \in Nat /\ Len(w[i]) \in Nat /\ Len(w[i + 1]) \in Nat
    BY <1>3, <1>4, <2>2, <2>4
  <2>6. Len(w[i]) <= Len(t)
    BY <2>3, <2>5
  <2>7. ASSUME NEW x \in 1..Len(w[i])
        PROVE  w[i][x] = t[x]
    <3>1. x \in 1..Len(w[i + 1])
      BY <2>3, <2>5
    <3> QED
      BY <2>3, <2>5, <3>1, Zenon
  <2> QED
    BY <2>6, <2>7
<1>5. \A i \in 0..N : Pre(i)
  <2> DEFINE T == {d \in 0..N : ~ Pre(N - d)}
  <2> SUFFICES ASSUME T # {}
               PROVE  FALSE
    <3>1. ASSUME T = {}, NEW i \in 0..N
          PROVE  Pre(i)
      <4>1. N - i \in 0..N /\ N - (N - i) = i
        BY <1>1
      <4> QED
        BY <3>1, <4>1
    <3> QED
      BY <3>1
  <2> HIDE DEF Pre
  <2>0. T \in SUBSET Nat
    BY <1>1
  <2>1. PICK d \in T : \A k \in T : d <= k
    BY <2>0, Least
  <2>2. d # 0
    <3>1. N - 0 = N
      BY <1>1
    <3> QED
      BY <1>3, <2>1, <3>1
  <2>3. d - 1 \in 0..N /\ d - 1 \notin T /\ N - d \in 0..(N - 1)
        /\ N - (d - 1) = (N - d) + 1
    BY <1>1, <2>1, <2>2
  <2>4. Pre((N - d) + 1)
    BY <2>3
  <2> QED
    BY <1>4, <2>1, <2>3, <2>4
<1> QED
  BY <1>2, <1>3, <1>5 DEF w, t, N

-----------------------------------------------------------------------------
(***************************************************************************)
(* Lines.                                                                  *)
(***************************************************************************)

\* The line that ends at the line feed behind place k begins behind the end before it.
LEMMA LineIs ==
    ASSUME NEW t, NEW k \in Nat, NEW b \in 0..k, IsEnd(t, k, b)
    PROVE  Line(t, k + 1) = SubSeq(t, b + 1, k)
<1> DEFINE P(x) == (x = 0 \/ t[x] = LF) /\ \A y \in (x + 1)..k : t[y] # LF
<1>1. P(b)
  BY DEF IsEnd
<1>2. ASSUME NEW x \in 0..k, P(x)
      PROVE  x = b
  <2>1. ~ (x < b)
    <3>1. x < b => b \in (x + 1)..k /\ b # 0
      OBVIOUS
    <3> QED
      BY <1>1, <1>2, <3>1
  <2>2. ~ (b < x)
    <3>1. b < x => x \in (b + 1)..k /\ x # 0
      OBVIOUS
    <3> QED
      BY <1>1, <1>2, <3>1
  <2> QED
    BY <2>1, <2>2
<1>3. (k + 1) - 1 = k
  OBVIOUS
<1> HIDE DEF P
<1>4. (CHOOSE x \in 0..k : P(x)) = b
  BY <1>1, <1>2
<1>5. EndBefore(t, k + 1) = b
  BY <1>3, <1>4 DEF EndBefore, P
<1> QED
  BY <1>3, <1>5 DEF Line

\* A character that is no line feed ends no line.
LEMMA OtherChar ==
    ASSUME NEW t, NEW k \in Nat, t[k + 1] # LF
    PROVE  /\ Answered(t, k + 1) = Answered(t, k)
           /\ \A b \in 0..k : IsEnd(t, k, b) => IsEnd(t, k + 1, b)
<1>1. \A e : e \in 1..(k + 1) <=> e \in 1..k \/ e = k + 1
  OBVIOUS
<1>2. Answered(t, k + 1) = Answered(t, k)
  BY <1>1 DEF Answered
<1>3. ASSUME NEW b \in 0..k, IsEnd(t, k, b)
      PROVE  IsEnd(t, k + 1, b)
  <2>1. b \in 0..(k + 1)
    OBVIOUS
  <2>2. ASSUME NEW x \in (b + 1)..(k + 1)
        PROVE  t[x] # LF
    <3>1. x \in (b + 1)..k \/ x = k + 1
      OBVIOUS
    <3> QED
      BY <1>3, <3>1 DEF IsEnd
  <2> QED
    BY <1>3, <2>1, <2>2 DEF IsEnd
<1> QED
  BY <1>2, <1>3

\* A line feed ends a line; it is answered unless it has exactly one character.
LEMMA LineFeed ==
    ASSUME NEW t, NEW k \in Nat, t[k + 1] = LF
    PROVE  /\ Answered(t, k + 1) = IF Len(Line(t, k + 1)) = 1 THEN Answered(t, k)
                                   ELSE Answered(t, k) \cup {k + 1}
           /\ k + 1 \notin Answered(t, k)
           /\ IsEnd(t, k + 1, k + 1)
<1>1. \A e : e \in 1..(k + 1) <=> e \in 1..k \/ e = k + 1
  OBVIOUS
<1>2. k + 1 \notin 1..k /\ k + 1 \in 0..(k + 1) /\ ((k + 1) + 1)..(k + 1) = {}
  OBVIOUS
<1>3. CASE Len(Line(t, k + 1)) = 1
  BY <1>1, <1>2, <1>3 DEF Answered, IsEnd
<1>4. CASE Len(Line(t, k + 1)) # 1
  BY <1>1, <1>2, <1>4 DEF Answered, IsEnd
<1> QED
  BY <1>3, <1>4

\* The lines answered are a finite set of places.
LEMMA AnsweredFinite ==
    ASSUME NEW t, NEW k \in Nat
    PROVE  /\ IsFiniteSet(Answered(t, k)) /\ Cardinality(Answered(t, k)) \in Nat
           /\ Answered(t, 0) = {} /\ Cardinality({}) = 0
<1>1. IsFiniteSet(1..k)
  BY FS_Interval
<1>2. Answered(t, k) \subseteq 1..k
  BY DEF Answered
<1>3. IsFiniteSet(Answered(t, k))
  BY <1>1, <1>2, FS_Subset
<1>4. Cardinality(Answered(t, k)) \in Nat
  BY <1>3, FS_CardinalityType
<1>5. 1..0 = {}
  OBVIOUS
<1>6. Answered(t, 0) = {}
  BY <1>5 DEF Answered
<1> QED
  BY <1>3, <1>4, <1>6, FS_EmptySet

-----------------------------------------------------------------------------
(***************************************************************************)
(* The invariant holds at first and is kept.                               *)
(***************************************************************************)

\* The places that the invariant speaks of lie in the text.
LEMMA Positions ==
    ASSUME SrvTypeOK, Streams, NEW c \in Clients
    PROVE  /\ Text(c) \in Seq(STRING) /\ Len(Text(c)) \in Nat
           /\ Upto(c) \in Nat /\ Upto(c) <= Len(Text(c))
           /\ Taken(c) \in Nat /\ Taken(c) <= Upto(c)
<1>1. sent[c] \in 0..(2 * Len(Args[c]))
  BY ArgsAssumption DEF SrvTypeOK
<1>2. /\ W(c)[sent[c]] \in Seq(STRING) /\ Text(c) \in Seq(STRING)
      /\ Len(W(c)[sent[c]]) <= Len(Text(c))
  BY <1>1, SentIsPrefix
<1>3. Upto(c) \in Nat /\ Upto(c) <= Len(Text(c)) /\ Len(Text(c)) \in Nat
  BY <1>2 DEF Upto
<1>4. inbox[c] \in Seq(STRING) /\ Len(inbox[c]) <= Upto(c)
  BY DEF SrvTypeOK, Streams
<1>5. Len(inbox[c]) \in Nat
  BY <1>4
<1>6. Taken(c) \in Nat /\ Taken(c) <= Upto(c)
  BY <1>3, <1>4, <1>5 DEF Taken
<1> QED
  BY <1>2, <1>3, <1>6

\* The invariant holds when the server starts.
LEMMA InitServer == SrvInit => SrvInv
<1> SUFFICES ASSUME SrvInit
             PROVE  SrvInv
  OBVIOUS
<1> USE DEF SrvInit
<1>1. SrvTypeOK
  <2>1. \A c \in Clients : Len(Args[c]) \in Nat
    BY ArgsAssumption
  <2>2. queue \in [{0, 1} -> Seq(Clients)] /\ ps \in Seq(STRING)
    BY EmptySeq
  <2>3. inbox \in [Clients -> Seq(STRING)] /\ reply \in [Clients -> Seq(Seq(STRING))]
    BY EmptySeq
  <2>4. sent \in [Clients -> Nat] /\ \A c \in Clients : sent[c] <= 2 * Len(Args[c])
    BY <2>1
  <2>5. conn \in [Clients -> {"new", "open", "closed", "reset", "served", "dropped"}]
    OBVIOUS
  <2>6. cli_len \in {"fits", "negative"}
    OBVIOUS
  <2> QED
    BY <2>2, <2>3, <2>4, <2>5, <2>6 DEF SrvTypeOK
<1>2. Turns
  BY DEF Turns, Waits
<1>3. ASSUME NEW c \in Clients
      PROVE  /\ Upto(c) = 0 /\ Len(inbox[c]) = 0 /\ Taken(c) = 0
             /\ inbox[c] = SubSeq(Text(c), 1, 0)
  <2>1. W(c)[0] = <<>>
    BY WritesAre DEF Writes
  <2>2. Upto(c) = 0
    BY <2>1 DEF Upto
  <2>3. Len(inbox[c]) = 0 /\ inbox[c] = <<>>
    OBVIOUS
  <2>4. SubSeq(Text(c), 1, 0) = <<>>
    BY SubSeqEmpty
  <2>5. Taken(c) = 0
    <3>1. 0 - 0 = 0
      OBVIOUS
    <3> QED
      BY <2>2, <2>3, <3>1, Zenon DEF Taken
  <2> QED
    BY <2>2, <2>3, <2>4, <2>5, Zenon
<1>4. Streams
  BY <1>3 DEF Streams
<1>5. InLine
  BY DEF InLine
<1>6. Counted
  <2>1. ASSUME NEW c \in Clients
        PROVE  Len(reply[c]) = Cardinality(Answered(Text(c), Taken(c)))
    <3>1. Answered(Text(c), 0) = {} /\ Cardinality({}) = 0
      BY AnsweredFinite
    <3>2. Len(reply[c]) = 0
      OBVIOUS
    <3> QED
      BY <1>3, <3>1, <3>2
  <2> QED
    BY <2>1 DEF Counted
<1>7. Own /\ Quits
  BY DEF Own, Quits
<1> QED
  BY <1>1, <1>2, <1>4, <1>5, <1>6, <1>7 DEF SrvInv

\* Steps of the server between two clients change nothing that the answers depend on.
LEMMA LookingKeeps ==
    ASSUME SrvInv,
           \/ server_setup \/ SelectReady \/ SelectTimeout \/ SelectFails
           \/ ReadError \/ UNCHANGED srvVars
    PROVE  SrvInv'
<1>1. UNCHANGED <<cur, ps, queue, conn, inbox, sent, reply>>
  BY DEF server_setup, SelectReady, SelectTimeout, SelectFails, ReadError,
         srvVars, cliVars, runVars
<1>2. SrvTypeOK'
  <2>1. CASE server_setup
    BY <2>1 DEF SrvInv, SrvTypeOK, server_setup, cliVars
  <2>2. CASE SelectReady
    BY <2>2 DEF SrvInv, SrvTypeOK, SelectReady, cliVars
  <2>3. CASE SelectTimeout
    <3>1. id' \in {0, 1}
      BY <2>3 DEF SrvInv, SrvTypeOK, SelectTimeout, OtherPort
    <3> QED
      BY <2>3, <3>1 DEF SrvInv, SrvTypeOK, SelectTimeout, cliVars
  <2>4. CASE SelectFails
    BY <2>4 DEF SrvInv, SrvTypeOK, SelectFails, cliVars
  <2>5. CASE ReadError
    BY <2>5 DEF SrvInv, SrvTypeOK, ReadError, cliVars
  <2>6. CASE UNCHANGED srvVars
    BY <2>6 DEF SrvInv, SrvTypeOK, srvVars
  <2> QED
    BY <2>1, <2>2, <2>3, <2>4, <2>5, <2>6
<1>3. \A c \in Clients : Upto(c)' = Upto(c) /\ Taken(c)' = Taken(c) /\ (Waits(c)' <=> Waits(c))
  BY <1>1 DEF Upto, Taken, Waits
<1>4. Turns'
  BY <1>1, <1>3 DEF SrvInv, Turns
<1>5. Streams'
  BY <1>1, <1>3 DEF SrvInv, Streams
<1>6. InLine'
  BY <1>1 DEF SrvInv, InLine, Taken, Upto
<1>7. Counted'
  BY <1>1, <1>3 DEF SrvInv, Counted
<1>8. Own' /\ Quits'
  BY <1>1 DEF SrvInv, Own, Quits
<1> QED
  BY <1>2, <1>4, <1>5, <1>6, <1>7, <1>8 DEF SrvInv

\* Taking the first connection from the queue of the port looked at leaves the others in
\* the queues, where nothing is said twice.
LEMMA DequeueKeeps ==
    ASSUME SrvInv, queue[id] # <<>>, queue' = [queue EXCEPT ![id] = Tail(queue[id])]
    PROVE  /\ queue' \in [{0, 1} -> Seq(Clients)]
           /\ Head(queue[id]) \in Clients /\ Waits(Head(queue[id]))
           /\ \A c \in Clients : Waits(c)' => Waits(c) /\ c # Head(queue[id])
           /\ \A p \in {0, 1} : \A i \in 1..Len(queue'[p]) : PortOf[queue'[p][i]] = p
           /\ \A p \in {0, 1} : \A i, j \in 1..Len(queue'[p]) :
                    queue'[p][i] = queue'[p][j] => i = j
<1> DEFINE d == Head(queue[id])
<1> USE DEF SrvInv
<1>1. /\ queue[id] \in Seq(Clients) /\ queue[id] # <<>> /\ id \in {0, 1}
      /\ queue \in [{0, 1} -> Seq(Clients)]
  BY DEF SrvTypeOK
<1>2. /\ d \in Clients /\ d = queue[id][1] /\ 1 \in 1..Len(queue[id]) /\ Waits(d)
  <2>1. d \in Clients /\ d = queue[id][1] /\ 1 \in 1..Len(queue[id])
    BY <1>1
  <2> QED
    BY <1>1, <2>1 DEF Waits
<1> HIDE DEF d
<1>3. /\ Tail(queue[id]) \in Seq(Clients) /\ Len(Tail(queue[id])) = Len(queue[id]) - 1
      /\ \A i \in 1..Len(Tail(queue[id])) : Tail(queue[id])[i] = queue[id][i + 1]
  BY <1>1, HeadTailProperties
<1>4. queue' \in [{0, 1} -> Seq(Clients)]
  BY <1>1, <1>3
<1>5. ASSUME NEW p \in {0, 1}, NEW i \in 1..Len(queue'[p])
      PROVE  \E k \in 1..Len(queue[p]) : /\ queue'[p][i] = queue[p][k]
                                         /\ k = (IF p = id THEN i + 1 ELSE i)
  <2>1. CASE p = id
    <3>1. queue'[p] = Tail(queue[id])
      BY <1>1, <2>1
    <3>2. i \in 1..Len(Tail(queue[id]))
      BY <3>1
    <3>3. Len(queue[id]) \in Nat
      BY <1>1
    <3>4. i + 1 \in 1..Len(queue[id])
      BY <1>3, <3>2, <3>3
    <3>5. queue'[p][i] = queue[id][i + 1]
      BY <1>3, <3>1, <3>2
    <3> QED
      BY <2>1, <3>4, <3>5
  <2>2. CASE p # id
    <3>1. queue'[p] = queue[p]
      BY <1>1, <2>2
    <3> QED
      BY <2>2, <3>1
  <2> QED
    BY <2>1, <2>2
<1>6. ASSUME NEW c \in Clients, Waits(c)'
      PROVE  Waits(c) /\ c # d
  <2>1. PICK p \in {0, 1} : \E i \in 1..Len(queue'[p]) : queue'[p][i] = c
    BY <1>6 DEF Waits
  <2>2. PICK i \in 1..Len(queue'[p]) : queue'[p][i] = c
    BY <2>1
  <2>3. PICK k \in 1..Len(queue[p]) : /\ queue'[p][i] = queue[p][k]
                                      /\ k = (IF p = id THEN i + 1 ELSE i)
    BY <1>5
  <2>4. Waits(c)
    BY <2>2, <2>3 DEF Waits
  <2>5. CASE p # id
    <3>1. PortOf[c] = p /\ PortOf[d] = id
      BY <1>1, <1>2, <2>2, <2>3 DEF Turns
    <3> QED
      BY <2>4, <2>5, <3>1
  <2>6. CASE p = id
    <3>1. k # 1
      BY <2>3, <2>6
    <3>2. c = d => k = 1
      <4>1. \A x, y \in 1..Len(queue[id]) : queue[id][x] = queue[id][y] => x = y
        BY <1>1 DEF Turns
      <4>2. k \in 1..Len(queue[id]) /\ queue[id][k] = c
        BY <2>2, <2>3, <2>6
      <4> QED
        BY <1>2, <4>1, <4>2, Zenon
    <3> QED
      BY <2>4, <3>1, <3>2
  <2> QED
    BY <2>5, <2>6
<1>7. ASSUME NEW p \in {0, 1}, NEW i \in 1..Len(queue'[p])
      PROVE  PortOf[queue'[p][i]] = p
  <2>1. PICK k \in 1..Len(queue[p]) : queue'[p][i] = queue[p][k]
    BY <1>5
  <2> QED
    BY <2>1 DEF Turns
<1>8. ASSUME NEW p \in {0, 1}, NEW i \in 1..Len(queue'[p]), NEW j \in 1..Len(queue'[p]),
             queue'[p][i] = queue'[p][j]
      PROVE  i = j
  <2>1. PICK k \in 1..Len(queue[p]) : /\ queue'[p][i] = queue[p][k]
                                      /\ k = (IF p = id THEN i + 1 ELSE i)
    BY <1>5
  <2>2. PICK l \in 1..Len(queue[p]) : /\ queue'[p][j] = queue[p][l]
                                      /\ l = (IF p = id THEN j + 1 ELSE j)
    BY <1>5
  <2>3. k = l
    BY <1>8, <2>1, <2>2 DEF Turns
  <2> QED
    BY <2>1, <2>2, <2>3
<1> QED
  BY <1>2, <1>4, <1>6, <1>7, <1>8 DEF d

\* Accept takes the first connection from its queue, nothing of which has been read.
LEMMA AcceptKeeps ==
    ASSUME SrvInv, Accept
    PROVE  SrvInv'
<1> DEFINE d == Head(queue[id])
<1> USE DEF SrvInv
<1>1. /\ queue[id] # <<>> /\ queue' = [queue EXCEPT ![id] = Tail(queue[id])]
      /\ cur' = d /\ ps' = <<>> /\ spc' = "read"
      /\ UNCHANGED <<id, conn, inbox, sent, reply, disturbed, cli_len>>
  BY DEF Accept
<1>2. /\ queue' \in [{0, 1} -> Seq(Clients)] /\ d \in Clients /\ Waits(d)
      /\ \A c \in Clients : Waits(c)' => Waits(c) /\ c # d
      /\ \A p \in {0, 1} : \A i \in 1..Len(queue'[p]) : PortOf[queue'[p][i]] = p
      /\ \A p \in {0, 1} : \A i, j \in 1..Len(queue'[p]) :
                queue'[p][i] = queue'[p][j] => i = j
  BY <1>1, DequeueKeeps
<1> HIDE DEF d
<1>3. d # NoClient
  BY <1>2, ClientsAssumption
<1>4. SrvTypeOK'
  <2>1. cur' \in Clients /\ cur' # NoClient
    BY <1>1, <1>2, <1>3
  <2>2. ps' \in Seq(STRING)
    BY <1>1
  <2> QED
    BY <1>1, <1>2, <2>1, <2>2 DEF SrvTypeOK
<1>5. Turns'
  <2>1. ASSUME NEW c \in Clients, Waits(c)'
        PROVE  c # cur' /\ conn'[c] \notin {"new", "served"}
    BY <1>1, <1>2, <2>1 DEF Turns
  <2>2. conn'[cur'] \notin {"new", "served"}
    BY <1>1, <1>2 DEF Turns
  <2> QED
    BY <1>2, <2>1, <2>2 DEF Turns
<1>6. \A c \in Clients : Upto(c)' = Upto(c) /\ Taken(c)' = Taken(c)
  BY <1>1 DEF Upto, Taken
<1>7. Streams'
  BY <1>1, <1>2, <1>6 DEF Streams
<1>8. InLine'
  <2>1. Taken(d) = 0
    BY <1>2 DEF Streams
  <2>2. IsEnd(Text(d), 0, 0)
    BY DEF IsEnd
  <2>3. SubSeq(Text(d), 0 + 1, 0) = <<>>
    BY SubSeqEmpty
  <2>4. Taken(cur)' = 0
    BY <1>1, <2>1 DEF Taken, Upto
  <2>5. /\ IsEnd(Text(cur'), Taken(cur)', 0) /\ 0 \in 0..Taken(cur)'
        /\ ps' = SubSeq(Text(cur'), 0 + 1, Taken(cur)')
    BY <1>1, <2>2, <2>3, <2>4
  <2> QED
    BY <2>5 DEF InLine, IsEnd
<1>9. Counted' /\ Own' /\ Quits'
  BY <1>1, <1>6 DEF Counted, Own, Quits
<1> QED
  BY <1>4, <1>5, <1>7, <1>8, <1>9

\* A connection that accept loses to its length is of a client nobody reads from.
LEMMA AcceptFailsKeeps ==
    ASSUME SrvInv, AcceptFails
    PROVE  SrvInv'
<1> DEFINE d == Head(queue[id])
<1> USE DEF SrvInv
<1>1. /\ queue[id] # <<>> /\ queue' = [queue EXCEPT ![id] = Tail(queue[id])]
      /\ conn' = [conn EXCEPT ![d] = "dropped"] /\ disturbed' = TRUE
      /\ UNCHANGED <<spc, id, cur, ps, inbox, sent, reply, cli_len>>
  BY DEF AcceptFails, runVars
<1>2. /\ queue' \in [{0, 1} -> Seq(Clients)] /\ d \in Clients /\ Waits(d)
      /\ \A c \in Clients : Waits(c)' => Waits(c) /\ c # d
      /\ \A p \in {0, 1} : \A i \in 1..Len(queue'[p]) : PortOf[queue'[p][i]] = p
      /\ \A p \in {0, 1} : \A i, j \in 1..Len(queue'[p]) :
                queue'[p][i] = queue'[p][j] => i = j
  BY <1>1, DequeueKeeps
<1> HIDE DEF d
<1>3. /\ conn' \in [Clients -> {"new", "open", "closed", "reset", "served", "dropped"}]
      /\ conn[d] \notin {"new", "served"}
      /\ \A x \in Clients : /\ conn'[x] = "new" <=> conn[x] = "new"
                            /\ conn'[x] = "served" <=> conn[x] = "served"
  BY <1>1, <1>2 DEF SrvTypeOK, Turns
<1>4. SrvTypeOK'
  BY <1>1, <1>2, <1>3 DEF SrvTypeOK
<1>5. \A x \in Clients : Upto(x)' = Upto(x) /\ Taken(x)' = Taken(x)
  BY <1>1 DEF Upto, Taken
<1>6. Turns'
  <2>1. cur # NoClient => cur \in Clients
    BY DEF SrvTypeOK
  <2> QED
    BY <1>1, <1>2, <1>3, <2>1 DEF Turns
<1>7. Streams'
  BY <1>1, <1>2, <1>3, <1>5 DEF Streams
<1>8. InLine'
  BY <1>1 DEF InLine, Taken, Upto
<1>9. Counted' /\ Own'
  BY <1>1, <1>5 DEF Counted, Own
<1>10. Quits'
  BY <1>1, <1>3 DEF Quits
<1> QED
  BY <1>4, <1>6, <1>7, <1>8, <1>9, <1>10

\* The character that the server reads is the next one of its client's text.
LEMMA NextChar ==
    ASSUME SrvInv, Arrived, Take, UNCHANGED sent
    PROVE  LET t == Text(cur)
               k == Taken(cur)
           IN  /\ cur \in Clients /\ cur # NoClient
               /\ k \in Nat /\ k + 1 <= Upto(cur) /\ Upto(cur) <= Len(t)
               /\ t \in Seq(STRING) /\ Head(inbox[cur]) = t[k + 1]
               /\ inbox' \in [Clients -> Seq(STRING)]
               /\ \A c \in Clients : /\ Upto(c)' = Upto(c)
                                     /\ Taken(c)' = IF c = cur THEN k + 1 ELSE Taken(c)
                                     /\ c # cur => inbox'[c] = inbox[c]
               /\ Len(inbox'[cur]) <= Upto(cur)
               /\ inbox'[cur] = SubSeq(t, (k + 1) + 1, Upto(cur))
<1> DEFINE t == Text(cur)
           k == Taken(cur)
           u == Upto(cur)
           b == inbox[cur]
<1> USE DEF SrvInv
<1>1. cur \in Clients /\ cur # NoClient
  BY DEF SrvTypeOK, Arrived
<1>2. /\ inbox \in [Clients -> Seq(STRING)] /\ b \in Seq(STRING) /\ b # <<>>
      /\ inbox' = [inbox EXCEPT ![cur] = Tail(b)]
  BY <1>1 DEF SrvTypeOK, Arrived, Take
<1>3. t \in Seq(STRING) /\ Len(t) \in Nat /\ u \in Nat /\ u <= Len(t) /\ k \in Nat /\ k <= u
  BY <1>1, Positions
<1>4. b = SubSeq(t, k + 1, u) /\ k = u - Len(b)
  BY <1>1 DEF Streams, Taken
<1>5. Len(b) \in Nat /\ Len(b) > 0
  BY <1>2
<1>6. \A c \in Clients : Upto(c)' = Upto(c)
  BY DEF Upto
<1>7. \A c \in Clients : inbox'[c] = IF c = cur THEN Tail(b) ELSE inbox[c]
  BY <1>1, <1>2
<1>8. Tail(b) \in Seq(STRING) /\ Len(Tail(b)) = Len(b) - 1
  BY <1>2, HeadTailProperties
<1>9. inbox' \in [Clients -> Seq(STRING)]
  BY <1>2, <1>8
<1>10. ASSUME NEW c \in Clients
       PROVE  Taken(c)' = IF c = cur THEN k + 1 ELSE Taken(c)
  <2>1. Taken(c)' = Upto(c) - Len(inbox'[c])
    BY <1>6 DEF Taken
  <2>2. CASE c = cur
    <3>1. Taken(c)' = u - (Len(b) - 1)
      BY <1>7, <1>8, <2>1, <2>2
    <3>2. u - (Len(b) - 1) = k + 1
      <4> HIDE DEF u, k, b
      <4> QED
        BY <1>3, <1>4, <1>5
    <3> QED
      BY <2>2, <3>1, <3>2, Zenon
  <2>3. CASE c # cur
    BY <1>7, <2>1, <2>3 DEF Taken
  <2> QED
    BY <2>2, <2>3
<1> HIDE DEF t, k, u, b
<1>11. k + 1 <= u /\ k + 1 \in 1..Len(t) /\ u \in (k + 1)..Len(t)
  BY <1>3, <1>4, <1>5
<1>12. Head(b) = t[k + 1] /\ Tail(b) = SubSeq(t, (k + 1) + 1, u)
  BY <1>3, <1>4, <1>11, HeadTailOfSubSeq
<1>13. Len(inbox'[cur]) <= u
  <2>1. inbox'[cur] = Tail(b)
    BY <1>1, <1>7
  <2>2. Len(b) - 1 <= u
    BY <1>3, <1>4, <1>5
  <2> QED
    BY <1>8, <2>1, <2>2
<1> QED
  BY <1>1, <1>3, <1>6, <1>7, <1>9, <1>10, <1>11, <1>12, <1>13 DEF t, k, u, b

\* The streams stay in order when the server reads a character.
LEMMA ReadingKeeps ==
    ASSUME SrvInv, Arrived, Take, UNCHANGED <<sent, queue>>,
           \A c \in Clients : c # cur => conn'[c] = conn[c],
           conn'[cur] # "new"
    PROVE  Streams'
<1> DEFINE t == Text(cur)
           k == Taken(cur)
           u == Upto(cur)
<1>1. /\ cur \in Clients
      /\ \A c \in Clients : /\ Upto(c)' = Upto(c)
                            /\ Taken(c)' = IF c = cur THEN k + 1 ELSE Taken(c)
                            /\ c # cur => inbox'[c] = inbox[c]
      /\ Len(inbox'[cur]) <= u
      /\ inbox'[cur] = SubSeq(t, (k + 1) + 1, u)
  BY NextChar
<1> HIDE DEF t, k, u
<1>2. \A c \in Clients : Waits(c)' <=> Waits(c)
  BY DEF Waits
<1>3. ~ Waits(cur)
  BY <1>1 DEF SrvInv, Turns
<1>4. ASSUME NEW c \in Clients
      PROVE  /\ Len(inbox'[c]) <= Upto(c)'
             /\ inbox'[c] = SubSeq(Text(c), Taken(c)' + 1, Upto(c)')
             /\ conn'[c] = "new" \/ Waits(c)' => Taken(c)' = 0
  <2>1. CASE c = cur
    <3>1. Upto(c)' = u /\ Taken(c)' = k + 1 /\ Text(c) = t
      BY <1>1, <2>1 DEF u, t
    <3> QED
      BY <1>1, <1>2, <1>3, <2>1, <3>1, Zenon
  <2>2. CASE c # cur
    <3>1. Upto(c)' = Upto(c) /\ Taken(c)' = Taken(c) /\ inbox'[c] = inbox[c]
      BY <1>1, <2>2
    <3>2. conn'[c] = conn[c] /\ (Waits(c)' <=> Waits(c))
      BY <1>2, <2>2
    <3> QED
      BY <3>1, <3>2 DEF SrvInv, Streams
  <2> QED
    BY <2>1, <2>2
<1> QED
  BY <1>4 DEF Streams

\* A character of a line is put behind what there is of the line.
LEMMA ReadCharKeeps ==
    ASSUME SrvInv, ReadChar
    PROVE  SrvInv'
<1> DEFINE t == Text(cur)
           k == Taken(cur)
<1>1. /\ Arrived /\ Take /\ Head(inbox[cur]) # LF
      /\ ps' = Append(ps, Head(inbox[cur]))
      /\ UNCHANGED <<spc, id, cur, queue, conn, sent, reply, disturbed, cli_len>>
  BY DEF ReadChar
<1>2. /\ cur \in Clients /\ cur # NoClient
      /\ k \in Nat /\ k + 1 <= Upto(cur) /\ Upto(cur) <= Len(t)
      /\ t \in Seq(STRING) /\ Head(inbox[cur]) = t[k + 1]
      /\ inbox' \in [Clients -> Seq(STRING)]
      /\ \A c \in Clients : /\ Upto(c)' = Upto(c)
                            /\ Taken(c)' = IF c = cur THEN k + 1 ELSE Taken(c)
  BY <1>1, NextChar
<1>3. Upto(cur) \in Nat
  BY <1>2, Positions DEF SrvInv
<1> HIDE DEF t, k
<1>4. k + 1 \in 1..Len(t) /\ t[k + 1] \in STRING /\ t[k + 1] # LF
  BY <1>1, <1>2, <1>3
<1>5. ps' \in Seq(STRING)
  BY <1>1, <1>2, <1>4, AppendProperties DEF SrvInv, SrvTypeOK
<1>6. SrvTypeOK'
  BY <1>1, <1>2, <1>5 DEF SrvInv, SrvTypeOK
<1>7. Turns'
  BY <1>1 DEF SrvInv, Turns, Waits
<1>8. conn[cur] # "new"
  BY <1>2 DEF SrvInv, Turns
<1>9. Streams'
  BY <1>1, <1>8, ReadingKeeps
<1>10. /\ Answered(t, k + 1) = Answered(t, k)
       /\ \A b \in 0..k : IsEnd(t, k, b) => IsEnd(t, k + 1, b)
  BY <1>2, <1>4, OtherChar
<1>11. Taken(cur)' = k + 1 /\ Text(cur') = t
  BY <1>1, <1>2 DEF t, Taken, Upto
<1>12. InLine'
  <2>1. PICK b \in 0..k : IsEnd(t, k, b) /\ ps = SubSeq(t, b + 1, k)
    BY <1>2 DEF SrvInv, InLine, t, k
  <2>2. b \in 0..(k + 1) /\ IsEnd(t, k + 1, b)
    BY <1>2, <1>10, <2>1
  <2>3. SubSeq(t, b + 1, k + 1) = Append(SubSeq(t, b + 1, k), t[k + 1])
    <3>1. b + 1 \in 1..Len(t) /\ k + 1 \in (b + 1)..Len(t) /\ (k + 1) - 1 = k
      BY <1>2, <1>4, <2>1
    <3>2. SubSeq(t, b + 1, k + 1) = SubSeq(t, b + 1, (k + 1) - 1) \o <<t[k + 1]>>
      BY <1>2, <3>1, SubSeqRecursiveSecond
    <3>3. SubSeq(t, b + 1, k) \in Seq(STRING)
      BY <2>1 DEF SrvInv, SrvTypeOK
    <3>4. Append(SubSeq(t, b + 1, k), t[k + 1]) = SubSeq(t, b + 1, k) \o <<t[k + 1]>>
      BY <1>4, <3>3, AppendIsConcat
    <3> QED
      BY <3>1, <3>2, <3>4
  <2>4. ps' = SubSeq(t, b + 1, k + 1)
    BY <1>1, <1>2, <2>1, <2>3
  <2>5. \E x \in 0..Taken(cur)' : /\ IsEnd(Text(cur'), Taken(cur)', x)
                                  /\ ps' = SubSeq(Text(cur'), x + 1, Taken(cur)')
    BY <1>11, <2>2, <2>4
  <2> QED
    BY <2>5 DEF InLine, IsEnd
<1>13. Counted'
  <2>1. ASSUME NEW c \in Clients
        PROVE  Len(reply'[c]) = Cardinality(Answered(Text(c), Taken(c)'))
    <3>1. Answered(Text(c), Taken(c)') = Answered(Text(c), Taken(c))
      BY <1>2, <1>10 DEF t, k
    <3> QED
      BY <1>1, <3>1 DEF SrvInv, Counted
  <2> QED
    BY <2>1 DEF Counted
<1>14. Own' /\ Quits'
  BY <1>1 DEF SrvInv, Own, Quits
<1> QED
  BY <1>6, <1>7, <1>9, <1>12, <1>13, <1>14 DEF SrvInv

\* A line is answered, unless it has only its carriage return; after quit it is the last.
LEMMA ReadLineKeeps ==
    ASSUME SrvInv, ReadLine
    PROVE  SrvInv'
<1> DEFINE t == Text(cur)
           k == Taken(cur)
           len == Len(ps) - 1
           text == SubSeq(ps, 1, len)
           over == len # 0 /\ text = Quit
<1>1. /\ Arrived /\ Take /\ Head(inbox[cur]) = LF
      /\ reply' = IF len = 0 THEN reply ELSE [reply EXCEPT ![cur] = Append(@, text)]
      /\ ps' = <<>>
      /\ spc' \in {"select", "read", "exit"} /\ (spc' = "read" => ~over)
      /\ cur' = IF over THEN NoClient ELSE cur
      /\ \/ conn' = IF over THEN [conn EXCEPT ![cur] = "served"] ELSE conn
         \/ ~over /\ conn' = [conn EXCEPT ![cur] = "reset"]
      /\ UNCHANGED <<id, queue, sent, disturbed, cli_len>>
  BY DEF ReadLine, LastDropped
<1>2. /\ cur \in Clients /\ cur # NoClient
      /\ k \in Nat /\ k + 1 <= Upto(cur) /\ Upto(cur) <= Len(t)
      /\ t \in Seq(STRING) /\ Head(inbox[cur]) = t[k + 1]
      /\ inbox' \in [Clients -> Seq(STRING)]
      /\ \A c \in Clients : /\ Upto(c)' = Upto(c)
                            /\ Taken(c)' = IF c = cur THEN k + 1 ELSE Taken(c)
  BY <1>1, NextChar
<1>3. Upto(cur) \in Nat /\ Len(t) \in Nat
  BY <1>2, Positions DEF SrvInv
<1>4. ps \in Seq(STRING) /\ Len(ps) \in Nat /\ len \in Int
  BY DEF SrvInv, SrvTypeOK
<1>5. text \in Seq(STRING)
  BY <1>4, SubSeqProperties
<1>6. /\ conn \in [Clients -> {"new", "open", "closed", "reset", "served", "dropped"}]
      /\ reply \in [Clients -> Seq(Seq(STRING))]
      /\ conn[cur] \notin {"new", "served"}
  BY <1>2 DEF SrvInv, SrvTypeOK, Turns
<1> HIDE DEF t, k, len, text, over
<1>7. /\ conn' \in [Clients -> {"new", "open", "closed", "reset", "served", "dropped"}]
      /\ \A c \in Clients : c # cur => conn'[c] = conn[c]
      /\ conn'[cur] # "new" /\ (conn'[cur] = "served" <=> over)
  <2>1. CASE conn' = IF over THEN [conn EXCEPT ![cur] = "served"] ELSE conn
    BY <1>2, <1>6, <2>1
  <2>2. CASE ~over /\ conn' = [conn EXCEPT ![cur] = "reset"]
    BY <1>2, <1>6, <2>2
  <2> QED
    BY <1>1, <2>1, <2>2
<1>8. /\ reply' \in [Clients -> Seq(Seq(STRING))]
      /\ \A c \in Clients : c # cur => reply'[c] = reply[c]
      /\ reply'[cur] = IF len = 0 THEN reply[cur] ELSE Append(reply[cur], text)
  <2>1. Append(reply[cur], text) \in Seq(Seq(STRING))
    BY <1>2, <1>5, <1>6, AppendProperties
  <2>2. CASE len = 0
    BY <1>1, <1>6, <2>2
  <2>3. CASE len # 0
    BY <1>1, <1>2, <1>6, <2>1, <2>3
  <2> QED
    BY <2>2, <2>3
<1>9. cur' \in Clients \cup {NoClient} /\ (spc' = "read" => cur' # NoClient)
  BY <1>1, <1>2
<1>10. SrvTypeOK'
  BY <1>1, <1>2, <1>7, <1>8, <1>9 DEF SrvInv, SrvTypeOK
<1>11. \A c \in Clients : Waits(c)' <=> Waits(c)
  BY <1>1 DEF Waits
<1>12. Turns'
  <2>1. ASSUME NEW c \in Clients, Waits(c)'
        PROVE  c # cur' /\ conn'[c] \notin {"new", "served"}
    <3>1. Waits(c) /\ c # cur /\ conn[c] \notin {"new", "served"}
      BY <1>11, <2>1 DEF SrvInv, Turns
    <3>2. c # NoClient
      BY ClientsAssumption
    <3> QED
      BY <1>1, <1>7, <3>1, <3>2
  <2>2. cur' # NoClient => conn'[cur'] \notin {"new", "served"}
    BY <1>1, <1>7
  <2> QED
    BY <1>1, <2>1, <2>2 DEF SrvInv, Turns
<1>13. Streams'
  BY <1>1, <1>7, ReadingKeeps
<1>14. t[k + 1] = LF
  BY <1>1, <1>2
<1>15. /\ Answered(t, k + 1) = IF Len(Line(t, k + 1)) = 1 THEN Answered(t, k)
                               ELSE Answered(t, k) \cup {k + 1}
       /\ k + 1 \notin Answered(t, k) /\ IsEnd(t, k + 1, k + 1)
  BY <1>2, <1>14, LineFeed
<1>16. Line(t, k + 1) = ps
  <2>1. PICK b \in 0..k : IsEnd(t, k, b) /\ ps = SubSeq(t, b + 1, k)
    BY <1>2 DEF SrvInv, InLine, t, k
  <2> QED
    BY <1>2, <2>1, LineIs
<1>17. Answer(t, k + 1) = text
  BY <1>16 DEF Answer, text, len
<1>18. len = 0 <=> Len(Line(t, k + 1)) = 1
  BY <1>4, <1>16 DEF len
<1>19. InLine'
  <2>1. CASE over
    BY <1>1, <2>1 DEF InLine
  <2>2. CASE ~over
    <3>1. cur' = cur /\ Taken(cur)' = k + 1 /\ Text(cur') = t
      BY <1>1, <1>2, <2>2 DEF t, Taken, Upto
    <3>2. SubSeq(t, (k + 1) + 1, k + 1) = <<>>
      BY <1>2, SubSeqEmpty
    <3>3. k + 1 \in 0..(k + 1)
      BY <1>2
    <3>4. \E x \in 0..Taken(cur)' : /\ IsEnd(Text(cur'), Taken(cur)', x)
                                    /\ ps' = SubSeq(Text(cur'), x + 1, Taken(cur)')
      BY <1>1, <1>15, <3>1, <3>2, <3>3
    <3> QED
      BY <3>4 DEF InLine, IsEnd
  <2> QED
    BY <2>1, <2>2
<1>20. /\ IsFiniteSet(Answered(t, k)) /\ Cardinality(Answered(t, k)) \in Nat
       /\ Len(reply[cur]) = Cardinality(Answered(t, k))
  BY <1>2, AnsweredFinite DEF SrvInv, Counted, t, k
<1>21. len # 0 => Cardinality(Answered(t, k + 1)) = Len(reply[cur]) + 1
  <2>1. Cardinality(Answered(t, k) \cup {k + 1}) = Cardinality(Answered(t, k)) + 1
    BY <1>15, <1>20, FS_AddElement
  <2> QED
    BY <1>15, <1>18, <1>20, <2>1
<1>22. Len(reply'[cur]) = IF len = 0 THEN Len(reply[cur]) ELSE Len(reply[cur]) + 1
  BY <1>2, <1>5, <1>6, <1>8, AppendProperties
<1>23. Counted'
  <2>1. ASSUME NEW c \in Clients
        PROVE  Len(reply'[c]) = Cardinality(Answered(Text(c), Taken(c)'))
    <3>1. CASE c # cur
      BY <1>2, <1>8, <3>1 DEF SrvInv, Counted
    <3>2. CASE c = cur
      <4>1. Text(c) = t /\ Taken(c)' = k + 1
        BY <1>2, <3>2 DEF t
      <4>2. Len(reply'[cur]) = Cardinality(Answered(t, k + 1))
        BY <1>15, <1>18, <1>20, <1>21, <1>22
      <4> QED
        BY <3>2, <4>1, <4>2
    <3> QED
      BY <3>1, <3>2
  <2> QED
    BY <2>1 DEF Counted
<1>24. ASSUME NEW i \in 1..Len(reply'[cur])
       PROVE  /\ i \in 1..Len(reply[cur]) => reply'[cur][i] = reply[cur][i]
              /\ i \notin 1..Len(reply[cur]) =>
                   len # 0 /\ i = Len(reply[cur]) + 1 /\ reply'[cur][i] = text
  <2>1. reply[cur] \in Seq(Seq(STRING)) /\ Len(reply[cur]) \in Nat
    BY <1>2, <1>6
  <2>2. CASE len = 0
    BY <1>8, <2>2
  <2>3. CASE len # 0
    <3>1. reply'[cur] = Append(reply[cur], text)
      BY <1>8, <2>3
    <3>2. i \in 1..(Len(reply[cur]) + 1)
      BY <1>22, <2>3
    <3>3. /\ \A x \in 1..Len(reply[cur]) : Append(reply[cur], text)[x] = reply[cur][x]
          /\ Append(reply[cur], text)[Len(reply[cur]) + 1] = text
      BY <1>5, <2>1, AppendProperties
    <3> QED
      BY <2>1, <2>3, <3>1, <3>2, <3>3
  <2> QED
    BY <2>2, <2>3
<1>25. Own'
  <2>1. ASSUME NEW c \in Clients, NEW i \in 1..Len(reply'[c])
        PROVE  \E e \in Answered(Text(c), Len(Text(c))) :
                 /\ Cardinality(Answered(Text(c), e)) = i
                 /\ reply'[c][i] = Answer(Text(c), e)
    <3>1. CASE c # cur
      BY <1>8, <3>1 DEF SrvInv, Own
    <3>2. CASE c = cur /\ i \in 1..Len(reply[cur])
      BY <1>24, <3>2 DEF SrvInv, Own
    <3>3. CASE c = cur /\ i \notin 1..Len(reply[cur])
      <4>1. len # 0 /\ i = Len(reply[cur]) + 1 /\ reply'[cur][i] = text
        BY <1>24, <3>3
      <4>2. k + 1 \in Answered(t, Len(t))
        BY <1>2, <1>3, <1>14, <1>18, <4>1 DEF Answered
      <4> QED
        BY <1>17, <1>21, <3>3, <4>1, <4>2 DEF t
    <3> QED
      BY <3>1, <3>2, <3>3
  <2> QED
    BY <2>1 DEF Own
<1>26. Quits'
  <2>1. ASSUME NEW c \in Clients
        PROVE  /\ \A i \in 1..Len(reply'[c]) :
                    reply'[c][i] = Quit <=> conn'[c] = "served" /\ i = Len(reply'[c])
               /\ conn'[c] = "served" => Len(reply'[c]) > 0
    <3>1. CASE c # cur
      <4>1. reply'[c] = reply[c] /\ conn'[c] = conn[c]
        BY <1>7, <1>8, <3>1
      <4>2. /\ \A i \in 1..Len(reply[c]) :
                    reply[c][i] = Quit <=> conn[c] = "served" /\ i = Len(reply[c])
            /\ conn[c] = "served" => Len(reply[c]) > 0
        BY DEF SrvInv, Quits
      <4> QED
        BY <4>1, <4>2, Zenon
    <3>2. CASE c = cur
      <4>1. \A i \in 1..Len(reply[cur]) : reply[cur][i] # Quit
        BY <1>2, <1>6 DEF SrvInv, Quits
      <4>2. Len(reply[cur]) \in Nat
        BY <1>2, <1>6
      <4>3. ASSUME NEW i \in 1..Len(reply'[cur])
            PROVE  reply'[cur][i] = Quit <=> conn'[cur] = "served" /\ i = Len(reply'[cur])
        <5>1. CASE i \in 1..Len(reply[cur])
          <6>1. reply'[cur][i] # Quit
            BY <1>24, <4>1, <5>1
          <6>2. over => i # Len(reply'[cur])
            BY <1>22, <4>2, <5>1 DEF over
          <6> QED
            BY <1>7, <6>1, <6>2
        <5>2. CASE i \notin 1..Len(reply[cur])
          <6>1. len # 0 /\ i = Len(reply[cur]) + 1 /\ reply'[cur][i] = text
            BY <1>24, <5>2
          <6>2. i = Len(reply'[cur])
            BY <1>22, <6>1
          <6> QED
            BY <1>7, <6>1, <6>2 DEF over
        <5> QED
          BY <5>1, <5>2
      <4>4. over => Len(reply'[cur]) > 0
        BY <1>22, <4>2 DEF over
      <4> QED
        BY <1>7, <3>2, <4>3, <4>4
    <3> QED
      BY <3>1, <3>2
  <2> QED
    BY <2>1 DEF Quits
<1> QED
  BY <1>10, <1>12, <1>13, <1>19, <1>23, <1>25, <1>26 DEF SrvInv

\* A client that connects is put at the end of its port's queue, with nothing sent.
LEMMA ConnectKeeps ==
    ASSUME SrvInv, NEW c \in Clients, Connect(c)
    PROVE  SrvInv'
<1> DEFINE q == PortOf[c]
<1>1. /\ conn[c] = "new" /\ conn' = [conn EXCEPT ![c] = "open"]
      /\ queue' = [queue EXCEPT ![q] = Append(@, c)]
      /\ UNCHANGED <<spc, id, cur, ps, inbox, sent, reply, disturbed, cli_len>>
  BY DEF Connect, runVars
<1>2. q \in {0, 1}
  BY ClientsAssumption
<1>3. /\ conn \in [Clients -> {"new", "open", "closed", "reset", "served", "dropped"}]
      /\ queue \in [{0, 1} -> Seq(Clients)] /\ queue[q] \in Seq(Clients)
  BY <1>2 DEF SrvInv, SrvTypeOK
<1> HIDE DEF q
<1>4. /\ Append(queue[q], c) \in Seq(Clients)
      /\ Len(Append(queue[q], c)) = Len(queue[q]) + 1 /\ Len(queue[q]) \in Nat
      /\ \A i \in 1..Len(queue[q]) : Append(queue[q], c)[i] = queue[q][i]
      /\ Append(queue[q], c)[Len(queue[q]) + 1] = c
  BY <1>3, AppendProperties
<1>5. /\ conn' \in [Clients -> {"new", "open", "closed", "reset", "served", "dropped"}]
      /\ conn'[c] = "open" /\ \A x \in Clients : x # c => conn'[x] = conn[x]
  BY <1>1, <1>3
<1>6. queue' \in [{0, 1} -> Seq(Clients)]
  BY <1>1, <1>2, <1>3, <1>4
<1>7. SrvTypeOK'
  BY <1>1, <1>5, <1>6 DEF SrvInv, SrvTypeOK
<1>8. ASSUME NEW p \in {0, 1}, NEW i \in 1..Len(queue'[p])
      PROVE  \/ i \in 1..Len(queue[p]) /\ queue'[p][i] = queue[p][i]
             \/ p = q /\ i = Len(queue[q]) + 1 /\ queue'[p][i] = c
  <2>1. CASE p = q
    <3>1. queue'[p] = Append(queue[q], c)
      BY <1>1, <1>2, <1>3, <2>1
    <3>2. i \in 1..(Len(queue[q]) + 1)
      BY <1>4, <3>1
    <3> QED
      BY <1>4, <2>1, <3>1, <3>2
  <2>2. CASE p # q
    <3>1. queue'[p] = queue[p]
      BY <1>1, <1>3, <2>2
    <3> QED
      BY <3>1
  <2> QED
    BY <2>1, <2>2
<1>9. ASSUME NEW x \in Clients, Waits(x)'
      PROVE  Waits(x) \/ x = c
  <2>1. PICK p \in {0, 1} : \E i \in 1..Len(queue'[p]) : queue'[p][i] = x
    BY <1>9 DEF Waits
  <2>2. PICK i \in 1..Len(queue'[p]) : queue'[p][i] = x
    BY <2>1
  <2>3. \/ i \in 1..Len(queue[p]) /\ queue'[p][i] = queue[p][i]
        \/ queue'[p][i] = c
    BY <1>8
  <2> QED
    BY <2>2, <2>3 DEF Waits
<1>10. ~ Waits(c) /\ c # cur
  <2>1. c # NoClient
    BY ClientsAssumption
  <2> QED
    BY <1>1, <2>1 DEF SrvInv, Turns
<1>11. \A p \in {0, 1} : \A i \in 1..Len(queue[p]) : queue[p][i] # c
  BY <1>10 DEF Waits
<1>12. Turns'
  <2>1. ASSUME NEW p \in {0, 1}, NEW i \in 1..Len(queue'[p])
        PROVE  PortOf[queue'[p][i]] = p
    <3>1. CASE i \in 1..Len(queue[p]) /\ queue'[p][i] = queue[p][i]
      BY <3>1 DEF SrvInv, Turns
    <3>2. CASE p = q /\ queue'[p][i] = c
      BY <3>2 DEF q
    <3> QED
      BY <1>8, <3>1, <3>2
  <2>2. ASSUME NEW p \in {0, 1}, NEW i \in 1..Len(queue'[p]), NEW j \in 1..Len(queue'[p]),
               queue'[p][i] = queue'[p][j]
        PROVE  i = j
    <3>1. \/ i \in 1..Len(queue[p]) /\ queue'[p][i] = queue[p][i]
          \/ i = Len(queue[q]) + 1 /\ queue'[p][i] = c
      BY <1>8
    <3>2. \/ j \in 1..Len(queue[p]) /\ queue'[p][j] = queue[p][j]
          \/ j = Len(queue[q]) + 1 /\ queue'[p][j] = c
      BY <1>8
    <3>3. \A x, y \in 1..Len(queue[p]) : queue[p][x] = queue[p][y] => x = y
      BY DEF SrvInv, Turns
    <3>4. \A x \in 1..Len(queue[p]) : queue[p][x] # c
      BY <1>11
    <3> QED
      BY <2>2, <3>1, <3>2, <3>3, <3>4, Zenon
  <2>3. ASSUME NEW x \in Clients, Waits(x)'
        PROVE  x # cur' /\ conn'[x] \notin {"new", "served"}
    <3>1. CASE x = c
      BY <1>1, <1>5, <1>10, <3>1
    <3>2. CASE x # c
      BY <1>1, <1>5, <1>9, <2>3, <3>2 DEF SrvInv, Turns
    <3> QED
      BY <3>1, <3>2
  <2>4. cur' # NoClient => conn'[cur'] \notin {"new", "served"}
    BY <1>1, <1>5, <1>10 DEF SrvInv, Turns, SrvTypeOK
  <2> QED
    BY <2>1, <2>2, <2>3, <2>4 DEF Turns
<1>13. \A x \in Clients : Upto(x)' = Upto(x) /\ Taken(x)' = Taken(x)
  BY <1>1 DEF Upto, Taken
<1>14. Streams'
  <2>1. ASSUME NEW x \in Clients, conn'[x] = "new" \/ Waits(x)'
        PROVE  Taken(x) = 0
    <3>1. CASE x = c
      BY <1>1, <3>1 DEF SrvInv, Streams
    <3>2. CASE x # c
      BY <1>5, <1>9, <2>1, <3>2 DEF SrvInv, Streams
    <3> QED
      BY <3>1, <3>2
  <2> QED
    BY <1>1, <1>13, <2>1 DEF SrvInv, Streams
<1>15. InLine'
  BY <1>1 DEF SrvInv, InLine, Taken, Upto
<1>16. Counted' /\ Own'
  BY <1>1, <1>13 DEF SrvInv, Counted, Own
<1>17. Quits'
  <2>1. \A x \in Clients : conn'[x] = "served" <=> conn[x] = "served"
    BY <1>1, <1>5
  <2> QED
    BY <1>1, <2>1 DEF SrvInv, Quits
<1> QED
  BY <1>7, <1>12, <1>14, <1>15, <1>16, <1>17 DEF SrvInv

\* A write appends the next piece of the client's text to what the server has not read.
LEMMA SendKeeps ==
    ASSUME SrvInv, NEW c \in Clients, send_message(c)
    PROVE  SrvInv'
<1> DEFINE n == sent[c]
           t == Text(c)
           k == Taken(c)
           u == Upto(c)
           v == Len(W(c)[n + 1])
<1>1. /\ n < 2 * Len(Args[c])
      /\ inbox' = [inbox EXCEPT ![c] = @ \o WriteNo(c, n)]
      /\ sent' = [sent EXCEPT ![c] = @ + 1]
      /\ UNCHANGED <<spc, id, cur, ps, queue, conn, reply, disturbed, cli_len>>
  BY DEF send_message, Written, WriteNo, runVars
<1>2. /\ inbox \in [Clients -> Seq(STRING)] /\ sent \in [Clients -> Nat]
      /\ inbox[c] \in Seq(STRING) /\ n \in Nat /\ Len(Args[c]) \in Nat
  BY ArgsAssumption DEF SrvInv, SrvTypeOK
<1>3. n \in 0..(2 * Len(Args[c]) - 1) /\ n \in 0..(2 * Len(Args[c]))
      /\ n + 1 \in 0..(2 * Len(Args[c]))
  BY <1>1, <1>2
<1>4. W(c)[n + 1] = W(c)[n] \o WriteNo(c, n)
  BY <1>3, WritesAre DEF Writes
<1>5. /\ W(c)[n] \in Seq(STRING) /\ W(c)[n + 1] \in Seq(STRING)
      /\ t \in Seq(STRING) /\ v <= Len(t) /\ v \in Nat /\ Len(t) \in Nat
      /\ \A x \in 1..v : W(c)[n + 1][x] = t[x]
  <2> HIDE DEF n
  <2>1. W(c)[n] \in Seq(STRING)
    BY <1>3, SentIsPrefix
  <2>2. /\ W(c)[n + 1] \in Seq(STRING) /\ t \in Seq(STRING) /\ v <= Len(t)
        /\ \A x \in 1..v : W(c)[n + 1][x] = t[x]
    <3> DEFINE m == n + 1
    <3>1. m \in 0..(2 * Len(Args[c]))
      BY <1>3
    <3> HIDE DEF m
    <3>2. /\ W(c)[m] \in Seq(STRING) /\ Text(c) \in Seq(STRING)
          /\ Len(W(c)[m]) <= Len(Text(c))
          /\ \A x \in 1..Len(W(c)[m]) : W(c)[m][x] = Text(c)[x]
      BY <3>1, SentIsPrefix
    <3> QED
      BY <3>2 DEF m
  <2>3. v \in Nat /\ Len(t) \in Nat
    BY <2>2
  <2> QED
    BY <2>1, <2>2, <2>3
<1>6. /\ u = Len(W(c)[n]) /\ u \in Nat /\ k \in Nat /\ k <= u
      /\ inbox[c] = SubSeq(t, k + 1, u) /\ k = u - Len(inbox[c])
  BY Positions DEF SrvInv, Streams, Upto, Taken
<1>7. WriteNo(c, n) \in Seq(STRING)
  <2>1. n % 2 = 0 => n \div 2 + 1 \in 1..Len(Args[c])
    BY <1>1, <1>2
  <2>2. \A x \in 1..Len(Args[c]) : Args[c][x] \in Seq(STRING)
    BY ArgsAssumption
  <2>3. <<CR, LF>> \in Seq(STRING)
    BY ArgsAssumption
  <2> QED
    BY <2>1, <2>2, <2>3, Zenon DEF WriteNo
<1> HIDE DEF n, t, k, u, v
<1>8. v = u + Len(WriteNo(c, n)) /\ Len(WriteNo(c, n)) \in Nat
  BY <1>4, <1>5, <1>6, <1>7, ConcatProperties DEF v
<1> DEFINE ni == Len(inbox[c])
           nw == Len(WriteNo(c, n))
<1>8a. /\ u \in Nat /\ v \in Nat /\ k \in Nat /\ ni \in Nat /\ nw \in Nat /\ Len(t) \in Nat
      /\ v = u + nw /\ k = u - ni /\ k <= u /\ v <= Len(t)
  <2>1. ni \in Nat
    BY <1>2
  <2> QED
    BY <1>5, <1>6, <1>8, <2>1
<1> HIDE DEF ni, nw
<1>9. WriteNo(c, n) = SubSeq(t, u + 1, v)
  <2> DEFINE a == WriteNo(c, n)
             b == SubSeq(t, u + 1, v)
  <2>0. u + 1 \in Int /\ v \in Int
    BY <1>8a
  <2>1. \A i \in (u + 1)..v : t[i] \in STRING
    BY <1>5, <1>8a
  <2>2. /\ b \in Seq(STRING) /\ Len(b) = (IF u + 1 <= v THEN v - (u + 1) + 1 ELSE 0)
        /\ \A i \in 1..(v - (u + 1) + 1) : b[i] = t[(u + 1) + i - 1]
    <3> DEFINE m == u + 1
    <3>1. m \in Int /\ \A i \in m..v : t[i] \in STRING
      BY <2>0, <2>1
    <3> HIDE DEF m, b
    <3>2. /\ SubSeq(t, m, v) \in Seq(STRING)
          /\ Len(SubSeq(t, m, v)) = (IF m <= v THEN v - m + 1 ELSE 0)
          /\ \A i \in 1..(v - m + 1) : SubSeq(t, m, v)[i] = t[m + i - 1]
      BY <2>0, <3>1, SubSeqProperties
    <3> QED
      BY <3>2 DEF b, m
  <2>3. Len(b) = Len(a) /\ Len(a) = v - (u + 1) + 1
    BY <1>8a, <2>2 DEF nw
  <2>4. ASSUME NEW i \in 1..Len(a)
        PROVE  a[i] = b[i]
    <3>1. u + i \in 1..v /\ u + i \in 1..(Len(W(c)[n]) + Len(a)) /\ ~ (u + i <= u)
          /\ (u + i) - u = i /\ (u + 1) + i - 1 = u + i
      BY <1>6, <1>8
    <3>2. (W(c)[n] \o a)[u + i] = a[i]
      BY <1>5, <1>6, <1>7, <3>1, ConcatProperties
    <3>3. W(c)[n + 1][u + i] = t[u + i]
      BY <1>5, <3>1
    <3>4. b[i] = t[u + i]
      BY <2>2, <2>3, <3>1
    <3> QED
      BY <1>4, <3>2, <3>3, <3>4
  <2>5. a \in Seq(STRING)
    BY <1>7
  <2> HIDE DEF a, b
  <2>6. a = b
    BY <2>2, <2>3, <2>4, <2>5, SeqEqual
  <2> QED
    BY <2>6 DEF a, b
<1>10. inbox[c] \o WriteNo(c, n) = SubSeq(t, k + 1, v)
  <2>1. k + 1 \in 1..(Len(t) + 1) /\ u \in ((k + 1) - 1)..Len(t) /\ v \in u..Len(t)
    BY <1>8a
  <2> QED
    BY <1>5, <1>6, <1>9, <2>1, ConcatAdjacentSubSeq
<1>11. /\ inbox[c] \o WriteNo(c, n) \in Seq(STRING)
       /\ Len(inbox[c] \o WriteNo(c, n)) = Len(inbox[c]) + Len(WriteNo(c, n))
       /\ Len(inbox[c]) \in Nat
  BY <1>2, <1>7, ConcatProperties
<1>12. /\ inbox' \in [Clients -> Seq(STRING)] /\ inbox'[c] = inbox[c] \o WriteNo(c, n)
       /\ sent' \in [Clients -> Nat] /\ sent'[c] = n + 1
       /\ \A x \in Clients : x # c => inbox'[x] = inbox[x] /\ sent'[x] = sent[x]
  <2>1. sent[c] + 1 \in Nat
    BY <1>2
  <2>2. inbox' \in [Clients -> Seq(STRING)] /\ inbox'[c] = inbox[c] \o WriteNo(c, n)
        /\ \A x \in Clients : x # c => inbox'[x] = inbox[x]
    BY <1>1, <1>2, <1>11
  <2>3. sent' \in [Clients -> Nat] /\ sent'[c] = sent[c] + 1
        /\ \A x \in Clients : x # c => sent'[x] = sent[x]
    BY <1>1, <1>2, <2>1
  <2> QED
    BY <2>2, <2>3 DEF n
<1>13. SrvTypeOK'
  <2>1. \A x \in Clients : sent'[x] <= 2 * Len(Args[x])
    <3>1. n + 1 <= 2 * Len(Args[c])
      BY <1>2, <1>3
    <3>2. \A x \in Clients : sent[x] <= 2 * Len(Args[x])
      BY DEF SrvInv, SrvTypeOK
    <3> QED
      BY <1>12, <3>1, <3>2, Zenon
  <2> QED
    BY <1>1, <1>12, <2>1 DEF SrvInv, SrvTypeOK
<1>14. Turns'
  BY <1>1 DEF SrvInv, Turns, Waits
<1>15. Upto(c)' = v /\ \A x \in Clients : x # c => Upto(x)' = Upto(x)
  BY <1>12 DEF Upto, v
<1>16. \A x \in Clients : Taken(x)' = Taken(x)
  <2>1. Taken(c)' = k
    <3>1. Taken(c)' = v - Len(inbox'[c])
      BY <1>15 DEF Taken
    <3>2. v - (ni + nw) = k
      BY <1>8a
    <3> QED
      BY <1>11, <1>12, <3>1, <3>2 DEF ni, nw
  <2>2. ASSUME NEW x \in Clients, x # c
        PROVE  Taken(x)' = Taken(x)
    BY <1>12, <1>15, <2>2 DEF Taken
  <2> QED
    BY <2>1, <2>2 DEF k
<1>17. Streams'
  <2>1. ASSUME NEW x \in Clients
        PROVE  /\ Len(inbox'[x]) <= Upto(x)'
               /\ inbox'[x] = SubSeq(Text(x), Taken(x)' + 1, Upto(x)')
    <3>1. CASE x = c
      <4>1. Len(inbox'[c]) <= v
        BY <1>8a, <1>11, <1>12 DEF ni, nw
      <4> QED
        BY <1>10, <1>12, <1>15, <1>16, <3>1, <4>1 DEF k, t
    <3>2. CASE x # c
      BY <1>12, <1>15, <1>16, <3>2 DEF SrvInv, Streams
    <3> QED
      BY <3>1, <3>2
  <2>2. \A x \in Clients : Waits(x)' <=> Waits(x)
    BY <1>1 DEF Waits
  <2> QED
    BY <1>1, <1>16, <2>1, <2>2 DEF SrvInv, Streams
<1>18. InLine'
  <2>1. CASE cur = NoClient
    BY <1>1, <2>1 DEF InLine
  <2>2. CASE cur # NoClient
    <3>1. cur \in Clients /\ cur' = cur /\ ps' = ps
      BY <1>1, <2>2 DEF SrvInv, SrvTypeOK
    <3>2. PICK b \in 0..Taken(cur) : /\ IsEnd(Text(cur), Taken(cur), b)
                                     /\ ps = SubSeq(Text(cur), b + 1, Taken(cur))
      BY <2>2 DEF SrvInv, InLine
    <3>3. Taken(cur)' = Taken(cur)
      <4>1. \A x \in Clients : x = cur => Taken(cur)' = Taken(x)'
        BY <3>1 DEF Taken, Upto
      <4> QED
        BY <1>16, <3>1, <4>1
    <3>4. \E x \in 0..Taken(cur)' : /\ IsEnd(Text(cur'), Taken(cur)', x)
                                    /\ ps' = SubSeq(Text(cur'), x + 1, Taken(cur)')
      BY <3>1, <3>2, <3>3
    <3> QED
      BY <3>4 DEF InLine, IsEnd
  <2> QED
    BY <2>1, <2>2
<1>19. Counted' /\ Own' /\ Quits'
  BY <1>1, <1>16 DEF SrvInv, Counted, Own, Quits
<1> QED
  BY <1>13, <1>14, <1>17, <1>18, <1>19 DEF SrvInv

\* Closing a connection leaves what it has sent and what it was answered.
LEMMA CloseKeeps ==
    ASSUME SrvInv, NEW c \in Clients, Close(c)
    PROVE  SrvInv'
<1>1. /\ conn[c] = "open"
      /\ conn' = [conn EXCEPT ![c] = IF reply[c] = <<>> THEN "closed" ELSE "reset"]
      /\ disturbed' = TRUE
      /\ UNCHANGED <<spc, id, cur, ps, queue, inbox, sent, reply, cli_len>>
  BY DEF Close, runVars
<1>2. /\ conn' \in [Clients -> {"new", "open", "closed", "reset", "served", "dropped"}]
      /\ \A x \in Clients : /\ conn'[x] = "new" <=> conn[x] = "new"
                            /\ conn'[x] = "served" <=> conn[x] = "served"
  BY <1>1 DEF SrvInv, SrvTypeOK
<1>3. SrvTypeOK'
  BY <1>1, <1>2 DEF SrvInv, SrvTypeOK
<1>4. \A x \in Clients : Upto(x)' = Upto(x) /\ Taken(x)' = Taken(x) /\ (Waits(x)' <=> Waits(x))
  BY <1>1 DEF Upto, Taken, Waits
<1>5. Turns'
  <2>1. cur # NoClient => cur \in Clients
    BY DEF SrvInv, SrvTypeOK
  <2> QED
    BY <1>1, <1>2, <1>4, <2>1 DEF SrvInv, Turns
<1>6. Streams'
  BY <1>1, <1>2, <1>4 DEF SrvInv, Streams
<1>7. InLine'
  BY <1>1 DEF SrvInv, InLine, Taken, Upto
<1>8. Counted' /\ Own'
  BY <1>1, <1>4 DEF SrvInv, Counted, Own
<1>9. Quits'
  BY <1>1, <1>2 DEF SrvInv, Quits
<1> QED
  BY <1>3, <1>5, <1>6, <1>7, <1>8, <1>9 DEF SrvInv

\* Every step keeps the invariant.
LEMMA NextKeepsServer == SrvInv /\ [SrvNext]_srvVars => SrvInv'
<1> SUFFICES ASSUME SrvInv, [SrvNext]_srvVars
             PROVE  SrvInv'
  OBVIOUS
<1>1. CASE \/ server_setup \/ SelectReady \/ SelectTimeout \/ SelectFails
           \/ ReadError \/ UNCHANGED srvVars
  BY <1>1, LookingKeeps
<1>2. CASE Accept \/ AcceptFails
  BY <1>2, AcceptKeeps, AcceptFailsKeeps
<1>3. CASE ReadChar
  BY <1>3, ReadCharKeeps
<1>4. CASE ReadLine
  BY <1>4, ReadLineKeeps
<1>5. ASSUME NEW c \in Clients, Connect(c) \/ send_message(c) \/ Close(c)
      PROVE  SrvInv'
  BY <1>5, ConnectKeeps, SendKeeps, CloseKeeps
<1> QED
  BY <1>1, <1>2, <1>3, <1>4, <1>5 DEF SrvNext, Server

\* The invariant of the server and its clients.
THEOREM ServerInvariant == SrvSpec => []SrvInv
<1> QED
  BY InitServer, NextKeepsServer, PTL DEF SrvSpec

\* Type correctness: the server serves one of its clients whenever it reads, at a port
\* that is one of its two.
THEOREM SrvTypeCorrect == SrvSpec => []SrvTypeOK
<1>1. SrvInv => SrvTypeOK
  BY DEF SrvInv
<1> QED
  BY <1>1, ServerInvariant, PTL

\* server_run answers each client its own lines, in order and once each, and nothing
\* after its quit, whatever the clients send and however it arrives.
THEOREM AnswersAreOwn == SrvSpec => []AnswersOwnLines
<1>1. SrvInv => AnswersOwnLines
  BY DEF SrvInv, Own, Quits, AnswersOwnLines
<1> QED
  BY <1>1, ServerInvariant, PTL
===============================================================================
