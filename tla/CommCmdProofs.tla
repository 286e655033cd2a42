---------------------------- MODULE CommCmdProofs ----------------------------
(***************************************************************************)
(* Proofs about CommCmd: the line reader, the parser, the dispatcher and   *)
(* the command table, for any lines, any sizes of the buffer and of the    *)
(* table and any two modules.                                              *)
(***************************************************************************)
EXTENDS CommCmd, TLAPS, WellFoundedInduction, SequenceTheorems

LineChars == Letters \cup Blanks \cup {"\r"}

-----------------------------------------------------------------------------
(***************************************************************************)
(* Facts about numbers.                                                    *)
(***************************************************************************)

\* A set of natural numbers has a least element; what is proved by induction below is
\* proved from a least counterexample.
LEMMA Least ==
    ASSUME NEW T \in SUBSET Nat, T # {}
    PROVE  \E x \in T : \A y \in T : x <= y
<1>1. PICK x \in T : \A y \in T : ~ (<<y, x>> \in {ss \in Nat \X Nat : ss[1] < ss[2]})
  <2>1. IsWellFoundedOn({ss \in Nat \X Nat : ss[1] < ss[2]}, Nat)
    BY NatLessThanWellFounded, Zenon DEF OpToRel
  <2> QED
    BY <2>1, WFMin, Zenon
<1>2. ASSUME NEW y \in T
      PROVE  x <= y
  <2>1. y < x => <<y, x>> \in {ss \in Nat \X Nat : ss[1] < ss[2]}
    OBVIOUS
  <2>2. ~ (y < x)
    BY <1>1, <2>1
  <2> QED
    BY <2>2
<1> QED
  BY <1>2

\* A set of numbers up to n has a greatest element.
LEMMA Greatest ==
    ASSUME NEW n \in Nat, NEW T \in SUBSET (1..n), T # {}
    PROVE  \E x \in T : \A y \in T : y <= x
<1> DEFINE U == {k \in 0..n : n - k \in T}
<1>1. U \in SUBSET Nat /\ U # {}
  <2>1. PICK y \in T : TRUE
    OBVIOUS
  <2>2. n - y \in 0..n /\ n - (n - y) = y
    BY <2>1
  <2>3. n - y \in U
    BY <2>1, <2>2
  <2>4. U \in SUBSET Nat
    OBVIOUS
  <2> HIDE DEF U
  <2> QED
    BY <2>3, <2>4
<1>2. PICK k \in U : \A u \in U : k <= u
  BY <1>1, Least
<1>3. ASSUME NEW y \in T
      PROVE  y <= n - k
  <2>1. n - y \in U
    OBVIOUS
  <2>2. k <= n - y
    BY <1>2, <2>1
  <2> QED
    BY <1>2, <2>2
<1> QED
  BY <1>2, <1>3

\* Division with remainder.
LEMMA Division ==
    ASSUME NEW a \in Nat, NEW w \in Nat \ {0}
    PROVE  /\ a \div w \in Nat
           /\ a % w \in 0..(w - 1)
           /\ a = w * (a \div w) + (a % w)
  BY SMT

\* The quotient and the remainder are the only ones.
LEMMA Quotient ==
    ASSUME NEW w \in Nat \ {0}, NEW q \in Nat, NEW rest \in 0..(w - 1), NEW a \in Nat,
           a = w * q + rest
    PROVE  a \div w = q /\ a % w = rest
<1>1. /\ a \div w \in Nat
      /\ a % w \in 0..(w - 1)
      /\ a = w * (a \div w) + (a % w)
  BY Division
<1>2. \A x \in Nat, y \in Nat : x > y => w * x >= w * y + w
  <2>1. ASSUME NEW x \in Nat, NEW y \in Nat, x > y
        PROVE  w * x >= w * y + w
    <3>1. PICK k \in Nat : x = y + 1 + k
      <4>1. x - y - 1 \in Nat /\ x = y + 1 + (x - y - 1)
        BY <2>1
      <4> QED
        BY <4>1
    <3>2. w * x = w * y + w + w * k
      BY <3>1
    <3>3. w * k \in Nat /\ w * y \in Nat
      BY SMT
    <3> QED
      BY <3>2, <3>3
  <2> QED
    BY <2>1
<1>3. w * q \in Nat /\ w * (a \div w) \in Nat
  BY <1>1
<1>4. ~(q > a \div w)
  BY <1>1, <1>2, <1>3
<1>5. ~(a \div w > q)
  BY <1>1, <1>2, <1>3
<1> QED
  BY <1>1, <1>4, <1>5, <1>3

\* The same for the size of the line buffer.
LEMMA Remainder ==
    ASSUME NEW k \in Nat, NEW b \in 0..(TmpSize - 1), NEW a \in Nat, a = TmpSize * k + b
    PROVE  a % TmpSize = b
<1>1. TmpSize \in Nat \ {0}
  BY TmpSizeAssumption
<1>2. a \div TmpSize = k /\ a % TmpSize = b
  BY <1>1, Quotient
<1> QED
  BY <1>2

-----------------------------------------------------------------------------
(***************************************************************************)
(* What comm_get_command leaves in the buffer.                             *)
(***************************************************************************)
\* The last of the characters of a line that is stored at place p is p places behind the
\* last time the reader went back to the start.
LEMMA LastStored ==
    ASSUME NEW l \in Seq(LineChars), NEW p \in 1..Filled(l)
    PROVE  /\ Filled(l) \in 1..TmpSize /\ Filled(l) <= Len(l)
           /\ LET at == {i \in 1..Len(l) : ((i - 1) % TmpSize) + 1 = p}
              IN  /\ Len(l) - Filled(l) + p \in at
                  /\ \A i \in at : i <= Len(l) - Filled(l) + p
<1>0. Len(l) \in Nat /\ TmpSize \in Nat \ {0} /\ l # <<>>
  <2>1. l # <<>>
    BY DEF Filled
  <2> QED
    BY <2>1, TmpSizeAssumption
<1> DEFINE n == Len(l) - 1
           q == n \div TmpSize
           f == n % TmpSize
<1>1. n \in Nat
  BY <1>0, EmptySeq
<1>2. q \in Nat /\ f \in 0..(TmpSize - 1) /\ n = TmpSize * q + f
  BY <1>0, <1>1, Division
<1>3. Filled(l) = f + 1
  BY <1>0 DEF Filled
<1> HIDE DEF q, f
<1>4. TmpSize * q \in Nat /\ Len(l) - Filled(l) = TmpSize * q
  <2>1. TmpSize * q \in Nat
    BY <1>0, <1>2
  <2> QED
    BY <1>0, <1>1, <1>2, <1>3, <2>1
<1>5. Filled(l) \in 1..TmpSize /\ Filled(l) <= Len(l)
  BY <1>0, <1>2, <1>3, <1>4
<1> DEFINE last == TmpSize * q + p
<1>6. last \in 1..Len(l) /\ p \in 1..TmpSize /\ last - 1 = TmpSize * q + (p - 1) /\ last - 1 \in Nat
  BY <1>0, <1>4, <1>5
<1>7. (last - 1) % TmpSize = p - 1
  <2>1. p - 1 \in 0..(TmpSize - 1)
    BY <1>0, <1>6
  <2> HIDE DEF last
  <2> QED
    BY <1>2, <1>6, <2>1, Remainder
<1>8. ASSUME NEW i \in 1..Len(l), ((i - 1) % TmpSize) + 1 = p
      PROVE  i <= last
  <2>1. i - 1 \in Nat
    BY <1>0
  <2>2. PICK k \in Nat : i - 1 = TmpSize * k + (p - 1)
    <3>1. /\ (i - 1) \div TmpSize \in Nat
          /\ (i - 1) % TmpSize \in 0..(TmpSize - 1)
          /\ i - 1 = TmpSize * ((i - 1) \div TmpSize) + ((i - 1) % TmpSize)
      BY <1>0, <2>1, Division
    <3>2. (i - 1) % TmpSize = p - 1
      BY <1>0, <1>6, <1>8, <3>1
    <3> QED
      BY <3>1, <3>2
  <2>3. k <= q
    <3> SUFFICES ASSUME k > q PROVE FALSE
      BY <1>2, <2>2
    <3>1. PICK d \in Nat : k = q + 1 + d
      <4>1. k - q - 1 \in Nat /\ k = q + 1 + (k - q - 1)
        BY <1>2
      <4> QED
        BY <4>1
    <3>2. TmpSize * k = TmpSize * q + TmpSize + TmpSize * d /\ TmpSize * d \in Nat
      BY <1>0, <1>2, <3>1
    <3>3. ASSUME NEW a \in Nat, NEW b \in Nat, NEW e \in Nat, b = a + TmpSize + e,
                 i - 1 = b + (p - 1), Len(l) - Filled(l) = a
          PROVE  FALSE
      BY <1>0, <1>5, <1>6, <3>3
    <3>4. TmpSize * k \in Nat
      BY <1>0, <2>2
    <3> QED
      BY <1>4, <2>2, <3>2, <3>3, <3>4
  <2>4. PICK d \in Nat : q = k + d
    <3>1. q - k \in Nat /\ q = k + (q - k)
      BY <1>2, <2>3
    <3> QED
      BY <3>1
  <2>5. TmpSize * q = TmpSize * k + TmpSize * d /\ TmpSize * d \in Nat /\ TmpSize * k \in Nat
    BY <1>0, <1>2, <2>4
  <2> QED
    BY <1>0, <1>6, <2>2, <2>5
<1>9. last = Len(l) - Filled(l) + p
  BY <1>4
<1> HIDE DEF last
<1>10. ((last - 1) % TmpSize) + 1 = p
  BY <1>6, <1>7
<1> QED
  BY <1>5, <1>6, <1>8, <1>9, <1>10

\* The buffer keeps its type, and its first places hold the end of the line.
LEMMA StoredIs ==
    ASSUME temp \in [1..TmpSize -> Characters], NEW l \in Seq(LineChars)
    PROVE  /\ Stored(l) \in [1..TmpSize -> Characters]
           /\ Filled(l) \in 0..TmpSize /\ Filled(l) <= Len(l)
           /\ \A p \in 1..Filled(l) : Stored(l)[p] = l[Len(l) - Filled(l) + p]
<1> DEFINE at(p) == {i \in 1..Len(l) : ((i - 1) % TmpSize) + 1 = p}
           c(p) == CHOOSE i \in at(p) : \A x \in at(p) : x <= i
<1>0. Len(l) \in Nat /\ TmpSize \in Nat \ {0}
  BY TmpSizeAssumption
<1>1. \A p \in 1..TmpSize : Stored(l)[p] = IF at(p) = {} THEN temp[p] ELSE l[c(p)]
  BY DEF Stored
<1>2. Stored(l) = [p \in 1..TmpSize |-> Stored(l)[p]]
  BY DEF Stored
<1>3. ASSUME NEW p \in 1..TmpSize, at(p) # {}
      PROVE  c(p) \in 1..Len(l) /\ c(p) \in at(p) /\ \A x \in at(p) : x <= c(p)
  <2>1. at(p) \in SUBSET (1..Len(l))
    OBVIOUS
  <2>2. \E i \in at(p) : \A x \in at(p) : x <= i
    BY <1>0, <1>3, <2>1, Greatest
  <2> HIDE DEF at
  <2> QED
    BY <2>1, <2>2
<1>4. ASSUME NEW p \in 1..TmpSize
      PROVE  Stored(l)[p] \in Characters
  <2> HIDE DEF at, c
  <2>1. CASE at(p) = {}
    BY <1>1, <2>1
  <2>2. CASE at(p) # {}
    <3>1. l[c(p)] \in LineChars
      BY <1>3, <2>2
    <3> QED
      BY <1>1, <2>2, <3>1 DEF LineChars, Characters
  <2> QED
    BY <2>1, <2>2
<1>5. Filled(l) \in 0..TmpSize /\ Filled(l) <= Len(l)
  <2>1. CASE l = <<>>
    BY <1>0, <2>1 DEF Filled
  <2>2. CASE l # <<>>
    <3>1. Len(l) - 1 \in Nat
      BY <1>0, <2>2, EmptySeq
    <3>2. (Len(l) - 1) % TmpSize \in 0..(TmpSize - 1)
      BY <1>0, <3>1, Division
    <3>3. Filled(l) = ((Len(l) - 1) % TmpSize) + 1
      BY <2>2 DEF Filled
    <3>4. 1 \in 1..Filled(l)
      BY <1>0, <3>2, <3>3
    <3> QED
      BY <1>0, <3>4, LastStored
  <2> QED
    BY <2>1, <2>2
<1>6. ASSUME NEW p \in 1..Filled(l)
      PROVE  Stored(l)[p] = l[Len(l) - Filled(l) + p]
  <2>1. p \in 1..TmpSize
    BY <1>0, <1>5
  <2> DEFINE last == Len(l) - Filled(l) + p
  <2>2. last \in at(p) /\ \A i \in at(p) : i <= last
    BY LastStored
  <2>3. c(p) \in 1..Len(l) /\ c(p) \in at(p) /\ last <= c(p)
    BY <1>3, <2>1, <2>2
  <2>4. c(p) <= last /\ last \in 1..Len(l)
    BY <2>2, <2>3
  <2> HIDE DEF last, c
  <2>5. c(p) = last
    BY <1>0, <2>3, <2>4
  <2> QED
    BY <1>1, <2>1, <2>2, <2>5 DEF last
<1> QED
  BY <1>2, <1>4, <1>5, <1>6

\* What comm_get_command hands to the parser: the characters of the line that are kept, in
\* their places, with a terminator behind them if there is room for one.
LEMMA LineRead ==
    ASSUME temp \in [1..TmpSize -> Characters], NEW l \in Seq(LineChars),
           NEW n, n = Stripped(Stored(l), Filled(l)),
           NEW t, t = Terminated(Stored(l), n)
    PROVE  /\ n \in 0..TmpSize
           /\ Kept(l) \in Seq(LineChars) /\ Len(Kept(l)) = n
           /\ t \in [1..TmpSize -> Characters]
           /\ \A p \in 1..n : t[p] = Kept(l)[p]
           /\ n < TmpSize => t[n + 1] = NUL
<1> DEFINE s == Stored(l)
           f == Filled(l)
           tail == SubSeq(l, Len(l) - f + 1, Len(l))
<1>0. Len(l) \in Nat /\ TmpSize \in Nat \ {0}
  BY TmpSizeAssumption
<1>1. /\ s \in [1..TmpSize -> Characters]
      /\ f \in 0..TmpSize /\ f <= Len(l)
      /\ \A p \in 1..f : s[p] = l[Len(l) - f + p]
  BY StoredIs
<1> HIDE DEF s, f
<1>2. tail \in Seq(LineChars) /\ Len(tail) = f /\ \A p \in 1..f : tail[p] = s[p]
  <2>1. Len(l) - f + 1 \in Int /\ Len(l) \in Int /\ Len(l) - f \in Nat
    BY <1>0, <1>1
  <2>2. \A i \in (Len(l) - f + 1)..Len(l) : l[i] \in LineChars
    <3>1. \A i \in (Len(l) - f + 1)..Len(l) : i \in 1..Len(l)
      BY <1>0, <1>1
    <3> QED
      BY <3>1
  <2>3. /\ tail \in Seq(LineChars)
        /\ Len(tail) = IF Len(l) - f + 1 <= Len(l) THEN Len(l) - (Len(l) - f + 1) + 1 ELSE 0
        /\ \A i \in 1..(Len(l) - (Len(l) - f + 1) + 1) :
             tail[i] = l[(Len(l) - f + 1) + i - 1]
    BY <2>1, <2>2, SubSeqProperties
  <2> HIDE DEF tail
  <2>4. Len(l) - (Len(l) - f + 1) + 1 = f
    BY <1>0, <1>1
  <2>5. Len(tail) = f
    BY <1>0, <1>1, <2>3, <2>4
  <2>6. ASSUME NEW p \in 1..f
        PROVE  tail[p] = s[p]
    <3>1. (Len(l) - f + 1) + p - 1 = Len(l) - f + p
      BY <1>0, <1>1
    <3> QED
      BY <1>1, <2>3, <2>4, <3>1
  <2> QED
    BY <2>3, <2>5, <2>6
<1>3. Kept(l) = SubSeq(tail, 1, Stripped(tail, Len(tail)))
  BY DEF Kept, f
<1> HIDE DEF tail
<1>4. n = Stripped(tail, Len(tail)) /\ n \in 0..f
  <2>1. n = Stripped(s, f)
    BY DEF s, f
  <2> QED
    BY <1>1, <1>2, <2>1 DEF Stripped
<1>5. Kept(l) \in Seq(LineChars) /\ Len(Kept(l)) = n /\ \A p \in 1..n : Kept(l)[p] = s[p]
  <2>1. Kept(l) = SubSeq(tail, 1, n)
    BY <1>3, <1>4, Zenon
  <2>2. 1 \in Int /\ n \in Int /\ \A i \in 1..n : i \in 1..f
    BY <1>1, <1>4
  <2>3. \A i \in 1..n : tail[i] \in LineChars
    BY <1>2, <2>2
  <2>4. /\ SubSeq(tail, 1, n) \in Seq(LineChars)
        /\ Len(SubSeq(tail, 1, n)) = IF 1 <= n THEN n - 1 + 1 ELSE 0
        /\ \A i \in 1..(n - 1 + 1) : SubSeq(tail, 1, n)[i] = tail[1 + i - 1]
    BY <2>2, <2>3, SubSeqProperties
  <2>5. Len(Kept(l)) = n
    BY <1>1, <1>4, <2>1, <2>4
  <2>6. ASSUME NEW p \in 1..n
        PROVE  Kept(l)[p] = s[p]
    <3>1. 1 + p - 1 = p /\ n - 1 + 1 = n
      BY <2>2
    <3> QED
      BY <1>2, <2>1, <2>2, <2>4, <3>1
  <2> QED
    BY <2>1, <2>4, <2>5, <2>6
<1>6. n \in 0..TmpSize
  BY <1>0, <1>1, <1>4
<1>7. t = IF n < TmpSize THEN [s EXCEPT ![n + 1] = NUL] ELSE s
  BY DEF Terminated, s
<1>8. /\ t \in [1..TmpSize -> Characters]
      /\ \A p \in 1..n : t[p] = s[p]
      /\ n < TmpSize => t[n + 1] = NUL
  <2>1. NUL \in Characters
    BY DEF Characters
  <2>2. CASE n < TmpSize
    <3>1. n + 1 \in 1..TmpSize /\ \A p \in 1..n : p # n + 1 /\ p \in 1..TmpSize
      BY <1>0, <1>6, <2>2
    <3> QED
      BY <1>1, <1>7, <2>1, <2>2, <3>1
  <2>3. CASE ~(n < TmpSize)
    BY <1>1, <1>7, <2>3
  <2> QED
    BY <2>2, <2>3
<1> QED
  BY <1>5, <1>6, <1>8

-----------------------------------------------------------------------------
(***************************************************************************)
(* What comm_parse_command makes of it.  l is the line that was kept and t *)
(* the buffer it lies in; the terminators that the parser puts behind the  *)
(* words are the only change.                                              *)
(***************************************************************************)
WordEnds(l, p) == p > 1 /\ l[p] \in Blanks /\ l[p - 1] \notin Blanks

Scans == [t : [1..TmpSize -> Characters], argv : Seq(Nat), word : BOOLEAN, stop : BOOLEAN]

InWord(l, i) == i > 0 /\ l[i] \notin Blanks
Marked(u, t, l, i) ==
    \A p \in 1..TmpSize : u[p] = IF p <= i /\ WordEnds(l, p) THEN NUL ELSE t[p]
Found(a, l, i) ==
    /\ \A x \in 1..Len(a) : a[x] \in Starts(l) /\ a[x] <= i
    /\ \A p \in Starts(l) : p <= i => \E x \in 1..Len(a) : a[x] = p
    /\ \A x, y \in 1..Len(a) : x < y => a[x] < a[y]

\* The parser has looked at i characters.
ScanOK(s, t, l, i) ==
    /\ s \in Scans /\ s.stop = FALSE
    /\ s.word <=> InWord(l, i)
    /\ Marked(s.t, t, l, i) /\ Found(s.argv, l, i)
    /\ 2 * Len(s.argv) <= i + (IF InWord(l, i) THEN 1 ELSE 0)

\* The characters of a line are no terminators.
LEMMA NoTerminator == NUL \notin LineChars /\ NUL \notin Blanks
BY LettersAssumption DEF LineChars, Blanks, NUL

\* One turn of the parser's loops, by what the character is and what was before it.
LEMMA ScanCharIs ==
    ASSUME NEW s \in Scans, s.stop = FALSE, NEW i, s.t[i] # NUL
    PROVE  /\ s.word /\ s.t[i] \in Blanks =>
                ScanChar(s, i) = [t |-> [s.t EXCEPT ![i] = NUL], argv |-> s.argv,
                                  word |-> FALSE, stop |-> FALSE]
           /\ ~s.word /\ s.t[i] \notin Blanks =>
                ScanChar(s, i) = [t |-> s.t, argv |-> Append(s.argv, i),
                                  word |-> TRUE, stop |-> FALSE]
           /\ (s.word <=> s.t[i] \notin Blanks) => ScanChar(s, i) = s
<1>1. s = [t |-> s.t, argv |-> s.argv, word |-> s.word, stop |-> s.stop]
  BY DEF Scans
<1>2. ASSUME s.word, s.t[i] \in Blanks
      PROVE  ScanChar(s, i) = [t |-> [s.t EXCEPT ![i] = NUL], argv |-> s.argv,
                               word |-> FALSE, stop |-> FALSE]
  <2>1. ScanChar(s, i) = [s EXCEPT !.t[i] = NUL, !.word = FALSE]
    BY <1>2 DEF ScanChar
  <2> QED
    BY <2>1 DEF Scans
<1>3. ASSUME ~s.word, s.t[i] \notin Blanks
      PROVE  ScanChar(s, i) = [t |-> s.t, argv |-> Append(s.argv, i),
                               word |-> TRUE, stop |-> FALSE]
  <2>1. ScanChar(s, i) = [s EXCEPT !.argv = Append(@, i), !.word = TRUE]
    BY <1>3 DEF ScanChar
  <2> QED
    BY <2>1 DEF Scans
<1>4. ASSUME (s.word <=> s.t[i] \notin Blanks)
      PROVE  ScanChar(s, i) = s
  BY <1>4 DEF ScanChar
<1> QED
  BY <1>2, <1>3, <1>4

\* The words found and the terminators put with one more character.
LEMMA FoundNext ==
    ASSUME NEW l \in Seq(LineChars), NEW i \in 1..Len(l), NEW a \in Seq(Nat),
           Found(a, l, i - 1)
    PROVE  IF ~InWord(l, i - 1) /\ InWord(l, i) THEN Found(Append(a, i), l, i)
           ELSE Found(a, l, i)
<1>0. /\ Len(l) \in Nat /\ i \in Nat /\ i > 0 /\ i - 1 \in Nat /\ Len(a) \in Nat
      /\ \A x \in 1..Len(a) : a[x] \in Nat
      /\ \A p \in Starts(l) : p \in Nat /\ (p <= i <=> p <= i - 1 \/ p = i)
  BY DEF Starts
<1>1. i \in Starts(l) <=> ~InWord(l, i - 1) /\ InWord(l, i)
  <2>1. i = 1 <=> ~(i - 1 > 0)
    BY <1>0
  <2> QED
    BY <1>0, <2>1 DEF InWord, Starts
<1>2. CASE i \in Starts(l)
  <2> DEFINE b == Append(a, i)
  <2>1. /\ Len(b) = Len(a) + 1 /\ b[Len(a) + 1] = i
        /\ \A x \in 1..Len(a) : b[x] = a[x]
    BY <1>0
  <2> HIDE DEF b
  <2>2. \A x \in 1..Len(b) : x \in 1..Len(a) \/ x = Len(a) + 1
    BY <1>0, <2>1
  <2>3. \A x \in 1..Len(b) : b[x] \in Starts(l) /\ b[x] <= i
    BY <1>0, <1>2, <2>1, <2>2 DEF Found
  <2>4. ASSUME NEW p \in Starts(l), p <= i
        PROVE  \E x \in 1..Len(b) : b[x] = p
    <3>1. CASE p = i
      BY <1>0, <2>1, <3>1
    <3>2. CASE p <= i - 1
      <4>1. PICK x \in 1..Len(a) : a[x] = p
        BY <3>2 DEF Found
      <4> QED
        BY <1>0, <2>1, <4>1
    <3> QED
      BY <1>0, <2>4, <3>1, <3>2
  <2>5. ASSUME NEW x \in 1..Len(b), NEW y \in 1..Len(b), x < y
        PROVE  b[x] < b[y]
    <3>1. x \in 1..Len(a)
      BY <1>0, <2>1, <2>5
    <3>2. CASE y \in 1..Len(a)
      BY <2>1, <2>5, <3>1, <3>2 DEF Found
    <3>3. CASE y = Len(a) + 1
      <4>1. a[x] <= i - 1 /\ a[x] \in Nat
        BY <1>0, <3>1 DEF Found
      <4> QED
        BY <1>0, <2>1, <3>1, <3>3, <4>1
    <3> QED
      BY <2>2, <3>2, <3>3
  <2>6. Found(b, l, i)
    BY <2>3, <2>4, <2>5 DEF Found
  <2> QED
    BY <1>1, <1>2, <2>6 DEF b
<1>3. CASE i \notin Starts(l)
  <2>1. \A x \in 1..Len(a) : a[x] \in Starts(l) /\ a[x] <= i
    BY <1>0 DEF Found
  <2>2. \A p \in Starts(l) : p <= i => \E x \in 1..Len(a) : a[x] = p
    BY <1>0, <1>3 DEF Found
  <2>3. Found(a, l, i)
    BY <2>1, <2>2 DEF Found
  <2> QED
    BY <1>1, <1>3, <2>3
<1> QED
  BY <1>2, <1>3

\* The same for the terminators.
LEMMA MarkedNext ==
    ASSUME NEW l \in Seq(LineChars), NEW i \in 1..Len(l), Len(l) <= TmpSize,
           NEW t \in [1..TmpSize -> Characters], NEW u \in [1..TmpSize -> Characters],
           Marked(u, t, l, i - 1)
    PROVE  IF InWord(l, i - 1) /\ ~InWord(l, i) THEN Marked([u EXCEPT ![i] = NUL], t, l, i)
           ELSE Marked(u, t, l, i)
<1>0. /\ Len(l) \in Nat /\ TmpSize \in Nat /\ i \in Nat /\ i > 0 /\ i - 1 \in Nat
      /\ i \in 1..TmpSize
      /\ \A p \in 1..TmpSize : p # i => (p <= i <=> p <= i - 1)
  BY TmpSizeAssumption
<1>1. WordEnds(l, i) <=> InWord(l, i - 1) /\ ~InWord(l, i)
  <2>1. i > 1 <=> i - 1 > 0
    BY <1>0
  <2> QED
    BY <1>0, <2>1 DEF InWord, WordEnds
<1>2. CASE WordEnds(l, i)
  <2>1. Marked([u EXCEPT ![i] = NUL], t, l, i)
    BY <1>0, <1>2 DEF Marked
  <2> QED
    BY <1>1, <1>2, <2>1
<1>3. CASE ~WordEnds(l, i)
  <2>1. Marked(u, t, l, i)
    BY <1>0, <1>3 DEF Marked
  <2> QED
    BY <1>1, <1>3, <2>1
<1> QED
  BY <1>2, <1>3

\* One turn keeps what the parser has found and marked so far.
LEMMA ScanOne ==
    ASSUME NEW l \in Seq(LineChars), NEW t \in [1..TmpSize -> Characters],
           Len(l) <= TmpSize, \A p \in 1..Len(l) : t[p] = l[p],
           NEW i \in 1..Len(l), NEW s, ScanOK(s, t, l, i - 1)
    PROVE  ScanOK(ScanChar(s, i), t, l, i)
<1>0. /\ Len(l) \in Nat /\ TmpSize \in Nat \ {0} /\ i \in Nat /\ i > 0
      /\ i \in 1..TmpSize /\ l[i] \in LineChars
      /\ s \in Scans /\ s.stop = FALSE /\ s.t \in [1..TmpSize -> Characters]
      /\ s.argv \in Seq(Nat) /\ Len(s.argv) \in Nat
  BY TmpSizeAssumption DEF ScanOK, Scans
<1>1. s.t[i] = l[i] /\ l[i] # NUL
  <2>1. ~(i <= i - 1)
    BY <1>0
  <2> QED
    BY <1>0, <2>1, NoTerminator DEF ScanOK, Marked
<1>2. s.word <=> InWord(l, i - 1)
  BY DEF ScanOK
<1>3. l[i] \notin Blanks <=> InWord(l, i)
  BY <1>0 DEF InWord
<1>4. CASE InWord(l, i - 1) /\ ~InWord(l, i)
  <2> DEFINE u == [s.t EXCEPT ![i] = NUL]
             v == [t |-> u, argv |-> s.argv, word |-> FALSE, stop |-> FALSE]
  <2>1. ScanChar(s, i) = v
    BY <1>0, <1>1, <1>2, <1>3, <1>4, ScanCharIs
  <2>2. Marked(u, t, l, i) /\ Found(s.argv, l, i)
    BY <1>0, <1>4, MarkedNext, FoundNext DEF ScanOK
  <2>3. u \in [1..TmpSize -> Characters]
    BY <1>0 DEF Characters
  <2> HIDE DEF u
  <2>4. v \in Scans
    BY <1>0, <2>3 DEF Scans
  <2>5. 2 * Len(s.argv) <= i
    BY <1>0, <1>4 DEF ScanOK
  <2>6. ScanOK(v, t, l, i)
    BY <1>4, <2>2, <2>4, <2>5 DEF ScanOK
  <2> QED
    BY <2>1, <2>6
<1>5. CASE ~InWord(l, i - 1) /\ InWord(l, i)
  <2> DEFINE b == Append(s.argv, i)
             v == [t |-> s.t, argv |-> b, word |-> TRUE, stop |-> FALSE]
  <2>1. ScanChar(s, i) = v
    BY <1>0, <1>1, <1>2, <1>3, <1>5, ScanCharIs
  <2>2. Marked(s.t, t, l, i) /\ Found(b, l, i)
    BY <1>0, <1>5, MarkedNext, FoundNext DEF ScanOK
  <2>3. b \in Seq(Nat) /\ Len(b) = Len(s.argv) + 1
    BY <1>0
  <2> HIDE DEF b
  <2>4. v \in Scans
    BY <1>0, <2>3 DEF Scans
  <2>5. 2 * Len(b) <= i + 1
    <3>1. 2 * Len(s.argv) <= i - 1
      BY <1>0, <1>5 DEF ScanOK
    <3> QED
      BY <1>0, <2>3, <3>1
  <2>6. ScanOK(v, t, l, i)
    BY <1>5, <2>2, <2>4, <2>5 DEF ScanOK
  <2> QED
    BY <2>1, <2>6
<1>6. CASE InWord(l, i - 1) <=> InWord(l, i)
  <2>1. ScanChar(s, i) = s
    BY <1>0, <1>1, <1>2, <1>3, <1>6, ScanCharIs
  <2>2. Marked(s.t, t, l, i) /\ Found(s.argv, l, i)
    BY <1>0, <1>6, MarkedNext, FoundNext DEF ScanOK
  <2>3. 2 * Len(s.argv) <= i + (IF InWord(l, i) THEN 1 ELSE 0)
    BY <1>0, <1>6 DEF ScanOK
  <2>4. ScanOK(s, t, l, i)
    BY <1>0, <1>2, <1>6, <2>2, <2>3 DEF ScanOK
  <2> QED
    BY <2>1, <2>4
<1> QED
  BY <1>4, <1>5, <1>6

ScanFirst(t) == [t |-> t, argv |-> <<>>, word |-> FALSE, stop |-> FALSE]
Unfolds(f, t, n) == f = [i \in 0..n |-> IF i = 0 THEN ScanFirst(t) ELSE ScanChar(f[i - 1], i)]

\* The parser's state after n characters exists: the recursive function of Scan unfolds.
LEMMA UnfoldingExists == ASSUME NEW t PROVE \A n \in Nat : \E f : Unfolds(f, t, n)
<1> DEFINE T == {n \in Nat : ~ \E f : Unfolds(f, t, n)}
<1> SUFFICES ASSUME T # {}
             PROVE  FALSE
  OBVIOUS
<1>1. PICK n \in T : \A k \in T : n <= k
  BY Least
<1>2. n # 0
  <2>1. Unfolds([i \in 0..0 |-> ScanFirst(t)], t, 0)
    BY DEF Unfolds
  <2> QED
    BY <2>1
<1>3. n \in Nat /\ n - 1 \in Nat /\ n - 1 \notin T
  BY <1>1, <1>2
<1>4. PICK f : Unfolds(f, t, n - 1)
  BY <1>3
<1> DEFINE g == [i \in 0..n |-> IF i = n THEN ScanChar(f[n - 1], n) ELSE f[i]]
<1>5. ASSUME NEW i \in 0..n
      PROVE  g[i] = IF i = 0 THEN ScanFirst(t) ELSE ScanChar(g[i - 1], i)
  <2>1. \A x \in 0..(n - 1) : f[x] = IF x = 0 THEN ScanFirst(t) ELSE ScanChar(f[x - 1], x)
    BY <1>3, <1>4 DEF Unfolds
  <2>2. CASE i = 0
    BY <1>2, <1>3, <2>1, <2>2
  <2>3. CASE i = n /\ i # 0
    <3>1. g[n] = ScanChar(f[n - 1], n)
      BY <1>3
    <3>2. g[n - 1] = f[n - 1]
      BY <1>3
    <3> QED
      BY <2>3, <3>1, <3>2
  <2>4. CASE i \in 1..(n - 1)
    <3>1. g[i] = f[i] /\ g[i - 1] = f[i - 1]
      BY <1>3, <2>4
    <3>2. i \in 0..(n - 1) /\ i # 0
      BY <1>3, <2>4
    <3>3. f[i] = ScanChar(f[i - 1], i)
      BY <2>1, <3>2, Zenon
    <3> HIDE DEF g
    <3> QED
      BY <3>1, <3>2, <3>3, Zenon
  <2> QED
    BY <1>3, <2>2, <2>3, <2>4
<1>6. Unfolds(g, t, n)
  BY <1>5 DEF Unfolds
<1> QED
  BY <1>6

\* comm_parse_command has found the words of the line and put a terminator behind each
\* that a blank follows.
LEMMA ScanAll ==
    ASSUME NEW l \in Seq(LineChars), NEW t \in [1..TmpSize -> Characters],
           Len(l) <= TmpSize, \A p \in 1..Len(l) : t[p] = l[p]
    PROVE  ScanOK(comm_parse_command(t, Len(l)), t, l, Len(l))
<1> DEFINE n == Len(l)
           f == CHOOSE f : Unfolds(f, t, n)
<1>0. n \in Nat
  OBVIOUS
<1>1. Unfolds(f, t, n)
  <2> HIDE DEF n
  <2>1. \E g : Unfolds(g, t, n)
    BY <1>0, UnfoldingExists
  <2> QED
    BY <2>1
<1>2. comm_parse_command(t, n) = f[n]
  BY DEF comm_parse_command, Scan, Unfolds, ScanFirst
<1> HIDE DEF f
<1>3. f[0] = ScanFirst(t) /\ \A i \in 1..n : f[i] = ScanChar(f[i - 1], i)
  <2>1. \A i \in 0..n : f[i] = IF i = 0 THEN ScanFirst(t) ELSE ScanChar(f[i - 1], i)
    BY <1>1 DEF Unfolds
  <2>2. 0 \in 0..n /\ \A i \in 1..n : i \in 0..n /\ i # 0
    BY <1>0
  <2> QED
    BY <2>1, <2>2, Zenon
<1>4. ScanOK(f[0], t, l, 0)
  <2> DEFINE v == ScanFirst(t)
  <2>1. v \in Scans /\ v.stop = FALSE /\ v.word = FALSE /\ v.t = t /\ v.argv = <<>>
    BY DEF ScanFirst, Scans
  <2>2. ~InWord(l, 0)
    BY DEF InWord
  <2>3. Marked(t, t, l, 0)
    BY TmpSizeAssumption DEF Marked
  <2>4. Found(<<>>, l, 0)
    BY DEF Found, Starts
  <2> HIDE DEF v
  <2>5. ScanOK(v, t, l, 0)
    BY <2>1, <2>2, <2>3, <2>4 DEF ScanOK
  <2> QED
    BY <1>3, <2>5 DEF v
<1> DEFINE T == {i \in 0..n : ~ScanOK(f[i], t, l, i)}
<1>5. T = {}
  <2> SUFFICES ASSUME T # {}
               PROVE  FALSE
    OBVIOUS
  <2>1. T \in SUBSET Nat
    BY <1>0
  <2>2. PICK i \in T : \A k \in T : i <= k
    BY <2>1, Least
  <2>3. i # 0 /\ i \in 0..n
    BY <1>4, <2>2
  <2>4. i \in 1..n /\ i - 1 \in 0..n /\ ~(i <= i - 1)
    BY <1>0, <2>3
  <2>5. ScanOK(f[i - 1], t, l, i - 1)
    BY <2>2, <2>4
  <2>6. ScanOK(ScanChar(f[i - 1], i), t, l, i)
    BY <2>4, <2>5, ScanOne
  <2> QED
    BY <1>3, <2>2, <2>4, <2>6
<1>6. n \in 0..n
  BY <1>0
<1> QED
  BY <1>2, <1>5, <1>6

-----------------------------------------------------------------------------
(***************************************************************************)
(* The words.                                                              *)
(***************************************************************************)
\* A word goes up to the next blank or the end of the line.
LEMMA WordIs ==
    ASSUME NEW l \in Seq(LineChars), NEW p \in Starts(l)
    PROVE  /\ p \in 1..Len(l)
           /\ \E e \in p..Len(l) :
                /\ Word(l, p) = SubSeq(l, p, e)
                /\ \A x \in p..e : l[x] \notin Blanks
                /\ e < Len(l) => l[e + 1] \in Blanks
<1> DEFINE run == {e \in p..Len(l) : \A x \in p..e : l[x] \notin Blanks}
           c == CHOOSE e \in run : \A x \in run : x <= e
<1>0. Len(l) \in Nat /\ p \in 1..Len(l) /\ l[p] \notin Blanks
  BY DEF Starts
<1>1. run \in SUBSET (1..Len(l)) /\ p \in run
  BY <1>0
<1>2. \E e \in run : \A x \in run : x <= e
  BY <1>0, <1>1, Greatest
<1>3. c \in run /\ \A x \in run : x <= c
  <2> HIDE DEF run
  <2> QED
    BY <1>2
<1>4. Word(l, p) = SubSeq(l, p, c)
  BY DEF Word
<1> HIDE DEF c
<1>5. c \in p..Len(l) /\ \A x \in p..c : l[x] \notin Blanks
  BY <1>3
<1>6. ASSUME c < Len(l)
      PROVE  l[c + 1] \in Blanks
  <2> SUFFICES ASSUME l[c + 1] \notin Blanks
               PROVE  FALSE
    OBVIOUS
  <2>1. c + 1 \in p..Len(l) /\ \A x \in p..(c + 1) : x \in p..c \/ x = c + 1
    BY <1>0, <1>5, <1>6
  <2>2. c + 1 \in run
    BY <1>5, <2>1
  <2>3. c + 1 <= c
    BY <1>3, <2>2
  <2> QED
    BY <1>0, <1>5, <2>3
<1> QED
  BY <1>0, <1>4, <1>5, <1>6

\* A string goes up to the first terminator, or on into the pointers behind the buffer.
LEMMA StrIs ==
    ASSUME NEW t \in [1..TmpSize -> Characters], NEW p \in 1..TmpSize, NEW e \in p..TmpSize,
           \A x \in p..e : t[x] # NUL
    PROVE  /\ e < TmpSize /\ t[e + 1] = NUL => Str(t, p) = SubSeq(t, p, e)
           /\ e = TmpSize => Str(t, p) = Append(SubSeq(t, p, TmpSize), "junk")
<1> DEFINE ends == {i \in p..TmpSize : t[i] = NUL}
           end == CHOOSE i \in ends : \A x \in ends : i <= x
<1>0. TmpSize \in Nat /\ p \in Nat /\ e \in Nat
  BY TmpSizeAssumption
<1>1. Str(t, p) = IF ends = {} THEN Append(SubSeq(t, p, TmpSize), "junk")
                  ELSE SubSeq(t, p, end - 1)
  BY DEF Str
<1>2. ASSUME e < TmpSize, t[e + 1] = NUL
      PROVE  Str(t, p) = SubSeq(t, p, e)
  <2>1. e + 1 \in ends
    BY <1>0, <1>2
  <2>2. \A x \in ends : e + 1 <= x
    BY <1>0
  <2>3. end \in ends /\ \A x \in ends : end <= x
    <3> HIDE DEF ends
    <3> QED
      BY <2>1, <2>2
  <2>4. end \in Nat /\ end <= e + 1 /\ e + 1 <= end
    BY <1>0, <2>1, <2>2, <2>3
  <2> HIDE DEF end
  <2>5. end - 1 = e
    BY <1>0, <2>4
  <2> HIDE DEF ends
  <2> QED
    BY <1>1, <2>1, <2>5
<1>3. ASSUME e = TmpSize
      PROVE  ends = {}
  BY <1>0, <1>3
<1> HIDE DEF ends, end
<1> QED
  BY <1>1, <1>2, <1>3

Texts == Seq(Characters \cup {"junk", "(null)"})

\* What printf and strcmp read at a place of the buffer is a string.
LEMMA StrType ==
    ASSUME NEW t \in [1..TmpSize -> Characters], NEW p \in 1..TmpSize
    PROVE  Str(t, p) \in Texts
<1> DEFINE ends == {i \in p..TmpSize : t[i] = NUL}
           end == CHOOSE i \in ends : \A x \in ends : i <= x
           S == Characters \cup {"junk", "(null)"}
<1>0. TmpSize \in Nat /\ p \in Nat /\ \A i \in p..TmpSize : i \in 1..TmpSize
  BY TmpSizeAssumption
<1>1. Str(t, p) = IF ends = {} THEN Append(SubSeq(t, p, TmpSize), "junk")
                  ELSE SubSeq(t, p, end - 1)
  BY DEF Str
<1>2. ASSUME NEW e \in Int, e <= TmpSize
      PROVE  SubSeq(t, p, e) \in Seq(S)
  <2>1. \A i \in p..e : i \in p..TmpSize
    BY <1>0, <1>2
  <2>2. p \in Int /\ \A i \in p..e : t[i] \in S
    BY <1>0, <2>1
  <2> HIDE DEF S
  <2> QED
    BY <2>2, SubSeqProperties
<1>3. CASE ends = {}
  <2>1. SubSeq(t, p, TmpSize) \in Seq(S) /\ "junk" \in S
    BY <1>0, <1>2
  <2> HIDE DEF S, ends
  <2>2. Append(SubSeq(t, p, TmpSize), "junk") \in Seq(S)
    BY <2>1
  <2> QED
    BY <1>1, <1>3, <2>2 DEF Texts, S
<1>4. CASE ends # {}
  <2>1. ends \in SUBSET Nat
    BY <1>0
  <2>2. \E i \in ends : \A x \in ends : i <= x
    BY <1>4, <2>1, Least
  <2>3. end \in ends
    <3> HIDE DEF ends
    <3> QED
      BY <2>2
  <2>4. end \in p..TmpSize
    BY <2>3
  <2> HIDE DEF end
  <2>5. end - 1 \in Int /\ end - 1 <= TmpSize
    BY <1>0, <2>4
  <2>6. SubSeq(t, p, end - 1) \in Seq(S)
    BY <1>2, <2>5
  <2> HIDE DEF S, ends
  <2> QED
    BY <1>1, <1>4, <2>6 DEF Texts, S
<1> QED
  BY <1>3, <1>4

\* A word that has been found is the string at its start, unless it ends where the buffer
\* ends: then it is the last one, and the string is longer than one character.
LEMMA WordsRead ==
    ASSUME NEW l \in Seq(LineChars), NEW t \in [1..TmpSize -> Characters],
           Len(l) <= TmpSize, \A p \in 1..Len(l) : t[p] = l[p],
           Len(l) < TmpSize => t[Len(l) + 1] = NUL,
           NEW u \in [1..TmpSize -> Characters], Marked(u, t, l, Len(l)),
           NEW p \in Starts(l)
    PROVE  \/ Str(u, p) = Word(l, p)
           \/ /\ Len(l) = TmpSize /\ l[TmpSize] \notin Blanks
              /\ \A x \in Starts(l) : x <= p
              /\ Len(Str(u, p)) > 1
<1>1. PICK e \in p..Len(l) :
        /\ Word(l, p) = SubSeq(l, p, e)
        /\ \A x \in p..e : l[x] \notin Blanks
        /\ e < Len(l) => l[e + 1] \in Blanks
  BY WordIs
<1>0. /\ Len(l) \in Nat /\ TmpSize \in Nat /\ p \in 1..Len(l) /\ e \in 1..Len(l) /\ p \in Nat
      /\ e \in Nat /\ p \in 1..TmpSize /\ e \in p..TmpSize /\ p <= e
      /\ \A x \in p..e : x \in 1..Len(l) /\ x \in 1..TmpSize
  BY <1>1, WordIs, TmpSizeAssumption
<1>2. \A x \in p..e : u[x] = l[x] /\ u[x] # NUL
  <2>1. \A x \in p..e : ~WordEnds(l, x)
    BY <1>1 DEF WordEnds
  <2>2. \A x \in p..e : l[x] \in LineChars
    BY <1>0
  <2> QED
    BY <1>0, <2>1, <2>2, NoTerminator DEF Marked
<1>3. CASE e < TmpSize
  <2>1. e + 1 \in 1..TmpSize
    BY <1>0, <1>3
  <2>2. u[e + 1] = NUL
    <3>1. CASE e < Len(l)
      <4>1. e + 1 > 1 /\ e + 1 <= Len(l) /\ (e + 1) - 1 = e /\ e \in p..e
        BY <1>0, <3>1
      <4>2. WordEnds(l, e + 1)
        BY <1>1, <3>1, <4>1 DEF WordEnds
      <4> QED
        BY <2>1, <4>1, <4>2 DEF Marked
    <3>2. CASE e = Len(l)
      <4>1. ~(e + 1 <= Len(l))
        BY <1>0, <3>2
      <4> QED
        BY <1>3, <2>1, <3>2, <4>1 DEF Marked
    <3> QED
      BY <1>0, <1>1, <3>1, <3>2
  <2>3. Str(u, p) = SubSeq(u, p, e)
    BY <1>0, <1>2, <1>3, <2>2, StrIs
  <2>4. SubSeq(u, p, e) = SubSeq(l, p, e)
    BY <1>0, <1>2
  <2> QED
    BY <1>1, <2>3, <2>4
<1>4. CASE e = TmpSize
  <2>1. Len(l) = TmpSize /\ e \in p..e
    BY <1>0, <1>4
  <2>2. l[TmpSize] \notin Blanks
    BY <1>1, <1>4, <2>1
  <2>3. ASSUME NEW x \in Starts(l), x > p
        PROVE  FALSE
    <3>1. x \in 1..Len(l) /\ x \in Nat /\ x - 1 \in p..e /\ x # 1
      <4>1. x \in 1..Len(l)
        BY DEF Starts
      <4> QED
        BY <1>0, <1>4, <2>1, <2>3, <4>1
    <3>2. l[x - 1] \in Blanks
      BY <3>1 DEF Starts
    <3> QED
      BY <1>1, <3>1, <3>2
  <2>4. Str(u, p) = Append(SubSeq(u, p, TmpSize), "junk")
    BY <1>0, <1>2, <1>4, StrIs
  <2>5. Len(Str(u, p)) > 1
    <3> DEFINE S == Characters \cup {"junk", "(null)"}
               w == SubSeq(u, p, TmpSize)
    <3>1. p \in Int /\ TmpSize \in Int /\ \A i \in p..TmpSize : u[i] \in S
      BY <1>0
    <3>2. w \in Seq(S) /\ Len(w) = IF p <= TmpSize THEN TmpSize - p + 1 ELSE 0
      BY <3>1, SubSeqProperties
    <3>3. Len(w) >= 1 /\ Len(w) \in Nat /\ "junk" \in S
      BY <1>0, <1>4, <3>2
    <3> HIDE DEF S, w
    <3>4. Len(Append(w, "junk")) = Len(w) + 1
      BY <3>2, <3>3
    <3>5. Str(u, p) = Append(w, "junk")
      BY <2>4 DEF w
    <3> QED
      BY <3>3, <3>4, <3>5
  <2>6. \A x \in Starts(l) : x <= p
    <3>1. \A x \in Starts(l) : x \in Nat
      BY <1>0 DEF Starts
    <3> QED
      BY <1>0, <2>3, <3>1
  <2> QED
    BY <2>1, <2>2, <2>5, <2>6
<1> QED
  BY <1>0, <1>3, <1>4

-----------------------------------------------------------------------------
(***************************************************************************)
(* The line data between the parser and the dispatcher: the words of the   *)
(* line l that was kept, in the buffer t with n characters, as c pointers  *)
(* a.                                                                      *)
(***************************************************************************)
DataType ==
    /\ temp \in [1..TmpSize -> Characters] /\ tmpc \in 0..TmpSize
    /\ argv \in [1..ArgSize -> 0..TmpSize] /\ argc \in 0..ArgSize

ParsedAs(l, t, n, a, c) ==
    /\ \A i \in 1..c : a[i] \in Starts(l) /\ a[i] \in 1..TmpSize
    /\ \A p \in Starts(l) : \E i \in 1..c : a[i] = p
    /\ \A i, k \in 1..c : i < k => a[i] < a[k]
    /\ \A i \in 1..c : \/ Str(t, a[i]) = Word(l, a[i])
                       \/ /\ i = c /\ n = TmpSize /\ l[TmpSize] \notin Blanks
                          /\ Len(Str(t, a[i])) > 1

Parsed == phase = "exec" => ParsedAs(Kept(line), temp, tmpc, argv, argc)

\* comm_get_command and comm_parse_command leave the words of the line behind, and as
\* many pointers as the vector has room for at most.
LEMMA ReadLineParses ==
    ASSUME DataType, ReadLine
    PROVE  DataType' /\ Parsed' /\ line' \in Lines
<1>1. PICK l \in Lines :
        LET stored == Stored(l)
            n == Stripped(stored, Filled(l))
            parsed == comm_parse_command(Terminated(stored, n), n)
        IN  /\ line' = l /\ tmpc' = n /\ temp' = parsed.t
            /\ argc' = Len(parsed.argv)
            /\ argv' = [i \in 1..ArgSize |-> IF i <= Len(parsed.argv)
                                             THEN parsed.argv[i] ELSE argv[i]]
  BY DEF ReadLine
<1> DEFINE n == Stripped(Stored(l), Filled(l))
           t == Terminated(Stored(l), n)
           k == Kept(l)
           s == comm_parse_command(t, n)
<1>2. l \in Seq(LineChars)
  BY LinesAssumption DEF LineChars
<1>3. /\ n \in 0..TmpSize
      /\ k \in Seq(LineChars) /\ Len(k) = n
      /\ t \in [1..TmpSize -> Characters]
      /\ \A p \in 1..n : t[p] = k[p]
      /\ n < TmpSize => t[n + 1] = NUL
  BY <1>2, LineRead DEF DataType
<1>4. /\ line' = l /\ tmpc' = n /\ temp' = s.t /\ argc' = Len(s.argv)
      /\ argv' = [i \in 1..ArgSize |-> IF i <= Len(s.argv) THEN s.argv[i] ELSE argv[i]]
  BY <1>1
<1>0. /\ TmpSize \in Nat /\ ArgSize \in Nat /\ TmpSize <= 2 * ArgSize
      /\ n \in Nat /\ n <= TmpSize
  BY <1>3, TmpSizeAssumption, ArgSizeAssumption
<1> HIDE DEF n, t, k, s
<1>5. ScanOK(s, t, k, n)
  <2>1. ScanOK(comm_parse_command(t, Len(k)), t, k, Len(k))
    BY <1>0, <1>3, ScanAll
  <2> QED
    BY <1>3, <2>1 DEF s
<1>6. /\ s.t \in [1..TmpSize -> Characters] /\ s.argv \in Seq(Nat) /\ Len(s.argv) \in Nat
      /\ Marked(s.t, t, k, n) /\ Found(s.argv, k, n)
  BY <1>5 DEF ScanOK, Scans
<1>7. Len(s.argv) <= ArgSize
  <2>1. 2 * Len(s.argv) <= n + 1
    BY <1>0, <1>5, <1>6 DEF ScanOK
  <2> QED
    BY <1>0, <1>6, <2>1
<1> DEFINE c == Len(s.argv)
<1>8. \A i \in 1..c : argv'[i] = s.argv[i]
  <2>1. \A i \in 1..c : i \in 1..ArgSize /\ i <= c
    BY <1>0, <1>6, <1>7
  <2> QED
    BY <1>4, <2>1
<1>9. \A p \in Starts(k) : p \in 1..n /\ p \in 1..TmpSize /\ p \in Nat
  BY <1>0, <1>3 DEF Starts
<1>10. \A i \in 1..c : s.argv[i] \in Starts(k) /\ s.argv[i] \in 1..TmpSize
  BY <1>6, <1>9 DEF Found
<1>11. DataType'
  <2>1. argv' \in [1..ArgSize -> 0..TmpSize]
    <3>1. ASSUME NEW i \in 1..ArgSize
          PROVE  (IF i <= c THEN s.argv[i] ELSE argv[i]) \in 0..TmpSize
      <4>1. CASE i <= c
        <5>1. i \in 1..c
          BY <1>0, <1>6, <4>1
        <5> QED
          BY <1>0, <1>10, <4>1, <5>1
      <4>2. CASE ~(i <= c)
        BY <4>2 DEF DataType
      <4> QED
        BY <4>1, <4>2
    <3> HIDE DEF c
    <3> QED
      BY <1>4, <3>1 DEF c
  <2>2. argc' \in 0..ArgSize
    BY <1>0, <1>4, <1>6, <1>7
  <2> QED
    BY <1>3, <1>4, <1>6, <2>1, <2>2 DEF DataType
<1>12. ParsedAs(k, s.t, n, argv', c)
  <2>1. \A i \in 1..c : argv'[i] \in Starts(k) /\ argv'[i] \in 1..TmpSize
    BY <1>8, <1>10
  <2>2. \A p \in Starts(k) : \E i \in 1..c : argv'[i] = p
    <3>1. \A p \in Starts(k) : p <= n
      BY <1>0, <1>9
    <3> QED
      BY <1>6, <1>8, <3>1 DEF Found
  <2>3. \A x, y \in 1..c : x < y => argv'[x] < argv'[y]
    BY <1>6, <1>8 DEF Found
  <2>4. ASSUME NEW i \in 1..c
        PROVE  \/ Str(s.t, argv'[i]) = Word(k, argv'[i])
               \/ /\ i = c /\ n = TmpSize /\ k[TmpSize] \notin Blanks
                  /\ Len(Str(s.t, argv'[i])) > 1
    <3> DEFINE p == argv'[i]
    <3>1. p \in Starts(k)
      BY <2>1
    <3> HIDE DEF p
    <3>2. \/ Str(s.t, p) = Word(k, p)
          \/ /\ Len(k) = TmpSize /\ k[TmpSize] \notin Blanks
             /\ \A x \in Starts(k) : x <= p
             /\ Len(Str(s.t, p)) > 1
      <4>1. Len(k) <= TmpSize /\ (\A q \in 1..Len(k) : t[q] = k[q])
            /\ (Len(k) < TmpSize => t[Len(k) + 1] = NUL) /\ Marked(s.t, t, k, Len(k))
        BY <1>0, <1>3, <1>6
      <4>2. k \in Seq(LineChars) /\ t \in [1..TmpSize -> Characters]
            /\ s.t \in [1..TmpSize -> Characters]
        BY <1>3, <1>6
      <4> DEFINE u == s.t
      <4>3. Marked(u, t, k, Len(k)) /\ u \in [1..TmpSize -> Characters]
        BY <4>1, <4>2
      <4> HIDE DEF u
      <4>4. \/ Str(u, p) = Word(k, p)
            \/ /\ Len(k) = TmpSize /\ k[TmpSize] \notin Blanks
               /\ \A x \in Starts(k) : x <= p
               /\ Len(Str(u, p)) > 1
        BY <3>1, <4>1, <4>2, <4>3, WordsRead
      <4> QED
        BY <4>4 DEF u
    <3>3. ASSUME \A x \in Starts(k) : x <= p, i # c
          PROVE  FALSE
      <4>1. c \in 1..c /\ i < c /\ i \in Nat /\ c \in Nat
        BY <1>6, <3>3
      <4>2. p < argv'[c]
        BY <2>3, <4>1 DEF p
      <4>3. argv'[c] \in Starts(k) /\ argv'[c] \in Nat /\ p \in Nat
        BY <1>9, <2>1, <3>1, <4>1
      <4>4. argv'[c] <= p
        BY <3>3, <4>3
      <4> QED
        BY <4>2, <4>3, <4>4
    <3> QED
      BY <1>3, <3>2, <3>3 DEF p
  <2> HIDE DEF c
  <2> QED
    BY <2>1, <2>2, <2>3, <2>4 DEF ParsedAs
<1>13. Parsed'
  <2>1. Kept(line') = k /\ temp' = s.t /\ tmpc' = n /\ argc' = c
    BY <1>4 DEF k
  <2>2. ParsedAs(Kept(line'), temp', tmpc', argv', argc')
    BY <1>12, <2>1
  <2> QED
    BY <2>2 DEF Parsed
<1> QED
  BY <1>4, <1>11, <1>13

-----------------------------------------------------------------------------
(***************************************************************************)
(* The command table.                                                      *)
(***************************************************************************)
Entries == AllCmds \cup {NoCmd}
Tables == [1..MaxCmds -> Entries]
SlotsIn(t, c) == {i \in 1..MaxCmds : t[i] = c}
Once(t, c) == \E i \in 1..MaxCmds : SlotsIn(t, c) = {i}
None(t, c) == SlotsIn(t, c) = {}

\* comm_match_command finds the command if it is there.
LEMMA MatchIs ==
    ASSUME NEW t, NEW c
    PROVE  \/ comm_match_command(t, c) = 0 /\ None(t, c)
           \/ comm_match_command(t, c) \in 1..MaxCmds /\ t[comm_match_command(t, c)] = c
<1> DEFINE S == {i \in 1..MaxCmds : t[i] = c}
<1>0. MaxCmds \in Nat
  BY MaxCmdsAssumption
<1>1. CASE S = {}
  BY <1>1 DEF comm_match_command, None, SlotsIn
<1>2. CASE S # {}
  <2>1. S \in SUBSET Nat
    BY <1>0
  <2>2. PICK i \in S : \A y \in S : i <= y
    BY <1>2, <2>1, Least
  <2>3. i \in 1..MaxCmds /\ t[i] = c
    BY <2>2
  <2>4. \A x \in 1..(i - 1) : t[x] # c
    <3> SUFFICES ASSUME NEW x \in 1..(i - 1), t[x] = c
                 PROVE  FALSE
      OBVIOUS
    <3>1. x \in S /\ ~(i <= x)
      BY <1>0, <2>3
    <3> QED
      BY <2>2, <3>1
  <2> DEFINE pos == CHOOSE y \in 1..MaxCmds : t[y] = c /\ \A x \in 1..(y - 1) : t[x] # c
  <2>5. pos \in 1..MaxCmds /\ t[pos] = c
    BY <2>3, <2>4
  <2>6. comm_match_command(t, c) = pos
    BY <2>3 DEF comm_match_command
  <2> HIDE DEF pos
  <2> QED
    BY <2>5, <2>6
<1> QED
  BY <1>1, <1>2

\* What register does to the table: it fails and changes nothing, or puts the command
\* into a free slot.
LEMMA RegisterIs ==
    ASSUME NEW t \in Tables, NEW c \in AllCmds, c # NoCmd,
           NEW res, res = comm_cmd_register(t, c)
    PROVE  /\ res.t \in Tables
           /\ \/ res.r = -1 /\ res.t = t
              \/ /\ res.r = 0
                 /\ None(t, c) => Once(res.t, c)
                 /\ \A d \in AllCmds : d # c /\ d # NoCmd => SlotsIn(res.t, d) = SlotsIn(t, d)
<1> DEFINE pos == comm_match_command(t, NoCmd)
<1>1. pos = 0 \/ (pos \in 1..MaxCmds /\ t[pos] = NoCmd)
  BY MatchIs
<1>2. res = IF pos = 0 THEN [t |-> t, r |-> -1] ELSE [t |-> [t EXCEPT ![pos] = c], r |-> 0]
  BY DEF comm_cmd_register
<1> HIDE DEF pos
<1>3. CASE pos = 0
  BY <1>2, <1>3
<1>4. CASE pos # 0
  <2>1. pos \in 1..MaxCmds /\ t[pos] = NoCmd /\ res.r = 0 /\ res.t = [t EXCEPT ![pos] = c]
    BY <1>1, <1>2, <1>4
  <2>2. res.t \in Tables
    BY <2>1 DEF Tables, Entries
  <2>3. \A i \in 1..MaxCmds : res.t[i] = IF i = pos THEN c ELSE t[i]
    BY <2>1 DEF Tables
  <2>4. ASSUME NEW d \in AllCmds, d # c, d # NoCmd
        PROVE  SlotsIn(res.t, d) = SlotsIn(t, d)
    BY <2>1, <2>3, <2>4 DEF SlotsIn
  <2>5. ASSUME None(t, c)
        PROVE  Once(res.t, c)
    <3>1. SlotsIn(res.t, c) = {pos}
      BY <2>1, <2>3, <2>5 DEF SlotsIn, None
    <3> QED
      BY <2>1, <3>1 DEF Once
  <2> QED
    BY <2>1, <2>2, <2>4, <2>5
<1> QED
  BY <1>3, <1>4

\* What unregister does to the table: it takes the command out if it is there.
LEMMA UnregisterIs ==
    ASSUME NEW t \in Tables, NEW c \in AllCmds, c # NoCmd,
           NEW res, res = comm_cmd_unregister(t, c)
    PROVE  /\ res.t \in Tables /\ res.r \in {0, -1}
           /\ Once(t, c) => res.r = 0 /\ None(res.t, c)
           /\ \A d \in AllCmds : d # c /\ d # NoCmd => SlotsIn(res.t, d) = SlotsIn(t, d)
<1> DEFINE pos == comm_match_command(t, c)
<1>1. (pos = 0 /\ None(t, c)) \/ (pos \in 1..MaxCmds /\ t[pos] = c)
  BY MatchIs
<1>2. res = IF pos = 0 THEN [t |-> t, r |-> -1]
            ELSE [t |-> [t EXCEPT ![pos] = NoCmd], r |-> 0]
  BY DEF comm_cmd_unregister
<1>0. MaxCmds \in Nat
  BY MaxCmdsAssumption
<1> HIDE DEF pos
<1>3. CASE pos = 0
  <2>1. None(t, c)
    BY <1>0, <1>1, <1>3
  <2>2. ~Once(t, c)
    BY <2>1 DEF Once, None
  <2> QED
    BY <1>2, <1>3, <2>2
<1>4. CASE pos # 0
  <2>1. pos \in 1..MaxCmds /\ t[pos] = c /\ res.r = 0 /\ res.t = [t EXCEPT ![pos] = NoCmd]
    BY <1>1, <1>2, <1>4
  <2>2. res.t \in Tables
    BY <2>1 DEF Tables, Entries
  <2>3. \A i \in 1..MaxCmds : res.t[i] = IF i = pos THEN NoCmd ELSE t[i]
    BY <2>1 DEF Tables
  <2>4. ASSUME NEW d \in AllCmds, d # c, d # NoCmd
        PROVE  SlotsIn(res.t, d) = SlotsIn(t, d)
    BY <2>1, <2>3, <2>4 DEF SlotsIn
  <2>5. ASSUME Once(t, c)
        PROVE  None(res.t, c)
    <3>1. PICK i \in 1..MaxCmds : SlotsIn(t, c) = {i}
      BY <2>5 DEF Once
    <3>2. pos \in SlotsIn(t, c)
      BY <2>1 DEF SlotsIn
    <3>3. \A x \in 1..MaxCmds : t[x] = c => x = pos
      BY <3>1, <3>2 DEF SlotsIn
    <3> QED
      BY <2>3, <3>3 DEF None, SlotsIn
  <2> QED
    BY <2>1, <2>2, <2>4, <2>5
<1> QED
  BY <1>3, <1>4

\* The commands of the modules.
InModules(x, y) == x \in 1..2 /\ y \in 1..Len(comm_cmd_modules[x])
Cmd(x, y) == comm_cmd_modules[x][y]

\* The two modules: the usb commands with their group, the sock commands without one.
LEMMA ModulesAre ==
    /\ Len(comm_cmd_modules) = 2
    /\ comm_cmd_modules[1] = usb_cmds /\ comm_cmd_modules[2] = sock_cmds
    /\ Len(usb_cmds) = Len(UsbNames) /\ Len(sock_cmds) = Len(SockNames)
    /\ Len(UsbNames) \in Nat \ {0} /\ Len(SockNames) \in Nat \ {0}
    /\ \A y \in 1..Len(UsbNames) :
         usb_cmds[y] = [name |-> UsbNames[y], group |-> "u", nogroup |-> FALSE]
    /\ \A y \in 1..Len(SockNames) :
         sock_cmds[y] = [name |-> SockNames[y], group |-> NUL, nogroup |-> TRUE]
<1>1. Len(UsbNames) \in Nat \ {0} /\ Len(SockNames) \in Nat \ {0}
  BY NamesAssumption, EmptySeq
<1>2. Len(comm_cmd_modules) = 2 /\ comm_cmd_modules[1] = usb_cmds
      /\ comm_cmd_modules[2] = sock_cmds
  BY DEF comm_cmd_modules
<1> QED
  BY <1>1, <1>2 DEF usb_cmds, sock_cmds

\* No two places of the modules have the same command, none has one of comm_main.c, and
\* no command is a null pointer.
LEMMA Apart ==
    /\ \A x, y, a, b : InModules(x, y) /\ InModules(a, b) /\ Cmd(x, y) = Cmd(a, b)
                          => x = a /\ y = b
    /\ \A x, y : InModules(x, y) => Cmd(x, y) \in ModuleCmds
    /\ \A c \in ModuleCmds : /\ \E x, y : InModules(x, y) /\ c = Cmd(x, y)
                             /\ c \notin {cmd_quit, cmd_exit, cmd_help}
    /\ NoCmd \notin AllCmds
    /\ cmd_quit # cmd_exit /\ cmd_exit # cmd_help /\ cmd_quit # cmd_help
<1>a. /\ \A y : InModules(1, y) <=> y \in 1..Len(UsbNames)
      /\ \A y : InModules(2, y) <=> y \in 1..Len(SockNames)
      /\ \A x, y : InModules(x, y) => x \in {1, 2}
  BY ModulesAre DEF InModules
<1>b. /\ \A y \in 1..Len(UsbNames) : Cmd(1, y).name = UsbNames[y] /\ Cmd(1, y).group = "u"
      /\ \A y \in 1..Len(SockNames) : Cmd(2, y).name = SockNames[y] /\ Cmd(2, y).group = NUL
  <2>1. ASSUME NEW y \in 1..Len(UsbNames)
        PROVE  Cmd(1, y).name = UsbNames[y] /\ Cmd(1, y).group = "u"
    <3>1. Cmd(1, y) = [name |-> UsbNames[y], group |-> "u", nogroup |-> FALSE]
      BY ModulesAre, Zenon DEF Cmd
    <3> QED
      BY <3>1
  <2>2. ASSUME NEW y \in 1..Len(SockNames)
        PROVE  Cmd(2, y).name = SockNames[y] /\ Cmd(2, y).group = NUL
    <3>1. Cmd(2, y) = [name |-> SockNames[y], group |-> NUL, nogroup |-> TRUE]
      BY ModulesAre, Zenon DEF Cmd
    <3> QED
      BY <3>1
  <2> QED
    BY <2>1, <2>2
<1>1. ASSUME NEW x, NEW y, NEW a, NEW b,
             InModules(x, y), InModules(a, b), Cmd(x, y) = Cmd(a, b)
      PROVE  x = a /\ y = b
  <2>1. CASE x = 1 /\ a = 1
    BY <1>a, <1>b, <1>1, <2>1, DistinctAssumption DEF Distinct
  <2>2. CASE x = 2 /\ a = 2
    BY <1>a, <1>b, <1>1, <2>2, DistinctAssumption DEF Distinct
  <2>3. CASE x = 1 /\ a = 2
    BY <1>a, <1>b, <1>1, <2>3 DEF NUL
  <2>4. CASE x = 2 /\ a = 1
    BY <1>a, <1>b, <1>1, <2>4 DEF NUL
  <2>5. x \in {1, 2} /\ a \in {1, 2}
    BY <1>a, <1>1
  <2> QED
    BY <2>1, <2>2, <2>3, <2>4, <2>5
<1>2. \A x, y : InModules(x, y) => Cmd(x, y) \in ModuleCmds
  BY DEF ModuleCmds, InModules, Cmd
<1>3. ASSUME NEW c \in ModuleCmds
      PROVE  \E x, y : InModules(x, y) /\ c = Cmd(x, y)
  BY DEF ModuleCmds, InModules, Cmd
<1>4. ASSUME NEW c \in ModuleCmds
      PROVE  c \notin {cmd_quit, cmd_exit, cmd_help, NoCmd}
  <2>1. PICK x, y : InModules(x, y) /\ c = Cmd(x, y)
    BY <1>3
  <2>2. CASE x = 1
    <3>1. c.group = "u"
      BY <1>a, <1>b, <2>1, <2>2
    <3> QED
      BY <3>1 DEF cmd_quit, cmd_exit, cmd_help, NoCmd, NUL
  <2>3. CASE x = 2
    <3>1. c.name = SockNames[y] /\ y \in 1..Len(SockNames) /\ SockNames[y] \in Letters
      BY <1>a, <1>b, <2>1, <2>3, NamesAssumption
    <3>2. c.name \notin {"q", "e", "h", NUL}
      BY <3>1, DistinctAssumption, LettersAssumption
    <3> QED
      BY <3>2 DEF cmd_quit, cmd_exit, cmd_help, NoCmd
  <2> QED
    BY <1>a, <2>1, <2>2, <2>3
<1>5. NoCmd \notin {cmd_quit, cmd_exit, cmd_help}
  BY DEF cmd_quit, cmd_exit, cmd_help, NoCmd, NUL
<1>6. cmd_quit # cmd_exit /\ cmd_exit # cmd_help /\ cmd_quit # cmd_help
  BY DEF cmd_quit, cmd_exit, cmd_help
<1>7. NoCmd \notin AllCmds
  BY <1>4, <1>5 DEF AllCmds
<1> QED
  BY <1>1, <1>2, <1>3, <1>4, <1>6, <1>7

-----------------------------------------------------------------------------
(***************************************************************************)
(* The inductive invariant: besides types, and the words of the line while *)
(* it waits for the dispatcher (Parsed), which commands are in the table   *)
(* at each turn of the loops that fill and empty it.  While nothing has    *)
(* failed (r = 0) the commands before the place the loop is at hold one    *)
(* slot each and those from there on none, and the other way round when    *)
(* they are taken out.                                                     *)
(***************************************************************************)
Before(x, y) == x < m \/ (x = m /\ y < j)

Filling ==
    /\ \A k \in 1..3 : Once(cmds, Trivial[k])
    /\ \A x \in 1..2 : \A y \in 1..Len(comm_cmd_modules[x]) :
         IF Before(x, y) THEN Once(cmds, Cmd(x, y)) ELSE None(cmds, Cmd(x, y))
Emptying ==
    \A x \in 1..2 : \A y \in 1..Len(comm_cmd_modules[x]) :
         IF Before(x, y) THEN None(cmds, Cmd(x, y)) ELSE Once(cmds, Cmd(x, y))
Emptied == \A c \in ModuleCmds : None(cmds, c)

Table ==
    /\ phase = "main" =>
         /\ m = 1 /\ j = 1 /\ r = 0
         /\ \A c \in AllCmds : None(cmds, c)
    /\ phase = "trivialReg" =>
         /\ m = 1 /\ j \in 1..3 /\ r <= 0
         /\ r = 0 => /\ Emptied
                     /\ \A k \in 1..3 : IF k < j THEN Once(cmds, Trivial[k])
                                        ELSE None(cmds, Trivial[k])
    /\ phase = "userReg" => InModules(m, j) /\ r <= 0 /\ (r = 0 => Filling)
    /\ phase \in {"prompt", "exec"} =>
         m = 1 /\ j = 1 /\ \A c \in AllCmds : Once(cmds, c)
    /\ phase = "userUnreg" => InModules(m, j) /\ Emptying
    /\ phase = "trivialUnreg" => m = 1 /\ j \in 1..3
    /\ phase \in {"trivialUnreg", "bye"} => Emptied

Phases == {"main", "trivialReg", "userReg", "prompt", "exec", "userUnreg",
           "trivialUnreg", "bye", "failed", "crashed", "spinning"}
Places ==
    /\ phase \in Phases
    /\ console \in {"none", "stdin", "socket", "refused"} /\ listening \in BOOLEAN
    /\ cmds \in Tables
    /\ m \in 1..2 /\ r \in Int
    /\ j \in 1..3 \/ j \in 1..Len(comm_cmd_modules[m])
Latest ==
    /\ said \in Texts /\ box_quit \in BOOLEAN
    /\ ran \in Entries /\ line \in Lines \cup {<<>>}

ShellInv ==
    /\ Places /\ DataType /\ Latest
    /\ Table /\ Parsed /\ DispatchExact

\* The parts of the invariant are the types of the variables.
LEMMA ShellTypes == Places /\ DataType /\ Latest <=> TypeOK
<1>1. Len(comm_cmd_modules) = 2 /\ Len(Trivial) = 3
  BY ModulesAre DEF Trivial
<1> QED
  BY <1>1 DEF Places, DataType, Latest, TypeOK, Phases, Tables, Entries, Texts

\* The commands of comm_main.c, and all commands.
LEMMA TrivialAre ==
    /\ Len(Trivial) = 3
    /\ Trivial[1] = cmd_quit /\ Trivial[2] = cmd_exit /\ Trivial[3] = cmd_help
    /\ \A k \in 1..3 : Trivial[k] \in AllCmds /\ Trivial[k] # NoCmd
                       /\ Trivial[k] \notin ModuleCmds
    /\ \A k, i \in 1..3 : Trivial[k] = Trivial[i] => k = i
    /\ \A c \in AllCmds : c \in ModuleCmds \/ \E k \in 1..3 : c = Trivial[k]
<1>1. Len(Trivial) = 3 /\ Trivial[1] = cmd_quit /\ Trivial[2] = cmd_exit
      /\ Trivial[3] = cmd_help
  BY DEF Trivial
<1>2. \A k \in 1..3 : k = 1 \/ k = 2 \/ k = 3
  OBVIOUS
<1>3. 1 \in 1..3 /\ 2 \in 1..3 /\ 3 \in 1..3
  OBVIOUS
<1>4. \A k \in 1..3 : Trivial[k] \in AllCmds /\ Trivial[k] # NoCmd
                       /\ Trivial[k] \notin ModuleCmds
  BY <1>1, <1>2, Apart, Zenon DEF AllCmds
<1>5. \A k, i \in 1..3 : Trivial[k] = Trivial[i] => k = i
  BY <1>1, <1>2, Apart, Zenon
<1>6. \A c \in AllCmds : c \in ModuleCmds \/ \E k \in 1..3 : c = Trivial[k]
  BY <1>1, <1>3, Zenon DEF AllCmds
<1> QED
  BY <1>1, <1>4, <1>5, <1>6

\* main starts with an empty table, and no line has been read.
LEMMA InitShell == Init => ShellInv
<1> SUFFICES ASSUME Init PROVE ShellInv
  OBVIOUS
<1>0. TmpSize \in Nat \ {0} /\ ArgSize \in Nat \ {0, 1} /\ MaxCmds \in Nat \ {0}
  BY TmpSizeAssumption, ArgSizeAssumption, MaxCmdsAssumption
<1>1. Places
  <2>1. cmds \in Tables
    BY DEF Init, Tables, Entries
  <2>2. m \in 1..2 /\ r \in Int /\ j \in 1..3
    BY DEF Init
  <2>3. /\ phase \in Phases /\ listening \in BOOLEAN
        /\ console \in {"none", "stdin", "socket", "refused"}
    BY Zenon DEF Init, Phases
  <2> QED
    BY <2>1, <2>2, <2>3, Zenon DEF Places
<1>2. DataType
  <2>1. NUL \in Characters
    BY DEF Characters
  <2>2. 0 \in 0..TmpSize /\ 0 \in 0..ArgSize
    BY <1>0
  <2> QED
    BY <2>1, <2>2 DEF Init, DataType
<1>3. Latest
  <2>1. <<>> \in Texts
    BY DEF Texts
  <2> QED
    BY <2>1, Zenon DEF Init, Latest, Entries
<1>4. Table
  <2>1. \A c \in AllCmds : None(cmds, c)
    BY Apart DEF Init, None, SlotsIn
  <2> QED
    BY <2>1 DEF Init, Table
<1>5. Parsed /\ DispatchExact
  BY DEF Init, Parsed, DispatchExact
<1> QED
  BY <1>1, <1>2, <1>3, <1>4, <1>5 DEF ShellInv

\* A step outside the dispatcher that leaves the line and its words alone.
LEMMA LineKept ==
    ASSUME ShellInv, UNCHANGED <<dataVars, box_quit, ran, said, line>>,
           phase # "exec", phase' # "exec"
    PROVE  DataType' /\ Latest' /\ Parsed' /\ DispatchExact'
<1>1. DataType' /\ Latest' /\ Parsed'
  BY DEF ShellInv, DataType, Latest, Parsed, dataVars
<1>2. DispatchExact'
  BY DEF ShellInv, DispatchExact, dataVars, Is
<1> QED
  BY <1>1, <1>2

\* main and server_main before and after comm_main, and the end of the input.
LEMMA FrameKeeps ==
    ASSUME ShellInv, server_main \/ main \/ server_exit \/ EndOfInput \/ Over
    PROVE  ShellInv'
<1>1. /\ UNCHANGED <<cmds, loopVars, r, dataVars, box_quit, ran, said, line>>
      /\ phase' \in Phases
      /\ \/ phase = "main" /\ phase' \in {"failed", "trivialReg"}
         \/ phase' = phase /\ phase # "exec"
         \/ phase = "prompt" /\ phase' = "spinning"
  BY DEF server_main, main, server_exit, EndOfInput, Over, Phases, vars, loopVars, dataVars
<1>2. /\ console' \in {"none", "stdin", "socket", "refused"}
      /\ listening' \in BOOLEAN
  BY Zenon DEF ShellInv, Places, server_main, main, server_exit, EndOfInput, Over, ioVars, vars
<1>3. phase # "exec" /\ phase' # "exec"
  BY <1>1
<1>4. Places'
  BY <1>1, <1>2 DEF ShellInv, Places, loopVars
<1>5. Table'
  <2>1. CASE phase = "main" /\ phase' = "trivialReg"
    <3>1. /\ m' = 1 /\ j' = 1 /\ r' = 0 /\ cmds' = cmds
          /\ \A c \in AllCmds : None(cmds, c)
      BY <1>1, <2>1 DEF ShellInv, Table, loopVars
    <3>2. Emptied'
      BY <3>1 DEF Emptied, AllCmds
    <3>3. \A k \in 1..3 : ~(k < 1) /\ None(cmds', Trivial[k])
      BY <3>1, TrivialAre
    <3> QED
      BY <2>1, <3>1, <3>2, <3>3 DEF Table
  <2>2. CASE phase' = "failed" \/ phase' = "spinning"
    BY <2>2 DEF Table
  <2>3. CASE phase' = phase
    BY <1>1, <2>3 DEF ShellInv, Table, Filling, Emptying, Emptied, Before, loopVars
  <2> QED
    BY <1>1, <2>1, <2>2, <2>3
<1> QED
  BY <1>1, <1>3, <1>4, <1>5, LineKept DEF ShellInv

\* trivial_cmd_register puts the next of its commands into the table, or r stays below 0.
LEMMA TrivialRegKeeps ==
    ASSUME ShellInv, trivial_cmd_register
    PROVE  ShellInv'
<1> DEFINE c == Trivial[j]
           res == comm_cmd_register(cmds, c)
<1>1. /\ phase = "trivialReg" /\ cmds' = res.t /\ r' = r + res.r
      /\ \/ j < 3 /\ j' = j + 1 /\ phase' = phase
         \/ ~(j < 3) /\ j' = 1 /\ phase' = "userReg"
      /\ UNCHANGED <<ioVars, m, dataVars, box_quit, ran, said, line>>
  BY TrivialAre DEF trivial_cmd_register
<1>2. /\ m = 1 /\ j \in 1..3 /\ r <= 0 /\ r \in Int /\ cmds \in Tables
      /\ r = 0 => /\ Emptied
                  /\ \A k \in 1..3 : IF k < j THEN Once(cmds, Trivial[k])
                                     ELSE None(cmds, Trivial[k])
  BY <1>1 DEF ShellInv, Table, Places
<1>3. c \in AllCmds /\ c # NoCmd /\ c \notin ModuleCmds
  BY <1>2, TrivialAre
<1>4. /\ res.t \in Tables
      /\ \/ res.r = -1 /\ res.t = cmds
         \/ /\ res.r = 0
            /\ None(cmds, c) => Once(res.t, c)
            /\ \A d \in AllCmds : d # c /\ d # NoCmd => SlotsIn(res.t, d) = SlotsIn(cmds, d)
  BY <1>2, <1>3, RegisterIs
<1> HIDE DEF res
<1>5. Places'
  <2>1. j' \in 1..3 /\ m' \in 1..2 /\ r' \in Int /\ phase' \in Phases
    BY <1>1, <1>2, <1>4 DEF Phases
  <2>2. console' = console /\ listening' = listening
    BY <1>1 DEF ioVars
  <2> QED
    BY <1>1, <1>4, <2>1, <2>2 DEF ShellInv, Places
<1>6. Table'
  <2>0. m' = 1 /\ r' <= 0 /\ (r' = 0 => r = 0 /\ res.r = 0) /\ j' \in 1..3
    BY <1>1, <1>2, <1>4
  <2>1. ASSUME r' = 0
        PROVE  /\ Emptied'
               /\ \A k \in 1..3 : IF k < j + 1 THEN Once(cmds', Trivial[k])
                                  ELSE None(cmds', Trivial[k])
    <3>1. /\ Emptied
          /\ \A k \in 1..3 : IF k < j THEN Once(cmds, Trivial[k]) ELSE None(cmds, Trivial[k])
      BY <1>2, <2>0, <2>1
    <3>2. /\ None(cmds, c) => Once(cmds', c)
          /\ \A d \in AllCmds : d # c /\ d # NoCmd => SlotsIn(cmds', d) = SlotsIn(cmds, d)
      BY <1>1, <1>4, <2>0, <2>1
    <3>3. Emptied'
      <4>1. ASSUME NEW d \in ModuleCmds
            PROVE  None(cmds', d)
        <5>1. d \in AllCmds /\ d # c /\ d # NoCmd
          BY <1>3, Apart DEF AllCmds
        <5>2. SlotsIn(cmds', d) = SlotsIn(cmds, d)
          BY <3>2, <5>1
        <5> QED
          BY <3>1, <5>2 DEF None, Emptied
      <4> QED
        BY <4>1 DEF Emptied
    <3>4. ASSUME NEW k \in 1..3
          PROVE  IF k < j + 1 THEN Once(cmds', Trivial[k]) ELSE None(cmds', Trivial[k])
      <4>1. CASE k = j
        <5>1. ~(k < j) /\ k < j + 1
          BY <1>2, <4>1
        <5>2. None(cmds, c)
          BY <3>1, <4>1, <5>1
        <5> QED
          BY <3>2, <4>1, <5>1, <5>2
      <4>2. CASE k # j
        <5>1. k < j + 1 <=> k < j
          BY <1>2, <4>2
        <5>2. Trivial[k] \in AllCmds /\ Trivial[k] # c /\ Trivial[k] # NoCmd
          BY <1>2, <4>2, TrivialAre
        <5>3. SlotsIn(cmds', Trivial[k]) = SlotsIn(cmds, Trivial[k])
          BY <3>2, <5>2
        <5> QED
          BY <3>1, <5>1, <5>3 DEF Once, None
      <4> QED
        BY <4>1, <4>2
    <3> QED
      BY <3>3, <3>4
  <2>2. CASE j < 3
    <3>1. phase' = "trivialReg" /\ j' = j + 1
      BY <1>1, <2>2
    <3> QED
      BY <2>0, <2>1, <3>1 DEF Table
  <2>3. CASE ~(j < 3)
    <3>1. phase' = "userReg" /\ j' = 1 /\ j = 3
      BY <1>1, <1>2, <2>3
    <3>2. InModules(m', j')
      BY <2>0, <3>1, ModulesAre DEF InModules
    <3>3. ASSUME r' = 0
          PROVE  Filling'
      <4>1. \A k \in 1..3 : k < j + 1
        BY <3>1
      <4>2. \A k \in 1..3 : Once(cmds', Trivial[k])
        BY <2>1, <3>3, <4>1
      <4>3. ASSUME NEW x \in 1..2, NEW y \in 1..Len(comm_cmd_modules[x])
            PROVE  ~(x < m' \/ (x = m' /\ y < j')) /\ None(cmds', Cmd(x, y))
        <5>1. ~(x < m' \/ (x = m' /\ y < j'))
          BY <2>0, <3>1
        <5>2. Cmd(x, y) \in ModuleCmds
          BY Apart DEF InModules
        <5> QED
          BY <2>1, <3>3, <5>1, <5>2 DEF Emptied
      <4> QED
        BY <4>2, <4>3 DEF Filling, Before
    <3> QED
      BY <2>0, <3>1, <3>2, <3>3 DEF Table
  <2> QED
    BY <2>2, <2>3
<1>7. phase # "exec" /\ phase' # "exec"
  BY <1>1
<1> QED
  BY <1>1, <1>5, <1>6, <1>7, LineKept DEF ShellInv

\* The loops over the modules and their commands come to every command once, in order.
LEMMA AdvanceIs ==
    ASSUME InModules(m, j), NEW next, Advance(next)
    PROVE  \/ /\ phase' = phase /\ InModules(m', j')
              /\ \A x, y : InModules(x, y) =>
                   (x < m' \/ (x = m' /\ y < j') <=> Before(x, y) \/ (x = m /\ y = j))
           \/ /\ phase' = next /\ m' = 1 /\ j' = 1
              /\ \A x, y : InModules(x, y) => Before(x, y) \/ (x = m /\ y = j)
<1> DEFINE n(x) == Len(comm_cmd_modules[x])
<1>1. n(1) \in Nat \ {0} /\ n(2) \in Nat \ {0} /\ Len(comm_cmd_modules) = 2
  BY ModulesAre
<1>2. /\ m \in {1, 2} /\ j \in 1..n(m)
      /\ \A x, y : InModules(x, y) <=> x \in {1, 2} /\ y \in 1..n(x)
  BY DEF InModules
<1>3. \/ j < n(m) /\ m' = m /\ j' = j + 1 /\ phase' = phase
      \/ ~(j < n(m)) /\ m < 2 /\ m' = m + 1 /\ j' = 1 /\ phase' = phase
      \/ ~(j < n(m)) /\ ~(m < 2) /\ m' = 1 /\ j' = 1 /\ phase' = next
  BY <1>1 DEF Advance
<1> HIDE DEF n
<1>4. CASE j < n(m) /\ m' = m /\ j' = j + 1 /\ phase' = phase
  <2>1. InModules(m', j')
    BY <1>1, <1>2, <1>4
  <2>2. ASSUME NEW x, NEW y, InModules(x, y)
        PROVE  x < m' \/ (x = m' /\ y < j') <=> Before(x, y) \/ (x = m /\ y = j)
    <3>1. x \in {1, 2} /\ y \in Nat
      BY <1>1, <1>2, <2>2
    <3> QED
      BY <1>1, <1>2, <1>4, <3>1 DEF Before
  <2> QED
    BY <1>4, <2>1, <2>2
<1>5. CASE ~(j < n(m)) /\ m < 2 /\ m' = m + 1 /\ j' = 1 /\ phase' = phase
  <2>0. m = 1 /\ m' = 2 /\ j = n(1)
    BY <1>1, <1>2, <1>5
  <2>1. InModules(m', j')
    BY <1>1, <1>2, <1>5, <2>0
  <2>2. ASSUME NEW x, NEW y, InModules(x, y)
        PROVE  x < m' \/ (x = m' /\ y < j') <=> Before(x, y) \/ (x = m /\ y = j)
    <3>1. x \in {1, 2} /\ y \in 1..n(x)
      BY <1>2, <2>2
    <3>2. CASE x = 1
      BY <1>1, <1>5, <2>0, <3>1, <3>2 DEF Before
    <3>3. CASE x = 2
      BY <1>1, <1>5, <2>0, <3>1, <3>3 DEF Before
    <3> QED
      BY <3>1, <3>2, <3>3
  <2> QED
    BY <1>5, <2>1, <2>2
<1>6. CASE ~(j < n(m)) /\ ~(m < 2) /\ m' = 1 /\ j' = 1 /\ phase' = next
  <2>0. m = 2 /\ j = n(2)
    BY <1>1, <1>2, <1>6
  <2>1. ASSUME NEW x, NEW y, InModules(x, y)
        PROVE  Before(x, y) \/ (x = m /\ y = j)
    <3>1. x \in {1, 2} /\ y \in 1..n(x)
      BY <1>2, <2>1
    <3>2. CASE x = 1
      BY <2>0, <3>2 DEF Before
    <3>3. CASE x = 2
      BY <1>1, <2>0, <3>1, <3>3 DEF Before
    <3> QED
      BY <3>1, <3>2, <3>3
  <2> QED
    BY <1>6, <2>1
<1> QED
  BY <1>3, <1>4, <1>5, <1>6

\* comm_user_cmd_register puts the next command of the modules into the table, or comm_main
\* gives up; when it comes to the end with nothing failed every command has its slot.
LEMMA UserRegKeeps ==
    ASSUME ShellInv, comm_user_cmd_register
    PROVE  ShellInv'
<1> DEFINE c == Cmd(m, j)
           res == comm_cmd_register(cmds, c)
           next == IF r = 0 THEN "prompt" ELSE "failed"
<1>1. /\ phase = "userReg" /\ cmds' = res.t /\ r' = r + res.r
      /\ \/ res.r # 0 /\ phase' = "failed" /\ UNCHANGED loopVars
         \/ res.r = 0 /\ Advance(next)
      /\ UNCHANGED <<ioVars, dataVars, box_quit, ran, said, line>>
  BY DEF comm_user_cmd_register, Cmd
<1>2. InModules(m, j) /\ r <= 0 /\ r \in Int /\ cmds \in Tables /\ (r = 0 => Filling)
  BY <1>1 DEF ShellInv, Table, Places
<1>3. c \in AllCmds /\ c # NoCmd /\ c \in ModuleCmds
  BY <1>2, Apart DEF AllCmds
<1>4. /\ res.t \in Tables
      /\ \/ res.r = -1 /\ res.t = cmds
         \/ /\ res.r = 0
            /\ None(cmds, c) => Once(res.t, c)
            /\ \A d \in AllCmds : d # c /\ d # NoCmd => SlotsIn(res.t, d) = SlotsIn(cmds, d)
  BY <1>2, <1>3, RegisterIs
<1> HIDE DEF res
<1>5. res.r = 0 =>
        \/ /\ phase' = phase /\ InModules(m', j')
           /\ \A x, y : InModules(x, y) =>
                (x < m' \/ (x = m' /\ y < j') <=> Before(x, y) \/ (x = m /\ y = j))
        \/ /\ phase' = next /\ m' = 1 /\ j' = 1
           /\ \A x, y : InModules(x, y) => Before(x, y) \/ (x = m /\ y = j)
  BY <1>1, <1>2, AdvanceIs
<1>6. Places'
  <2>1. r' \in Int /\ phase' \in Phases
    BY <1>1, <1>2, <1>4, <1>5 DEF Phases
  <2>2. console' = console /\ listening' = listening
    BY <1>1 DEF ioVars
  <2>3. m' \in 1..2 /\ (j' \in 1..3 \/ j' \in 1..Len(comm_cmd_modules[m']))
    <3>1. CASE res.r # 0
      BY <1>1, <3>1 DEF ShellInv, Places, loopVars
    <3>2. CASE res.r = 0
      BY <1>5, <3>2 DEF InModules
    <3> QED
      BY <3>1, <3>2
  <2> QED
    BY <1>1, <1>4, <2>1, <2>2, <2>3 DEF ShellInv, Places
<1>7. ASSUME r = 0, res.r = 0
      PROVE  /\ \A k \in 1..3 : Once(cmds', Trivial[k])
             /\ \A x, y : InModules(x, y) =>
                  IF Before(x, y) \/ (x = m /\ y = j) THEN Once(cmds', Cmd(x, y))
                  ELSE None(cmds', Cmd(x, y))
  <2>1. /\ None(cmds, c) => Once(cmds', c)
        /\ \A d \in AllCmds : d # c /\ d # NoCmd => SlotsIn(cmds', d) = SlotsIn(cmds, d)
    BY <1>1, <1>4, <1>7
  <2>2. Filling
    BY <1>2, <1>7
  <2>3. ASSUME NEW k \in 1..3
        PROVE  Once(cmds', Trivial[k])
    <3>1. Trivial[k] \in AllCmds /\ Trivial[k] # c /\ Trivial[k] # NoCmd
      BY <1>3, TrivialAre
    <3>2. SlotsIn(cmds', Trivial[k]) = SlotsIn(cmds, Trivial[k])
      BY <2>1, <3>1
    <3> QED
      BY <2>2, <3>2 DEF Filling, Once
  <2>4. ASSUME NEW x, NEW y, InModules(x, y)
        PROVE  IF Before(x, y) \/ (x = m /\ y = j) THEN Once(cmds', Cmd(x, y))
               ELSE None(cmds', Cmd(x, y))
    <3>1. IF Before(x, y) THEN Once(cmds, Cmd(x, y)) ELSE None(cmds, Cmd(x, y))
      BY <2>2, <2>4 DEF Filling, InModules
    <3>2. CASE x = m /\ y = j
      <4>1. ~Before(x, y)
        BY <1>2, <3>2, ModulesAre DEF Before, InModules
      <4> QED
        BY <2>1, <3>1, <3>2, <4>1
    <3>3. CASE ~(x = m /\ y = j)
      <4>1. Cmd(x, y) \in AllCmds /\ Cmd(x, y) # c /\ Cmd(x, y) # NoCmd
        BY <1>2, <2>4, <3>3, Apart DEF AllCmds
      <4> HIDE DEF c
      <4>2. SlotsIn(cmds', Cmd(x, y)) = SlotsIn(cmds, Cmd(x, y))
        BY <2>1, <4>1
      <4> QED
        BY <3>1, <3>3, <4>2 DEF Once, None
    <3> QED
      BY <3>2, <3>3
  <2> QED
    BY <2>3, <2>4
<1>8. Table'
  <2>1. CASE phase' = "failed"
    BY <2>1 DEF Table
  <2>2. CASE phase' = phase /\ res.r = 0
    <3>1. /\ InModules(m', j')
          /\ \A x, y : InModules(x, y) =>
               (x < m' \/ (x = m' /\ y < j') <=> Before(x, y) \/ (x = m /\ y = j))
      BY <1>1, <1>5, <2>2
    <3>2. r' <= 0 /\ r' = r
      BY <1>1, <1>2, <2>2
    <3>3. ASSUME r' = 0
          PROVE  Filling'
      <4>1. /\ \A k \in 1..3 : Once(cmds', Trivial[k])
            /\ \A x, y : InModules(x, y) =>
                 IF Before(x, y) \/ (x = m /\ y = j) THEN Once(cmds', Cmd(x, y))
                 ELSE None(cmds', Cmd(x, y))
        BY <1>7, <2>2, <3>2, <3>3
      <4>2. ASSUME NEW x \in 1..2, NEW y \in 1..Len(comm_cmd_modules[x])
            PROVE  IF x < m' \/ (x = m' /\ y < j') THEN Once(cmds', Cmd(x, y))
                   ELSE None(cmds', Cmd(x, y))
        <5>1. InModules(x, y)
          BY DEF InModules
        <5> QED
          BY <3>1, <4>1, <5>1
      <4> QED
        BY <4>1, <4>2 DEF Filling, Before
    <3> QED
      BY <1>1, <2>2, <3>1, <3>2, <3>3 DEF Table
  <2>3. CASE phase' = "prompt" /\ r = 0 /\ res.r = 0
    <3>1. /\ m' = 1 /\ j' = 1
          /\ \A x, y : InModules(x, y) => Before(x, y) \/ (x = m /\ y = j)
      BY <1>1, <1>5, <2>3
    <3>2. ASSUME NEW d \in AllCmds
          PROVE  Once(cmds', d)
      <4>1. CASE d \in ModuleCmds
        <5>1. PICK x, y : InModules(x, y) /\ d = Cmd(x, y)
          BY <4>1, Apart
        <5> QED
          BY <1>7, <2>3, <3>1, <5>1
      <4>2. CASE \E k \in 1..3 : d = Trivial[k]
        BY <1>7, <2>3, <4>2
      <4> QED
        BY <4>1, <4>2, TrivialAre
    <3> QED
      BY <2>3, <3>1, <3>2 DEF Table
  <2> QED
    BY <1>1, <1>5, <2>1, <2>2, <2>3
<1>9. phase # "exec" /\ phase' # "exec"
  BY <1>1, <1>5
<1> QED
  BY <1>1, <1>6, <1>8, <1>9, LineKept DEF ShellInv

\* comm_user_cmd_unregister takes the commands of the modules out again; it finds each.
LEMMA UserUnregKeeps ==
    ASSUME ShellInv, comm_user_cmd_unregister
    PROVE  ShellInv'
<1> DEFINE c == Cmd(m, j)
           res == comm_cmd_unregister(cmds, c)
<1>1. /\ phase = "userUnreg" /\ cmds' = res.t /\ r' = r + res.r
      /\ \/ res.r # 0
         \/ res.r = 0 /\ Advance("trivialUnreg")
      /\ UNCHANGED <<ioVars, dataVars, box_quit, ran, said, line>>
  BY DEF comm_user_cmd_unregister, Cmd
<1>2. InModules(m, j) /\ r \in Int /\ cmds \in Tables /\ Emptying
  BY <1>1 DEF ShellInv, Table, Places
<1>3. c \in AllCmds /\ c # NoCmd /\ c \in ModuleCmds
  BY <1>2, Apart DEF AllCmds
<1>4. Once(cmds, c)
  <2>1. ~Before(m, j)
    BY <1>2, ModulesAre DEF Before, InModules
  <2> QED
    BY <1>2, <2>1 DEF Emptying, InModules
<1>5. /\ res.t \in Tables /\ res.r = 0 /\ None(res.t, c)
      /\ \A d \in AllCmds : d # c /\ d # NoCmd => SlotsIn(res.t, d) = SlotsIn(cmds, d)
  BY <1>2, <1>3, <1>4, UnregisterIs
<1> HIDE DEF res
<1>6. \/ /\ phase' = phase /\ InModules(m', j')
         /\ \A x, y : InModules(x, y) =>
              (x < m' \/ (x = m' /\ y < j') <=> Before(x, y) \/ (x = m /\ y = j))
      \/ /\ phase' = "trivialUnreg" /\ m' = 1 /\ j' = 1
         /\ \A x, y : InModules(x, y) => Before(x, y) \/ (x = m /\ y = j)
  BY <1>1, <1>2, <1>5, AdvanceIs
<1>7. Places'
  <2>1. r' \in Int /\ phase' \in Phases
    BY <1>1, <1>2, <1>5, <1>6 DEF Phases
  <2>2. console' = console /\ listening' = listening
    BY <1>1 DEF ioVars
  <2>3. m' \in 1..2 /\ (j' \in 1..3 \/ j' \in 1..Len(comm_cmd_modules[m']))
    BY <1>6 DEF InModules
  <2> QED
    BY <1>1, <1>5, <2>1, <2>2, <2>3 DEF ShellInv, Places
<1>8. ASSUME NEW x, NEW y, InModules(x, y)
      PROVE  IF Before(x, y) \/ (x = m /\ y = j) THEN None(cmds', Cmd(x, y))
             ELSE Once(cmds', Cmd(x, y))
  <2>1. IF Before(x, y) THEN None(cmds, Cmd(x, y)) ELSE Once(cmds, Cmd(x, y))
    BY <1>2, <1>8 DEF Emptying, InModules
  <2>2. CASE x = m /\ y = j
    BY <1>1, <1>5, <2>2
  <2>3. CASE ~(x = m /\ y = j)
    <3>1. Cmd(x, y) \in AllCmds /\ Cmd(x, y) # c /\ Cmd(x, y) # NoCmd
      BY <1>2, <1>8, <2>3, Apart DEF AllCmds
    <3> HIDE DEF c
    <3>2. SlotsIn(cmds', Cmd(x, y)) = SlotsIn(cmds, Cmd(x, y))
      BY <1>1, <1>5, <3>1
    <3> QED
      BY <2>1, <2>3, <3>2 DEF Once, None
  <2> QED
    BY <2>2, <2>3
<1>9. Table'
  <2>1. CASE phase' = phase
    <3>1. /\ InModules(m', j')
          /\ \A x, y : InModules(x, y) =>
               (x < m' \/ (x = m' /\ y < j') <=> Before(x, y) \/ (x = m /\ y = j))
      BY <1>1, <1>6, <2>1
    <3>2. ASSUME NEW x \in 1..2, NEW y \in 1..Len(comm_cmd_modules[x])
          PROVE  IF x < m' \/ (x = m' /\ y < j') THEN None(cmds', Cmd(x, y))
                 ELSE Once(cmds', Cmd(x, y))
      <4>1. InModules(x, y)
        BY DEF InModules
      <4> QED
        BY <1>8, <3>1, <4>1
    <3>3. Emptying'
      BY <3>2 DEF Emptying, Before
    <3> QED
      BY <1>1, <2>1, <3>1, <3>3 DEF Table
  <2>2. CASE phase' = "trivialUnreg"
    <3>1. /\ m' = 1 /\ j' = 1
          /\ \A x, y : InModules(x, y) => Before(x, y) \/ (x = m /\ y = j)
      BY <1>1, <1>6, <2>2
    <3>2. ASSUME NEW d \in ModuleCmds
          PROVE  None(cmds', d)
      <4>1. PICK x, y : InModules(x, y) /\ d = Cmd(x, y)
        BY Apart
      <4> QED
        BY <1>8, <3>1, <4>1
    <3>3. Emptied'
      BY <3>2 DEF Emptied
    <3> QED
      BY <2>2, <3>1, <3>3 DEF Table
  <2> QED
    BY <1>6, <2>1, <2>2
<1>10. phase # "exec" /\ phase' # "exec"
  BY <1>1, <1>6
<1> QED
  BY <1>1, <1>7, <1>9, <1>10, LineKept DEF ShellInv

\* trivial_cmd_unregister, with its call of register in the middle, brings no command of a
\* module back.
LEMMA TrivialUnregKeeps ==
    ASSUME ShellInv, trivial_cmd_unregister
    PROVE  ShellInv'
<1> DEFINE c == Trivial[j]
           res == IF c = cmd_exit THEN comm_cmd_register(cmds, c)
                                  ELSE comm_cmd_unregister(cmds, c)
<1>1. /\ phase = "trivialUnreg" /\ cmds' = res.t /\ r' = r + res.r
      /\ \/ j < 3 /\ j' = j + 1 /\ phase' = phase
         \/ j' = 1 /\ phase' \in {"bye", "failed"}
      /\ UNCHANGED <<ioVars, m, dataVars, box_quit, ran, said, line>>
  BY TrivialAre DEF trivial_cmd_unregister
<1>2. m = 1 /\ j \in 1..3 /\ r \in Int /\ cmds \in Tables /\ Emptied
  BY <1>1 DEF ShellInv, Table, Places
<1>3. c \in AllCmds /\ c # NoCmd /\ c \notin ModuleCmds
  BY <1>2, TrivialAre
<1>4. /\ res.t \in Tables /\ res.r \in {0, -1}
      /\ \A d \in AllCmds : d # c /\ d # NoCmd => SlotsIn(res.t, d) = SlotsIn(cmds, d)
  <2>1. CASE c = cmd_exit
    <3> DEFINE q == comm_cmd_register(cmds, c)
    <3>1. /\ q.t \in Tables
          /\ \/ q.r = -1 /\ q.t = cmds
             \/ /\ q.r = 0
                /\ None(cmds, c) => Once(q.t, c)
                /\ \A d \in AllCmds : d # c /\ d # NoCmd => SlotsIn(q.t, d) = SlotsIn(cmds, d)
      BY <1>2, <1>3, RegisterIs
    <3>2. res = q
      BY <2>1
    <3> HIDE DEF q, res
    <3> QED
      BY <3>1, <3>2
  <2>2. CASE c # cmd_exit
    <3> DEFINE q == comm_cmd_unregister(cmds, c)
    <3>1. /\ q.t \in Tables /\ q.r \in {0, -1}
          /\ \A d \in AllCmds : d # c /\ d # NoCmd => SlotsIn(q.t, d) = SlotsIn(cmds, d)
      BY <1>2, <1>3, UnregisterIs
    <3>2. res = q
      BY <2>2
    <3> HIDE DEF q, res
    <3> QED
      BY <3>1, <3>2
  <2> QED
    BY <2>1, <2>2
<1> HIDE DEF res
<1>5. Places'
  <2>1. j' \in 1..3 /\ m' \in 1..2 /\ r' \in Int /\ phase' \in Phases
    BY <1>1, <1>2, <1>4 DEF Phases
  <2>2. console' = console /\ listening' = listening
    BY <1>1 DEF ioVars
  <2> QED
    BY <1>1, <1>4, <2>1, <2>2 DEF ShellInv, Places
<1>6. Emptied'
  <2>1. ASSUME NEW d \in ModuleCmds
        PROVE  None(cmds', d)
    <3>1. d \in AllCmds /\ d # c /\ d # NoCmd
      BY <1>3, Apart DEF AllCmds
    <3> HIDE DEF c
    <3>2. SlotsIn(cmds', d) = SlotsIn(cmds, d)
      BY <1>1, <1>4, <3>1
    <3> QED
      BY <1>2, <3>2 DEF None, Emptied
  <2> QED
    BY <2>1 DEF Emptied
<1>7. Table'
  <2>1. m' = 1 /\ j' \in 1..3 /\ phase' \in {"trivialUnreg", "bye", "failed"}
    BY <1>1, <1>2
  <2> QED
    BY <1>6, <2>1 DEF Table
<1>8. phase # "exec" /\ phase' # "exec"
  BY <1>1
<1> QED
  BY <1>1, <1>5, <1>7, <1>8, LineKept DEF ShellInv

\* Reading and parsing a line leaves the table alone and waits for the dispatcher.
LEMMA ReadLineKeeps ==
    ASSUME ShellInv, ReadLine
    PROVE  ShellInv'
<1>1. /\ phase = "prompt" /\ phase' = "exec" /\ said' = <<>>
      /\ UNCHANGED <<ioVars, cmds, loopVars, r, box_quit, ran>>
  BY DEF ReadLine
<1>2. DataType' /\ Parsed' /\ line' \in Lines
  BY ReadLineParses DEF ShellInv
<1>3. Places'
  BY <1>1 DEF ShellInv, Places, Phases, ioVars, loopVars
<1>4. Latest'
  BY <1>1, <1>2 DEF ShellInv, Latest, Texts
<1>5. Table'
  BY <1>1 DEF ShellInv, Table, loopVars
<1>6. DispatchExact'
  BY <1>1 DEF DispatchExact
<1> QED
  BY <1>2, <1>3, <1>4, <1>5, <1>6 DEF ShellInv

\* The dispatcher's comparisons: a string of one character is a word, the first pointer is
\* to the first word and the second to the second.
LEMMA WordsInOrder ==
    ASSUME NEW l \in Seq(LineChars), NEW t, NEW n, NEW a, NEW c \in Nat,
           ParsedAs(l, t, n, a, c)
    PROVE  /\ \A i \in 1..c : \A x : Str(t, a[i]) = <<x>> => Word(l, a[i]) = <<x>>
           /\ c >= 1 => a[1] \in Starts(l) /\ \A x \in Starts(l) : a[1] <= x
           /\ c >= 2 => /\ a[2] \in Starts(l) \ {a[1]}
                        /\ \A x \in Starts(l) \ {a[1]} : a[2] <= x
<1>0. \A p \in Starts(l) : p \in Nat
  BY DEF Starts
<1>1. ASSUME NEW i \in 1..c, NEW x, Str(t, a[i]) = <<x>>
      PROVE  Word(l, a[i]) = <<x>>
  <2>1. Len(Str(t, a[i])) = 1
    BY <1>1
  <2>2. ~(Len(Str(t, a[i])) > 1)
    BY <2>1
  <2> QED
    BY <1>1, <2>2, Zenon DEF ParsedAs
<1>2. ASSUME NEW k \in 1..c
      PROVE  \A x \in Starts(l) : (\A i \in 1..(k - 1) : x # a[i]) => a[k] <= x
  <2> SUFFICES ASSUME NEW x \in Starts(l), \A i \in 1..(k - 1) : x # a[i]
               PROVE  a[k] <= x
    OBVIOUS
  <2>1. PICK y \in 1..c : a[y] = x
    BY DEF ParsedAs
  <2>2. a[k] \in Nat /\ a[y] \in Nat
    BY <1>0 DEF ParsedAs
  <2>3. y \notin 1..(k - 1)
    BY <2>1
  <2>4. y = k \/ k < y
    BY <2>3
  <2>5. k < y => a[k] < a[y]
    BY DEF ParsedAs
  <2> QED
    BY <2>1, <2>2, <2>4, <2>5
<1>3. ASSUME c >= 1
      PROVE  a[1] \in Starts(l) /\ \A x \in Starts(l) : a[1] <= x
  <2>1. 1 \in 1..c /\ 1..(1 - 1) = {}
    BY <1>3
  <2> QED
    BY <1>2, <2>1 DEF ParsedAs
<1>4. ASSUME c >= 2
      PROVE  /\ a[2] \in Starts(l) \ {a[1]}
             /\ \A x \in Starts(l) \ {a[1]} : a[2] <= x
  <2>1. 1 \in 1..c /\ 2 \in 1..c /\ \A i \in 1..(2 - 1) : i = 1
    BY <1>4
  <2>2. a[1] < a[2] /\ a[1] \in Nat /\ a[2] \in Nat /\ a[2] \in Starts(l)
    BY <1>0, <2>1 DEF ParsedAs
  <2>3. a[2] # a[1]
    BY <2>2
  <2> QED
    BY <1>2, <2>1, <2>2, <2>3
<1> QED
  BY <1>1, <1>3, <1>4

\* What the dispatcher runs is what the line names, or a command whose group alone it names.
LEMMA HitIsNamed ==
    ASSUME DataType, line \in Lines \cup {<<>>}, argc # 0, NEW c, Hit(c),
           ParsedAs(Kept(line), temp, tmpc, argv, argc)
    PROVE  Names(Kept(line), c) \/ (argc = 1 /\ ~c.nogroup /\ Is(1, c.group))
<1> DEFINE l == Kept(line)
<1>0. argc \in Nat /\ argc >= 1 /\ 1 \in 1..argc
  BY ArgSizeAssumption DEF DataType
<1>1. l \in Seq(LineChars)
  <2>1. line \in Seq(LineChars)
    <3>1. \A x \in Lines : x \in Seq(LineChars)
      BY LinesAssumption DEF LineChars
    <3>2. <<>> \in Seq(LineChars)
      OBVIOUS
    <3> QED
      BY <3>1, <3>2, Zenon
  <2> QED
    BY <2>1, LineRead DEF DataType
<1> HIDE DEF l
<1>2. ParsedAs(l, temp, tmpc, argv, argc)
  BY DEF l
<1>3. /\ \A i \in 1..argc : \A x : Str(temp, argv[i]) = <<x>> => Word(l, argv[i]) = <<x>>
      /\ argv[1] \in Starts(l) /\ \A x \in Starts(l) : argv[1] <= x
      /\ argc >= 2 => /\ argv[2] \in Starts(l) \ {argv[1]}
                      /\ \A x \in Starts(l) \ {argv[1]} : argv[2] <= x
  BY <1>0, <1>1, <1>2, WordsInOrder
<1>4. CASE c.nogroup /\ Is(1, c.name)
  <2>1. Word(l, argv[1]) = <<c.name>>
    BY <1>0, <1>3, <1>4 DEF Is
  <2>2. Names(l, c)
    BY <1>3, <1>4, <2>1 DEF Names
  <2> QED
    BY <2>2 DEF l
<1>5. CASE ~c.nogroup /\ Is(1, c.group) /\ argv[2] # 0 /\ Is(2, c.name)
  <2>1. Word(l, argv[1]) = <<c.group>>
    BY <1>0, <1>3, <1>5 DEF Is
  <2>2. CASE argc >= 2
    <3>1. 2 \in 1..argc
      BY <1>0, <2>2
    <3>2. Word(l, argv[2]) = <<c.name>>
      BY <1>3, <1>5, <3>1 DEF Is
    <3>3. Names(l, c)
      BY <1>3, <1>5, <2>1, <2>2, <3>2 DEF Names
    <3> QED
      BY <3>3 DEF l
  <2>3. CASE argc = 1
    BY <1>5, <2>3
  <2> QED
    BY <1>0, <2>2, <2>3
<1> QED
  BY <1>4, <1>5 DEF Hit

\* echo prints a string, whatever its second argument is.
LEMMA EchoIs ==
    ASSUME DataType
    PROVE  do_cmd_echo \in Texts
<1>0. ArgSize \in Nat /\ 2 \in 1..ArgSize /\ TmpSize \in Nat
  BY ArgSizeAssumption, TmpSizeAssumption DEF DataType
<1>1. argv[2] \in 0..TmpSize
  BY <1>0 DEF DataType
<1>2. CASE argv[2] = 0
  <2>1. do_cmd_echo = <<"(null)">>
    BY <1>2 DEF do_cmd_echo
  <2>2. "(null)" \in Characters \cup {"junk", "(null)"}
    OBVIOUS
  <2>3. <<"(null)">> \in Seq(Characters \cup {"junk", "(null)"})
    BY <2>2
  <2> QED
    BY <2>1, <2>3 DEF Texts
<1>3. CASE argv[2] # 0
  <2>1. argv[2] \in 1..TmpSize /\ temp \in [1..TmpSize -> Characters]
    BY <1>0, <1>1, <1>3 DEF DataType
  <2> QED
    BY <1>3, <2>1, StrType DEF do_cmd_echo
<1> QED
  BY <1>2, <1>3

\* The dispatcher runs one command or none, and after quit or exit the commands are all
\* there to be taken out.
LEMMA ExecKeeps ==
    ASSUME ShellInv, comm_exec_command
    PROVE  ShellInv'
<1> DEFINE stops == IF argc = 0 THEN {}
                    ELSE {i \in 1..MaxCmds : Hit(cmds[i]) \/ Trap(cmds[i])}
           first == CHOOSE i \in stops : \A x \in stops : i <= x
           c == cmds[first]
<1>1. /\ phase = "exec"
      /\ UNCHANGED <<ioVars, cmds, loopVars, r, dataVars, line>>
      /\ \/ /\ ran' = NoCmd /\ phase' \in {"prompt", "crashed"}
            /\ UNCHANGED <<box_quit, said>>
         \/ /\ stops # {} /\ ~Trap(c)
            /\ ran' = c /\ said' = sock_cmd_handler(c)
            /\ box_quit' = (c \in {cmd_quit, cmd_exit})
            /\ phase' = IF box_quit' THEN "userUnreg" ELSE "prompt"
  BY DEF comm_exec_command
<1>2. stops # {} => first \in stops
  <2>1. stops \in SUBSET Nat
    BY MaxCmdsAssumption
  <2>2. stops # {} => \E i \in stops : \A x \in stops : i <= x
    BY <2>1, Least
  <2> HIDE DEF stops
  <2> QED
    BY <2>2
<1>3. stops # {} => argc # 0 /\ first \in 1..MaxCmds /\ (Hit(c) \/ Trap(c))
  BY <1>2
<1> HIDE DEF stops, first
<1>4. /\ cmds \in Tables /\ DataType /\ line \in Lines \cup {<<>>}
      /\ ParsedAs(Kept(line), temp, tmpc, argv, argc)
      /\ m = 1 /\ j = 1 /\ \A d \in AllCmds : Once(cmds, d)
  BY <1>1 DEF ShellInv, Places, Latest, Parsed, Table
<1>5. phase' \in {"prompt", "crashed", "userUnreg"}
  BY <1>1
<1>6. Places' /\ DataType' /\ Parsed'
  <2>1. Places'
    BY <1>1, <1>5 DEF ShellInv, Places, Phases, ioVars, loopVars
  <2>2. DataType'
    BY <1>1, <1>4 DEF DataType, dataVars
  <2>3. Parsed'
    BY <1>5 DEF Parsed
  <2> QED
    BY <2>1, <2>2, <2>3
<1>7. Table'
  <2>0. m' = 1 /\ j' = 1 /\ cmds' = cmds
    BY <1>1, <1>4 DEF loopVars
  <2>1. CASE phase' = "prompt"
    BY <1>4, <2>0, <2>1 DEF Table
  <2>2. CASE phase' = "crashed"
    BY <2>2 DEF Table
  <2>3. CASE phase' = "userUnreg"
    <3>1. InModules(m', j')
      BY <2>0, ModulesAre DEF InModules
    <3>2. ASSUME NEW x \in 1..2, NEW y \in 1..Len(comm_cmd_modules[x])
          PROVE  ~(x < m' \/ (x = m' /\ y < j')) /\ Once(cmds', Cmd(x, y))
      <4>1. ~(x < m' \/ (x = m' /\ y < j'))
        BY <2>0
      <4>2. Cmd(x, y) \in AllCmds
        BY Apart DEF InModules, AllCmds
      <4> QED
        BY <1>4, <2>0, <4>1, <4>2
    <3>3. Emptying'
      BY <3>2 DEF Emptying, Before
    <3> QED
      BY <2>3, <3>1, <3>3 DEF Table
  <2> QED
    BY <1>5, <2>1, <2>2, <2>3
<1>8. CASE ran' = NoCmd /\ UNCHANGED <<box_quit, said>>
  <2>1. Latest'
    BY <1>1, <1>8 DEF ShellInv, Latest, Entries
  <2>2. DispatchExact'
    BY <1>1, <1>8 DEF ShellInv, DispatchExact, dataVars
  <2> QED
    BY <1>6, <1>7, <2>1, <2>2 DEF ShellInv
<1>9. CASE /\ stops # {} /\ ~Trap(c)
           /\ ran' = c /\ said' = sock_cmd_handler(c)
           /\ box_quit' = (c \in {cmd_quit, cmd_exit})
  <2>1. argc # 0 /\ Hit(c) /\ c \in Entries
    BY <1>3, <1>4, <1>9 DEF Tables
  <2>2. said' \in Texts /\ (said' # <<>> => said' = do_cmd_echo)
    <3>1. do_cmd_echo \in Texts /\ <<>> \in Texts
      BY <1>4, EchoIs DEF Texts
    <3> QED
      BY <1>9, <3>1, Zenon DEF sock_cmd_handler
  <2>3. Latest'
    <3>1. box_quit' \in BOOLEAN
      BY <1>9
    <3>2. line' = line
      BY <1>1
    <3> QED
      BY <1>4, <1>9, <2>1, <2>2, <3>1, <3>2 DEF Latest
  <2>4. DispatchExact'
    <3>1. Names(Kept(line), c) \/ (argc = 1 /\ ~c.nogroup /\ Is(1, c.group))
      BY <1>4, <2>1, HitIsNamed
    <3>2. line' = line /\ argc' = argc /\ temp' = temp /\ argv' = argv
      BY <1>1 DEF dataVars
    <3> HIDE DEF c
    <3> QED
      BY <1>9, <3>1, <3>2, Zenon DEF DispatchExact, Is
  <2> QED
    BY <1>6, <1>7, <2>3, <2>4 DEF ShellInv
<1> QED
  BY <1>1, <1>8, <1>9

\* Every step of the shell keeps the invariant.
LEMMA NextKeepsShell == ShellInv /\ [Next]_vars => ShellInv'
<1> SUFFICES ASSUME ShellInv, [Next]_vars PROVE ShellInv'
  OBVIOUS
<1>1. CASE server_main \/ main \/ server_exit \/ EndOfInput \/ Over
  BY <1>1, FrameKeeps
<1>2. CASE trivial_cmd_register
  BY <1>2, TrivialRegKeeps
<1>3. CASE comm_user_cmd_register
  BY <1>3, UserRegKeeps
<1>4. CASE comm_exec_command
  BY <1>4, ExecKeeps
<1>5. CASE comm_user_cmd_unregister
  BY <1>5, UserUnregKeeps
<1>6. CASE trivial_cmd_unregister
  BY <1>6, TrivialUnregKeeps
<1>7. CASE ReadLine
  BY <1>7, ReadLineKeeps
<1>8. CASE UNCHANGED vars
  <2> USE <1>8 DEF vars, ShellInv
  <2>1. Places'
    BY DEF Places
  <2>2. DataType' /\ Latest'
    BY DEF DataType, Latest
  <2>3. Table'
    BY DEF Table, Filling, Emptying, Emptied, Before
  <2>4. Parsed' /\ DispatchExact'
    BY DEF Parsed, DispatchExact, Is
  <2> QED
    BY <2>1, <2>2, <2>3, <2>4
<1> QED
  BY <1>1, <1>2, <1>3, <1>4, <1>5, <1>6, <1>7, <1>8 DEF Next, Step

\* The invariant of comm_main: types, table, words and the command run.
THEOREM ShellInvariant == Spec => []ShellInv
<1>1. Init => ShellInv
  BY InitShell
<1>2. ShellInv /\ [Next]_vars => ShellInv'
  BY NextKeepsShell
<1> QED
  BY <1>1, <1>2, PTL DEF Spec

-----------------------------------------------------------------------------
\* The variables of the shell keep their types; comm_parse_command, which does not look at
\* the size of d->argv, never stores more pointers than it has cells, however many words
\* the buffer holds: two characters of it make one word at most.
THEOREM TypeCorrect == Spec => []TypeOK
<1>1. ShellInv => TypeOK
  BY ShellTypes DEF ShellInv
<1> QED
  BY <1>1, ShellInvariant, PTL

\* comm_parse_command finds the words of the line that comm_get_command kept, in order and
\* each with its terminator, in a buffer of any size and after any lines.
THEOREM ParsesExactly == Spec => []ParseExact
<1>1. ASSUME ShellInv
      PROVE  ParseExact
  <2> SUFFICES ASSUME phase = "exec"
               PROVE  LET l == Kept(line) IN
                      /\ {argv[i] : i \in 1..argc} = Starts(l)
                      /\ \A i \in 1..(argc - 1) : argv[i] < argv[i + 1]
                      /\ \A i \in 1..argc :
                           \/ Str(temp, argv[i]) = Word(l, argv[i])
                           \/ i = argc /\ tmpc = TmpSize /\ l[TmpSize] \notin Blanks
    BY Zenon DEF ParseExact
  <2> DEFINE l == Kept(line)
  <2>1. ParsedAs(l, temp, tmpc, argv, argc) /\ argc \in Nat
    BY <1>1, ArgSizeAssumption DEF ShellInv, Parsed, DataType
  <2> HIDE DEF l
  <2>2. {argv[i] : i \in 1..argc} = Starts(l)
    BY <2>1 DEF ParsedAs
  <2>3. \A i \in 1..(argc - 1) : argv[i] < argv[i + 1]
    <3>1. \A i \in 1..(argc - 1) : i \in 1..argc /\ i + 1 \in 1..argc /\ i < i + 1
      BY <2>1
    <3> QED
      BY <2>1, <3>1 DEF ParsedAs
  <2>4. \A i \in 1..argc :
          \/ Str(temp, argv[i]) = Word(l, argv[i])
          \/ i = argc /\ tmpc = TmpSize /\ l[TmpSize] \notin Blanks
    BY <2>1, Zenon DEF ParsedAs
  <2> QED
    BY <2>2, <2>3, <2>4, Zenon DEF l
<1> QED
  BY <1>1, ShellInvariant, PTL

\* comm_exec_command runs a handler only for a line that names its command, or for one that
\* is the bare name of its group.
THEOREM DispatchesExactly == Spec => []DispatchExact
<1>1. ShellInv => DispatchExact
  BY DEF ShellInv
<1> QED
  BY <1>1, ShellInvariant, PTL

\* While comm_main reads lines every command holds exactly one slot of comm_cmds, for any
\* two modules and a table of any size: otherwise it has given up before.
THEOREM EveryCommandOnce == Spec => []EachOnce
<1>1. ShellInv => EachOnce
  <2>1. \A c : SlotsIn(cmds, c) = Slots(c)
    BY DEF SlotsIn, Slots
  <2> QED
    BY <2>1 DEF ShellInv, Table, EachOnce, Once
<1> QED
  BY <1>1, ShellInvariant, PTL

\* When comm_main says good-bye the commands of the modules are out of comm_cmds, although
\* trivial_cmd_unregister registers a command in between.
THEOREM ModulesAreOut == Spec => []NoModuleCommandLeft
<1>1. ShellInv => NoModuleCommandLeft
  <2>1. \A c : SlotsIn(cmds, c) = Slots(c)
    BY DEF SlotsIn, Slots
  <2> QED
    BY <2>1 DEF ShellInv, Table, NoModuleCommandLeft, Emptied, None
<1> QED
  BY <1>1, ShellInvariant, PTL

-----------------------------------------------------------------------------
(***************************************************************************)
(* The end of comm_main.  After quit or exit the loops that empty the      *)
(* table find every command (EndInv), so comm_main never reports a failure *)
(* there; what is left is what the call of register in the middle of       *)
(* trivial_cmd_unregister has put there.                                   *)
(***************************************************************************)
Twice(t, c) == \E i, k \in 1..MaxCmds : i # k /\ SlotsIn(t, c) = {i, k}

\* The table when trivial_cmd_unregister is at its k-th call, 4 when it has made all. The
\* slot quit leaves free is there for the register call and may be the only one.
Leaving(k) ==
    /\ IF k = 1 THEN Once(cmds, cmd_quit) ELSE None(cmds, cmd_quit)
    /\ k \in {2, 4} => ~None(cmds, NoCmd)
    /\ IF k <= 2 THEN Once(cmds, cmd_exit) ELSE Twice(cmds, cmd_exit)
    /\ IF k <= 3 THEN Once(cmds, cmd_help) ELSE None(cmds, cmd_help)
EndInv ==
    /\ phase \in {"prompt", "exec", "userUnreg", "trivialUnreg"} => r = 0
    /\ phase = "userUnreg" => Leaving(1)
    /\ phase = "trivialUnreg" => Leaving(j)
    /\ phase = "bye" => Leaving(4)
    /\ box_quit => phase \in {"userUnreg", "trivialUnreg", "bye"}

\* When comm_main says good-bye the table holds exit, in two slots, and nothing else.
LeavesExitTwice ==
    phase = "bye" =>
        \E i, k \in 1..MaxCmds :
            /\ i # k
            /\ cmds = [x \in 1..MaxCmds |-> IF x \in {i, k} THEN cmd_exit ELSE NoCmd]

\* Once quit or exit has run, comm_main does not report a failure.
QuitSucceeds == box_quit => phase # "failed"

\* Registering a command a second time, with a slot free, leaves it in two slots.
LEMMA RegisterAgain ==
    ASSUME NEW t \in Tables, NEW c \in AllCmds, c # NoCmd, Once(t, c), ~None(t, NoCmd),
           NEW res, res = comm_cmd_register(t, c)
    PROVE  /\ res.t \in Tables /\ res.r = 0 /\ Twice(res.t, c)
           /\ \A d \in AllCmds : d # c /\ d # NoCmd => SlotsIn(res.t, d) = SlotsIn(t, d)
<1> DEFINE pos == comm_match_command(t, NoCmd)
<1>0. MaxCmds \in Nat
  BY MaxCmdsAssumption
<1>1. pos \in 1..MaxCmds /\ t[pos] = NoCmd
  BY MatchIs
<1>2. res = IF pos = 0 THEN [t |-> t, r |-> -1] ELSE [t |-> [t EXCEPT ![pos] = c], r |-> 0]
  BY DEF comm_cmd_register
<1> HIDE DEF pos
<1>3. res.r = 0 /\ res.t = [t EXCEPT ![pos] = c]
  BY <1>0, <1>1, <1>2
<1>4. res.t \in Tables /\ \A i \in 1..MaxCmds : res.t[i] = IF i = pos THEN c ELSE t[i]
  BY <1>1, <1>3 DEF Tables, Entries
<1>5. \A d \in AllCmds : d # c /\ d # NoCmd => SlotsIn(res.t, d) = SlotsIn(t, d)
  BY <1>1, <1>4 DEF SlotsIn
<1>6. PICK i \in 1..MaxCmds : SlotsIn(t, c) = {i}
  BY DEF Once
<1>7. i # pos /\ SlotsIn(res.t, c) = {i, pos}
  BY <1>1, <1>4, <1>6 DEF SlotsIn
<1> QED
  BY <1>1, <1>3, <1>4, <1>5, <1>7 DEF Twice

\* A command that was taken out leaves its slot free.
LEMMA UnregisterFrees ==
    ASSUME NEW t \in Tables, NEW c \in AllCmds, Once(t, c)
    PROVE  ~None(comm_cmd_unregister(t, c).t, NoCmd)
<1> DEFINE pos == comm_match_command(t, c)
<1>0. MaxCmds \in Nat
  BY MaxCmdsAssumption
<1>1. pos \in 1..MaxCmds
  <2>1. ~None(t, c)
    BY DEF Once, None
  <2> QED
    BY <2>1, MatchIs
<1>2. comm_cmd_unregister(t, c) = IF pos = 0 THEN [t |-> t, r |-> -1]
                                  ELSE [t |-> [t EXCEPT ![pos] = NoCmd], r |-> 0]
  BY DEF comm_cmd_unregister
<1> HIDE DEF pos
<1>3. comm_cmd_unregister(t, c).t = [t EXCEPT ![pos] = NoCmd]
  BY <1>0, <1>1, <1>2
<1>4. [t EXCEPT ![pos] = NoCmd][pos] = NoCmd
  BY <1>1 DEF Tables
<1> QED
  BY <1>1, <1>3, <1>4 DEF None, SlotsIn

\* A step that leaves the slots of quit, exit and help as they are keeps them for the end.
LEMMA SlotsStay ==
    ASSUME Leaving(1), \A k \in 1..3 : SlotsIn(cmds', Trivial[k]) = SlotsIn(cmds, Trivial[k])
    PROVE  Leaving(1)'
<1>1. /\ SlotsIn(cmds', cmd_quit) = SlotsIn(cmds, cmd_quit)
      /\ SlotsIn(cmds', cmd_exit) = SlotsIn(cmds, cmd_exit)
      /\ SlotsIn(cmds', cmd_help) = SlotsIn(cmds, cmd_help)
  <2>1. 1 \in 1..3 /\ 2 \in 1..3 /\ 3 \in 1..3
    OBVIOUS
  <2> QED
    BY <2>1, TrivialAre
<1>2. Once(cmds, cmd_quit) /\ Once(cmds, cmd_exit) /\ Once(cmds, cmd_help)
  BY DEF Leaving
<1>3. Once(cmds', cmd_quit) /\ Once(cmds', cmd_exit) /\ Once(cmds', cmd_help)
  BY <1>1, <1>2 DEF Once
<1> QED
  BY <1>3 DEF Leaving

\* comm_user_cmd_unregister finds every command of the modules and touches no other.
LEMMA UserUnregKeepsEnd ==
    ASSUME ShellInv, EndInv, comm_user_cmd_unregister
    PROVE  EndInv'
<1> DEFINE c == Cmd(m, j)
           res == comm_cmd_unregister(cmds, c)
<1>1. /\ phase = "userUnreg" /\ cmds' = res.t /\ r' = r + res.r /\ box_quit' = box_quit
      /\ \/ res.r # 0
         \/ res.r = 0 /\ Advance("trivialUnreg")
  BY DEF comm_user_cmd_unregister, Cmd
<1>2. InModules(m, j) /\ cmds \in Tables /\ Emptying /\ r = 0 /\ Leaving(1)
  BY <1>1 DEF ShellInv, Table, Places, EndInv
<1>3. c \in AllCmds /\ c # NoCmd /\ c \in ModuleCmds
  BY <1>2, Apart DEF AllCmds
<1>4. Once(cmds, c)
  <2>1. ~Before(m, j)
    BY <1>2, ModulesAre DEF Before, InModules
  <2> QED
    BY <1>2, <2>1 DEF Emptying, InModules
<1>5. /\ res.r = 0
      /\ \A d \in AllCmds : d # c /\ d # NoCmd => SlotsIn(res.t, d) = SlotsIn(cmds, d)
  BY <1>2, <1>3, <1>4, UnregisterIs
<1> HIDE DEF res, c
<1>6. r' = 0
  BY <1>1, <1>2, <1>5
<1>7. phase' = "userUnreg" \/ (phase' = "trivialUnreg" /\ j' = 1)
  BY <1>1, <1>5 DEF Advance
<1>8. Leaving(1)'
  <2>1. \A k \in 1..3 : Trivial[k] \in AllCmds /\ Trivial[k] # NoCmd /\ Trivial[k] # c
    BY <1>3, TrivialAre
  <2>2. \A k \in 1..3 : SlotsIn(cmds', Trivial[k]) = SlotsIn(cmds, Trivial[k])
    BY <1>1, <1>5, <2>1
  <2> QED
    BY <1>2, <2>2, SlotsStay
<1> QED
  BY <1>6, <1>7, <1>8 DEF EndInv, Leaving

\* trivial_cmd_unregister takes quit out, puts exit in a second time and takes help out;
\* none of the three calls fails.
LEMMA TrivialUnregKeepsEnd ==
    ASSUME ShellInv, EndInv, trivial_cmd_unregister
    PROVE  EndInv'
<1>1. /\ phase = "trivialUnreg" /\ box_quit' = box_quit
      /\ cmds \in Tables /\ j \in 1..3 /\ r = 0 /\ Leaving(j)
  BY DEF trivial_cmd_unregister, ShellInv, Table, Places, EndInv
<1>2. \/ j < 3 /\ j' = j + 1 /\ phase' = phase
      \/ j = 3 /\ j' = 1 /\ phase' = IF r' = 0 THEN "bye" ELSE "failed"
  BY <1>1, TrivialAre DEF trivial_cmd_unregister
<1>3. /\ cmd_quit \in AllCmds /\ cmd_exit \in AllCmds /\ cmd_help \in AllCmds
      /\ cmd_quit # NoCmd /\ cmd_exit # NoCmd /\ cmd_help # NoCmd
      /\ cmd_quit # cmd_exit /\ cmd_quit # cmd_help /\ cmd_exit # cmd_help
  <2>1. 1 \in 1..3 /\ 2 \in 1..3 /\ 3 \in 1..3 /\ 1 # 2 /\ 1 # 3 /\ 2 # 3
    OBVIOUS
  <2> QED
    BY <2>1, TrivialAre
<1>4. ASSUME NEW d, SlotsIn(cmds', d) = SlotsIn(cmds, d)
      PROVE  /\ Once(cmds', d) <=> Once(cmds, d)
             /\ Twice(cmds', d) <=> Twice(cmds, d)
             /\ None(cmds', d) <=> None(cmds, d)
  BY <1>4 DEF Once, Twice, None
<1>5. CASE j = 1
  <2> DEFINE res == comm_cmd_unregister(cmds, cmd_quit)
  <2>1. cmds' = res.t /\ r' = r + res.r
    BY <1>3, <1>5, TrivialAre DEF trivial_cmd_unregister
  <2>2. Once(cmds, cmd_quit) /\ Once(cmds, cmd_exit) /\ Once(cmds, cmd_help)
    BY <1>1, <1>5 DEF Leaving
  <2>3. /\ res.r = 0 /\ None(res.t, cmd_quit) /\ ~None(res.t, NoCmd)
        /\ SlotsIn(res.t, cmd_exit) = SlotsIn(cmds, cmd_exit)
        /\ SlotsIn(res.t, cmd_help) = SlotsIn(cmds, cmd_help)
    BY <1>1, <1>3, <2>2, UnregisterIs, UnregisterFrees
  <2> HIDE DEF res
  <2>4. r' = 0 /\ j' = 2 /\ phase' = "trivialUnreg"
    BY <1>1, <1>2, <1>5, <2>1, <2>3
  <2>5. Once(cmds', cmd_exit) /\ Once(cmds', cmd_help) /\ None(cmds', cmd_quit)
        /\ ~None(cmds', NoCmd)
    BY <1>4, <2>1, <2>2, <2>3
  <2> QED
    BY <2>4, <2>5 DEF EndInv, Leaving
<1>6. CASE j = 2
  <2> DEFINE res == comm_cmd_register(cmds, cmd_exit)
  <2>1. cmds' = res.t /\ r' = r + res.r
    BY <1>3, <1>6, TrivialAre DEF trivial_cmd_unregister
  <2>2. None(cmds, cmd_quit) /\ ~None(cmds, NoCmd) /\ Once(cmds, cmd_exit)
        /\ Once(cmds, cmd_help)
    BY <1>1, <1>6 DEF Leaving
  <2>3. /\ res.r = 0 /\ Twice(res.t, cmd_exit)
        /\ SlotsIn(res.t, cmd_quit) = SlotsIn(cmds, cmd_quit)
        /\ SlotsIn(res.t, cmd_help) = SlotsIn(cmds, cmd_help)
    BY <1>1, <1>3, <2>2, RegisterAgain
  <2> HIDE DEF res
  <2>4. r' = 0 /\ j' = 3 /\ phase' = "trivialUnreg"
    BY <1>1, <1>2, <1>6, <2>1, <2>3
  <2>5. Twice(cmds', cmd_exit) /\ Once(cmds', cmd_help) /\ None(cmds', cmd_quit)
    BY <1>4, <2>1, <2>2, <2>3
  <2> QED
    BY <2>4, <2>5 DEF EndInv, Leaving
<1>7. CASE j = 3
  <2> DEFINE res == comm_cmd_unregister(cmds, cmd_help)
  <2>1. cmds' = res.t /\ r' = r + res.r
    BY <1>3, <1>7, TrivialAre DEF trivial_cmd_unregister
  <2>2. None(cmds, cmd_quit) /\ Twice(cmds, cmd_exit) /\ Once(cmds, cmd_help)
    BY <1>1, <1>7 DEF Leaving
  <2>3. /\ res.r = 0 /\ None(res.t, cmd_help) /\ ~None(res.t, NoCmd)
        /\ SlotsIn(res.t, cmd_quit) = SlotsIn(cmds, cmd_quit)
        /\ SlotsIn(res.t, cmd_exit) = SlotsIn(cmds, cmd_exit)
    BY <1>1, <1>3, <2>2, UnregisterIs, UnregisterFrees
  <2> HIDE DEF res
  <2>4. r' = 0 /\ phase' = "bye"
    BY <1>1, <1>2, <1>7, <2>1, <2>3
  <2>5. Twice(cmds', cmd_exit) /\ None(cmds', cmd_help) /\ None(cmds', cmd_quit)
        /\ ~None(cmds', NoCmd)
    BY <1>4, <2>1, <2>2, <2>3
  <2> QED
    BY <2>4, <2>5 DEF EndInv, Leaving
<1> QED
  BY <1>1, <1>5, <1>6, <1>7

\* Every step keeps what the end needs: lines are read with r = 0 and with quit, exit and
\* help in one slot each.
LEMMA NextKeepsEnd == ShellInv /\ EndInv /\ [Next]_vars => EndInv'
<1> SUFFICES ASSUME ShellInv, EndInv, [Next]_vars
             PROVE  EndInv'
  OBVIOUS
<1>1. CASE server_main \/ main \/ trivial_cmd_register
  <2>1. phase \in {"main", "trivialReg"} /\ phase' \in {"failed", "trivialReg", "userReg"}
        /\ box_quit' = box_quit
    BY <1>1 DEF server_main, main, trivial_cmd_register
  <2>2. ~box_quit
    BY <2>1 DEF EndInv
  <2> QED
    BY <2>1, <2>2 DEF EndInv
<1>2. CASE comm_user_cmd_register
  <2>1. phase = "userReg" /\ phase' \in {"userReg", "prompt", "failed"} /\ box_quit' = box_quit
        /\ (phase' = "prompt" => r = 0 /\ r' = r + 0)
    BY <1>2 DEF comm_user_cmd_register, Advance
  <2>2. ~box_quit /\ (phase' = "prompt" => r' = 0)
    BY <2>1 DEF EndInv
  <2> QED
    BY <2>1, <2>2 DEF EndInv
<1>3. CASE ReadLine
  <2>1. phase = "prompt" /\ phase' = "exec" /\ UNCHANGED <<r, box_quit>>
    BY <1>3 DEF ReadLine
  <2> QED
    BY <2>1 DEF EndInv
<1>4. CASE comm_exec_command
  <2>1. phase = "exec" /\ r' = r /\ cmds' = cmds /\ ~box_quit /\ r = 0
    BY <1>4 DEF comm_exec_command, EndInv
  <2>2. \/ phase' \in {"prompt", "crashed"} /\ ~box_quit'
        \/ phase' = "userUnreg"
    BY <1>4, <2>1 DEF comm_exec_command
  <2>3. Leaving(1)'
    <3>1. \A c \in AllCmds : Once(cmds, c)
      BY <2>1 DEF ShellInv, Table
    <3>2. Once(cmds', cmd_quit) /\ Once(cmds', cmd_exit) /\ Once(cmds', cmd_help)
      BY <2>1, <3>1 DEF AllCmds
    <3> QED
      BY <3>2 DEF Leaving
  <2> QED
    BY <2>1, <2>2, <2>3 DEF EndInv
<1>5. CASE comm_user_cmd_unregister
  BY <1>5, UserUnregKeepsEnd
<1>6. CASE trivial_cmd_unregister
  BY <1>6, TrivialUnregKeepsEnd
<1>7. CASE EndOfInput
  <2>1. phase = "prompt" /\ phase' = "spinning" /\ box_quit' = box_quit
    BY <1>7 DEF EndOfInput
  <2> QED
    BY <2>1 DEF EndInv
<1>8. CASE UNCHANGED <<phase, cmds, loopVars, r, box_quit>>
  BY <1>8 DEF EndInv, Leaving, Once, Twice, None, SlotsIn, loopVars
<1>9. CASE server_exit \/ Over \/ UNCHANGED vars
  BY <1>8, <1>9 DEF server_exit, Over, vars, loopVars
<1> QED
  BY <1>1, <1>2, <1>3, <1>4, <1>5, <1>6, <1>7, <1>9 DEF Next, Step

\* Both invariants hold of every reachable state.
LEMMA EndHolds == Spec => [](ShellInv /\ EndInv)
<1>1. Init => EndInv
  BY DEF Init, EndInv
<1> QED
  BY <1>1, ShellInvariant, NextKeepsEnd, PTL DEF Spec

\* What trivial_cmd_unregister leaves, for any modules and any table: exit in two slots of
\* comm_cmds and nothing in the others, whatever the order in which they were filled.
THEOREM ExitIsLeft == Spec => []LeavesExitTwice
<1>1. ShellInv /\ EndInv => LeavesExitTwice
  <2> SUFFICES ASSUME ShellInv, EndInv, phase = "bye"
               PROVE  \E i, k \in 1..MaxCmds :
                        /\ i # k
                        /\ cmds = [x \in 1..MaxCmds |-> IF x \in {i, k} THEN cmd_exit ELSE NoCmd]
    BY DEF LeavesExitTwice
  <2>1. Emptied /\ cmds \in Tables /\ Leaving(4)
    BY DEF ShellInv, Table, Places, EndInv
  <2>2. None(cmds, cmd_quit) /\ None(cmds, cmd_help) /\ Twice(cmds, cmd_exit)
    BY <2>1 DEF Leaving
  <2>3. PICK i, k \in 1..MaxCmds : i # k /\ SlotsIn(cmds, cmd_exit) = {i, k}
    BY <2>2 DEF Twice
  <2>4. ASSUME NEW x \in 1..MaxCmds
        PROVE  cmds[x] = IF x \in {i, k} THEN cmd_exit ELSE NoCmd
    <3>1. cmds[x] \in ModuleCmds \cup {cmd_quit, cmd_exit, cmd_help, NoCmd}
      BY <2>1 DEF Tables, Entries, AllCmds
    <3>2. cmds[x] \notin ModuleCmds /\ cmds[x] # cmd_quit /\ cmds[x] # cmd_help
      BY <2>1, <2>2 DEF Emptied, None, SlotsIn
    <3>3. cmds[x] = cmd_exit <=> x \in {i, k}
      BY <2>3 DEF SlotsIn
    <3> QED
      BY <3>1, <3>2, <3>3
  <2>5. cmds = [x \in 1..MaxCmds |-> IF x \in {i, k} THEN cmd_exit ELSE NoCmd]
    BY <2>1, <2>4 DEF Tables
  <2> QED
    BY <2>3, <2>5
<1> QED
  BY <1>1, EndHolds, PTL

\* Once quit or exit has run, no unregistration fails: comm_main cannot end with "unregister
\* cmd failed", although the table is not empty when it ends.
THEOREM QuitDoesNotFail == Spec => []QuitSucceeds
<1>1. EndInv => QuitSucceeds
  BY DEF EndInv, QuitSucceeds
<1> QED
  BY <1>1, EndHolds, PTL
=============================================================================
