------------------------------ MODULE FileProofs ------------------------------
(***************************************************************************)
(* Proofs about the two file objects, DataFile (clsDataFile of demo-dh)    *)
(* and CommFile (comm_file of demo-io): for any contents, any amounts and  *)
(* positions, any sequence of calls and any failures of the file system.   *)
(***************************************************************************)
EXTENDS DataFile, CommFile, TLAPS, SequenceTheorems

-----------------------------------------------------------------------------
(***************************************************************************)
(* Facts about the contents of a file.                                     *)
(***************************************************************************)

\* A write leaves a file of the expected length, and what is before its position alone.
LEMMA OverwrittenFile ==
    ASSUME NEW s \in Seq(Character), NEW p \in Nat, NEW d \in Seq(Character)
    PROVE  LET n == Overwritten(s, p, d)
           IN  /\ n \in Seq(Character)
               /\ Len(n) = IF p + Len(d) > Len(s) THEN p + Len(d) ELSE Len(s)
               /\ \A i \in 1..Len(s) : i <= p => n[i] = s[i]
<1> DEFINE m == IF p + Len(d) > Len(s) THEN p + Len(d) ELSE Len(s)
           n == [i \in 1..m |-> IF i > p /\ i <= p + Len(d) THEN d[i - p]
                                ELSE IF i <= Len(s) THEN s[i] ELSE Pad]
<1>1. m \in Nat /\ Len(s) \in Nat /\ Len(d) \in Nat /\ m >= Len(s)
  OBVIOUS
<1> HIDE DEF m
<1>2. ASSUME NEW i \in 1..m
      PROVE  n[i] \in Character
  <2>1. CASE i > p /\ i <= p + Len(d)
    <3>1. i - p \in 1..Len(d) /\ n[i] = d[i - p]
      BY <1>1, <2>1
    <3> QED
      BY <3>1
  <2>2. CASE ~ (i > p /\ i <= p + Len(d))
    <3>1. CASE i <= Len(s)
      <4>1. i \in 1..Len(s) /\ n[i] = s[i]
        BY <1>1, <2>2, <3>1
      <4> QED
        BY <4>1
    <3>2. CASE ~ (i <= Len(s))
      <4>1. n[i] = Pad
        BY <2>2, <3>2
      <4> QED
        BY <4>1, PadAssumption
    <3> QED
      BY <3>1, <3>2
  <2> QED
    BY <2>1, <2>2
<1>3. n = [i \in 1..m |-> n[i]]
  OBVIOUS
<1>4. \A i \in 1..Len(s) : i <= p => n[i] = s[i]
  BY <1>1
<1> HIDE DEF n
<1>5. n \in Seq(Character) /\ Len(n) = m
  BY <1>1, <1>2, <1>3
<1>6. Overwritten(s, p, d) = n
  BY DEF Overwritten, m, n
<1> QED
  BY <1>4, <1>5, <1>6 DEF m

\* Writing at the end keeps what was there.
LEMMA AppendedFile ==
    ASSUME NEW s \in Seq(Character), NEW d \in Seq(Character)
    PROVE  SE!IsPrefix(s, Overwritten(s, Len(s), d))
<1> DEFINE n == Overwritten(s, Len(s), d)
<1>1. n \in Seq(Character) /\ Len(s) <= Len(n) /\ \A i \in 1..Len(s) : n[i] = s[i]
  BY OverwrittenFile
<1> HIDE DEF n
<1>2. SubSeq(s, 1, Len(s)) = SubSeq(n, 1, Len(s))
  BY <1>1
<1> QED
  BY <1>1, <1>2 DEF SE!IsPrefix, n

\* Prefixes of sequences compose.
LEMMA PrefixFacts ==
    ASSUME NEW s \in Seq(Character), NEW t \in Seq(Character)
    PROVE  /\ SE!IsPrefix(s, s) /\ (SE!IsPrefix(s, t) => Len(s) <= Len(t))
           /\ \A u \in Seq(Character) : SE!IsPrefix(s, t) /\ SE!IsPrefix(t, u) => SE!IsPrefix(s, u)
<1>1. ASSUME NEW u \in Seq(Character), SE!IsPrefix(s, t), SE!IsPrefix(t, u)
      PROVE  SE!IsPrefix(s, u)
  <2>1. Len(s) \in Nat /\ Len(t) \in Nat /\ Len(u) \in Nat /\ Len(s) <= Len(t) /\ Len(t) <= Len(u)
    BY <1>1 DEF SE!IsPrefix
  <2>2. \A i \in 1..Len(s) : t[i] = s[i]
    <3>1. \A i \in 1..Len(s) : SubSeq(s, 1, Len(s))[i] = s[i] /\ SubSeq(t, 1, Len(s))[i] = t[i]
      BY <2>1
    <3> QED
      BY <1>1, <3>1 DEF SE!IsPrefix
  <2>3. \A i \in 1..Len(t) : u[i] = t[i]
    <3>1. \A i \in 1..Len(t) : SubSeq(t, 1, Len(t))[i] = t[i] /\ SubSeq(u, 1, Len(t))[i] = u[i]
      BY <2>1
    <3> QED
      BY <1>1, <3>1 DEF SE!IsPrefix
  <2>4. SubSeq(s, 1, Len(s)) = SubSeq(u, 1, Len(s))
    BY <2>1, <2>2, <2>3
  <2> QED
    BY <2>1, <2>4 DEF SE!IsPrefix
<1> QED
  BY <1>1 DEF SE!IsPrefix

-----------------------------------------------------------------------------
(***************************************************************************)
(* DataFile.  The two results need what an open stream sees: the file as   *)
(* the accepted writes make it, as long as none was lost, and never less   *)
(* than the disk holds.                                                    *)
(***************************************************************************)
FileShape ==
    /\ obj \in {"live", "gone", "wild"} /\ f_flag \in OFLAG /\ fpos \in Nat
    /\ view \in Seq(Character) /\ Len(view) <= MaxSize
    /\ disk = Missing \/ (disk \in Seq(Character) /\ Len(disk) <= MaxSize)
FileFlags == f_opened \in BOOLEAN /\ eof \in BOOLEAN /\ ferr \in BOOLEAN /\ lost \in BOOLEAN
FileOpen ==
    f_opened => /\ obj = "live" /\ disk # Missing /\ Len(disk) <= Len(view)
                /\ f_flag \in {OFLAG_WO, OFLAG_AP} => SE!IsPrefix(disk, view)
FileWanted == ~lost => want = IF f_opened THEN view ELSE disk
FileInv == FileShape /\ FileFlags /\ FileOpen /\ FileWanted

\* What a file holds is not what a missing file is.
LEMMA MissingApart == Missing \notin Seq(Character) /\ <<>> \in Seq(Character)
<1>1. Missing[1] \notin Character /\ 1 \in 1..Len(Missing)
  BY DEF Missing, Character
<1> QED
  BY <1>1

\* The object begins without an open file.
LEMMA InitFileInv == FileInit => FileInv
<1> SUFFICES ASSUME FileInit
             PROVE  FileInv
  OBVIOUS
<1>1. FileFlags
  BY Zenon DEF FileInit, FileFlags
<1>2. FileShape
  BY DataAssumption DEF FileInit, FileShape, OFLAG, OFLAG_RO, OFLAG_AP
<1>3. ~f_opened /\ want = disk
  BY DEF FileInit
<1> QED
  BY <1>1, <1>2, <1>3 DEF FileInv, FileOpen, FileWanted

\* What becomes of the writes of a stream that is flushed, positioned or closed: they are
\* on the disk, or still pending, or given up.
Synced == WrittenOut \/ GivenUp \/ Unwritten

\* Whatever becomes of them, the file on the disk is not shortened, and what an open
\* stream sees is still an extension of it.
LEMMA SyncedKeeps ==
    ASSUME FileInv, f_opened, Synced, fpos' \in Nat, eof' \in BOOLEAN, ferr' \in BOOLEAN,
           UNCHANGED <<f_flag, want>>,
           \/ f_opened' = TRUE /\ obj' = obj
           \/ f_opened' = FALSE /\ obj' \in {"live", "gone", "wild"} /\ (WrittenOut \/ GivenUp)
    PROVE  /\ FileInv'
           /\ disk' # Missing /\ Len(disk') >= Len(disk)
           /\ f_flag' \in {OFLAG_WO, OFLAG_AP} => SE!IsPrefix(disk, disk')
<1> USE DEF FileInv
<1>1. obj = "live" /\ disk # Missing /\ disk \in Seq(Character) /\ view \in Seq(Character)
      /\ Len(disk) <= Len(view) /\ Len(disk) <= MaxSize /\ Len(view) <= MaxSize
      /\ (f_flag \in {OFLAG_WO, OFLAG_AP} => SE!IsPrefix(disk, view))
  BY DEF FileShape, FileOpen
<1>2. \/ view' = view /\ disk' = view /\ lost' = lost
      \/ view' = disk /\ disk' = disk /\ lost' = TRUE
      \/ view' = view /\ disk' = disk /\ lost' = lost /\ f_opened' = TRUE
  BY DEF Synced, WrittenOut, GivenUp, Unwritten
<1>3. FileFlags'
  <2>1. lost' = lost \/ lost' = TRUE
    BY <1>2
  <2> QED
    BY <2>1, Zenon DEF FileFlags
<1>4. FileShape'
  BY <1>1, <1>2, MissingApart DEF FileShape
<1>5. /\ disk' # Missing /\ Len(disk') <= Len(view')
      /\ f_flag \in {OFLAG_WO, OFLAG_AP} => SE!IsPrefix(disk', view')
  BY <1>1, <1>2, PrefixFacts, MissingApart
<1>6. FileOpen'
  BY <1>1, <1>2, <1>5 DEF FileOpen
<1>7. FileWanted'
  BY <1>2 DEF FileWanted
<1>8. Len(disk') >= Len(disk) /\ (f_flag' \in {OFLAG_WO, OFLAG_AP} => SE!IsPrefix(disk, disk'))
  BY <1>1, <1>2, PrefixFacts
<1> QED
  BY <1>3, <1>4, <1>5, <1>6, <1>7, <1>8

\* What no step may do to a file that is there.
OldKept ==
    disk # Missing =>
        /\ disk' # Missing /\ Len(disk') >= Len(disk)
        /\ f_flag' \in {OFLAG_WO, OFLAG_AP} => SE!IsPrefix(disk, disk')

\* A step that leaves the disk alone keeps what is on it.
LEMMA SameDisk ==
    ASSUME FileInv, disk' = disk
    PROVE  OldKept
  BY PrefixFacts DEF FileInv, FileShape, OldKept

\* Opening a file, in any mode, neither shortens it nor takes what is in it away.
LEMMA OpenStep ==
    ASSUME FileInv, NEW flag \in OFLAG, fileOpen(flag)
    PROVE  FileInv' /\ OldKept
<1> USE DEF FileInv
<1>1. Mode(flag) # "w"
  BY DEF Mode
<1>2. disk' = (IF disk = Missing THEN <<>> ELSE disk) /\ view' = disk' /\ f_opened' = TRUE
      /\ f_flag' = flag /\ obj = "live" /\ obj' = obj /\ lost' = lost /\ ~f_opened
      /\ want' = (IF want = Missing THEN <<>> ELSE want)
      /\ fpos' = IF Mode(flag) = "a" THEN Len(disk') ELSE 0
  BY <1>1 DEF fileOpen, MayOpen
<1>3. disk' \in Seq(Character) /\ Len(disk') <= MaxSize
  BY <1>2, MissingApart, DataAssumption DEF FileShape
<1>4. FileFlags'
  BY Zenon DEF fileOpen, FileFlags
<1>5. FileShape'
  <2>1. fpos' \in Nat
    BY <1>2, <1>3
  <2> QED
    BY <1>2, <1>3, <2>1 DEF FileShape
<1>6. FileOpen'
  <2>1. SE!IsPrefix(disk', view') /\ Len(disk') <= Len(view') /\ disk' # Missing
    BY <1>2, <1>3, PrefixFacts, MissingApart
  <2> QED
    BY <1>2, <2>1 DEF FileOpen
<1>7. FileWanted'
  BY <1>2 DEF FileWanted
<1>8. OldKept
  BY <1>2, SameDisk DEF OldKept
<1> QED
  BY <1>4, <1>5, <1>6, <1>7, <1>8

\* Closing, by fileClose or the destructor.
LEMMA CloseStep ==
    ASSUME FileInv, fileClose \/ Destroy
    PROVE  FileInv' /\ OldKept
<1>1. CASE f_opened
  <2>1. (WrittenOut \/ GivenUp) /\ f_opened' = FALSE /\ UNCHANGED <<fpos, eof, ferr, f_flag, want>>
        /\ obj' \in {"live", "gone", "wild"}
    BY <1>1 DEF fileClose, Destroy, CloseStream
  <2>2. fpos' \in Nat /\ eof' \in BOOLEAN /\ ferr' \in BOOLEAN
    BY <2>1 DEF FileInv, FileShape, FileFlags
  <2> QED
    BY <1>1, <2>1, <2>2, SyncedKeeps DEF OldKept, Synced
<1>2. CASE ~f_opened
  <2>1. UNCHANGED <<f_opened, view, fpos, eof, ferr, disk, lost, f_flag, want>> /\ obj' = "gone"
    BY <1>2 DEF fileClose, Destroy, CloseStream, stream
  <2>2. FileInv'
    BY <1>2, <2>1 DEF FileInv, FileShape, FileFlags, FileOpen, FileWanted
  <2> QED
    BY <2>1, <2>2, SameDisk
<1> QED
  BY <1>1, <1>2

\* Reading, flushing, positioning and asking for the size.
LEMMA SyncStep ==
    ASSUME FileInv, fileRead \/ fileFlush \/ atStart \/ atPos \/ atEnd \/ getSize
    PROVE  FileInv' /\ OldKept
<1>1. f_opened /\ Synced /\ f_opened' = TRUE /\ UNCHANGED <<obj, f_flag, want>>
  <2>1. f_opened \in BOOLEAN
    BY DEF FileInv, FileFlags
  <2> QED
    BY <2>1 DEF fileRead, fileFlush, atStart, atPos, atEnd, getSize, Seek, Permits, Synced
<1>2. eof' \in BOOLEAN /\ ferr' \in BOOLEAN
  BY DEF FileInv, FileFlags, fileRead, fileFlush, atStart, atPos, atEnd, getSize, Seek, Unwritten
<1>3. fpos' \in Nat
  <2>1. fpos \in Nat /\ Len(view) \in Nat
    BY DEF FileInv, FileShape
  <2>2. CASE fileRead
    BY <2>1, <2>2 DEF fileRead
  <2>3. CASE fileFlush \/ atStart \/ getSize
    BY <2>1, <2>3 DEF fileFlush, atStart, getSize, Seek
  <2>4. CASE atPos
    BY <2>1, <2>4, DataAssumption DEF atPos, Seek
  <2>5. CASE atEnd
    BY <2>1, <2>5 DEF atEnd, Seek
  <2> QED
    BY <2>2, <2>3, <2>4, <2>5
<1> QED
  BY <1>1, <1>2, <1>3, SyncedKeeps DEF OldKept

\* Writing: the append modes write at the end of the file, "r+" where the stream is.
LEMMA WriteStep ==
    ASSUME FileInv, fileWrite
    PROVE  FileInv' /\ OldKept
<1> USE DEF FileInv
<1>1. UNCHANGED <<obj, f_opened, f_flag, eof, lost>> /\ f_opened /\ obj = "live"
      /\ f_flag \in {OFLAG_WO, OFLAG_WR, OFLAG_AP}
  BY DEF fileWrite, Permits, FileShape, OFLAG, OFLAG_RO, OFLAG_WO, OFLAG_WR, OFLAG_AP
<1> DEFINE p == IF Mode(f_flag) \in {"a", "a+"} THEN Len(view) ELSE fpos
<1>2. PICK d \in Data, len \in 0..MaxSize :
        /\ len <= Len(d) /\ p + len <= MaxSize
        /\ IF len = 0 THEN UNCHANGED <<view, want, fpos>>
           ELSE /\ view' = Overwritten(view, p, SubSeq(d, 1, len))
                /\ want' = IF lost THEN want
                           ELSE Overwritten(want, IF f_flag = OFLAG_WR THEN fpos ELSE Len(want),
                                            SubSeq(d, 1, len))
                /\ fpos' = p + len
        /\ ferr' = (ferr \/ len < Len(d))
        /\ disk' \in {disk, view'}
  BY DEF fileWrite
<1>3. disk # Missing /\ disk \in Seq(Character) /\ view \in Seq(Character) /\ fpos \in Nat
      /\ Len(disk) <= Len(view) /\ Len(view) <= MaxSize /\ Len(disk) <= MaxSize
      /\ (f_flag \in {OFLAG_WO, OFLAG_AP} => SE!IsPrefix(disk, view))
  BY <1>1 DEF FileShape, FileOpen
<1>4. p = IF f_flag = OFLAG_WR THEN fpos ELSE Len(view)
  BY <1>1 DEF Mode, OFLAG_RO, OFLAG_WO, OFLAG_WR, OFLAG_AP
<1>5. p \in Nat
  BY <1>3
<1> HIDE DEF p
<1> DEFINE piece == SubSeq(d, 1, len)
<1>6. piece \in Seq(Character) /\ Len(piece) = len
  <2>1. d \in Seq(Character) /\ len \in Nat
    BY DataAssumption
  <2> QED
    BY <1>2, <2>1
<1> HIDE DEF piece
<1>7. view' \in Seq(Character) /\ Len(view') <= MaxSize /\ Len(view') >= Len(view)
  <2>1. CASE len = 0
    BY <1>2, <1>3, <2>1
  <2>2. CASE len # 0
    <3>1. view' = Overwritten(view, p, piece)
      BY <1>2, <2>2 DEF piece
    <3>2. view' \in Seq(Character)
          /\ Len(view') = IF p + Len(piece) > Len(view) THEN p + Len(piece) ELSE Len(view)
      BY <1>3, <1>5, <1>6, <3>1, OverwrittenFile
    <3> QED
      BY <1>2, <1>3, <1>5, <1>6, <3>2, DataAssumption
  <2> QED
    BY <2>1, <2>2
<1>8. f_flag \in {OFLAG_WO, OFLAG_AP} => SE!IsPrefix(view, view')
  <2>1. CASE len = 0
    BY <1>2, <1>3, <2>1, PrefixFacts
  <2>2. CASE len # 0 /\ f_flag \in {OFLAG_WO, OFLAG_AP}
    <3>1. view' = Overwritten(view, Len(view), piece)
      BY <1>2, <1>4, <2>2 DEF piece, OFLAG_WO, OFLAG_WR, OFLAG_AP
    <3> QED
      BY <1>3, <1>6, <3>1, AppendedFile
  <2> QED
    BY <2>1, <2>2
<1>9. f_flag \in {OFLAG_WO, OFLAG_AP} => SE!IsPrefix(disk, view')
  BY <1>3, <1>7, <1>8, PrefixFacts
<1>10. FileFlags'
  <2>1. ferr' \in BOOLEAN
    BY <1>2
  <2> QED
    BY <1>1, <2>1, Zenon DEF FileFlags
<1>11. FileShape'
  <2>1. fpos' \in Nat
    BY <1>2, <1>3, <1>5
  <2>2. disk' \in Seq(Character) /\ Len(disk') <= MaxSize
    BY <1>2, <1>3, <1>7
  <2> QED
    BY <1>1, <1>7, <2>1, <2>2 DEF FileShape
<1>12. disk' # Missing /\ Len(disk') <= Len(view') /\ Len(disk') >= Len(disk)
       /\ (f_flag \in {OFLAG_WO, OFLAG_AP} =>
                SE!IsPrefix(disk', view') /\ SE!IsPrefix(disk, disk'))
  <2>1. CASE disk' = disk
    BY <1>3, <1>7, <1>9, <2>1, PrefixFacts
  <2>2. CASE disk' = view'
    BY <1>3, <1>7, <1>9, <2>2, PrefixFacts, MissingApart
  <2> QED
    BY <1>2, <2>1, <2>2
<1>13. FileOpen'
  BY <1>1, <1>12 DEF FileOpen
<1>14. FileWanted'
  <2> SUFFICES ASSUME ~lost
               PROVE  want' = view'
    BY <1>1 DEF FileWanted
  <2>1. want = view
    BY <1>1 DEF FileWanted
  <2> QED
    BY <1>2, <1>4, <2>1
<1>15. OldKept
  BY <1>1, <1>12 DEF OldKept
<1> QED
  BY <1>10, <1>11, <1>13, <1>14, <1>15

\* isError clears the error of the stream; without a stream anything may come of a call,
\* but nothing is written.
LEMMA AskStep ==
    ASSUME FileInv, isError \/ NoStream
    PROVE  FileInv' /\ OldKept
<1>1. UNCHANGED <<f_opened, f_flag, view, fpos, eof, disk, want, lost>>
      /\ (ferr' = ferr \/ ferr' = FALSE) /\ obj' \in {"live", "wild"} /\ (f_opened => obj' = obj)
  BY DEF isError, NoStream, stream
<1>2. FileFlags'
  BY <1>1, Zenon DEF FileInv, FileFlags
<1>3. FileShape' /\ FileOpen' /\ FileWanted'
  BY <1>1 DEF FileInv, FileShape, FileOpen, FileWanted
<1> QED
  BY <1>1, <1>2, <1>3, SameDisk DEF FileInv

\* Every call keeps the invariant and what is in the file.
LEMMA FileStep == FileInv /\ [FileNext]_fileVars => FileInv' /\ (OldKept \/ UNCHANGED fileVars)
<1> SUFFICES ASSUME FileInv, [FileNext]_fileVars
             PROVE  FileInv' /\ (OldKept \/ UNCHANGED fileVars)
  OBVIOUS
<1>1. CASE \E flag \in OFLAG : fileOpen(flag)
  BY <1>1, OpenStep
<1>2. CASE fileClose \/ Destroy
  BY <1>2, CloseStep
<1>3. CASE fileRead \/ fileFlush \/ atStart \/ atPos \/ atEnd \/ getSize
  BY <1>3, SyncStep
<1>4. CASE fileWrite
  BY <1>4, WriteStep
<1>5. CASE isError \/ NoStream
  BY <1>5, AskStep
<1>6. CASE UNCHANGED fileVars
  BY <1>6 DEF fileVars, FileInv, FileShape, FileFlags, FileOpen, FileWanted
<1> QED
  BY <1>1, <1>2, <1>3, <1>4, <1>5, <1>6 DEF FileNext

\* The invariant holds in every behaviour of the object.
LEMMA FileInvHolds == FileSpec => []FileInv
  BY InitFileInv, FileStep, PTL DEF FileSpec

\* clsDataFile keeps its types: the file and what the stream sees of it stay files.
THEOREM FileTypeCorrect == FileSpec => []FileTypeOK
<1>1. FileInv => FileTypeOK
  BY Zenon DEF FileInv, FileShape, FileFlags, FileTypeOK
<1> QED
  BY <1>1, FileInvHolds, PTL

\* What fileWrite accepted is in the file when the object has closed it, unless a flush
\* failed: for any sequence of opens in any mode, writes, seeks and closes.
THEOREM WritesAreKept == FileSpec => []AcceptedIsKept
<1>1. FileInv => AcceptedIsKept
  BY DEF FileInv, FileOpen, FileWanted, AcceptedIsKept
<1> QED
  BY <1>1, FileInvHolds, PTL

\* No call shortens the file, and a file opened for writing only or for appending keeps
\* its old contents, wherever the object was positioned before it wrote.
THEOREM OldContentsAreKept == FileSpec => KeepsOldContents
<1>1. FileInv /\ [FileNext]_fileVars => [OldKept]_fileVars
  BY FileStep
<1> QED
  BY <1>1, FileInvHolds, PTL DEF FileSpec, KeepsOldContents, OldKept

-----------------------------------------------------------------------------
(***************************************************************************)
(* CommFile.  ReadIsExact needs that the descriptor stands where the read  *)
(* has come to, that a file which is open for the object stays there, and  *)
(* that without a good descriptor nothing was read.                        *)
(***************************************************************************)
CommShape ==
    /\ fst \in {"none", "idle", "open", "append", "read", "gone"} /\ fd \in {"ok", "bad"}
    /\ off \in Nat /\ us_cnt \in Nat /\ perm \subseteq {"r", "w"}
    /\ bytes \in Seq(Character) /\ Len(bytes) <= MaxLen
CommFlags == find \in BOOLEAN /\ status \in BOOLEAN /\ there \in BOOLEAN
Reading ==
    fst = "read" =>
        /\ status
        /\ from \in Nat /\ last \in Nat /\ got \in Seq(Character)
        /\ off = from + Len(got)
        /\ got # <<>> => off <= Len(bytes) /\ fd = "ok"
        /\ got = SubSeq(bytes, from + 1, from + Len(got))
        /\ Len(got) + last = nbytes
CommInv == CommShape /\ CommFlags /\ (Usable => there) /\ Reading

\* Nothing of nothing.
LEMMA EmptyPiece ==
    ASSUME NEW b \in Seq(Character), NEW f \in Nat
    PROVE  SubSeq(b, f + 1, f + Len(<<>>)) = <<>>
<1>1. f + Len(<<>>) < f + 1
  OBVIOUS
<1> QED
  BY <1>1, SubSeqEmpty

\* The object begins without a file; the file may be there.
LEMMA InitCommInv == CommInit => CommInv
<1> SUFFICES ASSUME CommInit
             PROVE  CommInv
  OBVIOUS
<1>1. CommFlags
  BY Zenon DEF CommInit, CommFlags
<1>2. CommShape
  BY CommBoundsAssumption DEF CommInit, CommShape
<1>3. ~Usable /\ fst # "read"
  BY DEF CommInit, Usable
<1> QED
  BY <1>1, <1>2, <1>3 DEF CommInv, Reading

\* Creating, closing, destroying, and the first open.
LEMMA HandleStep ==
    ASSUME CommInv,
           comm_file_create \/ comm_file_open \/ comm_file_close \/ comm_file_destroy
    PROVE  CommInv'
<1> USE DEF comm_file_create, comm_file_open, comm_file_close, comm_file_destroy, CommInv, kernel,
        reading, bounds, handle
<1>1. UNCHANGED <<off, there, bytes, perm, us_cnt>> /\ fst' \in {"idle", "open", "gone"}
      /\ (fd' = fd \/ fd' = "bad") /\ (status' = status \/ status' = FALSE)
      /\ (find' = find \/ find' \in BOOLEAN)
  OBVIOUS
<1>2. CommFlags'
  BY <1>1, Zenon DEF CommFlags
<1>3. CommShape' /\ Reading'
  BY <1>1 DEF CommShape, Reading
<1>4. Usable' => there'
  BY <1>1 DEF Usable
<1> QED
  BY <1>2, <1>3, <1>4

\* The second open: a descriptor that is good is one of a file that is there.
LEMMA OpenAgainStep ==
    ASSUME CommInv, OpenAgain
    PROVE  CommInv'
<1> USE DEF OpenAgain, CommInv, reading, bounds
<1>1. CommFlags'
  <2>1. status' = TRUE /\ find' = find /\ (there' = there \/ there' = TRUE)
    OBVIOUS
  <2> QED
    BY <2>1, Zenon DEF CommFlags
<1>2. CommShape'
  <2>1. fst' = "idle" /\ fd' \in {"ok", "bad"} /\ us_cnt' = us_cnt
        /\ (perm' = perm \/ perm' = {"r", "w"}) /\ (off' = off \/ off' = 0)
        /\ (bytes' = bytes \/ bytes' = <<>>)
    OBVIOUS
  <2>2. <<>> \in Seq(Character) /\ Len(<<>>) <= MaxLen
    BY CommBoundsAssumption
  <2> QED
    BY <2>1, <2>2 DEF CommShape
<1>3. Usable' => there'
  BY DEF Usable
<1>4. Reading'
  BY DEF Reading
<1> QED
  BY <1>1, <1>2, <1>3, <1>4

\* A write of the object, wherever it writes.
LEMMA WriteAtKeeps ==
    ASSUME CommInv, NEW p \in Nat, NEW t \in Texts, WriteAt(p, t)
    PROVE  off' \in Nat /\ bytes' \in Seq(Character) /\ Len(bytes') <= MaxLen
<1>1. PICK k \in 0..Len(t) :
        /\ p + k <= MaxLen
        /\ bytes' = IF k = 0 THEN bytes ELSE Overwritten(bytes, p, SubSeq(t, 1, k))
        /\ off' = p + k
  BY DEF WriteAt
<1>2. t \in Seq(Character) /\ bytes \in Seq(Character) /\ Len(bytes) <= MaxLen /\ k \in Nat
  BY TextsAssumption DEF CommInv, CommShape
<1> DEFINE piece == SubSeq(t, 1, k)
<1>3. piece \in Seq(Character) /\ Len(piece) = k
  BY <1>1, <1>2
<1> HIDE DEF piece
<1>4. CASE k = 0
  BY <1>1, <1>2, <1>4
<1>5. CASE k # 0
  <2>1. bytes' = Overwritten(bytes, p, piece)
    BY <1>1, <1>5 DEF piece
  <2>2. bytes' \in Seq(Character)
        /\ Len(bytes') = IF p + Len(piece) > Len(bytes) THEN p + Len(piece) ELSE Len(bytes)
    BY <1>2, <1>3, <2>1, OverwrittenFile
  <2> QED
    BY <1>1, <1>2, <1>3, <2>2, CommBoundsAssumption
<1> QED
  BY <1>4, <1>5

\* Positioning and writing happen between two reads.
LEMMA MoveStep ==
    ASSUME CommInv,
           comm_file_write \/ Position \/ comm_file_append \/ AppendWrite \/ comm_file_insert
    PROVE  CommInv'
<1>1. UNCHANGED <<handle, there, perm, dirok, reading, bounds>> /\ fst' \in {"idle", "append"}
  BY DEF comm_file_write, Position, comm_file_append, AppendWrite, comm_file_insert
<1>2. off \in Nat /\ bytes \in Seq(Character) /\ Len(bytes) \in Nat /\ Len(bytes) <= MaxLen
  BY DEF CommInv, CommShape
<1>3. off' \in Nat /\ bytes' \in Seq(Character) /\ Len(bytes') <= MaxLen
  <2>1. CASE comm_file_write \/ AppendWrite
    <3>1. PICK t \in Texts : WriteAt(off, t)
      BY <2>1 DEF comm_file_write, AppendWrite
    <3> QED
      BY <1>2, <3>1, WriteAtKeeps
  <2>2. CASE comm_file_insert
    <3>1. PICK p \in Offsets, t \in Texts : WriteAt(p, t)
      BY <2>2 DEF comm_file_insert
    <3>2. p \in Nat
      BY TextsAssumption
    <3> QED
      BY <3>1, <3>2, WriteAtKeeps
  <2>3. CASE Position \/ comm_file_append
    <3>1. bytes' = bytes /\ (off' = 0 \/ off' = Len(bytes) \/ off' \in Offsets)
      BY <2>3 DEF Position, comm_file_append
    <3>2. off' \in Nat
      <4>1. off' \in Offsets => off' \in Nat
        BY TextsAssumption
      <4> QED
        BY <1>2, <3>1, <4>1
    <3> QED
      BY <1>2, <3>1, <3>2
  <2> QED
    BY <2>1, <2>2, <2>3
<1>4. CommFlags'
  BY <1>1, Zenon DEF CommInv, CommFlags, handle
<1>5. CommShape' /\ Reading'
  BY <1>1, <1>3 DEF CommInv, CommShape, Reading, handle, reading
<1>6. Usable' => there'
  BY <1>1 DEF CommInv, Usable, handle
<1> QED
  BY <1>4, <1>5, <1>6 DEF CommInv

\* A short read goes on where the one before stopped.
LEMMA ReadSomeStep ==
    ASSUME CommInv, ReadSome
    PROVE  CommInv'
<1> USE DEF CommInv, handle, bounds
<1>1. UNCHANGED <<fst, find, status, fd, there, bytes, perm, us_cnt, nbytes, from>>
      /\ fst = "read" /\ fd = "ok" /\ last > 0
  BY DEF ReadSome
<1>2. PICK n \in 1..last :
        /\ off + n <= Len(bytes)
        /\ got' = got \o SubSeq(bytes, off + 1, off + n)
        /\ last' = last - n /\ off' = off + n
  BY DEF ReadSome, Wanted
<1>3. from \in Nat /\ last \in Nat /\ got \in Seq(Character) /\ bytes \in Seq(Character)
      /\ off = from + Len(got) /\ off \in Nat /\ Len(bytes) \in Nat /\ Len(got) \in Nat
      /\ got = SubSeq(bytes, from + 1, from + Len(got)) /\ Len(got) + last = nbytes
  BY <1>1 DEF Reading, CommShape
<1> DEFINE piece == SubSeq(bytes, off + 1, off + n)
<1>4. piece \in Seq(Character) /\ Len(piece) = n
  <2>1. \A i \in (off + 1)..(off + n) : bytes[i] \in Character
    BY <1>2, <1>3
  <2>2. off + 1 \in Int /\ off + n \in Int
    BY <1>3
  <2> QED
    BY <1>3, <2>1, <2>2, SubSeqProperties
<1>5. got \o piece = SubSeq(bytes, from + 1, off + n)
  <2>1. from + 1 \in 1..(Len(bytes) + 1) /\ off \in ((from + 1) - 1)..Len(bytes)
        /\ off + n \in off..Len(bytes)
    BY <1>2, <1>3
  <2>2. SubSeq(bytes, from + 1, off) \o SubSeq(bytes, off + 1, off + n)
        = SubSeq(bytes, from + 1, off + n)
    BY <1>3, <2>1, ConcatAdjacentSubSeq
  <2> QED
    BY <1>3, <2>2
<1> HIDE DEF piece
<1>6. got' = got \o piece
  BY <1>2 DEF piece
<1>7. got' \in Seq(Character) /\ Len(got') = Len(got) + n
  BY <1>3, <1>4, <1>6, ConcatProperties
<1>8. off' = from + Len(got') /\ off' \in Nat /\ last' \in Nat /\ Len(got') + last' = nbytes
      /\ off' <= Len(bytes)
  BY <1>2, <1>3, <1>7
<1>9. got' = SubSeq(bytes, from + 1, from + Len(got'))
  <2>1. off + n = from + Len(got')
    BY <1>3, <1>7
  <2> QED
    BY <1>5, <1>6, <2>1
<1>10. Reading'
  BY <1>1, <1>3, <1>7, <1>8, <1>9 DEF Reading
<1>11. CommFlags'
  BY <1>1, Zenon DEF CommFlags
<1>12. CommShape'
  BY <1>1, <1>8 DEF CommShape
<1>13. Usable' => there'
  BY <1>1 DEF Usable
<1> QED
  BY <1>10, <1>11, <1>12, <1>13

\* The start of a read, its waits and failures, and its end.
LEMMA ReadCallStep ==
    ASSUME CommInv, comm_file_read \/ ReadNothing \/ ReadAll \/ ReadFails
    PROVE  CommInv'
<1> USE DEF CommInv, handle, kernel, bounds, reading
<1>1. UNCHANGED <<find, status, fd, off, there, bytes, perm>>
  BY DEF comm_file_read, ReadNothing, ReadAll, ReadFails
<1>2. fst' \in {"idle", "read"} /\ us_cnt' \in Nat
  <2>1. CASE comm_file_read
    BY <2>1, TextsAssumption DEF comm_file_read
  <2>2. CASE ReadNothing
    BY <2>2 DEF ReadNothing, Returned, Later, CommShape
  <2>3. CASE ReadAll \/ ReadFails
    BY <2>3 DEF ReadAll, ReadFails, Returned, CommShape
  <2> QED
    BY <2>1, <2>2, <2>3
<1>3. CommFlags'
  BY <1>1, Zenon DEF CommFlags
<1>4. CommShape'
  BY <1>1, <1>2 DEF CommShape
<1>5. Usable' => there'
  BY <1>1 DEF Usable
<1>6. Reading'
  <2>1. CASE comm_file_read
    <3>1. status /\ got' = <<>> /\ from' = off /\ nbytes' = last' /\ last' \in Nat
      BY <2>1, TextsAssumption DEF comm_file_read
    <3>2. SubSeq(bytes, off + 1, off + Len(<<>>)) = <<>> /\ off \in Nat
      BY EmptyPiece DEF CommShape
    <3>3. <<>> \in Seq(Character) /\ Len(<<>>) = 0
      OBVIOUS
    <3>4. got' = SubSeq(bytes', from' + 1, from' + Len(got'))
      BY <1>1, <3>1, <3>2, Zenon
    <3>5. off' = from' + Len(got') /\ Len(got') + last' = nbytes' /\ from' \in Nat
      <4>1. Len(got') = 0
        BY <3>1, <3>3, Zenon
      <4>2. \A x \in Nat : x + 0 = x /\ 0 + x = x
        OBVIOUS
      <4> QED
        BY <1>1, <3>1, <3>2, <4>1, <4>2, Zenon
    <3> QED
      BY <1>1, <3>1, <3>3, <3>4, <3>5 DEF Reading
  <2>2. CASE fst' = "idle"
    BY <2>2 DEF Reading
  <2>3. CASE UNCHANGED <<fst, got, last, nbytes, from>>
    BY <1>1, <2>3 DEF Reading
  <2> QED
    BY <2>1, <2>2, <2>3 DEF ReadNothing, ReadAll, ReadFails, Returned
<1> QED
  BY <1>3, <1>4, <1>5, <1>6

\* Other processes: what was read is still in the file, which only grows while the object
\* has it open, and is not replaced.
LEMMA OtherStep ==
    ASSUME CommInv, OtherProcess
    PROVE  CommInv'
<1> USE DEF CommInv, handle, reading
<1>1. UNCHANGED <<fst, find, status, fd, off, got, last, us_cnt, nbytes, from>>
  BY DEF OtherProcess
<1>2. bytes \in Seq(Character) /\ Len(bytes) <= MaxLen /\ there \in BOOLEAN
  BY DEF CommShape, CommFlags
<1>3. CASE there /\ there' = there /\ perm' = perm /\ bytes' = Append(bytes, Other)
           /\ Len(bytes) < MaxLen
  <2>1. bytes' \in Seq(Character) /\ Len(bytes') = Len(bytes) + 1
        /\ \A i \in 1..Len(bytes) : bytes'[i] = bytes[i]
    BY <1>2, <1>3, TextsAssumption
  <2>2. Len(bytes') <= MaxLen
    BY <1>2, <1>3, <2>1, CommBoundsAssumption
  <2>3. CommShape' /\ (Usable' => there')
    BY <1>1, <1>3, <2>1, <2>2 DEF CommShape, Usable
  <2>4. CommFlags'
    BY <1>1, <1>3, Zenon DEF CommFlags
  <2>5. Reading'
    <3> SUFFICES ASSUME fst = "read"
                 PROVE  Reading'
      BY <1>1 DEF Reading
    <3>1. from \in Nat /\ got \in Seq(Character) /\ Len(got) \in Nat /\ off = from + Len(got)
          /\ (got # <<>> => off <= Len(bytes)) /\ got = SubSeq(bytes, from + 1, from + Len(got))
      BY DEF Reading
    <3>2. SubSeq(bytes', from + 1, from + Len(got)) = SubSeq(bytes, from + 1, from + Len(got))
      <4>1. CASE got = <<>>
        BY <1>2, <2>1, <3>1, <4>1, EmptyPiece
      <4>2. CASE got # <<>>
        BY <1>2, <2>1, <3>1, <4>2
      <4> QED
        BY <4>1, <4>2
    <3>3. Len(bytes) <= Len(bytes')
      BY <1>2, <2>1
    <3>4. got # <<>> => off <= Len(bytes')
      BY <1>2, <2>1, <3>1
    <3> QED
      BY <1>1, <3>1, <3>2, <3>4 DEF Reading
  <2> QED
    BY <2>3, <2>4, <2>5
<1>4. CASE ~Usable /\ there' = FALSE /\ UNCHANGED <<bytes, perm>>
  <2>1. ~Usable'
    BY <1>1, <1>4 DEF Usable
  <2>2. CommShape' /\ Reading'
    BY <1>1, <1>4 DEF CommShape, Reading
  <2>3. CommFlags'
    BY <1>1, <1>4, Zenon DEF CommFlags
  <2> QED
    BY <2>1, <2>2, <2>3
<1>5. CASE ~there /\ there' = TRUE /\ bytes' = <<>> /\ perm' \in SUBSET {"r", "w"}
  <2>1. ~Usable
    BY <1>5
  <2>2. CommFlags' /\ (Usable' => there')
    BY <1>1, <1>5, Zenon DEF CommFlags
  <2>3. CommShape'
    BY <1>1, <1>5, CommBoundsAssumption DEF CommShape
  <2>4. Reading'
    <3> SUFFICES ASSUME fst = "read"
                 PROVE  Reading'
      BY <1>1 DEF Reading
    <3>1. status /\ fd # "ok" /\ from \in Nat
      BY <2>1 DEF Reading, Usable
    <3>2. got = <<>>
      BY <3>1 DEF Reading
    <3>3. SubSeq(bytes', from + 1, from + Len(<<>>)) = <<>>
      BY <1>5, <3>1, EmptyPiece
    <3> QED
      BY <1>1, <3>1, <3>2, <3>3 DEF Reading
  <2> QED
    BY <2>2, <2>3, <2>4
<1> QED
  BY <1>3, <1>4, <1>5 DEF OtherProcess

\* Every step of the object and of the others keeps the invariant.
LEMMA CommStep == CommInv /\ [CommNext]_commVars => CommInv'
<1> SUFFICES ASSUME CommInv, [CommNext]_commVars
             PROVE  CommInv'
  OBVIOUS
<1>1. CASE comm_file_create \/ comm_file_open \/ comm_file_close \/ comm_file_destroy
  BY <1>1, HandleStep
<1>2. CASE OpenAgain
  BY <1>2, OpenAgainStep
<1>3. CASE comm_file_write \/ Position \/ comm_file_append \/ AppendWrite \/ comm_file_insert
  BY <1>3, MoveStep
<1>4. CASE ReadSome
  BY <1>4, ReadSomeStep
<1>5. CASE comm_file_read \/ ReadNothing \/ ReadAll \/ ReadFails
  BY <1>5, ReadCallStep
<1>6. CASE OtherProcess
  BY <1>6, OtherStep
<1>7. CASE UNCHANGED commVars
  BY <1>7 DEF commVars, CommInv, CommShape, CommFlags, Usable, Reading
<1> QED
  BY <1>1, <1>2, <1>3, <1>4, <1>5, <1>6, <1>7 DEF CommNext, ReadStep

\* The invariant holds in every behaviour of the object and of the others.
LEMMA CommInvHolds == CommSpec => []CommInv
  BY InitCommInv, CommStep, PTL DEF CommSpec

\* struct comm_file keeps its types, and the file stays a file.
THEOREM CommTypeCorrect == CommSpec => []CommTypeOK
<1>1. CommInv => CommTypeOK
  BY Zenon DEF CommInv, CommShape, CommFlags, CommTypeOK
<1> QED
  BY <1>1, CommInvHolds, PTL

\* comm_file_read puts together what the file holds from where it began, nothing twice,
\* nothing left out and no more than was asked for: through any short reads, failed reads
\* and waits, while other processes append to the file.
THEOREM ReadsExactly == CommSpec => []ReadIsExact
<1>1. CommInv => ReadIsExact
  BY DEF CommInv, Reading, ReadIsExact
<1> QED
  BY <1>1, CommInvHolds, PTL

-----------------------------------------------------------------------------
(***************************************************************************)
(* What an object is worth whose open failed.  comm_file_open has set      *)
(* status and returned 0 all the same, so its user goes on.                *)
(***************************************************************************)
Failed == status /\ fd = "bad"

\* Who is between the two opens has none yet; who is about to append has a descriptor.
HandleInv == (fst = "open" => ~status) /\ (fst = "append" => fd = "ok") /\ others \in Nat

\* Until it is closed or destroyed it does not come to a descriptor, it leaves the file to
\* the other processes, and a read of it that asks for anything never ends and gets nothing.
FailedIsIdle ==
    Failed =>
        /\ status' => Failed'
        /\ others' = others => UNCHANGED <<there, bytes, perm>>
        /\ fst = "read" /\ last > 0 => UNCHANGED <<fst, got, last, off, status, fd>>

\* Each step keeps HandleInv, and does no more for an object whose open failed.
LEMMA FailedStep == CommInv /\ HandleInv /\ [CommNext]_commVars => HandleInv' /\ FailedIsIdle
<1> SUFFICES ASSUME CommInv, HandleInv, [CommNext]_commVars
             PROVE  HandleInv' /\ FailedIsIdle
  OBVIOUS
<1> USE DEF HandleInv, FailedIsIdle, Failed
<1>1. CASE comm_file_create \/ comm_file_open \/ comm_file_close \/ comm_file_destroy
  BY <1>1 DEF comm_file_create, comm_file_open, comm_file_close, comm_file_destroy, kernel,
              reading, bounds, handle
<1>2. CASE OpenAgain
  BY <1>2 DEF OpenAgain, bounds
<1>3. CASE comm_file_write \/ Position \/ comm_file_append \/ AppendWrite \/ comm_file_insert
  BY <1>3 DEF comm_file_write, Position, comm_file_append, AppendWrite, comm_file_insert, Usable,
              handle, bounds
<1>4. CASE ReadSome \/ ReadNothing
  BY <1>4 DEF ReadSome, ReadNothing, Returned, handle, bounds
<1>5. CASE comm_file_read \/ ReadAll \/ ReadFails
  BY <1>5 DEF comm_file_read, ReadAll, ReadFails, Returned, handle, kernel, reading, bounds
<1>6. CASE OtherProcess
  <2>1. others \in Nat => others' # others
    BY <1>6 DEF OtherProcess
  <2> QED
    BY <1>6, <2>1 DEF OtherProcess, handle, reading
<1>7. CASE UNCHANGED commVars
  BY <1>7 DEF commVars
<1> QED
  BY <1>1, <1>2, <1>3, <1>4, <1>5, <1>6, <1>7 DEF CommNext, ReadStep

\* What main's "open file failed" would have to prevent: an object whose open failed counts
\* as open, touches no file until it is closed, and a read of it never returns.
THEOREM FailedOpenDoesNothing == CommSpec => [][FailedIsIdle]_commVars
<1>1. CommInit => HandleInv
  BY DEF CommInit, HandleInv
<1> QED
  BY <1>1, FailedStep, CommInvHolds, PTL DEF CommSpec
=============================================================================
