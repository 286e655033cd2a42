------------------------------- MODULE CommFile -------------------------------
(***************************************************************************)
(* The file object of demo-io, comm_file.c, and other processes that use   *)
(* the same file.                                                          *)
(*                                                                         *)
(* Opening tries the file for reading first, to know whether to create it; *)
(* the object counts as open whether or not the second open succeeded.     *)
(* Reading repeats short reads, and waits a while for more at the end of   *)
(* the file.  The file and its descriptor are external.  Descriptor 0 is   *)
(* taken to be in use, so that "fd > 0" is "the file could be read".       *)
(***************************************************************************)
EXTENDS FileBytes

CONSTANTS
    Texts,          \* what is written: sequences of characters
    Lengths,        \* how many characters are read
    Offsets,        \* for at_mid and insert
    Delays,         \* DLY_CNT(tmsec)
    Other,          \* the character that other processes append
    MaxLen,         \* bound: the size of the file
    MaxOthers,      \* bound: what other processes do
    MaxErrors       \* bound: reads that fail for a moment

ASSUME TextsAssumption ==
    /\ Texts \subseteq Seq(Character) /\ (\A t \in Texts : Len(t) > 0) /\ Other \in Character
    /\ Lengths \subseteq Nat /\ Offsets \subseteq Nat /\ Delays \subseteq Nat
ASSUME CommBoundsAssumption == MaxLen \in Nat /\ MaxOthers \in Nat /\ MaxErrors \in Nat

VARIABLES
    fst,            \* where the object is: "none", "idle", in a call, or "gone"
    find,           \* comm_file_open: the file could be read
    status, fd,     \* struct comm_file; fd is "bad" for -1
    off,            \* external: the offset of the descriptor
    there, bytes,   \* external: whether the file exists, its contents
    perm, dirok,    \* external: "r" and "w"; whether a file can be created
    got, last, us_cnt, nbytes, from,     \* comm_file_read
    others, errors

commVars == <<fst, find, status, fd, off, there, bytes, perm, dirok,
              got, last, us_cnt, nbytes, from, others, errors>>
kernel == <<off, there, bytes, perm, dirok>>
handle == <<find, status, fd>>
reading == <<got, last, us_cnt, nbytes, from>>
bounds == <<others, errors>>

CommInit ==
    /\ fst = "none" /\ find = FALSE /\ status = FALSE /\ fd = "bad" /\ off = 0
    /\ there \in BOOLEAN /\ bytes = <<>>
    /\ perm \in SUBSET {"r", "w"} /\ dirok \in BOOLEAN
    /\ got = <<>> /\ last = 0 /\ us_cnt = 0 /\ nbytes = 0 /\ from = 0
    /\ others = 0 /\ errors = 0

-----------------------------------------------------------------------------
(***************************************************************************)
(* Create, open, close, destroy.                                           *)
(***************************************************************************)
comm_file_create ==
    /\ fst = "none" /\ fst' = "idle"
    /\ UNCHANGED <<handle, kernel, reading, bounds>>

\* The first open and its close.  (With status set the call does nothing.)
comm_file_open ==
    /\ fst = "idle" /\ ~status /\ fst' = "open"
    /\ find' = (there /\ "r" \in perm)
    /\ UNCHANGED <<status, fd, kernel, reading, bounds>>

\* The second: O_RDWR, with O_CREAT if the first failed.
OpenAgain ==
    /\ fst = "open" /\ fst' = "idle"
    /\ LET creates == ~there /\ ~find /\ dirok
           opens == creates \/ (there /\ perm = {"r", "w"})
       IN  /\ fd' = IF opens THEN "ok" ELSE "bad"
           /\ off' = IF opens THEN 0 ELSE off
           /\ IF creates THEN there' = TRUE /\ bytes' = <<>> /\ perm' = {"r", "w"}
              ELSE UNCHANGED <<there, bytes, perm>>
    /\ status' = TRUE
    /\ UNCHANGED <<find, dirok, reading, bounds>>

comm_file_close ==
    /\ fst = "idle" /\ status /\ status' = FALSE /\ fd' = "bad"
    /\ UNCHANGED <<fst, find, kernel, reading, bounds>>

comm_file_destroy ==
    /\ fst = "idle" /\ fst' = "gone"
    /\ status' = FALSE /\ fd' = "bad"
    /\ UNCHANGED <<find, kernel, reading, bounds>>

-----------------------------------------------------------------------------
(***************************************************************************)
(* Positioning and writing: one system call each; without a descriptor     *)
(* that is good it fails and nothing happens.                              *)
(***************************************************************************)
Usable == status /\ fd = "ok"

\* write: some of the text, all of it unless the disk is full.
WriteAt(p, t) ==
    \E k \in 0..Len(t) :
        /\ p + k <= MaxLen
        /\ bytes' = IF k = 0 THEN bytes ELSE Overwritten(bytes, p, SubSeq(t, 1, k))
        /\ off' = p + k

comm_file_write ==
    /\ fst = "idle" /\ Usable /\ \E t \in Texts : WriteAt(off, t)
    /\ UNCHANGED <<fst, handle, there, perm, dirok, reading, bounds>>

\* comm_file_at_start, comm_file_at_end, comm_file_at_mid
Position ==
    /\ fst = "idle" /\ Usable /\ off' \in {0, Len(bytes)} \cup Offsets
    /\ UNCHANGED <<fst, handle, there, bytes, perm, dirok, reading, bounds>>

\* Goes to the end, and then writes there: others may have appended in between.
comm_file_append ==
    /\ fst = "idle" /\ Usable /\ fst' = "append" /\ off' = Len(bytes)
    /\ UNCHANGED <<handle, there, bytes, perm, dirok, reading, bounds>>

AppendWrite ==
    /\ fst = "append" /\ fst' = "idle" /\ \E t \in Texts : WriteAt(off, t)
    /\ UNCHANGED <<handle, there, perm, dirok, reading, bounds>>

\* It overwrites.
comm_file_insert ==
    /\ fst = "idle" /\ Usable /\ \E p \in Offsets, t \in Texts : WriteAt(p, t)
    /\ UNCHANGED <<fst, handle, there, perm, dirok, reading, bounds>>

-----------------------------------------------------------------------------
(***************************************************************************)
(* Reading.                                                                *)
(***************************************************************************)
comm_file_read ==
    /\ fst = "idle" /\ status /\ fst' = "read"
    /\ \E n \in Lengths, d \in Delays : nbytes' = n /\ last' = n /\ us_cnt' = d
    /\ got' = <<>> /\ from' = off
    /\ UNCHANGED <<handle, kernel, bounds>>

\* Mutant: each read asks for all of it again.
Wanted_All == nbytes
Wanted == last

\* read, which may give less than there is.
ReadSome ==
    /\ fst = "read" /\ last > 0 /\ fd = "ok"
    /\ \E n \in 1..Wanted :
        /\ off + n <= Len(bytes)
        /\ got' = got \o SubSeq(bytes, off + 1, off + n)
        /\ last' = last - n /\ off' = off + n
    /\ UNCHANGED <<fst, handle, there, bytes, perm, dirok, us_cnt, nbytes, from, bounds>>

\* The end of the call, and of its local variables.
Returned == fst' = "idle" /\ got' = <<>> /\ last' = 0 /\ us_cnt' = 0 /\ nbytes' = 0 /\ from' = 0

\* Mutant: the time is not counted.
Later_Same(t) == t
Later(t) == t - 1

\* The end of the file: wait for more, or return with what there is.
ReadNothing ==
    /\ fst = "read" /\ last > 0 /\ fd = "ok" /\ off >= Len(bytes)
    /\ IF us_cnt = 0 THEN Returned
       ELSE us_cnt' = Later(us_cnt) /\ UNCHANGED <<fst, got, last, nbytes, from>>
    /\ UNCHANGED <<handle, kernel, bounds>>

ReadAll ==
    /\ fst = "read" /\ last = 0 /\ Returned
    /\ UNCHANGED <<handle, kernel, bounds>>

\* A failed read is reported and repeated.  (Without a good descriptor every read fails,
\* and the loop never ends.)
ReadFails ==
    /\ fst = "read" /\ last > 0 /\ errors < MaxErrors /\ errors' = errors + 1
    /\ UNCHANGED <<fst, handle, kernel, reading, others>>

ReadStep == ReadSome \/ ReadNothing \/ ReadAll

-----------------------------------------------------------------------------
(***************************************************************************)
(* External: other processes.                                              *)
(***************************************************************************)
OtherProcess ==
    /\ others < MaxOthers /\ others' = others + 1
    /\ \/ /\ there /\ Len(bytes) < MaxLen /\ bytes' = Append(bytes, Other)
          /\ UNCHANGED <<there, perm>>
       \/ ~Usable /\ there /\ there' = FALSE /\ UNCHANGED <<bytes, perm>>
       \/ ~there /\ there' = TRUE /\ bytes' = <<>> /\ perm' \in SUBSET {"r", "w"}
    /\ UNCHANGED <<fst, handle, off, dirok, reading, errors>>

CommNext ==
    \/ comm_file_create \/ comm_file_open \/ OpenAgain \/ comm_file_close \/ comm_file_destroy
    \/ comm_file_write \/ Position \/ comm_file_append \/ AppendWrite \/ comm_file_insert
    \/ comm_file_read \/ ReadStep \/ ReadFails
    \/ OtherProcess

CommSpec == CommInit /\ [][CommNext]_commVars

-----------------------------------------------------------------------------
(***************************************************************************)
(* Properties.                                                             *)
(***************************************************************************)
\* Type correctness.
CommTypeOK ==
    /\ fst \in {"none", "idle", "open", "append", "read", "gone"}
    /\ find \in BOOLEAN /\ status \in BOOLEAN /\ fd \in {"ok", "bad"} /\ off \in Nat
    /\ there \in BOOLEAN /\ bytes \in Seq(Character) /\ Len(bytes) <= MaxLen
    /\ perm \subseteq {"r", "w"}
    /\ us_cnt \in Nat

\* A read puts together what the file holds from the position where it began, nothing
\* twice and nothing left out and never more than was asked for, through short reads,
\* failed ones and a file that grows meanwhile.
ReadIsExact ==
    fst = "read" => /\ got = SubSeq(bytes, from + 1, from + Len(got))
                    /\ Len(got) + last = nbytes /\ last >= 0

\* A read comes to its end if the file could be opened.
FileReadReturns == fst = "read" /\ fd = "ok" ~> fst = "idle"

\* "open file failed": the caller of open, which looks at its result, has an open file
\* when that is 0.
OpenedIsOpen == fst = "idle" /\ status => fd = "ok"
=============================================================================
