------------------------------- MODULE DataFile -------------------------------
(***************************************************************************)
(* The file object of demo-dh, drivers/datafile.cpp: clsDataFile.          *)
(*                                                                         *)
(* Reading, writing, flushing and closing look at f_opened; the positioning*)
(* and asking operations do not, and go through f_stream whatever it is.   *)
(* The stream is external: it sees its file with its own writes (view),    *)
(* which reach the disk at the latest when it is flushed, positioned or    *)
(* closed, unless that fails.  The class is modelled with one file.        *)
(***************************************************************************)
EXTENDS FileBytes
SE == INSTANCE SequencesExt

CONSTANTS
    Data,           \* what is written: sequences of characters
    Amounts,        \* how many characters are read, and the positions gone to
    Old,            \* the contents of the file before, if there is one
    MaxSize         \* bound: the size of the file

ASSUME DataAssumption ==
    /\ Amounts \subseteq Nat /\ MaxSize \in Nat
    /\ Old \in Seq(Character) /\ Len(Old) <= MaxSize
    /\ Data \subseteq Seq(Character) /\ \A d \in Data : Len(d) > 0

OFLAG_RO == 0
OFLAG_WO == 1
OFLAG_WR == 2
OFLAG_AP == 3
OFLAG == OFLAG_RO..OFLAG_AP

VARIABLES
    obj,            \* "live", "gone" when destroyed, "wild" after an undefined access
    f_opened, f_flag,
    view, fpos, eof, ferr,      \* external: the stream behind f_stream
    disk,           \* external: the file, or Missing
    want,           \* history: the file as the accepted writes make it, while none is lost
    lost            \* history: the stream gave up data that it had accepted

fileVars == <<obj, f_opened, f_flag, view, fpos, eof, ferr, disk, want, lost>>
stream == <<view, fpos, eof, ferr>>

FileInit ==
    /\ obj = "live" /\ f_opened = FALSE /\ f_flag = OFLAG_RO
    /\ view = <<>> /\ fpos = 0 /\ eof = FALSE /\ ferr = FALSE
    /\ disk \in {Old, Missing}
    /\ want = disk /\ lost = FALSE

\* The writes of the stream reach the disk, or they do not: then it keeps them for the
\* next time, or gives them up.
WrittenOut == disk' = view /\ UNCHANGED <<view, lost>>
GivenUp == view # disk /\ view' = disk /\ lost' = TRUE /\ UNCHANGED disk
Unwritten ==
    /\ ferr' = TRUE
    /\ GivenUp \/ (view # disk /\ UNCHANGED <<view, disk, lost>>)

-----------------------------------------------------------------------------
(***************************************************************************)
(* Opening and closing.                                                    *)
(***************************************************************************)
\* Mutant: write only is "w".
Mode_Truncate(flag) ==
    CASE flag = OFLAG_RO -> "r" [] flag = OFLAG_WO -> "w"
      [] flag = OFLAG_WR -> "r+" [] OTHER -> "a+"
Mode(flag) ==
    CASE flag = OFLAG_RO -> "r" [] flag = OFLAG_WO -> "a"
      [] flag = OFLAG_WR -> "r+" [] OTHER -> "a+"

\* Mutant: an object that has a file open opens it again.
MayOpen_Always == TRUE
MayOpen == ~f_opened

\* fopen creates the file in the modes "a" and "a+"; it may always fail.  (The refusals
\* of a null path and of a file that is open change nothing.)
fileOpen(flag) ==
    /\ obj = "live" /\ MayOpen
    /\ disk = Missing => Mode(flag) \notin {"r", "r+"}
    /\ disk' = IF disk = Missing \/ Mode(flag) = "w" THEN <<>> ELSE disk
    /\ want' = IF want = Missing THEN <<>> ELSE want
    /\ view' = disk' /\ fpos' = IF Mode(flag) = "a" THEN Len(disk') ELSE 0
    /\ eof' = FALSE /\ ferr' = FALSE
    /\ f_opened' = TRUE /\ f_flag' = flag
    /\ UNCHANGED <<obj, lost>>

\* A close that fails closes the stream too.
CloseStream ==
    IF f_opened THEN (WrittenOut \/ GivenUp) /\ f_opened' = FALSE /\ UNCHANGED <<fpos, eof, ferr>>
    ELSE UNCHANGED <<f_opened, stream, disk, lost>>

fileClose ==
    /\ obj = "live" /\ f_opened /\ CloseStream
    /\ UNCHANGED <<obj, f_flag, want>>

Destroy ==
    /\ obj = "live" /\ obj' = "gone" /\ CloseStream
    /\ UNCHANGED <<f_flag, want>>

-----------------------------------------------------------------------------
(***************************************************************************)
(* Operations that look at f_opened; refused, they change nothing.         *)
(***************************************************************************)
Permits(refused) == obj = "live" /\ f_opened /\ f_flag # refused

\* A read that fails gives what it has got before.
fileRead ==
    /\ Permits(OFLAG_WO)
    /\ \/ Unwritten /\ UNCHANGED <<fpos, eof>>
       \/ /\ WrittenOut
          /\ \E bytes \in Amounts \ {0}, len \in 0..MaxSize :
              LET there == IF fpos < Len(view) THEN Len(view) - fpos ELSE 0
                  most == IF bytes < there THEN bytes ELSE there
              IN  /\ len <= most /\ fpos' = fpos + len
                  /\ \/ len = most /\ eof' = (eof \/ len < bytes) /\ UNCHANGED ferr
                     \/ len < bytes /\ ferr' = TRUE /\ UNCHANGED eof
    /\ UNCHANGED <<obj, f_opened, f_flag, want>>

\* The first len characters are accepted, all of them unless the stream fails; the
\* stream may pass them on at once.  The append modes write at the end, wherever the
\* stream was positioned.
fileWrite ==
    /\ Permits(OFLAG_RO)
    /\ \E d \in Data, len \in 0..MaxSize :
        LET p == IF Mode(f_flag) \in {"a", "a+"} THEN Len(view) ELSE fpos
            new == Overwritten(view, p, SubSeq(d, 1, len))
        IN  /\ len <= Len(d) /\ p + len <= MaxSize
            /\ IF len = 0 THEN UNCHANGED <<view, want, fpos>>
               ELSE /\ view' = new
                    /\ want' = IF lost THEN want
                               ELSE Overwritten(want, IF f_flag = OFLAG_WR THEN fpos ELSE Len(want),
                                                SubSeq(d, 1, len))
                    /\ fpos' = p + len
            /\ ferr' = (ferr \/ len < Len(d))
            /\ disk' \in {disk, view'}
    /\ UNCHANGED <<obj, f_opened, f_flag, eof, lost>>

fileFlush ==
    /\ obj = "live" /\ f_opened
    /\ (WrittenOut /\ UNCHANGED ferr) \/ Unwritten
    /\ UNCHANGED <<obj, f_opened, f_flag, fpos, eof, want>>

-----------------------------------------------------------------------------
(***************************************************************************)
(* Operations that do not.                                                 *)
(***************************************************************************)
\* atStart, atPos and atEnd.  fseek writes out what is pending and forgets the end of
\* file; when it fails the stream stays where it is.
Seek(p) ==
    /\ obj = "live" /\ f_opened
    /\ \/ WrittenOut /\ fpos' = p /\ eof' = FALSE /\ UNCHANGED ferr
       \/ Unwritten /\ UNCHANGED <<fpos, eof>>
    /\ UNCHANGED <<obj, f_opened, f_flag, want>>

atStart == Seek(0)
atPos == \E p \in Amounts : Seek(p)
atEnd == Seek(Len(view))

\* Goes to the end and back, so that the position is kept but the end of file is not.
\* The way back may succeed when the way to the end did not.
getSize ==
    \/ Seek(fpos)
    \/ /\ obj = "live" /\ f_opened /\ view # disk
       /\ WrittenOut \/ GivenUp
       /\ eof' = FALSE /\ ferr' = TRUE
       /\ UNCHANGED <<obj, f_opened, f_flag, fpos, want>>

isError ==
    /\ obj = "live" /\ f_opened /\ ferr' = FALSE
    /\ UNCHANGED <<obj, f_opened, f_flag, view, fpos, eof, disk, want, lost>>

\* Any of them, getPos and isEnd too, on an object without an open file: f_stream is not
\* initialised or is closed, and what comes of it is undefined.
NoStream ==
    /\ obj = "live" /\ ~f_opened /\ obj' \in {"live", "wild"}
    /\ UNCHANGED <<f_opened, f_flag, stream, disk, want, lost>>

FileNext ==
    \/ \E flag \in OFLAG : fileOpen(flag)
    \/ fileClose \/ Destroy
    \/ fileRead \/ fileWrite \/ fileFlush
    \/ atStart \/ atPos \/ atEnd \/ getSize \/ isError \/ NoStream

FileSpec == FileInit /\ [][FileNext]_fileVars

-----------------------------------------------------------------------------
(***************************************************************************)
(* Properties.                                                             *)
(***************************************************************************)
\* Type correctness.
FileTypeOK ==
    /\ obj \in {"live", "gone", "wild"} /\ f_opened \in BOOLEAN /\ f_flag \in OFLAG
    /\ fpos \in Nat /\ eof \in BOOLEAN /\ ferr \in BOOLEAN /\ lost \in BOOLEAN
    /\ view \in Seq(Character) /\ Len(view) <= MaxSize
    /\ disk = Missing \/ (disk \in Seq(Character) /\ Len(disk) <= MaxSize)

\* Nothing is lost that was there: no open, write, seek or close shortens the file, and
\* with "write only" and "append" its old contents stay as they are, wherever the object
\* was positioned before it wrote.
KeepsOldContents ==
    [][disk # Missing =>
        /\ disk' # Missing /\ Len(disk') >= Len(disk)
        /\ f_flag' \in {OFLAG_WO, OFLAG_AP} => SE!IsPrefix(disk, disk')]_fileVars

\* What fileWrite accepted is in the file when the object has closed it, by fileClose or
\* by its destructor, in any sequence of opens and closes, also after flushes that failed;
\* unless the stream gave it up, which fileClose tells nobody.
AcceptedIsKept == ~f_opened \/ obj = "gone" => disk = want \/ lost
=============================================================================
