---------------------------- MODULE ProgramsProofs ----------------------------
(***************************************************************************)
(* The safety properties of the five programs, of the specification that   *)
(* the run `programs' checks: each of its behaviours is one of every       *)
(* program, whichever of them it is about.                                 *)
(***************************************************************************)
EXTENDS MCPrograms, ThreadProofs, PortServerProofs, FileProofs

\* A step of one of the programs is its step, and none of the others'.
LEMMA StepOfEach ==
    ASSUME [Next]_allVars
    PROVE  /\ [CondNext]_condVars /\ [SemNext]_semVars /\ [SrvNext]_srvVars
           /\ [FileNext]_fileVars /\ [CommNext]_commVars
<1>1. CASE Cond(CondNext)
  BY <1>1 DEF Cond
<1>2. CASE Sem(SemNext)
  BY <1>2 DEF Sem
<1>3. CASE Srv(SrvNext)
  BY <1>3 DEF Srv
<1>4. CASE File(FileNext)
  BY <1>4 DEF File
<1>5. CASE Comm(CommNext)
  BY <1>5 DEF Comm
<1>6. CASE UNCHANGED allVars
  BY <1>6 DEF allVars
<1> QED
  BY <1>1, <1>2, <1>3, <1>4, <1>5, <1>6 DEF Next

\* Each of thread.c's test_cond, c4-2, the server of c5-4, the data file class and the file
\* object behaves as it does by itself: the composed specification implements all five.
THEOREM EachRunsItsProgram == Spec => CondSpec /\ SemSpec /\ SrvSpec /\ FileSpec /\ CommSpec
<1>1. Init => CondInit /\ SemInit /\ SrvInit /\ FileInit /\ CommInit
  BY DEF Init
<1>2. [Next]_allVars => /\ [CondNext]_condVars /\ [SemNext]_semVars /\ [SrvNext]_srvVars
                        /\ [FileNext]_fileVars /\ [CommNext]_commVars
  BY StepOfEach
<1> QED
  BY <1>1, <1>2, PTL DEF Spec, CondSpec, SemSpec, SrvSpec, FileSpec, CommSpec

\* Types of all five programs: the places of their threads, the holder of the mutex, the
\* semaphore's tokens, the server's queues and streams, the files and their positions.
THEOREM ProgramTypes == Spec => []TypesOK
<1>1. CondTypeOK /\ SemTypeOK /\ SrvTypeOK /\ FileTypeOK /\ CommTypeOK => TypesOK
  BY DEF TypesOK
<1> QED
  BY <1>1, EachRunsItsProgram, CondTypeCorrect, SemTypeCorrect, SrvTypeCorrect,
     FileTypeCorrect, CommTypeCorrect, PTL

\* Everything safe that the run checks of the five programs: no sleep through an activation
\* and no work unasked for in thread.c, no use after free in c4-2, own answers in c5-4, kept
\* data in datafile.cpp and exact reads in comm_file.c.
THEOREM ProgramsAreSafe ==
    Spec => /\ []NoSleepThroughActivation /\ []WorkIsAskedFor /\ []FreedAfterUse
            /\ []AnswersOwnLines /\ []AcceptedIsKept /\ []ReadIsExact /\ KeepsOldContents
BY EachRunsItsProgram, NoLostWakeup, NoWorkUnasked, FreeIsLast, AnswersAreOwn,
   WritesAreKept, OldContentsAreKept, ReadsExactly, PTL
=============================================================================
