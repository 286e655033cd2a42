------------------------------ MODULE MCPrograms ------------------------------
(***************************************************************************)
(* Five programs and classes that have nothing to do with each other, each *)
(* by itself: prog says which of them a behaviour is about, the others     *)
(* stay where they begin.                                                  *)
(***************************************************************************)
EXTENDS CondDemo, SemDemo, PortServer, DataFile, CommFile

\* Two clients on the first port and one on the second.  One sends a line of its own
\* with nothing in it (a line feed) and an empty argument, one goes on after its quit.
MCPortOf == [c \in Clients |-> IF c = "b" THEN 1 ELSE 0]
MCArgs ==
    [c \in Clients |-> CASE c = "a" -> << <<"x", "y">>, <<"q">> >>
                         [] c = "b" -> << <<LF>>, <<>>, <<"q">> >>
                         [] c = "c" -> << <<"q">>, <<"y">> >>]
MCQuit == <<"q">>
MCTexts == {<<"b", "a">>}
MCOld == <<"o">>

VARIABLE prog
Programs == {"cond", "sem", "server", "data file", "comm file"}

allVars == <<prog, condVars, semVars, srvVars, fileVars, commVars>>

Init ==
    /\ prog \in Programs
    /\ CondInit /\ SemInit /\ SrvInit /\ FileInit /\ CommInit
    /\ prog # "data file" => disk = Missing
    /\ prog # "comm file" => ~there /\ ~dirok /\ perm = {}

Cond(A) == prog = "cond" /\ A /\ UNCHANGED <<prog, semVars, srvVars, fileVars, commVars>>
Sem(A) == prog = "sem" /\ A /\ UNCHANGED <<prog, condVars, srvVars, fileVars, commVars>>
Srv(A) == prog = "server" /\ A /\ UNCHANGED <<prog, condVars, semVars, fileVars, commVars>>
File(A) == prog = "data file" /\ A /\ UNCHANGED <<prog, condVars, semVars, srvVars, commVars>>
Comm(A) == prog = "comm file" /\ A /\ UNCHANGED <<prog, condVars, semVars, srvVars, fileVars>>

Next == Cond(CondNext) \/ Sem(SemNext) \/ Srv(SrvNext) \/ File(FileNext) \/ Comm(CommNext)

\* Each thread that can run does.  A worker of CondDemo gets the mutex when it is free
\* again and again: the main thread sleeps for a second between two uses of it.  The
\* clients of the server send all that they have.
Fairness ==
    /\ WF_allVars(Cond(MainHolding))
    /\ \A w \in Workers : SF_allVars(Cond(Acquire(w))) /\ WF_allVars(Cond(WorkerStep(w)))
    /\ WF_allVars(Sem(MainThread)) /\ WF_allVars(Sem(Produce))
    /\ \A c \in Consumers : WF_allVars(Sem(Consume(c))) /\ WF_allVars(Sem(CancelTakesEffect(c)))
    /\ WF_allVars(Srv(Server))
    /\ \A c \in Clients : WF_allVars(Srv(send_message(c)))
    /\ WF_allVars(Comm(ReadStep))

Spec == Init /\ [][Next]_allVars /\ Fairness

\* Type correctness of the five.
TypesOK == CondTypeOK /\ SemTypeOK /\ SrvTypeOK /\ FileTypeOK /\ CommTypeOK
=============================================================================
