------------------------------ MODULE PortServer ------------------------------
(***************************************************************************)
(* The echo server on two ports, c5-4/server.c, with clients that do what  *)
(* c5-3/client.c does: connect, send their arguments as lines, and close   *)
(* the connection without reading an answer, or are killed before that.    *)
(*                                                                         *)
(* The server looks at one port at a time, for a second each, and serves   *)
(* one client until that says quit.  The connections are external: bytes   *)
(* arrive in order; closing a connection with answers unread resets it;    *)
(* an answer to a closed connection may raise SIGPIPE, which ends the      *)
(* server.  A character is a string; the word quit is one character.       *)
(***************************************************************************)
EXTENDS Integers, Sequences, FiniteSets
Sq == INSTANCE SequencesExt

CONSTANTS
    Clients,
    PortOf,         \* PortOf[c]: 0 is port 1234, 1 is port 3333
    Args,           \* Args[c]: the arguments of client c, sequences of characters
    CR, LF,         \* "\r" and "\n"
    Quit,           \* the argument "quit"
    NoClient        \* none of them

ASSUME ClientsAssumption == PortOf \in [Clients -> {0, 1}] /\ NoClient \notin Clients
ASSUME ArgsAssumption ==
    /\ Args \in [Clients -> Seq(Seq(STRING))] /\ {CR, LF} \subseteq STRING
    /\ Quit \in Seq(STRING) \ {<<>>}
ASSUME EndsAssumption ==
    CR # LF /\ ~Sq!Contains(Quit, CR) /\ ~Sq!Contains(Quit, LF)

VARIABLES
    spc, id,        \* server_scan: where it is, and the port it looks at
    cur, ps,        \* server_accept, server_run: the client served, ps[0..len-1]
    queue,          \* external: queue[p], the connections not yet accepted
    conn,           \* external: the state of each connection
    inbox,          \* external: what a client sent and the server has not read
    sent,           \* the writes a client has made, two for each argument
    reply,          \* the answers to a client
    disturbed,      \* history: a client closed without having been told good-bye,
                    \* a call of select failed, or one of accept lost a connection
    cli_len         \* server_accept: what its local variable happens to hold

srvVars == <<spc, id, cur, ps, queue, conn, inbox, sent, reply, disturbed, cli_len>>
cliVars == <<queue, conn, inbox, sent>>
runVars == <<spc, id, cur, ps>>

SrvInit ==
    /\ spc = "setup" /\ id = 0 /\ cur = NoClient /\ ps = <<>>
    /\ queue = [p \in {0, 1} |-> <<>>]
    /\ conn = [c \in Clients |-> "new"]
    /\ inbox = [c \in Clients |-> <<>>]
    /\ sent = [c \in Clients |-> 0]
    /\ reply = [c \in Clients |-> <<>>]
    /\ disturbed = FALSE /\ cli_len = "fits"

-----------------------------------------------------------------------------
(***************************************************************************)
(* The server.                                                             *)
(***************************************************************************)
\* Both ports are set up, or the program ends.
server_setup ==
    /\ spc = "setup" /\ spc' \in {"select", "exit"}
    /\ UNCHANGED <<id, cur, ps, cliVars, reply, disturbed, cli_len>>

\* A connection is there; server_accept begins, with a cli_len that nothing initialises.
SelectReady ==
    /\ spc = "select" /\ queue[id] # <<>> /\ spc' = "accept"
    /\ cli_len' \in {"fits", "negative"}
    /\ UNCHANGED <<id, cur, ps, cliVars, reply, disturbed>>

\* Mutants: the other port never has its turn; the ports are counted on.
OtherPort_Next(p) == p + 1
OtherPort_Stay(p) == p
OtherPort(p) == 1 - p

SelectTimeout ==
    /\ spc = "select" /\ queue[id] = <<>> /\ id' = OtherPort(id)
    /\ UNCHANGED <<spc, cur, ps, cliVars, reply, disturbed, cli_len>>

SelectFails ==
    /\ spc = "select" /\ spc' = "exit" /\ disturbed' = TRUE
    /\ UNCHANGED <<id, cur, ps, cliVars, reply, cli_len>>

\* (A failure that leaves the connection where it is changes nothing: q is still 0, so
\* the loop calls accept again.)
Accept ==
    /\ spc = "accept" /\ cli_len = "fits" /\ queue[id] # <<>>
    /\ cur' = Head(queue[id]) /\ queue' = [queue EXCEPT ![id] = Tail(@)]
    /\ spc' = "read" /\ ps' = <<>>
    /\ UNCHANGED <<id, conn, inbox, sent, reply, disturbed, cli_len>>

\* The address cannot be stored in a negative length: accept gives the connection up and
\* fails, this time and every time after.
AcceptFails ==
    /\ spc = "accept" /\ cli_len = "negative" /\ queue[id] # <<>>
    /\ queue' = [queue EXCEPT ![id] = Tail(@)]
    /\ conn' = [conn EXCEPT ![Head(queue[id])] = "dropped"]
    /\ disturbed' = TRUE
    /\ UNCHANGED <<runVars, inbox, sent, reply, cli_len>>

Arrived == spc = "read" /\ inbox[cur] # <<>>
Take == inbox' = [inbox EXCEPT ![cur] = Tail(@)]

ReadChar ==
    /\ Arrived /\ Head(inbox[cur]) # LF
    /\ ps' = Append(ps, Head(inbox[cur])) /\ Take
    /\ UNCHANGED <<spc, id, cur, queue, conn, sent, reply, disturbed, cli_len>>

\* Mutant: the line is answered with its carriage return.
LastDropped_Keep(n) == n
LastDropped(n) == n - 1

\* A line: its last character is dropped (a line of none gets the length -1), one of
\* length 0 is passed over, any other is answered with what is left of it.
ReadLine ==
    /\ Arrived /\ Head(inbox[cur]) = LF /\ Take
    /\ LET len == LastDropped(Len(ps))
           text == SubSeq(ps, 1, len)
           over == len # 0 /\ text = Quit
           pipe == len # 0 /\ conn[cur] # "open"
       IN  /\ reply' = IF len = 0 THEN reply ELSE [reply EXCEPT ![cur] = Append(@, text)]
           /\ ps' = <<>>
           /\ \/ spc' = IF over THEN "select" ELSE "read"
              \/ pipe /\ spc' = "exit"
           /\ cur' = IF over THEN NoClient ELSE cur
           /\ \/ conn' = IF over THEN [conn EXCEPT ![cur] = "served"] ELSE conn
              \/ pipe /\ ~over /\ conn' = [conn EXCEPT ![cur] = "reset"]
    /\ UNCHANGED <<id, queue, sent, disturbed, cli_len>>

\* The answer -1 ends the program.  (The answer 0, at the end of a connection that was
\* closed, changes nothing: the server asks again, for ever.)
ReadError ==
    /\ spc = "read" /\ inbox[cur] = <<>> /\ conn[cur] = "reset"
    /\ spc' = "exit"
    /\ UNCHANGED <<id, cur, ps, cliVars, reply, disturbed, cli_len>>

Server ==
    \/ server_setup \/ SelectReady \/ SelectTimeout \/ Accept \/ AcceptFails
    \/ ReadChar \/ ReadLine \/ ReadError

-----------------------------------------------------------------------------
(***************************************************************************)
(* A client.                                                               *)
(***************************************************************************)
Connect(c) ==
    /\ conn[c] = "new" /\ spc \notin {"setup", "exit"}
    /\ conn' = [conn EXCEPT ![c] = "open"]
    /\ queue' = [queue EXCEPT ![PortOf[c]] = Append(@, c)]
    /\ UNCHANGED <<runVars, inbox, sent, reply, disturbed, cli_len>>

\* An argument, then the end of the line.
Written(c) == IF sent[c] % 2 = 0 THEN Args[c][sent[c] \div 2 + 1] ELSE <<CR, LF>>

send_message(c) ==
    /\ conn[c] = "open" /\ spc # "exit" /\ sent[c] < 2 * Len(Args[c])
    /\ inbox' = [inbox EXCEPT ![c] = @ \o Written(c)]
    /\ sent' = [sent EXCEPT ![c] = @ + 1]
    /\ UNCHANGED <<runVars, queue, conn, reply, disturbed, cli_len>>

\* After its last argument, or before it when the client is killed.
Close(c) ==
    /\ conn[c] = "open" /\ spc # "exit"
    /\ conn' = [conn EXCEPT ![c] = IF reply[c] = <<>> THEN "closed" ELSE "reset"]
    /\ disturbed' = TRUE
    /\ UNCHANGED <<runVars, queue, inbox, sent, reply, cli_len>>

SrvNext ==
    \/ Server \/ SelectFails
    \/ \E c \in Clients : Connect(c) \/ send_message(c) \/ Close(c)

SrvSpec == SrvInit /\ [][SrvNext]_srvVars

-----------------------------------------------------------------------------
(***************************************************************************)
(* Properties.                                                             *)
(***************************************************************************)
\* Type correctness; the server reads only from a client it has accepted.
SrvTypeOK ==
    /\ spc \in {"setup", "select", "accept", "read", "exit"} /\ id \in {0, 1}
    /\ cur \in Clients \cup {NoClient} /\ (spc = "read" => cur # NoClient)
    /\ ps \in Seq(STRING) /\ queue \in [{0, 1} -> Seq(Clients)]
    /\ conn \in [Clients -> {"new", "open", "closed", "reset", "served", "dropped"}]
    /\ inbox \in [Clients -> Seq(STRING)] /\ reply \in [Clients -> Seq(Seq(STRING))]
    /\ sent \in [Clients -> Nat] /\ \A c \in Clients : sent[c] <= 2 * Len(Args[c])
    /\ disturbed \in BOOLEAN /\ cli_len \in {"fits", "negative"}

\* All that client c sends.
Text(c) == Sq!FlattenSeq([k \in 1..Len(Args[c]) |-> Args[c][k] \o <<CR, LF>>])

\* The line of text t that ends at place e: what lies between that line feed and the one
\* before it.  The line feeds up to place k whose lines are answered, and the answer.
EndBefore(t, e) ==
    CHOOSE b \in 0..(e - 1) : (b = 0 \/ t[b] = LF) /\ \A x \in (b + 1)..(e - 1) : t[x] # LF
Line(t, e) == SubSeq(t, EndBefore(t, e) + 1, e - 1)
Answered(t, k) == {e \in 1..k : t[e] = LF /\ Len(Line(t, e)) # 1}
Answer(t, e) == SubSeq(Line(t, e), 1, Len(Line(t, e)) - 1)

\* A client is answered its own lines, in order and once each, however its writes and
\* those of the clients before it fall into pieces; it counts as served when it has said
\* quit, and is answered nothing after that.
AnswersOwnLines ==
    \A c \in Clients :
        LET t == Text(c)
            n == Len(reply[c])
        IN  /\ \A i \in 1..n : \E e \in Answered(t, Len(t)) :
                 Cardinality(Answered(t, e)) = i /\ reply[c][i] = Answer(t, e)
            /\ \A i \in 1..n : reply[c][i] = Quit <=> conn[c] = "served" /\ i = n
            /\ conn[c] = "served" => n > 0

\* A client that connects, on either port, and has quit among its arguments, is served:
\* unless some client has closed its connection too early, after which the server may
\* end or read nothing for ever, or select has failed, or accept has lost a connection
\* to its length.  An accept that fails otherwise is taken to succeed in the end.
ClientsServed ==
    \A c \in Clients : Sq!Contains(Args[c], Quit) =>
        (conn[c] = "open" ~> conn[c] = "served" \/ disturbed)
=============================================================================
