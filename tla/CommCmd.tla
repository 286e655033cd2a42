------------------------------- MODULE CommCmd -------------------------------
(***************************************************************************)
(* The command shell of demo-dh: common/comm_cmd.c (command table, line    *)
(* reader, parser, dispatcher), common/comm_main.c (main loop, quit, exit  *)
(* and help) and common/comm_io.c (the modules that add commands), with    *)
(* the commands of common/sock_cmd.c and the consoles of socket/server.c:  *)
(* standard input, or the first connection to a socket.                    *)
(*                                                                         *)
(* The names of commands and groups are words of one character, so that a  *)
(* line is a short sequence of characters and the buffer a small array:    *)
(* what the shell does with a line depends on where its words lie in       *)
(* d->temp, because d->argv points into it from one line to the next.      *)
(***************************************************************************)
EXTENDS Integers, Sequences

CONSTANTS
    MaxCmds,        \* COMM_MAX_CMDS
    TmpSize,        \* COMM_TEMP_BUF_SIZE
    ArgSize,        \* COMM_ARGV_BUF_SIZE
    UsbNames,       \* the names of the commands of group "u", common/usb_cmd.c
    SockNames,      \* the names of the commands of common/sock_cmd.c; echo is "c"
    Letters,        \* the characters of words
    Lines           \* the lines that may be typed: sequences of characters

Blanks == {" ", "\t"}
NUL == "\\0"
Characters == Letters \cup Blanks \cup {"\r", NUL}
NoCmd == [name |-> NUL, group |-> NUL, nogroup |-> TRUE]

ASSUME MaxCmdsAssumption == MaxCmds \in Nat \ {0}
ASSUME TmpSizeAssumption == TmpSize \in Nat \ {0}
\* The sizes of comm_cmd.h are 4096 and 2048.
ASSUME ArgSizeAssumption == ArgSize \in Nat \ {0, 1} /\ TmpSize <= 2 * ArgSize
ASSUME LettersAssumption == Letters \cap (Blanks \cup {"\r", NUL}) = {}
ASSUME LinesAssumption == \A l \in Lines : l \in Seq(Letters \cup Blanks \cup {"\r"})
ASSUME NamesAssumption ==
    UsbNames \in Seq(Letters) \ {<<>>} /\ SockNames \in Seq(Letters) \ {<<>>}
\* The names in cmds_info are different, and so are those of the other commands.
Distinct(s) == \A x, y \in 1..Len(s) : s[x] = s[y] => x = y
ASSUME DistinctAssumption ==
    /\ Distinct(UsbNames) /\ Distinct(SockNames)
    /\ \A y \in 1..Len(SockNames) : SockNames[y] \notin {"q", "e", "h"}

VARIABLES
    phase,      \* where main and comm_main are
    console,    \* where the lines come from
    listening,  \* the server's socket is open
    cmds,       \* comm_cmds
    m, j,       \* the module and the command the (un)registration loops are at
    r,          \* comm_main's r
    temp, tmpc, argv, argc,     \* box_cdata; argv[i] = 0 is the null pointer
    box_quit,
    ran,        \* history: the command the latest line ran
    said,       \* history: what it echoed
    line        \* history: the latest line

vars == <<phase, console, listening, cmds, m, j, r, temp, tmpc, argv, argc, box_quit,
          ran, said, line>>
ioVars == <<console, listening>>
loopVars == <<m, j>>
dataVars == <<temp, tmpc, argv, argc>>

cmd_quit == [name |-> "q", group |-> NUL, nogroup |-> TRUE]
cmd_exit == [name |-> "e", group |-> NUL, nogroup |-> TRUE]
cmd_help == [name |-> "h", group |-> NUL, nogroup |-> TRUE]
\* Mutant: one command is registered twice and another not at all.
Trivial_Twice == <<cmd_quit, cmd_quit, cmd_help>>
Trivial == <<cmd_quit, cmd_exit, cmd_help>>

usb_cmds == [y \in 1..Len(UsbNames) |->
                [name |-> UsbNames[y], group |-> "u", nogroup |-> FALSE]]
sock_cmds == [y \in 1..Len(SockNames) |->
                [name |-> SockNames[y], group |-> NUL, nogroup |-> TRUE]]
comm_cmd_modules == <<usb_cmds, sock_cmds>>
ModuleCmds == UNION {{comm_cmd_modules[x][y] : y \in 1..Len(comm_cmd_modules[x])} : x \in 1..2}

-----------------------------------------------------------------------------
(***************************************************************************)
(* The command table.                                                      *)
(***************************************************************************)
\* comm_match_command: the first slot that holds c; 0 stands for -1.
comm_match_command(t, c) ==
    IF \E i \in 1..MaxCmds : t[i] = c
    THEN CHOOSE i \in 1..MaxCmds : t[i] = c /\ \A x \in 1..(i - 1) : t[x] # c
    ELSE 0

\* comm_cmd_register and comm_cmd_unregister: the table and the result.
comm_cmd_register(t, c) ==
    LET pos == comm_match_command(t, NoCmd)
    IN  IF pos = 0 THEN [t |-> t, r |-> -1]
                   ELSE [t |-> [t EXCEPT ![pos] = c], r |-> 0]

\* Mutants: a command of a group is not looked for; the slot number is returned for
\* success.
comm_cmd_unregister_Ungrouped(t, c) ==
    LET pos == comm_match_command(t, c)
    IN  IF pos = 0 THEN [t |-> t, r |-> -1]
                   ELSE [t |-> IF c.nogroup THEN [t EXCEPT ![pos] = NoCmd] ELSE t, r |-> 0]
comm_cmd_unregister_Pos(t, c) ==
    LET pos == comm_match_command(t, c)
    IN  IF pos = 0 THEN [t |-> t, r |-> -1]
                   ELSE [t |-> [t EXCEPT ![pos] = NoCmd], r |-> pos]

comm_cmd_unregister(t, c) ==
    LET pos == comm_match_command(t, c)
    IN  IF pos = 0 THEN [t |-> t, r |-> -1]
                   ELSE [t |-> [t EXCEPT ![pos] = NoCmd], r |-> 0]

-----------------------------------------------------------------------------
(***************************************************************************)
(* The line.                                                               *)
(***************************************************************************)
\* comm_get_command stores the characters of the line one after the other and goes
\* back to the start of the buffer when it is full: the count it ends with, and the
\* last character stored at each place.
Filled(l) == IF l = <<>> THEN 0 ELSE ((Len(l) - 1) % TmpSize) + 1

Stored(l) ==
    [p \in 1..TmpSize |->
        LET at == {i \in 1..Len(l) : ((i - 1) % TmpSize) + 1 = p}
        IN  IF at = {} THEN temp[p] ELSE l[CHOOSE i \in at : \A x \in at : x <= i]]

\* A carriage return before the newline is dropped.
Stripped(t, n) == IF n > 0 /\ t[n] = "\r" THEN n - 1 ELSE n

\* The terminator goes behind the last character.  Behind a full buffer lies the
\* first byte of d->argv, which comm_parse_command is about to overwrite.
Terminated(t, n) == IF n < TmpSize THEN [t EXCEPT ![n + 1] = NUL] ELSE t

\* comm_parse_command, one character at a time: outside a word it skips blanks,
\* stops at a terminator and starts a word at anything else; inside a word only a
\* blank ends it, and becomes its terminator.
ScanChar(s, i) ==
    CASE s.stop -> s
      [] ~s.stop /\ s.word /\ s.t[i] \in Blanks -> [s EXCEPT !.t[i] = NUL, !.word = FALSE]
      [] ~s.stop /\ ~s.word /\ s.t[i] = NUL -> [s EXCEPT !.stop = TRUE]
      [] ~s.stop /\ ~s.word /\ s.t[i] \notin Blanks \cup {NUL} ->
           [s EXCEPT !.argv = Append(@, i), !.word = TRUE]
      [] OTHER -> s

Scan(t, n) ==
    LET step[i \in 0..n] ==
        IF i = 0 THEN [t |-> t, argv |-> <<>>, word |-> FALSE, stop |-> FALSE]
        ELSE ScanChar(step[i - 1], i)
    IN  step[n]

\* Mutant: the blank behind a word is not turned into a terminator.
Scan_NoNul(t, n) == [Scan(t, n) EXCEPT !.t = t]
comm_parse_command(t, n) == Scan(t, n)

\* The C string at place p of the buffer.  A string with no terminator in the buffer
\* runs on into the pointers behind it.
Str(t, p) ==
    LET ends == {i \in p..TmpSize : t[i] = NUL}
        end == CHOOSE i \in ends : \A x \in ends : i <= x
    IN  IF ends = {} THEN Append(SubSeq(t, p, TmpSize), "junk") ELSE SubSeq(t, p, end - 1)

\* strcmp(d->argv[i], name) = 0
Is(i, name) == Str(temp, argv[i]) = <<name>>

-----------------------------------------------------------------------------
\* comm_main up to the registrations: comm_init_command, comm_data_init and the
\* memset of box_cdata.
Init ==
    /\ phase = "main" /\ console = "none" /\ listening = FALSE
    /\ cmds = [i \in 1..MaxCmds |-> NoCmd]
    /\ m = 1 /\ j = 1 /\ r = 0
    /\ temp = [p \in 1..TmpSize |-> NUL] /\ tmpc = 0
    /\ argv = [i \in 1..ArgSize |-> 0] /\ argc = 0
    /\ box_quit = FALSE /\ ran = NoCmd /\ said = <<>> /\ line = <<>>

\* server_main (with USE_SOCKET): a socket that cannot be had ends the program, a
\* connection that cannot be accepted is reported and the shell runs without one.
server_main ==
    /\ phase = "main"
    /\ \/ phase' = "failed" /\ UNCHANGED ioVars
       \/ /\ phase' = "trivialReg" /\ listening' = TRUE
          /\ console' \in {"socket", "refused"}
    /\ UNCHANGED <<cmds, loopVars, r, dataVars, box_quit, ran, said, line>>

\* main without USE_SOCKET.
main ==
    /\ phase = "main" /\ phase' = "trivialReg" /\ console' = "stdin"
    /\ UNCHANGED <<listening, cmds, loopVars, r, dataVars, box_quit, ran, said, line>>

\* comm_main has returned to server_main.
server_exit ==
    /\ phase \in {"bye", "failed"} /\ listening /\ listening' = FALSE
    /\ UNCHANGED <<phase, console, cmds, loopVars, r, dataVars, box_quit, ran, said, line>>

\* trivial_cmd_register: the results are added up, a failure stops nothing.
trivial_cmd_register ==
    /\ phase = "trivialReg"
    /\ LET res == comm_cmd_register(cmds, Trivial[j])
       IN  cmds' = res.t /\ r' = r + res.r
    /\ IF j < Len(Trivial) THEN j' = j + 1 /\ phase' = phase
                           ELSE j' = 1 /\ phase' = "userReg"
    /\ UNCHANGED <<ioVars, m, dataVars, box_quit, ran, said, line>>

\* Mutant: the loop counters keep their last value.
Advance_NoReset(next) ==
    IF j < Len(comm_cmd_modules[m]) THEN m' = m /\ j' = j + 1 /\ phase' = phase
    ELSE m' = m + 1 /\ j' = 1 /\ phase' = IF m < Len(comm_cmd_modules) THEN phase ELSE next

\* Where the loops over the modules and their commands go next.
Advance(next) ==
    IF j < Len(comm_cmd_modules[m]) THEN m' = m /\ j' = j + 1 /\ phase' = phase
    ELSE IF m < Len(comm_cmd_modules) THEN m' = m + 1 /\ j' = 1 /\ phase' = phase
    ELSE m' = 1 /\ j' = 1 /\ phase' = next

\* comm_user_cmd_register and the modules' register functions: the first failure
\* ends both loops, and comm_main returns.
comm_user_cmd_register ==
    /\ phase = "userReg"
    /\ LET res == comm_cmd_register(cmds, comm_cmd_modules[m][j])
       IN  /\ cmds' = res.t /\ r' = r + res.r
           /\ IF res.r # 0 THEN phase' = "failed" /\ UNCHANGED loopVars
              ELSE Advance(IF r = 0 THEN "prompt" ELSE "failed")
    /\ UNCHANGED <<ioVars, dataVars, box_quit, ran, said, line>>

\* comm_get_command and comm_parse_command of a typed line.
ReadLine ==
    /\ phase = "prompt" /\ console # "refused"
    /\ \E l \in Lines :
         LET stored == Stored(l)
             n == Stripped(stored, Filled(l))
             parsed == comm_parse_command(Terminated(stored, n), n)
         IN  /\ line' = l /\ tmpc' = n /\ temp' = parsed.t
             /\ argc' = Len(parsed.argv)
             /\ argv' = [i \in 1..ArgSize |-> IF i <= Len(parsed.argv)
                                              THEN parsed.argv[i] ELSE argv[i]]
    /\ phase' = "exec" /\ said' = <<>>
    /\ UNCHANGED <<ioVars, cmds, loopVars, r, box_quit, ran>>

\* The slots comm_exec_command stops at: a command whose handler it runs, or a
\* grouped command it compares with a null argv[1], which no program survives.
Hit_AnyGroup(c) == Is(1, c.name) \/ (argv[2] # 0 /\ Is(2, c.name))   \* mutant
Hit(c) ==
    /\ c # NoCmd
    /\ \/ c.nogroup /\ Is(1, c.name)
       \/ ~c.nogroup /\ Is(1, c.group) /\ argv[2] # 0 /\ Is(2, c.name)
Trap(c) == c # NoCmd /\ ~c.nogroup /\ Is(1, c.group) /\ argv[2] = 0

\* do_cmd_echo prints its second argument, whether the line had one or not; printf
\* writes "(null)" for a null pointer.
do_cmd_echo == IF argv[2] = 0 THEN <<"(null)">> ELSE Str(temp, argv[2])

\* sock_cmd_handler: the other commands of its module do nothing yet.
sock_cmd_handler(c) == IF c.nogroup /\ c.name = "c" THEN do_cmd_echo ELSE <<>>

\* comm_exec_command with the handlers of comm_main.c and sock_cmd.c, and the test of box_quit.
\* The second argument is read whether the line had one or not.
comm_exec_command ==
    /\ phase = "exec"
    /\ LET stops == IF argc = 0 THEN {}
                    ELSE {i \in 1..MaxCmds : Hit(cmds[i]) \/ Trap(cmds[i])}
           first == CHOOSE i \in stops : \A x \in stops : i <= x
       IN  IF stops = {}
           THEN ran' = NoCmd /\ phase' = "prompt" /\ UNCHANGED <<box_quit, said>>
           ELSE IF Trap(cmds[first])
           THEN ran' = NoCmd /\ phase' = "crashed" /\ UNCHANGED <<box_quit, said>>
           ELSE /\ ran' = cmds[first] /\ said' = sock_cmd_handler(cmds[first])
                /\ box_quit' = (ran' \in {cmd_quit, cmd_exit})
                /\ phase' = IF box_quit' THEN "userUnreg" ELSE "prompt"
    /\ UNCHANGED <<ioVars, cmds, loopVars, r, dataVars, line>>

\* comm_user_cmd_unregister and the modules' unregister functions.
comm_user_cmd_unregister ==
    /\ phase = "userUnreg"
    /\ LET res == comm_cmd_unregister(cmds, comm_cmd_modules[m][j])
       IN  /\ cmds' = res.t /\ r' = r + res.r
           /\ IF res.r # 0 THEN phase' = "trivialUnreg" /\ m' = 1 /\ j' = 1
              ELSE Advance("trivialUnreg")
    /\ UNCHANGED <<ioVars, dataVars, box_quit, ran, said, line>>

\* trivial_cmd_unregister: of its three calls the second is a comm_cmd_register.
trivial_cmd_unregister ==
    /\ phase = "trivialUnreg"
    /\ LET c == Trivial[j]
           res == IF c = cmd_exit THEN comm_cmd_register(cmds, c)
                                  ELSE comm_cmd_unregister(cmds, c)
       IN  /\ cmds' = res.t /\ r' = r + res.r
           /\ IF j < Len(Trivial) THEN j' = j + 1 /\ phase' = phase
              ELSE j' = 1 /\ phase' = IF r' = 0 THEN "bye" ELSE "failed"
    /\ UNCHANGED <<ioVars, m, dataVars, box_quit, ran, said, line>>

\* The end of the input: at the end of standard input fgetc returns EOF for ever and
\* comm_get_command goes round and round in the buffer; without a connection, or
\* at its end, sock_getc_blocked goes round and round by itself.
EndOfInput ==
    /\ phase = "prompt" /\ phase' = "spinning"
    /\ UNCHANGED <<ioVars, cmds, loopVars, r, dataVars, box_quit, ran, said, line>>

Over ==
    /\ phase \in {"bye", "failed", "crashed", "spinning"}
    /\ phase \in {"bye", "failed"} => ~listening
    /\ UNCHANGED vars

Step ==
    \/ server_main \/ main \/ server_exit
    \/ trivial_cmd_register \/ comm_user_cmd_register \/ comm_exec_command
    \/ comm_user_cmd_unregister \/ trivial_cmd_unregister

Next == Step \/ ReadLine \/ EndOfInput \/ Over

\* The program runs on; only the user decides whether another line is typed.
Spec == Init /\ [][Next]_vars /\ WF_vars(Step)

-----------------------------------------------------------------------------
(***************************************************************************)
(* Properties.                                                             *)
(***************************************************************************)
AllCmds == ModuleCmds \cup {cmd_quit, cmd_exit, cmd_help}
Slots(c) == {i \in 1..MaxCmds : cmds[i] = c}

\* Every variable keeps its type; the words found never outgrow the argument vector,
\* which has a cell for every other character of the buffer.
TypeOK ==
    /\ phase \in {"main", "trivialReg", "userReg", "prompt", "exec", "userUnreg",
                  "trivialUnreg", "bye", "failed", "crashed", "spinning"}
    /\ console \in {"none", "stdin", "socket", "refused"} /\ listening \in BOOLEAN
    /\ cmds \in [1..MaxCmds -> AllCmds \cup {NoCmd}]
    /\ m \in 1..Len(comm_cmd_modules) /\ r \in Int
    /\ j \in 1..Len(Trivial) \/ j \in 1..Len(comm_cmd_modules[m])
    /\ temp \in [1..TmpSize -> Characters] /\ tmpc \in 0..TmpSize
    /\ argv \in [1..ArgSize -> 0..TmpSize] /\ argc \in 0..ArgSize
    /\ said \in Seq(Characters \cup {"junk", "(null)"}) /\ box_quit \in BOOLEAN
    /\ ran \in AllCmds \cup {NoCmd} /\ line \in Lines \cup {<<>>}

\* What comm_get_command keeps of a line, and its words, defined without the loop.
Kept(l) ==
    LET tail == SubSeq(l, Len(l) - Filled(l) + 1, Len(l))
    IN  SubSeq(tail, 1, Stripped(tail, Len(tail)))
Starts(l) ==
    {i \in 1..Len(l) : l[i] \notin Blanks /\ (i = 1 \/ l[i - 1] \in Blanks)}
Word(l, i) ==
    LET run == {e \in i..Len(l) : \A x \in i..e : l[x] \notin Blanks}
    IN  SubSeq(l, i, CHOOSE e \in run : \A x \in run : x <= e)

\* The argument vector that comm_parse_command leaves behind is the words of the
\* line, in order and each with its terminator, although it is cut out of a buffer
\* with the remains of older lines in it.  The exception is the last word of a line
\* that fills the buffer to its end: its terminator is outside.
ParseExact ==
    phase = "exec" =>
        LET l == Kept(line) IN
        /\ {argv[i] : i \in 1..argc} = Starts(l)
        /\ \A i \in 1..(argc - 1) : argv[i] < argv[i + 1]
        /\ \A i \in 1..argc :
             \/ Str(temp, argv[i]) = Word(l, argv[i])
             \/ i = argc /\ tmpc = TmpSize /\ l[TmpSize] \notin Blanks

\* The line names command c: "<name>", or "<group> <name>" for a grouped command.
Names(l, c) ==
    \E p \in Starts(l) :
        /\ \A x \in Starts(l) : p <= x
        /\ IF c.nogroup THEN Word(l, p) = <<c.name>>
           ELSE /\ Word(l, p) = <<c.group>>
                /\ \E q \in Starts(l) \ {p} :
                     /\ \A x \in Starts(l) \ {p} : q <= x
                     /\ Word(l, q) = <<c.name>>

\* A handler runs only for a line that names its command, or for one that is the bare
\* name of its group: then the second word is what an older line left behind.
DispatchExact ==
    ran # NoCmd => \/ Names(Kept(line), ran)
                   \/ phase = "exec"
                   \/ argc = 1 /\ ~ran.nogroup /\ Is(1, ran.group)

\* The usage texts of the commands: a command of a group runs for a line of the form
\* "usb list", group and name.
RunsOnlyWhatIsNamed ==
    ran # NoCmd /\ phase # "exec" => Names(Kept(line), ran)

\* While lines are read every command of every module, and quit, exit and help, hold
\* exactly one slot of the table, also when it is full.
EachOnce ==
    phase \in {"prompt", "exec"} => \A c \in AllCmds : \E i \in 1..MaxCmds : Slots(c) = {i}

\* After the loop no command of a module is left in the table, in whatever order the
\* slots were filled.
NoModuleCommandLeft == phase = "bye" => \A c \in ModuleCmds : Slots(c) = {}

\* Once quit or exit has run, comm_main comes to its end, and the program has closed
\* the socket it was listening on.
QuitEnds == box_quit ~> phase = "bye" /\ ~listening
==============================================================================
