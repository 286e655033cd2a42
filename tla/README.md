# A verification project for alp

`alp` is a collection of small Linux programs in C. Its one larger program is
`src/demo-dh`: a command shell with pluggable command modules, a driver for a
USB device, a serial device served by a thread of its own, and an X-modem
receiver. Around it lie some thirty short demonstrations of system calls. This
project models `demo-dh` and those of the demonstrations that have state of their
own in TLA+, checks the models with TLC and proves their safety properties with
TLAPS.

## 1. The system

### Parts, their state and their operations

| Part | State | Operations | Hard because |
|---|---|---|---|
| **Serial device**: `drivers/serial_thread.c`, `common/island.c`, `common/oslib.c` | one command slot `ctrl->cmd`, stop flag, semaphores `active`, `rx_ready`, `tx_ready`, two channels, the worker's island | create, open, close, config, set baud, read, write, destroy; the worker's idle, tx and rx steps | several threads, no lock (the lock functions are compiled out), a read that times out, a join, lengths that nothing compares with a buffer |
| **Command shell**: `common/comm_cmd.c`, `comm_main.c`, `comm_io.c`, `socket/server.c` | table of commands, line buffer, `argv` into that buffer, `box_quit`, the sockets | register, unregister, read a line, parse, execute, quit/exit/help, start on a console | one buffer is reused for every line and `argv` outlives the line; loops with early exits; a full table |
| **USB commands**: `common/usb_cmd.c`, `usb_fm_ctrl.h` | `usbctrl` (bound device), libusb's context and handles | list, list1, bind, unbind, read, write, test, fm | transfers fail, are short, and the device leaves the bus between two of them; number widths |
| **Sock commands**: `common/sock_cmd.c` | none that lasts | echo, md32, mw32, mr32 | echo reads an argument that may be missing |
| **X-modem receiver**: `drivers/xyzmodem.c` | expected block, packet buffer, put-off ACK, end of file | init, open, read, terminate | a line that loses, damages and delays; ACKs without numbers; retries |
| **Data file class**: `drivers/datafile.cpp` | `f_opened`, `f_flag`, a stdio stream | open, close, destroy, read, write, flush, seek, size, error | half of the operations do not look at `f_opened`; writes reach the disk late and may fail to |
| **File object**: `demo-io/comm_file.c` | `status`, `fd`, the descriptor's offset | create, open, close, destroy, read, write, append, insert, seek | the file is probed and then opened; short reads; waiting at the end of a file others append to |
| **Condition variable**: `thread/thread.c` (`test_cond`) | a flag, a mutex, a condition | the main thread's loop, two workers | an `if` around `pthread_cond_wait` |
| **Producer and consumers**: `c4-2/main.c` | one structure with a semaphore, a count and `stop` | main, a producer, two consumers | consumers block for good; cancel, join, free |
| **Two-port server**: `c5-4/server.c`, `c5-3/client.c` | the port looked at, the client served, its line | select, accept, read, answer; connect, send, close | one loop for two ports and all clients; streams arrive in pieces |
| Other demonstrations (`c1`–`c3-4`, `c5`, `c5-2`, `ipc`, `demo-calc`, ...) | little | one each | not modelled, see section 5 |

`PROJECT.json` lists every part with its status, and every hazard at its line.

### How they interact

The shell calls the register function of each module in `comm_cmd_modules`; the
module puts pointers to its commands into the table. For a line the shell copies
its line data (with pointers into its own buffer) to the command and calls the
handler, which runs to its end before the next line is read. The usb handlers
call libusb synchronously. The serial device is used by whichever threads hold a
pointer to it; caller and worker share memory and three semaphores. The X-modem
receiver polls a `struct tty`. The data file class and the file object are
libraries without a caller in `demo-dh` or with one short program; the other
demonstrations are programs by themselves.

### What makes them correct

* Serial device: each answer belongs to one question; a command wakes the
  worker; a call returns; destroy returns and frees nothing in use; what was
  written is read back; a buffer is overrun only by the lengths a caller gave.
* Shell: the words of a line are its words, whatever older lines left in the
  buffer; the right handler runs; each command has one slot; quit ends the
  program.
* USB: the handle in `usbctrl` is the open one, and the only one; libusb's
  context outlives it; addresses, counts and bytes are right, also when some of
  the transfers fail.
* X-modem: the caller gets the file in order and once; a block is acknowledged
  when it has been delivered; a call ends, on a line that falls silent.
* Files: what a write accepted is in the file after the close; old contents stay;
  a read returns what the file holds, from where it began, and ends; an object
  that counts as open has a file.
* Threads: no wake-up is lost, no work is done unasked; memory is freed when its
  users have ended, and they do end.
* Server: each client gets its own lines back, and its turn.

## 2. Modules

| Module | Models | Used by |
|---|---|---|
| `SerialThread` | the serial device and its callers | `MCSerialThread`, `SerialThreadProofs` |
| `CommCmd` | the shell, its modules' commands and its consoles | `MCCommCmd`, `CommCmdProofs` |
| `UsbCmd` | the usb commands, libusb and the device as environment | `MCUsbCmd`, `UsbCmdProofs` |
| `Delivery` | what a block receiver promises, abstractly | `XyzModem`, `XyzModemProofs` |
| `XyzModem` | the X-modem receiver, the sender and the line as environment; implements `Delivery` | `MCXyzModem`, `XyzModemProofs` |
| `CondDemo` | `test_cond` of `thread/thread.c` | `MCPrograms`, `ThreadProofs`, `ProgramsProofs` |
| `SemDemo` | `c4-2/main.c` | `MCPrograms`, `ThreadProofs`, `ProgramsProofs` |
| `PortServer` | the server of `c5-4` and clients like that of `c5-3` | `MCPrograms`, `PortServerProofs`, `ProgramsProofs` |
| `FileBytes` | what a write makes of a file's contents | `DataFile`, `CommFile`, `FileProofs` |
| `DataFile` | `drivers/datafile.cpp` and the stream behind it | `MCPrograms`, `FileProofs`, `ProgramsProofs` |
| `CommFile` | `demo-io/comm_file.c`, the file and other processes | `MCPrograms`, `MCCommFile`, `FileProofs`, `ProgramsProofs` |

The `MC*` modules give the constants of an instance; the `.cfg` files name the
specification, the constants and the properties. The `*Proofs` modules hold the
theorems of section 4. Operators whose comment says
*mutant* are variants of the definition that follows them, with a plausible
mistake: each property is shown to fail when the definition is replaced by its
mutant.

### SerialThread

The variables are the fields of `struct serial_ctrl`, the two channels, the
locals and the control point of the worker (`wpc`, `land`, ...) and of each
caller (`pc`, `op`, ...). Every access to shared memory that another thread can
observe is a step: storing the command and posting are two (`SendCmd`,
`SendPost`), so are loading and clearing the slot (`IdleFetch`, `IdleClear`), and
the loop-back and the copies go byte by byte. `island.c`'s ticket table is the
relation `tickets`; a ticket that is not in it leads to `ISLAND_NULL`. The
history variables `pend`, `lost`, `timeouts` and `last` record which command is
in the slot, which were overwritten and what was written; no guard reads them.

No length is checked by the code. `txchan->len` is not initialised: in the model
a new channel has any length of `FreshLens`, negative (read as the `int` of the
loop-back), fitting or not. A write may be longer than the channel (`Payloads`)
and the buffer of a read smaller than what is copied into it (`ReadSizes`). The
first access past a buffer is recorded in `overran`, and the model ends there
(`Overrun`): what follows is undefined. A caller whose read timed out may write
while the worker serves the late command. Modelled is the DEBUG build, the
default target, where receiving is a loop-back. Only the thread that created the
device destroys it, when the others have returned, as `tests/main.c` does.

### CommCmd

A word is one character, a line a short sequence of characters, the buffer a
small array: what the shell does with a line depends on where its words lie,
because `argv` points into `temp` and keeps the pointers of older lines.
`ReadLine` is `comm_get_command` followed by `comm_parse_command`: it stores the
characters (going back to the start when the buffer is full), drops a carriage
return, terminates the line and cuts it into words. The parser stores a pointer
for each word without looking at the size of `argv`; what keeps it inside is
that `comm_cmd.h` gives the vector a cell for every second character of the
buffer (`ArgSizeAssumption`), and that the bound is kept is part of `TypeOK`.
`comm_exec_command` goes through the table in order and reads `argv[1]` whether
the line had it or not. A null pointer there ends the program (`crashed`). The
registrations are one step for each command, with the early exits of the three
loops. `server_main` starts the shell on a socket, `main` on standard input;
`EndOfInput` is the end of either.

### UsbCmd

`usbctrl` is the record `ctrl`. A command that passes its checks becomes a `job`,
the sequence of control transfers that remain; `Transfer` makes one of them, and
between two of them the device may leave the bus (`Unplug`). libusb is external:
the uses of its default context are counted (`refs`), a handle is a number, a
transfer may be complete, short or failed, and is failed on a device that has
left. The device is external: a map from cells to bytes, and the settings of its
FM receiver. A byte has `Byte` values, so that 16 and 32-bit numbers wrap within
TLC's reach; the packing into bytes, the split of an address into `wValue` and
`wIndex`, and `nr * 4 / len` in 32 bits are modelled as they are computed.
`line`, `sent`, `ret` and `told` record the command, its transfers, its result
and what the user may expect of a cell.

### XyzModem

The line carries whole blocks and single characters. A block is good, cut
short, with a wrong complement, or with damaged data; it carries its number
modulo `BlkMod`. The receiver's steps are those of `xyzModem_stream_read` (the
two loops, the copy) and `xyzModem_get_hdr`. The sender and the line are
external: the sender repeats a block on a "C" or when it hears nothing, goes on
at an ACK, and gives up with CAN; the line loses and damages, a bounded number of
times, and of a lost block it may leave characters that pass for an EOT, for a row
of CAN or for the start of a block that goes no further (`Leftovers`; the last is a
"stub", after which `get_hdr` times out before it has touched the packet or its
length). Noise, characters that start nothing, comes without a bound.

The file is between `#if 0` and `#endif`: it is modelled as it is written.

`Delivery` says what the caller and the sender may rely on, in three actions: a
block is taken when the one before has been acknowledged, the caller is handed a
longer part of the contents, a block is acknowledged when the caller has had all
of it. `XyzModem` implements it with `got <- out`, `taken <- taken` (the blocks
accepted as new), `acked` the blocks taken less the one whose ACK is put off
(`tx_ack`), and `lapsed <- spent`: once the retries have run out on a repeated
block (finding 5) nothing is promised. Repetitions, time-outs, damaged blocks
and retries are stuttering steps of `Delivery`.

### CondDemo

One step for each access to the flag and each mutex operation of the main thread
and of the workers (`thread4_func` and `thread5_func` differ in their messages and
sleeps only). `pthread_cond_wait` is two steps, blocking (which frees the mutex)
and returning (which needs it), and may wake by itself. The flag is reset
without the mutex after the threads were created. `asked` and `spurious` are
history.

### SemDemo

The places of a thread (`at`) are those from which its next step reads the shared
structure. A cancellation takes effect at any of them: each has a `printf`,
`sem_wait` or `usleep` in its step. `exit` of the process ends all threads. Either
`malloc` of `main` may fail (`NoMemory`), before a thread is there.

### PortServer

A character is a string and the word "quit" a short sequence of them; the server's
line buffer is the sequence `ps`. `AnswersOwnLines` compares the answers with the
lines of the whole text a client will ever send: the i-th answer is that of the
i-th line that calls for one. `SelectTimeout` changes the port only when nobody
waits at this one. A line loses its last character whatever that is; the line
that consists of its line feed alone gets the length -1, so that its answer is
empty (`write` refuses the length, and the terminator written before the buffer
falls on a byte of the allocator's that is zero already). A client sends an
argument and its end of line in two writes, never reads, and closes, or is killed
before it has sent everything. `accept` is called with the address length
`cli_len`, which nothing initialises: when it is negative as an `int` the call takes
the connection from the queue, gives it up and fails, and so do all calls after it,
since the loop goes on with the same variable (`AcceptFails`). Closing
with answers unread resets the connection; an answer to a closed one may end the
server with SIGPIPE, a read of a reset one does (`exit(-1)`). The end of a
connection (`read` returns 0) is a loop that changes nothing. `client_sock` is
commented out in the client's `main`; its port is 1234, other clients may use
3333.

### DataFile

`view` is the file as the stream sees it, `disk` the file; a write changes `view`
and perhaps `disk`; reading, flushing, seeking and closing bring them together,
or fail, and then the pending writes are kept for the next time or given up
(`lost`); a close that fails gives them up. A read may fail after some of its
characters. The append modes
write at the end wherever the stream is positioned. Refused operations change
nothing and are no actions. `NoStream` stands for the operations that use
`f_stream` without looking at `f_opened`: undefined, so the object may be "wild"
afterwards. Writing directly after reading is undefined by the C standard; the
model does what glibc does.

### CommFile

Opening is two steps, the probe and the open, between which other processes may
create, remove or change the file; `status` is set whether the open succeeded or
not. `comm_file_append` is two steps as well (seek, write). A read is one step
for each `read` call, which may be short, fail, or find the end of the file.

### MCPrograms

These five have nothing to do with each other. `MCPrograms` checks them in one
run: `prog` says which of them the behaviour is about, the others keep their
first state.

## 3. Runs

| Run | Configuration | Shows |
|---|---|---|
| `serial_lone` | one thread, 2-byte channels, 4 calls, lengths below, at and above the channel's | what was written comes back until a read times out, and until then only the thread's own lengths overrun a buffer; a write of a lone thread is lost only after that; a call hangs only then |
| `serial_shared` | two threads, 1-byte channels, 2 calls each | every answer, token and loss is accounted for; the worker is woken; destroy ends and frees nothing in use |
| `shell` | two modules, a table with room for exactly its 6 commands, a 4-character buffer, about 120 different lines in any order | parsing, dispatch, registration, and the end after quit |
| `usb` | one device, 2-bit bytes, 3 commands | handle, context, addresses, counts and data are right through failures and unplugging |
| `xmodem` | 3 blocks, 3 block numbers, 2 retries, 2 faults, any noise, 2 reads | implements `Delivery`; the sender goes on only when the caller has the block; every read returns once the line is free of noise |
| `programs` | the five models of `MCPrograms`: 2 workers; 2 consumers and 3 posts; 3 clients on 2 ports; files of up to 3 characters | no lost wake-up, no work unasked, every activation taken; free after the last use, the program ends; clients are answered their own lines and served; accepted data and old contents are kept; reads are exact and end |
| `shell_bare_group`, `usb_bind_other`, `usb_read_ana`, `usb_fm_query`, `xmodem_repeat`, `file_open_status` | as above | the disagreements of section 6 |

### Why the bounds are enough

* Serial: the slot, the semaphores and the race between loading and clearing
  need two commands and the worker at any point. Two callers with two calls
  each, or one with a read that timed out followed by others, reach each of
  them; a channel of 2 bytes is the least in which a copy can be interrupted. The
  lengths of a lone thread are 0, 1, the channel's size and one more; a new channel
  may have a negative length too, and a read a buffer smaller than the channel.
  The theorems remove the bounds for the invariants.
* Shell: three characters hold two words with their blank, the shortest line
  with a group; lines of 4 and 5 fill and overrun the buffer. There is no bound
  on the number of lines: the state space is closed under all of them.
* USB: bind, write, read is the shortest sequence that shows data, and three
  commands suffice for each pair with a bind. The addresses are an unaligned
  one, one behind the analog registers and the last word of the address space,
  so that a read wraps; the counts are a small one and one that wraps `nr * 4`.
* X-modem: 3 blocks with 3 numbers make the numbers wrap; one block has
  padding to be removed, another two characters that look like it and stay; read
  sizes both split and join blocks; in two reads the ACK that one put off is sent by
  the other; the shortest failure needs 2 faults.
* Programs: `CondDemo` has no bound, and the code has two workers. `SemDemo` has
  the code's two consumers; with 3 posts and the first token each can be at each
  place when the producer stops. `PortServer`: two clients compete for one port
  and the third needs the other; the arguments are an ordinary line, an empty
  one, a line feed of its own, a quit, and something after the quit; a client may
  be killed at any of its writes. The files:
  with 2-character writes and 3 characters at most a write can be cut short, leave
  a hole, overwrite and extend; two acts of other processes suffice for a file
  that comes and goes around the probe, or grows twice during a read.

Deadlock is checked where the program should always have a step or a final
state of its own (`shell`). It is not in the serial runs, where a write whose
command was overwritten waits for ever and everything else may have ended, in
`usb`, where the number of commands is bounded, in `xmodem`, where the calls
are, and in `programs`, where programs end and a server may read nothing for
ever.

### Fairness

* `SerialThread!Fairness`: weak fairness of the worker, of the owner's destroy
  and of each call in progress: the scheduler runs a thread that can run. A
  semaphore wait is enabled only when the semaphore is positive. Nothing obliges
  a thread to make a call.
* `CommCmd`: weak fairness of the program's own steps, none of the user's
  typing.
* `XyzModem`: weak fairness of the receiver, which polls with a time-out and so
  always goes on; none of the sender or the line. `ReadReturns` has a premise
  instead, that the line is free of noise from some time on (`<>[]Quiet`). Without it
  TLC refutes the property: `get_hdr` takes any number of characters that start no
  block, and begins its time-out anew with each.
* `MCPrograms`: weak fairness of each thread's steps that need no mutex; strong
  fairness of a worker's taking the mutex of `CondDemo`, which is free again and
  again because the main thread sleeps a second between two uses and a worker
  naps after each; none of the main thread's next broadcast. Of the server's
  steps and of a connected client's sends (`client_sock` is a loop with a one
  second sleep), none of a client's connecting or leaving. An `accept` that fails and
  leaves the connection where it is changes nothing and is no step, so that such a
  failure is taken to pass; one that fails because of `cli_len` is a step, does not
  pass, and is excused by `ClientsServed`. Of the steps of a read of
  `CommFile`, which a failing read does not count as.

## 4. Proofs

Each theorem holds for every value of the constants that satisfies the named
assumptions of the module, so for any number of threads, clients, lines, calls
and faults. Every inductive invariant was first checked by TLC on the instance of
its run. No module with a theorem uses a `RECURSIVE` operator. Where a fact is about
every position of a sequence or every prefix of a fold (the shell's scan, the
contents of a file, the text of a client), it is proved from a least
counterexample: the lemma `Least` (a set of naturals that is not empty has a least
element) and a lemma that the recursive function has an unfolding up to any bound.

A run that shows a violation says that the code's text is wrong somewhere, not where.
For each disagreement of section 6 a theorem draws that line, for every value of the
constants: `DispatchesExactly` (1), `ExitIsLeft` (2), `BindsWhatIsFree` (3),
`QueriesMissByOne` (4), `InOrderUntilSpent` (5), `FailedOpenDoesNothing` (6),
`RegistersAreReadTwice` (7).

### `SerialThreadProofs`

Any finite set of callers, any buffer sizes, lengths, payloads and number of calls.

* `TypeCorrect`: `TypeOK`; also that the worker never reaches `ISLAND_NULL`. The
  lengths in it are integers, not bounded by a channel. `FreeIsSafe`: `NoUseAfterFree`.
* `AnswersAreAccounted`: `AnswersAccounted`, the equation that holds the protocol
  together. `WorkerIsWoken`: `CommandWakesWorker`, from all of these.
* `LoneWritesAreKept`: `LoneWriteNotLost`. `LoopbackIsExact`: `LoopbackExact`.
  `OverrunsAreAsked`: `OverrunIsAsked`, that of all the lengths the code leaves
  unchecked only the thread's own latest ones can overrun a buffer.

None of them is inductive. `IInv` adds to the types what the control points
mean: `WorkerShape` (the island the worker is on at each point), `CopyBounds` (a
byte loop's index against its length), `SlotShape` (the slot holds the command
last sent, except between the worker's load and clear) and `LifeShape` (the
worker is there while the device is, and nobody is in a call before it is
created or after it is freed). One lemma for each of the four groups of actions
shows that it is kept. The accounts are a second induction on top of `IInv`: a
step that changes a term on one side changes one on the other, the cardinality
of `Waiting` by adding or removing one caller (`WaitingCount`). The lone caller
is a third: `LoneCommands` says that with one caller and no time-out a command
in the slot and the one post behind it go together and none is lost, and
`LoneData` follows the bytes of the latest write through the two channels, at
each index of the loops.

### `CommCmdProofs`

Any lines, buffer size, table size and command names.

* `ShellInvariant`: `ShellInv`, from which the others follow. `TypeCorrect`: `TypeOK`,
  with the bound of `argv`. `ParsesExactly`: `ParseExact`. `DispatchesExactly`:
  `DispatchExact`. `EveryCommandOnce`: `EachOnce`.
  `ModulesAreOut`: `NoModuleCommandLeft`.
* `ExitIsLeft`: at the end exit is in two slots of the table and every other slot is
  free. `QuitDoesNotFail`: once quit or exit has run, `comm_main` reports no failure.

`ShellInv` is the conjunction of `Places`, `DataType` and `Latest` (the types),
`Table`, `Parsed` and `DispatchExact`. `Table` says for each phase
which commands have a slot: while modules register, those before the module `m`
and command `j` have one and the later ones none (`Filling`); while they
unregister, the reverse (`Emptying`). It says nothing of the shell's own
commands at the end, where `exit` may have two (finding 2). It needs that a
command is found by its name (`Apart`), hence that names differ
(`DistinctAssumption`). `Parsed` says of a line that has been read that the
buffer holds its characters, with terminators behind the words, and `argv` where
they begin. It comes in two parts: `StoredIs` and `LineRead` say what the reader
leaves in the buffer when the line overran it (the characters since the last
multiple of its size, over those of the round before and of older lines),
`ScanOne` and `ScanAll` what the scan makes of it.

The last two theorems are a second induction, over `EndInv`: lines are read with the
sum `r` of the results at 0, and at the `k`-th call of `trivial_cmd_unregister` quit,
exit and help are in the table as `Leaving(k)` says. It holds for a table with no
spare slot, as in the run: the call that registers `exit` again takes the slot that
`quit` has just left, so that a free slot can be claimed after the first and the third
call and not after the second.

### `UsbCmdProofs`

Any devices, widths, typed numbers and number of commands.

* `HandleIsOwned`: `HandleOwned`. `ContextStaysAlive`: `ContextAlive`.
  `UnregisterLeavesNothing`: `UnregisterCloses`. `TypeCorrect`: `TypeOK`.
* `TransfersAreLegal`: `OnlyLegalTransfers`. `ReadsAreExact`: `ReadExact`.
  `WrittenIsRead`: `ReadsBack`.
* `RegistersAreReadTwice`: a read of registers makes twice as many transfers as it was
  asked for, a read of memory as many, unless `nr * 4` wraps.
* Three action properties. `OnlyBoundIsTouched`: a device's memory and settings change
  only by a transfer while it is the one bound, or when it joins the bus.
  `BindsWhatIsFree`: a bind that succeeds while nothing is bound binds what was typed,
  and no command replaces the device bound. `QueriesMissByOne`: a query of the volume
  or the channel changes no setting, one of the band or the mute state at most clears
  the setting that has its number.

`UInv` is the conjunction of the first three with the shapes of `ctrl`, `of` and
`refs`; a handle that is opened is new because it is the length of `of`. `DInv` is
`Talk /\ Books /\ Told` on top of it. `Talk` relates the command to the transfers
made and those that remain (`Requests`, `Reading`, `Writing`) and to its result,
`Books` has the types of the devices and handles, and
`Told` what the user may expect of a cell to what the device holds. The arithmetic
is in lemmas of its own: packing a number into bytes and joining them again is the
number modulo their width (`BytesJoin`), the two halves of an address give it back
(`Halves`), and an address that wraps stays aligned (`WrapKeepsAlignment`). The
last needs that the address space is a multiple of four; `ByteAssumption` (a byte
has at least four values and `Word % 4 = 0`) holds for 256 values and for the 4 of
the run. The action properties follow from `DInv`; that of the queries needs `FmJob`
besides, which ties the transfer that an fm job still has to make to the sub-command
and the argument that were typed. All three were checked by TLC with two devices first.

### `XyzModemProofs`

Any file, read sizes, retries and faults, and at least three block numbers.

* `TypeCorrect`: `TypeOK`. `AckAfterDelivery`: `AckedIsDelivered`.
* `InOrderUntilSpent`: until the retries have run out on a repeated block the caller
  has a beginning of the file, if the sender is in step with the receiver or no two
  blocks have the same number.
* `DeliversInStep`: `XyzModem` implements `Delivery` where nothing is promised once
  the retries have run out on a repeated block, or once the sender of a file with
  more than `BlkMod` blocks has taken a second ACK of one block for that of the next
  (`early`).
* `DeliversShortFile`: for a file with no more blocks than there are block numbers, as
  in the run, `DeliversInOrder`, that is `Delivery` as `XyzModem` instantiates it,
  whatever the sender makes of the ACKs.

`XInv` relates the receiver to the sender and the line: `Window` (a sender in step is
at most one block past what was acknowledged, and not behind what was taken),
`Incoming` (a block on the line is the one expected or the one before while the
sender is in step, so its number tells which; in a short file none on the line is
older than the last one taken, whatever the sender does, so that no two candidates
have the same number), `Outgoing` (the answers on the line to a sender in step are
about blocks that have been acknowledged), and `Copied` (what the caller has, with the
rest of the packet buffer, is the contents of the blocks taken, less their padding).
The restriction to short files is real: an ACK has no number, so duplicates of it can
carry the sender ahead of the receiver, until a later block has the number of the one
expected. With 5 blocks, 3 numbers and 4 faults of the line TLC finds a behaviour in
which the second block the caller gets is the fifth of the file. With no more blocks
than numbers only the right one can be taken.

### `FileProofs`

Any characters, lengths, offsets and acts of other processes.

* `FileTypeCorrect`; `WritesAreKept`: `AcceptedIsKept`; `OldContentsAreKept`:
  `KeepsOldContents`, an action property.
* `CommTypeCorrect`; `ReadsExactly`: `ReadIsExact`; `FailedOpenDoesNothing`, an action
  property: an object whose open failed leaves the file alone until it is closed, and
  a read of it that asks for anything never ends.

`FileInv` says that the contents wanted are those of the stream while it is open
and those of the disk afterwards, unless writes were lost, and that the stream
sees no less than the disk holds; `SyncedKeeps` is the one lemma about the three
things that can become of pending writes. `CommInv` says that a usable descriptor
has a file and that a read in progress has what the file held from its beginning
to the descriptor's offset; `HandleInv`, for the failed open, that an append in
progress has a descriptor and an open in progress none yet. `OverwrittenFile` and
`AppendedFile` say what a write makes of a file.

### `PortServerProofs`

Any clients, ports and arguments.

* `ServerInvariant`: `SrvInv`; `SrvTypeCorrect`; `AnswersAreOwn`: `AnswersOwnLines`.

`SrvInv` is `SrvTypeOK /\ Turns /\ Streams /\ InLine /\ Counted /\ Own /\ Quits`:
a connection waits in one place of one queue until it is accepted, once
(`Turns`); what is in a stream is the part of the client's text between what was
read and what was sent (`Streams`); the server's buffer is the text since the
last line end read (`InLine`); there are as many answers as lines read that call
for one (`Counted`), each that of its line (`Own`), and a client served to its
quit has that as its last answer (`Quits`). `DequeueKeeps` is shared by the two ways
in which `accept` takes a connection from its queue. `LineFeed` and `OtherChar` say how
reading a character changes the set of lines to be answered. `FlattenIs` unfolds
the library's flattening of a sequence, so that a client's text grows by a piece
with each write.

### `ThreadProofs`

Any number of workers, consumers and posts.

* `CondTypeCorrect`; `NoLostWakeup`: `NoSleepThroughActivation`; `NoWorkUnasked`:
  `WorkIsAskedFor`.
* `SemTypeCorrect`; `FreeIsLast`: `FreedAfterUse`.

`CInv` adds `Mutex` (who is between lock and unlock holds it), `FlagMeansAsked`
(once the broadcast is over, a set flag means that all workers have been asked)
and `WokenMeansAsked`. Without the second, a worker that finds the flag set could
not be known to have been asked; it fails between the setting and the broadcast,
when the mutex keeps the workers out. `SemInv` records, for each place of main of
`c4-2`, which threads it has joined; a joined thread makes no step
(`ThreadKeepsSemInv`).

### `ProgramsProofs`

The specification of the run `programs`, all constants free.

* `EachRunsItsProgram`: each of its behaviours is one of every one of the five programs,
  since a step of one leaves the variables of the others alone (`StepOfEach`).
* `ProgramTypes`: `TypesOK`. `ProgramsAreSafe`: the safety properties of the run, carried
  over from the five programs.

### Only model-checked

* Liveness under fairness, which is out of the prover's reach: `QuitEnds`,
  `CallReturnsUnlessLost`, `DestroyReturns`, `ReadReturns`, `ActivationTaken`,
  `ProgramEnds`, `ClientsServed`, `FileReadReturns`.
* Not proved and not claimed: `DeliversInOrder` for a file with more than `BlkMod` blocks whose sender is out of
  step, where it does not hold (see above); no run is about such a file.
* The six runs that show a violation.

## 5. Not modelled, and what the models leave out

* Serial: the device counter (`serial_dev_cnt`, unlocked, never read), more than
  one device, what follows an overrun, the two failing system calls
  inside a wait (`clock_gettime`, `sem_wait` interrupted).
* Shell: what is printed; the checks of `comm_check_command`, which every command of the program passes.
  `comm_puts` tests `USB_SOCKET`, a name no build defines, so output goes to
  standard output with a socket console too.
* USB: printing of descriptors; device lists and configuration descriptors that
  are not freed; two programs on one device.
* X-modem: single characters within a block and the arithmetic of the CRC, which
  is taken to find any damage; a caller that reads on after an error (`xyz.len`
  is -1 then; the repository has no caller).
* Server of `c5-4`: lines of more than 1023 characters, which overrun its buffer;
  a full backlog; a client with several connections.
* `CommFile`: a program whose descriptor 0 is closed, for which the probe's
  `fd > 0` fails on a file that is there; `f->pos`, which nothing reads; negative
  lengths.
* `ipc`: for each message it copies 1024 bytes of the shared memory into a local
  array of 32; nothing after the first message is defined.
* `c4`: its signal handler calls `pthread_join` and `printf`, which a handler may
  not; what follows the signal is undefined.
* `test_sem` of `thread.c`: three endless loops around `sem_wait`, without state.
* `c5-2`: messages over a socket, each after its length, from one client at a time
  to a server that prints them. `c3` to `c3-4`: one fork and wait each. `demo-calc`: an older
  copy of the shell, with arithmetic on two arguments. `demo-lib`, `demo-sys`,
  `demo-env`, `demo-time`, `c1`, `c2*`, `apue`: calls of the C library one after the
  other.

## 6. Disagreements between the code and its own texts

1. `usb` alone after `usb list` runs `list` again: `comm_exec_command` reads
   `argv[1]` of an older line (`shell_bare_group`).
2. `trivial_cmd_unregister` registers `exit` a second time instead of taking it
   out, and reports no failure. There is no run for it: the theorem `ExitIsLeft` says
   what the table holds at the end, for every table.
3. `usb bind` of another device while one is bound reports success and leaves
   the old one bound (`usb_bind_other`).
4. `usb fm band` and `usb fm mute` without an argument send the number of a query
   with the primitive of a setting, and so change the channel spacing or the mono
   mode (`usb_fm_query`).
5. When the retries of the X-modem receiver run out on a repeated block, its data
   is delivered again, where the comment says "Need new header"
   (`xmodem_repeat`).
6. `comm_file_open` marks the object open and returns 0 when its `open` failed, so
   that `main`'s "open file failed" is never printed (`file_open_status`).
7. `usb read ana` and `usb read pmu` read two registers for each one asked for, past
   `ANA_REG_MAX_ADDR` if need be, where the help says "read analog [0x60]" and the
   range check calls such an address out of range (`usb_read_ana`).

Further facts the models make visible, on which the code's texts say nothing: a
read that times out leaves a token behind, on which the next read returns at
once with nothing; at the end of input the shell never returns; a failed FM
transfer is reported as success; a line of noise that never ends keeps the X-modem
receiver in one call; the first read of a serial device, before any write, copies a
length found in fresh memory; a second ACK for one
block is taken by the sender for the first of the next; a client of the `c5-4`
server that closes without "quit" leaves the server reading an ended connection
for ever, or ends it; "quit" is not recognised with a line feed alone after it,
because the last character is dropped; an `accept` whose uninitialised length is
negative loses every connection from then on; `fileClose` tells nobody that `fclose`
failed; the positioning operations of a data file that is not open go through a
pointer that is not initialised or closed; a read of a file object whose open
failed never returns.

## 7. Plan

Done, in this order: `SerialThread`, `CommCmd`, `UsbCmd`, `XyzModem`; `Delivery` and
the refinement, `CondDemo`, `SemDemo`, `PortServer`, `DataFile`, `CommFile`; the
proofs of the safety properties of all of them, then of the composed specification,
and the theorems that delimit the disagreements of section 6.

Left, a proof: that the serial device, for a lone caller, implements an atomic command
queue (`LoneWritesAreKept` and `LoopbackIsExact` are the two halves it would rest on).

Left, models: `rda_crc16` against polynomial division; the composition of `CommCmd`
and `UsbCmd` (the bound device at quit); the atomic command queue just named.
