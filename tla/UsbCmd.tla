-------------------------------- MODULE UsbCmd --------------------------------
(***************************************************************************)
(* The "usb" commands of demo-dh, common/usb_cmd.c: list, bind, unbind,    *)
(* read, write, test and fm, on one bound device (usbctrl).                *)
(*                                                                         *)
(* A command that moves data is a job: the control transfers still to be   *)
(* made, in order.  A transfer is a step of its own, because the device    *)
(* may leave the bus between two of them.  libusb and the device are       *)
(* external: libusb counts the uses of its default context, a transfer on  *)
(* the handle of a device that has left the bus fails, and any other       *)
(* transfer may be complete, short or failed.                              *)
(*                                                                         *)
(* Widths: a byte has Byte values (256 in the code), a 16-bit word Half, a *)
(* 32-bit word Word.                                                       *)
(***************************************************************************)
EXTENDS Integers, Sequences, FiniteSets

CONSTANTS
    Byte,                       \* values of a byte
    AnaMax,                     \* ANA_REG_MAX_ADDR
    DefVid, DefPid,             \* BIND_DEF_VID, BIND_DEF_PID
    Devices,                    \* the devices there are: <<vid, pid>>
    Vids, Pids,                 \* the numbers typed as vid and pid
    Addrs, Counts, Values,      \* the numbers typed as addr, as nr, as data or fm arg
    MaxCmds                     \* bound: commands typed

Half == Byte * Byte
Word == Half * Half

\* A word has room for every FM code and is a whole number of cells.
ASSUME ByteAssumption == Byte \in Nat /\ Byte > 3 /\ Word % 4 = 0
ASSUME AnaMaxAssumption == AnaMax \in 1..Half
ASSUME DefaultAssumption == DefVid \in 1..(Half - 1) /\ DefPid \in 1..(Half - 1)
ASSUME DevicesAssumption == Devices \subseteq (1..(Half - 1)) \X (1..(Half - 1))
ASSUME TypedAssumption ==
    /\ Vids \subseteq Nat /\ Pids \subseteq Nat /\ Addrs \subseteq Nat
    /\ Counts \subseteq Nat /\ Values \subseteq Nat
ASSUME MaxCmdsAssumption == MaxCmds \in Nat

VARIABLES
    reg,        \* "no", "yes" or "over": usb_cmd_register, usb_cmd_unregister
    ctrl,       \* usbctrl
    job,        \* the command that is moving data, or Idle
    refs,       \* external: uses of libusb's default context
    open,       \* external: the open handles
    of,         \* external: the device each handle was opened on
    dead,       \* external: the handles whose device has left the bus
    bus,        \* external: the devices on the bus
    mem,        \* external: device memory, the bytes of the cells ever written
    fm,         \* external: the settings of each device's FM receiver
    line,       \* history: the latest command as typed
    sent,       \* history: its transfers
    ret,        \* history: its result
    told,       \* history: what the user may expect in a cell of the bound device
    n           \* commands typed so far

ctrlVars == <<reg, ctrl>>
usbVars == <<refs, open, of>>
devVars == <<dead, bus, mem, fm>>
vars == <<reg, ctrl, job, refs, open, of, dead, bus, mem, fm, line, sent, ret, told, n>>

-----------------------------------------------------------------------------
(***************************************************************************)
(* Tables and transfers.                                                   *)
(***************************************************************************)
NULL == 0                       \* a handle is a number, the null handle is 0
Missing == -1                   \* an argument that was not typed
Idle == [cmd |-> "idle", todo |-> <<>>, err |-> 0]

Narrow == {"ana", "pmu"}        \* 16-bit registers
Wide == {"dig", "mem"}          \* 32-bit words
Control == {"exec", "rst", "rstcdc"}
rw_sub_cmds == Narrow \cup Wide \cup Control
fm_sub_cmds == {"on", "off", "volume", "channel", "band", "device", "test", "mute"}

\* usb_fm_ctrl.h numbers settings and queries independently of each other.
SET_POWER == 0
SET_BAND == 1
SET_MUTE == 4
SET_VOLUME == 5
SET_TUNING_CHAN == 9
SET_MAX_QTY == 13
GET_FM_IC == 1
GET_BAND == 3
GET_MUTE_STATE == 6
GET_VOL == 8
GET_CUR_CHAN == 13

\* usb_raw_write, usb_raw_read: the setup packet carries the address in two halves.
Setup(req, addr, len, data) ==
    [bRequest |-> req, wValue |-> addr % Half, wIndex |-> addr \div Half,
     wLength |-> len, data |-> data]

\* usb_fm_raw_xfer
FmSetup(prim, code, arg) ==
    [bRequest |-> prim, wValue |-> code, wIndex |-> arg,
     wLength |-> IF prim = "FM_SET" THEN 1 ELSE 2, data |-> <<>>]

\* The bytes of a number, low byte first, and the number they make.
Bytes(d, k) == [i \in 1..k |-> IF i = 1 THEN d % Byte
                               ELSE IF i = 2 THEN (d \div Byte) % Byte
                               ELSE IF i = 3 THEN (d \div Half) % Byte
                               ELSE (d \div (Half * Byte)) % Byte]
\* Mutant: the two upper bytes change places.
Joined_Swapped(b) ==
    IF Len(b) = 2 THEN b[1] + b[2] * Byte
    ELSE b[1] + b[2] * Byte + b[4] * Half + b[3] * (Half * Byte)
Joined(b) ==
    IF Len(b) = 2 THEN b[1] + b[2] * Byte
    ELSE b[1] + b[2] * Byte + b[3] * Half + b[4] * (Half * Byte)

\* The width of a cell of a module, and the distance between two cells.
Len8(mod) == IF mod \in Narrow THEN 2 ELSE 4
Inc(mod) == IF mod \in Narrow THEN 1 ELSE 4

-----------------------------------------------------------------------------
Init ==
    /\ reg = "no"
    /\ ctrl = [bind |-> 0, handle |-> NULL, vid |-> 0, pid |-> 0]
    /\ job = Idle
    /\ refs = 0 /\ open = {} /\ of = <<>> /\ dead = {}
    /\ bus \in SUBSET Devices
    /\ mem = [d \in Devices |-> <<>>]
    /\ fm = [d \in Devices |-> [c \in 0..(SET_MAX_QTY - 1) |-> 1]]
    /\ line = [cmd |-> "none"] /\ sent = <<>> /\ ret = 0
    /\ told = <<>>
    /\ n = 0

\* usb_cmd_register zeroes usbctrl before it adds the commands.
usb_cmd_register ==
    /\ reg = "no"
    /\ reg' = "yes"
    /\ ctrl' = [bind |-> 0, handle |-> NULL, vid |-> 0, pid |-> 0]
    /\ UNCHANGED <<job, usbVars, devVars, line, sent, ret, told, n>>

\* A command is typed: the shell runs one at a time.
Type(l) ==
    /\ reg = "yes" /\ job = Idle /\ n < MaxCmds
    /\ n' = n + 1
    /\ line' = l
    /\ sent' = <<>>

\* The command returns at once.
Return(r) == ret' = r /\ job' = Idle

-----------------------------------------------------------------------------
(***************************************************************************)
(* list, list1 and test.                                                   *)
(***************************************************************************)
libusb_init(k) == k + 1
libusb_exit(k) == k - 1

\* The uses of the context after an enumeration of the bus.
Survey(k, outcome) ==
    CASE outcome = "init_fails" -> k
      [] outcome \in {"list_fails", "desc_fails"} -> libusb_init(k)
      [] outcome = "ok" -> libusb_exit(libusb_init(k))

\* A failed enumeration and a failed descriptor return without libusb_exit.
usb_handle_cmd_list ==
    /\ \E l \in {"list", "list1"} : Type([cmd |-> l])
    /\ \E outcome \in {"init_fails", "list_fails", "desc_fails", "ok"} :
        /\ outcome = "desc_fails" => bus # {}
        /\ refs' = Survey(refs, outcome)
        /\ Return(IF outcome = "ok" THEN 0 ELSE -1)
    /\ UNCHANGED <<ctrlVars, open, of, devVars, told>>

\* test looks for one device; its result is that of the last descriptor it read.
usb_handle_cmd_test ==
    \E vid \in Vids \cup {Missing}, pid \in Pids \cup {Missing} :
        /\ vid = Missing => pid = Missing
        /\ Type([cmd |-> "test"])
        /\ IF vid = Missing \/ pid = Missing \/ vid % Half = 0 \/ pid % Half = 0
           THEN refs' = refs /\ Return(-1)
           ELSE \E outcome \in {"init_fails", "list_fails", "ok"} :
                    /\ refs' = Survey(refs, outcome)
                    /\ \E r \in (IF outcome # "ok" THEN {-1}
                                 ELSE IF bus = {} THEN {0} ELSE {0, -1}) : Return(r)
        /\ UNCHANGED <<ctrlVars, open, of, devVars, told>>

-----------------------------------------------------------------------------
(***************************************************************************)
(* bind and unbind.                                                        *)
(***************************************************************************)
\* An argument that is not typed has its default; a typed one is cut to 16 bits.
\* Mutant: it is not cut.
Given_Uncut(arg, def) == IF arg = Missing THEN def ELSE arg
Given(arg, def) == IF arg = Missing THEN def ELSE arg % Half

\* Mutant: the context is given back once the device is open.
BindContext_Exit(k) == libusb_exit(libusb_init(k))
BindContext(k) == libusb_init(k)

\* Opening fails when the device is absent, and may fail when it is there
\* (permission); the context stays in use then.
bind(vid, pid) ==
    IF ctrl.bind = 1
    THEN /\ Return(0)
         /\ UNCHANGED <<ctrl, usbVars, told>>
    ELSE IF vid = 0 \/ pid = 0
    THEN /\ Return(-1)
         /\ UNCHANGED <<ctrl, usbVars, told>>
    ELSE \/ /\ Return(-1)                               \* libusb_init fails
            /\ UNCHANGED <<ctrl, usbVars, told>>
         \/ /\ refs' = libusb_init(refs)                \* the open fails
            /\ Return(-1)
            /\ UNCHANGED <<ctrl, open, of, told>>
         \/ /\ <<vid, pid>> \in bus
            /\ refs' = BindContext(refs)
            /\ of' = Append(of, <<vid, pid>>)
            /\ open' = open \cup {Len(of')}
            /\ ctrl' = [bind |-> 1, handle |-> Len(of'), vid |-> vid, pid |-> pid]
            /\ told' = <<>>
            /\ Return(0)

\* Mutant: the handle is dropped without being closed.
Closed_Kept(h) == open
Closed(h) == open \ {h}

\* unbind closes whatever is bound, notes the vid and pid it was given, and leaves
\* the context in use.
unbind(vid, pid) ==
    /\ IF ctrl.bind = 0
       THEN UNCHANGED <<ctrl, open>>
       ELSE /\ open' = Closed(ctrl.handle)
            /\ ctrl' = [bind |-> 0, handle |-> NULL, vid |-> vid, pid |-> pid]
    /\ UNCHANGED <<refs, of, told>>

usb_handle_cmd_bind ==
    \E vid \in Vids \cup {Missing}, pid \in Pids \cup {Missing} :
        /\ vid = Missing => pid = Missing
        /\ LET v == Given(vid, DefVid)
               p == Given(pid, DefPid)
           IN  \/ Type([cmd |-> "bind", vid |-> v, pid |-> p]) /\ bind(v, p)
               \/ Type([cmd |-> "unbind"]) /\ unbind(v, p) /\ Return(0)
        /\ UNCHANGED <<reg, devVars>>

-----------------------------------------------------------------------------
(***************************************************************************)
(* read and write.                                                         *)
(***************************************************************************)
\* Mutant: the first address behind the analog registers passes.
Refused_OffByOne(mod, addr) ==
    \/ mod \in Narrow /\ addr > AnaMax
    \/ mod \in Wide /\ addr % 4 # 0
Refused(mod, addr) ==
    \/ mod \in Narrow /\ addr >= AnaMax
    \/ mod \in Wide /\ addr % 4 # 0

\* usb read mod addr nr: nr * 4 / len transfers, in 32-bit arithmetic.
Times(mod, nr) == IF mod \in Control THEN 0 ELSE ((nr * 4) % Word) \div Len8(mod)

\* Mutant: the first cell is skipped.
Reads_Late(mod, addr, nr) ==
    [i \in 1..Times(mod, nr) |->
        Setup(mod, (addr + i * Inc(mod)) % Word, Len8(mod), <<>>)]
Reads(mod, addr, nr) ==
    [i \in 1..Times(mod, nr) |->
        Setup(mod, (addr + (i - 1) * Inc(mod)) % Word, Len8(mod), <<>>)]

Write(mod, addr, data) ==
    Setup(mod, addr, Len8(mod), Bytes(IF mod \in Control THEN 0 ELSE data, Len8(mod)))

\* The job of a read or a write that passed its checks.
Start(cmd, todo) ==
    /\ ret' = 0
    /\ job' = IF todo = <<>> THEN Idle ELSE [cmd |-> cmd, todo |-> todo, err |-> 0]

\* A write to a cell without a value.
NoData(cmd, mod, arg3) == cmd = "write" /\ mod \notin Control /\ arg3 = Missing

usb_handle_cmd_rw ==
    \E cmd \in {"read", "write"}, mod \in rw_sub_cmds \cup {"none", "bad"},
       arg2 \in Addrs \cup {Missing}, arg3 \in Counts \cup Values \cup {Missing} :
        /\ arg3 \in (IF cmd = "read" THEN Counts ELSE Values) \cup {Missing}
        /\ mod = "none" => arg2 = Missing
        /\ arg2 = Missing => arg3 = Missing
        /\ LET addr == IF arg2 = Missing THEN 0 ELSE arg2 % Word
               v == IF arg3 = Missing THEN 1 ELSE arg3 % Word
           IN  /\ Type([cmd |-> cmd, mod |-> mod, addr |-> addr, v |-> v,
                        typed |-> arg3 # Missing])
               /\ IF ctrl.bind = 0 THEN Return(-1)
                  ELSE IF mod = "none" THEN Return(-2)
                  ELSE IF mod = "bad" THEN Return(-3)
                  ELSE IF NoData(cmd, mod, arg3) THEN Return(-4)
                  ELSE IF Refused(mod, addr) THEN Return(-3)
                  ELSE Start(cmd, IF cmd = "read" THEN Reads(mod, addr, v)
                                  ELSE <<Write(mod, addr, v)>>)
        /\ UNCHANGED <<ctrlVars, usbVars, devVars, told>>

-----------------------------------------------------------------------------
(***************************************************************************)
(* fm.                                                                     *)
(***************************************************************************)
\* The transfers of a sub-command; a query is one without an argument.
usb_fm_cmd_power(on) == FmSetup("FM_SET", SET_POWER, on)
usb_fm_cmd_mute(arg) ==
    IF arg = Missing THEN [FmSetup("FM_SET", GET_MUTE_STATE, 0) EXCEPT !.wLength = 2]
    ELSE FmSetup("FM_SET", SET_MUTE, arg % 4)
usb_fm_cmd_band(arg) ==
    IF arg = Missing THEN [FmSetup("FM_SET", GET_BAND, 0) EXCEPT !.wLength = 2]
    ELSE FmSetup("FM_SET", SET_BAND, arg % 4)
usb_fm_cmd_channel(arg) ==
    IF arg = Missing THEN FmSetup("FM_GET", GET_CUR_CHAN, 0)
    ELSE FmSetup("FM_SET", SET_TUNING_CHAN, arg)
usb_fm_cmd_volume(arg) ==
    IF arg = Missing THEN FmSetup("FM_GET", GET_VOL, 0)
    ELSE FmSetup("FM_SET", SET_VOLUME, arg % 16)
usb_fm_cmd_get_device == FmSetup("FM_GET", GET_FM_IC, 0)
usb_fm_cmd_test ==
    <<usb_fm_cmd_get_device, usb_fm_cmd_power(1), usb_fm_cmd_band(0),
      usb_fm_cmd_channel(9740 % Half), usb_fm_cmd_volume(8)>>

FmTransfers(sub, arg) ==
    CASE sub = "on" -> <<usb_fm_cmd_power(1)>>
      [] sub = "off" -> <<usb_fm_cmd_power(0)>>
      [] sub = "volume" -> <<usb_fm_cmd_volume(arg)>>
      [] sub = "channel" -> <<usb_fm_cmd_channel(arg)>>
      [] sub = "band" -> <<usb_fm_cmd_band(arg)>>
      [] sub = "mute" -> <<usb_fm_cmd_mute(arg)>>
      [] sub = "device" -> <<usb_fm_cmd_get_device>>
      [] sub = "test" -> usb_fm_cmd_test

usb_handle_cmd_fm ==
    \E sub \in fm_sub_cmds \cup {"none", "bad"}, arg2 \in Values \cup {Missing} :
        /\ sub = "none" => arg2 = Missing
        /\ LET arg == IF arg2 = Missing THEN Missing ELSE arg2 % Half
           IN  /\ Type([cmd |-> "fm", sub |-> sub, arg |-> arg])
               /\ IF ctrl.bind = 0 THEN Return(-1)
                  ELSE IF sub = "none" THEN Return(-2)
                  ELSE IF sub = "bad" THEN Return(-3)
                  ELSE Start("fm", FmTransfers(sub, arg))
        /\ UNCHANGED <<ctrlVars, usbVars, devVars, told>>

-----------------------------------------------------------------------------
(***************************************************************************)
(* One transfer, and what the device makes of it.                          *)
(***************************************************************************)
Cell(p) == <<p.bRequest, p.wIndex * Half + p.wValue>>
Put(f, c, v) == [x \in DOMAIN f \cup {c} |-> IF x = c THEN v ELSE f[x]]
Get(f, c, k) == IF c \in DOMAIN f THEN f[c] ELSE [i \in 1..k |-> 0]

IsMemory(p) == p.bRequest \in Narrow \cup Wide
IsWrite(p) == p.data # <<>>

\* A memory write that the device took, a reset, a setting of the FM receiver.
Store(d, p) == [mem EXCEPT ![d] = Put(@, Cell(p), p.data)]
Effect(d, p) ==
    /\ mem' = IF IsMemory(p) /\ IsWrite(p) THEN Store(d, p)
              ELSE IF p.bRequest \in {"rst", "rstcdc"} THEN [mem EXCEPT ![d] = <<>>]
              ELSE mem
    /\ fm' = IF p.bRequest = "FM_SET" THEN [fm EXCEPT ![d][p.wValue] = p.wIndex] ELSE fm

\* What the user may now expect: the value of a complete write; nothing in
\* particular of a cell after a failed write, or of any cell after a reset.
Unsure == -1
Expect(p, outcome) ==
    IF IsMemory(p) /\ IsWrite(p)
    THEN Put(told, <<line.mod, line.addr>>,
             IF outcome # "full" THEN Unsure
             ELSE IF line.mod \in Narrow THEN line.v % Half ELSE line.v)
    ELSE IF p.bRequest \in {"rst", "rstcdc"} THEN <<>>
    ELSE told

Bad(outcome) == IF outcome = "full" THEN 0 ELSE 1

\* The result of the command: the errors of a read or write, 0 for fm - except
\* that the case of "test" runs into the default.
Result(err) ==
    IF job.cmd # "fm" THEN err ELSE IF line.sub = "test" THEN -4 ELSE 0

\* A full or a short transfer has reached the device, a failed one may have.
Transfer ==
    /\ job # Idle
    /\ LET p == Head(job.todo)
           d == of[ctrl.handle]
       IN  \E outcome \in IF ctrl.handle \in dead THEN {"fail"} ELSE {"full", "short", "fail"} :
            /\ \/ /\ ctrl.handle \notin dead
                  /\ Effect(d, p)
               \/ /\ outcome # "full"
                  /\ UNCHANGED <<mem, fm>>
            /\ sent' = Append(sent, [p |-> p, outcome |-> outcome,
                                     d |-> IF IsMemory(p) /\ ~IsWrite(p) /\ outcome = "full"
                                           THEN Joined(Get(mem[d], Cell(p), p.wLength))
                                           ELSE Unsure])
            /\ told' = Expect(p, outcome)
            /\ LET err == job.err + Bad(outcome)
               IN  IF Len(job.todo) = 1
                   THEN Return(Result(err))
                   ELSE job' = [job EXCEPT !.todo = Tail(@), !.err = err] /\ ret' = ret
    /\ UNCHANGED <<ctrlVars, usbVars, dead, bus, line, n>>

\* Mutant: the module is unregistered with its device still bound.
Leave_Bound == UNCHANGED <<ctrl, open, refs, of, told>>
Leave == unbind(DefVid, DefPid)

\* usb_cmd_unregister unbinds before it removes the commands.
usb_cmd_unregister ==
    /\ reg = "yes" /\ job = Idle
    /\ reg' = "over"
    /\ Leave
    /\ UNCHANGED <<job, devVars, line, sent, ret, n>>

\* External: a device joins the bus with its memory cleared, or leaves it.
Plug ==
    \E d \in Devices \ bus :
        /\ bus' = bus \cup {d}
        /\ mem' = [mem EXCEPT ![d] = <<>>]
        /\ UNCHANGED <<ctrlVars, job, usbVars, dead, fm, line, sent, ret, told, n>>
Unplug ==
    \E d \in bus :
        /\ bus' = bus \ {d}
        /\ dead' = dead \cup {h \in 1..Len(of) : of[h] = d}
        /\ UNCHANGED <<ctrlVars, job, usbVars, mem, fm, line, sent, ret, told, n>>

Next ==
    \/ usb_cmd_register \/ usb_cmd_unregister
    \/ usb_handle_cmd_list \/ usb_handle_cmd_test
    \/ usb_handle_cmd_bind
    \/ usb_handle_cmd_rw \/ usb_handle_cmd_fm \/ Transfer
    \/ Plug \/ Unplug

Spec == Init /\ [][Next]_vars

-----------------------------------------------------------------------------
(***************************************************************************)
(* Properties.                                                             *)
(***************************************************************************)
Packets ==
    [bRequest : rw_sub_cmds \cup {"FM_SET", "FM_GET"}, wValue : 0..(Half - 1),
     wIndex : 0..(Half - 1), wLength : {1, 2, 4}, data : Seq(0..(Byte - 1))]
Codes == 0..(SET_MAX_QTY - 1)

JobType ==
    \/ job = Idle
    \/ job \in [cmd : {"read", "write", "fm"}, todo : Seq(Packets) \ {<<>>}, err : Nat]

\* Type correctness: usbctrl, the context, the handles, the job and the result
\* keep their shapes through every command.
TypeOK ==
    /\ reg \in {"no", "yes", "over"}
    /\ ctrl \in [bind : {0, 1}, handle : Nat, vid : 0..(Half - 1), pid : 0..(Half - 1)]
    /\ JobType
    /\ refs \in Nat
    /\ of \in Seq(Devices) /\ open \subseteq 1..Len(of) /\ dead \subseteq 1..Len(of)
    /\ bus \subseteq Devices
    /\ fm \in [Devices -> [Codes -> 0..(Half - 1)]]
    /\ ret \in Int /\ n \in 0..MaxCmds

\* usbctrl and libusb agree: the open handles are the bound one, if any (none is
\* leaked, none is kept after it is closed), it was opened on the device usbctrl
\* names, and only a bound program has transfers under way.
HandleOwned ==
    /\ open = IF ctrl.bind = 1 THEN {ctrl.handle} ELSE {}
    /\ ctrl.bind = 1 => of[ctrl.handle] = <<ctrl.vid, ctrl.pid>>
    /\ ctrl.bind = 0 => ctrl.handle = NULL
    /\ job # Idle => ctrl.bind = 1 /\ reg = "yes"

\* No list or test command takes the libusb context away from under the bound
\* handle: while a handle is open the context is in use.
ContextAlive == open # {} => refs > 0

\* A command that is refused has touched nothing, and what a command does touch is
\* legal: a register write is below ANA_REG_MAX_ADDR, a word is aligned - in the
\* whole of a read, past a wrap of the 32-bit address too.
OnlyLegalTransfers ==
    /\ (job = Idle /\ ret < 0 /\ ~(line.cmd = "fm" /\ line.sub = "test")) => sent = <<>>
    /\ \A i \in DOMAIN sent :
        LET p == sent[i].p IN
        /\ p.bRequest \in Wide => Cell(p)[2] % 4 = 0
        /\ p.bRequest \in Narrow /\ IsWrite(p) => Cell(p)[2] < AnaMax

\* A read that returned has read what it was asked for: of memory exactly the words
\* counted, of the registers at least those, in order and without a gap; its result
\* is the number of transfers that were not complete.
ReadExact ==
    (line.cmd = "read" /\ job = Idle /\ ret >= 0 /\ line.mod \notin Control) =>
        /\ line.v * 4 < Word => /\ line.mod \in Wide => Len(sent) = line.v
                                /\ line.mod \in Narrow => Len(sent) >= line.v
        /\ \A i \in DOMAIN sent :
            Cell(sent[i].p) = <<line.mod, (line.addr + (i - 1) * Inc(line.mod)) % Word>>
        /\ ret = Cardinality({i \in DOMAIN sent : sent[i].outcome # "full"})

\* Write, then read: what a read shows of a cell is the value last written there by
\* a complete write, cut to the width of the cell, unless a later write failed or
\* the device was reset.
ReadsBack ==
    line.cmd = "read" =>
        \A i \in DOMAIN sent :
            LET c == <<line.mod, (line.addr + (i - 1) * Inc(line.mod)) % Word>>
            IN  sent[i].d # Unsure /\ c \in DOMAIN told =>
                    told[c] \in {Unsure, sent[i].d}

\* When the module has been unregistered no handle is left open.
UnregisterCloses == reg = "over" => open = {} /\ ctrl.bind = 0

\* The help of read: a read without a count reads the cell it names and no other.
ReadNamesCell ==
    line.cmd = "read" /\ ~line.typed =>
        \A i \in DOMAIN sent : Cell(sent[i].p) = <<line.mod, line.addr>>

\* The help of bind: after a bind that succeeded the device of the command is bound.
BindNamesDevice ==
    line.cmd = "bind" /\ ret = 0 /\ reg = "yes" =>
        <<ctrl.vid, ctrl.pid>> = <<line.vid, line.pid>>

\* The help of fm: a sub-command without an argument asks for a setting, and so
\* leaves the settings of the receiver as they are.
FmQueryOnlyAsks ==
    [][(job # Idle /\ job.cmd = "fm" /\ line.arg = Missing
            /\ line.sub \in {"volume", "channel", "band", "mute"}) => fm' = fm]_vars
=============================================================================
