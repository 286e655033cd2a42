----------------------------- MODULE UsbCmdProofs -----------------------------
(***************************************************************************)
(* Proofs about UsbCmd, for any devices on the bus, any numbers typed, any *)
(* widths and any sequence of commands: first the handle and the libusb    *)
(* context (UInv), then the data that the transfers carry (DInv).          *)
(***************************************************************************)
EXTENDS UsbCmd, TLAPS, FiniteSetTheorems, SequenceTheorems

(***************************************************************************)
(* The inductive invariant: HandleOwned and ContextAlive need the types of *)
(* usbctrl and of libusb's books, and that only a registered module can be *)
(* bound.                                                                  *)
(***************************************************************************)
CtrlShape ==
    /\ reg \in {"no", "yes", "over"}
    /\ ctrl \in [bind : {0, 1}, handle : Nat, vid : 0..(Half - 1), pid : 0..(Half - 1)]
UsbShape ==
    /\ refs \in Nat
    /\ of \in Seq(Devices)
    /\ bus \subseteq Devices
UInv ==
    /\ CtrlShape
    /\ UsbShape
    /\ HandleOwned
    /\ ContextAlive
    /\ reg # "yes" => ctrl.bind = 0

\* A 16-bit word has values at all.
LEMMA HalfPositive == Half \in Nat /\ Half > 0
  BY ByteAssumption DEF Half

\* A vid or pid, typed or not, is a 16-bit number.
LEMMA GivenFits ==
    ASSUME NEW arg \in Nat \cup {Missing}, NEW def \in 1..(Half - 1)
    PROVE  Given(arg, def) \in 0..(Half - 1)
<1>1. CASE arg = Missing
  BY <1>1, HalfPositive DEF Given
<1>2. CASE arg # Missing
  <2>1. arg \in Nat
    BY <1>2
  <2> QED
    BY <1>2, <2>1, HalfPositive DEF Given
<1> QED
  BY <1>1, <1>2

\* Before the module is registered nothing is open.
LEMMA InitUInv == Init => UInv
  BY HalfPositive
  DEF Init, UInv, CtrlShape, UsbShape, HandleOwned, ContextAlive, NULL, Idle

\* A step that leaves usbctrl, the handles and the context alone, and starts a job
\* only for a bound program, preserves the invariant.
LEMMA QuietKeepsUInv ==
    ASSUME UInv, UNCHANGED <<reg, ctrl, refs, open, of>>,
           bus' \subseteq Devices,
           job' = Idle \/ (ctrl.bind = 1 /\ reg = "yes")
    PROVE  UInv'
  BY DEF UInv, CtrlShape, UsbShape, HandleOwned, ContextAlive

\* unbind closes the bound handle and no other.
LEMMA UnbindKeepsUInv ==
    ASSUME UInv, NEW v \in 0..(Half - 1), NEW p \in 0..(Half - 1),
           unbind(v, p), job' = Idle, reg' \in {"yes", "over"}, bus' = bus
    PROVE  UInv'
<1> USE DEF unbind, UInv
<1>1. ctrl'.bind = 0 /\ ctrl'.handle = NULL /\ CtrlShape'
  BY DEF CtrlShape, HandleOwned, NULL
<1>2. open' = {}
  BY DEF HandleOwned, Closed, CtrlShape
<1>3. UsbShape'
  BY DEF UsbShape
<1>4. HandleOwned' /\ ContextAlive'
  BY <1>1, <1>2 DEF HandleOwned, ContextAlive
<1> QED
  BY <1>1, <1>3, <1>4

\* bind opens one handle, and only when none is open.
LEMMA BindKeepsUInv ==
    ASSUME UInv, NEW v \in 0..(Half - 1), NEW p \in 0..(Half - 1),
           bind(v, p), reg = "yes", UNCHANGED <<reg, bus>>
    PROVE  UInv'
<1>1. job' = Idle
  BY DEF bind, Return
<1>2. CASE UNCHANGED <<ctrl, usbVars>>
  BY <1>1, <1>2, QuietKeepsUInv DEF usbVars, UInv, UsbShape
<1>3. CASE refs' = libusb_init(refs) /\ UNCHANGED <<ctrl, open, of>>
  BY <1>1, <1>3
  DEF libusb_init, UInv, CtrlShape, UsbShape, HandleOwned, ContextAlive
<1>4. CASE /\ ctrl.bind = 0
           /\ <<v, p>> \in bus
           /\ refs' = BindContext(refs)
           /\ of' = Append(of, <<v, p>>)
           /\ open' = open \cup {Len(of')}
           /\ ctrl' = [bind |-> 1, handle |-> Len(of'), vid |-> v, pid |-> p]
  <2>1. of' \in Seq(Devices) /\ Len(of') \in Nat /\ of'[Len(of')] = <<v, p>>
    BY <1>4 DEF UInv, UsbShape
  <2>2. open' = {Len(of')}
    BY <1>4 DEF UInv, HandleOwned
  <2>3. refs' \in Nat /\ refs' > 0
    BY <1>4 DEF BindContext, libusb_init, UInv, UsbShape
  <2>4. CtrlShape' /\ UsbShape'
    BY <1>4, <2>1, <2>3 DEF CtrlShape, UsbShape, UInv
  <2>5. HandleOwned'
    BY <1>1, <1>4, <2>1, <2>2 DEF HandleOwned
  <2> QED
    BY <2>2, <2>3, <2>4, <2>5 DEF UInv, ContextAlive
<1>5. ctrl.bind \in {0, 1}
  BY DEF UInv, CtrlShape
<1> QED
  BY <1>2, <1>3, <1>4, <1>5 DEF bind, usbVars

\* list and test hand the context back at most once for each time they take it.
LEMMA SurveyKeepsUInv ==
    ASSUME UInv, usb_handle_cmd_list \/ usb_handle_cmd_test
    PROVE  UInv'
<1>1. UNCHANGED <<ctrlVars, open, of, devVars>> /\ job' = Idle
  BY DEF usb_handle_cmd_list, usb_handle_cmd_test, Return
<1>2. refs' \in Nat /\ refs' >= refs
  <2>1. \A outcome \in {"init_fails", "list_fails", "desc_fails", "ok"} :
          Survey(refs, outcome) \in Nat /\ Survey(refs, outcome) >= refs
    BY DEF Survey, libusb_init, libusb_exit, UInv, UsbShape
  <2>2. refs \in Nat
    BY DEF UInv, UsbShape
  <2> QED
    BY <2>1, <2>2 DEF usb_handle_cmd_list, usb_handle_cmd_test
<1> QED
  BY <1>1, <1>2
  DEF ctrlVars, devVars, UInv, CtrlShape, UsbShape, HandleOwned, ContextAlive

\* Every step preserves the invariant.
LEMMA StepUInv == UInv /\ [Next]_vars => UInv'
<1> SUFFICES ASSUME UInv, [Next]_vars PROVE UInv'
  OBVIOUS
<1>0. bus \subseteq Devices /\ (job # Idle => ctrl.bind = 1 /\ reg = "yes")
  BY DEF UInv, UsbShape, HandleOwned
<1>1. CASE UNCHANGED vars
  BY <1>0, <1>1, QuietKeepsUInv DEF vars
<1>2. CASE usb_cmd_register
  <2>1. ctrl.bind = 0 /\ open = {} /\ job = Idle
    BY <1>2, <1>0 DEF usb_cmd_register, UInv, HandleOwned
  <2> QED
    BY <1>2, <2>1, HalfPositive
    DEF usb_cmd_register, usbVars, devVars, UInv, CtrlShape, UsbShape, HandleOwned,
        ContextAlive, NULL
<1>3. CASE usb_cmd_unregister
  <2>1. DefVid \in 0..(Half - 1) /\ DefPid \in 0..(Half - 1)
    BY DefaultAssumption, HalfPositive
  <2> QED
    BY <1>3, <2>1, UnbindKeepsUInv DEF usb_cmd_unregister, Leave, devVars
<1>4. CASE usb_handle_cmd_list \/ usb_handle_cmd_test
  BY <1>4, SurveyKeepsUInv
<1>5. CASE usb_handle_cmd_bind
  <2>1. PICK vid \in Vids \cup {Missing}, pid \in Pids \cup {Missing} :
          /\ \/ /\ Type([cmd |-> "bind", vid |-> Given(vid, DefVid),
                         pid |-> Given(pid, DefPid)])
                /\ bind(Given(vid, DefVid), Given(pid, DefPid))
             \/ /\ Type([cmd |-> "unbind"])
                /\ unbind(Given(vid, DefVid), Given(pid, DefPid))
                /\ Return(0)
          /\ UNCHANGED <<reg, devVars>>
    BY <1>5 DEF usb_handle_cmd_bind
  <2>2. Given(vid, DefVid) \in 0..(Half - 1) /\ Given(pid, DefPid) \in 0..(Half - 1)
    BY GivenFits, TypedAssumption, DefaultAssumption
  <2>3. CASE bind(Given(vid, DefVid), Given(pid, DefPid)) /\ reg = "yes"
    BY <2>1, <2>2, <2>3, BindKeepsUInv DEF devVars
  <2>4. CASE unbind(Given(vid, DefVid), Given(pid, DefPid)) /\ Return(0) /\ reg = "yes"
    BY <2>1, <2>2, <2>4, UnbindKeepsUInv DEF devVars, Return
  <2> QED
    BY <2>1, <2>3, <2>4 DEF Type
<1>6. CASE usb_handle_cmd_rw
  <2>1. UNCHANGED <<ctrlVars, usbVars, devVars>> /\ reg = "yes"
    BY <1>6 DEF usb_handle_cmd_rw, Type
  <2>2. ctrl.bind = 0 => job' = Idle
    BY <1>6 DEF usb_handle_cmd_rw, Return
  <2> QED
    BY <1>0, <2>1, <2>2, QuietKeepsUInv DEF ctrlVars, usbVars, devVars, UInv, CtrlShape
<1>7. CASE usb_handle_cmd_fm
  <2>1. UNCHANGED <<ctrlVars, usbVars, devVars>> /\ reg = "yes"
    BY <1>7 DEF usb_handle_cmd_fm, Type
  <2>2. ctrl.bind = 0 => job' = Idle
    BY <1>7 DEF usb_handle_cmd_fm, Return
  <2> QED
    BY <1>0, <2>1, <2>2, QuietKeepsUInv DEF ctrlVars, usbVars, devVars, UInv, CtrlShape
<1>8. CASE Transfer
  <2>1. UNCHANGED <<ctrlVars, usbVars, bus>> /\ job # Idle
    BY <1>8 DEF Transfer
  <2> QED
    BY <1>0, <2>1, QuietKeepsUInv DEF ctrlVars, usbVars
<1>9. CASE Plug \/ Unplug
  <2>1. UNCHANGED <<ctrlVars, usbVars, job>> /\ bus' \subseteq Devices
    BY <1>0, <1>9 DEF Plug, Unplug
  <2> QED
    BY <1>0, <2>1, QuietKeepsUInv DEF ctrlVars, usbVars
<1> QED
  BY <1>1, <1>2, <1>3, <1>4, <1>5, <1>6, <1>7, <1>8, <1>9 DEF Next

\* Whatever is typed and whatever the bus does, the only open handle is the one in
\* usbctrl, on the device usbctrl names, and transfers happen only while it is bound.
THEOREM HandleIsOwned == Spec => []HandleOwned
<1>1. UInv => HandleOwned
  BY DEF UInv
<1> QED
  BY <1>1, InitUInv, StepUInv, PTL DEF Spec

\* No list or test, complete or aborted, takes the context from under the handle.
THEOREM ContextStaysAlive == Spec => []ContextAlive
<1>1. UInv => ContextAlive
  BY DEF UInv
<1> QED
  BY <1>1, InitUInv, StepUInv, PTL DEF Spec

\* usb_cmd_unregister leaves no handle open, whatever was bound before.
THEOREM UnregisterLeavesNothing == Spec => []UnregisterCloses
<1>1. UInv => UnregisterCloses
  BY DEF UInv, HandleOwned, UnregisterCloses
<1> QED
  BY <1>1, InitUInv, StepUInv, PTL DEF Spec

-----------------------------------------------------------------------------
(***************************************************************************)
(* The arithmetic of addresses and bytes.                                  *)
(***************************************************************************)
\* Division with remainder.
LEMMA Division ==
    ASSUME NEW a \in Nat, NEW m \in Nat \ {0}
    PROVE  /\ a \div m \in Nat
           /\ a % m \in 0..(m - 1)
           /\ a = m * (a \div m) + (a % m)
  BY SMT

\* The quotient and the remainder are the only ones.
LEMMA Quotient ==
    ASSUME NEW m \in Nat \ {0}, NEW q \in Nat, NEW r \in 0..(m - 1), NEW a \in Nat,
           a = m * q + r
    PROVE  a \div m = q /\ a % m = r
<1>1. /\ a \div m \in Nat
      /\ a % m \in 0..(m - 1)
      /\ a = m * (a \div m) + (a % m)
  BY Division
<1>2. \A x \in Nat, y \in Nat : x > y => m * x >= m * y + m
  <2>1. ASSUME NEW x \in Nat, NEW y \in Nat, x > y
        PROVE  m * x >= m * y + m
    <3>1. PICK k \in Nat : x = y + 1 + k
      <4>1. x - y - 1 \in Nat /\ x = y + 1 + (x - y - 1)
        BY <2>1
      <4> QED
        BY <4>1
    <3>2. m * x = m * y + m + m * k
      BY <3>1
    <3>3. m * k \in Nat /\ m * y \in Nat
      BY SMT
    <3> QED
      BY <3>2, <3>3
  <2> QED
    BY <2>1
<1>3. m * q \in Nat /\ m * (a \div m) \in Nat
  BY <1>1
<1>4. ~(q > a \div m)
  BY <1>1, <1>2, <1>3
<1>5. ~(a \div m > q)
  BY <1>1, <1>2, <1>3
<1> QED
  BY <1>1, <1>4, <1>5, <1>3

\* Dividing twice divides by the product.
LEMMA DivideTwice ==
    ASSUME NEW a \in Nat, NEW m \in Nat \ {0}, NEW k \in Nat \ {0}
    PROVE  (a \div m) \div k = a \div (m * k)
<1> DEFINE q == (a \div m) \div k
           s == (a \div m) % k
           r == a % m
<1>1. a \div m \in Nat /\ r \in 0..(m - 1) /\ a = m * (a \div m) + r
  BY Division
<1>2. q \in Nat /\ s \in 0..(k - 1) /\ a \div m = k * q + s
  BY <1>1, Division
<1>3. m * k \in Nat \ {0}
  BY SMT
<1> HIDE DEF q, s, r
<1>4. a = (m * k) * q + (m * s + r)
  <2>1. a = m * (k * q + s) + r
    BY <1>1, <1>2
  <2>2. m * (k * q + s) = m * (k * q) + m * s
    BY <1>2
  <2>3. m * (k * q) = (m * k) * q
    BY <1>2
  <2> QED
    BY <2>1, <2>2, <2>3, <1>1, <1>2
<1>5. m * s + r \in 0..(m * k - 1)
  <2>1. PICK t \in Nat : k = s + 1 + t
    <3>1. k - s - 1 \in Nat /\ k = s + 1 + (k - s - 1)
      BY <1>2
    <3> QED
      BY <3>1
  <2>2. m * k = m * s + m + m * t
    BY <2>1, <1>2
  <2>3. m * t \in Nat /\ m * s \in Nat
    BY <1>2, <2>1
  <2> QED
    BY <1>1, <2>2, <2>3
<1>6. a \div (m * k) = q
  BY <1>2, <1>3, <1>4, <1>5, Quotient
<1> QED
  BY <1>6 DEF q

\* The widths: a word is two halves, a half is two bytes.
LEMMA Widths ==
    /\ Byte \in Nat \ {0} /\ Byte > 3
    /\ Half \in Nat \ {0} /\ Half > 15
    /\ Half * Byte \in Nat \ {0}
    /\ Word \in Nat \ {0} /\ Word = (Half * Byte) * Byte
<1>1. Byte \in Nat /\ Byte > 3
  BY ByteAssumption
<1>2. Half \in Nat /\ Half > 15
  BY <1>1 DEF Half
<1>3. Half * Byte \in Nat /\ Half * Byte > 0
  BY <1>1, <1>2
<1>4. Word \in Nat /\ Word > 0
  BY <1>2 DEF Word
<1>5. Word = (Half * Byte) * Byte
  <2>1. Half * (Byte * Byte) = (Half * Byte) * Byte
    BY <1>1, <1>2
  <2> QED
    BY <2>1 DEF Word, Half
<1> QED
  BY <1>1, <1>2, <1>3, <1>4, <1>5

\* A quotient is below the other factor.
LEMMA QuotientBelow ==
    ASSUME NEW m \in Nat \ {0}, NEW k \in Nat \ {0}, NEW a \in 0..(m * k - 1)
    PROVE  a \div m \in 0..(k - 1)
<1>0. m * k \in Nat /\ a \in Nat
  BY SMT
<1>1. a \div m \in Nat /\ a % m \in 0..(m - 1) /\ a = m * (a \div m) + (a % m)
  BY <1>0, Division
<1>2. ASSUME a \div m >= k PROVE FALSE
  <2>1. PICK t \in Nat : a \div m = k + t
    <3>1. (a \div m) - k \in Nat /\ a \div m = k + ((a \div m) - k)
      BY <1>1, <1>2
    <3> QED
      BY <3>1
  <2>2. m * (a \div m) = m * k + m * t /\ m * t \in Nat
    BY <2>1
  <2> QED
    BY <2>2, <1>1, <1>0
<1> QED
  BY <1>1, <1>2

\* usb_raw_read and usb_raw_write cut an address in two halves that fit and that
\* make it again.
LEMMA Halves ==
    ASSUME NEW a \in 0..(Word - 1)
    PROVE  /\ a % Half \in 0..(Half - 1)
           /\ a \div Half \in 0..(Half - 1)
           /\ (a \div Half) * Half + (a % Half) = a
<1>1. a \in Nat /\ Half \in Nat \ {0} /\ Word = Half * Half
  BY Widths DEF Word
<1>2. a \div Half \in Nat /\ a % Half \in 0..(Half - 1) /\ a = Half * (a \div Half) + (a % Half)
  BY <1>1, Division
<1>3. a \div Half \in 0..(Half - 1)
  BY <1>1, QuotientBelow
<1>4. Half * (a \div Half) = (a \div Half) * Half
  BY <1>1, <1>2
<1> QED
  BY <1>2, <1>3, <1>4

\* An aligned address stays aligned past the wrap of the 32-bit arithmetic.
LEMMA WrapKeepsAlignment ==
    ASSUME NEW a \in Nat, a % 4 = 0
    PROVE  a % Word \in 0..(Word - 1) /\ (a % Word) % 4 = 0
<1>1. Word \in Nat \ {0} /\ Word % 4 = 0
  BY Widths, ByteAssumption
<1>2. /\ a \div Word \in Nat /\ a % Word \in 0..(Word - 1)
      /\ a = Word * (a \div Word) + (a % Word)
  BY <1>1, Division
<1>3. PICK k \in Nat : Word = 4 * k
  <2>1. Word \div 4 \in Nat /\ Word = 4 * (Word \div 4)
    BY <1>1
  <2> QED
    BY <2>1
<1>4. k * (a \div Word) \in Nat /\ Word * (a \div Word) = 4 * (k * (a \div Word))
  <2>1. \A x \in Nat : k * x \in Nat /\ (4 * k) * x = 4 * (k * x)
    BY SMT
  <2> QED
    BY <1>2, <1>3, <2>1
<1>5. (a % Word) % 4 = 0
  BY <1>2, <1>4
<1> QED
  BY <1>2, <1>5

\* The bytes of a number of 16 bits make its low half, those of a number of 32 bits
\* make the number.
LEMMA BytesJoin ==
    ASSUME NEW v \in 0..(Word - 1)
    PROVE  /\ Bytes(v, 2) \in [1..2 -> 0..(Byte - 1)] /\ Joined(Bytes(v, 2)) = v % Half
           /\ Bytes(v, 4) \in [1..4 -> 0..(Byte - 1)] /\ Joined(Bytes(v, 4)) = v
<1> DEFINE q1 == v \div Byte
           q2 == v \div Half
           q3 == v \div (Half * Byte)
<1>0. v \in Nat
  BY Widths
<1>1. /\ q1 \in Nat /\ v % Byte \in 0..(Byte - 1) /\ v = Byte * q1 + (v % Byte)
  BY <1>0, Widths, Division
<1>2. q1 \div Byte = q2
  BY <1>0, Widths, DivideTwice DEF Half
<1>3. q2 \div Byte = q3
  BY <1>0, Widths, DivideTwice
<1>4. /\ q2 \in Nat /\ q1 % Byte \in 0..(Byte - 1) /\ q1 = Byte * q2 + (q1 % Byte)
  BY <1>1, <1>2, Widths, Division
<1>5. /\ q3 \in Nat /\ q2 % Byte \in 0..(Byte - 1) /\ q2 = Byte * q3 + (q2 % Byte)
  BY <1>3, <1>4, Widths, Division
<1>6. q3 \in 0..(Byte - 1)
  <2>1. v \in 0..((Half * Byte) * Byte - 1)
    BY Widths
  <2> QED
    BY <2>1, Widths, QuotientBelow
<1> DEFINE r0 == v % Byte
           r1 == q1 % Byte
           r2 == q2 % Byte
<1>7. q3 % Byte = q3
  BY <1>6, Widths
<1>8. /\ Bytes(v, 2) = [i \in 1..2 |-> IF i = 1 THEN r0 ELSE r1]
      /\ Bytes(v, 4) = [i \in 1..4 |-> IF i = 1 THEN r0 ELSE IF i = 2 THEN r1
                                       ELSE IF i = 3 THEN r2 ELSE q3]
  BY <1>7 DEF Bytes
<1> HIDE DEF q1, q2, q3, r0, r1, r2
<1>9. /\ r0 \in 0..(Byte - 1) /\ r1 \in 0..(Byte - 1) /\ r2 \in 0..(Byte - 1)
      /\ q3 \in 0..(Byte - 1)
      /\ v = Byte * q1 + r0 /\ q1 = Byte * q2 + r1 /\ q2 = Byte * q3 + r2
      /\ q1 \in Nat /\ q2 \in Nat /\ q3 \in Nat
  BY <1>1, <1>4, <1>5, <1>6 DEF r0, r1, r2
<1>10. v = Half * q2 + (r0 + r1 * Byte)
  <2>1. v = Byte * (Byte * q2 + r1) + r0
    BY <1>9
  <2>2. Byte * (Byte * q2 + r1) = Half * q2 + r1 * Byte
    BY <1>9, Widths DEF Half
  <2>3. r1 * Byte \in Nat /\ Half * q2 \in Nat
    BY <1>9, Widths
  <2> QED
    BY <2>1, <2>2, <2>3, <1>9
<1>11. r0 + r1 * Byte \in 0..(Half - 1)
  <2>1. PICK t \in Nat : Byte = r1 + 1 + t
    <3>1. Byte - r1 - 1 \in Nat /\ Byte = r1 + 1 + (Byte - r1 - 1)
      BY <1>9, Widths
    <3> QED
      BY <3>1
  <2>2. Half = r1 * Byte + Byte + t * Byte
    BY <2>1, <1>9, Widths DEF Half
  <2>3. t * Byte \in Nat /\ r1 * Byte \in Nat
    BY <1>9, <2>1, Widths
  <2> QED
    BY <1>9, <2>2, <2>3, Widths
<1>12. v % Half = r0 + r1 * Byte
  <2>1. ASSUME NEW s \in 0..(Half - 1), v = Half * q2 + s
        PROVE  v % Half = s
    <3>1. q2 \in Nat /\ Half \in Nat \ {0}
      BY <1>9, Widths
    <3> QED
      BY <1>0, <2>1, <3>1, Quotient
  <2> QED
    BY <1>10, <1>11, <2>1
<1>13. v = r0 + r1 * Byte + r2 * Half + q3 * (Half * Byte)
  <2>1. Half * (Byte * q3 + r2) = r2 * Half + q3 * (Half * Byte)
    BY <1>9, Widths
  <2>2. r1 * Byte \in Nat /\ r2 * Half \in Nat /\ q3 * (Half * Byte) \in Nat
    BY <1>9, Widths
  <2> QED
    BY <1>9, <1>10, <2>1, <2>2
<1>14. Bytes(v, 2) \in [1..2 -> 0..(Byte - 1)] /\ Bytes(v, 4) \in [1..4 -> 0..(Byte - 1)]
  BY <1>8, <1>9
<1>15. Len(Bytes(v, 2)) = 2 /\ Len(Bytes(v, 4)) = 4
  BY <1>8
<1>16. Joined(Bytes(v, 2)) = r0 + r1 * Byte
  BY <1>8, <1>15 DEF Joined
<1>17. Joined(Bytes(v, 4)) = r0 + r1 * Byte + r2 * Half + q3 * (Half * Byte)
  BY <1>8, <1>15 DEF Joined
<1> QED
  BY <1>12, <1>13, <1>14, <1>16, <1>17

-----------------------------------------------------------------------------
(***************************************************************************)
(* The invariant of the data: what the job still has to send and what it   *)
(* has sent are both read off the line that was typed, and the memory of   *)
(* the bound device holds what the user was told.                          *)
(***************************************************************************)
Outcomes == {"full", "short", "fail"}
Cells == [1..2 -> 0..(Byte - 1)] \cup [1..4 -> 0..(Byte - 1)]
Sent == [p : Packets, outcome : Outcomes, d : Nat \cup {Unsure}]

\* What the checks of the commands let through.
Legal(p) ==
    /\ p \in Packets
    /\ p.bRequest \in Wide => Cell(p)[2] % 4 = 0
    /\ p.bRequest \in Narrow /\ IsWrite(p) => Cell(p)[2] < AnaMax
    /\ IsMemory(p) => p.wLength \in {2, 4}
    /\ IsMemory(p) /\ IsWrite(p) => p.data \in Cells
    /\ p.bRequest = "FM_SET" => p.wValue \in Codes

\* The i-th transfer of a read.
ReadAt(i) == Setup(line.mod, (line.addr + (i - 1) * Inc(line.mod)) % Word, Len8(line.mod), <<>>)

LineShape ==
    line.cmd \in {"read", "write"} =>
        /\ line.mod \in rw_sub_cmds \cup {"none", "bad"}
        /\ line.addr \in 0..(Word - 1)
        /\ line.v \in 0..(Word - 1)
Books ==
    /\ dead \subseteq 1..Len(of)
    /\ ctrl.bind = 1 => ctrl.handle \in 1..Len(of)
    /\ fm \in [Devices -> [Codes -> 0..(Half - 1)]]
    /\ mem = [d \in Devices |-> mem[d]]
    /\ \A d \in Devices : \A c \in DOMAIN mem[d] : mem[d][c] \in Cells
    /\ ret \in Int /\ n \in 0..MaxCmds
Requests ==
    /\ sent \in Seq(Sent)
    /\ \A i \in 1..Len(sent) : Legal(sent[i].p)
    /\ job # Idle =>
        /\ job.cmd = line.cmd
        /\ \A j \in 1..Len(job.todo) : Legal(job.todo[j])
Failures == {i \in 1..Len(sent) : sent[i].outcome # "full"}
Reading ==
    line.cmd = "read" =>
        /\ \A i \in 1..Len(sent) : sent[i].p = ReadAt(i)
        /\ job # Idle =>
            /\ line.mod \in Narrow \cup Wide
            /\ Len(sent) + Len(job.todo) = Times(line.mod, line.v)
            /\ \A j \in 1..Len(job.todo) : job.todo[j] = ReadAt(Len(sent) + j)
            /\ job.err = Cardinality(Failures)
        /\ job = Idle /\ ret >= 0 =>
            /\ line.mod \in rw_sub_cmds
            /\ Len(sent) = Times(line.mod, line.v)
            /\ ret = Cardinality(Failures)
Writing ==
    job # Idle =>
        /\ line.cmd = "write" => job.todo = <<Write(line.mod, line.addr, line.v)>>
        /\ line.cmd # "write" => \A j \in 1..Len(job.todo) : ~IsWrite(job.todo[j])
Quiet == (job = Idle /\ ret < 0 /\ ~(line.cmd = "fm" /\ line.sub = "test")) => sent = <<>>
Alive == ctrl.bind = 1 /\ ctrl.handle \notin dead
Told ==
    Alive =>
        /\ of[ctrl.handle] \in bus
        /\ \A c \in DOMAIN told :
            \/ told[c] = Unsure
            \/ /\ c \in DOMAIN mem[of[ctrl.handle]]
               /\ Joined(mem[of[ctrl.handle]][c]) = told[c]
Talk == JobType /\ LineShape /\ Requests /\ Reading /\ Writing /\ Quiet /\ ReadsBack
DInv == Talk /\ Books /\ Told

\* The i-th transfer of a read asks for its own cell.
LEMMA ReadCell ==
    ASSUME NEW mod \in rw_sub_cmds, NEW addr \in Nat, NEW i \in Nat \ {0}
    PROVE  LET a == (addr + (i - 1) * Inc(mod)) % Word
               p == Setup(mod, a, Len8(mod), <<>>)
           IN  /\ p \in Packets /\ p.bRequest = mod /\ p.wLength \in {2, 4}
               /\ ~IsWrite(p) /\ Cell(p) = <<mod, a>>
<1> DEFINE sum == addr + (i - 1) * Inc(mod)
           a == sum % Word
           p == Setup(mod, a, Len8(mod), <<>>)
<1>1. sum \in Nat
  <2>1. i - 1 \in Nat /\ Inc(mod) \in {1, 4}
    BY DEF Inc
  <2>2. (i - 1) * 1 \in Nat /\ (i - 1) * 4 \in Nat
    BY <2>1
  <2> QED
    BY <2>1, <2>2
<1> HIDE DEF sum
<1>2. a \in 0..(Word - 1)
  BY <1>1, Widths, Division
<1> HIDE DEF a
<1>3. /\ a % Half \in 0..(Half - 1) /\ a \div Half \in 0..(Half - 1)
      /\ (a \div Half) * Half + (a % Half) = a
  BY <1>2, Halves
<1>4. Cell(p) = <<mod, a>>
  BY <1>3 DEF Cell, Setup
<1>5. p.bRequest = mod /\ p.wLength \in {2, 4} /\ p.data = <<>>
  BY DEF Setup, Len8
<1>6. p \in Packets
  <2>1. <<>> \in Seq(0..(Byte - 1))
    OBVIOUS
  <2> QED
    BY <1>3, <2>1 DEF Packets, Setup, Len8
<1>7. ~IsWrite(p)
  BY <1>5 DEF IsWrite
<1> QED
  BY <1>4, <1>5, <1>6, <1>7 DEF a, sum

\* The transfers of a read that passed its check are legal, whatever the count: the
\* check of the first address holds for the cells behind it, past a wrap too.
LEMMA ReadLegal ==
    ASSUME NEW mod \in Narrow \cup Wide, NEW addr \in 0..(Word - 1), ~Refused(mod, addr),
           NEW i \in Nat \ {0}
    PROVE  LET p == Setup(mod, (addr + (i - 1) * Inc(mod)) % Word, Len8(mod), <<>>)
           IN  Legal(p) /\ ~IsWrite(p)
<1> DEFINE sum == addr + (i - 1) * Inc(mod)
           a == sum % Word
           p == Setup(mod, a, Len8(mod), <<>>)
<1>1. mod \in Wide => a % 4 = 0
  <2>1. addr \in Nat /\ i - 1 \in Nat
    BY Widths
  <2>2. mod \in Wide => addr % 4 = 0 /\ Inc(mod) = 4
    BY DEF Refused, Inc, Wide, Narrow
  <2>3. addr % 4 = 0 => (addr + (i - 1) * 4) % 4 = 0 /\ addr + (i - 1) * 4 \in Nat
    BY <2>1
  <2> QED
    BY <2>2, <2>3, WrapKeepsAlignment
<1>2. mod \in rw_sub_cmds /\ addr \in Nat
  BY Widths DEF rw_sub_cmds
<1>3. /\ p \in Packets /\ p.bRequest = mod /\ p.wLength \in {2, 4}
      /\ ~IsWrite(p) /\ Cell(p) = <<mod, a>>
  BY <1>2, ReadCell
<1>4. mod # "FM_SET"
  BY DEF Narrow, Wide
<1> HIDE DEF p, a
<1>5. Legal(p)
  BY <1>1, <1>3, <1>4 DEF Legal
<1> QED
  BY <1>3, <1>5 DEF p, a

\* A function on an interval from 1 is a sequence.
LEMMA FunctionIsSequence ==
    ASSUME NEW S, NEW k \in Nat, NEW f \in [1..k -> S]
    PROVE  f \in Seq(S) /\ Len(f) = k
<1>1. f \in Seq(S)
  BY SeqDef
<1> QED
  BY <1>1, LenProperties

\* A write goes to the cell that was typed and carries the value that was typed, cut
\* to the width of the cell.
LEMMA WriteCarries ==
    ASSUME NEW mod \in rw_sub_cmds, NEW addr \in 0..(Word - 1), NEW v \in 0..(Word - 1)
    PROVE  LET p == Write(mod, addr, v)
           IN  /\ p \in Packets /\ p.bRequest = mod /\ p.wLength \in {2, 4}
               /\ p.data \in Cells /\ IsWrite(p) /\ Cell(p) = <<mod, addr>>
               /\ mod \notin Control =>
                    Joined(p.data) = IF mod \in Narrow THEN v % Half ELSE v
<1> DEFINE w == IF mod \in Control THEN 0 ELSE v
           p == Write(mod, addr, v)
<1>1. w \in 0..(Word - 1)
  BY Widths
<1>2. /\ addr % Half \in 0..(Half - 1) /\ addr \div Half \in 0..(Half - 1)
      /\ (addr \div Half) * Half + (addr % Half) = addr
  BY Halves
<1>3. /\ p.bRequest = mod /\ p.wLength = Len8(mod) /\ p.data = Bytes(w, Len8(mod))
      /\ p.wValue = addr % Half /\ p.wIndex = addr \div Half
      /\ p = [bRequest |-> mod, wValue |-> addr % Half, wIndex |-> addr \div Half,
              wLength |-> Len8(mod), data |-> Bytes(w, Len8(mod))]
  BY DEF Write, Setup
<1> HIDE DEF w
<1>4. /\ Len8(mod) \in {2, 4}
      /\ (mod \in Narrow => Len8(mod) = 2) /\ (mod \notin Narrow => Len8(mod) = 4)
  BY DEF Len8
<1>5. /\ Bytes(w, 2) \in [1..2 -> 0..(Byte - 1)] /\ Joined(Bytes(w, 2)) = w % Half
      /\ Bytes(w, 4) \in [1..4 -> 0..(Byte - 1)] /\ Joined(Bytes(w, 4)) = w
  BY <1>1, BytesJoin
<1>6. p.data \in Cells /\ Joined(p.data) = IF mod \in Narrow THEN w % Half ELSE w
  BY <1>3, <1>4, <1>5 DEF Cells
<1>7. /\ Bytes(w, Len8(mod)) \in Seq(0..(Byte - 1))
      /\ Len(Bytes(w, Len8(mod))) = Len8(mod)
  <2>1. CASE Len8(mod) = 2
    BY <1>5, <2>1, FunctionIsSequence
  <2>2. CASE Len8(mod) = 4
    BY <1>5, <2>2, FunctionIsSequence
  <2> QED
    BY <1>4, <2>1, <2>2
<1>8. IsWrite(p)
  BY <1>3, <1>4, <1>7 DEF IsWrite
<1>9. p \in Packets
  BY <1>2, <1>3, <1>4, <1>7 DEF Packets
<1>10. Cell(p) = <<mod, addr>>
  BY <1>2, <1>3 DEF Cell
<1>11. mod \notin Control => w = v
  BY DEF w
<1> QED
  BY <1>3, <1>4, <1>6, <1>8, <1>9, <1>10, <1>11

\* A write that passed its check is legal.
LEMMA WriteLegal ==
    ASSUME NEW mod \in rw_sub_cmds, NEW addr \in 0..(Word - 1), NEW v \in 0..(Word - 1),
           ~Refused(mod, addr)
    PROVE  Legal(Write(mod, addr, v))
<1> DEFINE p == Write(mod, addr, v)
<1>1. /\ p \in Packets /\ p.bRequest = mod /\ p.wLength \in {2, 4}
      /\ p.data \in Cells /\ Cell(p) = <<mod, addr>>
  BY WriteCarries
<1>2. mod \in Wide => addr % 4 = 0
  BY DEF Refused
<1>3. mod \in Narrow => addr < AnaMax
  BY AnaMaxAssumption, Widths DEF Refused
<1>4. mod # "FM_SET"
  BY DEF Narrow, Wide, Control, rw_sub_cmds
<1> HIDE DEF p
<1>5. Legal(p)
  BY <1>1, <1>2, <1>3, <1>4 DEF Legal
<1> QED
  BY <1>5 DEF p

\* Every transfer of an fm sub-command is legal: the codes and the arguments fit.
LEMMA FmLegal ==
    ASSUME NEW sub \in fm_sub_cmds, NEW arg \in 0..(Half - 1) \cup {Missing}
    PROVE  LET todo == FmTransfers(sub, arg)
           IN  /\ todo \in Seq(Packets) \ {<<>>}
               /\ \A j \in 1..Len(todo) : Legal(todo[j]) /\ ~IsWrite(todo[j])
<1> DEFINE Good(p) == p \in Packets /\ Legal(p) /\ ~IsWrite(p)
<1>1. ASSUME NEW prim \in {"FM_SET", "FM_GET"}, NEW code \in 0..13, NEW a \in 0..(Half - 1),
             NEW l \in {1, 2}, prim = "FM_SET" => code \in Codes
      PROVE  Good([bRequest |-> prim, wValue |-> code, wIndex |-> a,
                   wLength |-> l, data |-> <<>>])
  <2> DEFINE p == [bRequest |-> prim, wValue |-> code, wIndex |-> a,
                   wLength |-> l, data |-> <<>>]
  <2>1. code \in 0..(Half - 1)
    BY Widths
  <2>2. <<>> \in Seq(0..(Byte - 1))
    OBVIOUS
  <2>3. p \in Packets
    BY <2>1, <2>2 DEF Packets
  <2>4. prim \notin Narrow /\ prim \notin Wide
    BY DEF Narrow, Wide
  <2> QED
    BY <1>1, <2>3, <2>4 DEF Legal, IsMemory, IsWrite
<1> HIDE DEF Good
<1>2. ASSUME NEW prim \in {"FM_SET", "FM_GET"}, NEW code \in 0..13, NEW a \in 0..(Half - 1),
             prim = "FM_SET" => code \in Codes
      PROVE  Good(FmSetup(prim, code, a)) /\ Good([FmSetup(prim, code, a) EXCEPT !.wLength = 2])
  <2> DEFINE R(l) == [bRequest |-> prim, wValue |-> code, wIndex |-> a,
                      wLength |-> l, data |-> <<>>]
  <2>1. Good(R(1)) /\ Good(R(2))
    BY <1>1, <1>2
  <2>2. FmSetup(prim, code, a) \in {R(1), R(2)}
    BY DEF FmSetup
  <2>3. [FmSetup(prim, code, a) EXCEPT !.wLength = 2] = R(2)
    BY DEF FmSetup
  <2> HIDE DEF R
  <2> QED
    BY <2>1, <2>2, <2>3
<1>3. /\ \A code \in 0..12, a \in 0..(Half - 1) :
            /\ Good(FmSetup("FM_SET", code, a))
            /\ Good([FmSetup("FM_SET", code, a) EXCEPT !.wLength = 2])
      /\ \A code \in 0..13, a \in 0..(Half - 1) : Good(FmSetup("FM_GET", code, a))
  <2>1. \A code \in 0..12 : code \in Codes /\ code \in 0..13
    BY DEF Codes, SET_MAX_QTY
  <2>2. "FM_SET" \in {"FM_SET", "FM_GET"} /\ "FM_GET" \in {"FM_SET", "FM_GET"}
    OBVIOUS
  <2>3. "FM_SET" # "FM_GET"
    OBVIOUS
  <2> QED
    BY <1>2, <2>1, <2>2, <2>3, Zenon
<1>4. \A a \in 0..1 : Good(usb_fm_cmd_power(a))
  <2>1. SET_POWER \in 0..12 /\ \A a \in 0..1 : a \in 0..(Half - 1)
    BY Widths DEF SET_POWER
  <2> QED
    BY <1>3, <2>1, Zenon DEF usb_fm_cmd_power
<1>5. ASSUME NEW a \in 0..(Half - 1) \cup {Missing}
      PROVE  /\ Good(usb_fm_cmd_mute(a)) /\ Good(usb_fm_cmd_band(a))
             /\ Good(usb_fm_cmd_channel(a)) /\ Good(usb_fm_cmd_volume(a))
  <2>1. a # Missing => a \in 0..(Half - 1) /\ a % 4 \in 0..(Half - 1) /\ a % 16 \in 0..(Half - 1)
    BY Widths
  <2>2. 0 \in 0..(Half - 1)
    BY Widths
  <2>3. /\ GET_MUTE_STATE \in 0..12 /\ SET_MUTE \in 0..12
        /\ GET_BAND \in 0..12 /\ SET_BAND \in 0..12
        /\ GET_CUR_CHAN \in 0..13 /\ SET_TUNING_CHAN \in 0..12
        /\ GET_VOL \in 0..13 /\ SET_VOLUME \in 0..12
    BY DEF GET_MUTE_STATE, SET_MUTE, GET_BAND, SET_BAND, GET_CUR_CHAN, SET_TUNING_CHAN,
           GET_VOL, SET_VOLUME
  <2>4. CASE a = Missing
    BY <1>3, <2>2, <2>3, <2>4, Zenon
    DEF usb_fm_cmd_mute, usb_fm_cmd_band, usb_fm_cmd_channel, usb_fm_cmd_volume
  <2>5. CASE a # Missing
    BY <1>3, <2>1, <2>3, <2>5, Zenon
    DEF usb_fm_cmd_mute, usb_fm_cmd_band, usb_fm_cmd_channel, usb_fm_cmd_volume
  <2> QED
    BY <2>4, <2>5
<1>6. Good(usb_fm_cmd_get_device)
  <2>1. GET_FM_IC \in 0..13 /\ 0 \in 0..(Half - 1)
    BY Widths DEF GET_FM_IC
  <2> QED
    BY <1>3, <2>1, Zenon DEF usb_fm_cmd_get_device
<1>7. 0 \in 0..(Half - 1) /\ 8 \in 0..(Half - 1) /\ 9740 % Half \in 0..(Half - 1)
  BY Widths
<1>8. ASSUME NEW p, Good(p)
      PROVE  /\ <<p>> \in Seq(Packets) \ {<<>>}
             /\ \A j \in 1..Len(<<p>>) : Legal(<<p>>[j]) /\ ~IsWrite(<<p>>[j])
  BY <1>8 DEF Good
<1>9. CASE sub = "test"
  <2> DEFINE t2 == usb_fm_cmd_power(1)
             t3 == usb_fm_cmd_band(0)
             t4 == usb_fm_cmd_channel(9740 % Half)
             t5 == usb_fm_cmd_volume(8)
             t1 == usb_fm_cmd_get_device
             todo == <<t1, t2, t3, t4, t5>>
  <2>1. Good(t1) /\ Good(t2) /\ Good(t3) /\ Good(t4) /\ Good(t5)
    BY <1>4, <1>5, <1>6, <1>7
  <2>2. FmTransfers(sub, arg) = todo
    BY <1>9 DEF FmTransfers, usb_fm_cmd_test
  <2> HIDE DEF t1, t2, t3, t4, t5
  <2>3. todo \in Seq(Packets) /\ todo # <<>> /\ Len(todo) = 5
    BY <2>1 DEF Good
  <2>4. \A j \in 1..5 : Good(todo[j])
    BY <2>1
  <2> QED
    BY <2>2, <2>3, <2>4 DEF Good
<1>10. CASE sub # "test"
  <2>1. \E p : Good(p) /\ FmTransfers(sub, arg) = <<p>>
    BY <1>4, <1>5, <1>6, <1>10 DEF FmTransfers, fm_sub_cmds
  <2> QED
    BY <1>8, <2>1
<1> QED
  BY <1>9, <1>10

-----------------------------------------------------------------------------
(***************************************************************************)
(* The steps.                                                              *)
(***************************************************************************)
\* Nothing typed, nothing sent.
LEMMA InitDInv == Init => DInv
<1> SUFFICES ASSUME Init PROVE DInv
  OBVIOUS
<1>1. job = Idle /\ sent = <<>> /\ ret = 0 /\ line = [cmd |-> "none"] /\ told = <<>>
  BY DEF Init
<1>2. JobType /\ LineShape /\ Requests /\ Reading /\ Writing /\ Quiet /\ ReadsBack
  BY <1>1 DEF JobType, LineShape, Requests, Reading, Writing, Quiet, ReadsBack
<1>3. fm \in [Devices -> [Codes -> 0..(Half - 1)]]
  BY Widths DEF Init, Codes
<1>4. /\ mem = [d \in Devices |-> mem[d]]
      /\ \A d \in Devices : \A c \in DOMAIN mem[d] : mem[d][c] \in Cells
  BY DEF Init
<1>5. Books
  BY <1>1, <1>3, <1>4, MaxCmdsAssumption DEF Init, Books
<1>6. Told
  BY DEF Init, Told, Alive
<1> QED
  BY <1>2, <1>5, <1>6 DEF DInv, Talk

\* A step that is no part of a command leaves the talk as it is.
LEMMA SameTalk ==
    ASSUME Talk, UNCHANGED <<job, line, sent, ret, told>>
    PROVE  Talk'
<1>1. JobType' /\ LineShape' /\ Writing' /\ Quiet' /\ ReadsBack'
  BY DEF Talk, JobType, LineShape, Writing, Quiet, ReadsBack
<1>2. Requests'
  BY DEF Talk, Requests
<1>3. Reading'
  BY DEF Talk, Reading, Failures, ReadAt
<1> QED
  BY <1>1, <1>2, <1>3 DEF Talk

\* A command that returns at once has sent nothing.
LEMMA AnswerKeepsTalk ==
    ASSUME job' = Idle, sent' = <<>>, LineShape',
           line'.cmd = "read" /\ ret' >= 0 =>
               line'.mod \in rw_sub_cmds /\ Times(line'.mod, line'.v) = 0 /\ ret' = 0
    PROVE  Talk'
<1>1. JobType' /\ Writing' /\ Quiet' /\ ReadsBack' /\ Requests'
  BY DEF JobType, Writing, Quiet, ReadsBack, Requests
<1>2. Failures' = {}
  BY DEF Failures
<1>3. Cardinality(Failures') = 0
  BY <1>2, FS_EmptySet
<1>4. Reading'
  BY <1>3 DEF Reading
<1> QED
  BY <1>1, <1>4 DEF Talk

\* A command that starts a job has sent nothing yet, and its plan is made of legal
\* transfers.
LEMMA JobKeepsTalk ==
    ASSUME NEW todo \in Seq(Packets) \ {<<>>},
           job' = [cmd |-> line'.cmd, todo |-> todo, err |-> 0],
           line'.cmd \in {"read", "write", "fm"},
           sent' = <<>>, LineShape',
           \A j \in 1..Len(todo) : Legal(todo[j]),
           line'.cmd = "read" =>
               /\ line'.mod \in Narrow \cup Wide
               /\ Len(todo) = Times(line'.mod, line'.v)
               /\ \A j \in 1..Len(todo) : todo[j] = ReadAt(j)',
           line'.cmd = "write" => todo = <<Write(line'.mod, line'.addr, line'.v)>>,
           line'.cmd # "write" => \A j \in 1..Len(todo) : ~IsWrite(todo[j])
    PROVE  Talk'
<1>1. job' # Idle
  BY DEF Idle
<1>2. JobType' /\ Quiet' /\ ReadsBack'
  BY <1>1 DEF JobType, Quiet, ReadsBack
<1>3. Requests'
  BY DEF Requests
<1>4. Writing'
  BY DEF Writing
<1>5. Failures' = {}
  BY DEF Failures
<1>6. Cardinality(Failures') = 0
  BY <1>5, FS_EmptySet
<1>7. Reading'
  <2>1. Len(sent') = 0 /\ Len(todo) \in Nat
    OBVIOUS
  <2>2. \A j \in 1..Len(todo) : Len(sent') + j = j
    BY <2>1
  <2> QED
    BY <1>1, <1>6, <2>1, <2>2 DEF Reading
<1> QED
  BY <1>2, <1>3, <1>4, <1>7 DEF Talk

\* The books and the user's expectations are as good as before when handles, memory
\* and bus are left alone.
LEMMA SameBooks ==
    ASSUME Books, Told, UNCHANGED <<ctrl, of, dead, bus, mem, fm, told>>,
           ret' \in Int, n' \in 0..MaxCmds
    PROVE  Books' /\ Told'
<1>1. Books'
  BY DEF Books
<1>2. Told'
  BY DEF Told, Alive
<1> QED
  BY <1>1, <1>2

\* What typing a command changes.
LEMMA Typed ==
    ASSUME NEW l, Type(l), Books
    PROVE  line' = l /\ sent' = <<>> /\ n' \in 0..MaxCmds
  BY MaxCmdsAssumption DEF Type, Books

\* list and test send nothing.
LEMMA SurveyKeeps ==
    ASSUME DInv, usb_handle_cmd_list \/ usb_handle_cmd_test
    PROVE  DInv'
<1>1. PICK l : Type([cmd |-> l]) /\ l \in {"list", "list1", "test"}
  BY DEF usb_handle_cmd_list, usb_handle_cmd_test
<1>2. job' = Idle /\ ret' \in {0, -1} /\ UNCHANGED <<ctrlVars, of, devVars, told>>
  BY DEF usb_handle_cmd_list, usb_handle_cmd_test, Return
<1>3. line' = [cmd |-> l] /\ sent' = <<>> /\ n' \in 0..MaxCmds
  BY <1>1, Typed DEF DInv
<1>4. line'.cmd = l
  BY <1>3
<1>5. Talk'
  BY <1>1, <1>2, <1>3, <1>4, AnswerKeepsTalk DEF LineShape
<1>6. Books' /\ Told'
  BY <1>2, <1>3, SameBooks DEF DInv, ctrlVars, devVars
<1> QED
  BY <1>5, <1>6 DEF DInv

\* bind and unbind: the user of a newly bound device has been told nothing, and the
\* device is on the bus.
LEMMA BindKeeps ==
    ASSUME UInv, DInv, usb_handle_cmd_bind
    PROVE  DInv'
<1>1. PICK v, p :
        /\ \/ Type([cmd |-> "bind", vid |-> v, pid |-> p]) /\ bind(v, p)
           \/ Type([cmd |-> "unbind"]) /\ unbind(v, p) /\ Return(0)
        /\ UNCHANGED <<reg, devVars>>
  BY DEF usb_handle_cmd_bind
<1>2. /\ line'.cmd \in {"bind", "unbind"} /\ sent' = <<>> /\ n' \in 0..MaxCmds
  BY <1>1, Typed DEF DInv
<1>3. job' = Idle /\ ret' \in Int
  BY <1>1 DEF bind, Return
<1>4. Talk'
  BY <1>2, <1>3, AnswerKeepsTalk DEF LineShape
<1>5. CASE UNCHANGED <<ctrl, of, told>>
  BY <1>1, <1>2, <1>3, <1>4, <1>5, SameBooks DEF DInv, devVars
<1>6. CASE unbind(v, p) /\ ctrl.bind # 0
  <2>1. ctrl'.bind = 0 /\ of' = of
    BY <1>6 DEF unbind
  <2>2. Books'
    BY <1>1, <1>2, <1>3, <2>1 DEF Books, DInv, devVars
  <2>3. Told'
    BY <2>1 DEF Told, Alive
  <2> QED
    BY <1>4, <2>2, <2>3 DEF DInv
<1>7. CASE /\ <<v, p>> \in bus
           /\ of' = Append(of, <<v, p>>)
           /\ ctrl' = [bind |-> 1, handle |-> Len(of'), vid |-> v, pid |-> p]
           /\ told' = <<>>
  <2>1. of \in Seq(Devices) /\ bus \subseteq Devices
    BY DEF UInv, UsbShape
  <2>2. /\ Len(of') = Len(of) + 1 /\ of'[Len(of')] = <<v, p>> /\ Len(of) \in Nat
    BY <1>7, <2>1
  <2>3. ctrl'.handle \in 1..Len(of') /\ ctrl'.handle \notin dead /\ dead \subseteq 1..Len(of')
    BY <1>7, <2>2 DEF DInv, Books
  <2>4. Books'
    BY <1>1, <1>2, <1>3, <2>3 DEF Books, DInv, devVars
  <2>5. Told'
    BY <1>1, <1>7, <2>2 DEF Told, devVars
  <2> QED
    BY <1>4, <2>4, <2>5 DEF DInv
<1>8. CASE bind(v, p)
  BY <1>5, <1>7, <1>8 DEF bind, usbVars
<1>9. CASE unbind(v, p)
  BY <1>5, <1>6, <1>9 DEF unbind
<1> QED
  BY <1>1, <1>8, <1>9

\* read and write: a refused command sends nothing, an accepted one plans the
\* transfers that its line asks for.
LEMMA RwKeeps ==
    ASSUME DInv, usb_handle_cmd_rw
    PROVE  DInv'
<1>1. PICK cmd \in {"read", "write"}, mod \in rw_sub_cmds \cup {"none", "bad"},
           arg2 \in Addrs \cup {Missing}, arg3 \in Counts \cup Values \cup {Missing} :
        /\ arg3 \in (IF cmd = "read" THEN Counts ELSE Values) \cup {Missing}
        /\ mod = "none" => arg2 = Missing
        /\ arg2 = Missing => arg3 = Missing
        /\ LET addr == IF arg2 = Missing THEN 0 ELSE arg2 % Word
               v == IF arg3 = Missing THEN 1 ELSE arg3 % Word
           IN  /\ Type([cmd |-> cmd, mod |-> mod, addr |-> addr, v |-> v,
                        typed |-> arg3 # Missing])
               /\ IF ctrl.bind = 0 THEN Return(-1)
                  ELSE IF mod = "none" THEN Return(-2)
                  ELSE IF mod = "bad" THEN Return(-3)
                  ELSE IF NoData(cmd, mod, arg3) THEN Return(-4)
                  ELSE IF Refused(mod, addr) THEN Return(-3)
                  ELSE Start(cmd, IF cmd = "read" THEN Reads(mod, addr, v)
                                  ELSE <<Write(mod, addr, v)>>)
        /\ UNCHANGED <<ctrlVars, usbVars, devVars, told>>
  BY Zenon DEF usb_handle_cmd_rw
<1> DEFINE addr == IF arg2 = Missing THEN 0 ELSE arg2 % Word
           v == IF arg3 = Missing THEN 1 ELSE arg3 % Word
           todo == IF cmd = "read" THEN Reads(mod, addr, v) ELSE <<Write(mod, addr, v)>>
<1>2. addr \in 0..(Word - 1) /\ v \in 0..(Word - 1)
  <2>1. Word \in Nat /\ Word > 1
    <3>1. Half * Half \in Nat /\ Half * Half > 1
      BY Widths
    <3> QED
      BY <3>1 DEF Word
  <2>2. (arg2 # Missing => arg2 \in Nat) /\ (arg3 # Missing => arg3 \in Nat)
    BY TypedAssumption
  <2> QED
    BY <2>1, <2>2
<1>3. /\ Type([cmd |-> cmd, mod |-> mod, addr |-> addr, v |-> v, typed |-> arg3 # Missing])
      /\ \/ \E r \in {-1, -2, -3, -4} : Return(r)
         \/ /\ mod \in rw_sub_cmds /\ ~Refused(mod, addr)
            /\ Start(cmd, todo)
      /\ UNCHANGED <<ctrlVars, usbVars, devVars, told>>
  BY <1>1
<1> HIDE DEF addr, v
<1>4. /\ line'.cmd = cmd /\ line'.mod = mod /\ line'.addr = addr /\ line'.v = v
      /\ sent' = <<>> /\ n' \in 0..MaxCmds
  BY <1>3, Typed DEF DInv
<1>5. LineShape'
  BY <1>2, <1>4 DEF LineShape
<1>6. ret' \in Int
  BY <1>3 DEF Return, Start
<1>7. Books' /\ Told'
  BY <1>3, <1>4, <1>6, SameBooks DEF DInv, ctrlVars, usbVars, devVars
<1>8. CASE \E r \in {-1, -2, -3, -4} : Return(r)
  BY <1>4, <1>5, <1>7, <1>8, AnswerKeepsTalk DEF Return, DInv
<1>9. CASE mod \in rw_sub_cmds /\ ~Refused(mod, addr) /\ Start(cmd, todo) /\ cmd = "write"
  <2>1. todo = <<Write(mod, addr, v)>> /\ todo # <<>>
    BY <1>9
  <2>2. Legal(Write(mod, addr, v)) /\ Write(mod, addr, v) \in Packets
    BY <1>2, <1>9, WriteLegal DEF Legal
  <2>3. todo \in Seq(Packets) \ {<<>>} /\ \A j \in 1..Len(todo) : Legal(todo[j])
    <3>1. ASSUME NEW p \in Packets, Legal(p)
          PROVE  <<p>> \in Seq(Packets) \ {<<>>} /\ \A j \in 1..Len(<<p>>) : Legal(<<p>>[j])
      BY <3>1
    <3> QED
      BY <2>1, <2>2, <3>1
  <2>4. job' = [cmd |-> cmd, todo |-> todo, err |-> 0]
    BY <1>9, <2>1 DEF Start
  <2> HIDE DEF todo
  <2>5. Talk'
    BY <1>4, <1>5, <1>9, <2>1, <2>3, <2>4, JobKeepsTalk
  <2> QED
    BY <1>7, <2>5 DEF DInv
<1>10. CASE mod \in rw_sub_cmds /\ ~Refused(mod, addr) /\ Start(cmd, todo) /\ cmd = "read"
  <2> DEFINE T == Times(mod, v)
  <2>1. T \in Nat /\ (mod \in Control => T = 0)
    <3>1. (v * 4) % Word \in Nat
      BY <1>2, Widths
    <3>2. Len8(mod) \in {2, 4}
      BY DEF Len8
    <3> QED
      BY <3>1, <3>2 DEF Times
  <2>2. todo = [i \in 1..T |-> Setup(mod, (addr + (i - 1) * Inc(mod)) % Word, Len8(mod), <<>>)]
    BY <1>10 DEF Reads
  <2>3. ASSUME T = 0 PROVE Talk'
    <3>1. todo = <<>>
      BY <2>2, <2>3
    <3>2. job' = Idle /\ ret' = 0
      BY <1>10, <3>1 DEF Start
    <3> QED
      BY <1>4, <1>5, <1>10, <2>3, <3>2, AnswerKeepsTalk
  <2>4. ASSUME T # 0 PROVE Talk'
    <3>1. mod \in Narrow \cup Wide
      BY <2>1, <2>4, <1>10 DEF rw_sub_cmds
    <3>2. \A i \in 1..T : /\ todo[i] = ReadAt(i)'
                          /\ Legal(todo[i]) /\ ~IsWrite(todo[i]) /\ todo[i] \in Packets
      <4>1. ASSUME NEW i \in 1..T
            PROVE  /\ todo[i] = ReadAt(i)'
                   /\ Legal(todo[i]) /\ ~IsWrite(todo[i]) /\ todo[i] \in Packets
        <5>1. i \in Nat \ {0}
          BY <2>1
        <5>2. todo[i] = Setup(mod, (addr + (i - 1) * Inc(mod)) % Word, Len8(mod), <<>>)
          BY <2>2
        <5>3. Legal(todo[i]) /\ ~IsWrite(todo[i])
          BY <1>2, <1>10, <3>1, <5>1, <5>2, ReadLegal
        <5> QED
          BY <1>4, <5>2, <5>3 DEF ReadAt, Legal
      <4> QED
        BY <4>1
    <3>3. todo \in [1..T -> Packets]
      BY <2>2, <3>2
    <3>4. todo \in Seq(Packets) /\ Len(todo) = T
      BY <2>1, <3>3, FunctionIsSequence
    <3>5. todo # <<>>
      BY <2>4, <3>4
    <3>6. job' = [cmd |-> cmd, todo |-> todo, err |-> 0]
      BY <1>10, <3>5 DEF Start
    <3> HIDE DEF todo, T
    <3>7. Len(todo) = Times(line'.mod, line'.v)
      BY <1>4, <3>4 DEF T
    <3> QED
      BY <1>4, <1>5, <1>10, <3>1, <3>2, <3>4, <3>5, <3>6, <3>7, JobKeepsTalk
  <2> QED
    BY <1>7, <2>3, <2>4 DEF DInv
<1> QED
  BY <1>3, <1>8, <1>9, <1>10

\* fm plans one transfer, or the five of its test.
LEMMA FmKeeps ==
    ASSUME DInv, usb_handle_cmd_fm
    PROVE  DInv'
<1>1. PICK sub \in fm_sub_cmds \cup {"none", "bad"}, arg2 \in Values \cup {Missing} :
        LET arg == IF arg2 = Missing THEN Missing ELSE arg2 % Half
        IN  /\ Type([cmd |-> "fm", sub |-> sub, arg |-> arg])
            /\ IF ctrl.bind = 0 THEN Return(-1)
               ELSE IF sub = "none" THEN Return(-2)
               ELSE IF sub = "bad" THEN Return(-3)
               ELSE Start("fm", FmTransfers(sub, arg))
            /\ UNCHANGED <<ctrlVars, usbVars, devVars, told>>
  BY DEF usb_handle_cmd_fm
<1> DEFINE arg == IF arg2 = Missing THEN Missing ELSE arg2 % Half
           todo == FmTransfers(sub, arg)
<1>2. arg \in 0..(Half - 1) \cup {Missing}
  <2>1. arg2 # Missing => arg2 \in Nat
    BY TypedAssumption
  <2> QED
    BY <2>1, Widths
<1>3. /\ Type([cmd |-> "fm", sub |-> sub, arg |-> arg])
      /\ \/ \E r \in {-1, -2, -3} : Return(r)
         \/ sub \in fm_sub_cmds /\ Start("fm", todo)
      /\ UNCHANGED <<ctrlVars, usbVars, devVars, told>>
  BY <1>1
<1> HIDE DEF arg
<1>4. line'.cmd = "fm" /\ sent' = <<>> /\ n' \in 0..MaxCmds
  BY <1>3, Typed DEF DInv
<1>5. LineShape'
  BY <1>4 DEF LineShape
<1>6. ret' \in Int
  BY <1>3 DEF Return, Start
<1>7. Books' /\ Told'
  BY <1>3, <1>4, <1>6, SameBooks DEF DInv, ctrlVars, usbVars, devVars
<1>8. CASE \E r \in {-1, -2, -3} : Return(r)
  BY <1>4, <1>5, <1>7, <1>8, AnswerKeepsTalk DEF Return, DInv
<1>9. CASE sub \in fm_sub_cmds /\ Start("fm", todo)
  <2>1. /\ todo \in Seq(Packets) \ {<<>>}
        /\ \A j \in 1..Len(todo) : Legal(todo[j]) /\ ~IsWrite(todo[j])
    BY <1>2, <1>9, FmLegal
  <2> HIDE DEF todo
  <2>2. job' = [cmd |-> "fm", todo |-> todo, err |-> 0]
    BY <1>9, <2>1 DEF Start
  <2>3. Talk'
    BY <1>4, <1>5, <2>1, <2>2, JobKeepsTalk
  <2> QED
    BY <1>7, <2>3 DEF DInv
<1> QED
  BY <1>3, <1>8, <1>9

\* What a cell holds is a number.
LEMMA JoinedIsNat ==
    ASSUME NEW b \in Cells
    PROVE  Joined(b) \in Nat
<1>0. Half * Byte \in Nat /\ Half \in Nat /\ Byte \in Nat
  BY Widths
<1>1. CASE b \in [1..2 -> 0..(Byte - 1)]
  <2>1. Len(b) = 2
    BY <1>1, FunctionIsSequence
  <2>2. b[1] \in Nat /\ b[2] \in Nat
    BY <1>0, <1>1
  <2> QED
    BY <1>0, <2>1, <2>2 DEF Joined
<1>2. CASE b \in [1..4 -> 0..(Byte - 1)]
  <2>1. Len(b) = 4
    BY <1>2, FunctionIsSequence
  <2>2. b[1] \in Nat /\ b[2] \in Nat /\ b[3] \in Nat /\ b[4] \in Nat
    BY <1>0, <1>2
  <2>3. b[2] * Byte \in Nat /\ b[3] * Half \in Nat /\ b[4] * (Half * Byte) \in Nat
    BY <1>0, <2>2
  <2> QED
    BY <2>1, <2>2, <2>3 DEF Joined
<1> QED
  BY <1>1, <1>2 DEF Cells

\* One transfer, spelled out.
Sending(p, outcome) ==
    /\ outcome \in Outcomes
    /\ ctrl.handle \in dead => outcome = "fail"
    /\ \/ ctrl.handle \notin dead /\ Effect(of[ctrl.handle], p)
       \/ outcome # "full" /\ UNCHANGED <<mem, fm>>
    /\ sent' = Append(sent, [p |-> p, outcome |-> outcome,
                             d |-> IF IsMemory(p) /\ ~IsWrite(p) /\ outcome = "full"
                                   THEN Joined(Get(mem[of[ctrl.handle]], Cell(p), p.wLength))
                                   ELSE Unsure])
    /\ told' = Expect(p, outcome)
    /\ IF Len(job.todo) = 1
       THEN Return(Result(job.err + Bad(outcome)))
       ELSE /\ job' = [job EXCEPT !.todo = Tail(@), !.err = job.err + Bad(outcome)]
            /\ ret' = ret

\* The job under way: its first transfer is legal and goes out on a bound handle.
LEMMA TransferIs ==
    ASSUME UInv, DInv, Transfer
    PROVE  /\ job # Idle /\ ctrl.bind = 1
           /\ job.cmd \in {"read", "write", "fm"} /\ job.cmd = line.cmd
           /\ job.todo \in Seq(Packets) /\ job.todo # <<>> /\ Len(job.todo) \in Nat \ {0}
           /\ job.err \in Nat
           /\ Head(job.todo) = job.todo[1] /\ Legal(job.todo[1])
           /\ ctrl.handle \in 1..Len(of) /\ of[ctrl.handle] \in Devices
           /\ \E outcome \in Outcomes : Sending(job.todo[1], outcome)
           /\ UNCHANGED <<ctrlVars, usbVars, dead, bus, line, n>>
<1>1. job # Idle /\ UNCHANGED <<ctrlVars, usbVars, dead, bus, line, n>>
  BY DEF Transfer
<1>2. ctrl.bind = 1
  BY <1>1 DEF UInv, HandleOwned
<1>3. /\ job.cmd \in {"read", "write", "fm"} /\ job.todo \in Seq(Packets) /\ job.todo # <<>>
      /\ job.err \in Nat
  BY <1>1 DEF DInv, Talk, JobType
<1>4. Len(job.todo) \in Nat \ {0} /\ Head(job.todo) = job.todo[1] /\ 1 \in 1..Len(job.todo)
  BY <1>3
<1>5. job.cmd = line.cmd /\ Legal(job.todo[1])
  BY <1>1, <1>4 DEF DInv, Talk, Requests
<1>6. ctrl.handle \in 1..Len(of) /\ of[ctrl.handle] \in Devices
  BY <1>2 DEF DInv, Books, UInv, UsbShape
<1>7. \E outcome \in Outcomes : Sending(Head(job.todo), outcome)
  <2>1. PICK outcome \in IF ctrl.handle \in dead THEN {"fail"} ELSE {"full", "short", "fail"} :
          /\ \/ /\ ctrl.handle \notin dead
                /\ Effect(of[ctrl.handle], Head(job.todo))
             \/ /\ outcome # "full"
                /\ UNCHANGED <<mem, fm>>
          /\ sent' = Append(sent, [p |-> Head(job.todo), outcome |-> outcome,
                d |-> IF IsMemory(Head(job.todo)) /\ ~IsWrite(Head(job.todo)) /\ outcome = "full"
                      THEN Joined(Get(mem[of[ctrl.handle]], Cell(Head(job.todo)),
                                      Head(job.todo).wLength))
                      ELSE Unsure])
          /\ told' = Expect(Head(job.todo), outcome)
          /\ IF Len(job.todo) = 1
             THEN Return(Result(job.err + Bad(outcome)))
             ELSE /\ job' = [job EXCEPT !.todo = Tail(@), !.err = job.err + Bad(outcome)]
                  /\ ret' = ret
    BY DEF Transfer
  <2>2. outcome \in Outcomes /\ (ctrl.handle \in dead => outcome = "fail")
    BY DEF Outcomes
  <2> QED
    BY <2>1, <2>2 DEF Sending
<1> QED
  BY <1>1, <1>2, <1>3, <1>4, <1>5, <1>6, <1>7

\* The memory keeps its shape, and the settings of the receiver theirs.
LEMMA EffectKeepsBooks ==
    ASSUME UInv, DInv, NEW p, Legal(p), NEW d \in Devices,
           Effect(d, p)
    PROVE  /\ mem' = [x \in Devices |-> mem'[x]]
           /\ \A x \in Devices : \A c \in DOMAIN mem'[x] : mem'[x][c] \in Cells
           /\ fm' \in [Devices -> [Codes -> 0..(Half - 1)]]
<1>1. /\ mem = [x \in Devices |-> mem[x]]
      /\ \A x \in Devices : \A c \in DOMAIN mem[x] : mem[x][c] \in Cells
      /\ fm \in [Devices -> [Codes -> 0..(Half - 1)]]
  BY DEF DInv, Books
<1>2. CASE IsMemory(p) /\ IsWrite(p)
  <2>1. p.data \in Cells
    BY <1>2 DEF Legal
  <2>2. mem' = [mem EXCEPT ![d] = Put(mem[d], Cell(p), p.data)]
    BY <1>2 DEF Effect, Store
  <2>3. \A c \in DOMAIN Put(mem[d], Cell(p), p.data) : Put(mem[d], Cell(p), p.data)[c] \in Cells
    BY <1>1, <2>1 DEF Put
  <2> QED
    <3>1. mem' = [x \in Devices |-> IF x = d THEN Put(mem[d], Cell(p), p.data) ELSE mem[x]]
      BY <1>1, <2>2
    <3>2. /\ mem' = [x \in Devices |-> mem'[x]]
          /\ \A x \in Devices : \A c \in DOMAIN mem'[x] : mem'[x][c] \in Cells
      BY <1>1, <2>3, <3>1
    <3>3. p.bRequest # "FM_SET"
      BY <1>2 DEF IsMemory, Narrow, Wide
    <3> QED
      BY <1>1, <3>2, <3>3 DEF Effect
<1>3. CASE ~(IsMemory(p) /\ IsWrite(p)) /\ p.bRequest \in {"rst", "rstcdc"}
  <2>1. mem' = [x \in Devices |-> IF x = d THEN <<>> ELSE mem[x]]
    BY <1>1, <1>3 DEF Effect
  <2>2. fm' = fm
    BY <1>3 DEF Effect
  <2> QED
    BY <1>1, <2>1, <2>2
<1>4. CASE ~(IsMemory(p) /\ IsWrite(p)) /\ p.bRequest \notin {"rst", "rstcdc"}
  <2>1. mem' = mem
    BY <1>4 DEF Effect
  <2>2. p.bRequest = "FM_SET" => p.wValue \in Codes /\ p.wIndex \in 0..(Half - 1)
    BY DEF Legal, Packets
  <2>3. fm' \in [Devices -> [Codes -> 0..(Half - 1)]]
    BY <1>1, <2>2 DEF Effect
  <2> QED
    BY <1>1, <2>1, <2>3
<1> QED
  BY <1>2, <1>3, <1>4

\* The result of a transfer is a result: the shapes survive it.
LEMMA TransferKeepsBooks ==
    ASSUME UInv, DInv, Transfer
    PROVE  Books'
<1>1. PICK outcome \in Outcomes : Sending(job.todo[1], outcome)
  BY TransferIs
<1>2. /\ mem' = [x \in Devices |-> mem'[x]]
      /\ \A x \in Devices : \A c \in DOMAIN mem'[x] : mem'[x][c] \in Cells
      /\ fm' \in [Devices -> [Codes -> 0..(Half - 1)]]
  <2>1. CASE Effect(of[ctrl.handle], job.todo[1])
    BY <2>1, TransferIs, EffectKeepsBooks
  <2>2. CASE UNCHANGED <<mem, fm>>
    BY <2>2 DEF DInv, Books
  <2> QED
    BY <1>1, <2>1, <2>2 DEF Sending
<1>3. Bad(outcome) \in {0, 1} /\ job.err \in Nat
  BY TransferIs DEF Bad
<1>4. ret' \in Int
  <2>1. Result(job.err + Bad(outcome)) \in Int
    BY <1>3 DEF Result
  <2> QED
    BY <1>1, <2>1 DEF Sending, Return, DInv, Books
<1> QED
  BY <1>2, <1>4, TransferIs DEF Books, DInv, ctrlVars, usbVars

\* What the user is told of a cell is what the device holds: a complete write puts
\* the value typed there, whatever else happens leaves the cell or takes it back.
LEMMA TransferKeepsTold ==
    ASSUME UInv, DInv, Transfer
    PROVE  Told'
<1> DEFINE p == job.todo[1]
           D == of[ctrl.handle]
<1>1. PICK outcome \in Outcomes : Sending(p, outcome)
  BY TransferIs
<1>2. SUFFICES ASSUME Alive'
               PROVE  /\ D \in bus
                      /\ \A c \in DOMAIN told' :
                           \/ told'[c] = Unsure
                           \/ c \in DOMAIN mem'[D] /\ Joined(mem'[D][c]) = told'[c]
  BY TransferIs DEF Told, ctrlVars, usbVars
<1>3. Alive /\ ctrl.handle \notin dead /\ D \in Devices
  BY <1>2, TransferIs DEF Alive, ctrlVars
<1>4. /\ D \in bus
      /\ \A c \in DOMAIN told :
           told[c] = Unsure \/ (c \in DOMAIN mem[D] /\ Joined(mem[D][c]) = told[c])
  BY <1>3 DEF DInv, Told
<1>5. mem = [x \in Devices |-> mem[x]]
  BY DEF DInv, Books
<1>6. CASE IsMemory(p) /\ IsWrite(p)
  <2>1. job.cmd = "write" /\ line.cmd = "write"
    <3>1. 1 \in 1..Len(job.todo) /\ job # Idle /\ job.cmd = line.cmd
      BY TransferIs
    <3> QED
      BY <1>6, <3>1 DEF DInv, Talk, Writing
  <2>2. p = Write(line.mod, line.addr, line.v)
    BY <2>1, TransferIs DEF DInv, Talk, Writing
  <2>3. p.bRequest = line.mod
    BY <2>2 DEF Write, Setup
  <2>4. line.mod \in Narrow \cup Wide /\ line.mod \notin Control /\ line.mod \in rw_sub_cmds
    BY <1>6, <2>3 DEF IsMemory, Narrow, Wide, Control, rw_sub_cmds
  <2>5. line.addr \in 0..(Word - 1) /\ line.v \in 0..(Word - 1)
    BY <2>1 DEF DInv, Talk, LineShape
  <2>6. /\ Cell(p) = <<line.mod, line.addr>>
        /\ Joined(p.data) = IF line.mod \in Narrow THEN line.v % Half ELSE line.v
    <3>1. ASSUME NEW mod \in rw_sub_cmds, mod \notin Control,
                 NEW a \in 0..(Word - 1), NEW v \in 0..(Word - 1)
          PROVE  /\ Cell(Write(mod, a, v)) = <<mod, a>>
                 /\ Joined(Write(mod, a, v).data) = IF mod \in Narrow THEN v % Half ELSE v
      BY <3>1, WriteCarries
    <3> HIDE DEF p
    <3> QED
      BY <2>2, <2>4, <2>5, <3>1
  <2>7. told' = Put(told, Cell(p), IF outcome # "full" THEN Unsure ELSE Joined(p.data))
    BY <1>1, <1>6, <2>6 DEF Sending, Expect
  <2>8. mem'[D] = Put(mem[D], Cell(p), p.data) \/ (outcome # "full" /\ mem' = mem)
    BY <1>1, <1>3, <1>5, <1>6 DEF Sending, Effect, Store
  <2> HIDE DEF p, D
  <2>9. CASE mem'[D] = Put(mem[D], Cell(p), p.data)
    BY <1>4, <2>7, <2>9 DEF Put
  <2>10. CASE outcome # "full" /\ mem' = mem
    BY <1>4, <2>7, <2>10 DEF Put
  <2> QED
    BY <1>4, <2>8, <2>9, <2>10
<1>7. CASE ~(IsMemory(p) /\ IsWrite(p)) /\ p.bRequest \in {"rst", "rstcdc"}
  <2>1. told' = <<>>
    BY <1>1, <1>7 DEF Sending, Expect
  <2> QED
    BY <1>4, <2>1
<1>8. CASE ~(IsMemory(p) /\ IsWrite(p)) /\ p.bRequest \notin {"rst", "rstcdc"}
  <2>1. told' = told /\ mem' = mem
    BY <1>1, <1>8 DEF Sending, Expect, Effect
  <2> QED
    BY <1>4, <2>1
<1> QED
  BY <1>6, <1>7, <1>8

\* What a transfer adds to the history.
Record(p, outcome) ==
    [p |-> p, outcome |-> outcome,
     d |-> IF IsMemory(p) /\ ~IsWrite(p) /\ outcome = "full"
           THEN Joined(Get(mem[of[ctrl.handle]], Cell(p), p.wLength)) ELSE Unsure]

\* A transfer that is over joins the history.
LEMMA HistoryGrows ==
    ASSUME UInv, DInv, Transfer, NEW outcome \in Outcomes, Sending(job.todo[1], outcome)
    PROVE  /\ sent \in Seq(Sent) /\ sent' \in Seq(Sent)
           /\ Len(sent) \in Nat /\ Len(sent') = Len(sent) + 1
           /\ \A i \in 1..Len(sent) : sent'[i] = sent[i]
           /\ sent'[Len(sent) + 1] = Record(job.todo[1], outcome)
           /\ \A i : i \in 1..Len(sent') <=> i \in 1..Len(sent) \/ i = Len(sent) + 1
<1> DEFINE p == job.todo[1]
           D == of[ctrl.handle]
           t == Record(p, outcome)
<1>1. Legal(p) /\ D \in Devices
  BY TransferIs
<1>2. sent' = Append(sent, t)
  BY DEF Sending, Record
<1>3. t.d \in Nat \cup {Unsure}
  <2>1. ASSUME IsMemory(p) PROVE Get(mem[D], Cell(p), p.wLength) \in Cells
    <3>1. p.wLength \in {2, 4}
      BY <1>1, <2>1 DEF Legal
    <3>2. \A c \in DOMAIN mem[D] : mem[D][c] \in Cells
      BY <1>1 DEF DInv, Books
    <3>3. 0 \in 0..(Byte - 1)
      BY Widths
    <3>4. [i \in 1..p.wLength |-> 0] \in Cells
      BY <3>1, <3>3 DEF Cells
    <3> QED
      BY <3>2, <3>4 DEF Get
  <2>2. t.d = Unsure \/ (IsMemory(p) /\ t.d = Joined(Get(mem[D], Cell(p), p.wLength)))
    BY DEF Record
  <2> QED
    BY <2>1, <2>2, JoinedIsNat
<1>4. t \in Sent
  <2>1. t = [p |-> p, outcome |-> outcome, d |-> t.d]
    BY DEF Record
  <2> QED
    BY <1>1, <1>3, <2>1 DEF Sent, Legal
<1>5. sent \in Seq(Sent)
  BY DEF DInv, Talk, Requests
<1> HIDE DEF t
<1>6. /\ sent' \in Seq(Sent) /\ Len(sent) \in Nat /\ Len(sent') = Len(sent) + 1
      /\ \A i \in 1..Len(sent) : sent'[i] = sent[i]
      /\ sent'[Len(sent) + 1] = t
  BY <1>2, <1>4, <1>5, AppendProperties, LenProperties
<1>7. \A i : i \in 1..Len(sent') <=> i \in 1..Len(sent) \/ i = Len(sent) + 1
  BY <1>6
<1> QED
  BY <1>5, <1>6, <1>7 DEF t

\* The transfers still to be made move up, and a command that ends badly after a
\* transfer can only be the fm test.
LEMMA TransferKeepsRequests ==
    ASSUME UInv, DInv, Transfer
    PROVE  JobType' /\ LineShape' /\ Requests' /\ Writing' /\ Quiet'
<1> DEFINE p == job.todo[1]
<1>1. PICK outcome \in Outcomes : Sending(p, outcome)
  BY TransferIs
<1>2. /\ job # Idle /\ job.cmd \in {"read", "write", "fm"} /\ job.cmd = line.cmd
      /\ job.todo \in Seq(Packets) /\ Len(job.todo) \in Nat \ {0} /\ job.err \in Nat
      /\ Legal(p) /\ line' = line
  BY TransferIs
<1>3. LineShape'
  BY <1>2 DEF DInv, Talk, LineShape
<1>7. /\ sent' \in Seq(Sent)
      /\ \A i \in 1..Len(sent) : sent'[i] = sent[i]
      /\ sent'[Len(sent) + 1] = Record(p, outcome)
      /\ \A i \in 1..Len(sent') : i \in 1..Len(sent) \/ i = Len(sent) + 1
  BY <1>1, HistoryGrows
<1>8. \A i \in 1..Len(sent') : Legal(sent'[i].p)
  <2>1. \A i \in 1..Len(sent) : Legal(sent[i].p)
    BY DEF DInv, Talk, Requests
  <2>2. Record(p, outcome).p = p
    BY DEF Record
  <2> HIDE DEF p
  <2> QED
    BY <1>2, <1>7, <2>1, <2>2
<1>9. CASE Len(job.todo) = 1
  <2>1. job' = Idle /\ ret' = Result(job.err + Bad(outcome))
    BY <1>1, <1>9 DEF Sending, Return
  <2>2. ret' < 0 => line'.cmd = "fm" /\ line'.sub = "test"
    <3>1. job.err + Bad(outcome) \in Nat
      BY <1>2 DEF Bad
    <3> QED
      BY <1>2, <2>1, <3>1 DEF Result
  <2> QED
    BY <1>3, <1>7, <1>8, <2>1, <2>2 DEF JobType, Requests, Writing, Quiet
<1>10. CASE Len(job.todo) # 1
  <2>1. job' = [job EXCEPT !.todo = Tail(@), !.err = job.err + Bad(outcome)]
    BY <1>1, <1>10 DEF Sending
  <2> DEFINE rest == Tail(job.todo)
  <2>2. /\ rest \in Seq(Packets) /\ Len(rest) = Len(job.todo) - 1
        /\ \A j \in 1..Len(rest) : j + 1 \in 1..Len(job.todo) /\ rest[j] = job.todo[j + 1]
        /\ rest # <<>>
    <3>1. ASSUME NEW s \in Seq(Packets), Len(s) \in Nat \ {0}, Len(s) # 1
          PROVE  /\ Tail(s) \in Seq(Packets) /\ Len(Tail(s)) = Len(s) - 1
                 /\ \A j \in 1..Len(Tail(s)) : j + 1 \in 1..Len(s) /\ Tail(s)[j] = s[j + 1]
                 /\ Tail(s) # <<>>
      <4>1. s # <<>>
        BY <3>1
      <4>2. Tail(s) \in Seq(Packets) /\ Len(Tail(s)) = Len(s) - 1
        BY <4>1
      <4>3. Len(Tail(s)) > 0
        BY <3>1, <4>2
      <4>4. Tail(s) # <<>>
        <5>1. Len(Tail(s)) # 0
          BY <4>2, <4>3
        <5>2. Len(<<>>) = 0
          OBVIOUS
        <5> QED
          BY <5>1, <5>2, Zenon
      <4>5. \A j \in 1..Len(Tail(s)) : j + 1 \in 1..Len(s) /\ Tail(s)[j] = s[j + 1]
        BY <3>1, <4>1, <4>2
      <4> QED
        BY <4>2, <4>4, <4>5
    <3> QED
      BY <1>2, <1>10, <3>1
  <2> HIDE DEF rest
  <2>3. job \in [cmd : {"read", "write", "fm"}, todo : Seq(Packets) \ {<<>>}, err : Nat]
    BY <1>2 DEF DInv, Talk, JobType
  <2>4. /\ job'.cmd = job.cmd /\ job'.todo = rest /\ job'.err = job.err + Bad(outcome)
        /\ job' = [cmd |-> job.cmd, todo |-> rest, err |-> job.err + Bad(outcome)]
    BY <2>1, <2>3 DEF rest
  <2>5. job.err + Bad(outcome) \in Nat
    BY <1>2 DEF Bad
  <2>6. job' # Idle
    <3>1. job'.cmd # Idle.cmd
      BY <1>2, <2>4 DEF Idle
    <3> QED
      BY <3>1
  <2>7. JobType'
    <3>1. job' \in [cmd : {"read", "write", "fm"}, todo : Seq(Packets) \ {<<>>}, err : Nat]
      BY <1>2, <2>2, <2>4, <2>5
    <3> QED
      BY <3>1 DEF JobType
  <2>8. Requests'
    BY <1>2, <1>7, <1>8, <2>2, <2>4 DEF Requests, DInv, Talk
  <2>9. Writing'
    <3>1. line.cmd # "write"
      <4>1. line.cmd = "write" => \E w : job.todo = <<w>>
        BY <1>2 DEF DInv, Talk, Writing
      <4>2. \A w : Len(<<w>>) = 1
        OBVIOUS
      <4> QED
        BY <1>10, <4>1, <4>2
    <3> QED
      BY <1>2, <2>2, <2>4, <3>1 DEF Writing, DInv, Talk
  <2> QED
    BY <1>3, <2>6, <2>7, <2>8, <2>9 DEF Quiet
<1> QED
  BY <1>9, <1>10

\* A read keeps to its plan: the transfers made and the ones to come are the cells it
\* was asked for, in order, and its errors are the transfers that were not complete.
LEMMA TransferKeepsReading ==
    ASSUME UInv, DInv, Transfer
    PROVE  Reading'
<1> DEFINE p == job.todo[1]
           D == of[ctrl.handle]
           k == Len(sent)
<1>1. PICK outcome \in Outcomes : Sending(p, outcome)
  BY TransferIs
<1>2. /\ job # Idle /\ job.cmd = line.cmd /\ Legal(p)
      /\ job.todo \in Seq(Packets) /\ Len(job.todo) \in Nat \ {0} /\ job.err \in Nat
      /\ line' = line /\ ctrl.bind = 1
  BY TransferIs
<1>3. SUFFICES ASSUME line.cmd = "read" PROVE Reading'
  BY <1>2 DEF Reading
<1>4. /\ \A i \in 1..k : sent[i].p = ReadAt(i)
      /\ line.mod \in Narrow \cup Wide
      /\ k + Len(job.todo) = Times(line.mod, line.v)
      /\ \A j \in 1..Len(job.todo) : job.todo[j] = ReadAt(k + j)
      /\ job.err = Cardinality(Failures)
  BY <1>2, <1>3 DEF DInv, Talk, Reading
<1>5. /\ Record(p, outcome).p = p /\ Record(p, outcome).outcome = outcome
      /\ Record(p, outcome).d # Unsure =>
            outcome = "full" /\ Record(p, outcome).d = Joined(Get(mem[D], Cell(p), p.wLength))
  BY DEF Record
<1>6. /\ sent \in Seq(Sent) /\ sent' \in Seq(Sent) /\ k \in Nat /\ Len(sent') = k + 1
      /\ \A i \in 1..k : sent'[i] = sent[i]
      /\ sent'[k + 1] = Record(p, outcome)
      /\ \A i : i \in 1..Len(sent') <=> i \in 1..k \/ i = k + 1
  BY <1>1, HistoryGrows
<1>7. p = ReadAt(k + 1)
  BY <1>2, <1>4
<1>8. \A i : ReadAt(i)' = ReadAt(i)
  BY <1>2 DEF ReadAt
<1> HIDE DEF p, D, k
<1>9. \A i \in 1..Len(sent') : sent'[i].p = ReadAt(i)'
  BY <1>4, <1>5, <1>6, <1>7, <1>8
<1>10. Cardinality(Failures') = job.err + Bad(outcome)
  <2>1. Failures \subseteq 1..k /\ IsFiniteSet(Failures)
    <3>1. Failures \subseteq 1..k
      BY DEF Failures, k
    <3>2. IsFiniteSet(1..k)
      BY <1>6, FS_Interval
    <3> QED
      BY <3>1, <3>2, FS_Subset
  <2>2. k + 1 \notin Failures
    BY <1>6, <2>1
  <2>3. \A i : i \in Failures' <=> i \in 1..Len(sent') /\ sent'[i].outcome # "full"
    BY DEF Failures
  <2>4. \A i : i \in Failures <=> i \in 1..k /\ sent[i].outcome # "full"
    BY DEF Failures, k
  <2>5. CASE outcome = "full"
    <3>1. Failures' = Failures
      BY <1>5, <1>6, <2>3, <2>4, <2>5
    <3> QED
      BY <1>2, <1>4, <2>5, <3>1 DEF Bad
  <2>6. CASE outcome # "full"
    <3>1. Failures' = Failures \cup {k + 1}
      BY <1>5, <1>6, <2>3, <2>4, <2>6
    <3>2. Cardinality(Failures \cup {k + 1}) = Cardinality(Failures) + 1
      BY <2>1, <2>2, FS_AddElement
    <3> QED
      BY <1>4, <2>6, <3>1, <3>2 DEF Bad
  <2> QED
    BY <2>5, <2>6
<1>11. CASE Len(job.todo) = 1
  <2>1. job' = Idle /\ ret' = Result(job.err + Bad(outcome))
    BY <1>1, <1>11 DEF Sending, Return
  <2>2. ret' = Cardinality(Failures')
    BY <1>2, <1>3, <1>10, <2>1 DEF Result
  <2>3. Len(sent') = Times(line'.mod, line'.v) /\ line'.mod \in rw_sub_cmds
    BY <1>2, <1>4, <1>6, <1>11 DEF rw_sub_cmds
  <2> QED
    BY <1>9, <2>1, <2>2, <2>3 DEF Reading
<1>12. CASE Len(job.todo) # 1
  <2>1. /\ job \in [cmd : {"read", "write", "fm"}, todo : Seq(Packets) \ {<<>>}, err : Nat]
        /\ job' = [job EXCEPT !.todo = Tail(@), !.err = job.err + Bad(outcome)]
    BY <1>1, <1>2, <1>12 DEF Sending, DInv, Talk, JobType
  <2>2. job'.todo = Tail(job.todo) /\ job'.err = job.err + Bad(outcome) /\ job' # Idle
    <3>1. /\ job'.cmd = job.cmd /\ job'.todo = Tail(job.todo)
          /\ job'.err = job.err + Bad(outcome)
      BY <2>1
    <3>2. job'.cmd # Idle.cmd
      BY <2>1, <3>1 DEF Idle
    <3> QED
      BY <3>1, <3>2
  <2>3. /\ Len(Tail(job.todo)) = Len(job.todo) - 1
        /\ \A j \in 1..Len(Tail(job.todo)) :
             j + 1 \in 1..Len(job.todo) /\ Tail(job.todo)[j] = job.todo[j + 1]
    <3>1. job.todo # <<>>
      BY <2>1
    <3> QED
      BY <1>2, <3>1
  <2> DEFINE r == Len(job'.todo)
             K == Len(sent')
  <2>4. r \in Nat /\ r + 1 = Len(job.todo) /\ K = k + 1
    BY <1>2, <1>6, <2>2, <2>3
  <2>5. K + r = Times(line'.mod, line'.v)
    <3> HIDE DEF r, K
    <3>1. K + r = k + Len(job.todo)
      BY <1>2, <1>6, <2>4
    <3> QED
      BY <1>2, <1>4, <3>1 DEF k
  <2>6. ASSUME NEW j \in 1..r
        PROVE  job'.todo[j] = ReadAt(Len(sent) + j)'
    <3>1. j \in Nat /\ j + 1 \in 1..Len(job.todo) /\ job'.todo[j] = job.todo[j + 1]
      BY <1>2, <2>2, <2>3
    <3>2. job.todo[j + 1] = ReadAt(k + (j + 1))
      BY <1>4, <3>1 DEF k
    <3>3. k + (j + 1) = K + j
      BY <1>6, <2>4, <3>1
    <3>4. ReadAt(Len(sent) + j)' = ReadAt(K + j)
      BY <1>2 DEF ReadAt
    <3> QED
      BY <3>1, <3>2, <3>3, <3>4
  <2>7. job'.err = Cardinality(Failures') /\ line'.mod \in Narrow \cup Wide
    BY <1>2, <1>4, <1>10, <2>2
  <2> QED
    BY <1>9, <2>2, <2>5, <2>6, <2>7 DEF Reading
<1> QED
  BY <1>11, <1>12

\* What a read shows of a cell is what the user was told of it.
LEMMA TransferKeepsReadsBack ==
    ASSUME UInv, DInv, Transfer
    PROVE  ReadsBack'
<1> DEFINE p == job.todo[1]
           D == of[ctrl.handle]
           k == Len(sent)
           C(i) == <<line.mod, (line.addr + (i - 1) * Inc(line.mod)) % Word>>
<1>1. PICK outcome \in Outcomes : Sending(p, outcome)
  BY TransferIs
<1>2. job # Idle /\ job.cmd = line.cmd /\ line' = line /\ ctrl.bind = 1 /\ 1 \in 1..Len(job.todo)
  BY TransferIs
<1>3. SUFFICES ASSUME line.cmd = "read" PROVE ReadsBack'
  BY <1>2 DEF ReadsBack
<1>4. /\ Record(p, outcome).d # Unsure =>
            outcome = "full" /\ Record(p, outcome).d = Joined(Get(mem[D], Cell(p), p.wLength))
  BY DEF Record
<1>5. /\ sent \in Seq(Sent) /\ sent' \in Seq(Sent) /\ k \in Nat
      /\ \A i \in 1..k : sent'[i] = sent[i]
      /\ sent'[k + 1] = Record(p, outcome)
      /\ \A i : i \in 1..Len(sent') <=> i \in 1..k \/ i = k + 1
  BY <1>1, HistoryGrows
<1>6. p = ReadAt(k + 1) /\ line.mod \in Narrow \cup Wide
  BY <1>2, <1>3 DEF DInv, Talk, Reading
<1>7. Cell(p) = C(k + 1) /\ ~IsWrite(p) /\ p.bRequest = line.mod
  <2>1. line.addr \in Nat /\ line.mod \in rw_sub_cmds /\ k + 1 \in Nat \ {0}
    BY <1>3, <1>5, <1>6, Widths DEF DInv, Talk, LineShape, rw_sub_cmds
  <2>2. ASSUME NEW mod \in rw_sub_cmds, NEW addr \in Nat, NEW i \in Nat \ {0}
        PROVE  LET a == (addr + (i - 1) * Inc(mod)) % Word
                   q == Setup(mod, a, Len8(mod), <<>>)
               IN  q.bRequest = mod /\ ~IsWrite(q) /\ Cell(q) = <<mod, a>>
    BY ReadCell
  <2> HIDE DEF p, k
  <2> QED
    BY <1>6, <2>1, <2>2 DEF ReadAt
<1>8. told' = told
  <2>1. p.bRequest \notin {"rst", "rstcdc"}
    BY <1>6, <1>7 DEF Narrow, Wide
  <2> QED
    BY <1>1, <1>7, <2>1 DEF Sending, Expect
<1>9. ASSUME Record(p, outcome).d # Unsure, C(k + 1) \in DOMAIN told
      PROVE  told[C(k + 1)] \in {Unsure, Record(p, outcome).d}
  <2>1. outcome = "full" /\ Record(p, outcome).d = Joined(Get(mem[D], Cell(p), p.wLength))
    BY <1>4, <1>9
  <2>2. Alive
    BY <1>1, <1>2, <2>1 DEF Sending, Alive
  <2>3. \/ told[C(k + 1)] = Unsure
        \/ C(k + 1) \in DOMAIN mem[D] /\ Joined(mem[D][C(k + 1)]) = told[C(k + 1)]
    BY <1>9, <2>2 DEF DInv, Told
  <2> HIDE DEF p, D, k, C
  <2> QED
    BY <1>7, <2>1, <2>3 DEF Get
<1>10. \A i \in 1..k :
         sent[i].d # Unsure /\ C(i) \in DOMAIN told => told[C(i)] \in {Unsure, sent[i].d}
  <2>1. DOMAIN sent = 1..k
    BY <1>5, LenProperties
  <2> QED
    BY <1>3, <2>1 DEF DInv, Talk, ReadsBack
<1>11. DOMAIN sent' = 1..Len(sent')
  BY <1>5, LenProperties
<1> HIDE DEF p, D, k, C
<1>12. \A i \in DOMAIN sent' :
         sent'[i].d # Unsure /\ C(i) \in DOMAIN told' => told'[C(i)] \in {Unsure, sent'[i].d}
  BY <1>5, <1>8, <1>9, <1>10, <1>11
<1> QED
  BY <1>2, <1>12 DEF ReadsBack, C

\* Registering, unregistering and the bus leave the talk alone; a device that joins
\* the bus is not the bound one, one that leaves it takes its handles along.
LEMMA QuietKeeps ==
    ASSUME UInv, DInv, usb_cmd_register \/ usb_cmd_unregister \/ Plug \/ Unplug
    PROVE  DInv'
<1>1. UNCHANGED <<job, line, sent, ret, told, of, n>>
  BY DEF usb_cmd_register, usb_cmd_unregister, Leave, unbind, Plug, Unplug, usbVars
<1>2. Talk'
  BY <1>1, SameTalk DEF DInv
<1>3. CASE usb_cmd_register \/ usb_cmd_unregister
  <2>1. UNCHANGED devVars /\ (ctrl'.bind = 0 \/ ctrl' = ctrl)
    BY <1>3 DEF usb_cmd_register, usb_cmd_unregister, Leave, unbind
  <2>2. Books'
    BY <1>1, <2>1 DEF DInv, Books, devVars
  <2>3. Told'
    BY <1>1, <2>1 DEF DInv, Told, Alive, devVars
  <2> QED
    BY <1>2, <2>2, <2>3 DEF DInv
<1>4. CASE Plug
  <2>1. PICK d \in Devices \ bus :
          /\ bus' = bus \cup {d}
          /\ mem' = [mem EXCEPT ![d] = <<>>]
          /\ UNCHANGED <<ctrlVars, dead, fm>>
    BY <1>4 DEF Plug
  <2>2. mem' = [x \in Devices |-> IF x = d THEN <<>> ELSE mem[x]]
    BY <2>1 DEF DInv, Books
  <2>3. Books'
    <3>1. mem' = [x \in Devices |-> mem'[x]]
      BY <2>2
    <3>2. \A x \in Devices : \A c \in DOMAIN mem'[x] : mem'[x][c] \in Cells
      BY <2>2 DEF DInv, Books
    <3> QED
      BY <1>1, <2>1, <3>1, <3>2 DEF DInv, Books, ctrlVars
  <2>4. Told'
    <3>1. SUFFICES ASSUME Alive' PROVE Told'
      BY DEF Told
    <3>2. Alive /\ of[ctrl.handle] \in bus
      BY <2>1, <3>1 DEF Alive, ctrlVars, DInv, Told
    <3>3. of[ctrl.handle] # d /\ of[ctrl.handle] \in Devices
      BY <2>1, <3>2 DEF UInv, UsbShape
    <3>4. mem'[of[ctrl.handle]] = mem[of[ctrl.handle]]
      BY <2>2, <3>3
    <3> QED
      BY <1>1, <2>1, <3>2, <3>4 DEF Told, ctrlVars, DInv
  <2> QED
    BY <1>2, <2>3, <2>4 DEF DInv
<1>5. CASE Unplug
  <2>1. PICK d \in bus :
          /\ bus' = bus \ {d}
          /\ dead' = dead \cup {h \in 1..Len(of) : of[h] = d}
          /\ UNCHANGED <<ctrlVars, mem, fm>>
    BY <1>5 DEF Unplug
  <2>2. Books'
    BY <1>1, <2>1 DEF DInv, Books, ctrlVars
  <2>3. Told'
    <3>1. SUFFICES ASSUME Alive' PROVE Told'
      BY DEF Told
    <3>2. Alive /\ of[ctrl.handle] \in bus /\ ctrl.handle \in 1..Len(of)
      BY <2>1, <3>1 DEF Alive, ctrlVars, DInv, Told, Books
    <3>3. of[ctrl.handle] # d
      BY <2>1, <3>1, <3>2 DEF Alive, ctrlVars
    <3> QED
      BY <1>1, <2>1, <3>2, <3>3 DEF Told, ctrlVars, DInv
  <2> QED
    BY <1>2, <2>2, <2>3 DEF DInv
<1> QED
  BY <1>3, <1>4, <1>5

\* Every step keeps the invariant of the data.
LEMMA StepDInv == UInv /\ DInv /\ [Next]_vars => DInv'
<1> SUFFICES ASSUME UInv, DInv, [Next]_vars PROVE DInv'
  OBVIOUS
<1>1. CASE UNCHANGED vars
  <2>1. Talk'
    BY <1>1, SameTalk DEF DInv, vars
  <2>2. Books' /\ Told'
    BY <1>1, SameBooks DEF DInv, vars, Books
  <2> QED
    BY <2>1, <2>2 DEF DInv
<1>2. CASE usb_cmd_register \/ usb_cmd_unregister \/ Plug \/ Unplug
  BY <1>2, QuietKeeps
<1>3. CASE usb_handle_cmd_list \/ usb_handle_cmd_test
  BY <1>3, SurveyKeeps
<1>4. CASE usb_handle_cmd_bind
  BY <1>4, BindKeeps
<1>5. CASE usb_handle_cmd_rw
  BY <1>5, RwKeeps
<1>6. CASE usb_handle_cmd_fm
  BY <1>6, FmKeeps
<1>7. CASE Transfer
  BY <1>7, TransferKeepsBooks, TransferKeepsTold, TransferKeepsRequests,
     TransferKeepsReading, TransferKeepsReadsBack
  DEF DInv, Talk
<1> QED
  BY <1>1, <1>2, <1>3, <1>4, <1>5, <1>6, <1>7 DEF Next

\* Both invariants hold of every reachable state.
LEMMA DataHolds == Spec => [](UInv /\ DInv)
<1>1. Init => UInv /\ DInv
  BY InitUInv, InitDInv
<1>2. UInv /\ DInv /\ [Next]_vars => UInv' /\ DInv'
  BY StepUInv, StepDInv
<1> QED
  BY <1>1, <1>2, PTL DEF Spec

\* Whatever is typed and however the transfers end, usbctrl, the job, the books of
\* libusb and the settings of the receiver keep their shapes and their widths.
THEOREM TypeCorrect == Spec => []TypeOK
<1>1. UInv /\ DInv => TypeOK
  <2> SUFFICES ASSUME UInv, DInv PROVE TypeOK
    OBVIOUS
  <2>1. /\ reg \in {"no", "yes", "over"}
        /\ ctrl \in [bind : {0, 1}, handle : Nat, vid : 0..(Half - 1), pid : 0..(Half - 1)]
        /\ refs \in Nat /\ of \in Seq(Devices) /\ bus \subseteq Devices
    BY DEF UInv, CtrlShape, UsbShape
  <2>2. /\ JobType /\ dead \subseteq 1..Len(of)
        /\ fm \in [Devices -> [Codes -> 0..(Half - 1)]]
        /\ ret \in Int /\ n \in 0..MaxCmds
    BY DEF DInv, Talk, Books
  <2>3. open \subseteq 1..Len(of)
    BY DEF UInv, HandleOwned, DInv, Books
  <2> QED
    BY <2>1, <2>2, <2>3 DEF TypeOK
<1> QED
  BY <1>1, DataHolds, PTL

\* For every address and every count typed: a refused command has made no transfer,
\* and no transfer goes to an unaligned word or writes behind the analog registers.
THEOREM TransfersAreLegal == Spec => []OnlyLegalTransfers
<1>1. UInv /\ DInv => OnlyLegalTransfers
  <2> SUFFICES ASSUME DInv PROVE OnlyLegalTransfers
    OBVIOUS
  <2>1. DOMAIN sent = 1..Len(sent)
    BY LenProperties DEF DInv, Talk, Requests
  <2>2. \A i \in DOMAIN sent : Legal(sent[i].p)
    BY <2>1 DEF DInv, Talk, Requests
  <2> QED
    BY <2>2 DEF OnlyLegalTransfers, DInv, Talk, Quiet, Legal
<1> QED
  BY <1>1, DataHolds, PTL

\* How many cells a read reads: of memory the words counted, of the registers twice
\* that, the length being worked out as if a register were a word, so the nr registers
\* behind those asked for as well.
TwiceTheRegisters ==
    (/\ line.cmd = "read" /\ job = Idle /\ ret >= 0 /\ line.mod \notin Control
     /\ line.v * 4 < Word) =>
        Len(sent) = IF line.mod \in Narrow THEN 2 * line.v ELSE line.v

\* For every address and count: the help of read is right for the words of memory and
\* wrong for every read of registers, by exactly the number of registers asked for.
THEOREM RegistersAreReadTwice == Spec => []TwiceTheRegisters
<1>1. UInv /\ DInv => TwiceTheRegisters
  <2> SUFFICES ASSUME DInv, line.cmd = "read", job = Idle, ret >= 0,
                      line.mod \notin Control, line.v * 4 < Word
               PROVE  Len(sent) = IF line.mod \in Narrow THEN 2 * line.v ELSE line.v
    BY DEF TwiceTheRegisters
  <2>1. Len(sent) = Times(line.mod, line.v) /\ line.v \in Nat
    BY Widths DEF DInv, Talk, Reading, LineShape
  <2>2. \A a \in Nat : a < Word => a % Word = a
    BY Widths
  <2>3. Times(line.mod, line.v) = (line.v * 4) \div Len8(line.mod)
    BY <2>1, <2>2 DEF Times
  <2>4. CASE line.mod \in Narrow
    BY <2>1, <2>3, <2>4 DEF Len8
  <2>5. CASE line.mod \notin Narrow
    BY <2>1, <2>3, <2>5 DEF Len8
  <2> QED
    BY <2>4, <2>5
<1> QED
  BY <1>1, DataHolds, PTL

\* For every address and count: a read that returned has read the cells it was asked
\* for, in order, and reports the number of transfers that failed.
THEOREM ReadsAreExact == Spec => []ReadExact
<1>1. UInv /\ DInv => ReadExact
  <2> SUFFICES ASSUME DInv, line.cmd = "read", job = Idle, ret >= 0, line.mod \notin Control
               PROVE  /\ line.v * 4 < Word =>
                           /\ line.mod \in Wide => Len(sent) = line.v
                           /\ line.mod \in Narrow => Len(sent) >= line.v
                      /\ \A i \in DOMAIN sent :
                           Cell(sent[i].p)
                             = <<line.mod, (line.addr + (i - 1) * Inc(line.mod)) % Word>>
                      /\ ret = Cardinality({i \in DOMAIN sent : sent[i].outcome # "full"})
    BY DEF ReadExact
  <2>1. DOMAIN sent = 1..Len(sent) /\ Len(sent) \in Nat
    BY LenProperties DEF DInv, Talk, Requests
  <2>2. /\ line.mod \in rw_sub_cmds /\ Len(sent) = Times(line.mod, line.v)
        /\ ret = Cardinality(Failures)
        /\ \A i \in 1..Len(sent) : sent[i].p = ReadAt(i)
    BY DEF DInv, Talk, Reading
  <2>3. line.addr \in Nat /\ line.v \in Nat
    BY Widths DEF DInv, Talk, LineShape
  <2>4. ASSUME NEW i \in DOMAIN sent
        PROVE  Cell(sent[i].p) = <<line.mod, (line.addr + (i - 1) * Inc(line.mod)) % Word>>
    <3>1. i \in Nat \ {0} /\ sent[i].p = ReadAt(i)
      BY <2>1, <2>2
    <3>2. ASSUME NEW mod \in rw_sub_cmds, NEW addr \in Nat, NEW j \in Nat \ {0}
          PROVE  LET a == (addr + (j - 1) * Inc(mod)) % Word
                 IN  Cell(Setup(mod, a, Len8(mod), <<>>)) = <<mod, a>>
      BY ReadCell
    <3> QED
      BY <2>2, <2>3, <3>1, <3>2 DEF ReadAt
  <2>5. line.v * 4 < Word =>
          /\ line.mod \in Wide => Len(sent) = line.v
          /\ line.mod \in Narrow => Len(sent) >= line.v
    <3>1. ASSUME line.v * 4 < Word
          PROVE  Len(sent) = line.v \/ (line.mod \notin Wide /\ Len(sent) >= line.v)
      <4>1. (line.v * 4) % Word = line.v * 4
        <5>1. \A a \in Nat : a < Word => a % Word = a
          BY Widths
        <5> QED
          BY <2>3, <3>1, <5>1
      <4>2. Len(sent) = (line.v * 4) \div Len8(line.mod)
        BY <2>2, <4>1 DEF Times
      <4>3. Len8(line.mod) = 4 \/ (Len8(line.mod) = 2 /\ line.mod \notin Wide)
        BY <2>2 DEF Len8, Narrow, Wide
      <4> QED
        BY <2>3, <4>2, <4>3
    <3> QED
      BY <2>1, <2>3, <3>1
  <2>6. Failures = {i \in DOMAIN sent : sent[i].outcome # "full"}
    BY <2>1 DEF Failures
  <2>7. ret = Cardinality({i \in DOMAIN sent : sent[i].outcome # "full"})
    BY <2>2, <2>6, Zenon
  <2> QED
    BY <2>4, <2>5, <2>7, Zenon
<1> QED
  BY <1>1, DataHolds, PTL

\* For every value and every cell: what a read shows is what was last written there
\* by a complete write, cut to the width of the cell.
THEOREM WrittenIsRead == Spec => []ReadsBack
<1>1. UInv /\ DInv => ReadsBack
  BY DEF DInv, Talk
<1> QED
  BY <1>1, DataHolds, PTL

-----------------------------------------------------------------------------
(***************************************************************************)
(* What a step may never do: which device a transfer reaches, which device *)
(* a bind leaves bound, and what an fm query can change.                   *)
(***************************************************************************)

\* The device that usbctrl names.
Bound == <<ctrl.vid, ctrl.pid>>

\* The memory and the settings of a device change only by a transfer to it while it is
\* the bound one, or when it joins the bus.
TouchesOnlyBound ==
    \A d \in Devices : mem'[d] # mem[d] \/ fm'[d] # fm[d] =>
        \/ ctrl.bind = 1 /\ job # Idle /\ d = Bound
        \/ d \in bus' \ bus

\* A bind that returns 0 leaves a device bound, the one typed if none was bound before,
\* and no command replaces the device that is bound.
BindKeepsItsWord ==
    /\ n' # n /\ line'.cmd = "bind" /\ ret' = 0 =>
            ctrl'.bind = 1 /\ (ctrl.bind = 0 => Bound' = <<line'.vid, line'.pid>>)
    /\ ctrl.bind = 1 /\ ctrl'.bind = 1 => ctrl' = ctrl

\* A query of the receiver leaves its settings alone, except that band and mute may clear
\* the setting that has the number of the query.
Query ==
    /\ job # Idle /\ job.cmd = "fm" /\ line.arg = Missing
    /\ line.sub \in {"volume", "channel", "band", "mute"}
QueryMisses ==
    Query => \/ fm' = fm
             \/ line.sub = "band" /\ fm' = [fm EXCEPT ![Bound][GET_BAND] = 0]
             \/ line.sub = "mute" /\ fm' = [fm EXCEPT ![Bound][GET_MUTE_STATE] = 0]

\* The transfers of an fm job are those of the sub-command that was typed; only test has
\* more than one.
FmJob ==
    job # Idle /\ job.cmd = "fm" =>
        /\ line.sub \in fm_sub_cmds
        /\ line.sub # "test" => job.todo = FmTransfers(line.sub, line.arg)

\* A sub-command other than test makes one transfer.
LEMMA FmOneTransfer ==
    ASSUME NEW sub \in fm_sub_cmds \ {"test"}, NEW arg
    PROVE  \E p : FmTransfers(sub, arg) = <<p>>
  BY DEF fm_sub_cmds, FmTransfers

\* The job of an fm command stays the one typed: it is over with its one transfer.
LEMMA StepFmJob == UInv /\ DInv /\ FmJob /\ [Next]_vars => FmJob'
<1> SUFFICES ASSUME UInv, DInv, FmJob, [Next]_vars
             PROVE  FmJob'
  OBVIOUS
<1>1. CASE job' = Idle
  BY <1>1 DEF FmJob
<1>2. CASE UNCHANGED <<job, line>>
  BY <1>2 DEF FmJob
<1>3. CASE usb_cmd_register \/ usb_cmd_unregister \/ Plug \/ Unplug \/ UNCHANGED vars
  BY <1>2, <1>3 DEF usb_cmd_register, usb_cmd_unregister, Plug, Unplug, vars
<1>4. CASE usb_handle_cmd_list \/ usb_handle_cmd_test
  BY <1>1, <1>4 DEF usb_handle_cmd_list, usb_handle_cmd_test, Return
<1>5. CASE usb_handle_cmd_bind
  BY <1>1, <1>5 DEF usb_handle_cmd_bind, bind, Return
<1>6. CASE usb_handle_cmd_rw
  <2>1. job' = Idle \/ job'.cmd \in {"read", "write"}
    BY <1>6 DEF usb_handle_cmd_rw, Return, Start
  <2> QED
    BY <2>1 DEF FmJob
<1>7. CASE usb_handle_cmd_fm
  <2>1. PICK sub \in fm_sub_cmds \cup {"none", "bad"}, arg2 \in Values \cup {Missing} :
          LET arg == IF arg2 = Missing THEN Missing ELSE arg2 % Half
          IN  /\ Type([cmd |-> "fm", sub |-> sub, arg |-> arg])
              /\ IF ctrl.bind = 0 THEN Return(-1)
                 ELSE IF sub = "none" THEN Return(-2)
                 ELSE IF sub = "bad" THEN Return(-3)
                 ELSE Start("fm", FmTransfers(sub, arg))
    BY <1>7 DEF usb_handle_cmd_fm
  <2> DEFINE arg == IF arg2 = Missing THEN Missing ELSE arg2 % Half
  <2>2. line' = [cmd |-> "fm", sub |-> sub, arg |-> arg]
    BY <2>1 DEF Type
  <2>3. job' = Idle \/ (sub \in fm_sub_cmds /\ Start("fm", FmTransfers(sub, arg)))
    BY <2>1 DEF Return
  <2> HIDE DEF arg
  <2>4. CASE sub \in fm_sub_cmds /\ Start("fm", FmTransfers(sub, arg))
    <3>1. job' = Idle \/ job' = [cmd |-> "fm", todo |-> FmTransfers(sub, arg), err |-> 0]
      BY <2>4 DEF Start
    <3> QED
      BY <2>2, <2>4, <3>1 DEF FmJob
  <2> QED
    BY <1>1, <2>3, <2>4
<1>8. CASE Transfer
  <2>1. PICK outcome \in Outcomes : Sending(job.todo[1], outcome)
    BY <1>8, TransferIs
  <2>2. job # Idle /\ line' = line
    BY <1>8 DEF Transfer
  <2>3. CASE job.cmd = "fm" /\ line.sub # "test"
    <3>1. Len(job.todo) = 1
      <4>1. line.sub \in fm_sub_cmds \ {"test"} /\ job.todo = FmTransfers(line.sub, line.arg)
        BY <2>2, <2>3 DEF FmJob
      <4>2. PICK p : job.todo = <<p>>
        BY <4>1, FmOneTransfer
      <4> QED
        BY <4>2
    <3> QED
      BY <1>1, <2>1, <3>1 DEF Sending, Return
  <2>4. CASE ~ (job.cmd = "fm" /\ line.sub # "test")
    <3>1. job' = Idle \/ job'.cmd = job.cmd
      <4>1. job \in [cmd : {"read", "write", "fm"}, todo : Seq(Packets) \ {<<>>}, err : Nat]
        BY <2>2 DEF DInv, Talk, JobType
      <4> QED
        BY <2>1, <4>1 DEF Sending, Return
    <3> QED
      BY <2>2, <2>4, <3>1 DEF FmJob
  <2> QED
    BY <2>3, <2>4
<1> QED
  BY <1>3, <1>4, <1>5, <1>6, <1>7, <1>8 DEF Next

\* The three invariants hold of every reachable state.
LEMMA FmHolds == Spec => [](UInv /\ DInv /\ FmJob)
<1>1. Init => FmJob
  BY DEF Init, FmJob
<1> QED
  BY <1>1, DataHolds, StepFmJob, PTL DEF Spec

\* What a transfer does to a device, it does to the one that usbctrl names.
LEMMA TransferReachesBound ==
    ASSUME UInv, DInv, Transfer
    PROVE  /\ ctrl.bind = 1 /\ job # Idle /\ Bound \in Devices
           /\ UNCHANGED <<mem, fm>> \/ Effect(Bound, job.todo[1])
           /\ \A d \in Devices \ {Bound} : mem'[d] = mem[d] /\ fm'[d] = fm[d]
<1>1. PICK outcome \in Outcomes : Sending(job.todo[1], outcome)
  BY TransferIs
<1>2. ctrl.bind = 1 /\ job # Idle /\ of[ctrl.handle] \in Devices
  BY TransferIs
<1>3. Bound = of[ctrl.handle]
  BY <1>2 DEF UInv, HandleOwned, Bound
<1>4. UNCHANGED <<mem, fm>> \/ Effect(Bound, job.todo[1])
  BY <1>1, <1>3 DEF Sending
<1>5. ASSUME NEW d \in Devices \ {Bound}
      PROVE  mem'[d] = mem[d] /\ fm'[d] = fm[d]
  <2>1. mem = [x \in Devices |-> mem[x]] /\ fm = [x \in Devices |-> fm[x]]
    BY DEF DInv, Books
  <2> QED
    BY <1>4, <2>1 DEF Effect, Store
<1> QED
  BY <1>2, <1>3, <1>4, <1>5

\* Every other step but that of a device which joins the bus leaves the devices alone.
LEMMA OthersTouchNothing ==
    ASSUME Next, ~Transfer, ~Plug
    PROVE  UNCHANGED <<mem, fm>>
<1> USE DEF devVars
<1>1. CASE usb_cmd_register \/ usb_cmd_unregister
  BY <1>1 DEF usb_cmd_register, usb_cmd_unregister
<1>2. CASE usb_handle_cmd_list
  BY <1>2 DEF usb_handle_cmd_list
<1>3. CASE usb_handle_cmd_test
  BY <1>3 DEF usb_handle_cmd_test
<1>4. CASE usb_handle_cmd_bind
  BY <1>4 DEF usb_handle_cmd_bind
<1>5. CASE usb_handle_cmd_rw
  BY <1>5 DEF usb_handle_cmd_rw
<1>6. CASE usb_handle_cmd_fm
  BY <1>6 DEF usb_handle_cmd_fm
<1>7. CASE Unplug
  BY <1>7 DEF Unplug
<1> QED
  BY <1>1, <1>2, <1>3, <1>4, <1>5, <1>6, <1>7 DEF Next

\* Whatever is typed, bound and unbound, and whichever devices come and go: a transfer
\* reaches no device but the one usbctrl names, also after a device was bound again.
THEOREM OnlyBoundIsTouched == Spec => [][TouchesOnlyBound]_vars
<1>1. UInv /\ DInv /\ [Next]_vars => [TouchesOnlyBound]_vars
  <2> SUFFICES ASSUME UInv, DInv, Next, NEW d \in Devices,
                      mem'[d] # mem[d] \/ fm'[d] # fm[d]
               PROVE  \/ ctrl.bind = 1 /\ job # Idle /\ d = Bound
                      \/ d \in bus' \ bus
    BY DEF TouchesOnlyBound
  <2>1. CASE Transfer
    BY <2>1, TransferReachesBound
  <2>2. CASE Plug
    <3>1. PICK e \in Devices \ bus : bus' = bus \cup {e} /\ mem' = [mem EXCEPT ![e] = <<>>]
                                     /\ fm' = fm
      BY <2>2 DEF Plug
    <3>2. mem = [x \in Devices |-> mem[x]]
      BY DEF DInv, Books
    <3>3. d = e
      BY <3>1, <3>2
    <3> QED
      BY <3>1, <3>3
  <2>3. CASE ~Transfer /\ ~Plug
    BY <2>3, OthersTouchNothing
  <2> QED
    BY <2>1, <2>2, <2>3
<1> QED
  BY <1>1, DataHolds, PTL DEF Spec

\* The help of bind, as far as it holds: a bind that succeeds while no device is bound
\* binds the device typed, and until an unbind no command turns usbctrl to another.
THEOREM BindsWhatIsFree == Spec => [][BindKeepsItsWord]_vars
<1>1. UInv /\ [Next]_vars => [BindKeepsItsWord]_vars
  <2> SUFFICES ASSUME UInv, Next
               PROVE  BindKeepsItsWord
    OBVIOUS
  <2>0. ctrl.bind \in {0, 1}
    BY DEF UInv, CtrlShape
  <2>1. CASE usb_handle_cmd_bind
    <3>1. PICK vid \in Vids \cup {Missing}, pid \in Pids \cup {Missing} :
            \/ /\ Type([cmd |-> "bind", vid |-> Given(vid, DefVid),
                        pid |-> Given(pid, DefPid)])
               /\ bind(Given(vid, DefVid), Given(pid, DefPid))
            \/ /\ Type([cmd |-> "unbind"])
               /\ unbind(Given(vid, DefVid), Given(pid, DefPid))
      BY <2>1 DEF usb_handle_cmd_bind
    <3> DEFINE v == Given(vid, DefVid)
               p == Given(pid, DefPid)
    <3> HIDE DEF v, p
    <3>2. CASE Type([cmd |-> "bind", vid |-> v, pid |-> p]) /\ bind(v, p)
      <4>1. line' = [cmd |-> "bind", vid |-> v, pid |-> p]
        BY <3>2 DEF Type
      <4>2. CASE ctrl.bind = 1
        <5>1. ctrl' = ctrl
          BY <3>2, <4>2 DEF bind
        <5> QED
          BY <4>2, <5>1 DEF BindKeepsItsWord
      <4>3. CASE ctrl.bind = 0
        <5>1. ret' = -1 \/ (\E h : ctrl' = [bind |-> 1, handle |-> h, vid |-> v, pid |-> p])
          BY <3>2, <4>3 DEF bind, Return
        <5> QED
          BY <4>1, <4>3, <5>1 DEF BindKeepsItsWord, Bound
      <4> QED
        BY <2>0, <4>2, <4>3
    <3>3. CASE Type([cmd |-> "unbind"]) /\ unbind(v, p)
      <4>1. line'.cmd = "unbind" /\ (ctrl' = ctrl \/ ctrl'.bind = 0)
        BY <3>3 DEF Type, unbind
      <4> QED
        BY <4>1 DEF BindKeepsItsWord
    <3> QED
      BY <3>1, <3>2, <3>3 DEF v, p
  <2>2. CASE UNCHANGED <<ctrl, n>>
    BY <2>2 DEF BindKeepsItsWord
  <2>3. CASE usb_cmd_register \/ usb_cmd_unregister
    <3>1. n' = n /\ (ctrl' = ctrl \/ ctrl'.bind = 0)
      BY <2>3 DEF usb_cmd_register, usb_cmd_unregister, Leave, unbind
    <3> QED
      BY <3>1 DEF BindKeepsItsWord
  <2>4. CASE usb_handle_cmd_list \/ usb_handle_cmd_test \/ usb_handle_cmd_rw
             \/ usb_handle_cmd_fm
    <3>1. ctrl' = ctrl
      <4>1. CASE usb_handle_cmd_list \/ usb_handle_cmd_test
        BY <4>1 DEF usb_handle_cmd_list, usb_handle_cmd_test, ctrlVars
      <4>2. CASE usb_handle_cmd_rw
        BY <4>2 DEF usb_handle_cmd_rw, ctrlVars
      <4>3. CASE usb_handle_cmd_fm
        BY <4>3 DEF usb_handle_cmd_fm, ctrlVars
      <4> QED
        BY <2>4, <4>1, <4>2, <4>3
    <3>2. line'.cmd # "bind"
      <4>1. CASE usb_handle_cmd_list
        BY <4>1 DEF usb_handle_cmd_list, Type
      <4>2. CASE usb_handle_cmd_test
        BY <4>2 DEF usb_handle_cmd_test, Type
      <4>3. CASE usb_handle_cmd_rw
        <5>1. \E cmd \in {"read", "write"} : line'.cmd = cmd
          BY <4>3 DEF usb_handle_cmd_rw, Type
        <5> QED
          BY <5>1
      <4>4. CASE usb_handle_cmd_fm
        BY <4>4 DEF usb_handle_cmd_fm, Type
      <4> QED
        BY <2>4, <4>1, <4>2, <4>3, <4>4
    <3> QED
      BY <3>1, <3>2 DEF BindKeepsItsWord
  <2>5. CASE Transfer \/ Plug \/ Unplug
    BY <2>2, <2>5 DEF Transfer, Plug, Unplug, ctrlVars
  <2> QED
    BY <2>1, <2>3, <2>4, <2>5 DEF Next
<1> QED
  BY <1>1, InitUInv, StepUInv, PTL DEF Spec

\* The help of fm, as far as it holds: a query of the volume or of the channel changes no
\* setting; one of the band or of the mute state can change one setting of the bound
\* device, the one that has the number of the query, and only to 0.
THEOREM QueriesMissByOne == Spec => [][QueryMisses]_vars
<1>1. UInv /\ DInv /\ FmJob /\ [Next]_vars => [QueryMisses]_vars
  <2> SUFFICES ASSUME UInv, DInv, FmJob, Next, Query
               PROVE  \/ fm' = fm
                      \/ line.sub = "band" /\ fm' = [fm EXCEPT ![Bound][GET_BAND] = 0]
                      \/ line.sub = "mute" /\ fm' = [fm EXCEPT ![Bound][GET_MUTE_STATE] = 0]
    BY DEF QueryMisses
  <2>1. CASE ~Transfer
    BY <2>1, OthersTouchNothing DEF Plug
  <2>2. CASE Transfer
    <3>1. job.todo = FmTransfers(line.sub, Missing)
      BY DEF Query, FmJob
    <3>2. fm' = fm \/ Effect(Bound, job.todo[1])
      BY <2>2, TransferReachesBound
    <3>3. CASE line.sub \in {"volume", "channel"}
      <4>1. job.todo[1].bRequest = "FM_GET"
        BY <3>1, <3>3 DEF FmTransfers, usb_fm_cmd_volume, usb_fm_cmd_channel, FmSetup
      <4> QED
        BY <3>2, <4>1 DEF Effect
    <3>4. CASE line.sub = "band"
      <4>1. job.todo[1].wValue = GET_BAND /\ job.todo[1].wIndex = 0
        BY <3>1, <3>4 DEF FmTransfers, usb_fm_cmd_band, FmSetup
      <4> QED
        BY <3>2, <3>4, <4>1 DEF Effect
    <3>5. CASE line.sub = "mute"
      <4>1. job.todo[1].wValue = GET_MUTE_STATE /\ job.todo[1].wIndex = 0
        BY <3>1, <3>5 DEF FmTransfers, usb_fm_cmd_mute, FmSetup
      <4> QED
        BY <3>2, <3>5, <4>1 DEF Effect
    <3> QED
      BY <3>3, <3>4, <3>5 DEF Query
  <2> QED
    BY <2>1, <2>2
<1> QED
  BY <1>1, FmHolds, PTL DEF Spec
=============================================================================
