----------------------------- MODULE KeyboardProofs ----------------------------
(***************************************************************************)
(* Proofs about Keyboard, for any number of presses and any keys without a *)
(* character.                                                              *)
(***************************************************************************)
EXTENDS Keyboard, TLAPS

\* The presses among the bytes that are still to come are in their order, and
\* none of them is older than the byte at the port or than the one a program
\* has got last, which is not newer than the one at the port.
OrderInv ==
  /\ \A i \in DOMAIN queue : queue[i].kind = "make" =>
       /\ queue[i].press <= pressed
       /\ data.kind = "make" => data.press <= queue[i].press
       /\ ebx.kind = "make" => ebx.press <= queue[i].press
       /\ \A j \in DOMAIN queue :
            i <= j /\ queue[j].kind = "make" => queue[i].press <= queue[j].press
  /\ data.kind = "make" => data.press <= pressed
  /\ ebx.kind = "make" => ebx.press <= pressed
  /\ ebx.kind = "make" /\ data.kind = "make" => ebx.press <= data.press

IInv == KeyboardTypeOK /\ NoLostInterrupt /\ OrderInv

--------------------------------------------------------------------------------

LEMMA Bytes ==
  /\ None \in Byte
  /\ Ack \in Byte
  /\ \A n \in Press : Make(n) \in Byte /\ Break(n) \in Byte
BY DEF None, Ack, Make, Break, Byte

LEMMA ByteType ==
  ASSUME NEW b \in Byte
  PROVE  /\ b.kind \in {"make", "break", "ack", "none"}
         /\ b.kind \in {"make", "break"} => b.press \in Press
BY DEF Byte

LEMMA CharType ==
  ASSUME NEW b \in Byte
  PROVE  Char(b) \in 0 .. MaxPress
BY ByteType, KeyboardAssumption DEF Char, Press

LEMMA InitInv == KeyboardInit => IInv
<1> SUFFICES ASSUME KeyboardInit PROVE IInv
  OBVIOUS
<1>1. KeyboardTypeOK
  <2>1. queue \in Seq(Byte)
    BY DEF KeyboardInit
  <2>2. 0 \in 0 .. MaxPress
    BY KeyboardAssumption
  <2> QED
    BY <2>1, <2>2, Bytes DEF KeyboardInit, KeyboardTypeOK, PC
<1>2. NoLostInterrupt
  BY DEF KeyboardInit, NoLostInterrupt
<1>3. None.kind = "none"
  BY DEF None
<1>4. OrderInv
  BY <1>3 DEF KeyboardInit, OrderInv
<1> QED
  BY <1>1, <1>2, <1>4 DEF IInv

--------------------------------------------------------------------------------

\* Reading the port.
LEMMA InbInv ==
  ASSUME IInv, Inb, UNCHANGED <<queue, pressed>>,
         ebx' \in {ebx, data}
  PROVE  NoLostInterrupt' /\ OrderInv'
<1>1. NoLostInterrupt'
  BY DEF Inb, NoLostInterrupt
<1>2. OrderInv'
  <2>1. CASE ebx' = ebx
    BY <2>1 DEF IInv, Inb, OrderInv
  <2>2. CASE ebx' = data
    <3>1. data.kind = "make" => data.press \in Nat
      BY ByteType, KeyboardAssumption DEF IInv, KeyboardTypeOK, Press
    <3> QED
      BY <2>2, <3>1 DEF IInv, Inb, OrderInv
  <2> QED
    BY <2>1, <2>2
<1> QED
  BY <1>1, <1>2

\* A byte joins the queue: not a press, or the newest.
LEMMA JoinInv ==
  ASSUME IInv, NEW b \in Byte, queue' = Append(queue, b),
         UNCHANGED <<data, full, irr, ebx, unhandled>>,
         \/ b.kind # "make" /\ pressed' = pressed
         \/ b.kind = "make" /\ b.press = pressed' /\ pressed' = pressed + 1
  PROVE  NoLostInterrupt' /\ OrderInv'
<1>1. NoLostInterrupt'
  BY DEF IInv, NoLostInterrupt
<1>2. queue \in Seq(Byte) /\ pressed \in Nat /\ pressed' \in Nat /\ pressed <= pressed'
  BY KeyboardAssumption DEF IInv, KeyboardTypeOK
<1>3. /\ Len(queue) \in Nat
      /\ DOMAIN queue = 1 .. Len(queue)
      /\ DOMAIN queue' = 1 .. Len(queue) + 1
      /\ queue'[Len(queue) + 1] = b
      /\ \A i \in DOMAIN queue : queue'[i] = queue[i]
  BY <1>2
<1>4. /\ \A i \in DOMAIN queue : queue[i].kind = "make" => queue[i].press \in Nat
      /\ data.kind = "make" => data.press \in Nat
      /\ ebx.kind = "make" => ebx.press \in Nat
  <2>1. \A i \in DOMAIN queue : queue[i] \in Byte
    BY <1>2
  <2> QED
    BY <2>1, ByteType, KeyboardAssumption DEF IInv, KeyboardTypeOK, Press
<1>5. OrderInv
  BY DEF IInv
<1>6. data.kind = "make" => data.press <= pressed'
  BY <1>2, <1>4, <1>5 DEF OrderInv
<1>7. ebx.kind = "make" => ebx.press <= pressed'
  BY <1>2, <1>4, <1>5 DEF OrderInv
<1>8. ASSUME NEW i \in DOMAIN queue', queue'[i].kind = "make"
      PROVE  /\ queue'[i].press <= pressed'
             /\ data.kind = "make" => data.press <= queue'[i].press
             /\ ebx.kind = "make" => ebx.press <= queue'[i].press
             /\ \A j \in DOMAIN queue' :
                  i <= j /\ queue'[j].kind = "make" => queue'[i].press <= queue'[j].press
  <2>1. CASE i = Len(queue) + 1
    <3>1. b.kind = "make" /\ b.press = pressed'
      BY <1>3, <1>8, <2>1
    <3>2. \A j \in DOMAIN queue' : i <= j => j = i
      BY <1>3, <2>1
    <3> QED
      BY <1>2, <1>3, <1>6, <1>7, <2>1, <3>1, <3>2
  <2>2. CASE i \in DOMAIN queue
    <3>1. queue'[i] = queue[i] /\ queue[i].press \in Nat /\ queue[i].press <= pressed
      BY <1>3, <1>4, <1>5, <1>8, <2>2 DEF OrderInv
    <3>2. queue[i].press <= pressed'
      BY <1>2, <3>1
    <3>3. ASSUME NEW j \in DOMAIN queue', i <= j, queue'[j].kind = "make"
          PROVE  queue'[i].press <= queue'[j].press
      <4>1. CASE j = Len(queue) + 1
        BY <1>3, <3>1, <3>2, <3>3, <4>1
      <4>2. CASE j \in DOMAIN queue
        BY <1>3, <1>5, <1>8, <3>1, <3>3, <4>2 DEF OrderInv
      <4> QED
        BY <1>3, <4>1, <4>2
    <3> QED
      BY <1>5, <1>8, <2>2, <3>1, <3>2, <3>3 DEF OrderInv
  <2> QED
    BY <1>3, <2>1, <2>2
<1> QED
  BY <1>1, <1>5, <1>6, <1>7, <1>8 DEF OrderInv

\* The first byte of the queue goes to the port.
LEMMA SendInv ==
  ASSUME IInv, Send
  PROVE  NoLostInterrupt' /\ OrderInv'
<1>1. NoLostInterrupt'
  BY DEF Send, NoLostInterrupt
<1>2. queue \in Seq(Byte) /\ queue # << >> /\ data' = Head(queue) /\ queue' = Tail(queue)
  BY DEF IInv, KeyboardTypeOK, Send
<1>3. pressed' = pressed /\ ebx' = ebx
  BY DEF Send, keyVars, kernelVars
<1>4. /\ 1 \in DOMAIN queue
      /\ data' = queue[1]
      /\ \A i \in DOMAIN queue' : i + 1 \in DOMAIN queue /\ queue'[i] = queue[i + 1] /\ i \in Nat /\ 1 <= i + 1
  BY <1>2
<1> QED
  BY <1>1, <1>3, <1>4 DEF IInv, OrderInv

--------------------------------------------------------------------------------
(* The type invariant.                                                     *)

LEMMA StepType ==
  ASSUME KeyboardTypeOK, [KeyboardNext]_keyboardVars
  PROVE  KeyboardTypeOK'
<1> USE DEF keyVars, portVars, kernelVars
<1>1. CASE PressKey
  <2>1. pressed' \in Press
    BY <1>1, KeyboardAssumption DEF PressKey, KeyboardTypeOK, Press
  <2>2. pressed' \in 0 .. MaxPress /\ down' \subseteq Press /\ queue' \in Seq(Byte)
    BY <1>1, <2>1, Bytes DEF PressKey, KeyboardTypeOK, Press
  <2> QED
    BY <1>1, <2>2 DEF PressKey, KeyboardTypeOK
<1>2. CASE ReleaseKey
  <2>1. queue' \in Seq(Byte) /\ down' \subseteq Press
    BY <1>2, Bytes DEF ReleaseKey, KeyboardTypeOK
  <2> QED
    BY <1>2, <2>1 DEF ReleaseKey, KeyboardTypeOK
<1>3. CASE Send
  <2>1. Head(queue) \in Byte /\ Tail(queue) \in Seq(Byte)
    BY <1>3 DEF Send, KeyboardTypeOK
  <2> QED
    BY <1>3, <2>1 DEF Send, KeyboardTypeOK
<1>4. CASE DrainByte
  BY <1>4 DEF DrainByte, Inb, KeyboardTypeOK
<1>5. CASE DrainDone
  BY <1>5 DEF DrainDone, KeyboardTypeOK, PC
<1>6. CASE SendCommand
  <2>1. queue' \in Seq(Byte)
    BY <1>6, Bytes DEF SendCommand, KeyboardTypeOK
  <2> QED
    BY <1>6, <2>1 DEF SendCommand, KeyboardTypeOK, PC
<1>7. CASE Register
  BY <1>7 DEF Register, KeyboardTypeOK, PC
<1>8. CASE Interrupt
  <2>1. Char(data) \in 0 .. MaxPress
    BY CharType DEF KeyboardTypeOK
  <2>2. buff' \in 0 .. MaxPress /\ full' \in BOOLEAN /\ unhandled' \in BOOLEAN /\ data' = data
    BY <1>8, <2>1 DEF Interrupt, Inb, KeyboardTypeOK
  <2> QED
    BY <1>8, <2>2 DEF Interrupt, KeyboardTypeOK
<1>9. CASE Getchar
  BY <1>9 DEF Getchar, KeyboardTypeOK, PC
<1>10. CASE GetcharPoll
  BY <1>10 DEF GetcharPoll, Inb, KeyboardTypeOK, PC
<1>11. CASE Getmov
  BY <1>11 DEF Getmov, Inb, KeyboardTypeOK
<1>12. CASE UNCHANGED keyboardVars
  BY <1>12 DEF keyboardVars, KeyboardTypeOK
<1> QED
  BY <1>1, <1>2, <1>3, <1>4, <1>5, <1>6, <1>7, <1>8, <1>9, <1>10, <1>11, <1>12
     DEF KeyboardNext, Boot

--------------------------------------------------------------------------------
(* The inductive invariant.                                                *)

LEMMA StepInv == IInv /\ [KeyboardNext]_keyboardVars => IInv'
<1> SUFFICES ASSUME IInv, [KeyboardNext]_keyboardVars PROVE IInv'
  OBVIOUS
<1> USE DEF keyVars, portVars, kernelVars
<1>0. KeyboardTypeOK'
  BY StepType DEF IInv
<1>1. CASE PressKey
  <2>1. pressed' \in Press /\ pressed' = pressed + 1 /\ queue' = Append(queue, Make(pressed'))
    BY <1>1, KeyboardAssumption DEF PressKey, IInv, KeyboardTypeOK, Press
  <2>2. Make(pressed') \in Byte /\ Make(pressed').kind = "make" /\ Make(pressed').press = pressed'
    BY <2>1, Bytes DEF Make
  <2>3. UNCHANGED <<data, full, irr, ebx, unhandled>>
    BY <1>1 DEF PressKey
  <2> QED
    BY <1>0, <2>1, <2>2, <2>3, JoinInv DEF IInv
<1>2. CASE ReleaseKey
  <2>1. PICK n \in down : queue' = Append(queue, Break(n))
    BY <1>2 DEF ReleaseKey
  <2>2. Break(n) \in Byte /\ Break(n).kind # "make"
    BY Bytes DEF Break, IInv, KeyboardTypeOK
  <2>3. UNCHANGED <<pressed, data, full, irr, ebx, unhandled>>
    BY <1>2 DEF ReleaseKey
  <2> QED
    BY <1>0, <2>1, <2>2, <2>3, JoinInv DEF IInv
<1>3. CASE Send
  BY <1>0, <1>3, SendInv DEF IInv
<1>4. CASE DrainByte
  BY <1>0, <1>4, InbInv DEF DrainByte, IInv
<1>5. CASE DrainDone
  BY <1>0, <1>5 DEF DrainDone, IInv, NoLostInterrupt, OrderInv
<1>6. CASE SendCommand
  <2>1. queue' = Append(queue, Ack) /\ UNCHANGED <<pressed, data, full, irr, ebx, unhandled>>
    BY <1>6 DEF SendCommand
  <2>2. Ack \in Byte /\ Ack.kind # "make"
    BY Bytes DEF Ack
  <2> QED
    BY <1>0, <2>1, <2>2, JoinInv DEF IInv
<1>7. CASE Register
  BY <1>0, <1>7 DEF Register, IInv, NoLostInterrupt, OrderInv
<1>8. CASE Interrupt
  <2>1. CASE handler
    BY <1>0, <1>8, <2>1, InbInv DEF Interrupt, IInv
  <2>2. CASE ~handler
    BY <1>0, <1>8, <2>2 DEF Interrupt, IInv, NoLostInterrupt, OrderInv
  <2> QED
    BY <2>1, <2>2
<1>9. CASE Getchar
  BY <1>0, <1>9 DEF Getchar, IInv, NoLostInterrupt, OrderInv
<1>10. CASE GetcharPoll
  BY <1>0, <1>10, InbInv DEF GetcharPoll, IInv
<1>11. CASE Getmov
  BY <1>0, <1>11, InbInv DEF Getmov, IInv
<1>12. CASE UNCHANGED keyboardVars
  BY <1>0, <1>12 DEF keyboardVars, IInv, NoLostInterrupt, OrderInv
<1> QED
  BY <1>1, <1>2, <1>3, <1>4, <1>5, <1>6, <1>7, <1>8, <1>9, <1>10, <1>11, <1>12
     DEF KeyboardNext, Boot

\* Types, the interrupt and the order of all bytes together.
THEOREM Invariance == KeyboardSpec => []IInv
BY InitInv, StepInv, PTL DEF KeyboardSpec

\* The type invariant, for any number of presses.
THEOREM TypeCorrect == KeyboardSpec => []KeyboardTypeOK
<1>1. IInv => KeyboardTypeOK
  BY DEF IInv
<1> QED
  BY <1>1, Invariance, PTL

\* A full buffer has its interrupt to come, or it came before there was a
\* handler, for any number of keys, whoever else reads the port.
THEOREM NoLostInterruptCorrect == KeyboardSpec => []NoLostInterrupt
<1>1. IInv => NoLostInterrupt
  BY DEF IInv
<1> QED
  BY <1>1, Invariance, PTL

\* No program ever gets an older key after a newer one.
THEOREM KeysInOrderCorrect == KeyboardSpec => KeysInOrder
<1> DEFINE A == ebx.kind = "make" /\ ebx'.kind = "make" => ebx.press <= ebx'.press
<1>1. IInv /\ [KeyboardNext]_keyboardVars => [A]_keyboardVars
  <2> SUFFICES ASSUME IInv, [KeyboardNext]_keyboardVars PROVE A
    OBVIOUS
  <2>1. ebx.kind = "make" => ebx.press \in Nat
    BY ByteType, KeyboardAssumption DEF IInv, KeyboardTypeOK, Press
  <2>2. ebx' \in {ebx, data}
    BY DEF KeyboardNext, Boot, PressKey, ReleaseKey, Send, DrainByte, DrainDone, SendCommand,
           Register, Interrupt, Getchar, GetcharPoll, Getmov, keyboardVars, kernelVars
  <2>3. CASE ebx' = ebx
    BY <2>1, <2>3
  <2>4. CASE ebx' = data
    BY <2>4 DEF IInv, OrderInv
  <2> QED
    BY <2>2, <2>3, <2>4
<1> QED
  BY <1>1, Invariance, PTL DEF KeyboardSpec, KeysInOrder
================================================================================
