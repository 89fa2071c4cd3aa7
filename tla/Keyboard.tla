-------------------------------- MODULE Keyboard -------------------------------
(***************************************************************************)
(* The keyboard: the controller's one-byte output buffer, and the three    *)
(* that read it: init_keyboard and keyboard_irq_handler (keyboard.c), and  *)
(* the system calls GETCHAR and GETMOV (intr.c), which poll the port with  *)
(* interrupts off.                                                         *)
(*                                                                         *)
(* The keyboard and its controller are modelled from the ports the code    *)
(* uses: port 0x60 returns the byte in the buffer, or the last one again   *)
(* when it is empty; bit 0 of port 0x64 tells which; a byte that enters    *)
(* the empty buffer raises IRQ 1, which the PIC holds while IF = 0.        *)
(***************************************************************************)
EXTENDS Integers, Sequences

CONSTANTS
  MaxPress,     \* bound: number of key presses
  Mute          \* the presses of keys without a character: Ctrl, arrows, ...

ASSUME KeyboardAssumption == MaxPress \in Nat /\ Mute \subseteq 1 .. MaxPress

\* A scancode, with the number of the press it belongs to.  The answer to a
\* command is a byte too, and so is what the port holds at first.
Press == 1 .. MaxPress
Byte  == [kind : {"make", "break"}, press : Press] \cup
         [kind : {"ack", "none"}, press : {0}]
Ack   == [kind |-> "ack", press |-> 0]
Make(n)  == [kind |-> "make", press |-> n]
Break(n) == [kind |-> "break", press |-> n]

\* Mutant: the table is one row off.
Char_NextRow(byte) ==
  IF byte.kind = "make" /\ byte.press \notin Mute THEN byte.press + 1 ELSE 0

\* kbd_scancode and scancode_kbd: of all bytes only those of a printable
\* key's press have a character, which the press stands for; 0 is none.
Char(byte) == IF byte.kind = "make" /\ byte.press \notin Mute THEN byte.press ELSE 0

VARIABLES
  pressed,      \* the number of presses so far
  down,         \* the keys that are down
  queue,        \* bytes the keyboard has yet to send
  data,         \* port 0x60
  full,         \* port 0x64, bit 0
  irr,          \* IRQ 1 is pending
  handler,      \* interrupt_handlers[33] is set
  pc,           \* where init(), then the kernel, is
  buff,         \* keyboard.c's buff
  ebx,          \* the byte the last GETCHAR or GETMOV took its result from
  unhandled     \* history: the byte in the buffer interrupted without effect

keyVars == <<pressed, down, queue>>
portVars == <<data, full, irr>>
kernelVars == <<handler, pc, buff, ebx, unhandled>>
keyboardVars == <<keyVars, portVars, kernelVars>>

\* init_keyboard's three steps; running programs; GETCHAR's loop
PC == {"drain", "command", "register", "run", "getchar"}

KeyboardTypeOK ==
  /\ pressed \in 0 .. MaxPress
  /\ down \subseteq Press
  /\ queue \in Seq(Byte)
  /\ data \in Byte
  /\ full \in BOOLEAN
  /\ irr \in BOOLEAN
  /\ handler \in BOOLEAN
  /\ pc \in PC
  /\ buff \in 0 .. MaxPress
  /\ ebx \in Byte
  /\ unhandled \in BOOLEAN

None == [kind |-> "none", press |-> 0]

\* init() has set up the interrupts and enabled them, and calls
\* init_keyboard; keys may have been pressed before.
KeyboardInit ==
  /\ pressed = 0
  /\ down = {}
  /\ queue = << >>
  /\ data = None
  /\ full = FALSE
  /\ irr = FALSE
  /\ handler = FALSE
  /\ pc = "drain"
  /\ buff = 0
  /\ ebx = None
  /\ unhandled = FALSE

--------------------------------------------------------------------------------
(* The keyboard and the controller.                                        *)

PressKey ==
  /\ pressed < MaxPress
  /\ pressed' = pressed + 1
  /\ down' = down \cup {pressed'}
  /\ queue' = Append(queue, Make(pressed'))
  /\ UNCHANGED <<portVars, kernelVars>>

ReleaseKey ==
  /\ \E n \in down : down' = down \ {n} /\ queue' = Append(queue, Break(n))
  /\ UNCHANGED <<pressed, portVars, kernelVars>>

\* A byte goes into the empty buffer and raises the interrupt.
Send ==
  /\ ~full
  /\ queue # << >>
  /\ data' = Head(queue)
  /\ queue' = Tail(queue)
  /\ full' = TRUE
  /\ irr' = TRUE
  /\ UNCHANGED <<pressed, down, kernelVars>>

\* inb(0x60)
Inb ==
  /\ full' = FALSE
  /\ unhandled' = FALSE
  /\ UNCHANGED data

--------------------------------------------------------------------------------
(* init_keyboard, with interrupts on and without a handler at first.       *)

DrainByte ==
  /\ pc = "drain"
  /\ full
  /\ Inb
  /\ UNCHANGED <<keyVars, irr, handler, pc, buff, ebx>>

\* The buffer is found empty.
DrainDone ==
  /\ pc = "drain"
  /\ ~full
  /\ pc' = "command"
  /\ UNCHANGED <<keyVars, portVars, handler, buff, ebx, unhandled>>

\* send_command(0xF4): the keyboard will acknowledge.
SendCommand ==
  /\ pc = "command"
  /\ queue' = Append(queue, Ack)
  /\ pc' = "register"
  /\ UNCHANGED <<pressed, down, portVars, handler, buff, ebx, unhandled>>

Register ==
  /\ pc = "register"
  /\ handler' = TRUE
  /\ pc' = "run"
  /\ UNCHANGED <<keyVars, portVars, buff, ebx, unhandled>>

--------------------------------------------------------------------------------
(* Interrupt 33.                                                           *)

\* Mutant: the handler finds the character without reading the port.
Interrupt_NoRead ==
  /\ irr
  /\ pc # "getchar"
  /\ irr' = FALSE
  /\ IF handler
       THEN buff' = Char(data) /\ UNCHANGED <<data, full, unhandled>>
       ELSE unhandled' = full /\ UNCHANGED <<data, full, buff>>
  /\ UNCHANGED <<keyVars, handler, pc, ebx>>

Interrupt ==
  /\ irr
  /\ pc # "getchar"
  /\ irr' = FALSE
  /\ IF handler
       THEN Inb /\ buff' = Char(data)
       ELSE unhandled' = full /\ UNCHANGED <<data, full, buff>>
  /\ UNCHANGED <<keyVars, handler, pc, ebx>>

--------------------------------------------------------------------------------
(* The system calls of programs.                                           *)

Getchar ==
  /\ pc = "run"
  /\ pc' = "getchar"
  /\ UNCHANGED <<keyVars, portVars, handler, buff, ebx, unhandled>>

\* Mutant: it waits for buff, as keyboard.c's getchar() does.
GetcharPoll_Buff ==
  /\ pc = "getchar"
  /\ IF buff # 0 THEN pc' = "run" /\ ebx' = Make(buff)
                 ELSE UNCHANGED <<pc, ebx>>
  /\ UNCHANGED <<keyVars, portVars, handler, buff, unhandled>>

\* One iteration: until the port holds a byte with a character, it is not
\* asked whether it is a new one.
GetcharPoll ==
  /\ pc = "getchar"
  /\ Inb
  /\ IF Char(data) # 0 THEN pc' = "run" /\ ebx' = data
                       ELSE UNCHANGED <<pc, ebx>>
  /\ UNCHANGED <<keyVars, irr, handler, buff>>

Getmov ==
  /\ pc = "run"
  /\ Inb
  /\ ebx' = data
  /\ UNCHANGED <<keyVars, irr, handler, pc, buff>>

Boot == DrainByte \/ DrainDone \/ SendCommand \/ Register

KeyboardNext ==
  \/ PressKey \/ ReleaseKey \/ Send
  \/ Boot
  \/ Interrupt
  \/ Getchar \/ GetcharPoll \/ Getmov

KeyboardSpec == KeyboardInit /\ [][KeyboardNext]_keyboardVars

(***************************************************************************)
(* Fairness.  The processor goes on in GETCHAR's loop, and the keyboard    *)
(* sends what it has when the buffer is free.  Nothing is assumed of those *)
(* who press and release keys, nor of programs and the interrupts that     *)
(* come while they run.                                                    *)
(***************************************************************************)
KeyboardFairSpec ==
  /\ KeyboardSpec
  /\ WF_keyboardVars(GetcharPoll)
  /\ WF_keyboardVars(Send)

--------------------------------------------------------------------------------
(* Properties                                                              *)

\* A byte in the buffer has an interrupt to come that will take it out, or
\* found none when there was no handler: however GETCHAR and GETMOV steal
\* bytes from under the interrupt, the line does not go dead.
NoLostInterrupt == full => irr \/ unhandled

\* Programs get keys in the order they were pressed.  They may get one twice
\* and miss some, but an older key never comes back after a newer one.
KeysInOrder ==
  [][ebx.kind = "make" /\ ebx'.kind = "make" => ebx.press <= ebx'.press]_keyboardVars

\* The bytes nobody has read yet.
Unread == IF full THEN <<data>> \o queue ELSE queue

\* A program that waits for a key gets one when a key with a character has
\* been pressed, behind however many bytes without one, though interrupts are
\* off and the interrupt handler has had its share.
GetcharReturns ==
  pc = "getchar" /\ (\E i \in DOMAIN Unread : Char(Unread[i]) # 0) ~> pc # "getchar"
================================================================================
