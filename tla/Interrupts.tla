------------------------------- MODULE Interrupts ------------------------------
(***************************************************************************)
(* Interrupt dispatch: the gates init_intr sets, handle_interrupt (intr.c) *)
(* and the two interrupt controllers, with devices that raise their lines  *)
(* at any time from init_intr's sti on.                                    *)
(*                                                                         *)
(* The controllers are modelled from how the code programs them: vectors   *)
(* from 0x20, the slave on line 2, nothing masked, an interrupt in service *)
(* until an end-of-interrupt command, which ends the one of the highest    *)
(* priority in service.  What SVGA does to it, which comes back from the   *)
(* BIOS with interrupts on, is KernelStack's subject.                      *)
(***************************************************************************)
EXTENDS Integers, Sequences

CONSTANT Lines      \* the lines on which devices raise interrupts

IRQ == 0 .. 15

ASSUME LinesAssumption == Lines \subseteq IRQ

VARIABLES
  irr,          \* interrupts that are pending
  isr,          \* the master's lines in service
  slave_isr,    \* the slave's interrupts in service
  iflag,        \* the processor's interrupt flag, IF
  active,       \* the handlers that run, the innermost first
  init,         \* how far init() is: before "tasks" no task is linked
  halted        \* an exception or a tick without a task has ended it all

picVars == <<irr, isr, slave_isr>>
interruptVars == <<picVars, iflag, active, init, halted>>

\* A running handler: its vector, how far it is, and the IF it goes back to.
Step  == {"call", "eoi", "eoi2", "syscall", "iret"}
Frame == [vector : 0 .. 255, step : Step, eflags : BOOLEAN]

InterruptsTypeOK ==
  /\ irr \subseteq IRQ
  /\ isr \subseteq 0 .. 7
  /\ slave_isr \subseteq 8 .. 15
  /\ iflag \in BOOLEAN
  /\ active \in Seq(Frame)
  /\ init \in {"devices", "tasks"}
  /\ halted \in BOOLEAN

\* init_intr has executed sti.
InterruptsInit ==
  /\ irr = {}
  /\ isr = {}
  /\ slave_isr = {}
  /\ iflag = TRUE
  /\ active = << >>
  /\ init = "devices"
  /\ halted = FALSE

--------------------------------------------------------------------------------
(* The controllers.                                                        *)

Vector(irq) == 32 + irq

\* The master's line an interrupt comes through.
Master(irq) == IF irq >= 8 THEN 2 ELSE irq

\* A controller lets an interrupt through when none of its own or a higher
\* priority is in service.
Passes(irq) ==
  /\ \A n \in isr : Master(irq) < n
  /\ irq >= 8 => \A n \in slave_isr : irq < n

\* The higher priority: line 0 first, the slave's lines where line 2 is.
Above(a, b) == Master(a) < Master(b) \/ (Master(a) = Master(b) /\ a < b)

Highest(inService) == {n \in inService : \A m \in inService : n <= m}

Raise ==
  /\ \E irq \in Lines : irr' = irr \cup {irq}
  /\ UNCHANGED <<isr, slave_isr, iflag, active, init, halted>>

--------------------------------------------------------------------------------
(* The gates.                                                              *)

\* The vectors init_intr sets an entry for.
Gates == (0 .. 18) \cup {32, 33, 48}

\* Mutant: trap gates, which leave IF alone.
Enter_TrapGate(vector, step) ==
  /\ active' = <<[vector |-> vector, step |-> step, eflags |-> iflag]>> \o active
  /\ UNCHANGED iflag

\* An interrupt gate clears IF.
Enter(vector, step) ==
  /\ active' = <<[vector |-> vector, step |-> step, eflags |-> iflag]>> \o active
  /\ iflag' = FALSE

\* The processor acknowledges an interrupt.  Without a gate for its vector
\* it raises an exception, whose handler stops: cli; hlt.
Deliver(irq) ==
  /\ ~halted
  /\ iflag
  /\ irq \in irr
  /\ Passes(irq)
  /\ \A other \in irr : ~Above(other, irq)
  /\ irr' = irr \ {irq}
  /\ isr' = isr \cup {Master(irq)}
  /\ slave_isr' = IF irq >= 8 THEN slave_isr \cup {irq} ELSE slave_isr
  /\ IF Vector(irq) \in Gates
       THEN Enter(Vector(irq), "call") /\ UNCHANGED halted
       ELSE /\ halted' = TRUE
            /\ iflag' = FALSE
            /\ UNCHANGED active
  /\ UNCHANGED init

--------------------------------------------------------------------------------
(* init(), with interrupts on.                                             *)

Idle == ~halted /\ active = << >>

\* init_keyboard, init_pit and init_multitasking, which links a task.
InitMultitasking ==
  /\ Idle
  /\ init = "devices"
  /\ init' = "tasks"
  /\ UNCHANGED <<picVars, iflag, active, halted>>

--------------------------------------------------------------------------------
(* handle_interrupt.                                                       *)

Running(step) == ~halted /\ active # << >> /\ Head(active).step = step

Goto(step) == active' = [active EXCEPT ![1].step = step]

Timer == Running("call") /\ Head(active).vector = 32

\* schedule() finds no task: none is linked yet, or the last one has left.
\* The kernel goes on through NULL, which is Tasks' matter.
NoTask ==
  /\ Timer
  /\ halted' = TRUE
  /\ UNCHANGED <<picVars, iflag, active, init>>

\* schedule(), for the timer; the registered handler, if there is one.
Call ==
  /\ Running("call")
  /\ Timer => init = "tasks"
  /\ Goto("eoi")
  /\ UNCHANGED <<picVars, iflag, init, halted>>

\* Mutant: the end of an interrupt goes to the slave only.
EndOfInterrupt_Slave ==
  /\ Running("eoi") \/ Running("eoi2")
  /\ slave_isr' = slave_isr \ Highest(slave_isr)
  /\ Goto(IF Running("eoi") THEN "eoi2" ELSE "iret")
  /\ UNCHANGED <<irr, isr, iflag, init, halted>>

\* The slave, if it is the slave's, and the master get the command; then the
\* master gets it again.
EndOfInterrupt ==
  /\ Running("eoi") \/ Running("eoi2")
  /\ slave_isr' = IF Running("eoi") /\ Head(active).vector >= 40
                    THEN slave_isr \ Highest(slave_isr)
                    ELSE slave_isr
  /\ isr' = isr \ Highest(isr)
  /\ Goto(IF Running("eoi") THEN "eoi2" ELSE "iret")
  /\ UNCHANGED <<irr, iflag, init, halted>>

\* The stub: back to where the interrupt came, or to another task's program.
Iret ==
  /\ Running("iret")
  /\ iflag' = Head(active).eflags
  /\ active' = Tail(active)
  /\ UNCHANGED <<picVars, init, halted>>

--------------------------------------------------------------------------------
(* Programs: int 0x30, and exceptions.                                     *)

Syscall ==
  /\ Idle
  /\ init = "tasks"
  /\ Enter(48, "syscall")
  /\ UNCHANGED <<picVars, init, halted>>

SyscallDone ==
  /\ Running("syscall")
  /\ Goto("iret")
  /\ UNCHANGED <<picVars, iflag, init, halted>>

\* It prints and stops: cli; hlt.
Exception ==
  /\ Idle
  /\ halted' = TRUE
  /\ iflag' = FALSE
  /\ UNCHANGED <<picVars, active, init>>

StayHalted == halted /\ UNCHANGED interruptVars

HandlerStep == Call \/ EndOfInterrupt \/ Iret \/ SyscallDone

InterruptsNext ==
  \/ Raise
  \/ \E irq \in IRQ : Deliver(irq)
  \/ InitMultitasking
  \/ HandlerStep \/ NoTask
  \/ Syscall \/ Exception \/ StayHalted

InterruptsSpec == InterruptsInit /\ [][InterruptsNext]_interruptVars

(***************************************************************************)
(* Fairness.  Handlers run on, but for GETCHAR, whose end is the user's    *)
(* matter and which this module does not tell from other system calls: its *)
(* waiting is in Tasks and Keyboard.  A pending interrupt stays pending    *)
(* until the processor takes it, and devices are slow, the timer at 28 Hz  *)
(* first of all: if interrupts are on again and again, then at some of     *)
(* these times none of a higher priority is pending.                       *)
(***************************************************************************)
InterruptsFairSpec ==
  /\ InterruptsSpec
  /\ WF_interruptVars(HandlerStep \/ NoTask)
  /\ \A irq \in Lines :
       /\ SF_interruptVars(Deliver(irq))
       /\ []<>iflag => []<>(iflag /\ \A other \in irr : ~Above(other, irq))

--------------------------------------------------------------------------------
(* Properties                                                              *)

\* The interrupts whose handlers have not yet sent their first command.
Unfinished ==
  {active[i].vector - 32 : i \in {j \in DOMAIN active :
     active[j].step \in {"call", "eoi"}}}

\* What the controllers hold in service is what handlers are still to end.
InService ==
  ~halted =>
    /\ isr = {Master(irq) : irq \in Unfinished}
    /\ slave_isr \subseteq Unfinished

\* Though the command is sent twice and names no interrupt, a handler ends
\* none but its own.
EndsOwn ==
  [][isr \ isr' # {} => isr \ isr' = {Master(Head(active).vector - 32)}]_interruptVars

\* The handler of every interrupt runs to its end, if the kernel does not stop:
\* none is left in service for ever and blocks others, and no flow of system
\* calls keeps one out.
IrqServed ==
  \A irq \in Lines :
    irq \in irr ~> halted \/ (Running("iret") /\ Head(active).vector = Vector(irq))
================================================================================
