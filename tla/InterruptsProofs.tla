----------------------------- MODULE InterruptsProofs --------------------------
(***************************************************************************)
(* For any set of devices: what the controllers hold in service is what    *)
(* the running handler is still to end, and no handler ends another's.     *)
(***************************************************************************)
EXTENDS Interrupts, TLAPS

\* No handler runs, and interrupts are on.
Rest ==
  /\ active = << >>
  /\ iflag = TRUE
  /\ isr = {}
  /\ slave_isr = {}

\* The handler f runs alone, and interrupts are off.  Only the timer's or the
\* keyboard's interrupt may be in service, until the first command.
Serves(f) ==
  /\ active = <<f>>
  /\ f.eflags = TRUE
  /\ iflag = FALSE
  /\ slave_isr = {}
  /\ \/ /\ f.step \in {"call", "eoi"}
        /\ f.vector \in {32, 33}
        /\ isr = {f.vector - 32}
     \/ /\ f.step \in {"eoi2", "syscall", "iret"}
        /\ isr = {}

Serving == \E f \in Frame : Serves(f)

IInv == InterruptsTypeOK /\ (~halted => Rest \/ Serving)

--------------------------------------------------------------------------------

LEMMA HighestOfOne == \A n \in Int : Highest({n}) = {n} /\ Highest({}) = {}
  BY DEF Highest

\* InterruptsTypeOK and the invariant hold at first.
LEMMA InitInv == InterruptsInit => IInv
<1> SUFFICES ASSUME InterruptsInit PROVE IInv
  OBVIOUS
<1>1. active \in Seq(Frame)
  BY DEF InterruptsInit
<1>2. InterruptsTypeOK
  BY <1>1, Zenon DEF InterruptsInit, InterruptsTypeOK
<1> QED
  BY <1>2 DEF InterruptsInit, IInv, Rest

\* What an action that finds no handler running, or one, knows.
LEMMA RestWhenEmpty ==
  ASSUME IInv, ~halted, active = << >>
  PROVE  Rest
  BY DEF IInv, Serving, Serves

LEMMA ServingWhenRunning ==
  ASSUME IInv, NEW step \in Step, Running(step)
  PROVE  \E f \in Frame : Serves(f) /\ f.step = step /\ Head(active) = f /\ ~halted
  BY DEF IInv, Rest, Running, Serving, Serves

\* What Goto does to the handler that runs.
LEMMA GotoStep ==
  ASSUME NEW f \in Frame, active = <<f>>, NEW step \in Step, Goto(step)
  PROVE  /\ active' = <<[f EXCEPT !.step = step]>>
         /\ [f EXCEPT !.step = step] \in Frame
         /\ active' \in Seq(Frame)
  BY DEF Goto, Frame

\* Interrupts are only let in at rest.
LEMMA RestWhenOn ==
  ASSUME IInv, ~halted, iflag
  PROVE  Rest
  BY DEF IInv, Serving, Serves

--------------------------------------------------------------------------------

LEMMA StepInv == IInv /\ [InterruptsNext]_interruptVars => IInv'
<1> SUFFICES ASSUME IInv, [InterruptsNext]_interruptVars PROVE IInv'
  OBVIOUS
<1> USE DEF IRQ, Step
<1>type. InterruptsTypeOK
  BY DEF IInv
<1>1. CASE Raise
  <2>1. irr' \subseteq IRQ
    BY <1>1, <1>type, LinesAssumption DEF Raise, InterruptsTypeOK
  <2> QED
    BY <1>1, <2>1 DEF Raise, IInv, InterruptsTypeOK, Rest, Serving, Serves
<1>2. ASSUME NEW irq \in IRQ, Deliver(irq) PROVE IInv'
  <2>1. Rest /\ ~halted
    BY <1>2, RestWhenOn DEF Deliver
  <2>2. CASE Vector(irq) \in Gates
    <3>1. irq \in {0, 1} /\ Master(irq) = irq /\ Vector(irq) = 32 + irq
      BY <2>2 DEF Vector, Gates, Master
    <3> DEFINE f == [vector |-> Vector(irq), step |-> "call", eflags |-> TRUE]
    <3>2. f \in Frame
      BY <3>1 DEF Frame
    <3>3. /\ active' = <<f>>
          /\ iflag' = FALSE
          /\ isr' = {irq}
          /\ slave_isr' = {}
          /\ irr' \subseteq IRQ
          /\ UNCHANGED <<halted, init>>
      BY <1>2, <1>type, <2>1, <2>2, <3>1 DEF Deliver, Enter, Rest, InterruptsTypeOK
    <3>4. Serving'
      BY <3>1, <3>2, <3>3 DEF Serving, Serves
    <3>5. active' \in Seq(Frame) /\ isr' \subseteq 0 .. 7
      BY <3>1, <3>2, <3>3
    <3>6. InterruptsTypeOK'
      BY <1>type, <3>3, <3>5, Zenon DEF InterruptsTypeOK
    <3> QED
      BY <3>4, <3>6 DEF IInv
  <2>3. CASE Vector(irq) \notin Gates
    <3>1. Master(irq) \in 0 .. 7
      BY DEF Master
    <3>2. UNCHANGED <<active, init>> /\ halted' = TRUE /\ iflag' = FALSE
      BY <1>2, <2>3 DEF Deliver
    <3>3. /\ irr' = irr \ {irq}
          /\ isr' = isr \cup {Master(irq)}
          /\ slave_isr' = IF irq >= 8 THEN slave_isr \cup {irq} ELSE slave_isr
      BY <1>2 DEF Deliver
    <3>4. irr' \subseteq IRQ
      BY <1>type, <3>3 DEF InterruptsTypeOK
    <3>5. isr' \subseteq 0 .. 7
      BY <1>type, <3>1, <3>3 DEF InterruptsTypeOK
    <3>6. slave_isr' \subseteq 8 .. 15
      BY <1>type, <3>3 DEF InterruptsTypeOK
    <3> QED
      BY <1>type, <3>2, <3>4, <3>5, <3>6, Zenon DEF IInv, InterruptsTypeOK
  <2> QED
    BY <2>2, <2>3
<1>3. CASE InitMultitasking
  BY <1>3 DEF InitMultitasking, IInv, InterruptsTypeOK, Rest, Serving, Serves, picVars
<1>4. CASE Call
  <2>1. PICK f \in Frame : Serves(f) /\ f.step = "call" /\ Head(active) = f /\ ~halted
    BY <1>4, ServingWhenRunning DEF Call
  <2> DEFINE g == [f EXCEPT !.step = "eoi"]
  <2>2. active' = <<g>> /\ g \in Frame /\ active' \in Seq(Frame)
    BY <1>4, <2>1, GotoStep DEF Call, Serves
  <2>3. g.step = "eoi" /\ g.vector = f.vector /\ g.eflags = f.eflags
    BY DEF Frame
  <2>4. Serves(g)'
    BY <1>4, <2>1, <2>2, <2>3 DEF Call, Serves, picVars
  <2>5. InterruptsTypeOK'
    BY <1>4, <1>type, <2>2, Zenon DEF Call, InterruptsTypeOK, picVars
  <2> QED
    BY <2>2, <2>4, <2>5 DEF IInv, Serving
<1>5. CASE EndOfInterrupt
  <2>1. PICK f \in Frame : Serves(f) /\ f.step \in {"eoi", "eoi2"} /\ Head(active) = f /\ ~halted
    BY <1>5, ServingWhenRunning DEF EndOfInterrupt
  <2> DEFINE next == IF f.step = "eoi" THEN "eoi2" ELSE "iret"
             g == [f EXCEPT !.step = next]
  <2>2. Goto(next)
    BY <1>5, <2>1 DEF EndOfInterrupt, Running
  <2>3. active' = <<g>> /\ g \in Frame /\ active' \in Seq(Frame)
    BY <2>1, <2>2, GotoStep DEF Serves
  <2>4. g.step = next /\ g.vector = f.vector /\ g.eflags = f.eflags
    BY DEF Frame
  <2>5. isr' = {} /\ slave_isr' = {}
    BY <1>5, <2>1, HighestOfOne DEF EndOfInterrupt, Serves, Running
  <2>6. UNCHANGED <<irr, iflag, init, halted>>
    BY <1>5 DEF EndOfInterrupt
  <2>7. Serves(g)'
    BY <2>1, <2>3, <2>4, <2>5, <2>6 DEF Serves
  <2>8. InterruptsTypeOK'
    BY <1>type, <2>3, <2>5, <2>6, Zenon DEF InterruptsTypeOK
  <2> QED
    BY <2>3, <2>7, <2>8 DEF IInv, Serving
<1>6. CASE Iret
  <2>1. PICK f \in Frame : Serves(f) /\ f.step = "iret" /\ Head(active) = f /\ ~halted
    BY <1>6, ServingWhenRunning DEF Iret
  <2>2. active' = << >> /\ iflag' = TRUE /\ active' \in Seq(Frame)
    BY <1>6, <2>1 DEF Iret, Serves
  <2>3. UNCHANGED <<irr, isr, slave_isr, init, halted>>
    BY <1>6 DEF Iret, picVars
  <2>4. Rest'
    BY <2>1, <2>2, <2>3 DEF Rest, Serves
  <2>5. InterruptsTypeOK'
    BY <1>type, <2>2, <2>3, Zenon DEF InterruptsTypeOK
  <2> QED
    BY <2>4, <2>5 DEF IInv
<1>7. CASE SyscallDone
  <2>1. PICK f \in Frame : Serves(f) /\ f.step = "syscall" /\ Head(active) = f /\ ~halted
    BY <1>7, ServingWhenRunning DEF SyscallDone
  <2> DEFINE g == [f EXCEPT !.step = "iret"]
  <2>2. active' = <<g>> /\ g \in Frame /\ active' \in Seq(Frame)
    BY <1>7, <2>1, GotoStep DEF SyscallDone, Serves
  <2>3. g.step = "iret" /\ g.eflags = f.eflags
    BY DEF Frame
  <2>4. Serves(g)'
    BY <1>7, <2>1, <2>2, <2>3 DEF SyscallDone, Serves, picVars
  <2>5. InterruptsTypeOK'
    BY <1>7, <1>type, <2>2, Zenon DEF SyscallDone, InterruptsTypeOK, picVars
  <2> QED
    BY <2>2, <2>4, <2>5 DEF IInv, Serving
<1>8. CASE NoTask
  BY <1>8 DEF NoTask, IInv, InterruptsTypeOK, picVars
<1>9. CASE Syscall
  <2>1. Rest /\ ~halted
    BY <1>9, RestWhenEmpty DEF Syscall, Idle
  <2> DEFINE f == [vector |-> 48, step |-> "syscall", eflags |-> TRUE]
  <2>2. f \in Frame
    BY DEF Frame
  <2>3. active' = <<f>> /\ iflag' = FALSE /\ UNCHANGED <<irr, isr, slave_isr, init, halted>>
    BY <1>9, <2>1 DEF Syscall, Enter, Rest, picVars
  <2>4. Serves(f)'
    BY <2>1, <2>2, <2>3 DEF Serves, Rest
  <2>5. active' \in Seq(Frame)
    BY <2>2, <2>3
  <2>6. InterruptsTypeOK'
    BY <1>type, <2>3, <2>5, Zenon DEF InterruptsTypeOK
  <2> QED
    BY <2>2, <2>4, <2>6 DEF IInv, Serving
<1>10. CASE Exception
  BY <1>10, <1>type DEF Exception, IInv, InterruptsTypeOK, picVars
<1>11. CASE UNCHANGED interruptVars
  BY <1>11 DEF IInv, InterruptsTypeOK, Rest, Serving, Serves, interruptVars, picVars
<1> QED
  BY <1>1, <1>2, <1>3, <1>4, <1>5, <1>6, <1>7, <1>8, <1>9, <1>10, <1>11
  DEF InterruptsNext, HandlerStep, StayHalted

--------------------------------------------------------------------------------

LEMMA Invariance == InterruptsSpec => []IInv
  BY InitInv, StepInv, PTL DEF InterruptsSpec

\* InterruptsTypeOK, for any devices.
THEOREM TypeCorrect == InterruptsSpec => []InterruptsTypeOK
<1>1. IInv => InterruptsTypeOK
  BY DEF IInv
<1> QED
  BY <1>1, Invariance, PTL

\* handle_interrupt: no interrupt is in service but that of the handler that is
\* still to send its first end-of-interrupt command.
THEOREM InServiceCorrect == InterruptsSpec => []InService
<1>1. IInv => InService
  <2> SUFFICES ASSUME IInv, ~halted PROVE InService
    BY DEF InService
  <2>1. CASE Rest
    BY <2>1 DEF Rest, InService, Unfinished
  <2>2. CASE Serving
    <3>1. PICK f \in Frame : Serves(f)
      BY <2>2 DEF Serving
    <3>2. Unfinished = IF f.step \in {"call", "eoi"} THEN {f.vector - 32} ELSE {}
      BY <3>1 DEF Serves, Unfinished
    <3> QED
      BY <3>1, <3>2 DEF Serves, InService, Master
  <2> QED
    BY <2>1, <2>2 DEF IInv
<1> QED
  BY <1>1, Invariance, PTL

\* intr.c:603-605: the doubled command ends no interrupt but the handler's own.
THEOREM EndsOwnCorrect == InterruptsSpec => EndsOwn
<1> DEFINE A == isr \ isr' # {} => isr \ isr' = {Master(Head(active).vector - 32)}
<1>1. IInv /\ [InterruptsNext]_interruptVars => [A]_interruptVars
  <2> SUFFICES ASSUME IInv, InterruptsNext PROVE A
    OBVIOUS
  <2>1. CASE EndOfInterrupt
    <3>1. PICK f \in Frame : Serves(f) /\ f.step \in {"eoi", "eoi2"} /\ Head(active) = f
      BY <2>1, ServingWhenRunning DEF EndOfInterrupt, Step
    <3>2. isr \ isr' \subseteq isr
      OBVIOUS
    <3>3. f.step = "eoi" => isr = {f.vector - 32} /\ Master(f.vector - 32) = f.vector - 32
      BY <3>1 DEF Serves, Master
    <3>4. f.step = "eoi2" => isr = {}
      BY <3>1 DEF Serves
    <3> QED
      BY <3>1, <3>2, <3>3, <3>4
  <2>2. CASE ~EndOfInterrupt
    <3>1. isr \subseteq isr'
      BY <2>2 DEF InterruptsNext, HandlerStep, StayHalted, Raise, Deliver, InitMultitasking,
        Call, Iret, SyscallDone, NoTask, Syscall, Exception, interruptVars, picVars
    <3> QED
      BY <3>1
  <2> QED
    BY <2>1, <2>2
<1> QED
  BY <1>1, Invariance, PTL DEF InterruptsSpec, EndsOwn
================================================================================
