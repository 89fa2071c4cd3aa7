------------------------------ MODULE KernelStack ------------------------------
(***************************************************************************)
(* The kernel stacks when a system call can be preempted.  SVGA (intr.c)   *)
(* calls the BIOS through int32 (bios.n), which comes back with `sti': the *)
(* rest of the call, its tail, runs in ring 0 with interrupts on.  A tick  *)
(* there leaves no esp and ss in the frame, and tss[1] = new_cpu + 1       *)
(* (intr.c:584) counts on both.                                            *)
(*                                                                         *)
(* A place on a task's kernel stack is its depth: the words between the    *)
(* top of the page and it.  The list of tasks is the business of Tasks;    *)
(* here NTasks of them run in turns and none exits.                        *)
(***************************************************************************)
EXTENDS Integers

CONSTANTS
  NTasks,
  StackWords,   \* the words of a kernel stack: a page
  HandlerWords, \* how deep a handler's calls get below its frame
  TailPoints,   \* how deep the tail may be below the call's beginning
  Handed        \* the pages pmm_alloc has handed out to init_task, in order

FrameWords  == 14   \* struct cpu_state
NestedWords == 12   \* what is pushed of it in ring 0
IretWords   == 5    \* what is left of it for iret

ASSUME StackAssumption ==
  /\ NTasks \in Nat \ {0}
  /\ StackWords \in Nat
  /\ HandlerWords \in Nat
  /\ TailPoints \subseteq IretWords .. FrameWords + HandlerWords
  /\ IretWords \in TailPoints
  /\ FrameWords + HandlerWords \in TailPoints
  /\ Handed \in [1 .. 3 * NTasks -> Nat]

Task == 1 .. NTasks

VARIABLES
  mode,         \* where the processor is
  current_task,
  tss,          \* tss[1]: [of, depth], a place on a task's stack
  sp,           \* the stack pointer in the kernel: a depth
  base,         \* by task: the depth at which its SVGA call began
  cpu_state,    \* by task: the depth of its saved state, when it is not running
  inTail,       \* the tasks whose saved state is that of a tail
  pic,          \* where the controllers' vectors are: "kernel" or "real"
  irr,          \* the timer's interrupt is pending
  scratch,      \* history: the pages int32 has written to
  lost,         \* history: the tasks whose stack has been written over in use
  sunk,         \* history, by task: how many of its calls have been preempted
  counted       \* history: the tasks whose present call is counted in sunk

stackVars == <<tss, sp, base, cpu_state, inTail>>
historyVars == <<scratch, lost, sunk, counted>>
vars == <<mode, current_task, stackVars, pic, irr, historyVars>>

\* user: ring 3.  enter: up to the switch to real mode.  bios: in real mode,
\* interrupts on.  back: on the way to the last `sti'.  tail: behind it.
\* overrun: a stack has left its page.  halted: an exception.
Modes == {"user", "enter", "bios", "back", "tail", "overrun", "halted"}

KernelStackTypeOK ==
  /\ mode \in Modes
  /\ current_task \in Task
  /\ tss \in [of : Task, depth : 0 .. StackWords]
  /\ sp \in 0 .. StackWords
  /\ base \in [Task -> 0 .. StackWords]
  /\ cpu_state \in [Task -> 0 .. StackWords]
  /\ inTail \subseteq Task
  /\ pic \in {"kernel", "real"}
  /\ irr \in BOOLEAN
  /\ scratch \subseteq Nat
  /\ lost \subseteq Task
  /\ sunk \in [Task -> Nat]
  /\ counted \subseteq Task

\* All tasks have been made by init_task, and one has begun to run.
KernelStackInit ==
  /\ FrameWords <= StackWords
  /\ mode = "user"
  /\ current_task = 1
  /\ tss = [of |-> 1, depth |-> 0]
  /\ sp = 0
  /\ base = [t \in Task |-> 0]
  /\ cpu_state = [t \in Task |-> FrameWords]
  /\ inTail = {}
  /\ pic = "kernel"
  /\ irr = FALSE
  /\ scratch = {}
  /\ lost = {}
  /\ sunk = [t \in Task |-> 0]
  /\ counted = {}

--------------------------------------------------------------------------------
(* Which words of a task's stack are in use.                               *)

InUse(t) ==
  IF t # current_task
    THEN (IF t \in inTail THEN base[t] ELSE cpu_state[t] - FrameWords) + 1 .. cpu_state[t]
    ELSE IF mode = "user" THEN {} ELSE base[t] + 1 .. sp

\* n words are pushed at a place, which other data may already be at.
Pushed(place, n) ==
  lost' = IF InUse(place.of) \cap place.depth + 1 .. place.depth + n = {}
            THEN lost ELSE lost \cup {place.of}

Fits(depth) == depth + HandlerWords <= StackWords

Overrun ==
  /\ mode' = "overrun"
  /\ UNCHANGED <<current_task, stackVars, pic, irr, historyVars>>

\* Where an interrupt's frame begins: in ring 0 the stack stays the same.
Place == IF mode = "user" THEN tss ELSE [of |-> current_task, depth |-> sp]

Size == IF mode = "user" THEN FrameWords ELSE NestedWords

--------------------------------------------------------------------------------
(* The timer.                                                              *)

Tick ==
  /\ mode \notin {"overrun", "halted"}
  /\ ~irr
  /\ irr' = TRUE
  /\ UNCHANGED <<mode, current_task, stackVars, pic, historyVars>>

\* schedule, with the list as a ring.
NextTask == (current_task % NTasks) + 1

\* Mutants: tss[1] is not set to the next task's stack; the size of the
\* structure is not added.
NewTss_Kept(n) == tss
NewTss_NoSize(n) == [of |-> n, depth |-> cpu_state'[n]]

\* tss[1] = new_cpu + 1: where the frame begins, if it has esp and ss.
NewTss(n) == [of |-> n, depth |-> cpu_state'[n] - FrameWords]

\* The state of the running task is saved where the interrupt has pushed it,
\* the next task's is loaded.
Switch ==
  /\ cpu_state' = [cpu_state EXCEPT ![current_task] = Place.depth + Size]
  /\ LET saved == IF mode = "tail" THEN inTail \cup {current_task} ELSE inTail IN
       /\ inTail' = saved \ {NextTask}
       /\ mode' = IF NextTask \in saved THEN "tail" ELSE "user"
  /\ current_task' = NextTask
  /\ tss' = NewTss(NextTask)
  /\ sp' = IF mode' = "tail" THEN cpu_state'[NextTask] - NestedWords ELSE 0
  /\ Pushed(Place, Size)
  /\ IF mode = "tail" /\ current_task \notin counted
       THEN /\ sunk' = [sunk EXCEPT ![current_task] = @ + 1]
            /\ counted' = counted \cup {current_task}
       ELSE UNCHANGED <<sunk, counted>>
  /\ UNCHANGED <<base, pic, scratch>>

\* With the BIOS's vectors the tick would be taken for exception 8.
Halt ==
  /\ mode' = "halted"
  /\ UNCHANGED <<current_task, stackVars, pic, historyVars>>

Timer ==
  /\ mode \in {"user", "tail"}
  /\ irr
  /\ irr' = FALSE
  /\ Fits(Place.depth + Size)
  /\ IF pic = "kernel" THEN Switch ELSE Halt

TimerOverrun ==
  /\ mode \in {"user", "tail"}
  /\ irr
  /\ ~Fits(Place.depth + Size)
  /\ Overrun

\* In real mode the BIOS has the tick.
BiosTick ==
  /\ mode = "bios"
  /\ irr
  /\ pic = "real"
  /\ irr' = FALSE
  /\ UNCHANGED <<mode, current_task, stackVars, pic, historyVars>>

--------------------------------------------------------------------------------
(* The system call.                                                        *)

\* INT32_BASE, 0x7C00, is in page 7, with the 16-bit stack below it.
ScratchPage == 7

\* init_vga and int32, which copies itself to low memory and keeps the stack
\* pointer there for the way back.
Svga ==
  /\ mode = "user"
  /\ ~irr
  /\ IF Fits(tss.depth + FrameWords)
       THEN /\ mode' = "enter"
            /\ base' = [base EXCEPT ![current_task] = tss.depth]
            /\ sp' = tss.depth + FrameWords + HandlerWords
            /\ counted' = counted \ {current_task}
            /\ scratch' = scratch \cup {ScratchPage}
            /\ Pushed(tss, FrameWords)
            /\ UNCHANGED <<current_task, tss, cpu_state, inTail, pic, irr, sunk>>
       ELSE Overrun

\* The controllers are initialised again, and forget what was pending.
resetpic(vectors) == pic' = vectors /\ irr' = FALSE

RealMode ==
  /\ mode = "enter"
  /\ mode' = "bios"
  /\ resetpic("real")
  /\ UNCHANGED <<current_task, stackVars, historyVars>>

\* Mutant: the controllers keep the BIOS's vectors.
ProtectedMode_NoReset ==
  /\ mode = "bios"
  /\ mode' = "back"
  /\ UNCHANGED <<pic, irr, current_task, stackVars, historyVars>>

ProtectedMode ==
  /\ mode = "bios"
  /\ mode' = "back"
  /\ resetpic("kernel")
  /\ UNCHANGED <<current_task, stackVars, historyVars>>

Sti ==
  /\ mode = "back"
  /\ mode' = "tail"
  /\ UNCHANGED <<current_task, stackVars, pic, irr, historyVars>>

\* The calls return one by one, and the stub pops the registers.
TailStep ==
  /\ mode = "tail"
  /\ ~irr
  /\ \E p \in TailPoints :
       /\ base[current_task] + p < sp
       /\ sp' = base[current_task] + p
  /\ UNCHANGED <<mode, current_task, tss, base, cpu_state, inTail, pic, irr, historyVars>>

Iret ==
  /\ mode = "tail"
  /\ ~irr
  /\ sp = base[current_task] + IretWords
  /\ mode' = "user"
  /\ sp' = 0
  /\ UNCHANGED <<current_task, tss, base, cpu_state, inTail, pic, irr, historyVars>>

Stopped == mode \in {"overrun", "halted"} /\ UNCHANGED vars

KernelStackNext ==
  \/ Tick \/ Timer \/ TimerOverrun \/ BiosTick
  \/ Svga \/ RealMode \/ ProtectedMode \/ Sti \/ TailStep \/ Iret
  \/ Stopped

(***************************************************************************)
(* Fairness: the kernel runs on, and a pending tick is taken when          *)
(* interrupts are on.  Ticks that fall into the BIOS's time are lost, but  *)
(* not all do; and there is time for some instructions between two.        *)
(***************************************************************************)
KernelStackSpec ==
  /\ KernelStackInit /\ [][KernelStackNext]_vars
  /\ WF_vars(Timer \/ TimerOverrun)
  /\ WF_vars(RealMode \/ ProtectedMode \/ Sti)
  /\ SF_vars(mode = "user" /\ Tick)
  /\ \A t \in Task : SF_vars(current_task = t /\ (TailStep \/ Iret))

--------------------------------------------------------------------------------
(* Properties                                                              *)

\* No frame is ever pushed over words of a task's stack that are in use: a
\* preempted call still finds its locals, its return addresses and its
\* caller's registers, whichever tasks were preempted where in between.
StacksIntact == lost = {}

\* What one call can move the beginning of a stack.
Sink == FrameWords + HandlerWords - 2

\* Each preempted call moves the place where the task's kernel stack begins
\* further down for good, but by no more than the call itself needed, and
\* only once, however often the call is preempted.
StackBounded ==
  mode = "user" =>
    tss.depth <= sunk[current_task] * Sink

\* An SVGA call returns to its caller, unless the stack leaves its page.
SvgaReturns ==
  \A t \in Task :
    mode = "enter" /\ current_task = t ~>
      (mode = "user" /\ current_task = t) \/ mode = "overrun"

UserStack(t) == Handed[3 * t - 1]

\* tasks.c:43-46: a task's stack is not overwritten by what others do.
UserStackKept == \A t \in Task : UserStack(t) \notin scratch
================================================================================
