--------------------------- MODULE KernelStackProofs ---------------------------
(***************************************************************************)
(* For any number of tasks, any size of the stacks and any points at which *)
(* a tail may be preempted: no stack is written over in use, and each call *)
(* makes its stack begin at most Sink words lower.                         *)
(***************************************************************************)
EXTENDS KernelStack, TLAPS

InKernel == mode \in {"enter", "bios", "back", "tail"}

\* Sink, as often as calls of t have been preempted; the present one may not
\* be counted yet, and has not moved anything then.
Allowed(t) == sunk[t] * Sink

Before(t) == (IF t \in counted THEN sunk[t] - 1 ELSE sunk[t]) * Sink

\* The call of t began at base[t], and d is within what it needs.
InCall(t, d) ==
  /\ base[t] <= Before(t)
  /\ d \in base[t] + IretWords .. base[t] + FrameWords + HandlerWords

\* A task that is not running: where its saved state is, in ring 3 and in a
\* tail.
SavedInv(t) ==
  IF t \in inTail
    THEN t \in counted /\ InCall(t, cpu_state[t] - NestedWords)
    ELSE cpu_state[t] - FrameWords \in 0 .. Allowed(t)

\* The running task: where its stack begins, and where it is in a call.
RunningInv ==
  /\ tss.of = current_task
  /\ current_task \notin inTail
  /\ tss.depth <= Allowed(current_task)
  /\ InKernel => InCall(current_task, sp)

Numbers ==
  /\ mode \in Modes
  /\ current_task \in Task
  /\ inTail \subseteq Task
  /\ counted \subseteq Task
  /\ sunk \in [Task -> Nat]
  /\ \A t \in counted : sunk[t] > 0
  /\ base \in [Task -> Nat]
  /\ cpu_state \in [Task -> Nat]
  /\ tss \in [of : Task, depth : Nat]
  /\ sp \in Nat

IInv ==
  /\ Numbers
  /\ RunningInv
  /\ \A t \in Task \ {current_task} : SavedInv(t)
  /\ lost = {}

--------------------------------------------------------------------------------

\* Sinking is counted in natural numbers.
LEMMA SinkNat == Sink \in Nat /\ HandlerWords \in Nat
  BY StackAssumption DEF Sink, FrameWords

LEMMA AllowedGrows ==
  ASSUME NEW n \in Nat
  PROVE  n * Sink \in Nat /\ (n + 1) * Sink = n * Sink + Sink
  BY SinkNat

\* The words before and after a call is counted.
LEMMA BeforeNat ==
  ASSUME Numbers, NEW t \in Task
  PROVE  /\ Before(t) \in Nat /\ Allowed(t) \in Nat
         /\ t \in counted => Allowed(t) = Before(t) + Sink
         /\ t \notin counted => Allowed(t) = Before(t)
<1>1. sunk[t] \in Nat
  BY DEF Numbers
<1>2. CASE t \in counted
  <2>1. sunk[t] - 1 \in Nat /\ (sunk[t] - 1) + 1 = sunk[t]
    BY <1>1, <1>2 DEF Numbers
  <2>2. (sunk[t] - 1) * Sink \in Nat /\ ((sunk[t] - 1) + 1) * Sink = (sunk[t] - 1) * Sink + Sink
    BY <2>1, AllowedGrows
  <2> QED BY <1>2, <2>1, <2>2, SinkNat DEF Before, Allowed
<1>3. CASE t \notin counted
  BY <1>1, <1>3, AllowedGrows DEF Before, Allowed
<1> QED BY <1>2, <1>3

LEMMA InitHolds == KernelStackInit => IInv
<1> SUFFICES ASSUME KernelStackInit PROVE IInv
  OBVIOUS
<1>1. 1 \in Task
  BY StackAssumption DEF Task
<1>2. Numbers
  BY <1>1 DEF KernelStackInit, Numbers, Modes, FrameWords
<1>3. \A t \in Task : Allowed(t) = 0
  BY SinkNat DEF KernelStackInit, Allowed
<1>4. RunningInv
  BY <1>1, <1>3 DEF KernelStackInit, RunningInv, InKernel
<1>5. \A t \in Task : SavedInv(t)
  BY <1>3 DEF KernelStackInit, SavedInv, FrameWords
<1> QED BY <1>2, <1>4, <1>5 DEF IInv, KernelStackInit

--------------------------------------------------------------------------------

\* The ring of tasks has no other members.
LEMMA NextTaskIsTask == current_task \in Task => NextTask \in Task
  BY StackAssumption DEF NextTask, Task

\* What is pushed is pushed below what is in use.
LEMMA NothingLost ==
  ASSUME IInv, mode \in {"user", "tail"}, Pushed(Place, Size)
  PROVE  lost' = {}
<1>1. CASE mode = "user"
  BY <1>1 DEF IInv, RunningInv, Pushed, Place, InUse
<1>2. CASE mode = "tail"
  <2>1. base[current_task] \in Nat /\ sp \in Nat
    BY DEF IInv, Numbers
  <2>2. InUse(current_task) = base[current_task] + 1 .. sp
    BY <1>2 DEF InUse
  <2>3. Place = [of |-> current_task, depth |-> sp]
    BY <1>2 DEF Place
  <2>4. Size \in Nat
    BY DEF Size, FrameWords, NestedWords
  <2>5. (base[current_task] + 1 .. sp) \cap (sp + 1 .. sp + Size) = {}
    BY <2>1, <2>4
  <2> QED BY <2>2, <2>3, <2>5 DEF Pushed, IInv
<1> QED BY <1>1, <1>2

\* A switch saves the running task's state and loads the next one's.
LEMMA SwitchKeeps ==
  ASSUME IInv, mode \in {"user", "tail"}, Switch
  PROVE  IInv'
<1>c. PICK c \in Task : c = current_task
  BY DEF IInv, Numbers
<1>n. PICK n \in Task : n = NextTask
  BY NextTaskIsTask DEF IInv, Numbers
<1>1. c \in Task /\ n \in Task
  OBVIOUS
<1>2. lost' = {}
  BY NothingLost DEF Switch
<1>3. /\ Place.depth \in Nat /\ Size \in Nat
      /\ cpu_state' = [cpu_state EXCEPT ![c] = Place.depth + Size]
  BY <1>c DEF Place, Size, Switch, IInv, Numbers, FrameWords, NestedWords
<1>4. /\ current_task' = n /\ base' = base
      /\ inTail' = (IF mode = "tail" THEN inTail \cup {c} ELSE inTail) \ {n}
      /\ mode' = IF n \in (IF mode = "tail" THEN inTail \cup {c} ELSE inTail)
                   THEN "tail" ELSE "user"
      /\ tss' = [of |-> n, depth |-> cpu_state'[n] - FrameWords]
      /\ sp' = IF mode' = "tail" THEN cpu_state'[n] - NestedWords ELSE 0
  BY <1>c, <1>n DEF Switch, NewTss
<1> DEFINE K(t) == IF t \in (IF mode = "tail" THEN inTail \cup {c} ELSE inTail)
                     THEN t \in counted' /\ InCall(t, cpu_state[t] - NestedWords)'
                     ELSE cpu_state'[t] - FrameWords \in 0 .. Allowed(t)'
<1>5. /\ counted' \subseteq Task
      /\ sunk' \in [Task -> Nat]
      /\ \A t \in counted' : sunk'[t] > 0
      /\ \A t \in Task : Before(t)' = Before(t)
      /\ \A t \in Task \ {c} : Allowed(t)' = Allowed(t)
      /\ \A t \in Task \ {c} : t \in counted' <=> t \in counted
      /\ mode = "tail" => c \in counted'
      /\ mode # "tail" => Allowed(c)' = Allowed(c)
  <2>1. CASE mode = "tail" /\ c \notin counted
    <3>1. sunk' = [sunk EXCEPT ![c] = @ + 1] /\ counted' = counted \cup {c}
      BY <1>c, <2>1 DEF Switch
    <3>2. sunk'[c] = sunk[c] + 1 /\ sunk[c] \in Nat /\ \A t \in Task \ {c} : sunk'[t] = sunk[t]
      BY <1>1, <3>1 DEF IInv, Numbers
    <3>3. sunk'[c] - 1 = sunk[c]
      BY <3>2
    <3>4. \A t \in Task : Before(t)' = Before(t)
      BY <2>1, <3>1, <3>2, <3>3 DEF Before, Sink
    <3> QED BY <1>1, <2>1, <3>1, <3>2, <3>4 DEF IInv, Numbers, Allowed, Sink
  <2>2. CASE ~(mode = "tail" /\ c \notin counted)
    <3>1. UNCHANGED <<sunk, counted>>
      BY <1>c, <2>2 DEF Switch
    <3>2. \A t \in Task : Before(t)' = Before(t) /\ Allowed(t)' = Allowed(t)
      BY <3>1 DEF Allowed, Before, Sink
    <3> QED BY <1>1, <2>2, <3>1, <3>2 DEF IInv, Numbers
  <2> QED BY <2>1, <2>2
<1>6. \A t \in Task : K(t)
  <2>1. ASSUME NEW t \in Task \ {c} PROVE K(t)
    <3>1. SavedInv(t) /\ cpu_state'[t] = cpu_state[t]
      BY <1>c, <1>3, <2>1 DEF IInv, Numbers
    <3>2. InCall(t, cpu_state[t] - NestedWords)' <=> InCall(t, cpu_state[t] - NestedWords)
      BY <1>4, <1>5, <2>1, <3>1 DEF InCall, NestedWords, IretWords, FrameWords
    <3> QED BY <1>4, <1>5, <2>1, <3>1, <3>2 DEF SavedInv, FrameWords
  <2>2. K(c)
    <3>1. cpu_state'[c] = Place.depth + Size /\ c \notin inTail
      BY <1>c, <1>1, <1>3 DEF IInv, Numbers, RunningInv
    <3>2. CASE mode = "tail"
      <4>1. cpu_state'[c] - NestedWords = sp
        BY <1>3, <3>1, <3>2 DEF Place, Size, NestedWords, IInv, Numbers
      <4>2. InCall(c, sp)
        BY <1>c, <3>2 DEF IInv, RunningInv, InKernel
      <4>3. InCall(c, cpu_state[c] - NestedWords)'
        BY <1>1, <1>4, <1>5, <4>1, <4>2 DEF InCall, NestedWords, IretWords, FrameWords
      <4> QED BY <1>5, <3>2, <4>3
    <3>3. CASE mode = "user"
      <4>1. cpu_state'[c] - FrameWords = tss.depth
        BY <1>3, <3>1, <3>3 DEF Place, Size, FrameWords, IInv, Numbers
      <4> QED BY <1>c, <1>5, <3>1, <3>3, <4>1 DEF IInv, RunningInv, Numbers, FrameWords
    <3> QED BY <3>2, <3>3
  <2> QED BY <2>1, <2>2
<1>7. \A t \in Task \ {n} : SavedInv(t)'
  BY <1>4, <1>6 DEF SavedInv
<1>8. cpu_state'[n] \in Nat /\ cpu_state' \in [Task -> Nat]
  BY <1>1, <1>3 DEF IInv, Numbers
<1>9. ASSUME mode' = "tail"
      PROVE  /\ InCall(n, sp)' /\ sp' \in Nat
             /\ tss'.depth \in Nat /\ tss'.depth <= Allowed(n)'
  <2>1. n \in counted' /\ InCall(n, cpu_state[n] - NestedWords)'
    <3>1. n \in (IF mode = "tail" THEN inTail \cup {c} ELSE inTail)
      BY <1>4, <1>9
    <3> QED BY <1>6, <3>1
  <2>2. sp' = cpu_state'[n] - NestedWords
    BY <1>4, <1>9
  <2>3. base'[n] \in Nat
    BY <1>1, <1>4 DEF IInv, Numbers
  <2>4. Allowed(n)' = Before(n)' + Sink /\ Before(n)' \in Nat /\ Allowed(n)' \in Nat
    <3>1. sunk'[n] \in Nat /\ sunk'[n] - 1 \in Nat
      BY <1>1, <1>5, <2>1
    <3>2. ((sunk'[n] - 1) + 1) * Sink = (sunk'[n] - 1) * Sink + Sink
      BY <3>1, AllowedGrows
    <3>3. (sunk'[n] - 1) + 1 = sunk'[n]
      BY <3>1
    <3>4. Before(n)' = (sunk'[n] - 1) * Sink /\ Allowed(n)' = sunk'[n] * Sink
      BY <2>1 DEF Before, Allowed, Sink
    <3>5. (sunk'[n] - 1) * Sink \in Nat /\ sunk'[n] * Sink \in Nat
      BY <3>1, AllowedGrows
    <3> QED BY <3>2, <3>3, <3>4, <3>5
  <2>5. /\ base'[n] <= Before(n)'
        /\ sp' \in base'[n] + IretWords .. base'[n] + FrameWords + HandlerWords
    BY <2>1, <2>2 DEF InCall
  <2>6. tss'.depth = cpu_state'[n] - FrameWords
    BY <1>4
  <2> QED BY <1>8, <2>1, <2>2, <2>3, <2>4, <2>5, <2>6, SinkNat
          DEF Sink, FrameWords, NestedWords, IretWords
<1>10. ASSUME mode' # "tail"
       PROVE  mode' = "user" /\ sp' = 0 /\ tss'.depth \in Nat /\ tss'.depth <= Allowed(n)'
  <2>1. cpu_state'[n] - FrameWords \in 0 .. Allowed(n)'
    <3>1. n \notin (IF mode = "tail" THEN inTail \cup {c} ELSE inTail)
      BY <1>4, <1>10
    <3> QED BY <1>6, <3>1
  <2>2. Allowed(n)' \in Int
    <3>1. sunk'[n] \in Nat
      BY <1>1, <1>5
    <3>2. sunk'[n] * Sink \in Nat
      BY <3>1, AllowedGrows
    <3> QED BY <3>2 DEF Allowed, Sink
  <2> QED BY <1>4, <1>10, <2>1, <2>2
<1>11. RunningInv'
  <2>1. n \notin inTail' /\ tss'.of = current_task' /\ current_task' = n
    BY <1>4
  <2> QED BY <1>4, <1>9, <1>10, <2>1 DEF RunningInv, InKernel
<1>12. Numbers'
  <2>1. mode' \in Modes /\ inTail' \subseteq Task /\ tss'.depth \in Nat /\ sp' \in Nat
    BY <1>1, <1>4, <1>9, <1>10 DEF Modes, IInv, Numbers
  <2>2. tss' \in [of : Task, depth : Nat]
    BY <1>1, <1>4, <2>1
  <2> QED BY <1>1, <1>4, <1>5, <1>8, <2>1, <2>2 DEF IInv, Numbers
<1> QED BY <1>2, <1>4, <1>7, <1>11, <1>12 DEF IInv

\* A call begins where the stack does.
LEMMA SvgaKeeps == ASSUME IInv, Svga PROVE IInv'
<1>1. CASE ~Fits(tss.depth + FrameWords)
  BY <1>1 DEF Svga, Overrun, IInv, Numbers, RunningInv, SavedInv, InKernel, InCall,
              Before, Allowed, Modes, stackVars, historyVars, Sink
<1>2. CASE Fits(tss.depth + FrameWords)
  <2> DEFINE c == current_task
  <2>1. /\ c \in Task /\ mode = "user" /\ mode' = "enter" /\ tss.of = c
        /\ base' = [base EXCEPT ![c] = tss.depth]
        /\ sp' = tss.depth + FrameWords + HandlerWords
        /\ counted' = counted \ {c}
        /\ Pushed(tss, FrameWords)
        /\ UNCHANGED <<current_task, tss, cpu_state, inTail, sunk>>
    BY <1>2 DEF Svga, IInv, Numbers, RunningInv
  <2>2. lost' = {}
    BY <2>1 DEF Pushed, InUse, IInv
  <2>3. Numbers'
    BY <2>1, SinkNat DEF IInv, Numbers, Modes, FrameWords
  <2>4. \A t \in Task \ {c} : SavedInv(t)'
    BY <2>1 DEF IInv, SavedInv, InCall, Before, Allowed, Sink, Numbers
  <2>5. InCall(c, sp)'
    <3>1. base'[c] = tss.depth /\ tss.depth \in Nat
      BY <2>1 DEF IInv, Numbers
    <3>2. Before(c)' = Allowed(c)
      BY <2>1 DEF Before, Allowed, Sink
    <3>3. tss.depth <= Allowed(c)
      BY DEF IInv, RunningInv
    <3> QED BY <2>1, <3>1, <3>2, <3>3, SinkNat DEF InCall, IretWords, FrameWords
  <2>6. RunningInv'
    BY <2>1, <2>5 DEF IInv, RunningInv, Allowed, Sink
  <2> QED BY <2>1, <2>2, <2>3, <2>4, <2>6 DEF IInv
<1> QED BY <1>1, <1>2

\* The invariant is kept by every step.
LEMMA NextKeeps == ASSUME IInv, [KernelStackNext]_vars PROVE IInv'
<1>1. CASE UNCHANGED <<mode, current_task, stackVars, lost, sunk, counted>>
  BY <1>1 DEF IInv, Numbers, RunningInv, SavedInv, InKernel, InCall, Before, Allowed,
              stackVars, Sink
<1>2. CASE Tick \/ BiosTick \/ Stopped \/ UNCHANGED vars
  BY <1>1, <1>2 DEF Tick, BiosTick, Stopped, vars, historyVars
<1>3. CASE Timer
  <2>1. CASE Switch
    BY <1>3, <2>1, SwitchKeeps DEF Timer
  <2>2. CASE Halt
    BY <2>2 DEF Halt, IInv, Numbers, RunningInv, SavedInv, InKernel, InCall, Before,
                Allowed, Modes, stackVars, historyVars, Sink
  <2> QED BY <1>3, <2>1, <2>2 DEF Timer
<1>4. CASE TimerOverrun
  BY <1>4 DEF TimerOverrun, Overrun, IInv, Numbers, RunningInv, SavedInv, InKernel,
              InCall, Before, Allowed, Modes, stackVars, historyVars, Sink
<1>5. CASE Svga
  BY <1>5, SvgaKeeps
<1>6. CASE RealMode \/ ProtectedMode \/ Sti
  BY <1>6 DEF RealMode, ProtectedMode, Sti, IInv, Numbers, RunningInv, SavedInv,
              InKernel, InCall, Before, Allowed, Modes, stackVars, historyVars, Sink
<1>7. CASE TailStep
  <2>1. PICK p \in TailPoints : sp' = base[current_task] + p
    BY <1>7 DEF TailStep
  <2>2. current_task \in Task /\ base[current_task] \in Nat
    BY DEF IInv, Numbers
  <2>3. p \in IretWords .. FrameWords + HandlerWords
    BY StackAssumption
  <2>4. UNCHANGED <<mode, current_task, tss, base, cpu_state, inTail, lost, sunk, counted>>
    BY <1>7 DEF TailStep, historyVars
  <2>5. sp' \in Nat
            /\ sp' \in base[current_task] + IretWords .. base[current_task] + FrameWords + HandlerWords
    BY <2>1, <2>2, <2>3, SinkNat DEF IretWords, FrameWords
  <2>6. base[current_task] <= Before(current_task)
    BY <1>7 DEF TailStep, IInv, RunningInv, InKernel, InCall
  <2>7. InCall(current_task, sp)'
    BY <2>4, <2>5, <2>6 DEF InCall, Before, Sink
  <2>8. RunningInv'
    BY <2>4, <2>7 DEF IInv, RunningInv, Allowed, Sink
  <2>9. Numbers'
    BY <2>4, <2>5 DEF IInv, Numbers
  <2> QED BY <2>4, <2>8, <2>9 DEF IInv, SavedInv, InCall, Before, Allowed, Sink
<1>8. CASE Iret
  BY <1>8 DEF Iret, IInv, Numbers, RunningInv, SavedInv, InKernel, InCall, Before,
              Allowed, Modes, historyVars, Sink
<1> QED
  BY <1>2, <1>3, <1>4, <1>5, <1>6, <1>7, <1>8 DEF KernelStackNext

\* The inductive invariant holds in every reachable state.
THEOREM Invariance == KernelStackSpec => []IInv
  BY InitHolds, NextKeeps, PTL DEF KernelStackSpec

\* No frame is pushed over words that are in use, of any task's stack.
THEOREM StacksIntactCorrect == KernelStackSpec => []StacksIntact
<1>1. IInv => StacksIntact
  BY DEF IInv, StacksIntact
<1> QED BY <1>1, Invariance, PTL

\* A task's stack begins at most Sink words lower for each of its calls that
\* have been preempted.
THEOREM StackBoundedCorrect == KernelStackSpec => []StackBounded
<1>1. IInv => StackBounded
  BY DEF IInv, RunningInv, Allowed, StackBounded
<1> QED BY <1>1, Invariance, PTL
================================================================================
