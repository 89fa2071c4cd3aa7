------------------------------ MODULE TasksProofs ------------------------------
(***************************************************************************)
(* Proofs about Tasks, for any amount of memory, any modules and any       *)
(* number of tasks.                                                        *)
(*                                                                         *)
(* TypeOK is inductive.  The safety invariants are not: they lean on each  *)
(* other and on the facts below, and hold together as IInv.  All but       *)
(* TypeOK assume that a program makes no second EXIT in the time slice the *)
(* first leaves it (init.c spins instead), since kexit would unlink an     *)
(* innocent task.                                                          *)
(***************************************************************************)
EXTENDS Tasks, TLAPS, FiniteSetTheorems

\* Only contexts that have been created run, are saved or have exited.
ContextInv ==
  /\ running \in 0 .. nextpid - 1
  /\ \A p \in Page : frame[p] \in 0 .. nextpid - 1
  /\ exited \subseteq Created

\* A pid names one task structure.
PidInv ==
  kmode # "wild" =>
    /\ \A p \in Page : pid[p] \in 0 .. nextpid - 1
    /\ \A p, q \in Page : pid[p] = pid[q] /\ pid[p] # 0 => p = q

\* The processor, its kernel stack and current_task belong together; only a
\* program that has exited may run in the slot of another, an older one.
CpuInv ==
  kmode # "wild" =>
    /\ running # Boot => tss = stack[running]
    /\ \A t \in Created : frame[stack[t]] = t
    /\ running = Boot => kmode \in {"boot", "user"} /\ current_task = NULL
    /\ current_task # NULL =>
         /\ pid[current_task] # 0
         /\ running = pid[current_task] \/ (running \in exited /\ running > pid[current_task])
    /\ current_task = NULL => running = Boot \/ running \in exited
    /\ kmode = "kexit" => running \in exited

\* kexit's walk is still before the task it is to unlink, or has replaced
\* it by its successor and is past that.
WalkInv ==
  kmode = "kexit" =>
    /\ temp = NULL <=> current_task = NULL
    /\ temp # NULL =>
         /\ temp \in Linked
         /\ \/ pid[current_task] = running /\ pid[temp] > running
            \/ pid[current_task] \notin exited /\ pid[temp] <= pid[current_task]

\* schedule() can go on from current_task: though kexit may have left it on
\* a task that is off the list, its `next' is still the live task to follow.
SuccessorIntact ==
  kmode # "wild" /\ current_task # NULL =>
    Newest(next[current_task], Older(LiveTask, current_task))

\* pmm_alloc may hand out page 0, whose address is NULL: a task structure
\* there would look like the end of the list.  None ever is.
TcbNotNull == kmode # "wild" => pid[NULL] = 0

Safe ==
  /\ PidInv
  /\ CpuInv
  /\ WalkInv
  /\ RunList
  /\ SuccessorIntact
  /\ ThiefIsNewer
  /\ OwnMemory
  /\ TcbNotNull

IInv == TypeOK /\ ContextInv /\ Safe

--------------------------------------------------------------------------------
USE DEF Boot, Ctx, Pid, NULL, Page

LEMMA NullIsPage == NULL \in Page
BY NPagesAssumption

LEMMA TypeInit == Init => TypeOK
BY NullIsPage, TasksAssumption DEF Init, TypeOK, KMode

LEMMA InitTaskType ==
  ASSUME TypeOK, NEW m \in KMode, InitTask(m)
  PROVE  /\ bitmap' \subseteq FreePages
         /\ next' \in [Page -> Page]
         /\ pid' \in [Page -> Ctx]
         /\ cpu_state' \in [Page -> Page]
         /\ first_task' \in Page
         /\ nextpid' \in 1 .. MaxPid + 1
         /\ proccount' \in Int
         /\ frame' \in [Page -> Ctx]
         /\ kmode' \in KMode
         /\ stack' \in [Pid -> Page]
         /\ user_stack' \in [Pid -> Page]
<1>1. PICK s, u, task \in Page :
         /\ bitmap' = bitmap \ {s, u, task}
         /\ frame' = [frame EXCEPT ![s] = nextpid]
         /\ cpu_state' = [cpu_state EXCEPT ![task] = s]
         /\ next' = [next EXCEPT ![task] = first_task]
         /\ pid' = [pid EXCEPT ![task] = nextpid]
         /\ first_task' = task
         /\ stack' = [stack EXCEPT ![nextpid] = s]
         /\ user_stack' = [user_stack EXCEPT ![nextpid] = u]
         /\ kmode' = IF bitmap \subseteq {s, u} THEN "wild" ELSE m
  BY DEF InitTask
<1>2. nextpid \in Pid /\ nextpid' = nextpid + 1 /\ proccount' = proccount + 1
  BY TasksAssumption DEF InitTask, TypeOK
<1>3. kmode' \in KMode
  BY <1>1 DEF KMode
<1>4. bitmap' \subseteq FreePages /\ first_task' \in Page
  BY <1>1 DEF TypeOK
<1>5. nextpid' \in 1 .. MaxPid + 1 /\ proccount' \in Int
  BY <1>2, TasksAssumption DEF TypeOK
<1>6. next' \in [Page -> Page] /\ cpu_state' \in [Page -> Page]
  BY <1>1 DEF TypeOK
<1>7. pid' \in [Page -> Ctx] /\ frame' \in [Page -> Ctx]
  <2>1. nextpid \in Ctx
    BY <1>2, TasksAssumption
  <2> QED BY <1>1, <2>1 DEF TypeOK
<1>8. stack' \in [Pid -> Page] /\ user_stack' \in [Pid -> Page]
  BY <1>1, <1>2 DEF TypeOK
<1> QED BY <1>3, <1>4, <1>5, <1>6, <1>7, <1>8

LEMMA SavedType ==
  ASSUME TypeOK
  PROVE  SavedFrame \in [Page -> Ctx] /\ SavedCpuState \in [Page -> Page] /\ NextTask \in Page
BY DEF TypeOK, SavedFrame, SavedCpuState, NextTask

LEMMA TypeStep == TypeOK /\ [Next]_vars => TypeOK'
<1> SUFFICES ASSUME TypeOK, [Next]_vars PROVE TypeOK' OBVIOUS
<1> USE NullIsPage
<1>1. CASE InitMultitasking
  <2>1. CASE InitTask("user") /\ UNCHANGED current_task
    BY <1>1, <2>1, InitTaskType
       DEF InitMultitasking, TypeOK, KMode, loopVars
  <2>2. CASE kmode' = "user" /\ UNCHANGED <<listVars, countVars, memVars, frame>>
    BY <1>1, <2>2
       DEF InitMultitasking, TypeOK, KMode, loopVars, listVars, countVars, memVars
  <2> QED BY <1>1, <2>1, <2>2 DEF InitMultitasking
<1>2. CASE Timer
  BY <1>2, SavedType DEF Timer, TypeOK, KMode, loopVars, countVars, memVars
<1>3. CASE TimerNoTask
  BY <1>3, SavedType DEF TimerNoTask, TypeOK, KMode, loopVars, countVars, memVars
<1>4. CASE PlainSyscall
  BY <1>4 DEF PlainSyscall, Syscall, Iret, TypeOK, KMode, listVars, loopVars, countVars, memVars
<1>5. CASE \E name \in Names : LoadfEnter(name)
  BY <1>5 DEF LoadfEnter, Syscall, TypeOK, KMode, listVars, loopVars, countVars, memVars
<1>6. CASE LoadfStep
  <2>1. idx' \in Nat
    BY <1>6, TasksAssumption DEF LoadfStep, TypeOK
  <2>2. CASE InitTask("loadf") /\ UNCHANGED current_task
    BY <1>6, <2>1, <2>2, InitTaskType DEF LoadfStep, TypeOK, KMode
  <2>3. CASE UNCHANGED <<listVars, countVars, memVars, frame, kmode>>
    BY <1>6, <2>1, <2>3 DEF LoadfStep, TypeOK, listVars, countVars, memVars
  <2> QED BY <1>6, <2>2, <2>3 DEF LoadfStep
<1>7. CASE LoadfReturn
  BY <1>7 DEF LoadfReturn, Iret, TypeOK, KMode, listVars, loopVars, countVars, memVars
<1>8. CASE GetcharEnter
  BY <1>8 DEF GetcharEnter, Syscall, TypeOK, KMode, listVars, loopVars, countVars, memVars
<1>9. CASE GetcharReturn
  BY <1>9 DEF GetcharReturn, Iret, TypeOK, KMode, listVars, loopVars, countVars, memVars
<1>10. CASE KexitHead
  <2>1. frame' \in [Page -> Ctx] /\ running' \in Ctx
    BY <1>10 DEF KexitHead, Syscall, Iret, TypeOK
  <2>2. exited' \subseteq Pid /\ first_task' \in Page /\ proccount' \in Int
    BY <1>10 DEF KexitHead, Syscall, TypeOK
  <2> QED
    BY <1>10, <2>1, <2>2 DEF KexitHead, Iret, TypeOK, KMode, loopVars, memVars
<1>11. CASE KexitEnter
  BY <1>11 DEF KexitEnter, Syscall, TypeOK, KMode, listVars, memVars
<1>12. CASE KexitSkip
  BY <1>12 DEF KexitSkip, TypeOK, KMode, listVars, countVars, cpuVars, memVars
<1>13. CASE KexitUnlink
  BY <1>13 DEF KexitUnlink, TypeOK, KMode, countVars, cpuVars, memVars
<1>14. CASE KexitReturn
  BY <1>14 DEF KexitReturn, Iret, TypeOK, KMode, listVars, loopVars, countVars, memVars
<1>15. CASE KexitNull
  BY <1>15 DEF KexitNull, TypeOK, KMode, listVars, loopVars, countVars, cpuVars, memVars
<1>16. CASE Halt
  BY <1>16 DEF Halt, TypeOK, KMode, listVars, loopVars, countVars, memVars
<1>17. CASE StayStopped \/ UNCHANGED vars
  BY <1>17 DEF StayStopped, TypeOK, vars, listVars, loopVars, countVars, cpuVars, memVars
<1> QED
  BY <1>1, <1>2, <1>3, <1>4, <1>5, <1>6, <1>7, <1>8, <1>9, <1>10, <1>11,
     <1>12, <1>13, <1>14, <1>15, <1>16, <1>17 DEF Next

(***************************************************************************)
(* Type correctness: above all, every pointer the scheduler, kexit and the *)
(* interrupt return follow is the address of a page, and pids stay in      *)
(* range.                                                                  *)
(***************************************************************************)
THEOREM TypeCorrect == Spec => []TypeOK
BY TypeInit, TypeStep, PTL DEF Spec

--------------------------------------------------------------------------------
(* The steps of the safety invariant.                                      *)

LEMMA ContextInit == Init => ContextInv
BY DEF Init, ContextInv, Created

LEMMA ContextStep == TypeOK /\ ContextInv /\ [Next]_vars => ContextInv'
<1> SUFFICES ASSUME TypeOK, ContextInv, [Next]_vars PROVE ContextInv' OBVIOUS
<1> USE NullIsPage
<1>1. ASSUME NEW m, InitTask(m), UNCHANGED <<running, exited>>
      PROVE  ContextInv'
  <2>1. PICK s \in Page : frame' = [frame EXCEPT ![s] = nextpid]
    BY <1>1 DEF InitTask
  <2>2. nextpid' = nextpid + 1
    BY <1>1 DEF InitTask
  <2> QED BY <1>1, <2>1, <2>2 DEF TypeOK, ContextInv, Created
<1>2. CASE InitMultitasking
  BY <1>1, <1>2 DEF InitMultitasking, ContextInv, Created, countVars
<1>3. CASE Timer
  <2>1. SavedFrame \in [Page -> 0 .. nextpid - 1]
    BY DEF SavedFrame, TypeOK, ContextInv
  <2>2. tss' \in Page
    BY <1>3, TypeStep DEF TypeOK
  <2> QED BY <1>3, <2>1, <2>2 DEF Timer, ContextInv, Created, countVars
<1>4. CASE TimerNoTask
  BY <1>4 DEF TimerNoTask, SavedFrame, TypeOK, ContextInv, Created, countVars
<1>5. ASSUME NEW name, Syscall(name)
      PROVE  /\ running \in Created
             /\ \A p \in Page : frame'[p] \in 0 .. nextpid - 1
             /\ frame'[tss] = running
  BY <1>5 DEF Syscall, TypeOK, ContextInv, Created
<1>6. CASE PlainSyscall
  BY <1>5, <1>6 DEF PlainSyscall, Iret, ContextInv, Created, countVars
<1>7. CASE \E name \in Names : LoadfEnter(name)
  BY <1>5, <1>7 DEF LoadfEnter, ContextInv, Created, countVars
<1>8. CASE LoadfStep
  BY <1>1, <1>8 DEF LoadfStep, ContextInv, Created, countVars
<1>9. CASE LoadfReturn \/ GetcharReturn \/ KexitReturn
  BY <1>9 DEF LoadfReturn, GetcharReturn, KexitReturn, Iret, TypeOK, ContextInv, Created, countVars
<1>10. CASE GetcharEnter
  BY <1>5, <1>10 DEF GetcharEnter, ContextInv, Created, countVars
<1>11. CASE KexitHead
  BY <1>5, <1>11 DEF KexitHead, Iret, ContextInv, Created
<1>12. CASE KexitEnter
  BY <1>5, <1>12 DEF KexitEnter, ContextInv, Created
<1>13. CASE KexitSkip \/ KexitUnlink \/ KexitNull
  BY <1>13 DEF KexitSkip, KexitUnlink, KexitNull, ContextInv, Created, countVars, cpuVars
<1>14. CASE Halt
  BY <1>14 DEF Halt, TypeOK, ContextInv, Created, countVars
<1>15. CASE StayStopped \/ UNCHANGED vars
  BY <1>15 DEF StayStopped, vars, countVars, cpuVars, ContextInv, Created
<1> QED
  BY <1>2, <1>3, <1>4, <1>6, <1>7, <1>8, <1>9, <1>10, <1>11, <1>12, <1>13,
     <1>14, <1>15 DEF Next

(***************************************************************************)
(* proccount counts the live tasks: each load adds one context that has    *)
(* not exited, each EXIT takes one away.                                   *)
(***************************************************************************)
CountInv == TypeOK /\ ContextInv /\ ProcCount

LEMMA LiveFinite ==
  ASSUME TypeOK PROVE IsFiniteSet(Live)
<1>1. IsFiniteSet(Created)
  BY FS_Interval DEF TypeOK, Created
<1> QED BY <1>1, FS_Difference DEF Live

LEMMA CountInit == Init => ProcCount
<1> SUFFICES ASSUME Init PROVE ProcCount OBVIOUS
<1>1. Live = {}
  BY DEF Init, Live, Created
<1> QED BY <1>1, FS_EmptySet DEF Init, ProcCount

LEMMA CountStep ==
  ASSUME "EXIT" \notin PostExit, CountInv, [Next]_vars
  PROVE  ProcCount'
<1>1. ASSUME NEW m, InitTask(m), UNCHANGED exited PROVE ProcCount'
  <2>1. nextpid' = nextpid + 1 /\ proccount' = proccount + 1
    BY <1>1 DEF InitTask
  <2>2. nextpid \notin Live /\ Live' = Live \cup {nextpid}
    BY <1>1, <2>1 DEF CountInv, TypeOK, ContextInv, Created, Live
  <2>3. Cardinality(Live') = Cardinality(Live) + 1
    BY <2>2, LiveFinite, FS_AddElement DEF CountInv
  <2> QED BY <2>1, <2>3 DEF CountInv, ProcCount
<1>2. ASSUME Syscall("EXIT"), exited' = exited \cup {running},
             proccount' = proccount - 1, UNCHANGED nextpid
      PROVE  ProcCount'
  <2>1. running \in Live /\ Live' = Live \ {running}
    BY <1>2 DEF CountInv, Syscall, TypeOK, ContextInv, Created, Live
  <2>2. Cardinality(Live') = Cardinality(Live) - 1
    BY <2>1, LiveFinite, FS_RemoveElement DEF CountInv
  <2> QED BY <1>2, <2>2 DEF CountInv, ProcCount
<1>3. CASE UNCHANGED <<countVars, exited>>
  <2>1. Live' = Live
    BY <1>3 DEF Live, Created, countVars
  <2> QED BY <1>3, <2>1 DEF CountInv, ProcCount, countVars
<1>4. CASE InitMultitasking
  BY <1>1, <1>3, <1>4 DEF InitMultitasking
<1>5. CASE LoadfStep
  BY <1>1, <1>3, <1>5 DEF LoadfStep
<1>6. CASE KexitHead \/ KexitEnter
  BY <1>2, <1>6 DEF KexitHead, KexitEnter
<1>7. CASE StayStopped \/ UNCHANGED vars
  BY <1>3, <1>7 DEF StayStopped, vars
<1> QED
  BY <1>3, <1>4, <1>5, <1>6, <1>7
     DEF Next, Timer, TimerNoTask, PlainSyscall, LoadfEnter, LoadfReturn,
         GetcharEnter, GetcharReturn, KexitSkip, KexitUnlink, KexitReturn,
         KexitNull, Halt

(***************************************************************************)
(* "Running Processes" on the info line is the number of tasks that were   *)
(* started and have not exited.                                            *)
(***************************************************************************)
THEOREM ProcCountCorrect ==
  ASSUME "EXIT" \notin PostExit PROVE Spec => []ProcCount
<1>1. Init => CountInv
  BY TypeInit, ContextInit, CountInit DEF CountInv
<1>2. CountInv /\ [Next]_vars => CountInv'
  BY TypeStep, ContextStep, CountStep DEF CountInv
<1>3. CountInv => ProcCount
  BY DEF CountInv
<1> QED BY <1>1, <1>2, <1>3, PTL DEF Spec

--------------------------------------------------------------------------------
(* Safe is preserved.  Its parts other than the list never mention kmode   *)
(* except to say that it is not wild, so a step that only moves between    *)
(* user mode and a handler is dealt with once.                             *)

HIDE DEF Page

LEMMA SafeInit == Init => Safe
<1> SUFFICES ASSUME Init PROVE Safe OBVIOUS
<1>1. LiveTask = {} /\ Linked = {} /\ Created = {}
  BY DEF Init, LiveTask, Linked, Created
<1> QED
  BY <1>1, NullIsPage
     DEF Init, Safe, PidInv, CpuInv, WalkInv, RunList, SuccessorIntact,
         ThiefIsNewer, OwnMemory, TcbNotNull, Newest

LEMMA WildIsSafe == kmode' = "wild" => Safe'
BY DEF Safe, PidInv, CpuInv, WalkInv, RunList, SuccessorIntact, ThiefIsNewer,
       OwnMemory, TcbNotNull

\* Pushing the interrupted context writes on no other context's stack.
LEMMA FramesKept ==
  ASSUME IInv, kmode # "wild"
  PROVE  \A t \in Created : SavedFrame[stack[t]] = t
<1> SUFFICES ASSUME NEW t \in Created PROVE SavedFrame[stack[t]] = t OBVIOUS
<1>1. t \in Pid /\ stack[t] \in Page /\ frame[stack[t]] = t
  BY TasksAssumption DEF IInv, TypeOK, Safe, CpuInv, Created
<1>2. CASE running = Boot
  BY <1>1, <1>2 DEF SavedFrame
<1>3. CASE running # Boot
  <2>1. tss = stack[running] /\ running \in Created
    BY <1>3 DEF IInv, ContextInv, Safe, CpuInv, TypeOK, Created
  <2>2. tss = stack[t] => t = running
    BY <2>1 DEF IInv, Safe, OwnMemory
  <2> QED BY <1>1, <1>3, <2>2 DEF SavedFrame, IInv, TypeOK
<1> QED BY <1>2, <1>3

\* A step that leaves tasks, memory and processor alone.
LEMMA QuietStep ==
  ASSUME IInv, kmode \notin {"wild", "kexit"}, kmode' # "kexit",
         UNCHANGED <<listVars, nextpid, exited, memVars, tss, running>>,
         running = Boot => kmode' \in {"boot", "user"},
         \A t \in Created : frame'[stack[t]] = t
  PROVE  Safe'
<1>1. Created' = Created /\ LiveTask' = LiveTask /\ Linked' = LiveTask /\ Linked = LiveTask
  BY DEF Created, LiveTask, Linked, listVars
<1>2. PidInv' /\ ThiefIsNewer' /\ OwnMemory' /\ TcbNotNull'
  BY <1>1 DEF IInv, Safe, PidInv, ThiefIsNewer, OwnMemory, TcbNotNull, listVars, memVars
<1>3. CpuInv' /\ WalkInv'
  BY <1>1 DEF IInv, Safe, CpuInv, WalkInv, listVars, memVars
<1>4. RunList' /\ SuccessorIntact'
  BY <1>1 DEF IInv, Safe, RunList, SuccessorIntact, Newest, Older, listVars
<1> QED BY <1>2, <1>3, <1>4 DEF Safe

\* The frame a system call pushes is the caller's, on the caller's stack.
LEMMA SyscallFrame ==
  ASSUME IInv, kmode # "wild", running # Boot,
         frame' = [frame EXCEPT ![tss] = running]
  PROVE  /\ \A t \in Created : frame'[stack[t]] = t
         /\ frame'[tss] = running
BY FramesKept DEF SavedFrame, IInv, TypeOK

\* A handler that is about to return still has its caller's frame.
LEMMA HandlerFrame ==
  ASSUME IInv, kmode \in {"loadf", "kexit", "getchar"}
  PROVE  running # Boot /\ running \in Created /\ frame[tss] = running
BY DEF IInv, TypeOK, ContextInv, Safe, CpuInv, Created

LEMMA TimerSafe ==
  ASSUME IInv, Timer PROVE Safe'
<1> DEFINE n == NextTask
<1>1. /\ kmode \in {"boot", "user"} /\ kmode' = "user" /\ n # NULL
      /\ frame' = SavedFrame /\ cpu_state' = SavedCpuState
      /\ current_task' = n /\ tss' = cpu_state'[n] /\ running' = frame'[tss']
      /\ UNCHANGED <<next, pid, first_task, nextpid, bitmap, stack, user_stack, exited>>
  BY DEF Timer, Interruptible, countVars, memVars
<1>2. Created' = Created /\ LiveTask' = LiveTask /\ Linked' = LiveTask /\ Linked = LiveTask
  BY <1>1 DEF Created, LiveTask, Linked
<1>3. n \in LiveTask /\ n \in Page /\ pid[n] # 0
  BY <1>1, <1>2 DEF IInv, TypeOK, Safe, RunList, SuccessorIntact, Newest, Older, NextTask, LiveTask
<1>4. PidInv' /\ OwnMemory' /\ TcbNotNull'
  BY <1>1, <1>2 DEF IInv, Safe, PidInv, OwnMemory, TcbNotNull
<1>5. RunList' /\ SuccessorIntact'
  BY <1>1, <1>2, <1>3 DEF IInv, Safe, RunList, SuccessorIntact, Newest, Older
<1>6. ASSUME NEW p \in Page, pid[p] # 0
      PROVE  \E c \in Created : /\ cpu_state'[p] = stack[c]
                                /\ c = pid[p] \/ (c \in exited /\ c > pid[p])
  <2>1. CASE p = current_task
    <3>1. current_task # NULL /\ running # Boot
      BY <1>1, <1>6, <2>1 DEF IInv, Safe, CpuInv, TcbNotNull
    <3>2. running \in Created /\ tss = stack[running]
      BY <1>1, <3>1 DEF IInv, TypeOK, ContextInv, Safe, CpuInv, Created
    <3>3. cpu_state'[p] = tss
      BY <1>1, <2>1, <3>1 DEF SavedCpuState, IInv, TypeOK
    <3>4. running = pid[p] \/ (running \in exited /\ running > pid[p])
      BY <1>1, <2>1, <3>1 DEF IInv, Safe, CpuInv
    <3> QED BY <3>2, <3>3, <3>4
  <2>2. CASE p # current_task
    <3>1. cpu_state'[p] = cpu_state[p]
      BY <1>1, <2>2 DEF SavedCpuState, IInv, TypeOK
    <3> QED BY <1>1, <1>6, <3>1 DEF IInv, Safe, ThiefIsNewer
  <2> QED BY <2>1, <2>2
<1>7. ThiefIsNewer'
  BY <1>1, <1>2, <1>6 DEF ThiefIsNewer
<1>8. CpuInv' /\ WalkInv'
  <2>1. \A t \in Created : frame'[stack[t]] = t
    BY <1>1, FramesKept
  <2>2. PICK c \in Created : /\ cpu_state'[n] = stack[c]
                             /\ c = pid[n] \/ (c \in exited /\ c > pid[n])
    BY <1>3, <1>6
  <2>3. running' = c /\ tss' = stack[c] /\ c # Boot
    BY <1>1, <2>1, <2>2 DEF Created
  <2> QED BY <1>1, <1>2, <1>3, <2>1, <2>2, <2>3 DEF CpuInv, WalkInv
<1> QED BY <1>4, <1>5, <1>7, <1>8 DEF Safe

\* The pages a successful init_task takes are free, different from each
\* other, and the structure's is not page 0.
LEMMA InitTaskPages ==
  ASSUME IInv, NEW m, InitTask(m), kmode' # "wild"
  PROVE  \E s, u, task \in bitmap :
           /\ s # u /\ s # task /\ u # task /\ task # NULL
           /\ bitmap' = bitmap \ {s, u, task}
           /\ frame' = [frame EXCEPT ![s] = nextpid]
           /\ cpu_state' = [cpu_state EXCEPT ![task] = s]
           /\ next' = [next EXCEPT ![task] = first_task]
           /\ pid' = [pid EXCEPT ![task] = nextpid]
           /\ first_task' = task
           /\ stack' = [stack EXCEPT ![nextpid] = s]
           /\ user_stack' = [user_stack EXCEPT ![nextpid] = u]
           /\ kmode' = m
<1>1. PICK s, u, task \in Page :
         /\ pmm_alloc(bitmap, s)
         /\ pmm_alloc(bitmap \ {s}, u)
         /\ pmm_alloc(bitmap \ {s, u}, task)
         /\ bitmap' = bitmap \ {s, u, task}
         /\ frame' = [frame EXCEPT ![s] = nextpid]
         /\ cpu_state' = [cpu_state EXCEPT ![task] = s]
         /\ next' = [next EXCEPT ![task] = first_task]
         /\ pid' = [pid EXCEPT ![task] = nextpid]
         /\ first_task' = task
         /\ stack' = [stack EXCEPT ![nextpid] = s]
         /\ user_stack' = [user_stack EXCEPT ![nextpid] = u]
         /\ kmode' = IF bitmap \subseteq {s, u} THEN "wild" ELSE m
  BY DEF InitTask
<1>2. ~(bitmap \subseteq {s, u}) /\ kmode' = m
  BY <1>1
<1>3. bitmap # {} /\ bitmap \ {s} # {} /\ bitmap \ {s, u} # {}
  BY <1>2
<1>4. s \in bitmap /\ \A q \in bitmap : s <= q
  BY <1>1, <1>3 DEF pmm_alloc
<1>5. u \in bitmap \ {s} /\ task \in bitmap \ {s, u}
  BY <1>1, <1>3 DEF pmm_alloc
<1>6. task # NULL
  BY <1>4, <1>5, TasksAssumption DEF IInv, TypeOK, Page
<1> QED BY <1>1, <1>2, <1>4, <1>5, <1>6

LEMMA InitTaskSafe ==
  ASSUME IInv, NEW m \in {"user", "loadf"}, InitTask(m),
         kmode \in {"boot", "loadf"}, m = "loadf" => kmode = "loadf",
         UNCHANGED <<current_task, tss, running, exited>>
  PROVE  Safe'
<1> SUFFICES ASSUME kmode' # "wild" PROVE Safe'
  BY WildIsSafe
<1>1. PICK s, u, task \in bitmap :
           /\ s # u /\ s # task /\ u # task /\ task # NULL
           /\ bitmap' = bitmap \ {s, u, task}
           /\ frame' = [frame EXCEPT ![s] = nextpid]
           /\ cpu_state' = [cpu_state EXCEPT ![task] = s]
           /\ next' = [next EXCEPT ![task] = first_task]
           /\ pid' = [pid EXCEPT ![task] = nextpid]
           /\ first_task' = task
           /\ stack' = [stack EXCEPT ![nextpid] = s]
           /\ user_stack' = [user_stack EXCEPT ![nextpid] = u]
           /\ kmode' = m
  BY InitTaskPages
<1>2. nextpid' = nextpid + 1 /\ nextpid \in Pid /\ nextpid \notin exited
      /\ nextpid \notin Created /\ Created' = Created \cup {nextpid}
  <2>1. nextpid <= MaxPid /\ nextpid' = nextpid + 1
    BY DEF InitTask
  <2>2. nextpid \in Nat \ {0} /\ nextpid \in Pid
    BY <2>1, TasksAssumption DEF IInv, TypeOK
  <2>3. nextpid \notin Created /\ Created' = Created \cup {nextpid}
    BY <2>1, <2>2 DEF Created
  <2> QED BY <2>1, <2>2, <2>3 DEF IInv, ContextInv
<1>3. /\ s \in Page /\ u \in Page /\ task \in Page
      /\ pid[s] = 0 /\ pid[u] = 0 /\ pid[task] = 0
  BY TasksAssumption DEF IInv, TypeOK, Safe, OwnMemory
<1>4. /\ \A t \in Created : t \in Pid /\ stack[t] \notin {s, u, task}
                            /\ user_stack[t] \notin {s, u, task}
      /\ \A t \in Created : stack'[t] = stack[t] /\ user_stack'[t] = user_stack[t]
      /\ stack'[nextpid] = s /\ user_stack'[nextpid] = u
  <2>1. \A t \in Created : t \in Pid /\ t # nextpid
    BY <1>2, TasksAssumption DEF IInv, TypeOK, Created
  <2>2. \A t \in Created : stack[t] \notin bitmap /\ user_stack[t] \notin bitmap
    BY DEF IInv, Safe, OwnMemory
  <2> QED BY <1>1, <1>2, <2>1, <2>2 DEF IInv, TypeOK
<1>5. /\ \A p \in Page : p # task => pid'[p] = pid[p] /\ next'[p] = next[p] /\ cpu_state'[p] = cpu_state[p]
      /\ pid'[task] = nextpid /\ next'[task] = first_task /\ cpu_state'[task] = s
      /\ first_task' = task
  BY <1>1, <1>3 DEF IInv, TypeOK
<1>6. \A p \in Page : pid[p] \in 0 .. nextpid - 1
  BY DEF IInv, Safe, PidInv
<1>7. OwnMemory'
  <2>1. \A t \in Created' : {stack'[t], user_stack'[t]} \subseteq FreePages \ bitmap'
    <3>1. \A t \in Created : {stack[t], user_stack[t]} \subseteq FreePages \ bitmap
      BY DEF IInv, Safe, OwnMemory
    <3> QED BY <1>1, <1>2, <1>4, <3>1 DEF IInv, TypeOK
  <2>2. \A p \in Page : pid'[p] # 0 => p \in FreePages \ bitmap'
    <3>1. \A p \in Page : pid[p] # 0 => p \in FreePages \ bitmap
      BY DEF IInv, Safe, OwnMemory
    <3>2. task \in FreePages
      BY DEF IInv, TypeOK
    <3> QED BY <1>1, <1>5, <3>1, <3>2
  <2>3. \A t, v \in Created' :
         /\ stack'[t] # user_stack'[v]
         /\ t # v => stack'[t] # stack'[v] /\ user_stack'[t] # user_stack'[v]
    BY <1>1, <1>2, <1>4 DEF IInv, Safe, OwnMemory
  <2>4. \A t \in Created' : pid'[stack'[t]] = 0 /\ pid'[user_stack'[t]] = 0
    <3>1. \A t \in Created : pid[stack[t]] = 0 /\ pid[user_stack[t]] = 0
                              /\ stack[t] \in Page /\ user_stack[t] \in Page
      BY <1>4 DEF IInv, TypeOK, Safe, OwnMemory
    <3> QED BY <1>1, <1>2, <1>3, <1>4, <1>5, <3>1
  <2> QED BY <2>1, <2>2, <2>3, <2>4 DEF OwnMemory
<1>8. PidInv' /\ TcbNotNull'
  <2>1. TcbNotNull'
    BY <1>1, <1>5, NullIsPage DEF IInv, Safe, TcbNotNull
  <2>2. \A p \in Page : pid'[p] \in 0 .. nextpid' - 1
    <3>1. nextpid \in Nat \ {0}
      BY <1>2
    <3> QED BY <1>2, <1>5, <1>6, <3>1
  <2>3. \A p, q \in Page : pid'[p] = pid'[q] /\ pid'[p] # 0 => p = q
    <3>1. \A p, q \in Page : pid[p] = pid[q] /\ pid[p] # 0 => p = q
      BY DEF IInv, Safe, PidInv
    <3>2. \A p \in Page : pid[p] # nextpid
      BY <1>2, <1>6
    <3> QED BY <1>5, <3>1, <3>2
  <2> QED BY <2>1, <2>2, <2>3 DEF PidInv
<1>9. ThiefIsNewer'
  BY <1>2, <1>3, <1>4, <1>5 DEF IInv, Safe, ThiefIsNewer
<1>10. current_task # NULL => current_task # task /\ current_task \in Page
  BY <1>3 DEF IInv, TypeOK, Safe, CpuInv
<1>11. CpuInv' /\ WalkInv'
  <2>1. \A t \in Created' : frame'[stack'[t]] = t
    <3>1. \A t \in Created : frame[stack[t]] = t /\ stack[t] \in Page
      BY <1>4 DEF IInv, TypeOK, Safe, CpuInv
    <3>2. frame \in [Page -> Ctx]
      BY DEF IInv, TypeOK
    <3> QED BY <1>1, <1>2, <1>3, <1>4, <3>1, <3>2
  <2>2. running # Boot => running \in Created
    BY DEF IInv, TypeOK, ContextInv, Created
  <2>3. running # Boot => tss' = stack'[running']
    BY <1>4, <2>2 DEF IInv, Safe, CpuInv
  <2>4. running = Boot => kmode' \in {"boot", "user"}
    BY <1>1 DEF IInv, Safe, CpuInv
  <2> QED
    BY <1>1, <1>5, <1>10, <2>1, <2>3, <2>4 DEF IInv, Safe, CpuInv, WalkInv
<1>12. LiveTask' = LiveTask \cup {task} /\ Linked' = LiveTask' /\ Linked = LiveTask
       /\ task \notin LiveTask
  BY <1>1, <1>2, <1>3, <1>5 DEF LiveTask, Linked
<1>13. \A q \in LiveTask : q \in Page /\ q # task /\ pid'[q] = pid[q] /\ pid[q] < nextpid
  BY <1>5, <1>6, <1>12 DEF LiveTask, IInv, TypeOK
<1>14. RunList'
  <2>1. Newest(first_task, LiveTask)
        /\ \A p \in LiveTask : Newest(next[p], Older(LiveTask, p))
    BY <1>12 DEF IInv, Safe, RunList
  <2>2. Older(Linked, task)' = LiveTask
    <3>1. \A q \in Linked' : pid'[q] < pid'[task] <=> q \in LiveTask
      BY <1>2, <1>5, <1>12, <1>13 DEF IInv, TypeOK
    <3> QED BY <1>12, <3>1 DEF Older
  <2>3. \A p \in LiveTask : {q \in Linked' : pid'[q] < pid'[p]} = Older(LiveTask, p)
    BY <1>5, <1>6, <1>12, <1>13 DEF Older, IInv, TypeOK
  <2>4. Newest(first_task, Linked)'
    BY <1>2, <1>5, <1>12, <1>13 DEF Newest, IInv, TypeOK
  <2>5. Newest(next[task], Older(Linked, task))'
    BY <1>5, <1>13, <2>1, <2>2 DEF Newest
  <2>6. \A p \in LiveTask : Newest(next[p], Older(Linked, p))'
    BY <1>5, <1>13, <2>1, <2>3 DEF Newest, Older
  <2> QED BY <1>12, <2>4, <2>5, <2>6 DEF RunList
<1>15. SuccessorIntact'
  <2>1. CASE current_task # NULL
    <3>1. Newest(next[current_task], Older(LiveTask, current_task))
      BY <2>1 DEF IInv, Safe, SuccessorIntact
    <3>2. {q \in LiveTask' : pid'[q] < pid'[current_task]} = Older(LiveTask, current_task)
      BY <1>5, <1>6, <1>10, <1>12, <1>13, <2>1 DEF Older, IInv, TypeOK
    <3> QED BY <1>5, <1>10, <1>13, <2>1, <3>1, <3>2 DEF SuccessorIntact, Newest, Older
  <2>2. CASE current_task = NULL
    BY <2>2 DEF SuccessorIntact
  <2> QED BY <2>1, <2>2
<1> QED BY <1>7, <1>8, <1>9, <1>11, <1>14, <1>15 DEF Safe

\* Who calls EXIT: the program whose structure is the current task.
LEMMA ExitCaller ==
  ASSUME "EXIT" \notin PostExit, IInv, Syscall("EXIT")
  PROVE  /\ kmode = "user" /\ running # Boot
         /\ running \notin exited /\ running \in Created
         /\ current_task # NULL /\ pid[current_task] = running
         /\ current_task \in LiveTask
         /\ Linked = LiveTask
         /\ \A t \in Created : frame'[stack[t]] = t
         /\ frame'[tss] = running
<1>1. kmode = "user" /\ running # Boot /\ running \notin exited
      /\ frame' = [frame EXCEPT ![tss] = running]
  BY DEF Syscall
<1>2. running \in Created
  BY <1>1 DEF IInv, TypeOK, ContextInv, Created
<1>3. current_task # NULL /\ pid[current_task] = running
  BY <1>1 DEF IInv, Safe, CpuInv
<1>4. current_task \in LiveTask /\ Linked = LiveTask
  BY <1>1, <1>3 DEF IInv, TypeOK, LiveTask, Linked
<1> QED BY <1>1, <1>2, <1>3, <1>4, SyscallFrame

\* Of the list's tasks the one with a given pid is one, so removing the
\* running task from the live ones removes current_task alone.
LEMMA ExitedTask ==
  ASSUME IInv, kmode # "wild", current_task \in LiveTask, pid[current_task] = running,
         exited' = exited \cup {running}, UNCHANGED pid
  PROVE  LiveTask' = LiveTask \ {current_task}
BY DEF IInv, TypeOK, Safe, PidInv, LiveTask

\* Pids of structures are natural numbers and tell the structures apart.
LEMMA PidFacts ==
  ASSUME IInv, kmode # "wild"
  PROVE  /\ \A p \in Page : pid[p] \in Nat
         /\ \A p, q \in Page : pid[p] = pid[q] /\ pid[p] # 0 => p = q
         /\ \A p \in LiveTask : p \in Page /\ pid[p] # 0 /\ pid[p] \notin exited
         /\ NULL \notin LiveTask
BY DEF IInv, TypeOK, Safe, PidInv, TcbNotNull, LiveTask

LEMMA KexitHeadSafe ==
  ASSUME "EXIT" \notin PostExit, IInv, KexitHead PROVE Safe'
<1>1. Syscall("EXIT") BY DEF KexitHead
<1>2. /\ exited' = exited \cup {running} /\ first_task' = next[first_task]
      /\ kmode' = "user" /\ running' = frame'[tss]
      /\ UNCHANGED <<next, pid, cpu_state, current_task, nextpid, tss, bitmap, stack, user_stack>>
  BY DEF KexitHead, Iret, memVars
<1>3. first_task = current_task /\ current_task \in LiveTask
  BY <1>1, ExitCaller DEF KexitHead, SamePid, IInv, TypeOK, Safe, PidInv
<1>4. LiveTask' = LiveTask \ {current_task} /\ Linked' = LiveTask' /\ Linked = LiveTask
  BY <1>1, <1>2, ExitCaller, ExitedTask DEF Linked
<1>5. Created' = Created
  BY <1>2 DEF Created
<1>6. PidInv' /\ ThiefIsNewer' /\ OwnMemory' /\ TcbNotNull' /\ WalkInv'
  BY <1>1, <1>2, <1>5, ExitCaller
     DEF IInv, Safe, PidInv, ThiefIsNewer, OwnMemory, TcbNotNull, WalkInv
<1>7. CpuInv'
  BY <1>1, <1>2, <1>5, ExitCaller DEF IInv, Safe, CpuInv, Created
<1>8. /\ \A q \in LiveTask : pid[q] <= pid[current_task]
      /\ \A p \in LiveTask : Newest(next[p], Older(LiveTask, p))
  BY <1>1, <1>3, ExitCaller DEF IInv, Safe, RunList, Newest
<1>9. Older(LiveTask, current_task) = LiveTask \ {current_task}
  BY <1>1, <1>3, <1>8, ExitCaller, PidFacts DEF Older
<1>10. \A p \in LiveTask : {q \in LiveTask' : pid[q] < pid[p]} = Older(LiveTask, p)
  BY <1>1, <1>3, <1>4, <1>8, ExitCaller, PidFacts DEF Older
<1>11. RunList'
  <2>1. Newest(first_task, Linked)'
    BY <1>2, <1>3, <1>4, <1>8, <1>9 DEF Newest
  <2>2. \A p \in Linked' : Newest(next[p], Older(Linked, p))'
    BY <1>2, <1>4, <1>8, <1>10 DEF Newest, Older
  <2> QED BY <2>1, <2>2 DEF RunList
<1>12. SuccessorIntact'
  BY <1>2, <1>3, <1>8, <1>10 DEF SuccessorIntact, Newest, Older
<1> QED BY <1>6, <1>7, <1>11, <1>12 DEF Safe

LEMMA KexitEnterSafe ==
  ASSUME "EXIT" \notin PostExit, IInv, KexitEnter PROVE Safe'
<1>1. Syscall("EXIT") BY DEF KexitEnter
<1>2. /\ exited' = exited \cup {running} /\ temp' = first_task
      /\ kmode' = "kexit" /\ running' = running
      /\ UNCHANGED <<next, pid, cpu_state, first_task, current_task, nextpid, tss, bitmap, stack, user_stack>>
  BY DEF KexitEnter, listVars, memVars
<1>3. LiveTask' = LiveTask \ {current_task} /\ Linked' = LiveTask /\ Linked = LiveTask
  BY <1>1, <1>2, ExitCaller, ExitedTask DEF Linked
<1>4. Created' = Created
  BY <1>2 DEF Created
<1>5. PidInv' /\ ThiefIsNewer' /\ OwnMemory' /\ TcbNotNull'
  BY <1>1, <1>2, <1>4, ExitCaller
     DEF IInv, Safe, PidInv, ThiefIsNewer, OwnMemory, TcbNotNull
<1>6. CpuInv'
  BY <1>1, <1>2, <1>4, ExitCaller DEF IInv, Safe, CpuInv, Created
<1>7. RunList'
  BY <1>1, <1>2, <1>3, ExitCaller DEF IInv, Safe, RunList, Newest, Older
<1>8. SuccessorIntact'
  <2>1. Newest(next[current_task], Older(LiveTask, current_task))
    BY <1>1, ExitCaller DEF IInv, Safe, SuccessorIntact
  <2>2. {q \in LiveTask' : pid[q] < pid[current_task]} = Older(LiveTask, current_task)
    BY <1>1, <1>3, ExitCaller, PidFacts DEF Older
  <2> QED BY <1>2, <2>1, <2>2 DEF SuccessorIntact, Newest, Older
<1>9. WalkInv'
  <2>1. first_task \in LiveTask /\ pid[current_task] <= pid[first_task] /\ first_task # NULL
    BY <1>1, <1>3, ExitCaller, PidFacts DEF IInv, Safe, RunList, Newest
  <2>2. pid[first_task] > running
    BY <1>1, <2>1, ExitCaller, PidFacts DEF KexitEnter, SamePid, IInv, TypeOK
  <2> QED BY <1>1, <1>2, <1>3, <2>1, <2>2, ExitCaller DEF WalkInv
<1> QED BY <1>5, <1>6, <1>7, <1>8, <1>9 DEF Safe

\* What the walk knows: nobody has the pid 0, so no list member is NULL.
LEMMA Walk ==
  ASSUME IInv, kmode = "kexit", temp # NULL
  PROVE  /\ current_task # NULL /\ current_task \in Page /\ running \in exited
         /\ Linked = LiveTask \cup {current_task}
         /\ NULL \notin Linked /\ \A p \in Linked : p \in Page
         /\ temp \in Linked
         /\ \/ pid[current_task] = running /\ pid[temp] > running
            \/ pid[current_task] \notin exited /\ pid[temp] <= pid[current_task]
         /\ Newest(next[temp], Older(Linked, temp))
<1>1. current_task # NULL /\ temp \in Linked
      /\ \/ pid[current_task] = running /\ pid[temp] > running
         \/ pid[current_task] \notin exited /\ pid[temp] <= pid[current_task]
  BY DEF IInv, Safe, WalkInv
<1>2. Linked = LiveTask \cup {current_task}
  BY <1>1 DEF Linked
<1>3. running \in exited /\ Newest(next[temp], Older(Linked, temp))
  BY <1>1 DEF IInv, Safe, CpuInv, RunList
<1>4. current_task \in Page
  BY DEF IInv, TypeOK
<1> QED BY <1>1, <1>2, <1>3, <1>4, PidFacts

LEMMA KexitSkipSafe ==
  ASSUME IInv, KexitSkip PROVE Safe'
<1>1. /\ kmode = "kexit" /\ temp # NULL /\ next[temp] # NULL
      /\ ~SamePid(next[temp], current_task) /\ temp' = next[temp]
      /\ UNCHANGED <<listVars, nextpid, cpuVars, memVars, kmode, exited>>
  BY DEF KexitSkip, countVars
<1>2. Created' = Created /\ LiveTask' = LiveTask /\ Linked' = Linked
  BY <1>1 DEF Created, LiveTask, Linked, listVars
<1>3. PidInv' /\ CpuInv' /\ ThiefIsNewer' /\ OwnMemory' /\ TcbNotNull'
  BY <1>1, <1>2
     DEF IInv, Safe, PidInv, CpuInv, ThiefIsNewer, OwnMemory, TcbNotNull,
         listVars, cpuVars, memVars
<1>4. RunList' /\ SuccessorIntact'
  BY <1>1, <1>2 DEF IInv, Safe, RunList, SuccessorIntact, Newest, Older, listVars
<1>5. next[temp] \in Linked /\ pid[next[temp]] < pid[temp]
      /\ \A q \in Linked : pid[q] < pid[temp] => pid[q] <= pid[next[temp]]
  BY <1>1, Walk, PidFacts DEF Newest, Older
<1>6. pid[next[temp]] # pid[current_task]
  BY <1>1, Walk DEF SamePid
<1>7. \/ pid[current_task] = running /\ pid[next[temp]] > running
      \/ pid[current_task] \notin exited /\ pid[next[temp]] <= pid[current_task]
  BY <1>1, <1>5, <1>6, Walk, PidFacts
<1>8. WalkInv'
  BY <1>1, <1>2, <1>5, <1>7, Walk DEF WalkInv, listVars, cpuVars
<1> QED BY <1>3, <1>4, <1>8 DEF Safe

\* When the walk unlinks, it unlinks the task that exited, and no other.
LEMMA Unlink ==
  ASSUME IInv, KexitUnlink
  PROVE  /\ next[temp] = current_task /\ temp \in Page
         /\ current_task' = next[current_task]
         /\ pid[current_task] < pid[temp]
         /\ \A q \in Linked : pid[q] < pid[temp] => pid[q] <= pid[current_task]
         /\ pid[current_task] = running /\ running \in exited
<1>1. /\ kmode = "kexit" /\ temp # NULL /\ SamePid(next[temp], current_task)
      /\ next' = [next EXCEPT ![temp] = next[next[temp]]] /\ current_task' = next'[temp]
  BY DEF KexitUnlink
<1>2. next[temp] = current_task /\ temp \in Page
  BY <1>1, Walk, PidFacts DEF SamePid, Newest, Older, IInv, TypeOK, Safe, CpuInv
<1>3. current_task' = next[current_task]
  BY <1>1, <1>2 DEF IInv, TypeOK
<1>4. /\ pid[current_task] < pid[temp]
      /\ \A q \in Linked : pid[q] < pid[temp] => pid[q] <= pid[current_task]
  BY <1>1, <1>2, Walk DEF Newest, Older
<1>5. pid[current_task] = running /\ running \in exited
  BY <1>1, <1>4, Walk, PidFacts
<1> QED BY <1>2, <1>3, <1>4, <1>5

LEMMA KexitUnlinkSafe ==
  ASSUME IInv, KexitUnlink PROVE Safe'
<1> DEFINE c == next[current_task]
<1>1. /\ kmode = "kexit" /\ temp # NULL
      /\ next' = [next EXCEPT ![temp] = next[next[temp]]]
      /\ current_task' = next'[temp] /\ temp' = next'[temp]
      /\ UNCHANGED <<pid, cpu_state, first_task, nextpid, cpuVars, memVars, kmode, exited>>
  BY DEF KexitUnlink, countVars
<1>2. Created' = Created /\ LiveTask' = LiveTask
  BY <1>1 DEF Created, LiveTask
<1>3. next[temp] = current_task /\ temp \in Page
  BY Unlink
<1>4. current_task' = c /\ temp' = c /\ next'[temp] = c
      /\ \A p \in Page : p # temp => next'[p] = next[p]
  BY <1>1, <1>3 DEF IInv, TypeOK
<1>5. /\ pid[current_task] < pid[temp]
      /\ \A q \in Linked : pid[q] < pid[temp] => pid[q] <= pid[current_task]
  BY Unlink
<1>6. pid[current_task] = running /\ running \in exited
  BY Unlink
<1>7. current_task \notin LiveTask /\ temp \in LiveTask
  BY <1>1, <1>5, <1>6, Walk, PidFacts
<1>8. Newest(first_task, Linked) /\ \A p \in Linked : Newest(next[p], Older(Linked, p))
  BY <1>1 DEF IInv, Safe, RunList
<1>9. Older(Linked, current_task) = Older(LiveTask, current_task)
      /\ Older(LiveTask, temp) = Older(LiveTask, current_task)
  BY <1>1, <1>5, <1>7, Walk, PidFacts DEF Older
<1>10. Newest(c, Older(LiveTask, current_task))
  BY <1>1, <1>8, <1>9, Walk
<1>11. c # NULL => c \in LiveTask /\ pid[c] < pid[current_task]
  BY <1>10 DEF Newest, Older
<1>12. Linked' = LiveTask
  BY <1>1, <1>2, <1>4, <1>11 DEF Linked
<1>13. Newest(first_task, LiveTask)
  BY <1>1, <1>5, <1>7, <1>8, Walk, PidFacts DEF Newest
<1>14. ASSUME NEW p \in LiveTask, p # temp
       PROVE  Newest(next[p], Older(LiveTask, p))
  <2>1. Newest(next[p], Older(Linked, p)) /\ p \in Linked /\ p \in Page
    BY <1>1, <1>8, <1>14, Walk
  <2>2. pid[p] # pid[temp]
    BY <1>1, <1>7, <1>14, PidFacts
  <2>3. next[p] # current_task
    <3>1. CASE pid[p] < pid[temp]
      BY <1>1, <1>5, <2>1, <3>1, Walk, PidFacts DEF Newest, Older
    <3>2. CASE pid[temp] < pid[p]
      BY <1>1, <1>5, <2>1, <3>2, Walk, PidFacts DEF Newest, Older
    <3> QED BY <1>1, <2>1, <2>2, <3>1, <3>2, Walk, PidFacts
  <2> QED BY <1>1, <2>1, <2>3, Walk DEF Newest, Older
<1>15. RunList'
  <2>1. Newest(first_task, Linked)'
    BY <1>1, <1>12, <1>13 DEF Newest
  <2>2. \A p \in LiveTask : {q \in Linked' : pid'[q] < pid'[p]} = Older(LiveTask, p)
    BY <1>1, <1>12 DEF Older
  <2>3. ASSUME NEW p \in LiveTask
        PROVE  IF Older(LiveTask, p) = {} THEN next'[p] = NULL
               ELSE next'[p] \in Older(LiveTask, p)
                    /\ \A q \in Older(LiveTask, p) : pid[q] <= pid[next'[p]]
    <3>1. CASE p = temp
      BY <1>4, <1>9, <1>10, <3>1 DEF Newest
    <3>2. CASE p # temp
      BY <1>1, <1>4, <1>14, <3>2, PidFacts DEF Newest
    <3> QED BY <3>1, <3>2
  <2> QED BY <1>1, <1>12, <2>1, <2>2, <2>3 DEF RunList, Newest, Older
<1>16. SuccessorIntact'
  BY <1>1, <1>2, <1>4, <1>11, <1>12, <1>15 DEF RunList, SuccessorIntact
<1>17. PidInv' /\ ThiefIsNewer' /\ OwnMemory' /\ TcbNotNull'
  BY <1>1, <1>2
     DEF IInv, Safe, PidInv, ThiefIsNewer, OwnMemory, TcbNotNull, cpuVars, memVars
<1>18. CpuInv'
  <2>1. c # NULL => pid[c] # 0 /\ running > pid[c]
    BY <1>1, <1>6, <1>11, PidFacts
  <2>2. running # Boot
    BY <1>1, HandlerFrame
  <2> QED BY <1>1, <1>2, <1>4, <1>6, <2>1, <2>2 DEF IInv, Safe, CpuInv, cpuVars, memVars
<1>19. WalkInv'
  BY <1>1, <1>4, <1>11, <1>12, PidFacts DEF WalkInv
<1> QED BY <1>15, <1>16, <1>17, <1>18, <1>19 DEF Safe

LEMMA KexitReturnSafe ==
  ASSUME IInv, KexitReturn PROVE Safe'
<1>1. /\ kmode = "kexit" /\ kmode' = "user" /\ running' = running
      /\ temp # NULL => next[temp] = NULL
      /\ UNCHANGED <<frame, listVars, nextpid, tss, memVars, temp, exited>>
  BY HandlerFrame DEF KexitReturn, Iret, countVars, loopVars
<1>2. Created' = Created /\ LiveTask' = LiveTask /\ Linked' = LiveTask
  BY <1>1 DEF Created, LiveTask, Linked, listVars
<1>3. Linked = LiveTask
  <2>1. CASE temp = NULL
    BY <1>1, <2>1 DEF IInv, Safe, WalkInv, Linked
  <2>2. CASE temp # NULL
    <3>1. Older(Linked, temp) = {}
      BY <1>1, <2>2, Walk DEF Newest, Older
    <3>2. pid[current_task] \notin exited /\ pid[current_task] # 0
      BY <1>1, <2>2, <3>1, Walk, PidFacts DEF Older, IInv, Safe, CpuInv
    <3> QED BY <1>1, <2>2, <3>2, Walk DEF LiveTask
  <2> QED BY <2>1, <2>2
<1>4. RunList' /\ SuccessorIntact'
  BY <1>1, <1>2, <1>3 DEF IInv, Safe, RunList, SuccessorIntact, Newest, Older, listVars
<1>5. PidInv' /\ CpuInv' /\ WalkInv' /\ ThiefIsNewer' /\ OwnMemory' /\ TcbNotNull'
  BY <1>1, <1>2
     DEF IInv, Safe, PidInv, CpuInv, WalkInv, ThiefIsNewer, OwnMemory,
         TcbNotNull, listVars, memVars
<1> QED BY <1>4, <1>5 DEF Safe

LEMMA SafeStep ==
  ASSUME "EXIT" \notin PostExit, IInv, [Next]_vars
  PROVE  Safe'
<1>1. CASE InitMultitasking
  <2>1. CASE InitTask("user") /\ UNCHANGED current_task
    BY <1>1, <2>1, InitTaskSafe DEF InitMultitasking
  <2>2. CASE kmode' = "user" /\ UNCHANGED <<listVars, countVars, memVars, frame>>
    BY <1>1, <2>2, QuietStep DEF InitMultitasking, countVars, memVars, IInv, Safe, CpuInv, Created
  <2> QED BY <1>1, <2>1, <2>2 DEF InitMultitasking
<1>2. CASE Timer
  BY <1>2, TimerSafe
<1>3. CASE TimerNoTask \/ KexitNull
  BY <1>3, WildIsSafe DEF TimerNoTask, KexitNull
<1>4. ASSUME NEW name, Syscall(name), kmode' \in {"user", "loadf", "getchar"},
             UNCHANGED <<listVars, nextpid, exited, memVars, tss>>,
             running' = running \/ running' = frame'[tss]
      PROVE  Safe'
  <2>1. /\ kmode = "user" /\ running # Boot
        /\ frame' = [frame EXCEPT ![tss] = running]
    BY <1>4 DEF Syscall
  <2> QED BY <1>4, <2>1, SyscallFrame, QuietStep
<1>5. CASE PlainSyscall \/ GetcharEnter
  BY <1>4, <1>5 DEF PlainSyscall, GetcharEnter, Iret, countVars
<1>6. CASE \E name \in Names : LoadfEnter(name)
  BY <1>4, <1>6 DEF LoadfEnter, countVars
<1>7. CASE LoadfStep
  <2>1. CASE InitTask("loadf") /\ UNCHANGED current_task
    BY <1>7, <2>1, InitTaskSafe DEF LoadfStep
  <2>2. CASE UNCHANGED <<listVars, countVars, memVars, frame, kmode>>
    <3>1. kmode = "loadf" /\ kmode' = "loadf" /\ running # Boot
      BY <1>7, <2>2, HandlerFrame DEF LoadfStep
    <3>2. \A t \in Created : frame'[stack[t]] = t
      BY <2>2, <3>1 DEF IInv, Safe, CpuInv
    <3> QED BY <1>7, <2>2, <3>1, <3>2, QuietStep DEF LoadfStep, countVars
  <2> QED BY <1>7, <2>1, <2>2 DEF LoadfStep
<1>8. CASE LoadfReturn \/ GetcharReturn
  <2>1. /\ kmode \in {"loadf", "getchar"} /\ kmode' = "user"
        /\ UNCHANGED <<listVars, nextpid, exited, memVars, tss, frame>>
        /\ running' = frame'[tss]
    BY <1>8 DEF LoadfReturn, GetcharReturn, Iret, countVars
  <2>2. running' = running /\ \A t \in Created : frame'[stack[t]] = t
    BY <2>1, HandlerFrame DEF IInv, Safe, CpuInv
  <2> QED BY <2>1, <2>2, QuietStep
<1>9. CASE KexitHead
  BY <1>9, KexitHeadSafe
<1>10. CASE KexitEnter
  BY <1>10, KexitEnterSafe
<1>11. CASE KexitSkip
  BY <1>11, KexitSkipSafe
<1>12. CASE KexitUnlink
  BY <1>12, KexitUnlinkSafe
<1>13. CASE KexitReturn
  BY <1>13, KexitReturnSafe
<1>14. CASE Halt
  <2>1. /\ kmode = "user" /\ running # Boot /\ kmode' = "halted"
        /\ frame' = [frame EXCEPT ![tss] = running]
        /\ UNCHANGED <<listVars, nextpid, exited, memVars, tss, running>>
    BY <1>14 DEF Halt, countVars
  <2> QED BY <2>1, SyscallFrame, QuietStep
<1>15. CASE StayStopped \/ UNCHANGED vars
  <2>1. UNCHANGED <<listVars, nextpid, exited, memVars, cpuVars, temp, kmode>>
    BY <1>15 DEF StayStopped, vars, countVars, loopVars
  <2>2. Created' = Created /\ LiveTask' = LiveTask /\ Linked' = Linked
    BY <2>1 DEF Created, LiveTask, Linked, listVars
  <2>3. PidInv' /\ CpuInv' /\ WalkInv' /\ ThiefIsNewer' /\ OwnMemory' /\ TcbNotNull'
    BY <2>1, <2>2
       DEF IInv, Safe, PidInv, CpuInv, WalkInv, ThiefIsNewer, OwnMemory,
           TcbNotNull, listVars, memVars, cpuVars
  <2>4. RunList' /\ SuccessorIntact'
    BY <2>1, <2>2 DEF IInv, Safe, RunList, SuccessorIntact, Newest, Older, listVars
  <2> QED BY <2>3, <2>4 DEF Safe
<1> QED
  BY <1>1, <1>2, <1>3, <1>5, <1>6, <1>7, <1>8, <1>9, <1>10, <1>11, <1>12,
     <1>13, <1>14, <1>15 DEF Next

THEOREM Invariance ==
  ASSUME "EXIT" \notin PostExit PROVE Spec => []IInv
<1>1. Init => IInv
  BY TypeInit, ContextInit, SafeInit DEF IInv
<1>2. IInv /\ [Next]_vars => IInv'
  BY TypeStep, ContextStep, SafeStep DEF IInv
<1> QED BY <1>1, <1>2, PTL DEF Spec

LEMMA CallerStrengthened == IInv => CallerIsCurrent
BY DEF IInv, Safe, CpuInv, CallerIsCurrent

(***************************************************************************)
(* The list init_task builds and kexit takes apart, step by step along its *)
(* walk, always holds exactly the live tasks, newest first.                *)
(***************************************************************************)
THEOREM RunListCorrect ==
  ASSUME "EXIT" \notin PostExit PROVE Spec => []RunList
<1>1. IInv => RunList
  BY DEF IInv, Safe
<1> QED BY <1>1, Invariance, PTL

(***************************************************************************)
(* schedule() finds the right next task even from a current_task that      *)
(* kexit took off the list.                                                *)
(***************************************************************************)
THEOREM SuccessorCorrect ==
  ASSUME "EXIT" \notin PostExit PROVE Spec => []SuccessorIntact
<1>1. IInv => SuccessorIntact
  BY DEF IInv, Safe
<1> QED BY <1>1, Invariance, PTL

(***************************************************************************)
(* EXIT ends the task of the program that calls it.                        *)
(***************************************************************************)
THEOREM CallerCorrect ==
  ASSUME "EXIT" \notin PostExit PROVE Spec => []CallerIsCurrent
BY CallerStrengthened, Invariance, PTL

(***************************************************************************)
(* Whatever the order of loads, exits and ticks, the only context saved in *)
(* a task's structure other than its own is that of a program started      *)
(* later that has exited.                                                  *)
(***************************************************************************)
THEOREM ThiefCorrect ==
  ASSUME "EXIT" \notin PostExit PROVE Spec => []ThiefIsNewer
<1>1. IInv => ThiefIsNewer
  BY DEF IInv, Safe
<1> QED BY <1>1, Invariance, PTL

(***************************************************************************)
(* No page init_task ever took serves two purposes, and none of them is    *)
(* free: context switches and system calls write on no one else's memory.  *)
(***************************************************************************)
THEOREM OwnMemoryCorrect ==
  ASSUME "EXIT" \notin PostExit PROVE Spec => []OwnMemory
<1>1. IInv => OwnMemory
  BY DEF IInv, Safe
<1> QED BY <1>1, Invariance, PTL

--------------------------------------------------------------------------------
(* The kernel's loops come nearer to their ends.                           *)

\* How far kexit's walk may still be from the end of the list.
Ahead == IF temp = NULL THEN 0 ELSE pid[temp]

LEMMA WalkAdvances ==
  ASSUME IInv, KexitSkip \/ KexitUnlink PROVE Ahead \in Nat /\ Ahead' < Ahead
<1>1. kmode = "kexit" /\ temp # NULL /\ pid' = pid
  <2>1. CASE KexitSkip
    BY <2>1 DEF KexitSkip, listVars
  <2>2. CASE KexitUnlink
    BY <2>2 DEF KexitUnlink
  <2> QED BY <2>1, <2>2
<1>2. temp \in Page /\ temp \in Linked /\ Ahead = pid[temp] /\ pid[temp] \in Nat
  <2>1. temp \in Linked /\ temp \in Page
    BY <1>1, Walk
  <2>2. pid[temp] \in Nat
    BY <1>1, <2>1, PidFacts
  <2> QED BY <1>1, <2>1, <2>2 DEF Ahead
<1>3. pid[temp] # 0
  BY <1>1, <1>2, Walk DEF LiveTask, IInv, Safe, CpuInv
<1>4. temp' # NULL => pid[temp'] < pid[temp]
  <2>1. CASE KexitSkip
    <3>1. temp' = next[temp] /\ next[temp] # NULL
      BY <2>1 DEF KexitSkip
    <3>2. pid[next[temp]] < pid[temp]
      BY <1>1, <3>1, Walk DEF Newest, Older
    <3> QED BY <3>1, <3>2
  <2>2. CASE KexitUnlink
    <3>1. current_task' = temp' /\ current_task' = next[current_task]
          /\ pid[current_task] < pid[temp]
      BY <2>2, Unlink DEF KexitUnlink
    <3>2. Newest(next[current_task], Older(Linked, current_task)) /\ current_task \in Page
      BY <1>1, Walk DEF IInv, Safe, RunList
    <3>3. temp' # NULL => temp' \in Page /\ pid[temp'] < pid[current_task]
      BY <1>1, <3>1, <3>2, Walk DEF Newest, Older
    <3> QED BY <1>1, <1>2, <3>1, <3>2, <3>3, PidFacts
  <2> QED BY <2>1, <2>2
<1> QED BY <1>1, <1>2, <1>3, <1>4 DEF Ahead

(***************************************************************************)
(* Each iteration of kexit's walk, also the one that unlinks a task and    *)
(* goes on from its successor, leads to an older task or to the end of the *)
(* list; LOADF's narrow counter does not wrap on the way to the number of  *)
(* modules if that fits it.  It is what HandlersReturn rests on.           *)
(***************************************************************************)
THEOREM LoopsAdvance ==
  ASSUME "EXIT" \notin PostExit, Len(Modules) < IndexSpan
  PROVE  Spec => [][/\ KexitSkip \/ KexitUnlink => Ahead \in Nat /\ Ahead' < Ahead
                    /\ LoadfStep => idx' = idx + 1 /\ idx' <= Len(Modules)]_vars
<1>1. ASSUME IInv, LoadfStep PROVE idx' = idx + 1 /\ idx' <= Len(Modules)
  <2>1. idx \in Nat /\ idx < Len(Modules) /\ idx' = (idx + 1) % IndexSpan
    BY <1>1 DEF LoadfStep, IInv, TypeOK
  <2>2. Len(Modules) \in Nat /\ IndexSpan \in Nat /\ idx + 1 < IndexSpan
    BY <2>1, TasksAssumption
  <2> QED BY <2>1, <2>2
<1>2. IInv => [/\ KexitSkip \/ KexitUnlink => Ahead \in Nat /\ Ahead' < Ahead
               /\ LoadfStep => idx' = idx + 1 /\ idx' <= Len(Modules)]_vars
  BY <1>1, WalkAdvances
<1> QED BY <1>2, Invariance, PTL

--------------------------------------------------------------------------------
(* The refinement: every step of the task core is one of Turns' or changes *)
(* nothing Turns sees.                                                     *)

\* Every live task has a structure.
LiveInv == kmode # "wild" => \A t \in Live : \E p \in Page : pid[p] = t

LEMMA LiveStep ==
  ASSUME IInv, LiveInv, [Next]_vars PROVE LiveInv'
<1> SUFFICES ASSUME kmode' # "wild" PROVE LiveInv'
  BY DEF LiveInv
<1>1. ASSUME NEW m, InitTask(m), kmode # "wild", UNCHANGED exited PROVE LiveInv'
  <2>1. PICK task \in bitmap : pid' = [pid EXCEPT ![task] = nextpid]
    BY <1>1, InitTaskPages
  <2>2. task \in Page /\ pid[task] = 0
    BY <1>1, TasksAssumption DEF IInv, TypeOK, Safe, OwnMemory
  <2>3. Live' \subseteq Live \cup {nextpid} /\ 0 \notin Live
    BY <1>1 DEF InitTask, IInv, TypeOK, Live, Created
  <2>4. \A t \in Live : \E p \in Page : pid'[p] = t
    BY <1>1, <2>1, <2>2, <2>3 DEF LiveInv, IInv, TypeOK
  <2>5. pid'[task] = nextpid
    BY <2>1, <2>2 DEF IInv, TypeOK
  <2> QED BY <2>2, <2>3, <2>4, <2>5 DEF LiveInv
<1>2. ASSUME UNCHANGED <<pid, nextpid>>, kmode # "wild", exited \subseteq exited'
      PROVE LiveInv'
  BY <1>2 DEF LiveInv, Live, Created
<1>3. CASE InitMultitasking
  BY <1>1, <1>2, <1>3 DEF InitMultitasking, listVars, countVars
<1>4. CASE LoadfStep
  BY <1>1, <1>2, <1>4 DEF LoadfStep, listVars, countVars
<1>5. CASE Timer \/ TimerNoTask
  BY <1>2, <1>5 DEF Timer, TimerNoTask, Interruptible, countVars
<1>6. CASE StayStopped \/ UNCHANGED vars
  BY <1>2, <1>6 DEF StayStopped, vars, listVars, countVars
<1> QED
  BY <1>2, <1>3, <1>4, <1>5, <1>6
     DEF Next, PlainSyscall, Syscall, LoadfEnter, LoadfReturn, GetcharEnter,
         GetcharReturn, KexitHead, KexitEnter, KexitSkip, KexitUnlink,
         KexitReturn, KexitNull, Halt, listVars, countVars

Turn == IF current_task = NULL THEN 0 ELSE pid[current_task]

\* The pids Turns counts are those of the structures the list is about.
LEMMA LivePids ==
  ASSUME IInv, LiveInv, kmode # "wild"
  PROVE  /\ \A t \in Live : t \in Nat \ {0} /\ \E p \in LiveTask : pid[p] = t
         /\ \A p \in LiveTask : pid[p] \in Live
<1>1. \A t \in Live : t \in Nat \ {0} /\ t \notin exited
  BY DEF Live, Created, IInv, TypeOK
<1>2. \A p \in LiveTask : pid[p] \in Live
  BY DEF LiveTask, Live, Created, IInv, TypeOK, Safe, PidInv
<1> QED BY <1>1, <1>2 DEF LiveInv, LiveTask

LEMMA TimerTurn ==
  ASSUME IInv, LiveInv, Timer PROVE T!Tick
<1>1. /\ kmode \in {"boot", "user"} /\ kmode' = "user"
      /\ current_task' = NextTask /\ NextTask # NULL
      /\ UNCHANGED <<pid, nextpid, exited>>
  BY DEF Timer, Interruptible, countVars
<1>2. Live' = Live /\ Stopped' = Stopped /\ Turn' = pid[NextTask] /\ Linked = LiveTask
  BY <1>1 DEF Live, Created, Stopped, Turn, Linked
<1>3. CASE current_task # NULL /\ next[current_task] # NULL
  <2>1. Newest(NextTask, Older(LiveTask, current_task))
    BY <1>1, <1>3 DEF IInv, Safe, SuccessorIntact, NextTask
  <2>2. NextTask \in Older(LiveTask, current_task)
        /\ \A q \in Older(LiveTask, current_task) : pid[q] <= pid[NextTask]
    BY <1>1, <2>1 DEF Newest
  <2>3. T!Youngest(pid[NextTask], T!OlderThan(Turn))
    BY <1>1, <1>3, <2>2, LivePids DEF T!Youngest, T!OlderThan, Turn, Older
  <2> QED BY <1>2, <2>3 DEF T!Tick, T!Youngest, T!OlderThan, Turn
<1>4. CASE ~(current_task # NULL /\ next[current_task] # NULL)
  <2>1. Newest(NextTask, LiveTask)
    BY <1>1, <1>2, <1>4 DEF IInv, Safe, RunList, NextTask
  <2>2. T!Youngest(pid[NextTask], Live)
    BY <1>1, <2>1, LivePids DEF T!Youngest, Newest
  <2>3. T!OlderThan(Turn) = {}
    <3>1. CASE current_task = NULL
      BY <1>1, <3>1, LivePids DEF T!OlderThan, Turn
    <3>2. CASE current_task # NULL
      <4>1. Older(LiveTask, current_task) = {}
        BY <1>1, <1>4, <3>2, PidFacts DEF IInv, Safe, SuccessorIntact, Newest, Older
      <4> QED BY <1>1, <3>2, <4>1, LivePids DEF T!OlderThan, Turn, Older
    <3> QED BY <3>1, <3>2
  <2> QED BY <1>2, <2>2, <2>3 DEF T!Tick, Turn
<1> QED BY <1>3, <1>4

LEMMA InitTaskTurn ==
  ASSUME IInv, NEW m, InitTask(m), kmode \in {"boot", "loadf"}, m \in {"user", "loadf"},
         UNCHANGED <<current_task, exited>>
  PROVE  T!Start \/ T!Stop
<1>1. CASE kmode' = "wild"
  BY <1>1 DEF T!Stop, Stopped
<1>2. CASE kmode' # "wild"
  <2>1. PICK task \in bitmap : pid' = [pid EXCEPT ![task] = nextpid] /\ kmode' = m
    BY <1>2, InitTaskPages
  <2>2. task \in Page /\ pid[task] = 0
    BY TasksAssumption DEF IInv, TypeOK, Safe, OwnMemory
  <2>3. nextpid \in Pid /\ nextpid' = nextpid + 1 /\ nextpid \notin exited
    BY TasksAssumption DEF InitTask, IInv, TypeOK, ContextInv, Created
  <2>4. Live' = Live \cup {nextpid} /\ \A t \in Live : nextpid > t
    BY <2>3 DEF Live, Created, IInv, TypeOK
  <2>5. Turn' = Turn /\ nextpid > Turn
    BY <2>1, <2>2, <2>3 DEF Turn, IInv, TypeOK, Safe, CpuInv, PidInv
  <2>6. Stopped' = Stopped
    BY <2>1 DEF Stopped
  <2> QED BY <2>3, <2>4, <2>5, <2>6 DEF T!Start, Turn
<1> QED BY <1>1, <1>2

LEMMA ExitTurn ==
  ASSUME "EXIT" \notin PostExit, IInv, Syscall("EXIT"), exited' = exited \cup {running},
         kmode' \in {"user", "kexit"}, UNCHANGED <<pid, current_task, nextpid>>
  PROVE  T!Exit
<1>1. Turn = running /\ running \in Live /\ kmode = "user"
  BY ExitCaller DEF Turn, Live
<1>2. Turn' = Turn /\ Live' = Live \ {running}
  BY DEF Turn, Live, Created
<1>3. Stopped' = Stopped
  BY <1>1 DEF Stopped
<1> QED BY <1>1, <1>2, <1>3 DEF T!Exit, Turn

LEMMA UnlinkTurn ==
  ASSUME IInv, LiveInv, KexitUnlink PROVE T!PassOn
<1>1. /\ kmode = "kexit" /\ kmode' = kmode /\ temp # NULL
      /\ current_task' = next[current_task]
      /\ UNCHANGED <<pid, nextpid, exited>>
  BY Unlink DEF KexitUnlink, countVars
<1>2. Live' = Live /\ Stopped' = Stopped
  BY <1>1 DEF Live, Created, Stopped
<1>3. current_task # NULL /\ Turn = running /\ running \in exited /\ running # 0
  BY <1>1, Walk, Unlink, HandlerFrame DEF Turn
<1>4. Newest(next[current_task], Older(LiveTask, current_task))
  BY <1>1, <1>3 DEF IInv, Safe, SuccessorIntact
<1>5. CASE next[current_task] = NULL
  <2>1. Older(LiveTask, current_task) = {}
    BY <1>1, <1>4, <1>5, PidFacts DEF Newest, Older
  <2>2. T!OlderThan(Turn) = {} /\ Turn' = 0
    BY <1>1, <1>3, <1>5, <2>1, LivePids DEF T!OlderThan, Turn, Older
  <2> QED BY <1>2, <1>3, <2>2 DEF T!PassOn, Turn, Live
<1>6. CASE next[current_task] # NULL
  <2>1. next[current_task] \in Older(LiveTask, current_task)
        /\ \A q \in Older(LiveTask, current_task) : pid[q] <= pid[next[current_task]]
    BY <1>4, <1>6 DEF Newest
  <2>2. Turn' = pid[next[current_task]]
    BY <1>1, <1>6 DEF Turn
  <2>3. T!Youngest(Turn', T!OlderThan(Turn))
    BY <1>1, <1>3, <2>1, <2>2, LivePids DEF T!Youngest, T!OlderThan, Turn, Older
  <2> QED BY <1>2, <1>3, <2>3 DEF T!PassOn, T!Youngest, T!OlderThan, Turn, Live
<1> QED BY <1>5, <1>6

LEMMA TurnsStep ==
  ASSUME "EXIT" \notin PostExit, IInv, LiveInv, [Next]_vars
  PROVE  [T!TurnsNext]_(T!turnsVars)
<1>1. ASSUME UNCHANGED <<pid, current_task, nextpid, exited>>, Stopped' = Stopped
      PROVE  UNCHANGED T!turnsVars
  BY <1>1 DEF T!turnsVars, Live, Created
<1>2. CASE InitMultitasking
  BY <1>1, <1>2, InitTaskTurn
     DEF InitMultitasking, T!TurnsNext, Stopped, listVars, countVars
<1>3. CASE LoadfStep
  BY <1>1, <1>3, InitTaskTurn
     DEF LoadfStep, T!TurnsNext, Stopped, listVars, countVars
<1>4. CASE Timer
  BY <1>4, TimerTurn DEF T!TurnsNext
<1>5. CASE TimerNoTask \/ KexitNull \/ Halt
  BY <1>5 DEF TimerNoTask, KexitNull, Halt, Stopped, T!TurnsNext, T!Stop
<1>6. CASE KexitHead \/ KexitEnter
  BY <1>6, ExitTurn DEF KexitHead, KexitEnter, Iret, listVars, T!TurnsNext
<1>7. CASE KexitUnlink
  BY <1>7, UnlinkTurn DEF T!TurnsNext
<1>8. CASE PlainSyscall \/ GetcharEnter \/ \E name \in Names : LoadfEnter(name)
  BY <1>1, <1>8
     DEF PlainSyscall, GetcharEnter, LoadfEnter, Syscall, Iret, Stopped, listVars, countVars
<1>9. CASE LoadfReturn \/ GetcharReturn \/ KexitSkip \/ KexitReturn
  BY <1>1, <1>9
     DEF LoadfReturn, GetcharReturn, KexitSkip, KexitReturn, Iret, Stopped, listVars, countVars
<1>10. CASE StayStopped \/ UNCHANGED vars
  BY <1>1, <1>10 DEF StayStopped, Stopped, vars, listVars, countVars
<1> QED
  BY <1>2, <1>3, <1>4, <1>5, <1>6, <1>7, <1>8, <1>9, <1>10 DEF Next

(***************************************************************************)
(* The list, current_task and kexit's walk are a circle of turns: a tick   *)
(* always gives the turn to the next older live task or starts over with   *)
(* the youngest, whatever was loaded or exited since the last one.         *)
(***************************************************************************)
THEOREM TurnsImplemented ==
  ASSUME "EXIT" \notin PostExit PROVE Spec => ImplementsTurns
<1>1. Init => T!TurnsInit
  BY DEF Init, T!TurnsInit, Live, Created, Stopped
<1>2. Init => LiveInv
  BY DEF Init, LiveInv, Live, Created
<1>3. IInv /\ LiveInv /\ [Next]_vars => LiveInv' /\ [T!TurnsNext]_(T!turnsVars)
  BY LiveStep, TurnsStep
<1> QED
  BY <1>1, <1>2, <1>3, Invariance, PTL DEF Spec, ImplementsTurns, T!TurnsSpec

--------------------------------------------------------------------------------
(* Whoever waits for its turn gets nearer to it: the safety half of          *)
(* RoundRobin, whose other half is the fairness of the timer.                *)

\* The tasks of S that come before t when it is w's turn.
Before(t, w, S) == {u \in S : IF t < w THEN t < u /\ u < w ELSE u < w \/ t < u}

Waiting(t) == Before(t, Turn, Live)

LEMMA TickNears ==
  ASSUME NEW S \in SUBSET Nat, NEW w \in Nat, NEW t \in S, NEW v, v # t,
         IF {u \in S : u < w} = {} THEN T!Youngest(v, S)
                                   ELSE T!Youngest(v, {u \in S : u < w})
  PROVE  /\ Before(t, v, S) \subseteq Before(t, w, S)
         /\ v \in Before(t, w, S) \ Before(t, v, S)
<1>1. t \in Nat /\ \A u \in S : u \in Nat
  OBVIOUS
<1>2. CASE {u \in S : u < w} = {}
  <2>1. /\ v \in S /\ \A u \in S : u <= v
        /\ \A u \in S : ~(u < w)
    BY <1>2 DEF T!Youngest
  <2>2. t < v
    BY <1>1, <2>1
  <2>3. ~(t < w)
    BY <2>1
  <2> QED BY <1>1, <2>1, <2>2, <2>3 DEF Before
<1>3. CASE {u \in S : u < w} # {}
  <2>1. /\ v \in S /\ v < w
        /\ \A u \in S : u < w => u <= v
    BY <1>3 DEF T!Youngest
  <2>2. /\ v \in Nat
        /\ t < w => t < v
    BY <1>1, <2>1
  <2>3. ASSUME NEW u \in S, u \in Before(t, v, S) PROVE u \in Before(t, w, S)
    <3>1. IF t < v THEN t < u /\ u < v ELSE u < v \/ t < u
      BY <2>3 DEF Before
    <3>2. CASE t < w
      BY <1>1, <2>1, <2>2, <3>1, <3>2 DEF Before
    <3>3. CASE ~(t < w)
      BY <1>1, <2>1, <2>2, <3>1, <3>3 DEF Before
    <3> QED BY <3>2, <3>3
  <2>4. v \in Before(t, w, S) /\ v \notin Before(t, v, S)
    BY <1>1, <2>1, <2>2 DEF Before
  <2>5. Before(t, v, S) \subseteq S
    BY DEF Before
  <2> QED BY <2>3, <2>4, <2>5
<1> QED BY <1>2, <1>3

LEMMA PassNears ==
  ASSUME NEW S \in SUBSET Nat, NEW w \in Nat \ S, NEW t \in S, NEW v, v # t,
         IF {u \in S : u < w} = {} THEN v = 0
                                   ELSE T!Youngest(v, {u \in S : u < w})
  PROVE  Before(t, v, S) \subseteq Before(t, w, S)
<1>1. t \in Nat /\ w \in Nat /\ \A u \in S : u \in Nat
  OBVIOUS
<1>2. CASE {u \in S : u < w} = {}
  <2>1. v = 0 /\ ~(t < w)
    BY <1>2
  <2>2. ~(t < 0) /\ \A u \in S : ~(u < 0)
    BY <1>1
  <2>3. Before(t, v, S) = {u \in S : t < u}
    BY <2>1, <2>2 DEF Before
  <2>4. Before(t, w, S) = {u \in S : u < w \/ t < u}
    BY <2>1 DEF Before
  <2> QED BY <2>3, <2>4
<1>3. CASE {u \in S : u < w} # {}
  BY <1>3, TickNears
<1> QED BY <1>2, <1>3

TurnNearer ==
  ~Stopped' =>
    \A t \in Live \cap Live' :
      Turn' # t => /\ Waiting(t)' \subseteq Waiting(t) \cup (Live' \ Live)
                   /\ Timer => \E u \in Waiting(t) : u \notin Waiting(t)'

LEMMA NearerStep ==
  ASSUME "EXIT" \notin PostExit, IInv, LiveInv, [Next]_vars
  PROVE  TurnNearer
<1> SUFFICES ASSUME ~Stopped', NEW t \in Live, t \in Live', Turn' # t
             PROVE  /\ Waiting(t)' \subseteq Waiting(t) \cup (Live' \ Live)
                    /\ Timer => \E u \in Waiting(t) : u \notin Waiting(t)'
  BY DEF TurnNearer
<1>1. Live \in SUBSET Nat /\ Turn \in Nat
  BY DEF IInv, TypeOK, Live, Created, Turn, Ctx
<1>2. ASSUME T!Tick
      PROVE  /\ Waiting(t)' \subseteq Waiting(t)
             /\ \E u \in Waiting(t) : u \notin Waiting(t)'
  <2>1. Live' = Live
    BY <1>2 DEF T!Tick
  <2>2. IF {u \in Live : u < Turn} = {} THEN T!Youngest(Turn', Live)
                                        ELSE T!Youngest(Turn', {u \in Live : u < Turn})
    BY <1>2 DEF T!Tick, T!OlderThan, Turn
  <2>3. /\ Before(t, Turn', Live) \subseteq Before(t, Turn, Live)
        /\ Turn' \in Before(t, Turn, Live) \ Before(t, Turn', Live)
    BY <1>1, <2>2, TickNears
  <2> QED BY <2>1, <2>3 DEF Waiting, Before
<1>3. CASE Timer
  BY <1>2, <1>3, TimerTurn
<1>4. CASE ~Timer /\ T!Tick
  BY <1>2, <1>4
<1>5. ASSUME T!PassOn
      PROVE  Waiting(t)' \subseteq Waiting(t)
  <2>1. Live' = Live /\ Turn \in Nat \ Live
    BY <1>1, <1>5 DEF T!PassOn, Turn
  <2>2. IF {u \in Live : u < Turn} = {} THEN Turn' = 0
                                        ELSE T!Youngest(Turn', {u \in Live : u < Turn})
    BY <1>5 DEF T!PassOn, T!OlderThan, Turn
  <2>3. Before(t, Turn', Live) \subseteq Before(t, Turn, Live)
    BY <1>1, <2>1, <2>2, PassNears
  <2> QED BY <2>1, <2>3 DEF Waiting, Before
<1>6. ASSUME Turn' = Turn PROVE Waiting(t)' \subseteq Waiting(t) \cup (Live' \ Live)
  BY <1>6 DEF Waiting, Before
<1>7. T!Start \/ T!Exit \/ UNCHANGED T!turnsVars => Turn' = Turn
  BY DEF T!Start, T!Exit, T!turnsVars, Turn
<1>8. ~T!Stop
  BY DEF T!Stop
<1>9. [T!TurnsNext]_(T!turnsVars)
  BY TurnsStep
<1> QED BY <1>3, <1>4, <1>5, <1>6, <1>7, <1>8, <1>9 DEF T!TurnsNext

(***************************************************************************)
(* The tasks whose turns come before a waiting task's are joined only by   *)
(* one that was just loaded, and every timer interrupt that does not give  *)
(* the task its turn takes one of them away: between two turns of a task   *)
(* schedule() gives each of the others one turn at most.                   *)
(***************************************************************************)
THEOREM TurnNears ==
  ASSUME "EXIT" \notin PostExit PROVE Spec => [][TurnNearer]_vars
<1>1. Init => LiveInv
  BY DEF Init, LiveInv, Live, Created
<1>2. IInv /\ LiveInv /\ [Next]_vars => LiveInv' /\ TurnNearer
  BY LiveStep, NearerStep
<1> QED
  BY <1>1, <1>2, Invariance, PTL DEF Spec
================================================================================
