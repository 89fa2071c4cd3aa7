--------------------------------- MODULE Turns ---------------------------------
(***************************************************************************)
(* What the scheduler promises, without its list, its stacks and the walk  *)
(* through kexit: the live tasks take turns in a circle, from the youngest *)
(* to the oldest and round again.  A new task joins as the youngest, and   *)
(* whoever leaves does not make the circle lose its place.                 *)
(***************************************************************************)
EXTENDS Integers

CONSTANT Pid      \* numbers tasks are given as they are started; 0 is none

VARIABLES
  live,           \* the tasks that were started and have not exited
  turn,           \* the task whose turn it is, or was when it exited
  stopped         \* the system has halted or lost its way

turnsVars == <<live, turn, stopped>>

Youngest(t, S) == t \in S /\ \A u \in S : u <= t

OlderThan(t) == {u \in live : u < t}

TurnsInit == live = {} /\ turn = 0 /\ stopped = FALSE

\* A task is started: the youngest so far.
Start ==
  /\ \E t \in Pid : /\ t > turn
                    /\ \A u \in live : t > u
                    /\ live' = live \cup {t}
  /\ UNCHANGED <<turn, stopped>>

\* The task whose turn it is exits.
Exit ==
  /\ turn \in live
  /\ live' = live \ {turn}
  /\ UNCHANGED <<turn, stopped>>

\* What is left of an exited task's turn is the next older task's, if any.
PassOn ==
  /\ turn # 0
  /\ turn \notin live
  /\ IF OlderThan(turn) = {} THEN turn' = 0 ELSE Youngest(turn', OlderThan(turn))
  /\ UNCHANGED <<live, stopped>>

\* The timer ends a turn; the next is the next older task's, and the
\* youngest's after the oldest or when it was nobody's.
Tick ==
  /\ IF OlderThan(turn) = {} THEN Youngest(turn', live)
                             ELSE Youngest(turn', OlderThan(turn))
  /\ UNCHANGED <<live, stopped>>

\* Nothing is said of a system that has stopped.
Stop == stopped' = TRUE

TurnsNext == Start \/ Exit \/ PassOn \/ Tick \/ Stop

TurnsSpec == TurnsInit /\ [][TurnsNext]_turnsVars
================================================================================
