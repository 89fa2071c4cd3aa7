---------------------------------- MODULE Clock --------------------------------
(***************************************************************************)
(* The two sources of time.  cmos.c: reading the real-time clock one field *)
(* at a time, the fields in any order, while the clock runs; the chip is   *)
(* modelled from how cmos.c uses it.  pit.c: the timer's reload value and  *)
(* the count of ticks.                                                     *)
(*                                                                         *)
(* The chip announces an update (bit 7 of register 10) 244 us before it    *)
(* begins, and fields are invalid while it lasts.  cmos_read runs with     *)
(* interrupts off, in init() before init_intr or in a system call.         *)
(***************************************************************************)
EXTENDS Integers, Sequences

CONSTANTS
  Starts,       \* times of day, in seconds, at which the reading may begin
  MaxSeconds,   \* bound: how many seconds the clock goes on
  Frequencies,  \* the arguments of init_pit
  TickLimit     \* 1000000

PIT_HZ == 1193182
DAY    == 86400           \* in seconds
WORD == 65536
Word16 == 0 .. WORD - 1   \* a counter of the timer

ASSUME ClockAssumption ==
  /\ Starts \subseteq 0 .. DAY - 1
  /\ MaxSeconds \in Nat
  /\ Frequencies \subseteq 1 .. PIT_HZ
  /\ TickLimit \in Nat

VARIABLES
  start,        \* what the clock shows when the reading begins
  bcd,          \* its number format: bit 2 of register 11 is clear
  elapsed,      \* seconds since then
  phase,        \* of the chip's update
  pc,           \* where cmos_read and convert are
  field,        \* the field that is read
  raw,          \* the byte read
  reading,      \* history: a record of each field read, in order
  entered,      \* history: elapsed when the reading of the field began
  frequency,
  reload,       \* the timer's reload value; 0 before init_pit
  tick

chipVars  == <<start, bcd, elapsed, phase>>
readVars  == <<pc, field, raw, reading, entered>>
timerVars == <<frequency, reload, tick>>
clockVars == <<chipVars, readVars, timerVars>>

Field == {"h", "m", "s"}
Reading == [field : Field, value : 0 .. 255, entered : 0 .. MaxSeconds, left : 0 .. MaxSeconds]

ClockTypeOK ==
  /\ start \in Starts
  /\ bcd \in BOOLEAN
  /\ elapsed \in 0 .. MaxSeconds
  /\ phase \in {"idle", "soon", "updating"}
  /\ pc \in {"user", "poll", "read", "convert"}
  /\ field \in Field
  /\ raw \in 0 .. 255
  /\ reading \in Seq(Reading)
  /\ Len(reading) <= 3
  /\ entered \in 0 .. MaxSeconds
  /\ frequency \in Frequencies
  /\ reload \in Word16
  /\ tick \in 0 .. TickLimit

ClockInit ==
  /\ start \in Starts
  /\ bcd \in BOOLEAN
  /\ elapsed = 0
  /\ phase = "idle"
  /\ pc = "user"
  /\ field = "h"
  /\ raw = 0
  /\ reading = << >>
  /\ entered = 0
  /\ frequency \in Frequencies
  /\ reload = 0
  /\ tick = 0

--------------------------------------------------------------------------------
(* The clock chip.                                                         *)

\* What the clock shows in a field at a time of day.
Shown(f, time) ==
  CASE f = "h" -> (time % DAY) \div 3600
    [] f = "m" -> (time % 3600) \div 60
    [] f = "s" -> time % 60

\* The byte the chip keeps for a number.
Encoded(n) == IF bcd THEN (n \div 10) * 16 + (n % 10) ELSE n

\* The update is announced.
Announce ==
  /\ phase = "idle"
  /\ elapsed < MaxSeconds
  /\ phase' = "soon"
  /\ UNCHANGED <<start, bcd, elapsed, readVars, timerVars>>

\* The two port accesses from the end of the wait to the byte take less than
\* the 244 us from the announcement to the update.
StartUpdate ==
  /\ phase = "soon"
  /\ pc # "read"
  /\ phase' = "updating"
  /\ UNCHANGED <<start, bcd, elapsed, readVars, timerVars>>

EndUpdate ==
  /\ phase = "updating"
  /\ phase' = "idle"
  /\ elapsed' = elapsed + 1
  /\ UNCHANGED <<start, bcd, readVars, timerVars>>

--------------------------------------------------------------------------------
(* cmos.c                                                                  *)

\* read_h, read_m or read_s is called, each once.
Enter ==
  /\ pc = "user"
  /\ \E f \in Field :
       /\ \A i \in DOMAIN reading : reading[i].field # f
       /\ field' = f
  /\ pc' = "poll"
  /\ entered' = elapsed
  /\ UNCHANGED <<raw, reading, chipVars, timerVars>>

\* Mutant: the bit is read and not waited for.
Poll_Once ==
  /\ pc = "poll"
  /\ pc' = "read"
  /\ UNCHANGED <<field, raw, reading, entered, chipVars, timerVars>>

\* Mutant: the wait ends when the bit is set.
Poll_Inverted ==
  /\ pc = "poll"
  /\ phase # "idle"
  /\ pc' = "read"
  /\ UNCHANGED <<field, raw, reading, entered, chipVars, timerVars>>

\* The wait ends when no update is announced or under way.
Poll ==
  /\ pc = "poll"
  /\ phase = "idle"
  /\ pc' = "read"
  /\ UNCHANGED <<field, raw, reading, entered, chipVars, timerVars>>

\* A field may hold anything while it is being updated.
Read ==
  /\ pc = "read"
  /\ IF phase = "updating"
       THEN raw' \in 0 .. 255
       ELSE raw' = Encoded(Shown(field, start + elapsed))
  /\ pc' = "convert"
  /\ UNCHANGED <<field, reading, entered, chipVars, timerVars>>

\* Mutant: binary is taken for granted.
Converted_Binary(num) == num

Converted(num) == IF bcd THEN (num % 16) + (num \div 16) * 10 ELSE num

Convert ==
  /\ pc = "convert"
  /\ reading' = Append(reading,
       [field |-> field, value |-> Converted(raw), entered |-> entered, left |-> elapsed])
  /\ pc' = "user"
  /\ UNCHANGED <<field, raw, entered, chipVars, timerVars>>

--------------------------------------------------------------------------------
(* pit.c                                                                   *)

\* Mutants: the counter in full; the high byte is lost.
Reload_ThreeBytes(f) == PIT_HZ \div f
Reload_LowByte(f) == (PIT_HZ \div f) % 256

\* outb takes a byte, so the third one of the counter is lost.
Reload(f) ==
  LET counter == PIT_HZ \div f
  IN (counter % 256) + 256 * ((counter \div 256) % 256)

init_pit ==
  /\ pc = "user"
  /\ reload = 0
  /\ reload' = Reload(frequency)
  /\ UNCHANGED <<frequency, tick, chipVars, readVars>>

\* Interrupts are off in a system call.
pit_irq_handler ==
  /\ pc = "user"
  /\ reload # 0
  /\ tick' = IF tick + 1 > TickLimit THEN 0 ELSE tick + 1
  /\ UNCHANGED <<frequency, reload, chipVars, readVars>>

reset_tick ==
  /\ pc = "user"
  /\ tick' = 0
  /\ UNCHANGED <<frequency, reload, chipVars, readVars>>

ReadStep == Poll \/ Read \/ Convert

ClockNext ==
  \/ Announce \/ StartUpdate \/ EndUpdate
  \/ Enter \/ ReadStep
  \/ init_pit \/ pit_irq_handler \/ reset_tick

ClockSpec == ClockInit /\ [][ClockNext]_clockVars

(***************************************************************************)
(* Fairness.  An update that is announced begins and ends.  The loop that  *)
(* waits looks many times in the second between two updates, so that it    *)
(* cannot see one each time.                                               *)
(***************************************************************************)
ClockFairSpec ==
  /\ ClockSpec
  /\ WF_clockVars(StartUpdate)
  /\ WF_clockVars(EndUpdate)
  /\ WF_clockVars(Read \/ Convert)
  /\ SF_clockVars(Poll)

--------------------------------------------------------------------------------
(* Properties                                                              *)

\* What read_h, read_m and read_s return was on the clock between call and
\* return, whatever the clock does meanwhile and in either number format.
ReadWasShown ==
  \A i \in DOMAIN reading :
    \E e \in reading[i].entered .. reading[i].left :
      reading[i].value = Shown(reading[i].field, start + e)

Order == [i \in DOMAIN reading |-> reading[i].field]

\* The time of day put together from three readings.
Composed ==
  LET value(f) == (CHOOSE i \in 1 .. 3 : reading[i].field = f)
  IN 3600 * reading[value("h")].value + 60 * reading[value("m")].value
       + reading[value("s")].value

SameDay == start + elapsed < DAY

\* A time put together from three calls may be one that never was, but it errs
\* in one direction.  Hours first, as init.c:54 writes its arguments: it is not
\* ahead of the clock.  Seconds first, as compilers evaluate these arguments:
\* it is not behind the clock of the first call.
TimeOfDay ==
  SameDay =>
    /\ Order = <<"h", "m", "s">> => Composed <= start + reading[3].left
    /\ Order = <<"s", "m", "h">> => Composed >= start + reading[1].entered

\* The timer's counter has 16 bits: what init_pit writes is right from 19 Hz on.
ReloadRight == reload # 0 /\ frequency >= 19 => reload = PIT_HZ \div frequency

\* No reading waits for the chip for ever.
ReadEnds == pc # "user" ~> pc = "user"
================================================================================
