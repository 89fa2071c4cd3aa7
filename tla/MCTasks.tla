-------------------------------- MODULE MCTasks --------------------------------
(***************************************************************************)
(* Small instances of Tasks.  The sequences a cfg cannot write down.       *)
(***************************************************************************)
EXTENDS Tasks

\* A text file called like the program LOADF is asked for, init.bin, and two
\* modules of the program's name: LOADF loads the last two of four.
MCModules ==
  << [name |-> "app", elf |-> FALSE], [name |-> "init", elf |-> TRUE],
     [name |-> "app", elf |-> TRUE],  [name |-> "app", elf |-> TRUE] >>

\* One program besides init.bin, for the runs that need many loads.
MCSingle ==
  << [name |-> "init", elf |-> TRUE], [name |-> "app", elf |-> TRUE] >>
================================================================================
