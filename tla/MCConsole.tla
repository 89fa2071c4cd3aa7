------------------------------- MODULE MCConsole -------------------------------
(***************************************************************************)
(* A screen of four columns, two rows of text, the row that is never       *)
(* printed to and the info line, with two rows of memory behind it.        *)
(***************************************************************************)
EXTENDS Console

MCLabel == << " " >>

\* One digit, and proccount after a program has exited twice.
MCNumbers == {9, -1}
================================================================================
