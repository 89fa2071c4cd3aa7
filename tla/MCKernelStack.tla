------------------------------ MODULE MCKernelStack ----------------------------
(***************************************************************************)
(* Low memory is free from page 0 on, as on a PC.                          *)
(***************************************************************************)
EXTENDS KernelStack

FromPageZero == [n \in 1 .. 3 * NTasks |-> n - 1]
================================================================================
