------------------------------ MODULE MCPciRegister ----------------------------
(***************************************************************************)
(* Registers of every kind: regular ones of several sizes, and ones with   *)
(* holes, without bits at the top, or without address bits; and base       *)
(* addresses that set none, some and all of the bits.                      *)
(***************************************************************************)
EXTENDS PciRegister

IoRegisters ==
  [bits : {{0}, {0, 1}},
   writable : {n .. 31 : n \in {2, 8}} \cup {n .. 15 : n \in {2, 4, 15}}
                \cup {{}, {3, 15}, 4 .. 30}]

MemRegisters ==
  [bits : SUBSET (1 .. 3),
   writable : {n .. 31 : n \in {4, 12, 31}} \cup {n .. 19 : n \in {4, 12}}
                \cup {{}, {4, 31}, 8 .. 30}]

AllRegisters == IoRegisters \cup MemRegisters

AllUppers == {{}, {0, 31}, 0 .. 30} \cup {n .. 31 : n \in {0, 1, 31}}

\* What working devices have; a register that is not there reads as 0.
PlainRegisters ==
  [bits : {{}}, writable : {{}, 12 .. 31}] \cup [bits : {{0}}, writable : {2 .. 15, 8 .. 31}]

FullUpper == {0 .. 31}

SomeBases == {{}, {12, 15, 31}, 0 .. 31}
================================================================================
