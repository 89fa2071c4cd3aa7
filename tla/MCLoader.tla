-------------------------------- MODULE MCLoader -------------------------------
(***************************************************************************)
(* A machine of 26 pages of two cells: low memory, the BIOS, the kernel,   *)
(* the modules and, above them, the addresses programs are linked for.     *)
(***************************************************************************)
EXTENDS Loader

Seg(load, offset, virt, file, memory, writable) ==
  [load |-> load, offset |-> offset, virt_addr |-> virt, file_size |-> file,
   mem_size |-> memory, writable |-> writable]

File(cmdline, start, size, segments) ==
  [cmdline |-> cmdline, start |-> start, size |-> size, segments |-> segments]

\* Two programs of the same name, linked for the same addresses, one with a
\* header that is not loaded and with uninitialised data; one whose name the
\* others' begins with, in front of them; a text file; and init.
MCModules ==
  << File(<<"a", "b">>, 36, 2, << Seg(TRUE, 1, 50, 1, 2, FALSE) >>),
     File(<<"a">>, 38, 3, << Seg(TRUE, 1, 46, 1, 1, FALSE), Seg(FALSE, 0, 36, 1, 1, TRUE),
                               Seg(TRUE, 2, 47, 1, 3, TRUE) >>),
     File(<<"i">>, 42, 2, << Seg(TRUE, 1, 45, 1, 1, FALSE) >>),
     File(<<"a">>, 34, 1, << >>),
     File(<<"a">>, 32, 2, << Seg(TRUE, 1, 46, 1, 2, FALSE) >>) >>

MCInit == <<"i">>

\* The same; without init; with a text of init's name in front of it.
MCLists ==
  {MCModules, SubSeq(MCModules, 1, 2),
   << [MCModules[4] EXCEPT !.cmdline = MCInit], MCModules[3] >>}

MCRequests == {<<"a">>, <<"a", "b">>}
================================================================================
