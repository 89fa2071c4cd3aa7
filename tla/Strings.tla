--------------------------------- MODULE Strings -------------------------------
(***************************************************************************)
(* string.c, on memory that is a function from addresses to what is there. *)
(* A C string is a sequence of characters without the NUL at its end; a    *)
(* buffer is a function on 1 .. n that may hold any of them, and NUL.      *)
(***************************************************************************)
EXTENDS Integers, Sequences, FiniteSetsExt

NUL == "NUL"

\* Mutant: the fill goes one too far.
memset_Inclusive(memory, dest, c, n) ==
  [a \in DOMAIN memory |-> IF a \in dest .. dest + n THEN c ELSE memory[a]]

memset(memory, dest, c, n) ==
  [a \in DOMAIN memory |-> IF a \in dest .. dest + n - 1 THEN c ELSE memory[a]]

\* Upwards, one after the other: what is copied onto the source is copied on.
memcpy(memory, dest, src, n) ==
  LET copied[k \in 0 .. n] ==
        IF k = 0 THEN memory
                 ELSE [copied[k - 1] EXCEPT ![dest + k - 1] = copied[k - 1][src + k - 1]]
  IN  copied[n]

\* For a string that is not empty.  The NUL at its end is not copied: the
\* loop looks for it behind each character it has copied.
strcpy(buffer, str) ==
  [n \in DOMAIN buffer |-> IF n <= Len(str) THEN str[n] ELSE buffer[n]]

CharAt(str, n) == IF n \in DOMAIN str THEN str[n] ELSE NUL

\* 0 for equal strings and 1 for others, greater or smaller.  It looks at
\* the first place where the strings differ, or both end.
strcmp(str1, str2) ==
  LET stops == {n \in 1 .. Len(str1) + 1 : \/ CharAt(str1, n) # CharAt(str2, n)
                                           \/ CharAt(str1, n) = NUL}
  IN  IF CharAt(str1, Min(stops)) = CharAt(str2, Min(stops)) THEN 0 ELSE 1
================================================================================
