------------------------------ MODULE LoaderProofs -----------------------------
(***************************************************************************)
(* For any memory, modules and number of tasks: the programs of the wanted *)
(* name are started and no others, each as its file has it, and their code *)
(* stays, whatever programs write, load and exit.                          *)
(*                                                                         *)
(* memcpy and the loop over the headers are recursive functions.  Each is  *)
(* shown to equal a function that is not (Copied, After): that one solves  *)
(* the recursion, and at the least place at which two solutions differed,  *)
(* both would be what the recursion makes of an equal place before.        *)
(***************************************************************************)
EXTENDS Loader, FiniteSetTheorems, SequenceTheorems, WellFoundedInduction, TLAPS

\* A set of natural numbers has a least member.
LEMMA Least ==
  ASSUME NEW T, T \subseteq Nat, T # {}
  PROVE  \E x \in T : \A y \in T : x <= y
<1>1. PICK x \in T : \A y \in T : ~(<<y, x>> \in OpToRel(<, Nat))
  BY NatLessThanWellFounded, WFMin
<1>2. \A y \in T : ~(y < x)
  BY <1>1 DEF OpToRel
<1> QED
  BY <1>2

LEMMA MinIsLeast ==
  ASSUME NEW T, T \subseteq Nat, T # {}
  PROVE  Min(T) \in T /\ \A y \in T : Min(T) <= y
<1>1. \E x \in T : \A y \in T : x <= y
  BY Least
<1> QED
  BY <1>1, Zenon DEF Min

\* What memcpy leaves behind when the copy does not overlap its source.
Copied(memory, dest, src, n) ==
  [a \in Cell |-> IF a \in dest .. dest + n - 1 THEN memory[src + (a - dest)] ELSE memory[a]]

LEMMA Memcpy ==
  ASSUME NEW V, NEW memory \in [Cell -> V], NEW dest \in Nat, NEW src \in Nat, NEW n \in Nat,
         dest .. dest + n - 1 \subseteq Cell,
         src .. src + n - 1 \subseteq Cell \ (dest .. dest + n - 1)
  PROVE  memcpy(memory, dest, src, n) = Copied(memory, dest, src, n)
<1> DEFINE g == [k \in 0 .. n |->
                   [a \in Cell |-> IF a \in dest .. dest + k - 1 THEN memory[src + (a - dest)]
                                                                 ELSE memory[a]]]
           copied[k \in 0 .. n] ==
             IF k = 0 THEN memory
                      ELSE [copied[k - 1] EXCEPT ![dest + k - 1] = copied[k - 1][src + k - 1]]
<1>c. Cell \subseteq Int
  BY DEF Cell
<1>1. ASSUME NEW k \in 0 .. n
      PROVE  g[k] = IF k = 0 THEN memory
                    ELSE [g[k - 1] EXCEPT ![dest + k - 1] = g[k - 1][src + k - 1]]
  <2>1. CASE k = 0
    BY <2>1, <1>c
  <2>2. CASE k # 0
    <3>1. k - 1 \in 0 .. n /\ dest + k - 1 \in Cell /\ src + k - 1 \in Cell
      BY <2>2
    <3>2. g[k - 1][src + k - 1] = memory[src + k - 1]
      BY <3>1, <2>2
    <3>3. g[k] = [g[k - 1] EXCEPT ![dest + k - 1] = memory[src + k - 1]]
      <4>1. ASSUME NEW a \in Cell
            PROVE  g[k][a] = [g[k - 1] EXCEPT ![dest + k - 1] = memory[src + k - 1]][a]
        <5>1. a \in Int
          BY <1>c
        <5>2. a \in dest .. dest + k - 1 <=> a \in dest .. dest + (k - 1) - 1 \/ a = dest + k - 1
          BY <5>1, <2>2
        <5>3. CASE a = dest + k - 1
          BY <5>3, <3>1, <5>2
        <5>4. CASE a # dest + k - 1
          BY <5>4, <3>1, <5>2
        <5> QED
          BY <5>3, <5>4
      <4> HIDE <4>1
      <4> QED
        BY <4>1, <3>1
    <3> QED
      BY <2>2, <3>2, <3>3
  <2> QED
    BY <2>1, <2>2
<1>2. g = [k \in 0 .. n |->
            IF k = 0 THEN memory
            ELSE [g[k - 1] EXCEPT ![dest + k - 1] = g[k - 1][src + k - 1]]]
  BY <1>1
<1> HIDE DEF g
<1>3. copied = [k \in 0 .. n |->
                 IF k = 0 THEN memory
                 ELSE [copied[k - 1] EXCEPT ![dest + k - 1] = copied[k - 1][src + k - 1]]]
  BY <1>2, Zenon
<1>4. memcpy(memory, dest, src, n) = copied[n]
  BY Zenon DEF memcpy
<1> HIDE DEF copied
<1>5. \A k \in 0 .. n : copied[k] = g[k]
  <2> DEFINE T == {k \in 0 .. n : copied[k] # g[k]}
  <2>1. SUFFICES ASSUME T # {} PROVE FALSE
    OBVIOUS
  <2>2. PICK k \in T : \A l \in T : k <= l
    <3>1. T \subseteq Nat
      OBVIOUS
    <3> HIDE DEF T
    <3> QED
      BY <2>1, <3>1, Least
  <2>3. k # 0
    BY <1>2, <1>3
  <2>4. k - 1 \in 0 .. n /\ copied[k - 1] = g[k - 1]
    BY <2>2, <2>3
  <2>5. copied[k] = g[k]
    BY <1>2, <1>3, <2>3, <2>4
  <2> QED
    BY <2>5
<1> QED
  BY <1>4, <1>5 DEF g, Copied

--------------------------------------------------------------------------------
(* What the assumptions say of the modules that are there.                 *)

Seg(m, n) == modules[m].segments[n]

LEMMA ModuleFacts ==
  ASSUME modules \in ModuleLists, NEW m \in DOMAIN modules
  PROVE  /\ modules[m] \in Module
         /\ Image(m) \subseteq Cell
         /\ \A l \in DOMAIN modules \ {m} : Image(m) \cap Image(l) = {}
         /\ \A p \in Handed : Image(m) \cap Cells(p) = {}
         /\ Len(modules[m].cmdline) \in 1 .. BufSize - 1
<1>1. modules \in Seq(Module)
  BY LoaderAssumption
<1>2. modules[m] \in Module
  BY <1>1, LenProperties, ElementOfSeq
<1> QED
  BY <1>2, LoaderAssumption, PlacesAssumption DEF Image

LEMMA SegmentFacts ==
  ASSUME modules \in ModuleLists, NEW m \in DOMAIN modules, NEW n \in Loadable(m)
  PROVE  /\ Seg(m, n) \in Segment
         /\ n \in 1 .. Len(modules[m].segments)
         /\ Seg(m, n).file_size <= Seg(m, n).mem_size
         /\ Seg(m, n).offset + Seg(m, n).file_size <= modules[m].size
         /\ SegmentCells(Seg(m, n)) \subseteq Cell
         /\ \A k \in Loadable(m) \ {n} : SegmentCells(Seg(m, n)) \cap SegmentCells(Seg(m, k)) = {}
         /\ \A l \in DOMAIN modules : SegmentCells(Seg(m, n)) \cap Image(l) = {}
         /\ \A p \in Handed : SegmentCells(Seg(m, n)) \cap Cells(p) = {}
<1>1. modules[m].segments \in Seq(Segment)
  BY ModuleFacts DEF Module
<1>2. n \in DOMAIN modules[m].segments
  BY DEF Loadable, LoadableOf
<1>3. n \in 1 .. Len(modules[m].segments) /\ Seg(m, n) \in Segment
  BY <1>1, <1>2, LenProperties, ElementOfSeq DEF Seg
<1>4. Placed(modules, m, n)
  BY PlacesAssumption DEF Loadable
<1> QED
  BY <1>3, <1>4 DEF Placed, Loadable, Image, Seg

--------------------------------------------------------------------------------
(* init_elf.                                                               *)

\* The modules' files are as the boot loader has left them.
Kept(memory) ==
  \A m \in DOMAIN modules : \A a \in Image(m) : memory[a] = Part(m, a - modules[m].start)

\* A fresh cell of a segment.
LEMMA FreshContent ==
  ASSUME modules \in ModuleLists, NEW m \in DOMAIN modules, NEW n \in Loadable(m),
         NEW a \in SegmentCells(Seg(m, n))
  PROVE  Fresh(Seg(m, n), m, a) \in Content
<1> DEFINE s == Seg(m, n)
<1>1. s \in Segment /\ s.offset + s.file_size <= modules[m].size /\ modules[m].size \in Nat
  BY SegmentFacts, ModuleFacts DEF Module
<1>2. a \in s.virt_addr .. s.virt_addr + s.mem_size - 1
  BY DEF SegmentCells
<1> HIDE DEF s
<1>3. s.virt_addr \in Int /\ s.offset \in Nat /\ s.file_size \in Nat
  BY <1>1 DEF Segment, Cell
<1>4. CASE a - s.virt_addr < s.file_size
  <2>1. s.offset + a - s.virt_addr \in 0 .. modules[m].size - 1
    BY <1>1, <1>2, <1>3, <1>4
  <2> QED
    BY <1>4, <2>1 DEF Fresh, Content, s
<1>5. CASE ~(a - s.virt_addr < s.file_size)
  BY <1>5 DEF Fresh, Content, s
<1> QED
  BY <1>4, <1>5

\* One header: cleared, then copied over.
LEMMA SegmentLoaded ==
  ASSUME modules \in ModuleLists, NEW memory \in [Cell -> Content], Kept(memory),
         NEW m \in DOMAIN modules, NEW n \in Loadable(m)
  PROVE  LoadSegment(memory, m, Seg(m, n)) =
           [a \in Cell |-> IF a \in SegmentCells(Seg(m, n)) THEN Fresh(Seg(m, n), m, a)
                                                            ELSE memory[a]]
<1> DEFINE s       == Seg(m, n)
           cleared == memset(memory, s.virt_addr, Zero, s.mem_size)
           src     == modules[m].start + s.offset
<1>1. /\ s.virt_addr \in Nat /\ s.offset \in Nat /\ s.file_size \in Nat /\ s.mem_size \in Nat
      /\ modules[m].start \in Nat /\ modules[m].size \in Nat
  <2>1. s \in Segment /\ modules[m] \in Module
    BY SegmentFacts, ModuleFacts
  <2> HIDE DEF s
  <2> QED
    BY <2>1 DEF Segment, Module, Cell
<1>2. /\ s.file_size <= s.mem_size /\ s.offset + s.file_size <= modules[m].size
      /\ SegmentCells(s) \subseteq Cell /\ SegmentCells(s) \cap Image(m) = {}
      /\ Image(m) \subseteq Cell
  BY SegmentFacts, ModuleFacts
<1>3. SegmentCells(s) = s.virt_addr .. s.virt_addr + s.mem_size - 1
  BY DEF SegmentCells
<1>4. Image(m) = modules[m].start .. modules[m].start + modules[m].size - 1
  BY DEF Image, FileCells
<1> HIDE DEF s
<1>5. cleared = [a \in Cell |-> IF a \in SegmentCells(s) THEN Zero ELSE memory[a]]
  BY <1>3 DEF memset
<1>6. cleared \in [Cell -> Content]
  BY <1>5 DEF Content
<1> HIDE DEF cleared
<1>7. /\ s.virt_addr .. s.virt_addr + s.file_size - 1 \subseteq SegmentCells(s)
      /\ src .. src + s.file_size - 1 \subseteq Image(m)
      /\ src \in Nat
  <2>1. src \in Nat
    BY <1>1
  <2>2. s.virt_addr .. s.virt_addr + s.file_size - 1 \subseteq SegmentCells(s)
    BY <1>1, <1>2, <1>3
  <2>3. src + s.file_size - 1 <= modules[m].start + modules[m].size - 1 /\ modules[m].start <= src
    BY <1>1, <1>2
  <2> HIDE DEF src
  <2>4. src .. src + s.file_size - 1 \subseteq Image(m)
    BY <1>1, <1>4, <2>1, <2>3
  <2> QED
    BY <2>1, <2>2, <2>4
<1>8. LoadSegment(memory, m, s) =
        [a \in Cell |-> IF a \in s.virt_addr .. s.virt_addr + s.file_size - 1
                          THEN cleared[src + (a - s.virt_addr)] ELSE cleared[a]]
  <2>1. /\ s.virt_addr .. s.virt_addr + s.file_size - 1 \subseteq Cell
        /\ src .. src + s.file_size - 1 \subseteq
             Cell \ (s.virt_addr .. s.virt_addr + s.file_size - 1)
    BY <1>2, <1>7
  <2>2. LoadSegment(memory, m, s) = memcpy(cleared, s.virt_addr, src, s.file_size)
    BY DEF LoadSegment, cleared
  <2> HIDE DEF src
  <2> QED
    <3> DEFINE d == s.virt_addr
               f == s.file_size
    <3>1. d \in Nat /\ f \in Nat /\ src \in Nat
      BY <1>1, <1>7
    <3>2. /\ d .. d + f - 1 \subseteq Cell
          /\ src .. src + f - 1 \subseteq Cell \ (d .. d + f - 1)
      BY <2>1
    <3> HIDE DEF d, f
    <3>3. memcpy(cleared, d, src, f) = Copied(cleared, d, src, f)
      BY <1>6, <3>1, <3>2, Memcpy
    <3> QED
      BY <2>2, <3>3 DEF d, f, Copied
<1>9. ASSUME NEW a \in Cell
      PROVE  (IF a \in s.virt_addr .. s.virt_addr + s.file_size - 1
                THEN cleared[src + (a - s.virt_addr)] ELSE cleared[a]) =
             (IF a \in SegmentCells(s) THEN Fresh(s, m, a) ELSE memory[a])
  <2>0. a \in Int
    BY DEF Cell
  <2>1. CASE a \in s.virt_addr .. s.virt_addr + s.file_size - 1
    <3> DEFINE b == src + (a - s.virt_addr)
    <3>1. b \in src .. src + s.file_size - 1
      <4>1. src \in Nat
        BY <1>7
      <4> HIDE DEF src
      <4> QED
        BY <1>1, <2>0, <2>1, <4>1
    <3>4. b - modules[m].start = s.offset + a - s.virt_addr
      BY <1>1, <2>0
    <3> HIDE DEF src, b
    <3>0. b \in Image(m) /\ b \in Cell /\ b \notin SegmentCells(s)
      BY <1>2, <1>7, <3>1
    <3>2. cleared[b] = memory[b]
      BY <1>5, <3>0
    <3>3. memory[b] = Part(m, b - modules[m].start)
      BY <3>0 DEF Kept
    <3>5. a - s.virt_addr < s.file_size /\ a \in SegmentCells(s)
      BY <1>1, <1>7, <2>0, <2>1
    <3>6. Fresh(s, m, a) = Part(m, s.offset + a - s.virt_addr)
      BY <3>5 DEF Fresh
    <3> QED
      BY <2>1, <3>2, <3>3, <3>4, <3>5, <3>6 DEF b
  <2>2. CASE a \in SegmentCells(s) /\ a \notin s.virt_addr .. s.virt_addr + s.file_size - 1
    <3>1. ~(a - s.virt_addr < s.file_size)
      BY <1>1, <1>3, <2>0, <2>2
    <3> QED
      BY <1>5, <2>2, <3>1 DEF Fresh
  <2>3. CASE a \notin SegmentCells(s)
    BY <1>5, <1>7, <2>3
  <2> QED
    BY <2>1, <2>2, <2>3
<1> HIDE DEF src
<1>10. LoadSegment(memory, m, s) =
         [a \in Cell |-> IF a \in SegmentCells(s) THEN Fresh(s, m, a) ELSE memory[a]]
  BY <1>8, <1>9
<1> QED
  BY <1>10 DEF s

\* Memory after the first k headers.
After(m, k) ==
  [a \in Cell |->
     IF \E n \in Loadable(m) : n <= k /\ a \in SegmentCells(Seg(m, n))
       THEN Fresh(Seg(m, CHOOSE n \in Loadable(m) : n <= k /\ a \in SegmentCells(Seg(m, n))), m, a)
       ELSE mem[a]]

\* No two segments of a program meet, so there is one to choose from.
LEMMA AfterCell ==
  ASSUME modules \in ModuleLists, NEW m \in DOMAIN modules, NEW k \in Nat,
         NEW n \in Loadable(m), n <= k, NEW a \in SegmentCells(Seg(m, n))
  PROVE  After(m, k)[a] = Fresh(Seg(m, n), m, a)
<1>1. a \in Cell
  BY SegmentFacts
<1> DEFINE l == CHOOSE l \in Loadable(m) : l <= k /\ a \in SegmentCells(Seg(m, l))
<1>2. l \in Loadable(m) /\ a \in SegmentCells(Seg(m, l))
  OBVIOUS
<1>3. After(m, k)[a] = Fresh(Seg(m, l), m, a)
  BY <1>1 DEF After
<1> HIDE DEF l
<1>4. l = n
  BY <1>2, SegmentFacts
<1> QED
  BY <1>3, <1>4

LEMMA AfterOther ==
  ASSUME NEW m, NEW k, NEW a \in Cell,
         \A n \in Loadable(m) : n <= k => a \notin SegmentCells(Seg(m, n))
  PROVE  After(m, k)[a] = mem[a]
BY DEF After

LEMMA AfterKept ==
  ASSUME modules \in ModuleLists, mem \in [Cell -> Content], Kept(mem),
         NEW m \in DOMAIN modules, NEW k \in Nat
  PROVE  After(m, k) \in [Cell -> Content] /\ Kept(After(m, k))
<1>1. ASSUME NEW a \in Cell PROVE After(m, k)[a] \in Content
  <2>1. CASE \E n \in Loadable(m) : n <= k /\ a \in SegmentCells(Seg(m, n))
    <3>1. PICK n \in Loadable(m) : n <= k /\ a \in SegmentCells(Seg(m, n))
      BY <2>1
    <3> QED
      BY <3>1, AfterCell, FreshContent
  <2>2. CASE ~\E n \in Loadable(m) : n <= k /\ a \in SegmentCells(Seg(m, n))
    BY <2>2, AfterOther
  <2> QED
    BY <2>1, <2>2
<1>2. ASSUME NEW l \in DOMAIN modules, NEW a \in Image(l)
      PROVE  After(m, k)[a] = Part(l, a - modules[l].start)
  <2>1. a \in Cell /\ \A n \in Loadable(m) : a \notin SegmentCells(Seg(m, n))
    BY ModuleFacts, SegmentFacts
  <2> QED
    BY <2>1, AfterOther DEF Kept
<1>3. After(m, k) = [a \in Cell |-> After(m, k)[a]]
  BY DEF After
<1> QED
  BY <1>1, <1>2, <1>3 DEF Kept

\* Each header leads from one After to the next.
LEMMA AfterHeader ==
  ASSUME modules \in ModuleLists, mem \in [Cell -> Content], Kept(mem),
         NEW m \in DOMAIN modules, NEW k \in 1 .. Len(modules[m].segments)
  PROVE  After(m, k) = IF k \in Loadable(m) THEN LoadSegment(After(m, k - 1), m, Seg(m, k))
                                            ELSE After(m, k - 1)
<1>0. k \in Nat /\ k - 1 \in Nat /\ \A n \in Loadable(m) : n \in Nat
  BY SegmentFacts
<1>f. /\ After(m, k) = [a \in Cell |-> After(m, k)[a]]
      /\ After(m, k - 1) = [a \in Cell |-> After(m, k - 1)[a]]
  BY DEF After
<1>1. CASE k \in Loadable(m)
  <2>1. LoadSegment(After(m, k - 1), m, Seg(m, k)) =
          [a \in Cell |-> IF a \in SegmentCells(Seg(m, k)) THEN Fresh(Seg(m, k), m, a)
                                                           ELSE After(m, k - 1)[a]]
    BY <1>0, <1>1, AfterKept, SegmentLoaded
  <2>2. ASSUME NEW a \in Cell
        PROVE  After(m, k)[a] = IF a \in SegmentCells(Seg(m, k)) THEN Fresh(Seg(m, k), m, a)
                                                                 ELSE After(m, k - 1)[a]
    <3>1. CASE a \in SegmentCells(Seg(m, k))
      BY <1>0, <1>1, <3>1, AfterCell
    <3>2. CASE a \notin SegmentCells(Seg(m, k))
      <4>1. CASE \E n \in Loadable(m) : n <= k /\ a \in SegmentCells(Seg(m, n))
        <5>1. PICK n \in Loadable(m) : n <= k /\ a \in SegmentCells(Seg(m, n))
          BY <4>1
        <5>2. n <= k - 1
          BY <1>0, <3>2, <5>1
        <5> QED
          BY <1>0, <3>2, <5>1, <5>2, AfterCell
      <4>2. CASE ~\E n \in Loadable(m) : n <= k /\ a \in SegmentCells(Seg(m, n))
        <5>1. \A n \in Loadable(m) : n <= k - 1 => a \notin SegmentCells(Seg(m, n))
          BY <1>0, <4>2
        <5> QED
          BY <3>2, <4>2, <5>1, AfterOther
      <4> QED
        BY <4>1, <4>2
    <3> QED
      BY <3>1, <3>2
  <2> QED
    BY <1>1, <1>f, <2>1, <2>2
<1>2. CASE k \notin Loadable(m)
  <2>1. \A n \in Loadable(m) : n <= k <=> n <= k - 1
    BY <1>0, <1>2
  <2>2. ASSUME NEW a \in Cell PROVE After(m, k)[a] = After(m, k - 1)[a]
    <3>1. CASE \E n \in Loadable(m) : n <= k /\ a \in SegmentCells(Seg(m, n))
      BY <1>0, <2>1, <3>1, AfterCell
    <3>2. CASE ~\E n \in Loadable(m) : n <= k /\ a \in SegmentCells(Seg(m, n))
      BY <2>1, <3>2, AfterOther
    <3> QED
      BY <3>1, <3>2
  <2> QED
    BY <1>2, <1>f, <2>2
<1> QED
  BY <1>1, <1>2

\* init_elf's loop over the headers.
LEMMA SegmentsLoaded ==
  ASSUME modules \in ModuleLists, mem \in [Cell -> Content], Kept(mem),
         NEW m \in DOMAIN modules
  PROVE  LoadSegments(m) = After(m, Len(modules[m].segments))
<1> DEFINE N == Len(modules[m].segments)
           g == [k \in 0 .. N |-> After(m, k)]
           loaded[n \in 0 .. Len(modules[m].segments)] ==
             IF n = 0 THEN mem
             ELSE IF n \in Loadable(m)
                    THEN LoadSegment(loaded[n - 1], m, modules[m].segments[n])
                    ELSE loaded[n - 1]
<1>0. N \in Nat
  BY ModuleFacts, LenProperties DEF Module
<1>1. \A k \in 0 .. N :
        g[k] = IF k = 0 THEN mem
               ELSE IF k \in Loadable(m)
                      THEN LoadSegment(g[k - 1], m, modules[m].segments[k])
                      ELSE g[k - 1]
  <2> TAKE k \in 0 .. N
  <2>1. CASE k = 0
    <3>1. \A a \in Cell : After(m, 0)[a] = mem[a]
      BY SegmentFacts, AfterOther
    <3>2. After(m, 0) = [a \in Cell |-> After(m, 0)[a]]
      BY DEF After
    <3> QED
      BY <1>0, <2>1, <3>1, <3>2
  <2>2. CASE k # 0
    <3>1. k \in 1 .. N /\ k - 1 \in 0 .. N
      BY <1>0, <2>2
    <3>2. g[k] = After(m, k) /\ g[k - 1] = After(m, k - 1)
      BY <3>1
    <3> QED
      BY <2>2, <3>1, <3>2, AfterHeader DEF Seg
  <2> QED
    BY <2>1, <2>2
<1>2. g = [n \in 0 .. Len(modules[m].segments) |->
            IF n = 0 THEN mem
            ELSE IF n \in Loadable(m)
                   THEN LoadSegment(g[n - 1], m, modules[m].segments[n])
                   ELSE g[n - 1]]
  BY <1>1
<1> HIDE DEF g
<1>3. loaded = [n \in 0 .. Len(modules[m].segments) |->
                 IF n = 0 THEN mem
                 ELSE IF n \in Loadable(m)
                        THEN LoadSegment(loaded[n - 1], m, modules[m].segments[n])
                        ELSE loaded[n - 1]]
  BY <1>2, Zenon
<1>4. LoadSegments(m) = loaded[N]
  BY Zenon DEF LoadSegments
<1> HIDE DEF loaded
<1>5. \A k \in 0 .. N : loaded[k] = g[k]
  <2> DEFINE T == {k \in 0 .. N : loaded[k] # g[k]}
  <2>1. SUFFICES ASSUME T # {} PROVE FALSE
    OBVIOUS
  <2>2. PICK k \in T : \A l \in T : k <= l
    <3>1. T \subseteq Nat
      BY <1>0
    <3> HIDE DEF T
    <3> QED
      BY <2>1, <3>1, Least
  <2> HIDE DEF N
  <2>3. k # 0
    BY <1>0, <1>2, <1>3 DEF N
  <2>4. k - 1 \in 0 .. N /\ loaded[k - 1] = g[k - 1]
    BY <1>0, <2>2, <2>3
  <2>5. loaded[k] = g[k]
    BY <1>2, <1>3, <2>3, <2>4 DEF N
  <2> QED
    BY <2>5
<1>6. N \in 0 .. N
  BY <1>0
<1>7. g[N] = After(m, N)
  BY <1>6 DEF g
<1> QED
  BY <1>4, <1>5, <1>6, <1>7

--------------------------------------------------------------------------------
(* The pages tasks get.                                                    *)

\* Pages are handed out from the lowest on, three for a task.
Lowest(free) ==
  \A p \in FreePages \ free : \A q \in free : p < q

PagesInv ==
  /\ Lowest(bitmap)
  /\ Cardinality(FreePages \ bitmap) <= 3 * Len(tasks)
  /\ \A t \in DOMAIN tasks :
       {tasks[t].stack, tasks[t].user_stack, tasks[t].tcb} \subseteq Handed

LEMMA FreeFinite == IsFiniteSet(FreePages) /\ FreePages \subseteq Int
<1>1. Page \subseteq Int /\ IsFiniteSet(Page)
  BY NPagesAssumption, FS_Interval DEF Page
<1> QED
  BY <1>1, LoaderAssumption, FS_Subset

\* One call of pmm_alloc, as one of the first 3 * MaxTasks.
LEMMA AllocHands ==
  ASSUME NEW free \in SUBSET FreePages, NEW p, pmm_alloc(free, p), Lowest(free),
         NEW n \in Nat, Cardinality(FreePages \ free) <= n, n < 3 * MaxTasks
  PROVE  /\ p \in Handed
         /\ Lowest(free \ {p})
         /\ Cardinality(FreePages \ (free \ {p})) <= n + 1
<1>0. IsFiniteSet(FreePages \ free) /\ Cardinality(FreePages \ free) \in Nat
  BY FreeFinite, FS_Subset, FS_CardinalityType
<1>m. MaxTasks \in Nat
  BY LoaderAssumption
<1>1. CASE free = {}
  <2>1. p \in Handed /\ free \ {p} = free
    BY <1>1 DEF pmm_alloc, Handed
  <2>2. Lowest(free \ {p})
    BY <2>1, Zenon
  <2>3. Cardinality(FreePages \ (free \ {p})) = Cardinality(FreePages \ free)
    BY <2>1, Zenon
  <2> QED
    BY <1>0, <2>1, <2>2, <2>3
<1>2. CASE free # {}
  <2>1. p \in free /\ p \in FreePages /\ p \in Int /\ \A q \in free : p <= q
    BY <1>2, FreeFinite DEF pmm_alloc
  <2>2. {q \in FreePages : q < p} = FreePages \ free
    <3>1. ASSUME NEW q \in FreePages PROVE q < p <=> q \notin free
      <4>1. q \in Int
        BY FreeFinite
      <4>2. q \notin free => q < p
        BY <2>1 DEF Lowest
      <4> QED
        BY <2>1, <4>1, <4>2
    <3> QED
      BY <3>1
  <2>3. p \in Handed
    <3> DEFINE below == {q \in FreePages : q < p}
    <3>0. below = FreePages \ free
      BY <2>2
    <3> HIDE DEF below
    <3>1. Cardinality(below) < 3 * MaxTasks
      BY <1>0, <1>m, <3>0
    <3> USE DEF below
    <3> QED
      BY <2>1, <3>1, Zenon DEF Handed
  <2>4. Lowest(free \ {p})
    BY <2>1, FreeFinite DEF Lowest
  <2>5. FreePages \ (free \ {p}) = (FreePages \ free) \cup {p} /\ p \notin FreePages \ free
    BY <2>1
  <2>6. Cardinality(FreePages \ (free \ {p})) = Cardinality(FreePages \ free) + 1
    BY <1>0, <2>5, FS_AddElement
  <2> QED
    BY <1>0, <2>3, <2>4, <2>6
<1> QED
  BY <1>1, <1>2

\* init_task's three pages.
LEMMA ThreePages ==
  ASSUME bitmap \subseteq FreePages, Lowest(bitmap), Len(tasks) \in Nat,
         Cardinality(FreePages \ bitmap) <= 3 * Len(tasks), Len(tasks) < MaxTasks,
         NEW s, NEW u, NEW t, pmm_alloc(bitmap, s), pmm_alloc(bitmap \ {s}, u),
         pmm_alloc(bitmap \ {s, u}, t)
  PROVE  /\ {s, u, t} \subseteq Handed
         /\ Lowest(bitmap \ {s, u, t})
         /\ Cardinality(FreePages \ (bitmap \ {s, u, t})) <= 3 * (Len(tasks) + 1)
<1> DEFINE n == 3 * Len(tasks)
           b1 == bitmap \ {s}
           b2 == bitmap \ {s, u}
<1>0. /\ n \in Nat /\ n + 1 \in Nat /\ n + 2 \in Nat
      /\ n < 3 * MaxTasks /\ n + 1 < 3 * MaxTasks /\ n + 2 < 3 * MaxTasks
      /\ 3 * (Len(tasks) + 1) = n + 3 /\ n + 1 + 1 = n + 2 /\ n + 2 + 1 = n + 3
  BY LoaderAssumption
<1>1. /\ b1 \subseteq FreePages /\ b2 \subseteq FreePages
      /\ b2 = b1 \ {u} /\ bitmap \ {s, u, t} = b2 \ {t}
  OBVIOUS
<1>2. Cardinality(FreePages \ bitmap) <= n
  OBVIOUS
<1> HIDE DEF n
<1>3. s \in Handed /\ Lowest(b1) /\ Cardinality(FreePages \ b1) <= n + 1
  BY <1>0, <1>2, AllocHands
<1>a. pmm_alloc(b1, u) /\ pmm_alloc(b2, t)
  OBVIOUS
<1> HIDE DEF b1, b2
<1>4. u \in Handed /\ Lowest(b2) /\ Cardinality(FreePages \ b2) <= n + 2
  BY <1>0, <1>1, <1>3, <1>a, AllocHands
<1>5. t \in Handed /\ Lowest(b2 \ {t}) /\ Cardinality(FreePages \ (b2 \ {t})) <= n + 3
  BY <1>0, <1>1, <1>4, <1>a, AllocHands
<1> QED
  BY <1>0, <1>1, <1>3, <1>4, <1>5

--------------------------------------------------------------------------------
(* A program is loaded.                                                    *)

\* Nothing but the program's segments and the pages of its task changes, and
\* the segments become what the file has.
LEMMA ProgramLoaded ==
  ASSUME LoaderTypeOK, Kept(mem), PagesInv, NEW m \in DOMAIN modules,
         UNCHANGED modules, InitTask(LoadSegments(m), m)
  PROVE  /\ mem' \in [Cell -> Content]
         /\ Kept(mem')
         /\ PagesInv'
         /\ \A a \in Cell : \/ mem'[a] = mem[a]
                            \/ a \in ProgramCells(modules[m])
                            \/ \E p \in Handed : a \in Cells(p)
         /\ \A n \in Loadable(m) : \A a \in SegmentCells(Seg(m, n)) :
              mem'[a] = Fresh(Seg(m, n), m, a)
<1> DEFINE N == Len(modules[m].segments)
<1>1. N \in Nat /\ modules \in ModuleLists /\ mem \in [Cell -> Content]
  BY ModuleFacts, LenProperties DEF Module, LoaderTypeOK
<1>2. LoadSegments(m) = After(m, N)
  BY <1>1, SegmentsLoaded
<1> HIDE DEF N
<1>3. After(m, N) \in [Cell -> Content] /\ Kept(After(m, N))
  BY <1>1, AfterKept
<1>4. PICK s, u, t \in Page :
        /\ pmm_alloc(bitmap, s)
        /\ pmm_alloc(bitmap \ {s}, u)
        /\ pmm_alloc(bitmap \ {s, u}, t)
        /\ bitmap' = bitmap \ {s, u, t}
        /\ mem' = [After(m, N) EXCEPT ![LastCell(s)] = Other, ![FirstCell(t)] = Other]
        /\ tasks' = Append(tasks, [module |-> m, stack |-> s, user_stack |-> u, tcb |-> t])
  BY <1>2 DEF InitTask
<1>5. Len(tasks) \in Nat /\ Len(tasks) < MaxTasks /\ bitmap \subseteq FreePages
      /\ tasks \in Seq(Task) /\ DOMAIN tasks = 1 .. Len(tasks)
  BY LenProperties DEF InitTask, LoaderTypeOK
<1>6. /\ {s, u, t} \subseteq Handed
      /\ Lowest(bitmap')
      /\ Cardinality(FreePages \ bitmap') <= 3 * (Len(tasks) + 1)
  BY <1>4, <1>5, ThreePages DEF PagesInv
<1>7. LastCell(s) \in Cells(s) /\ FirstCell(t) \in Cells(t)
  BY <1>4, LoaderAssumption DEF LastCell, FirstCell, Cells, Page
<1>8. \A a \in Cell : mem'[a] = After(m, N)[a] \/ \E p \in Handed : a \in Cells(p)
  BY <1>3, <1>4, <1>6, <1>7
<1>9. mem' \in [Cell -> Content]
  <2>1. Other \in Content
    BY DEF Content
  <2> QED
    BY <1>3, <1>4, <2>1
<1>10. Kept(mem')
  <2> SUFFICES ASSUME NEW l \in DOMAIN modules, NEW a \in Image(l)
               PROVE  mem'[a] = Part(l, a - modules[l].start)
    BY DEF Kept
  <2>1. a \in Cell /\ \A p \in Handed : a \notin Cells(p)
    BY <1>1, ModuleFacts
  <2> QED
    BY <1>3, <1>8, <2>1 DEF Kept
<1>11. PagesInv'
  <2>1. /\ Len(tasks') = Len(tasks) + 1
        /\ DOMAIN tasks' = 1 .. Len(tasks) + 1
        /\ \A x \in 1 .. Len(tasks) : tasks'[x] = tasks[x]
        /\ tasks'[Len(tasks) + 1] = [module |-> m, stack |-> s, user_stack |-> u, tcb |-> t]
    BY <1>4, <1>5
  <2>2. \A x \in DOMAIN tasks' :
          {tasks'[x].stack, tasks'[x].user_stack, tasks'[x].tcb} \subseteq Handed
    BY <1>5, <1>6, <2>1 DEF PagesInv
  <2> QED
    BY <1>6, <2>1, <2>2 DEF PagesInv, Lowest
<1>12. ASSUME NEW a \in Cell, mem'[a] # mem[a], \A p \in Handed : a \notin Cells(p)
       PROVE  a \in ProgramCells(modules[m])
  <2>1. PICK n \in Loadable(m) : a \in SegmentCells(Seg(m, n))
    BY <1>8, <1>12, AfterOther
  <2> QED
    BY <2>1 DEF ProgramCells, Loadable, Seg
<1>13. ASSUME NEW n \in Loadable(m), NEW a \in SegmentCells(Seg(m, n))
       PROVE  mem'[a] = Fresh(Seg(m, n), m, a)
  <2>1. a \in Cell /\ n <= N /\ \A p \in Handed : a \notin Cells(p)
    BY <1>1, SegmentFacts DEF N
  <2> QED
    BY <1>1, <1>8, <2>1, AfterCell
<1> QED
  BY <1>9, <1>10, <1>11, <1>12, <1>13

--------------------------------------------------------------------------------
(* The inductive invariant.                                                *)

\* When memory has run out, the model ends.
IInv ==
  /\ LoaderTypeOK
  /\ CodeKept
  /\ mode # "wild" => Kept(mem) /\ PagesInv

LEMMA SameTypes ==
  ASSUME UNCHANGED modules PROVE Content' = Content /\ Task' = Task
BY DEF Content, Task

LEMMA TasksFacts ==
  ASSUME LoaderTypeOK
  PROVE  /\ Len(tasks) \in Nat /\ DOMAIN tasks = 1 .. Len(tasks)
         /\ \A t \in 1 .. Len(tasks) : tasks[t] \in Task /\ tasks[t].module \in DOMAIN modules
<1>1. tasks \in Seq(Task)
  BY DEF LoaderTypeOK
<1>2. Len(tasks) \in Nat /\ DOMAIN tasks = 1 .. Len(tasks)
  BY <1>1, LenProperties
<1>3. \A t \in 1 .. Len(tasks) : tasks[t] \in Task
  BY <1>1, ElementOfSeq
<1> QED
  BY <1>2, <1>3 DEF Task

LEMMA ModulesFacts ==
  ASSUME modules \in ModuleLists
  PROVE  Len(modules) \in Nat /\ DOMAIN modules = 1 .. Len(modules)
BY LoaderAssumption, LenProperties

LEMMA InitHolds == LoaderInit => IInv
<1> SUFFICES ASSUME LoaderInit PROVE IInv
  OBVIOUS
<1> USE DEF LoaderInit
<1>1. Kept(mem)
  <2> SUFFICES ASSUME NEW m \in DOMAIN modules, NEW a \in Image(m)
               PROVE  mem[a] = Part(m, a - modules[m].start)
    BY DEF Kept
  <2>1. a \in Cell /\ \A l \in DOMAIN modules : a \in Image(l) => l = m
    BY ModuleFacts
  <2> DEFINE l == CHOOSE l \in DOMAIN modules : a \in Image(l)
  <2>2. l \in DOMAIN modules /\ a \in Image(l)
    OBVIOUS
  <2>3. mem[a] = Part(l, a - modules[l].start)
    BY <2>1
  <2> HIDE DEF l
  <2> QED
    BY <2>1, <2>2, <2>3
<1>2. mem \in [Cell -> Content]
  <2>1. ASSUME NEW a \in Cell PROVE mem[a] \in Content
    <3>1. CASE \E m \in DOMAIN modules : a \in Image(m)
      <4>1. PICK m \in DOMAIN modules : a \in Image(m)
        BY <3>1
      <4>2. modules[m].start \in Nat /\ modules[m].size \in Nat
        BY ModuleFacts DEF Module, Cell
      <4>3. a - modules[m].start \in 0 .. modules[m].size - 1
        BY <4>1, <4>2 DEF Image, FileCells
      <4>4. mem[a] = Part(m, a - modules[m].start)
        BY <1>1, <4>1 DEF Kept
      <4> QED
        BY <4>3, <4>4 DEF Content
    <3>2. CASE ~\E m \in DOMAIN modules : a \in Image(m)
      BY <3>2 DEF Content
    <3> QED
      BY <3>1, <3>2
  <2> QED
    BY <2>1
<1>3. LoaderTypeOK
  <2>1. tasks \in Seq(Task) /\ Len(tasks) = 0
    BY EmptySeq
  <2>2. i \in 0 .. Len(modules)
    BY ModulesFacts
  <2>3. DOMAIN buf = 1 .. BufSize
    BY DEF Spaces
  <2>4. live \subseteq DOMAIN tasks /\ since \in 0 .. Len(tasks)
    BY <2>1
  <2> QED
    BY <1>2, <2>1, <2>2, <2>3, <2>4 DEF LoaderTypeOK
<1>4. PagesInv
  <2>1. FreePages \ bitmap = {} /\ Len(tasks) = 0 /\ DOMAIN tasks = {}
    BY EmptySeq
  <2>2. Cardinality(FreePages \ bitmap) = 0
    BY <2>1, FS_EmptySet
  <2>3. Cardinality(FreePages \ bitmap) <= 3 * Len(tasks)
    BY <2>1, <2>2
  <2> QED
    BY <2>1, <2>3 DEF PagesInv, Lowest
<1> QED
  BY <1>1, <1>3, <1>4 DEF IInv, CodeKept

\* A module is looked at, and loaded if it has the name and is a program.
LEMMA ElfKeeps ==
  ASSUME IInv, mode # "wild", NEW m \in DOMAIN modules, NEW next \in {"user", "loadf"},
         InitElf(m, next), UNCHANGED <<modules, wanted, since>>,
         i' \in 0 .. Len(modules), DOMAIN buf' = DOMAIN buf
  PROVE  IInv'
<1>1. CASE IsElf(m) /\ InitTask(LoadSegments(m), m) /\ mode' = IF OutOfMemory THEN "wild" ELSE next
  <2>0. /\ Len(tasks) \in Nat /\ DOMAIN tasks = 1 .. Len(tasks) /\ tasks \in Seq(Task)
        /\ live \subseteq 1 .. Len(tasks)
    BY TasksFacts DEF IInv, LoaderTypeOK
  <2>1. PICK s, u, t \in Page :
          /\ bitmap' = bitmap \ {s, u, t}
          /\ tasks' = Append(tasks, [module |-> m, stack |-> s, user_stack |-> u, tcb |-> t])
          /\ live' = live \cup {Len(tasks')}
    BY <1>1 DEF InitTask
  <2>2. /\ tasks' \in Seq(Task)
        /\ Len(tasks') = Len(tasks) + 1
        /\ DOMAIN tasks' = 1 .. Len(tasks) + 1
        /\ \A x \in 1 .. Len(tasks) : tasks'[x] = tasks[x]
        /\ tasks'[Len(tasks) + 1].module = m
    <3>1. [module |-> m, stack |-> s, user_stack |-> u, tcb |-> t] \in Task
      BY DEF Task
    <3> QED
      BY <2>0, <2>1, <3>1
  <2>3. /\ mem' \in [Cell -> Content]
        /\ Kept(mem')
        /\ PagesInv'
        /\ \A a \in Cell : \/ mem'[a] = mem[a]
                           \/ a \in ProgramCells(modules[m])
                           \/ \E p \in Handed : a \in Cells(p)
        /\ \A n \in Loadable(m) : \A a \in SegmentCells(Seg(m, n)) :
             mem'[a] = Fresh(Seg(m, n), m, a)
    BY <1>1, ProgramLoaded DEF IInv
  <2>4. LoaderTypeOK'
    BY <1>1, <2>0, <2>1, <2>2, <2>3, SameTypes DEF IInv, LoaderTypeOK
  <2>5. Kept(mem)'
    BY <2>3 DEF Kept, Image
  <2>6. CodeKept'
    <3> SUFFICES ASSUME NEW x \in live', NEW n \in LoadableOf(modules[tasks'[x].module]),
                        ~modules[tasks'[x].module].segments[n].writable,
                        NEW a \in SegmentCells(modules[tasks'[x].module].segments[n])
                 PROVE  \/ mem'[a] = Fresh(modules[tasks'[x].module].segments[n], tasks'[x].module, a)
                        \/ \E y \in x + 1 .. Len(tasks') : a \in ProgramCells(modules[tasks'[y].module])
                        \/ \E y \in 1 .. x - 1 : a \in DataCells(modules[tasks'[y].module])
      BY DEF CodeKept, Loadable
    <3>1. CASE x = Len(tasks) + 1
      BY <2>2, <2>3, <3>1 DEF Loadable, Seg
    <3>2. CASE x # Len(tasks) + 1
      <4>1. x \in live /\ x \in 1 .. Len(tasks) /\ tasks'[x] = tasks[x]
        BY <2>0, <2>1, <2>2, <3>2
      <4> DEFINE l == tasks[x].module
      <4>2. l \in DOMAIN modules /\ modules \in ModuleLists
        BY <4>1, TasksFacts DEF IInv, LoaderTypeOK
      <4>3. n \in Loadable(l) /\ a \in SegmentCells(Seg(l, n)) /\ ~Seg(l, n).writable
        BY <4>1 DEF Loadable, Seg
      <4>4. a \in Cell /\ \A p \in Handed : a \notin Cells(p)
        BY <4>2, <4>3, SegmentFacts
      <4>5. \/ mem[a] = Fresh(Seg(l, n), l, a)
            \/ \E y \in x + 1 .. Len(tasks) : a \in ProgramCells(modules[tasks[y].module])
            \/ \E y \in 1 .. x - 1 : a \in DataCells(modules[tasks[y].module])
        BY <4>1, <4>3 DEF IInv, CodeKept, Seg
      <4>6. \/ mem'[a] = Fresh(Seg(l, n), l, a)
            \/ a \in ProgramCells(modules[tasks'[Len(tasks) + 1].module])
            \/ \E y \in x + 1 .. Len(tasks) : a \in ProgramCells(modules[tasks[y].module])
            \/ \E y \in 1 .. x - 1 : a \in DataCells(modules[tasks[y].module])
        BY <2>2, <2>3, <4>4, <4>5
      <4>7. /\ x + 1 .. Len(tasks) \subseteq 1 .. Len(tasks)
            /\ 1 .. x - 1 \subseteq 1 .. Len(tasks)
            /\ x + 1 .. Len(tasks) \subseteq x + 1 .. Len(tasks')
            /\ Len(tasks) + 1 \in x + 1 .. Len(tasks')
        BY <2>0, <2>2, <4>1
      <4> QED
        BY <2>2, <4>1, <4>6, <4>7 DEF Seg
    <3> QED
      BY <3>1, <3>2
  <2> QED
    BY <2>3, <2>4, <2>5, <2>6 DEF IInv
<1>2. CASE mode' = next /\ UNCHANGED <<mem, bitmap, tasks, live>>
  <2>1. LoaderTypeOK'
    BY <1>2, SameTypes DEF IInv, LoaderTypeOK
  <2>2. Kept(mem)' /\ PagesInv'
    BY <1>2 DEF IInv, Kept, Image, PagesInv, Lowest
  <2>3. CodeKept'
    BY <1>2 DEF IInv, CodeKept, Loadable
  <2> QED
    BY <2>1, <2>2, <2>3 DEF IInv
<1> QED
  BY <1>1, <1>2 DEF InitElf

\* The next-state relation, action by action.
LEMMA Invariance == IInv /\ [LoaderNext]_loaderVars => IInv'
<1> SUFFICES ASSUME IInv, [LoaderNext]_loaderVars PROVE IInv'
  OBVIOUS
<1>t. /\ modules \in ModuleLists /\ i \in 0 .. Len(modules)
      /\ Len(modules) \in Nat /\ DOMAIN modules = 1 .. Len(modules)
      /\ DOMAIN buf = 1 .. BufSize
  BY ModulesFacts DEF IInv, LoaderTypeOK
<1>b. ASSUME i < Len(modules), i' = i + 1, buf' = NameBuf(modules[i'].cmdline)
      PROVE  i' \in 0 .. Len(modules) /\ i' \in DOMAIN modules /\ DOMAIN buf' = DOMAIN buf
  BY <1>b, <1>t DEF NameBuf, strcpy
<1>s. ASSUME UNCHANGED <<modules, mem, bitmap, tasks>>, live' \subseteq live, mode # "wild",
             i' \in 0 .. Len(modules), DOMAIN buf' = DOMAIN buf,
             wanted' \in Requests \cup {InitName}, since' \in 0 .. Len(tasks),
             mode' \in {"boot", "user", "loadf", "wild"}
      PROVE  IInv'
  <2>1. LoaderTypeOK'
    BY <1>s, SameTypes DEF IInv, LoaderTypeOK
  <2>2. Kept(mem)' /\ PagesInv'
    BY <1>s DEF IInv, Kept, Image, PagesInv, Lowest
  <2>3. CodeKept'
    BY <1>s DEF IInv, CodeKept, Loadable
  <2> QED
    BY <2>1, <2>2, <2>3 DEF IInv
<1>1. CASE BootStep
  <2>1. i' \in 0 .. Len(modules) /\ i' \in DOMAIN modules /\ DOMAIN buf' = DOMAIN buf
    BY <1>1, <1>b DEF BootStep
  <2>2. CASE Matches(i')
    <3>1. InitElf(i', "user") /\ mode # "wild" /\ UNCHANGED <<modules, wanted, since>>
      BY <1>1, <2>2 DEF BootStep
    <3> QED
      BY <2>1, <3>1, ElfKeeps
  <2>3. CASE ~Matches(i')
    <3>1. UNCHANGED <<modules, mem, bitmap, mode, tasks, live, wanted, since>> /\ mode # "wild"
      BY <1>1, <2>3 DEF BootStep
    <3> QED
      BY <1>s, <2>1, <3>1 DEF IInv, LoaderTypeOK
  <2> QED
    BY <2>2, <2>3
<1>2. CASE LoadfStep
  <2>1. i' \in 0 .. Len(modules) /\ i' \in DOMAIN modules /\ DOMAIN buf' = DOMAIN buf
    BY <1>2, <1>b DEF LoadfStep
  <2>2. CASE Matches(i')
    <3>1. InitElf(i', "loadf") /\ mode # "wild" /\ UNCHANGED <<modules, wanted, since>>
      BY <1>2, <2>2 DEF LoadfStep
    <3> QED
      BY <2>1, <3>1, ElfKeeps
  <2>3. CASE ~Matches(i')
    <3>1. UNCHANGED <<modules, mem, bitmap, mode, tasks, live, wanted, since>> /\ mode # "wild"
      BY <1>2, <2>3 DEF LoadfStep
    <3> QED
      BY <1>s, <2>1, <3>1 DEF IInv, LoaderTypeOK
  <2> QED
    BY <2>2, <2>3
<1>3. CASE BootDone
  BY <1>3, <1>s, <1>t DEF BootDone, IInv, LoaderTypeOK
<1>4. CASE LoadfEnter
  <2>1. Len(tasks) \in 0 .. Len(tasks)
    <3>1. Len(tasks) \in Nat
      BY TasksFacts DEF IInv
    <3> QED
      BY <3>1
  <2>2. DOMAIN buf' = DOMAIN buf
    BY <1>4, <1>t DEF LoadfEnter, Spaces
  <2> QED
    BY <1>4, <1>s, <1>t, <2>1, <2>2 DEF LoadfEnter
<1>5. CASE LoadfReturn
  BY <1>5, <1>s, <1>t DEF LoadfReturn, IInv, LoaderTypeOK
<1>6. ASSUME NEW t \in live, Work(t) PROVE IInv'
  <2>0. /\ Len(tasks) \in Nat /\ DOMAIN tasks = 1 .. Len(tasks) /\ t \in 1 .. Len(tasks)
        /\ tasks[t].module \in DOMAIN modules
        /\ \A x \in 1 .. Len(tasks) : tasks[x].module \in DOMAIN modules
    BY TasksFacts DEF IInv, LoaderTypeOK
  <2> DEFINE m == tasks[t].module
  <2>1. PICK c \in DataCells(modules[m]) \cup Cells(tasks[t].stack) \cup
                   Cells(tasks[t].user_stack) \cup Cells(tasks[t].tcb) :
          mem' = [mem EXCEPT ![c] = Other]
    BY <1>6 DEF Work
  <2>2. /\ UNCHANGED <<modules, bitmap, mode, i, buf, wanted, tasks, live, since>>
        /\ mode = "user"
    BY <1>6 DEF Work
  <2>3. (\E n \in Loadable(m) : Seg(m, n).writable /\ c \in SegmentCells(Seg(m, n)))
        \/ \E p \in Handed : c \in Cells(p)
    <3>1. {tasks[t].stack, tasks[t].user_stack, tasks[t].tcb} \subseteq Handed
      BY <2>0, <2>2 DEF IInv, PagesInv
    <3>2. c \in DataCells(modules[m]) =>
            \E n \in Loadable(m) : Seg(m, n).writable /\ c \in SegmentCells(Seg(m, n))
      BY DEF DataCells, Loadable, Seg
    <3> QED
      BY <2>1, <3>1, <3>2
  <2>4. mem' \in [Cell -> Content] /\ \A a \in Cell : a # c => mem'[a] = mem[a]
    <3>1. Other \in Content /\ mem \in [Cell -> Content]
      BY DEF Content, IInv, LoaderTypeOK
    <3> QED
      BY <2>1, <3>1
  <2>5. LoaderTypeOK'
    BY <2>2, <2>4, SameTypes DEF IInv, LoaderTypeOK
  <2>6. Kept(mem)'
    <3> SUFFICES ASSUME NEW l \in DOMAIN modules, NEW a \in Image(l)
                 PROVE  mem'[a] = Part(l, a - modules[l].start)
      BY <2>2 DEF Kept, Image
    <3>1. a \in Cell /\ a # c
      BY <1>t, <2>0, <2>3, ModuleFacts, SegmentFacts
    <3> QED
      BY <2>2, <2>4, <3>1 DEF IInv, Kept
  <2>7. CodeKept'
    <3> SUFFICES ASSUME NEW x \in live, NEW n \in Loadable(tasks[x].module),
                        ~Seg(tasks[x].module, n).writable,
                        NEW a \in SegmentCells(Seg(tasks[x].module, n))
                 PROVE  \/ mem'[a] = Fresh(Seg(tasks[x].module, n), tasks[x].module, a)
                        \/ \E y \in x + 1 .. Len(tasks) : a \in ProgramCells(modules[tasks[y].module])
                        \/ \E y \in 1 .. x - 1 : a \in DataCells(modules[tasks[y].module])
      BY <2>2 DEF CodeKept, Loadable, Seg
    <3>0. x \in 1 .. Len(tasks) /\ tasks[x].module \in DOMAIN modules
      BY <2>0 DEF IInv, LoaderTypeOK
    <3>1. \/ mem[a] = Fresh(Seg(tasks[x].module, n), tasks[x].module, a)
          \/ \E y \in x + 1 .. Len(tasks) : a \in ProgramCells(modules[tasks[y].module])
          \/ \E y \in 1 .. x - 1 : a \in DataCells(modules[tasks[y].module])
      BY <2>2 DEF IInv, CodeKept, Seg
    <3>2. a \in Cell /\ \A p \in Handed : a \notin Cells(p)
      BY <1>t, <3>0, SegmentFacts
    <3>3. CASE a # c
      BY <2>4, <3>1, <3>2, <3>3
    <3>4. CASE a = c
      <4>1. PICK k \in Loadable(m) : Seg(m, k).writable /\ c \in SegmentCells(Seg(m, k))
        BY <2>3, <3>2, <3>4
      <4>2. t # x
        <5>1. ASSUME t = x PROVE n # k /\ n \in Loadable(m) /\ k \in Loadable(m)
          BY <4>1, <5>1
        <5> QED
          BY <1>t, <2>0, <3>4, <4>1, <5>1, SegmentFacts
      <4>3. a \in DataCells(modules[m]) /\ a \in ProgramCells(modules[m])
        BY <3>4, <4>1 DEF DataCells, ProgramCells, Loadable, Seg
      <4>4. t \in x + 1 .. Len(tasks) \/ t \in 1 .. x - 1
        BY <2>0, <3>0, <4>2
      <4> QED
        BY <4>3, <4>4
    <3> QED
      BY <3>3, <3>4
  <2>8. PagesInv'
    BY <2>2 DEF IInv, PagesInv, Lowest
  <2> QED
    BY <2>5, <2>6, <2>7, <2>8 DEF IInv
<1>7. ASSUME NEW t \in live, Exit(t) PROVE IInv'
  BY <1>7, <1>s, <1>t DEF Exit, IInv, LoaderTypeOK
<1>8. CASE UNCHANGED loaderVars
  <2>1. LoaderTypeOK' /\ CodeKept'
    BY <1>8, SameTypes DEF IInv, LoaderTypeOK, CodeKept, Loadable, loaderVars
  <2>2. mode' # "wild" => Kept(mem)' /\ PagesInv'
    BY <1>8 DEF IInv, Kept, Image, PagesInv, Lowest, loaderVars
  <2> QED
    BY <2>1, <2>2 DEF IInv
<1> QED
  BY <1>1, <1>2, <1>3, <1>4, <1>5, <1>6, <1>7, <1>8 DEF LoaderNext, StayOver

--------------------------------------------------------------------------------
(* Names.                                                                  *)

\* The buffer, NUL and all, compares like the name that went into it.
LEMMA NameMatches ==
  ASSUME LoaderTypeOK, NEW m \in DOMAIN modules
  PROVE  Matches(m) <=> modules[m].cmdline = wanted
<1> DEFINE c     == modules[m].cmdline
           b     == NameBuf(c)
           stops == {k \in 1 .. Len(b) + 1 : \/ CharAt(b, k) # CharAt(wanted, k)
                                             \/ CharAt(b, k) = NUL}
           q     == Min(stops)
<1>1. /\ c \in Seq(STRING \ {NUL}) /\ wanted \in Seq(STRING \ {NUL})
      /\ Len(c) \in 1 .. BufSize - 1 /\ BufSize \in Nat
      /\ DOMAIN buf = 1 .. BufSize
  BY ModuleFacts, LoaderAssumption DEF LoaderTypeOK, Module, Name
<1>2. /\ DOMAIN c = 1 .. Len(c) /\ DOMAIN wanted = 1 .. Len(wanted)
      /\ Len(wanted) \in Nat /\ Len(c) \in Nat
      /\ \A k \in 1 .. Len(c) : c[k] # NUL
      /\ \A k \in 1 .. Len(wanted) : wanted[k] # NUL
  BY <1>1, LenProperties, ElementOfSeq
<1> HIDE DEF c
<1>3. /\ DOMAIN b = 1 .. BufSize
      /\ \A k \in 1 .. Len(c) : b[k] = c[k]
      /\ b[Len(c) + 1] = NUL
      /\ b = [k \in 1 .. BufSize |-> b[k]]
  <2> DEFINE filled == strcpy(buf, SubSeq(Spaces, 1, BufSize - 1))
             copied == strcpy(filled, c)
  <2>1. DOMAIN filled = 1 .. BufSize
    BY <1>1 DEF strcpy
  <2> HIDE DEF filled
  <2>2. copied = [k \in 1 .. BufSize |-> IF k <= Len(c) THEN c[k] ELSE filled[k]]
    BY <2>1 DEF strcpy
  <2>3. b = [copied EXCEPT ![Len(c) + 1] = NUL]
    BY DEF NameBuf, filled
  <2> HIDE DEF copied, b
  <2>4. Len(c) + 1 \in 1 .. BufSize /\ \A k \in 1 .. Len(c) : k \in 1 .. BufSize /\ k # Len(c) + 1
    BY <1>1, <1>2
  <2>5. DOMAIN copied = 1 .. BufSize /\ \A k \in 1 .. Len(c) : copied[k] = c[k]
    BY <1>2, <2>2, <2>4
  <2>6. DOMAIN b = 1 .. BufSize /\ b = [k \in 1 .. BufSize |-> b[k]]
    BY <2>3, <2>5
  <2>7. b[Len(c) + 1] = NUL /\ \A k \in 1 .. Len(c) : b[k] = copied[k]
    BY <2>3, <2>4, <2>5
  <2> QED
    BY <2>5, <2>6, <2>7
<1> HIDE DEF b
<1>4. Len(b) = BufSize
  <2> DEFINE X == {b[k] : k \in 1 .. BufSize}
  <2>1. b \in [1 .. BufSize -> X]
    BY <1>3
  <2>2. b \in Seq(X)
    <3>1. \E n \in Nat : b \in [1 .. n -> X]
      BY <1>1, <2>1
    <3> HIDE DEF X
    <3> QED
      BY <3>1, SeqDef
  <2> HIDE DEF X
  <2>3. Len(b) \in Nat /\ DOMAIN b = 1 .. Len(b)
    BY <2>2, LenProperties
  <2> QED
    BY <1>1, <1>3, <2>3
<1>5. /\ \A k \in 1 .. Len(c) : CharAt(b, k) = c[k] /\ CharAt(c, k) = c[k]
      /\ CharAt(b, Len(c) + 1) = NUL
      /\ \A k \in 1 .. Len(wanted) : CharAt(wanted, k) = wanted[k]
      /\ \A k \in Nat : k > Len(wanted) => CharAt(wanted, k) = NUL
  <2>1. \A k \in 1 .. Len(c) : k \in 1 .. BufSize
    BY <1>1, <1>2
  <2>2. Len(c) + 1 \in 1 .. BufSize
    BY <1>1, <1>2
  <2>3. \A k \in Nat : k > Len(wanted) => k \notin DOMAIN wanted
    BY <1>2
  <2> QED
    BY <1>2, <1>3, <2>1, <2>2, <2>3 DEF CharAt
<1>6. q \in stops /\ \A k \in stops : q <= k
  <2>1. Len(c) + 1 \in stops
    BY <1>1, <1>4, <1>5
  <2>2. stops \subseteq Nat
    BY <1>1, <1>4
  <2> HIDE DEF stops
  <2> QED
    BY <2>1, <2>2, MinIsLeast
<1> HIDE DEF q
<1>7. q \in 1 .. Len(c) + 1
  <2>1. Len(c) + 1 \in stops
    BY <1>1, <1>4, <1>5
  <2>2. q \in Nat /\ q >= 1
    BY <1>1, <1>4, <1>6
  <2> QED
    BY <1>2, <1>6, <2>1, <2>2
<1>8. Matches(m) <=> CharAt(b, q) = CharAt(wanted, q)
  BY DEF Matches, strcmp, b, c, q
<1>9. ASSUME c = wanted PROVE CharAt(b, q) = CharAt(wanted, q)
  <2>1. CASE q = Len(c) + 1
    BY <1>2, <1>5, <1>9, <2>1
  <2>2. CASE q # Len(c) + 1
    BY <1>2, <1>5, <1>7, <1>9, <2>2
  <2> QED
    BY <2>1, <2>2
<1>10. ASSUME CharAt(b, q) = CharAt(wanted, q) PROVE c = wanted
  <2>1. CharAt(b, q) = NUL
    BY <1>6, <1>10
  <2>2. q = Len(c) + 1
    BY <1>2, <1>5, <1>7, <2>1
  <2>3. Len(wanted) <= Len(c)
    <3>1. CharAt(wanted, q) = NUL
      BY <1>10, <2>1
    <3>2. q \notin 1 .. Len(wanted)
      BY <1>2, <1>5, <3>1
    <3> QED
      BY <1>2, <2>2, <3>2
  <2>4. ASSUME NEW k \in 1 .. Len(c)
        PROVE  k \in 1 .. Len(wanted) /\ c[k] = wanted[k]
    <3>1. k \notin stops
      BY <1>2, <1>6, <2>2
    <3>2. CharAt(b, k) = CharAt(wanted, k)
      BY <1>1, <1>4, <3>1
    <3> QED
      BY <1>2, <1>5, <3>2
  <2>5. Len(wanted) = Len(c)
    <3>1. Len(c) \in 1 .. Len(c)
      BY <1>1, <1>2
    <3>2. Len(c) \in 1 .. Len(wanted)
      BY <2>4, <3>1
    <3>3. Len(wanted) \in Nat /\ Len(c) \in Nat
      BY <1>2
    <3> QED
      BY <2>3, <3>2, <3>3
  <2> QED
    BY <1>1, <2>4, <2>5, SeqEqual
<1> QED
  BY <1>8, <1>9, <1>10 DEF c

\* A file with headers is still where the boot loader put it.
LEMMA ElfFound ==
  ASSUME LoaderTypeOK, Kept(mem), NEW m \in DOMAIN modules
  PROVE  IsElf(m) <=> modules[m].segments # << >>
<1>1. modules[m].start \in Nat /\ modules[m].size \in Nat \ {0}
  BY ModuleFacts DEF LoaderTypeOK, Module, Cell
<1>2. modules[m].start \in Image(m) /\ modules[m].start - modules[m].start = 0
  BY <1>1 DEF Image, FileCells
<1>3. mem[modules[m].start] = Part(m, 0)
  BY <1>2 DEF Kept
<1> QED
  BY <1>3 DEF IsElf

\* What init_elf does to the list of tasks.
LEMMA ElfStarts ==
  ASSUME IInv, mode # "wild", NEW m \in DOMAIN modules, NEW next, InitElf(m, next)
  PROVE  IF modules[m].segments = << >>
           THEN tasks' = tasks /\ mode' = next
           ELSE /\ mode' \in {next, "wild"}
                /\ Len(tasks') = Len(tasks) + 1
                /\ \A t \in 1 .. Len(tasks) : tasks'[t] = tasks[t]
                /\ tasks'[Len(tasks) + 1].module = m
<1>1. IsElf(m) <=> modules[m].segments # << >>
  BY ElfFound DEF IInv
<1>2. CASE modules[m].segments = << >>
  BY <1>1, <1>2 DEF InitElf
<1>3. CASE modules[m].segments # << >>
  <2>1. InitTask(LoadSegments(m), m) /\ mode' \in {next, "wild"}
    BY <1>1, <1>3 DEF InitElf
  <2>2. PICK x : tasks' = Append(tasks, x) /\ x.module = m
    BY <2>1 DEF InitTask
  <2>3. tasks \in Seq(Task)
    BY DEF IInv, LoaderTypeOK
  <2>4. /\ Len(tasks') = Len(tasks) + 1
        /\ \A t \in 1 .. Len(tasks) : tasks'[t] = tasks[t]
        /\ tasks'[Len(tasks) + 1] = x
    BY <2>2, <2>3
  <2> QED
    BY <1>3, <2>1, <2>2, <2>4
<1> QED
  BY <1>2, <1>3

\* Until init is found, nothing runs; from then on, something does.
NamesInv ==
  /\ LoadsNamed
  /\ mode = "boot" =>
       /\ wanted = InitName
       /\ tasks = << >>
       /\ \A m \in 1 .. i : modules[m].cmdline # InitName
  /\ mode = "loadf" => tasks # << >>

Booted ==
  IF InitModules # {} /\ modules[Min(InitModules)].segments # << >>
    THEN tasks # << >> /\ tasks[1].module = Min(InitModules)
    ELSE tasks = << >>

LEMMA NamesInit == LoaderInit => NamesInv
BY DEF LoaderInit, NamesInv, LoadsNamed

LEMMA NamesInvariance == IInv /\ NamesInv /\ [LoaderNext]_loaderVars => NamesInv'
<1> SUFFICES ASSUME IInv, NamesInv, [LoaderNext]_loaderVars PROVE NamesInv'
  OBVIOUS
<1>t. /\ modules \in ModuleLists /\ i \in 0 .. Len(modules)
      /\ Len(modules) \in Nat /\ DOMAIN modules = 1 .. Len(modules)
      /\ tasks \in Seq(Task) /\ Len(tasks) \in Nat /\ DOMAIN tasks = 1 .. Len(tasks)
      /\ since \in 0 .. Len(tasks)
  BY ModulesFacts, TasksFacts DEF IInv, LoaderTypeOK
<1>e. tasks = << >> <=> Len(tasks) = 0
  BY <1>t
<1>m. modules' = modules
  BY DEF LoaderNext, BootStep, BootDone, LoadfEnter, LoadfStep, LoadfReturn, Work, Exit,
         StayOver, loaderVars
<1>i. InitModules' = InitModules
  BY <1>m DEF InitModules
<1>n. InitModules # {} => Min(InitModules) \in InitModules /\ \A m \in InitModules : Min(InitModules) <= m
  <2>1. InitModules \subseteq Nat
    BY <1>t DEF InitModules
  <2> QED
    BY <2>1, MinIsLeast
<1>b. mode \in {"user", "loadf"} => Booted
  BY DEF NamesInv, LoadsNamed, Booted
<1>x. ASSUME mode' = "user", Booted' PROVE NamesInv'
  BY <1>x DEF NamesInv, LoadsNamed, Booted
<1>1. CASE BootStep
  <2>1. /\ i < Len(modules) /\ i' = i + 1 /\ i' \in DOMAIN modules
        /\ mode = "boot" /\ wanted' = wanted /\ wanted = InitName /\ tasks = << >>
        /\ \A m \in 1 .. i : modules[m].cmdline # InitName
    BY <1>1, <1>t DEF BootStep, NamesInv
  <2>2. Matches(i') <=> modules[i'].cmdline = InitName
    BY <2>1, NameMatches DEF IInv
  <2>3. CASE Matches(i')
    <3>1. InitElf(i', "user")
      BY <1>1, <2>3 DEF BootStep
    <3>2. i' \in InitModules
      BY <2>1, <2>2, <2>3 DEF InitModules
    <3>3. Min(InitModules) \in 1 .. Len(modules) /\ Min(InitModules) <= i' /\ Min(InitModules) \notin 1 .. i
      BY <1>n, <1>t, <2>1, <3>2 DEF InitModules
    <3>4. Min(InitModules) = i'
      BY <1>t, <2>1, <3>3
    <3>5. CASE modules[i'].segments = << >>
      <4>1. tasks' = tasks /\ mode' = "user"
        BY <2>1, <3>1, <3>5, ElfStarts
      <4>2. Booted'
        BY <1>i, <1>m, <2>1, <3>4, <3>5, <4>1 DEF Booted
      <4> QED
        BY <1>x, <4>1, <4>2
    <3>6. CASE modules[i'].segments # << >>
      <4>1. /\ mode' \in {"user", "wild"}
            /\ Len(tasks') = Len(tasks) + 1
            /\ tasks'[Len(tasks) + 1].module = i'
        BY <2>1, <3>1, <3>6, ElfStarts
      <4>2. Len(tasks') = 1 /\ tasks'[1].module = i'
        BY <1>e, <2>1, <4>1
      <4>3. tasks' # << >>
        BY <4>2
      <4>4. Booted'
        BY <1>i, <1>m, <3>2, <3>4, <3>6, <4>2, <4>3 DEF Booted
      <4>5. CASE mode' = "user"
        BY <1>x, <4>4, <4>5
      <4>6. CASE mode' = "wild"
        BY <4>6 DEF NamesInv, LoadsNamed
      <4> QED
        BY <4>1, <4>5, <4>6
    <3> QED
      BY <3>5, <3>6
  <2>4. CASE ~Matches(i')
    <3>1. UNCHANGED <<mode, tasks>>
      BY <1>1, <2>4 DEF BootStep
    <3>2. \A m \in 1 .. i' : modules[m].cmdline # InitName
      BY <1>t, <2>1, <2>2, <2>4
    <3> QED
      BY <1>m, <2>1, <3>1, <3>2 DEF NamesInv, LoadsNamed
  <2> QED
    BY <2>3, <2>4
<1>2. CASE BootDone
  <2>1. /\ i >= Len(modules) /\ mode' = "user" /\ tasks' = tasks /\ tasks = << >>
        /\ \A m \in 1 .. i : modules[m].cmdline # InitName
    BY <1>2 DEF BootDone, NamesInv
  <2>2. InitModules = {}
    BY <1>t, <2>1 DEF InitModules
  <2> QED
    BY <1>i, <1>x, <2>1, <2>2 DEF Booted
<1>3. CASE LoadfEnter
  <2>1. /\ mode = "user" /\ mode' = "loadf" /\ i' = 0 /\ since' = Len(tasks)
        /\ tasks' = tasks /\ live # {}
    BY <1>3 DEF LoadfEnter
  <2>2. tasks # << >>
    BY <1>e, <1>t, <2>1 DEF IInv, LoaderTypeOK
  <2>3. Booted'
    BY <1>b, <1>i, <1>m, <2>1 DEF Booted
  <2>4. since' + 1 .. Len(tasks') = {} /\ Programs(wanted, i)' = {}
    BY <1>t, <2>1 DEF Programs
  <2> QED
    BY <2>1, <2>2, <2>3, <2>4 DEF NamesInv, LoadsNamed, Booted
<1>4. CASE LoadfStep
  <2>1. /\ i < Len(modules) /\ i' = i + 1 /\ i' \in DOMAIN modules /\ mode = "loadf"
        /\ wanted' = wanted /\ since' = since /\ tasks # << >> /\ Booted
    BY <1>4, <1>b, <1>t DEF LoadfStep, NamesInv
  <2> DEFINE new == since + 1 .. Len(tasks)
  <2>2. /\ {tasks[t].module : t \in new} = Programs(wanted, i)
        /\ \A t, u \in new : t < u => tasks[t].module < tasks[u].module
    BY <2>1 DEF NamesInv, LoadsNamed
  <2>3. Matches(i') <=> modules[i'].cmdline = wanted
    BY <2>1, NameMatches DEF IInv
  <2>4. CASE Matches(i') /\ modules[i'].segments # << >>
    <3>1. InitElf(i', "loadf")
      BY <1>4, <2>4 DEF LoadfStep
    <3>2. /\ mode' \in {"loadf", "wild"}
          /\ Len(tasks') = Len(tasks) + 1
          /\ \A t \in 1 .. Len(tasks) : tasks'[t] = tasks[t]
          /\ tasks'[Len(tasks) + 1].module = i'
      BY <2>1, <2>4, <3>1, ElfStarts
    <3>3. new \subseteq 1 .. Len(tasks) /\ since + 1 .. Len(tasks') = new \cup {Len(tasks) + 1}
      BY <1>t, <3>2
    <3>4. Programs(wanted, i') = Programs(wanted, i) \cup {i'}
      BY <1>t, <2>1, <2>3, <2>4 DEF Programs
    <3>5. Programs(wanted, i) \subseteq 1 .. i
      BY DEF Programs
    <3> HIDE DEF new
    <3>6. {tasks'[t].module : t \in new \cup {Len(tasks) + 1}} = Programs(wanted, i')
      BY <2>2, <3>2, <3>3, <3>4
    <3>7. ASSUME NEW t \in new \cup {Len(tasks) + 1}, NEW u \in new \cup {Len(tasks) + 1}, t < u
          PROVE  tasks'[t].module < tasks'[u].module
      <4>1. t \in new
        BY <1>t, <3>3, <3>7
      <4>2. tasks'[t].module = tasks[t].module /\ tasks[t].module \in 1 .. i
        BY <2>2, <3>2, <3>3, <3>5, <4>1
      <4>3. CASE u \in new
        BY <2>2, <3>2, <3>3, <3>7, <4>1, <4>3
      <4>4. CASE u = Len(tasks) + 1
        BY <1>t, <2>1, <3>2, <4>2, <4>4
      <4> QED
        BY <4>3, <4>4
    <3>8. tasks' # << >> /\ tasks'[1] = tasks[1]
      BY <1>e, <1>t, <2>1, <3>2
    <3>9. Booted'
      BY <1>i, <1>m, <2>1, <3>8 DEF Booted
    <3>10. Programs(wanted, i)' = Programs(wanted, i')
      BY <1>m, <2>1 DEF Programs
    <3> QED
      BY <2>1, <3>2, <3>3, <3>6, <3>7, <3>8, <3>9, <3>10 DEF NamesInv, LoadsNamed, Booted
  <2>5. CASE ~(Matches(i') /\ modules[i'].segments # << >>)
    <3>1. tasks' = tasks /\ mode' = "loadf"
      <4>1. CASE Matches(i')
        <5>1. InitElf(i', "loadf")
          BY <1>4, <4>1 DEF LoadfStep
        <5> QED
          BY <2>1, <2>5, <4>1, <5>1, ElfStarts
      <4>2. CASE ~Matches(i')
        BY <1>4, <2>1, <4>2 DEF LoadfStep
      <4> QED
        BY <4>1, <4>2
    <3>2. Programs(wanted, i)' = Programs(wanted, i)
      BY <1>m, <1>t, <2>1, <2>3, <2>5 DEF Programs
    <3>3. Booted'
      BY <1>i, <1>m, <2>1, <3>1 DEF Booted
    <3> QED
      BY <2>1, <2>2, <3>1, <3>2, <3>3 DEF NamesInv, LoadsNamed, Booted
  <2> QED
    BY <2>4, <2>5
<1>5. CASE LoadfReturn
  BY <1>5, <1>b, <1>i, <1>m, <1>x DEF LoadfReturn, Booted
<1>6. CASE \E t \in live : Work(t) \/ Exit(t)
  <2>1. mode = "user" /\ mode' = "user" /\ tasks' = tasks
    BY <1>6 DEF Work, Exit
  <2> QED
    BY <1>b, <1>i, <1>m, <1>x, <2>1 DEF Booted
<1>7. CASE UNCHANGED loaderVars
  BY <1>7 DEF loaderVars, NamesInv, LoadsNamed, InitModules, Programs
<1> QED
  BY <1>1, <1>2, <1>3, <1>4, <1>5, <1>6, <1>7 DEF LoaderNext, StayOver

--------------------------------------------------------------------------------
(* Programs start whole.                                                   *)

Whole ==
  \A t \in DOMAIN tasks' \ DOMAIN tasks :
    LET m == tasks'[t].module IN
    \A n \in Loadable(m) :
      LET s == modules[m].segments[n] IN
      \A a \in SegmentCells(s) : mem'[a] = Fresh(s, m, a)

LEMMA ElfWhole ==
  ASSUME IInv, mode # "wild", NEW m \in DOMAIN modules, NEW next, InitElf(m, next),
         UNCHANGED modules
  PROVE  Whole
<1>1. CASE UNCHANGED tasks
  BY <1>1 DEF Whole
<1>2. CASE InitTask(LoadSegments(m), m)
  <2>1. tasks \in Seq(Task)
    BY DEF IInv, LoaderTypeOK
  <2>2. PICK x : tasks' = Append(tasks, x) /\ x.module = m
    BY <1>2 DEF InitTask
  <2>3. \A t \in DOMAIN tasks' \ DOMAIN tasks : tasks'[t].module = m
    <3>1. /\ DOMAIN tasks' = 1 .. Len(tasks) + 1 /\ DOMAIN tasks = 1 .. Len(tasks)
          /\ tasks'[Len(tasks) + 1] = x /\ Len(tasks) \in Nat
      BY <2>1, <2>2, LenProperties
    <3>2. \A t \in DOMAIN tasks' \ DOMAIN tasks : t = Len(tasks) + 1
      BY <3>1
    <3> QED
      BY <2>2, <3>1, <3>2
  <2>4. \A n \in Loadable(m) : \A a \in SegmentCells(Seg(m, n)) :
          mem'[a] = Fresh(Seg(m, n), m, a)
    BY <1>2, ProgramLoaded DEF IInv
  <2> QED
    BY <2>3, <2>4 DEF Whole, Seg
<1> QED
  BY <1>1, <1>2 DEF InitElf

LEMMA StepWhole == IInv /\ [LoaderNext]_loaderVars => [Whole]_loaderVars
<1> SUFFICES ASSUME IInv, [LoaderNext]_loaderVars PROVE Whole
  OBVIOUS
<1>t. Len(modules) \in Nat /\ DOMAIN modules = 1 .. Len(modules) /\ i \in 0 .. Len(modules)
  BY ModulesFacts DEF IInv, LoaderTypeOK
<1>1. CASE UNCHANGED tasks
  BY <1>1 DEF Whole
<1>2. CASE BootStep
  <2>1. i' \in DOMAIN modules /\ mode # "wild" /\ UNCHANGED modules
    BY <1>2, <1>t DEF BootStep
  <2>2. CASE Matches(i')
    BY <1>2, <2>1, <2>2, ElfWhole DEF BootStep
  <2>3. CASE ~Matches(i')
    BY <1>1, <1>2, <2>3 DEF BootStep
  <2> QED
    BY <2>2, <2>3
<1>3. CASE LoadfStep
  <2>1. i' \in DOMAIN modules /\ mode # "wild" /\ UNCHANGED modules
    BY <1>3, <1>t DEF LoadfStep
  <2>2. CASE Matches(i')
    BY <1>3, <2>1, <2>2, ElfWhole DEF LoadfStep
  <2>3. CASE ~Matches(i')
    BY <1>1, <1>3, <2>3 DEF LoadfStep
  <2> QED
    BY <2>2, <2>3
<1> QED
  BY <1>1, <1>2, <1>3
  DEF LoaderNext, BootDone, LoadfEnter, LoadfReturn, Work, Exit, StayOver, loaderVars

--------------------------------------------------------------------------------
(* Theorems.                                                               *)

\* What memory, the pages and the list of tasks may be, whatever programs do.
THEOREM TypeCorrect == LoaderSpec => []LoaderTypeOK
<1>1. IInv => LoaderTypeOK
  BY DEF IInv
<1> QED
  BY <1>1, InitHolds, Invariance, PTL DEF LoaderSpec

\* Code is only overwritten by programs linked for the same addresses, as long as
\* PlacesAssumption keeps segments off the modules and the pages handed out.
THEOREM CodeKeptCorrect == LoaderSpec => []CodeKept
<1>1. IInv => CodeKept
  BY DEF IInv
<1> QED
  BY <1>1, InitHolds, Invariance, PTL DEF LoaderSpec

\* init_multitasking and LOADF start what they are asked to and nothing else.
THEOREM LoadsNamedCorrect == LoaderSpec => []LoadsNamed
<1>1. NamesInv => LoadsNamed
  BY DEF NamesInv
<1> QED
  BY <1>1, InitHolds, Invariance, NamesInit, NamesInvariance, PTL DEF LoaderSpec

\* A program's memory is its file's, and zero, at the moment it is started.
THEOREM StartsWholeCorrect == LoaderSpec => StartsWhole
<1>1. [Whole]_loaderVars =>
        [\A t \in DOMAIN tasks' \ DOMAIN tasks :
           LET m == tasks'[t].module IN
           \A n \in Loadable(m) :
             LET s == modules[m].segments[n] IN
             \A a \in SegmentCells(s) : mem'[a] = Fresh(s, m, a)]_loaderVars
  BY DEF Whole
<1>2. LoaderSpec => [][Whole]_loaderVars
  BY InitHolds, Invariance, StepWhole, PTL DEF LoaderSpec
<1> QED
  BY <1>1, <1>2, PTL DEF StartsWhole
================================================================================
