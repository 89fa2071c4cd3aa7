------------------------------- MODULE PmmProofs -------------------------------
(***************************************************************************)
(* Proofs about Pmm, for any number of pages, any page and word size and   *)
(* any layout of memory.                                                   *)
(***************************************************************************)
EXTENDS Pmm, TLAPS

\* While the kernel's pages are being reserved, those below addr are done;
\* after that they all are.  Nothing is handed out before pmm_init returns.
KernelInv ==
  /\ pc = "kernel" =>
       /\ addr % PageBytes = 0
       /\ \A p \in KernelPages : p * PageBytes < addr => p \notin FreePages
  /\ pc \in {"mods", "module", "ready"} => KernelPages \cap FreePages = {}
  /\ pc # "ready" => handed = {}
  /\ KernelPages \cap handed = {}
  /\ handed \cap FreePages = {}

IInv == PmmTypeOK /\ KernelInv

--------------------------------------------------------------------------------
(* Arithmetic.                                                             *)

LEMMA DivMod ==
  ASSUME NEW a \in Nat, NEW b \in Nat \ {0}
  PROVE  /\ a \div b \in Nat
         /\ a % b \in 0 .. b - 1
         /\ a = b * (a \div b) + (a % b)
OBVIOUS

LEMMA Multiple ==
  ASSUME NEW a \in Nat, NEW b \in Nat \ {0}, a % b = 0
  PROVE  a \div b \in Nat /\ a = b * (a \div b)
<1>1. /\ a \div b \in Nat
      /\ a = b * (a \div b) + (a % b)
  BY DivMod
<1> DEFINE d == a \div b
<1>2. d \in Nat /\ a = b * d + 0
  BY <1>1
<1> HIDE DEF d
<1>3. b * d \in Nat
  BY <1>2
<1>4. a = b * d
  BY <1>2, <1>3
<1> QED
  BY <1>2, <1>4 DEF d

LEMMA Times ==
  ASSUME NEW b \in Nat \ {0}, NEW q \in Nat
  PROVE  b * q \in Nat /\ q * b = b * q /\ b * (q + 1) = b * q + b
OBVIOUS

\* A smaller multiple is smaller by at least b.
LEMMA Apart ==
  ASSUME NEW b \in Nat \ {0}, NEW q \in Nat, NEW r \in Nat, q < r
  PROVE  b * q + b <= b * r
<1>1. r - q - 1 \in Nat
  OBVIOUS
<1>2. b * (r - q - 1) \in Nat
  BY <1>1
<1>3. b * (r - q - 1) = b * r - b * q - b
  BY <1>1
<1> QED
  BY <1>2, <1>3, Times

LEMMA DivUnique ==
  ASSUME NEW b \in Nat \ {0}, NEW q \in Nat, NEW r \in 0 .. b - 1
  PROVE  (b * q + r) \div b = q /\ (b * q + r) % b = r
<1> DEFINE a == b * q + r
           d == a \div b
           m == a % b
<1>1. a \in Nat
  BY Times
<1>2. d \in Nat /\ m \in 0 .. b - 1 /\ a = b * d + m
  BY <1>1, DivMod
<1>3. b * q \in Nat /\ b * d \in Nat /\ b * q + r = b * d + m
  BY <1>2, Times
<1> HIDE DEF a, d, m
<1>4. ~(q < d)
  <2> SUFFICES ASSUME q < d PROVE FALSE
    OBVIOUS
  <2>1. b * q + b <= b * d
    BY <1>2, Apart
  <2> QED
    BY <1>2, <1>3, <2>1
<1>5. ~(d < q)
  <2> SUFFICES ASSUME d < q PROVE FALSE
    OBVIOUS
  <2>1. b * d + b <= b * q
    BY <1>2, Apart
  <2> QED
    BY <1>2, <1>3, <2>1
<1>6. d = q
  BY <1>2, <1>4, <1>5
<1>7. m = r
  BY <1>2, <1>3, <1>6
<1> QED
  BY <1>6, <1>7 DEF a, d, m

\* A quotient is below n if the number is below n times the divisor.
LEMMA DivBelow ==
  ASSUME NEW a \in Nat, NEW b \in Nat \ {0}, NEW n \in Nat, a < b * n
  PROVE  a \div b \in 0 .. n - 1
<1> DEFINE d == a \div b
           m == a % b
<1>1. d \in Nat /\ m \in Nat /\ a = b * d + m
  BY DivMod
<1> HIDE DEF d, m
<1>2. ~(n < d) /\ n # d
  <2>1. ASSUME n < d PROVE FALSE
    <3>1. b * n + b <= b * d
      BY <1>1, <2>1, Apart
    <3> QED
      BY <1>1, <3>1, Times
  <2>2. ASSUME n = d PROVE FALSE
    BY <1>1, <2>2, Times
  <2> QED
    BY <2>1, <2>2
<1> QED
  BY <1>1, <1>2 DEF d

LEMMA Sizes ==
  /\ PageBytes \in Nat \ {0} /\ WordBits \in Nat \ {0} /\ NPages \in Nat \ {0}
  /\ BITMAP_SIZE \in Nat
  /\ NPages = WordBits * BITMAP_SIZE
  /\ Span \in Nat \ {0} /\ Span = PageBytes * NPages
<1>1. PageBytes \in Nat \ {0} /\ WordBits \in Nat \ {0} /\ NPages \in Nat \ {0} /\ NPages % WordBits = 0
  BY PmmAssumption, NPagesAssumption
<1>2. BITMAP_SIZE \in Nat /\ NPages = WordBits * BITMAP_SIZE
  BY <1>1, DivMod DEF BITMAP_SIZE
<1>3. Span \in Nat /\ Span = PageBytes * NPages
  BY <1>1, Times DEF Span
<1>4. PageBytes * 0 + PageBytes <= PageBytes * NPages
  BY <1>1, Apart
<1> QED
  BY <1>1, <1>2, <1>3, <1>4

LEMMA PageOfAddress ==
  ASSUME NEW a \in Address
  PROVE  PageOf(a) \in Page
BY Sizes, DivBelow DEF Address, PageOf, Page

LEMMA WordOfPage ==
  ASSUME NEW p \in Page
  PROVE  p \div WordBits \in 0 .. BITMAP_SIZE - 1 /\ p % WordBits \in Bit
<1>1. p \in Nat /\ p < WordBits * BITMAP_SIZE
  BY Sizes DEF Page
<1> QED
  BY <1>1, Sizes, DivBelow, DivMod DEF Bit

LEMMA PageOfWord ==
  ASSUME NEW w \in 0 .. BITMAP_SIZE - 1, NEW b \in Bit
  PROVE  /\ w * WordBits + b \in Page
         /\ (w * WordBits + b) \div WordBits = w
         /\ (w * WordBits + b) % WordBits = b
<1>1. w \in Nat /\ w < BITMAP_SIZE /\ w * WordBits = WordBits * w /\ WordBits * w \in Nat
  BY Sizes, Times
<1>2. WordBits * w + WordBits <= WordBits * BITMAP_SIZE
  BY <1>1, Sizes, Apart
<1> QED
  BY <1>1, <1>2, Sizes, DivUnique DEF Bit, Page

--------------------------------------------------------------------------------
(* The bitmap.                                                             *)

BitmapType == [0 .. BITMAP_SIZE - 1 -> SUBSET Bit]

LEMMA FreedType ==
  ASSUME bitmap \in BitmapType, NEW p \in Page
  PROVE  Freed(p) \in BitmapType
BY WordOfPage DEF Freed, BitmapType

LEMMA MarkedUsedType ==
  ASSUME NEW map \in BitmapType, NEW p \in Page
  PROVE  MarkedUsed(map, p) \in BitmapType
BY WordOfPage DEF MarkedUsed, BitmapType

LEMMA SamePage ==
  ASSUME NEW p \in Page, NEW q \in Page,
         p \div WordBits = q \div WordBits, p % WordBits = q % WordBits
  PROVE  p = q
<1>1. p \in Nat /\ q \in Nat
  BY Sizes DEF Page
<1> QED
  BY <1>1, Sizes, DivMod

\* pmm_free adds one page.
LEMMA FreedPages ==
  ASSUME bitmap \in BitmapType, NEW p \in Page, bitmap' = Freed(p)
  PROVE  FreePages' = FreePages \cup {p}
<1>1. ASSUME NEW q \in Page PROVE q \in FreePages' <=> q \in FreePages \/ q = p
  <2>1. p \div WordBits \in DOMAIN bitmap /\ q \div WordBits \in DOMAIN bitmap
    BY WordOfPage DEF BitmapType
  <2> QED
    BY <2>1, SamePage DEF Freed, FreePages
<1> QED
  BY <1>1 DEF FreePages

\* pmm_mark_used takes one page away and leaves the others as they are.
LEMMA MarkedUsedPages ==
  ASSUME NEW map \in BitmapType, NEW p \in Page, NEW q \in Page
  PROVE  q % WordBits \in MarkedUsed(map, p)[q \div WordBits] <=>
           q % WordBits \in map[q \div WordBits] /\ q # p
<1>1. p \div WordBits \in DOMAIN map /\ q \div WordBits \in DOMAIN map
  BY WordOfPage DEF BitmapType
<1> QED
  BY <1>1, SamePage DEF MarkedUsed

LEMMA MarkUsed ==
  ASSUME bitmap \in BitmapType, NEW p \in Page, bitmap' = MarkedUsed(bitmap, p)
  PROVE  FreePages' \subseteq FreePages \ {p}
BY MarkedUsedPages DEF FreePages

\* What pmm_alloc returns is the lowest free page, and it is the only one that
\* is no longer free.
LEMMA AllocPage ==
  ASSUME bitmap \in BitmapType, NEW word \in DOMAIN bitmap, NEW b \in Bit,
         \A v \in 0 .. word - 1 : bitmap[v] = {},
         FirstSet(word, b),
         bitmap' = [bitmap EXCEPT ![word] = @ \ {b}]
  PROVE  /\ bitmap' \in BitmapType
         /\ word * WordBits + b \in FreePages
         /\ FreePages' = FreePages \ {word * WordBits + b}
         /\ \A q \in FreePages : word * WordBits + b <= q
<1> DEFINE page == word * WordBits + b
<1>1. word \in 0 .. BITMAP_SIZE - 1
  BY DEF BitmapType
<1>2. page \in Page /\ page \div WordBits = word /\ page % WordBits = b
  BY <1>1, PageOfWord
<1>3. bitmap' \in BitmapType
  BY DEF BitmapType
<1> HIDE DEF page
<1>4. page \in FreePages
  BY <1>2 DEF FreePages, FirstSet
<1>5. ASSUME NEW q \in Page
      PROVE  q \in FreePages' <=> q \in FreePages /\ q # page
  <2>1. q \div WordBits \in DOMAIN bitmap
    BY WordOfPage DEF BitmapType
  <2>2. q = WordBits * (q \div WordBits) + (q % WordBits)
    BY Sizes, DivMod DEF Page
  <2>3. page = WordBits * word + b
    BY <1>1, Sizes, Times DEF page
  <2>4. q \div WordBits = word /\ q % WordBits = b <=> q = page
    BY <1>2, <2>2, <2>3
  <2>5. q % WordBits \in bitmap'[q \div WordBits] <=>
          q % WordBits \in bitmap[q \div WordBits] /\ ~(q \div WordBits = word /\ q % WordBits = b)
    BY <2>1 DEF BitmapType
  <2> QED
    BY <2>4, <2>5 DEF FreePages
<1>6. FreePages' = FreePages \ {page}
  BY <1>5 DEF FreePages
<1>7. ASSUME NEW q \in FreePages PROVE page <= q
  <2>1. /\ q \in Page /\ q % WordBits \in bitmap[q \div WordBits]
        /\ q \div WordBits \in 0 .. BITMAP_SIZE - 1 /\ q % WordBits \in Bit
    BY WordOfPage DEF FreePages
  <2> DEFINE v == q \div WordBits
             c == q % WordBits
  <2>2. q = WordBits * v + c
    BY <2>1, Sizes, DivMod DEF Page
  <2>3. page = WordBits * word + b
    BY <1>1, Sizes, Times DEF page
  <2>4. v \in Nat /\ c \in Nat /\ b \in Nat /\ b < WordBits /\ word \in Nat /\ c \in bitmap[v]
    BY <1>1, <2>1, Sizes DEF Bit
  <2> HIDE DEF v, c
  <2>5. ~(v < word)
    BY <2>4
  <2>6. CASE v = word
    <3>1. b <= c
      BY <2>4, <2>6 DEF FirstSet
    <3> QED
      BY <2>2, <2>3, <2>4, <2>6, <3>1, Sizes, Times
  <2>7. CASE word < v
    <3>1. WordBits * word + WordBits <= WordBits * v
      BY <2>4, <2>7, Sizes, Apart
    <3>2. WordBits * word \in Nat /\ WordBits * v \in Nat
      BY <2>4, Sizes, Times
    <3> QED
      BY <2>2, <2>3, <2>4, <3>1, <3>2, Sizes
  <2> QED
    BY <2>4, <2>5, <2>6, <2>7
<1> QED
  BY <1>3, <1>4, <1>6, <1>7 DEF page

--------------------------------------------------------------------------------
(* The type invariant.                                                     *)

LEMMA Elements ==
  ASSUME NEW R, NEW s \in Seq(R)
  PROVE  /\ Len(s) \in Nat /\ DOMAIN s = 1 .. Len(s)
         /\ \A n \in DOMAIN s : s[n] \in R
OBVIOUS

LEMMA Layout ==
  ASSUME PmmTypeOK
  PROVE  /\ layout.kernel_start \in Address /\ layout.kernel_start % PageBytes = 0
         /\ layout.kernel_end \in Address
         /\ layout.mb_info \in Address /\ layout.modules \in Address
         /\ \A n \in DOMAIN layout.mmap : layout.mmap[n].base \in Nat /\ layout.mmap[n].length \in Nat
         /\ \A n \in DOMAIN layout.mods : layout.mods[n].mod_start \in Address
         /\ Len(layout.mmap) \in Nat /\ DOMAIN layout.mmap = 1 .. Len(layout.mmap)
         /\ Len(layout.mods) \in Nat /\ DOMAIN layout.mods = 1 .. Len(layout.mods)
<1>1. /\ layout.mmap \in Seq([base : Nat, length : Nat, type : Nat])
      /\ layout.kernel_start \in Address /\ layout.kernel_start % PageBytes = 0
      /\ layout.kernel_end \in Address
      /\ layout.mb_info \in Address /\ layout.modules \in Address
      /\ layout.mods \in Seq([mod_start : Address, mod_end : Address])
  BY LayoutsAssumption DEF PmmTypeOK
<1>2. \A n \in DOMAIN layout.mmap : layout.mmap[n] \in [base : Nat, length : Nat, type : Nat]
  BY <1>1, Elements
<1>3. \A n \in DOMAIN layout.mods : layout.mods[n] \in [mod_start : Address, mod_end : Address]
  BY <1>1, Elements
<1>4. /\ Len(layout.mmap) \in Nat /\ DOMAIN layout.mmap = 1 .. Len(layout.mmap)
      /\ Len(layout.mods) \in Nat /\ DOMAIN layout.mods = 1 .. Len(layout.mods)
  BY <1>1, Elements
<1> QED
  BY <1>1, <1>2, <1>3, <1>4

LEMMA Wraps ==
  ASSUME NEW n \in Nat
  PROVE  n % Span \in Address
BY Sizes, DivMod DEF Address

LEMMA StepType == PmmTypeOK /\ [PmmNext]_pmmVars => PmmTypeOK'
<1> SUFFICES ASSUME PmmTypeOK, [PmmNext]_pmmVars PROVE PmmTypeOK'
  OBVIOUS
<1> USE DEF Goto
<1>a. /\ addr \in Address /\ addr \in Nat /\ end_addr \in Address /\ k \in Nat \ {0}
      /\ bitmap \in BitmapType /\ handed \subseteq Page /\ layout \in Layouts
  BY Sizes DEF PmmTypeOK, Address, BitmapType
<1>p. PageOf(addr) \in Page
  BY <1>a, PageOfAddress
<1>s. (addr + PageBytes) % Span \in Address
  BY <1>a, Sizes, Wraps
<1>t. ASSUME layout' \in Layouts, bitmap' \in BitmapType, pc' \in PC, k' \in Nat \ {0},
             addr' \in Address, end_addr' \in Address, handed' \subseteq Page
      PROVE  PmmTypeOK'
  BY <1>t DEF PmmTypeOK, BitmapType
<1>1. CASE NextRegion
  <2>1. k \in DOMAIN layout.mmap
    BY <1>1, <1>a, Layout DEF NextRegion
  <2>2. layout.mmap[k].base \in Nat /\ layout.mmap[k].length \in Nat
    BY <2>1, Layout
  <2>3. ASSUME addr' = layout.mmap[k].base % Span
        PROVE  addr' \in Address /\ (addr' + layout.mmap[k].length) % Span \in Address
    <3>1. addr' \in Address
      BY <2>2, <2>3, Wraps
    <3>2. addr' + layout.mmap[k].length \in Nat
      BY <2>2, <3>1, Sizes DEF Address
    <3> QED
      BY <3>1, <3>2, Wraps
  <2> QED
    BY <1>1, <1>a, <1>t, <2>3 DEF NextRegion, PC
<1>2. CASE FreeRegionPage
  BY <1>2, <1>a, <1>p, <1>s, <1>t, FreedType DEF FreeRegionPage, PC
<1>3. CASE RegionDone
  BY <1>3, <1>a, <1>t DEF RegionDone, PC
<1>4. CASE MmapDone
  BY <1>4, <1>a, <1>t, Layout DEF MmapDone, PC
<1>5. CASE ReserveKernelPage
  BY <1>5, <1>a, <1>p, <1>s, <1>t, MarkedUsedType DEF ReserveKernelPage, PC
<1>6. CASE ReserveInfo
  <2>1. PageOf(layout.mb_info) \in Page /\ PageOf(layout.modules) \in Page
    BY Layout, PageOfAddress
  <2>2. bitmap' \in BitmapType
    BY <1>6, <1>a, <2>1, MarkedUsedType DEF ReserveInfo
  <2> QED
    BY <1>6, <1>a, <1>t, <2>2 DEF ReserveInfo, PC
<1>7. CASE NextModule
  <2>1. k \in DOMAIN layout.mods
    BY <1>7, <1>a, Layout DEF NextModule
  <2>2. layout.mods[k].mod_start \in Address
    BY <2>1, Layout
  <2> QED
    BY <1>7, <1>a, <1>t, <2>2 DEF NextModule, PC
<1>8. CASE ReserveModulePage
  BY <1>8, <1>a, <1>p, <1>s, <1>t, MarkedUsedType DEF ReserveModulePage, PC
<1>9. CASE ModuleDone
  BY <1>9, <1>a, <1>t DEF ModuleDone, PC
<1>10. CASE InitDone
  BY <1>10, <1>a, <1>t DEF InitDone, PC
<1>11. CASE Alloc
  <2>1. PICK word \in DOMAIN bitmap, b \in Bit :
          /\ \A v \in 0 .. word - 1 : bitmap[v] = {}
          /\ FirstSet(word, b)
          /\ bitmap' = [bitmap EXCEPT ![word] = @ \ {b}]
          /\ handed' = handed \cup {word * WordBits + b}
    BY <1>11 DEF Alloc
  <2>2. bitmap' \in BitmapType /\ word * WordBits + b \in FreePages
    BY <1>a, <2>1, AllocPage
  <2>3. handed' \subseteq Page
    BY <1>a, <2>1, <2>2 DEF FreePages
  <2> QED
    BY <1>11, <1>a, <1>t, <2>2, <2>3 DEF Alloc, initVars, PmmTypeOK
<1>12. CASE AllocFails \/ UNCHANGED pmmVars
  BY <1>12 DEF AllocFails, pmmVars, initVars, PmmTypeOK
<1> QED
  BY <1>1, <1>2, <1>3, <1>4, <1>5, <1>6, <1>7, <1>8, <1>9, <1>10, <1>11, <1>12
     DEF PmmNext, InitStep

--------------------------------------------------------------------------------
(* The kernel's pages.                                                     *)

LEMMA InitInv == PmmInit => IInv
<1> SUFFICES ASSUME PmmInit PROVE IInv
  OBVIOUS
<1>1. PmmTypeOK
  BY Sizes DEF PmmInit, PmmTypeOK, PC, Address
<1>2. KernelInv
  BY DEF PmmInit, KernelInv
<1> QED
  BY <1>1, <1>2 DEF IInv

\* Set-up steps that reserve at most, once the kernel is reserved.
LEMMA ReserveStep ==
  ASSUME KernelInv, layout' = layout, handed' = handed,
         FreePages' \subseteq FreePages,
         pc \in {"mods", "module", "ready"}, pc' \in {"mods", "module", "ready"},
         pc' = "ready" \/ pc # "ready"
  PROVE  KernelInv'
BY DEF KernelInv, KernelPages, Touched

LEMMA StepInv == IInv /\ [PmmNext]_pmmVars => IInv'
<1> SUFFICES ASSUME IInv, [PmmNext]_pmmVars PROVE IInv'
  OBVIOUS
<1> USE DEF Goto
<1>0. PmmTypeOK /\ PmmTypeOK' /\ KernelInv
  BY StepType DEF IInv
<1>a. /\ addr \in Address /\ addr \in Nat /\ bitmap \in BitmapType /\ k \in Nat \ {0}
  BY <1>0, Sizes DEF PmmTypeOK, Address, BitmapType
<1>p. PageOf(addr) \in Page
  BY <1>a, PageOfAddress
<1>1. CASE NextRegion \/ FreeRegionPage \/ RegionDone
  <2>1. pc' \in {"mmap", "region"} /\ layout' = layout /\ handed' = handed /\ handed = {}
    BY <1>0, <1>1 DEF NextRegion, FreeRegionPage, RegionDone, KernelInv
  <2> QED
    BY <1>0, <2>1 DEF IInv, KernelInv
<1>2. CASE MmapDone
  <2>1. /\ pc' = "kernel" /\ layout' = layout /\ handed' = handed /\ handed = {}
        /\ addr' = layout.kernel_start
    BY <1>0, <1>2 DEF MmapDone, KernelInv
  <2>2. layout.kernel_start \in Nat /\ layout.kernel_start % PageBytes = 0
    BY <1>0, Layout, Sizes DEF Address
  <2>3. ASSUME NEW p \in KernelPages, p * PageBytes < layout.kernel_start PROVE FALSE
    <3> DEFINE s == layout.kernel_start \div PageBytes
    <3>1. s \in Nat /\ layout.kernel_start = PageBytes * s
      BY <2>2, Sizes, Multiple
    <3>2. p \in Nat /\ layout.kernel_start < (p + 1) * PageBytes
      BY Sizes DEF KernelPages, Touched, Page
    <3> HIDE DEF s
    <3>3. p * PageBytes = PageBytes * p /\ (p + 1) * PageBytes = PageBytes * p + PageBytes /\ PageBytes * p \in Nat
      BY <3>2, Sizes, Times
    <3>4. CASE p < s
      <4>1. PageBytes * p + PageBytes <= PageBytes * s
        BY <3>1, <3>2, <3>4, Sizes, Apart
      <4> QED
        BY <2>2, <3>1, <3>2, <3>3, <4>1, Sizes
    <3>5. CASE p = s
      BY <2>2, <2>3, <3>1, <3>3, <3>5
    <3>6. CASE s < p
      <4>1. PageBytes * s + PageBytes <= PageBytes * p
        BY <3>1, <3>2, <3>6, Sizes, Apart
      <4> QED
        BY <2>2, <2>3, <3>1, <3>3, <4>1, Sizes
    <3> QED
      BY <3>1, <3>2, <3>4, <3>5, <3>6
  <2>4. KernelPages' = KernelPages
    BY <2>1 DEF KernelPages, Touched
  <2>5. KernelInv'
    BY <2>1, <2>2, <2>3, <2>4 DEF KernelInv
  <2> QED
    BY <1>0, <2>5 DEF IInv
<1>3. CASE ReserveKernelPage
  <2>1. /\ pc = "kernel" /\ pc' = "kernel" /\ layout' = layout /\ handed' = handed /\ handed = {}
        /\ bitmap' = MarkedUsed(bitmap, PageOf(addr))
        /\ addr' = (addr + PageBytes) % Span
    BY <1>0, <1>3 DEF ReserveKernelPage, KernelInv
  <2>2. FreePages' \subseteq FreePages \ {PageOf(addr)}
    BY <1>a, <1>p, <2>1, MarkUsed
  <2> DEFINE q == PageOf(addr)
  <2>3. q \in Nat /\ addr = PageBytes * q /\ q < NPages
    BY <1>0, <1>a, <1>p, <2>1, Sizes, Multiple DEF KernelInv, PageOf, Page
  <2> HIDE DEF q
  <2>4. PageBytes * (q + 1) = addr + PageBytes /\ addr + PageBytes <= Span
    BY <2>3, Sizes, Times, Apart
  <2>5. addr' = addr + PageBytes \/ addr' = 0
    BY <1>a, <2>1, <2>4, Sizes
  <2>6. addr' % PageBytes = 0
    <3>1. (PageBytes * (q + 1) + 0) % PageBytes = 0 /\ (PageBytes * 0 + 0) % PageBytes = 0
      BY <2>3, Sizes, DivUnique
    <3>2. PageBytes * (q + 1) + 0 = addr + PageBytes /\ PageBytes * 0 + 0 = 0
      BY <1>a, <2>4, Sizes
    <3> QED
      BY <2>5, <3>1, <3>2
  <2>7. ASSUME NEW p \in KernelPages, p * PageBytes < addr' PROVE p \notin FreePages'
    <3>1. p \in Nat /\ p * PageBytes = PageBytes * p /\ PageBytes * p \in Nat
      BY Sizes, Times DEF KernelPages, Touched, Page
    <3>2. PageBytes * p < addr + PageBytes
      BY <1>a, <2>5, <2>7, <3>1, Sizes
    <3>3. CASE p = q
      BY <2>2, <3>3 DEF q
    <3>4. CASE p < q
      <4>1. PageBytes * p + PageBytes <= PageBytes * q
        BY <2>3, <3>1, <3>4, Sizes, Apart
      <4>2. p * PageBytes < addr
        BY <2>3, <3>1, <4>1, Sizes
      <4> QED
        BY <1>0, <2>1, <2>2, <4>2 DEF KernelInv
    <3>5. CASE q < p
      <4>1. PageBytes * q + PageBytes <= PageBytes * p
        BY <2>3, <3>1, <3>5, Sizes, Apart
      <4> QED
        BY <1>a, <2>3, <3>1, <3>2, <4>1, Sizes
    <3> QED
      BY <2>3, <3>1, <3>3, <3>4, <3>5
  <2>8. KernelPages' = KernelPages
    BY <2>1 DEF KernelPages, Touched
  <2>9. KernelInv'
    BY <2>1, <2>6, <2>7, <2>8 DEF KernelInv
  <2> QED
    BY <1>0, <2>9 DEF IInv
<1>4. CASE ReserveInfo
  <2>1. /\ pc = "kernel" /\ pc' = "mods" /\ layout' = layout /\ handed' = handed /\ handed = {}
        /\ addr >= layout.kernel_end
        /\ bitmap' = MarkedUsed(MarkedUsed(bitmap, PageOf(layout.mb_info)), PageOf(layout.modules))
    BY <1>0, <1>4 DEF ReserveInfo, KernelInv
  <2>2. PageOf(layout.mb_info) \in Page /\ PageOf(layout.modules) \in Page
    BY <1>0, Layout, PageOfAddress
  <2>3. FreePages' \subseteq FreePages
    BY <1>a, <2>1, <2>2, MarkedUsedType, MarkedUsedPages DEF FreePages
  <2>4. KernelPages \cap FreePages = {}
    <3> SUFFICES ASSUME NEW p \in KernelPages PROVE p \notin FreePages
      OBVIOUS
    <3>1. p \in Nat /\ p * PageBytes \in Nat /\ p * PageBytes < layout.kernel_end
      BY Sizes, Times DEF KernelPages, Touched, Page
    <3>2. layout.kernel_end \in Nat
      BY <1>0, Layout, Sizes DEF Address
    <3> QED
      BY <1>0, <1>a, <2>1, <3>1, <3>2 DEF KernelInv
  <2>5. KernelPages' = KernelPages
    BY <2>1 DEF KernelPages, Touched
  <2>6. KernelInv'
    BY <2>1, <2>3, <2>4, <2>5 DEF KernelInv
  <2> QED
    BY <1>0, <2>6 DEF IInv
<1>5. CASE NextModule \/ ModuleDone \/ InitDone
  <2>1. /\ layout' = layout /\ handed' = handed /\ bitmap' = bitmap
        /\ pc \in {"mods", "module"} /\ pc' \in {"mods", "module", "ready"}
    BY <1>5 DEF NextModule, ModuleDone, InitDone
  <2>2. FreePages' \subseteq FreePages
    BY <2>1 DEF FreePages
  <2> QED
    BY <1>0, <2>1, <2>2, ReserveStep DEF IInv
<1>6. CASE ReserveModulePage
  <2>1. /\ layout' = layout /\ handed' = handed /\ pc = "module" /\ pc' = "module"
        /\ bitmap' = MarkedUsed(bitmap, PageOf(addr))
    BY <1>6 DEF ReserveModulePage
  <2>2. FreePages' \subseteq FreePages
    BY <1>a, <1>p, <2>1, MarkUsed
  <2> QED
    BY <1>0, <2>1, <2>2, ReserveStep DEF IInv
<1>7. CASE Alloc
  <2>1. PICK word \in DOMAIN bitmap, b \in Bit :
          /\ \A v \in 0 .. word - 1 : bitmap[v] = {}
          /\ FirstSet(word, b)
          /\ bitmap' = [bitmap EXCEPT ![word] = @ \ {b}]
          /\ handed' = handed \cup {word * WordBits + b}
    BY <1>7 DEF Alloc
  <2> DEFINE page == word * WordBits + b
  <2>2. page \in FreePages /\ FreePages' = FreePages \ {page} /\ handed' = handed \cup {page}
    BY <1>a, <2>1, AllocPage
  <2>3. pc = "ready" /\ pc' = "ready" /\ layout' = layout
    BY <1>7 DEF Alloc, initVars
  <2> HIDE DEF page
  <2>4. KernelPages' = KernelPages
    BY <2>3 DEF KernelPages, Touched
  <2>5. KernelInv'
    BY <1>0, <2>2, <2>3, <2>4 DEF KernelInv
  <2> QED
    BY <1>0, <2>5 DEF IInv
<1>8. CASE AllocFails \/ UNCHANGED pmmVars
  BY <1>0, <1>8 DEF AllocFails, pmmVars, initVars, IInv, KernelInv, KernelPages, Touched, FreePages
<1> QED
  BY <1>1, <1>2, <1>3, <1>4, <1>5, <1>6, <1>7, <1>8 DEF PmmNext, InitStep

\* Types, the reservation of the kernel and what was handed out together.
THEOREM Invariance == PmmSpec => []IInv
BY InitInv, StepInv, PTL DEF PmmSpec

\* The type invariant: no address pmm_init comes across is outside the bitmap.
THEOREM TypeCorrect == PmmSpec => []PmmTypeOK
<1>1. IInv => PmmTypeOK
  BY DEF IInv
<1> QED
  BY <1>1, Invariance, PTL

\* No page of the kernel is ever free once its loop has run, or handed out,
\* for any memory map, however its regions lie, wrap or overlap.
THEOREM KernelStaysReservedCorrect == PmmSpec => []KernelStaysReserved
<1>1. IInv => KernelStaysReserved
  BY DEF IInv, KernelInv, KernelStaysReserved
<1> QED
  BY <1>1, Invariance, PTL

--------------------------------------------------------------------------------
(* The bitmap implements the set of free pages.                            *)

\* A page that was handed out is never free again.
THEOREM HandedOnceCorrect == PmmSpec => []Abstract!HandedOnce
<1>1. IInv => Abstract!HandedOnce
  BY DEF IInv, KernelInv, Abstract!HandedOnce
<1> QED
  BY <1>1, Invariance, PTL

\* Every step of pmm_init sets up or leaves alone the abstract allocator, and
\* every pmm_alloc takes its lowest page away, for any number of pages.
THEOREM PageAllocImplemented == PmmSpec => ImplementsPageAlloc
<1>1. PmmInit => Abstract!PageInit
  BY WordOfPage DEF PmmInit, FreePages, Abstract!PageInit
<1>2. ASSUME IInv, [PmmNext]_pmmVars
      PROVE  [Abstract!PageNext]_(Abstract!pageVars)
  <2> USE DEF Abstract!PageNext, Abstract!pageVars
  <2>1. CASE pc # "ready" /\ InitStep /\ ~InitDone
    <3>1. pc' # "ready" /\ handed' = handed
      BY <2>1 DEF InitStep, Goto, NextRegion, FreeRegionPage, RegionDone, MmapDone,
                  ReserveKernelPage, ReserveInfo, NextModule, ReserveModulePage, ModuleDone
    <3>2. FreePages' \subseteq Abstract!Page
      BY DEF FreePages, Abstract!Page, Page
    <3> QED
      BY <2>1, <3>1, <3>2 DEF Abstract!Setup
  <2>2. CASE InitDone
    <3>1. pc # "ready" /\ pc' = "ready" /\ handed' = handed /\ bitmap' = bitmap
      BY <2>2 DEF InitDone, Goto
    <3>2. FreePages' = FreePages
      BY <3>1 DEF FreePages
    <3> QED
      BY <3>1, <3>2 DEF Abstract!Finish
  <2>3. CASE Alloc
    <3>1. PICK word \in DOMAIN bitmap, b \in Bit :
            /\ \A v \in 0 .. word - 1 : bitmap[v] = {}
            /\ FirstSet(word, b)
            /\ bitmap' = [bitmap EXCEPT ![word] = @ \ {b}]
            /\ handed' = handed \cup {word * WordBits + b}
      BY <2>3 DEF Alloc
    <3> DEFINE page == word * WordBits + b
    <3>2. bitmap \in BitmapType
      BY <1>2 DEF IInv, PmmTypeOK, BitmapType
    <3>3. /\ page \in FreePages /\ FreePages' = FreePages \ {page} /\ handed' = handed \cup {page}
          /\ \A q \in FreePages : page <= q
      BY <3>1, <3>2, AllocPage
    <3>4. pc = "ready" /\ pc' = "ready"
      BY <2>3 DEF Alloc, initVars
    <3> HIDE DEF page
    <3>5. Abstract!pmm_alloc(FreePages, page) /\ FreePages # {}
      BY <3>3 DEF Abstract!pmm_alloc
    <3>6. page \in Abstract!Page
      BY <3>3 DEF FreePages, Abstract!Page, Page
    <3> QED
      BY <3>3, <3>4, <3>5, <3>6 DEF Abstract!HandOut
  <2>4. CASE AllocFails \/ UNCHANGED pmmVars
    BY <2>4 DEF AllocFails, pmmVars, initVars, FreePages
  <2>5. InitStep => pc # "ready"
    BY DEF InitStep, NextRegion, FreeRegionPage, RegionDone, MmapDone, ReserveKernelPage,
           ReserveInfo, NextModule, ReserveModulePage, ModuleDone, InitDone
  <2> QED
    BY <1>2, <2>1, <2>2, <2>3, <2>4, <2>5 DEF PmmNext
<1> QED
  BY <1>1, <1>2, Invariance, PTL DEF PmmSpec, ImplementsPageAlloc, Abstract!PageSpec

--------------------------------------------------------------------------------
(* What is free after pmm_init, to the page.                               *)

\* The pages that free regions 1 to n report, and those that modules 1 to n use.
ReportedBy(n) ==
  {p \in Page : \E m \in 1 .. n :
     /\ layout.mmap[m].type = 1
     /\ layout.mmap[m].base <= p * PageBytes
     /\ (p + 1) * PageBytes <= layout.mmap[m].base + layout.mmap[m].length}

UsedBy(n) ==
  {p \in Page : \E m \in 1 .. n : p \in Touched(layout.mods[m].mod_start, layout.mods[m].mod_end)}

\* The pages that begin in [from, to).
Between(from, to) == {p \in Page : from <= p * PageBytes /\ p * PageBytes < to}

FreeAfterKernel(n) == ReportedFree \ (KernelPages \cup InfoPages \cup UsedBy(n))

\* How far each loop has come.  The loop over a module that ends in the last page
\* does not end.
ExactInv ==
  /\ pc = "mmap" => FreePages = ReportedBy(k - 1) /\ k <= Len(layout.mmap) + 1
  /\ pc = "region" =>
       LET region == layout.mmap[k] IN
       /\ k <= Len(layout.mmap) /\ region.type = 1
       /\ end_addr = region.base + region.length
       /\ region.base <= addr /\ addr <= end_addr /\ addr % PageBytes = 0
       /\ FreePages = ReportedBy(k - 1) \cup Between(region.base, addr)
  /\ pc = "kernel" =>
       /\ layout.kernel_start <= addr /\ addr <= layout.kernel_end /\ addr % PageBytes = 0
       /\ FreePages = ReportedFree \ Between(layout.kernel_start, addr)
  /\ pc = "mods" => FreePages = FreeAfterKernel(k - 1) /\ k <= Len(layout.mods) + 1
  /\ pc = "module" =>
       LET mod == layout.mods[k] IN
       /\ k <= Len(layout.mods) /\ addr % PageBytes = 0
       /\ \/ mod.mod_end > Span - PageBytes
          \/ /\ mod.mod_start <= addr
             /\ addr < mod.mod_end + PageBytes \/ addr = mod.mod_start
             /\ FreePages = FreeAfterKernel(k - 1) \ Between(mod.mod_start, addr)
  /\ pc = "ready" => FreePages \cup handed = FreeAfterKernel(Len(layout.mods))

\* Multiples of the page size.
LEMMA Aligned ==
  ASSUME NEW a \in Nat, a % PageBytes = 0, NEW p \in Nat
  PROVE  /\ p * PageBytes \in Nat /\ (p + 1) * PageBytes = p * PageBytes + PageBytes
         /\ p * PageBytes < a <=> p * PageBytes + PageBytes <= a
         /\ p * PageBytes < a + PageBytes <=> p * PageBytes < a \/ p = PageOf(a)
         /\ PageOf(a) * PageBytes = a
         /\ (a + PageBytes) % PageBytes = 0
<1> DEFINE q == PageOf(a)
<1>1. q \in Nat /\ a = PageBytes * q
  BY Sizes, Multiple DEF PageOf
<1> HIDE DEF q
<1>2. /\ p * PageBytes = PageBytes * p /\ q * PageBytes = PageBytes * q
      /\ (p + 1) * PageBytes = PageBytes * p + PageBytes
      /\ PageBytes * (q + 1) = PageBytes * q + PageBytes
      /\ PageBytes * p \in Nat /\ PageBytes * q \in Nat
  <2>1. p + 1 \in Nat
    OBVIOUS
  <2> QED
    BY <1>1, <2>1, Sizes, Times
<1>3. p < q => PageBytes * p + PageBytes <= PageBytes * q
  BY <1>1, Sizes, Apart
<1>4. q < p => PageBytes * q + PageBytes <= PageBytes * p
  BY <1>1, Sizes, Apart
<1>5. (a + PageBytes) % PageBytes = 0
  <2>1. (PageBytes * (q + 1) + 0) % PageBytes = 0
    BY <1>1, Sizes, DivUnique
  <2>2. PageBytes * (q + 1) + 0 = a + PageBytes
    BY <1>1, <1>2, Sizes
  <2> QED
    BY <2>1, <2>2
<1>6. p < q \/ p = q \/ q < p
  BY <1>1
<1>7. PageBytes \in Nat /\ PageBytes > 0
  BY Sizes
<1> DEFINE x == PageBytes * p
           y == PageBytes * q
<1>8. x \in Nat /\ y \in Nat /\ a = y /\ (p < q => x + PageBytes <= y) /\ (q < p => y + PageBytes <= x)
      /\ (p = q => x = y)
  BY <1>1, <1>2, <1>3, <1>4
<1> HIDE DEF x, y
<1>9. /\ x < a <=> x + PageBytes <= a
      /\ x < a + PageBytes <=> x < a \/ p = q
  BY <1>6, <1>7, <1>8
<1> QED
  BY <1>1, <1>2, <1>5, <1>9 DEF q, x

LEMMA SumAligned ==
  ASSUME NEW a \in Nat, a % PageBytes = 0, NEW b \in Nat, b % PageBytes = 0
  PROVE  (a + b) % PageBytes = 0
<1> DEFINE q == a \div PageBytes
           r == b \div PageBytes
<1>1. q \in Nat /\ r \in Nat /\ a = PageBytes * q /\ b = PageBytes * r
  BY Sizes, Multiple
<1> HIDE DEF q, r
<1>2. PageBytes * (q + r) = PageBytes * q + PageBytes * r
  BY <1>1, Sizes
<1>3. (PageBytes * (q + r) + 0) % PageBytes = 0
  BY <1>1, Sizes, DivUnique
<1>4. PageBytes * (q + r) + 0 = a + b
  BY <1>1, <1>2, Sizes
<1> QED
  BY <1>3, <1>4

\* The page at addr joins those between.
LEMMA BetweenNext ==
  ASSUME NEW from \in Nat, NEW a \in Nat, a % PageBytes = 0, from <= a, PageOf(a) \in Page
  PROVE  Between(from, a + PageBytes) = Between(from, a) \cup {PageOf(a)}
<1>1. ASSUME NEW p \in Page
      PROVE  p \in Between(from, a + PageBytes) <=> p \in Between(from, a) \/ p = PageOf(a)
  <2>1. p \in Nat
    BY Sizes DEF Page
  <2>2. p * PageBytes \in Nat /\ (p * PageBytes < a + PageBytes <=> p * PageBytes < a \/ p = PageOf(a))
    BY <2>1, Aligned
  <2>3. p = PageOf(a) => from <= p * PageBytes
    BY <2>1, Aligned
  <2> QED
    BY <2>2, <2>3 DEF Between
<1> QED
  BY <1>1 DEF Between

LEMMA BetweenNone ==
  ASSUME NEW a \in Nat
  PROVE  Between(a, a) = {}
<1>1. ASSUME NEW p \in Page PROVE ~(a <= p * PageBytes /\ p * PageBytes < a)
  <2>1. p * PageBytes \in Nat
    BY Sizes, Times DEF Page
  <2> QED
    BY <2>1
<1> QED
  BY <1>1 DEF Between

\* The loop over [from, to) has gone through the pages it touches, if from is a
\* page's address: to the first such address that is not below `to'.
LEMMA BetweenTouched ==
  ASSUME NEW from \in Nat, from % PageBytes = 0, NEW to \in Nat,
         NEW a \in Nat, a % PageBytes = 0, a >= to,
         a < to + PageBytes \/ a = from
  PROVE  Touched(from, to) = Between(from, a)
<1>1. ASSUME NEW p \in Page
      PROVE  p \in Touched(from, to) <=> p \in Between(from, a)
  <2> DEFINE x == p * PageBytes
  <2>1. p \in Nat /\ PageBytes \in Nat
    BY Sizes DEF Page
  <2>2. x \in Nat /\ (p + 1) * PageBytes = x + PageBytes
    BY <2>1, Aligned
  <2>3. x < from <=> x + PageBytes <= from
    BY <2>1, Aligned
  <2>4. x < a <=> x + PageBytes <= a
    BY <2>1, Aligned
  <2>5. /\ p \in Touched(from, to) <=> x < to /\ from < x + PageBytes /\ from < to
        /\ p \in Between(from, a) <=> from <= x /\ x < a
    BY <2>2 DEF Touched, Between
  <2> HIDE DEF x
  <2> QED
    BY <2>1, <2>2, <2>3, <2>4, <2>5
<1> QED
  BY <1>1 DEF Touched, Between

\* What holds of the layout if all regions consist of whole pages.
LEMMA Whole ==
  ASSUME PmmTypeOK, WholePages
  PROVE  /\ \A n \in DOMAIN layout.mmap :
              LET region == layout.mmap[n] IN
              /\ region.base \in Nat /\ region.length \in Nat
              /\ region.type = 1 =>
                   /\ region.base % PageBytes = 0
                   /\ (region.base + region.length) % PageBytes = 0
                   /\ region.base + region.length < Span
         /\ \A n \in DOMAIN layout.mods :
              LET mod == layout.mods[n] IN
              /\ mod.mod_start \in Address /\ mod.mod_start % PageBytes = 0
              /\ mod.mod_end \in Address
         /\ layout.kernel_end % PageBytes = 0 /\ layout.kernel_start <= layout.kernel_end
<1>1. \A n \in DOMAIN layout.mmap : layout.mmap[n].base \in Nat /\ layout.mmap[n].length \in Nat
  BY Layout
<1>2. layout.mods \in Seq([mod_start : Address, mod_end : Address])
  BY LayoutsAssumption DEF PmmTypeOK
<1>3. \A n \in DOMAIN layout.mods : layout.mods[n] \in [mod_start : Address, mod_end : Address]
  BY <1>2, Elements
<1>4. \A n \in DOMAIN layout.mmap : layout.mmap[n].type = 1 =>
        /\ layout.mmap[n].base % PageBytes = 0
        /\ (layout.mmap[n].base + layout.mmap[n].length) % PageBytes = 0
        /\ layout.mmap[n].base + layout.mmap[n].length < Span
  BY <1>1, SumAligned DEF WholePages
<1>5. layout.kernel_end % PageBytes = 0 /\ layout.kernel_start <= layout.kernel_end
  BY LayoutsAssumption DEF PmmTypeOK
<1> QED
  BY <1>1, <1>3, <1>4, <1>5 DEF WholePages

\* Up to its end a loop does not wrap.
LEMMA NoWrap ==
  ASSUME NEW a \in Nat, a + PageBytes < Span
  PROVE  (a + PageBytes) % Span = a + PageBytes
BY Sizes

\* The regions up to n, and n itself.
LEMMA ReportedNext ==
  ASSUME PmmTypeOK, NEW n \in DOMAIN layout.mmap
  PROVE  /\ layout.mmap[n].type # 1 => ReportedBy(n) = ReportedBy(n - 1)
         /\ WholePages /\ layout.mmap[n].type = 1 =>
              ReportedBy(n) = ReportedBy(n - 1) \cup
                Between(layout.mmap[n].base, layout.mmap[n].base + layout.mmap[n].length)
<1>1. n \in Nat \ {0} /\ 1 .. n = (1 .. n - 1) \cup {n}
  BY Layout
<1>2. layout.mmap[n].type # 1 => ReportedBy(n) = ReportedBy(n - 1)
  BY <1>1 DEF ReportedBy
<1>3. ASSUME WholePages, layout.mmap[n].type = 1
      PROVE  ReportedBy(n) = ReportedBy(n - 1) \cup
               Between(layout.mmap[n].base, layout.mmap[n].base + layout.mmap[n].length)
  <2> DEFINE end == layout.mmap[n].base + layout.mmap[n].length
  <2>1. end \in Nat /\ end % PageBytes = 0
    BY <1>3, Whole
  <2> HIDE DEF end
  <2>2. ASSUME NEW p \in Page
        PROVE  (p + 1) * PageBytes <= end <=> p * PageBytes < end
    <3>1. p \in Nat
      BY Sizes DEF Page
    <3>2. /\ p * PageBytes < end <=> p * PageBytes + PageBytes <= end
          /\ (p + 1) * PageBytes = p * PageBytes + PageBytes
      BY <2>1, <3>1, Aligned
    <3> QED
      BY <3>2
  <2>3. ReportedBy(n) = ReportedBy(n - 1) \cup
          {p \in Page : layout.mmap[n].base <= p * PageBytes /\ (p + 1) * PageBytes <= end}
    BY <1>1, <1>3 DEF ReportedBy, end
  <2>4. {p \in Page : layout.mmap[n].base <= p * PageBytes /\ (p + 1) * PageBytes <= end}
          = Between(layout.mmap[n].base, end)
    BY <2>2 DEF Between
  <2> QED
    BY <2>3, <2>4 DEF end
<1> QED
  BY <1>2, <1>3

LEMMA UsedNext ==
  ASSUME PmmTypeOK, NEW n \in DOMAIN layout.mods
  PROVE  UsedBy(n) = UsedBy(n - 1) \cup Touched(layout.mods[n].mod_start, layout.mods[n].mod_end)
<1>1. n \in Nat \ {0} /\ 1 .. n = (1 .. n - 1) \cup {n}
  BY Layout
<1> QED
  BY <1>1 DEF UsedBy, Touched

LEMMA SameLayout ==
  ASSUME layout' = layout
  PROVE  /\ WholePages' = WholePages /\ ReportedFree' = ReportedFree
         /\ KernelPages' = KernelPages /\ InfoPages' = InfoPages
         /\ \A n : ReportedBy(n)' = ReportedBy(n) /\ FreeAfterKernel(n)' = FreeAfterKernel(n)
BY DEF WholePages, ReportedFree, KernelPages, InfoPages, ReportedBy, FreeAfterKernel, UsedBy,
       Touched, PageOf

LEMMA ExactInit == PmmInit => ExactInv
<1> SUFFICES ASSUME PmmInit PROVE ExactInv
  OBVIOUS
<1>1. FreePages = {}
  BY WordOfPage DEF PmmInit, FreePages
<1>2. ReportedBy(0) = {}
  BY DEF ReportedBy
<1>3. Len(layout.mmap) \in Nat
  BY LayoutsAssumption DEF PmmInit
<1> QED
  BY <1>1, <1>2, <1>3 DEF PmmInit, ExactInv

LEMMA ExactStep ==
  ASSUME IInv, WholePages, ExactInv, [PmmNext]_pmmVars
  PROVE  ExactInv'
<1> USE DEF Goto
<1>0. PmmTypeOK /\ KernelInv
  BY DEF IInv
<1>a. /\ addr \in Address /\ addr \in Nat /\ addr < Span /\ bitmap \in BitmapType
      /\ k \in Nat \ {0} /\ PageBytes \in Nat \ {0} /\ Span \in Nat
  BY <1>0, Sizes DEF PmmTypeOK, Address, BitmapType
<1>p. PageOf(addr) \in Page
  BY <1>a, PageOfAddress
<1>l. layout' = layout
  BY DEF PmmNext, InitStep, NextRegion, FreeRegionPage, RegionDone, MmapDone, ReserveKernelPage,
         ReserveInfo, NextModule, ReserveModulePage, ModuleDone, InitDone, Alloc, AllocFails, pmmVars
<1>1. CASE NextRegion
  <2>1. k \in DOMAIN layout.mmap /\ k <= Len(layout.mmap)
    BY <1>0, <1>1, <1>a, Layout DEF NextRegion
  <2>2. FreePages' = FreePages /\ FreePages = ReportedBy(k - 1)
    BY <1>1 DEF NextRegion, FreePages, ExactInv
  <2> DEFINE base == layout.mmap[k].base
             length == layout.mmap[k].length
  <2>3. CASE layout.mmap[k].type = 1
    <3>1. /\ base \in Nat /\ length \in Nat /\ base % PageBytes = 0 /\ base + length < Span
      BY <1>0, <2>1, <2>3, Whole
    <3>2. base % Span = base /\ (base + length) % Span = base + length
      <4> HIDE DEF base, length
      <4> QED
        BY <3>1, Sizes
    <3>3. pc' = "region" /\ k' = k /\ addr' = base /\ end_addr' = base + length
      BY <1>1, <2>3, <3>2 DEF NextRegion
    <3>4. Between(base, base) = {}
      BY <3>1, BetweenNone
    <3> QED
      BY <1>l, <2>1, <2>2, <2>3, <3>1, <3>3, <3>4, SameLayout DEF ExactInv
  <2>4. CASE layout.mmap[k].type # 1
    <3>1. pc' = "mmap" /\ k' = k + 1
      BY <1>1, <2>4 DEF NextRegion
    <3>2. ReportedBy(k) = ReportedBy(k - 1) /\ k' - 1 = k /\ k' <= Len(layout.mmap) + 1
      BY <1>0, <1>a, <2>1, <2>4, <3>1, ReportedNext, Layout
    <3> QED
      BY <1>l, <2>2, <3>1, <3>2, SameLayout DEF ExactInv
  <2> QED
    BY <2>3, <2>4
<1>2. CASE FreeRegionPage
  <2> DEFINE base == layout.mmap[k].base
             end == base + layout.mmap[k].length
  <2>1. /\ pc = "region" /\ pc' = "region" /\ k' = k /\ end_addr' = end_addr
        /\ addr < end_addr /\ bitmap' = Freed(PageOf(addr)) /\ addr' = (addr + PageBytes) % Span
    BY <1>2 DEF FreeRegionPage
  <2>2. /\ k <= Len(layout.mmap) /\ layout.mmap[k].type = 1 /\ end_addr = end
        /\ base <= addr /\ addr % PageBytes = 0
        /\ FreePages = ReportedBy(k - 1) \cup Between(base, addr)
    BY <2>1 DEF ExactInv
  <2>3. k \in DOMAIN layout.mmap
    BY <1>0, <1>a, <2>2, Layout
  <2>4. base \in Nat /\ end \in Nat /\ end % PageBytes = 0 /\ end < Span
    BY <1>0, <2>2, <2>3, Whole
  <2> HIDE DEF base, end
  <2>5. addr + PageBytes <= end
    <3>1. PageOf(addr) \in Nat /\ PageOf(addr) * PageBytes = addr
      BY <1>a, <1>p, <2>2, Sizes, Aligned DEF Page
    <3> QED
      BY <2>1, <2>2, <2>4, <3>1, Aligned
  <2>6. addr' = addr + PageBytes
    BY <1>a, <2>1, <2>4, <2>5, NoWrap
  <2>7. FreePages' = FreePages \cup {PageOf(addr)}
    BY <1>a, <1>p, <2>1, FreedPages
  <2>8. Between(base, addr') = Between(base, addr) \cup {PageOf(addr)}
    BY <1>a, <1>p, <2>2, <2>4, <2>6, BetweenNext
  <2>9. addr' % PageBytes = 0 /\ base <= addr'
    <3>1. addr' % PageBytes = 0
      BY <1>a, <2>2, <2>6, Aligned
    <3> QED
      BY <1>a, <2>2, <2>4, <2>6, <3>1
  <2>10. FreePages' = ReportedBy(k - 1) \cup Between(base, addr')
    BY <2>2, <2>7, <2>8
  <2>11. base' = base /\ end' = end
    BY <1>l, <2>1 DEF base, end
  <2> QED
    BY <1>l, <2>1, <2>2, <2>5, <2>6, <2>9, <2>10, <2>11, SameLayout DEF ExactInv, base, end
<1>3. CASE RegionDone
  <2>1. /\ pc = "region" /\ pc' = "mmap" /\ k' = k + 1 /\ addr >= end_addr /\ FreePages' = FreePages
    BY <1>3 DEF RegionDone, FreePages
  <2>2. /\ k <= Len(layout.mmap) /\ layout.mmap[k].type = 1
        /\ end_addr = layout.mmap[k].base + layout.mmap[k].length /\ addr <= end_addr
        /\ FreePages = ReportedBy(k - 1) \cup Between(layout.mmap[k].base, addr)
    BY <2>1 DEF ExactInv
  <2>3. k \in DOMAIN layout.mmap
    BY <1>0, <1>a, <2>2, Layout
  <2>4. addr = end_addr
    BY <1>0, <1>a, <2>1, <2>2, Sizes DEF PmmTypeOK, Address
  <2>5. FreePages' = ReportedBy(k)
    BY <1>0, <2>1, <2>2, <2>3, <2>4, ReportedNext
  <2>6. k' - 1 = k /\ k' <= Len(layout.mmap) + 1
    BY <1>0, <1>a, <2>1, <2>2, Layout
  <2> QED
    BY <1>l, <2>1, <2>5, <2>6, SameLayout DEF ExactInv
<1>4. CASE MmapDone
  <2>1. /\ pc = "mmap" /\ pc' = "kernel" /\ k > Len(layout.mmap) /\ FreePages' = FreePages
        /\ addr' = layout.kernel_start
    BY <1>4 DEF MmapDone, FreePages
  <2>2. FreePages = ReportedBy(Len(layout.mmap))
    BY <1>0, <1>a, <2>1, Layout DEF ExactInv
  <2>3. ReportedBy(Len(layout.mmap)) = ReportedFree
    BY <1>0, Layout DEF ReportedBy, ReportedFree
  <2>4. layout.kernel_start \in Nat /\ layout.kernel_start % PageBytes = 0
    BY <1>0, Layout, Sizes DEF Address
  <2>5. Between(layout.kernel_start, layout.kernel_start) = {}
    BY <2>4, BetweenNone
  <2> QED
    BY <1>0, <1>l, <2>1, <2>2, <2>3, <2>4, <2>5, Whole, SameLayout DEF ExactInv
<1>5. CASE ReserveKernelPage
  <2> DEFINE start == layout.kernel_start
             end == layout.kernel_end
  <2>1. /\ pc = "kernel" /\ pc' = "kernel" /\ addr < end
        /\ bitmap' = MarkedUsed(bitmap, PageOf(addr)) /\ addr' = (addr + PageBytes) % Span
    BY <1>5 DEF ReserveKernelPage
  <2>2. /\ start <= addr /\ addr % PageBytes = 0 /\ FreePages = ReportedFree \ Between(start, addr)
    BY <2>1 DEF ExactInv
  <2>3. start \in Nat /\ end \in Nat /\ end % PageBytes = 0 /\ end < Span
    BY <1>0, Layout, Whole, Sizes DEF Address
  <2> HIDE DEF start, end
  <2>4. addr + PageBytes <= end
    <3>1. PageOf(addr) \in Nat /\ PageOf(addr) * PageBytes = addr
      BY <1>a, <1>p, <2>2, Sizes, Aligned DEF Page
    <3> QED
      BY <2>1, <2>3, <3>1, Aligned
  <2>5. addr' = addr + PageBytes
    BY <1>a, <2>1, <2>3, <2>4, NoWrap
  <2>6. FreePages' = FreePages \ {PageOf(addr)}
    BY <1>a, <1>p, <2>1, MarkedUsedPages DEF FreePages
  <2>7. Between(start, addr') = Between(start, addr) \cup {PageOf(addr)}
    BY <1>a, <1>p, <2>2, <2>3, <2>5, BetweenNext
  <2>8. addr' % PageBytes = 0 /\ start <= addr'
    <3>1. addr' % PageBytes = 0
      BY <1>a, <2>2, <2>5, Aligned
    <3> QED
      BY <1>a, <2>2, <2>3, <2>5, <3>1
  <2>9. FreePages' = ReportedFree \ Between(start, addr')
    BY <2>2, <2>6, <2>7
  <2> QED
    BY <1>l, <2>1, <2>4, <2>5, <2>8, <2>9, SameLayout DEF ExactInv, start, end
<1>6. CASE ReserveInfo
  <2> DEFINE start == layout.kernel_start
             end == layout.kernel_end
  <2>1. /\ pc = "kernel" /\ pc' = "mods" /\ k' = 1 /\ addr >= end
        /\ bitmap' = MarkedUsed(MarkedUsed(bitmap, PageOf(layout.mb_info)), PageOf(layout.modules))
    BY <1>6 DEF ReserveInfo
  <2>2. /\ start <= addr /\ addr <= end /\ addr % PageBytes = 0
        /\ FreePages = ReportedFree \ Between(start, addr)
    BY <2>1 DEF ExactInv
  <2>3. start \in Nat /\ start % PageBytes = 0 /\ end \in Nat
    BY <1>0, Layout, Sizes DEF Address
  <2>4. KernelPages = Between(start, addr)
    <3>1. addr < end + PageBytes
      BY <1>a, <2>2, <2>3
    <3> HIDE DEF start, end
    <3>2. Touched(start, end) = Between(start, addr)
      BY <1>a, <2>1, <2>2, <2>3, <3>1, BetweenTouched
    <3> QED
      BY <3>2 DEF KernelPages, start, end
  <2>5. PageOf(layout.mb_info) \in Page /\ PageOf(layout.modules) \in Page
    BY <1>0, Layout, PageOfAddress
  <2>6. MarkedUsed(bitmap, PageOf(layout.mb_info)) \in BitmapType
    BY <1>a, <2>5, MarkedUsedType
  <2>7. FreePages' = FreePages \ InfoPages
    BY <1>a, <2>1, <2>5, <2>6, MarkedUsedPages DEF FreePages, InfoPages
  <2>8. UsedBy(0) = {}
    BY DEF UsedBy
  <2>9. FreePages' = FreeAfterKernel(0)
    BY <2>2, <2>4, <2>7, <2>8 DEF FreeAfterKernel
  <2>10. k' - 1 = 0 /\ k' <= Len(layout.mods) + 1
    BY <1>0, <2>1, Layout
  <2> QED
    BY <1>l, <2>1, <2>9, <2>10, SameLayout DEF ExactInv
<1>7. CASE NextModule
  <2>1. /\ pc = "mods" /\ pc' = "module" /\ k' = k /\ k <= Len(layout.mods) /\ FreePages' = FreePages
        /\ addr' = layout.mods[k].mod_start /\ FreePages = FreeAfterKernel(k - 1)
    BY <1>7 DEF NextModule, FreePages, ExactInv
  <2>2. k \in DOMAIN layout.mods
    BY <1>0, <1>a, <2>1, Layout
  <2>3. layout.mods[k].mod_start \in Nat /\ layout.mods[k].mod_start % PageBytes = 0
    BY <1>0, <2>2, Whole, Sizes DEF Address
  <2>4. Between(layout.mods[k].mod_start, addr') = {}
    BY <2>1, <2>3, BetweenNone
  <2> QED
    BY <1>l, <2>1, <2>3, <2>4, SameLayout DEF ExactInv
<1>8. CASE ReserveModulePage
  <2> DEFINE start == layout.mods[k].mod_start
             end == layout.mods[k].mod_end
  <2>1. /\ pc = "module" /\ pc' = "module" /\ k' = k /\ addr < end
        /\ bitmap' = MarkedUsed(bitmap, PageOf(addr)) /\ addr' = (addr + PageBytes) % Span
    BY <1>8 DEF ReserveModulePage
  <2>2. /\ k <= Len(layout.mods) /\ addr % PageBytes = 0
        /\ \/ end > Span - PageBytes
           \/ /\ start <= addr
              /\ FreePages = FreeAfterKernel(k - 1) \ Between(start, addr)
    BY <2>1 DEF ExactInv
  <2>3. k \in DOMAIN layout.mods
    BY <1>0, <1>a, <2>2, Layout
  <2>4. start \in Nat /\ end \in Nat
    BY <1>0, <2>3, Whole, Sizes DEF Address
  <2> HIDE DEF start, end
  <2>5. (addr + PageBytes) % PageBytes = 0
    BY <1>a, <2>2, Aligned
  <2>6. CASE addr + PageBytes < Span
    <3>1. addr' = addr + PageBytes /\ addr' % PageBytes = 0
      BY <1>a, <2>1, <2>5, <2>6, NoWrap
    <3>2. CASE end > Span - PageBytes
      BY <1>l, <2>1, <2>2, <3>1, <3>2 DEF ExactInv, end
    <3>3. CASE ~(end > Span - PageBytes)
      <4>1. start <= addr /\ FreePages = FreeAfterKernel(k - 1) \ Between(start, addr)
        BY <2>2, <3>3
      <4>2. FreePages' = FreePages \ {PageOf(addr)}
        BY <1>a, <1>p, <2>1, MarkedUsedPages DEF FreePages
      <4>3. Between(start, addr') = Between(start, addr) \cup {PageOf(addr)}
        BY <1>a, <1>p, <2>2, <2>4, <3>1, <4>1, BetweenNext
      <4>4. FreePages' = FreeAfterKernel(k - 1) \ Between(start, addr')
        BY <4>1, <4>2, <4>3
      <4>5. start <= addr' /\ addr' < end + PageBytes
        BY <1>a, <2>1, <2>4, <3>1, <4>1
      <4> QED
        BY <1>l, <2>1, <2>2, <3>1, <4>4, <4>5, SameLayout DEF ExactInv, start, end
    <3> QED
      BY <3>2, <3>3
  <2>7. CASE ~(addr + PageBytes < Span)
    <3>1. end > Span - PageBytes
      BY <1>a, <2>1, <2>4, <2>7
    <3>2. addr + PageBytes = Span
      <4>1. PageOf(addr) * PageBytes = addr /\ PageOf(addr) \in Nat /\ PageOf(addr) < NPages
        BY <1>a, <1>p, <2>2, Sizes, Aligned DEF Page
      <4> DEFINE q == PageOf(addr)
      <4>2. q \in Nat /\ q < NPages /\ addr = PageBytes * q
        BY <4>1, Sizes, Times
      <4> HIDE DEF q
      <4>3. PageBytes * q + PageBytes <= PageBytes * NPages
        BY <4>2, Sizes, Apart
      <4> QED
        BY <1>a, <2>7, <4>2, <4>3, Sizes
    <3>3. addr' = 0 /\ addr' % PageBytes = 0
      <4>1. addr' = Span % Span
        BY <2>1, <3>2
      <4> QED
        BY <4>1, Sizes
    <3> QED
      BY <1>l, <2>1, <2>2, <3>1, <3>3 DEF ExactInv, end
  <2> QED
    BY <2>6, <2>7
<1>9. CASE ModuleDone
  <2> DEFINE start == layout.mods[k].mod_start
             end == layout.mods[k].mod_end
  <2>1. /\ pc = "module" /\ pc' = "mods" /\ k' = k + 1 /\ addr >= end /\ FreePages' = FreePages
    BY <1>9 DEF ModuleDone, FreePages
  <2>2. /\ k <= Len(layout.mods) /\ addr % PageBytes = 0
        /\ \/ end > Span - PageBytes
           \/ /\ start <= addr
              /\ addr < end + PageBytes \/ addr = start
              /\ FreePages = FreeAfterKernel(k - 1) \ Between(start, addr)
    BY <2>1 DEF ExactInv
  <2>3. k \in DOMAIN layout.mods
    BY <1>0, <1>a, <2>2, Layout
  <2>4. start \in Nat /\ start % PageBytes = 0 /\ end \in Nat
    BY <1>0, <2>3, Whole, Sizes DEF Address
  <2> HIDE DEF start, end
  <2>5. addr + PageBytes <= Span
    <3> DEFINE q == PageOf(addr)
    <3>1. q * PageBytes = addr /\ q \in Nat /\ q < NPages
      BY <1>a, <1>p, <2>2, Sizes, Aligned DEF Page
    <3> HIDE DEF q
    <3>2. PageBytes * q + PageBytes <= PageBytes * NPages /\ q * PageBytes = PageBytes * q
      BY <3>1, Sizes, Apart, Times
    <3> QED
      BY <1>a, <3>1, <3>2, Sizes
  <2>6. ~(end > Span - PageBytes)
    BY <1>a, <2>1, <2>4, <2>5
  <2>7. Touched(start, end) = Between(start, addr)
    BY <1>a, <2>1, <2>2, <2>4, <2>6, BetweenTouched
  <2>8. UsedBy(k) = UsedBy(k - 1) \cup Touched(start, end)
    BY <1>0, <2>3, UsedNext DEF start, end
  <2>9. FreePages' = FreeAfterKernel(k)
    BY <2>1, <2>2, <2>6, <2>7, <2>8 DEF FreeAfterKernel
  <2>10. k' - 1 = k /\ k' <= Len(layout.mods) + 1
    BY <1>0, <1>a, <2>1, <2>2, Layout
  <2> QED
    BY <1>l, <2>1, <2>9, <2>10, SameLayout DEF ExactInv
<1>10. CASE InitDone
  <2>1. /\ pc = "mods" /\ pc' = "ready" /\ k > Len(layout.mods) /\ FreePages' = FreePages
        /\ handed' = handed /\ handed = {}
    BY <1>0, <1>10 DEF InitDone, FreePages, KernelInv
  <2>2. k - 1 = Len(layout.mods) /\ FreePages = FreeAfterKernel(k - 1)
    BY <1>0, <1>a, <2>1, Layout DEF ExactInv
  <2> QED
    BY <1>l, <2>1, <2>2, SameLayout DEF ExactInv
<1>11. CASE Alloc
  <2>1. PICK word \in DOMAIN bitmap, b \in Bit :
          /\ \A v \in 0 .. word - 1 : bitmap[v] = {}
          /\ FirstSet(word, b)
          /\ bitmap' = [bitmap EXCEPT ![word] = @ \ {b}]
          /\ handed' = handed \cup {word * WordBits + b}
    BY <1>11 DEF Alloc
  <2> DEFINE page == word * WordBits + b
  <2>2. page \in FreePages /\ FreePages' = FreePages \ {page} /\ handed' = handed \cup {page}
    BY <1>a, <2>1, AllocPage
  <2>3. pc = "ready" /\ pc' = "ready"
    BY <1>11 DEF Alloc, initVars
  <2> HIDE DEF page
  <2>4. FreePages' \cup handed' = FreePages \cup handed
    BY <2>2
  <2> QED
    BY <1>l, <2>3, <2>4, SameLayout DEF ExactInv
<1>12. CASE AllocFails \/ UNCHANGED pmmVars
  <2>1. UNCHANGED <<layout, bitmap, pc, k, addr, end_addr, handed>>
    BY <1>12 DEF AllocFails, pmmVars, initVars
  <2>2. FreePages' = FreePages
    BY <2>1 DEF FreePages
  <2> QED
    BY <2>1, <2>2, SameLayout DEF ExactInv, Between
<1> QED
  BY <1>1, <1>2, <1>3, <1>4, <1>5, <1>6, <1>7, <1>8, <1>9, <1>10, <1>11, <1>12 DEF PmmNext, InitStep

\* If free regions and modules are whole pages, what can be handed out is what is
\* reported free and not in use, to the page, for any such layout.
THEOREM ExactCorrect == PmmSpec => []Exact
<1>1. PmmInit => (WholePages => ExactInv)
  BY ExactInit
<1>2. IInv /\ (WholePages => ExactInv) /\ [PmmNext]_pmmVars => (WholePages => ExactInv)'
  <2> SUFFICES ASSUME IInv, WholePages => ExactInv, [PmmNext]_pmmVars, WholePages'
               PROVE  ExactInv'
    OBVIOUS
  <2>1. layout' = layout
    BY DEF PmmNext, InitStep, Goto, NextRegion, FreeRegionPage, RegionDone, MmapDone,
           ReserveKernelPage, ReserveInfo, NextModule, ReserveModulePage, ModuleDone, InitDone,
           Alloc, AllocFails, pmmVars
  <2> QED
    BY <2>1, SameLayout, ExactStep
<1>3. IInv /\ (WholePages => ExactInv) => Exact
  <2> SUFFICES ASSUME IInv, WholePages => ExactInv, pc = "ready", WholePages
               PROVE  FreePages \cup handed = ReportedFree \ (KernelPages \cup InfoPages \cup ModulePages)
    BY DEF Exact
  <2>1. UsedBy(Len(layout.mods)) = ModulePages
    BY Layout DEF IInv, UsedBy, ModulePages, Touched
  <2> QED
    BY <2>1 DEF ExactInv, FreeAfterKernel
<1> QED
  BY <1>1, <1>2, <1>3, Invariance, PTL DEF PmmSpec

--------------------------------------------------------------------------------
(* pmm_init comes nearer to its end with every step.                       *)

EndInv ==
  /\ pc = "mmap" => k <= Len(layout.mmap) + 1
  /\ pc = "region" =>
       /\ k <= Len(layout.mmap) /\ layout.mmap[k].type = 1
       /\ end_addr = (layout.mmap[k].base + layout.mmap[k].length) % Span
  /\ pc = "mods" => k <= Len(layout.mods) + 1
  /\ pc = "module" => k <= Len(layout.mods)

\* How many of pmm_init's outer loops are left, how many entries of the present one,
\* and how much of the address space the inner one has left.
Stage ==
  CASE pc \in {"mmap", "region"} -> 3
    [] pc = "kernel"             -> 2
    [] pc \in {"mods", "module"} -> 1
    [] pc = "ready"              -> 0

Entries ==
  CASE pc = "mmap"   -> 2 * (Len(layout.mmap) - k) + 2
    [] pc = "region" -> 2 * (Len(layout.mmap) - k) + 1
    [] pc = "mods"   -> 2 * (Len(layout.mods) - k) + 2
    [] pc = "module" -> 2 * (Len(layout.mods) - k) + 1
    [] pc \in {"kernel", "ready"} -> 0

Bytes == Span - addr

Descends ==
  \/ Stage' < Stage
  \/ Stage' = Stage /\ Entries' < Entries
  \/ Stage' = Stage /\ Entries' = Entries /\ Bytes' < Bytes

\* The truncation of the base does not change where a region ends.
LEMMA SumWraps ==
  ASSUME NEW a \in Nat, NEW b \in Nat, NEW m \in Nat \ {0}
  PROVE  ((a % m) + b) % m = (a + b) % m
<1> DEFINE q == a \div m
           r == a % m
<1>1. q \in Nat /\ r \in Nat /\ a = m * q + r
  BY DivMod
<1> HIDE DEF q, r
<1> DEFINE d == (r + b) \div m
           e == (r + b) % m
<1>2. d \in Nat /\ e \in 0 .. m - 1 /\ r + b = m * d + e
  <2>1. r + b \in Nat
    BY <1>1
  <2> QED
    BY <2>1, DivMod
<1> HIDE DEF d, e
<1>3. a + b = m * (q + d) + e
  BY <1>1, <1>2
<1>4. q + d \in Nat
  BY <1>1, <1>2
<1>5. (m * (q + d) + e) % m = e
  BY <1>2, <1>4, DivUnique
<1> QED
  BY <1>3, <1>5 DEF e, r

LEMMA EndInit == PmmInit => EndInv
BY LayoutsAssumption DEF PmmInit, EndInv

LEMMA EndStep == IInv /\ EndInv /\ [PmmNext]_pmmVars => EndInv'
<1> SUFFICES ASSUME IInv, EndInv, [PmmNext]_pmmVars PROVE EndInv'
  OBVIOUS
<1> USE DEF Goto
<1>0. /\ PmmTypeOK /\ k \in Nat \ {0} /\ Span \in Nat \ {0}
      /\ Len(layout.mmap) \in Nat /\ DOMAIN layout.mmap = 1 .. Len(layout.mmap)
      /\ Len(layout.mods) \in Nat
  BY Layout, Sizes DEF IInv, PmmTypeOK
<1>1. CASE NextRegion
  <2>1. k \in DOMAIN layout.mmap /\ k <= Len(layout.mmap) /\ layout' = layout
    BY <1>0, <1>1 DEF NextRegion
  <2>2. CASE layout.mmap[k].type = 1
    <3>1. /\ pc' = "region" /\ k' = k /\ addr' = layout.mmap[k].base % Span
          /\ end_addr' = (addr' + layout.mmap[k].length) % Span
      BY <1>1, <2>2 DEF NextRegion
    <3>2. layout.mmap[k].base \in Nat /\ layout.mmap[k].length \in Nat
      BY <1>0, <2>1, Layout
    <3>3. end_addr' = (layout.mmap[k].base + layout.mmap[k].length) % Span
      BY <1>0, <3>1, <3>2, SumWraps
    <3> QED
      BY <2>1, <2>2, <3>1, <3>3 DEF EndInv
  <2>3. CASE layout.mmap[k].type # 1
    <3>1. pc' = "mmap" /\ k' = k + 1
      BY <1>1, <2>3 DEF NextRegion
    <3> QED
      BY <1>0, <2>1, <3>1 DEF EndInv
  <2> QED
    BY <2>2, <2>3
<1>2. CASE FreeRegionPage
  BY <1>2 DEF FreeRegionPage, EndInv
<1>3. CASE RegionDone
  BY <1>0, <1>3 DEF RegionDone, EndInv
<1>4. CASE MmapDone \/ ReserveKernelPage \/ InitDone
  BY <1>4 DEF MmapDone, ReserveKernelPage, InitDone, EndInv
<1>5. CASE ReserveInfo
  BY <1>0, <1>5 DEF ReserveInfo, EndInv
<1>6. CASE NextModule
  BY <1>6 DEF NextModule, EndInv
<1>7. CASE ReserveModulePage
  BY <1>7 DEF ReserveModulePage, EndInv
<1>8. CASE ModuleDone
  BY <1>0, <1>8 DEF ModuleDone, EndInv
<1>9. CASE Alloc \/ AllocFails \/ UNCHANGED pmmVars
  BY <1>9 DEF Alloc, AllocFails, pmmVars, initVars, EndInv
<1> QED
  BY <1>1, <1>2, <1>3, <1>4, <1>5, <1>6, <1>7, <1>8, <1>9 DEF PmmNext, InitStep

LEMMA Measure ==
  ASSUME PmmTypeOK, EndInv
  PROVE  Stage \in Nat /\ Entries \in Nat /\ Bytes \in Nat
<1>1. /\ k \in Nat \ {0} /\ addr \in Address /\ Span \in Nat /\ pc \in PC
      /\ Len(layout.mmap) \in Nat /\ Len(layout.mods) \in Nat
  BY Layout, Sizes DEF PmmTypeOK
<1>2. Bytes \in Nat
  BY <1>1 DEF Bytes, Address
<1>3. Stage \in Nat
  BY <1>1 DEF Stage, PC
<1>4. Entries \in Nat
  <2>1. CASE pc = "mmap"
    <3>1. Entries = 2 * (Len(layout.mmap) - k) + 2
      BY <2>1 DEF Entries
    <3>2. k <= Len(layout.mmap) + 1
      BY <2>1 DEF EndInv
    <3> QED
      BY <1>1, <3>1, <3>2
  <2>2. CASE pc = "region"
    <3>1. Entries = 2 * (Len(layout.mmap) - k) + 1
      BY <2>2 DEF Entries
    <3>2. k <= Len(layout.mmap)
      BY <2>2 DEF EndInv
    <3> QED
      BY <1>1, <3>1, <3>2
  <2>3. CASE pc = "mods"
    <3>1. Entries = 2 * (Len(layout.mods) - k) + 2
      BY <2>3 DEF Entries
    <3>2. k <= Len(layout.mods) + 1
      BY <2>3 DEF EndInv
    <3> QED
      BY <1>1, <3>1, <3>2
  <2>4. CASE pc = "module"
    <3>1. Entries = 2 * (Len(layout.mods) - k) + 1
      BY <2>4 DEF Entries
    <3>2. k <= Len(layout.mods)
      BY <2>4 DEF EndInv
    <3> QED
      BY <1>1, <3>1, <3>2
  <2>5. CASE pc = "kernel" \/ pc = "ready"
    BY <2>5 DEF Entries
  <2> QED
    BY <1>1, <2>1, <2>2, <2>3, <2>4, <2>5 DEF PC
<1> QED
  BY <1>2, <1>3, <1>4

\* An inner loop's step does not wrap below an end outside the last page.
LEMMA NoWrapBelow ==
  ASSUME NEW a \in Address, NEW end \in Nat, a < end, end <= Span - PageBytes
  PROVE  Span - ((a + PageBytes) % Span) < Span - a
<1>1. a \in Nat /\ PageBytes \in Nat \ {0} /\ Span \in Nat /\ a + PageBytes < Span
  BY Sizes DEF Address
<1>2. (a + PageBytes) % Span = a + PageBytes
  BY <1>1, NoWrap
<1> QED
  BY <1>1, <1>2

LEMMA DescendsStep ==
  ASSUME IInv, EndInv, ~EndsInLastPage, InitStep
  PROVE  Descends
<1> USE DEF Goto
<1>0. /\ PmmTypeOK /\ k \in Nat \ {0} /\ Span \in Nat \ {0} /\ addr \in Address
      /\ Len(layout.mmap) \in Nat /\ DOMAIN layout.mmap = 1 .. Len(layout.mmap)
      /\ Len(layout.mods) \in Nat /\ DOMAIN layout.mods = 1 .. Len(layout.mods)
      /\ end_addr \in Address
  BY Layout, Sizes DEF IInv, PmmTypeOK
<1>1. CASE NextRegion
  <2>1. /\ pc = "mmap" /\ layout' = layout
        /\ \/ pc' = "region" /\ k' = k
           \/ pc' = "mmap" /\ k' = k + 1
    BY <1>1 DEF NextRegion
  <2>2. CASE pc' = "region" /\ k' = k
    BY <1>0, <2>1, <2>2 DEF Descends, Stage, Entries
  <2>3. CASE pc' = "mmap" /\ k' = k + 1
    BY <1>0, <2>1, <2>3 DEF Descends, Stage, Entries
  <2> QED
    BY <2>1, <2>2, <2>3
<1>2. CASE FreeRegionPage
  <2>1. /\ pc = "region" /\ pc' = "region" /\ layout' = layout /\ k' = k
        /\ addr < end_addr /\ addr' = (addr + PageBytes) % Span
    BY <1>2 DEF FreeRegionPage
  <2>2. end_addr <= Span - PageBytes
    <3>1. /\ k \in DOMAIN layout.mmap /\ layout.mmap[k].type = 1
          /\ end_addr = (layout.mmap[k].base + layout.mmap[k].length) % Span
      BY <1>0, <2>1 DEF EndInv
    <3>2. ~(end_addr > Span - PageBytes)
      BY <3>1 DEF EndsInLastPage
    <3> QED
      BY <1>0, <3>2, Sizes DEF Address
  <2>3. Bytes' < Bytes
    BY <1>0, <2>1, <2>2, NoWrapBelow DEF Bytes, Address
  <2> QED
    BY <2>1, <2>3 DEF Descends, Stage, Entries
<1>3. CASE RegionDone
  <2>1. pc = "region" /\ pc' = "mmap" /\ layout' = layout /\ k' = k + 1
    BY <1>3 DEF RegionDone
  <2> QED
    BY <1>0, <2>1 DEF Descends, Stage, Entries
<1>4. CASE MmapDone
  BY <1>4 DEF MmapDone, Descends, Stage
<1>5. CASE ReserveKernelPage
  <2>1. /\ pc = "kernel" /\ pc' = "kernel" /\ layout' = layout
        /\ addr < layout.kernel_end /\ addr' = (addr + PageBytes) % Span
    BY <1>5 DEF ReserveKernelPage
  <2>2. layout.kernel_end \in Nat /\ layout.kernel_end <= Span - PageBytes
    <3>1. layout.kernel_end \in Address /\ layout.kernel_end % PageBytes = 0
      BY <1>0, LayoutsAssumption DEF PmmTypeOK
    <3>2. layout.kernel_end \in Nat /\ layout.kernel_end < PageBytes * NPages
      BY <3>1, Sizes DEF Address
    <3> DEFINE q == layout.kernel_end \div PageBytes
    <3>3. q \in Nat /\ layout.kernel_end = PageBytes * q
      BY <3>1, <3>2, Sizes, Multiple
    <3>4. q \in 0 .. NPages - 1
      BY <3>2, Sizes, DivBelow
    <3> HIDE DEF q
    <3>5. PageBytes * q + PageBytes <= PageBytes * NPages
      BY <3>3, <3>4, Sizes, Apart
    <3> QED
      BY <3>2, <3>3, <3>5, Sizes
  <2>3. Bytes' < Bytes
    BY <1>0, <2>1, <2>2, NoWrapBelow DEF Bytes
  <2> QED
    BY <2>1, <2>3 DEF Descends, Stage, Entries
<1>6. CASE ReserveInfo
  BY <1>6 DEF ReserveInfo, Descends, Stage
<1>7. CASE NextModule
  <2>1. pc = "mods" /\ pc' = "module" /\ layout' = layout /\ k' = k
    BY <1>7 DEF NextModule
  <2> QED
    BY <1>0, <2>1 DEF Descends, Stage, Entries
<1>8. CASE ReserveModulePage
  <2>1. /\ pc = "module" /\ pc' = "module" /\ layout' = layout /\ k' = k
        /\ addr < layout.mods[k].mod_end /\ addr' = (addr + PageBytes) % Span
    BY <1>8 DEF ReserveModulePage
  <2>2. k \in DOMAIN layout.mods
    BY <1>0, <2>1 DEF EndInv
  <2>3. layout.mods[k].mod_end \in Address
    <3>1. layout.mods \in Seq([mod_start : Address, mod_end : Address])
      BY <1>0, LayoutsAssumption DEF PmmTypeOK
    <3>2. layout.mods[k] \in [mod_start : Address, mod_end : Address]
      BY <2>2, <3>1, Elements
    <3> QED
      BY <3>2
  <2>4. layout.mods[k].mod_end \in Nat /\ layout.mods[k].mod_end <= Span - PageBytes
    <3>1. ~(layout.mods[k].mod_end > Span - PageBytes)
      BY <2>2 DEF EndsInLastPage
    <3> QED
      BY <2>3, <3>1, Sizes DEF Address
  <2>5. Bytes' < Bytes
    BY <1>0, <2>1, <2>4, NoWrapBelow DEF Bytes
  <2> QED
    BY <2>1, <2>5 DEF Descends, Stage, Entries
<1>9. CASE ModuleDone
  <2>1. pc = "module" /\ pc' = "mods" /\ layout' = layout /\ k' = k + 1
    BY <1>9 DEF ModuleDone
  <2> QED
    BY <1>0, <2>1 DEF Descends, Stage, Entries
<1>10. CASE InitDone
  BY <1>10 DEF InitDone, Descends, Stage
<1> QED
  BY <1>1, <1>2, <1>3, <1>4, <1>5, <1>6, <1>7, <1>8, <1>9, <1>10 DEF InitStep

\* Where no region and no module ends in the last page, every step of pmm_init
\* lowers a triple of natural numbers, so that its loops come to an end: what
\* InitEnds says, but for the processor that has to go on.
THEOREM InitDescends ==
  PmmSpec => /\ [](Stage \in Nat /\ Entries \in Nat /\ Bytes \in Nat)
             /\ [][~EndsInLastPage /\ InitStep => Descends]_pmmVars
<1>1. PmmInit => IInv /\ EndInv
  BY InitInv, EndInit
<1>2. IInv /\ EndInv /\ [PmmNext]_pmmVars => IInv' /\ EndInv'
  BY StepInv, EndStep
<1>3. IInv /\ EndInv => Stage \in Nat /\ Entries \in Nat /\ Bytes \in Nat
  BY Measure DEF IInv
<1>4. IInv /\ EndInv /\ [PmmNext]_pmmVars => [~EndsInLastPage /\ InitStep => Descends]_pmmVars
  BY DescendsStep
<1> QED
  BY <1>1, <1>2, <1>3, <1>4, PTL DEF PmmSpec
================================================================================
