-------------------------- MODULE KernelMainProofs --------------------------
(***************************************************************************)
(* Proofs about boot (KernelMain) and about the free region that           *)
(* mmap_initialize makes of the memory map (Mmap), for every word and page *)
(* size and every memory map in which the kernel is loaded; and about the  *)
(* time that read_rtc (Rtc) makes of a clock that goes on.                 *)
(***************************************************************************)
EXTENDS KernelMain, Rtc, SequenceTheorems, TLAPS

-----------------------------------------------------------------------------
(* Arithmetic.                                                             *)

LEMMA DivMod ==
  ASSUME NEW x \in Int, NEW p \in Nat \ {0}
  PROVE  /\ x % p \in 0 .. p - 1 /\ x \div p \in Int
         /\ x = p * (x \div p) + (x % p)
OBVIOUS

LEMMA ModSmall ==
  ASSUME NEW x \in Nat, NEW p \in Nat \ {0}, x < p
  PROVE  x % p = x
OBVIOUS

\* A difference below zero, taken as unsigned.
LEMMA ModWrapped ==
  ASSUME NEW x \in Int, NEW p \in Nat \ {0}, x + p \in Nat, x < 0
  PROVE  x % p = x + p
OBVIOUS

LEMMA ModMultiple ==
  ASSUME NEW x \in Int, NEW p \in Nat \ {0}
  PROVE  (p * x) % p = 0
OBVIOUS

LEMMA ModRest ==
  ASSUME NEW x \in Int, NEW p \in Nat \ {0}
  PROVE  (x - (x % p)) % p = 0
OBVIOUS

LEMMA ModBelow ==
  ASSUME NEW x \in Nat, NEW p \in Nat \ {0}
  PROVE  x % p <= x
OBVIOUS

LEMMA Multiple ==
  ASSUME NEW x \in Int, NEW p \in Nat \ {0}, x % p = 0
  PROVE  x \div p \in Int /\ x = p * (x \div p)
BY DivMod

LEMMA Factor ==
  ASSUME NEW p \in Nat \ {0}, NEW a \in Int, NEW b \in Int, p * a <= p * b
  PROVE  a <= b
<1>1. CASE a >= b + 1
  <2>1. p * a >= p * (b + 1)
    BY <1>1
  <2>2. QED
    BY <2>1
<1>2. QED
  BY <1>1

LEMMA NextMultiple ==
  ASSUME NEW a \in Int, NEW b \in Int, NEW p \in Nat \ {0}, a < b
  PROVE  p * a + p <= p * b
<1>1. b - a - 1 \in Nat
  OBVIOUS
<1>2. (b - a - 1) * p >= 0
  BY <1>1
<1>3. p * b = p * a + p + (b - a - 1) * p
  OBVIOUS
<1>4. QED
  BY <1>2, <1>3

\* Between two multiples of p there is p.
LEMMA NextPage ==
  ASSUME NEW p \in Nat \ {0}, NEW x \in Nat, NEW y \in Nat, x % p = 0, y % p = 0, x < y
  PROVE  x + p <= y
<1> DEFINE a == x \div p
           b == y \div p
<1>1. a \in Int /\ x = p * a /\ b \in Int /\ y = p * b
  BY Multiple
<1> HIDE DEF a, b
<1>2. a < b
  <2> SUFFICES ASSUME b <= a PROVE FALSE
    BY <1>1
  <2>1. CASE b = a
    BY <1>1, <2>1
  <2>2. CASE b < a
    <3>1. p * b + p <= p * a
      BY <1>1, <2>2, NextMultiple
    <3>2. QED
      BY <1>1, <3>1
  <2>3. QED
    BY <1>1, <2>1, <2>2
<1>3. QED
  BY <1>1, <1>2, NextMultiple

\* The blocks of p from lo up to hi.
Blocks(p, W, lo, hi) ==
  UNION {q * p .. q * p + p - 1 :
         q \in {r \in 0 .. W \div p : r * p >= lo /\ r * p + p <= hi}}

Span(F, E) == F .. E - 1

\* They are all there is from one multiple of p up to another.
LEMMA WholeBlocks ==
  ASSUME NEW p \in Nat \ {0}, NEW W \in Nat, NEW lo \in Nat, NEW hi \in Nat,
         NEW F \in Nat, NEW E \in Nat, F % p = 0, E % p = 0,
         F >= lo, F < lo + p, E <= hi, hi < E + p, hi <= W, W % p = 0
  PROVE  Span(F, E) = Blocks(p, W, lo, hi)
<1> DEFINE a == F \div p
           b == E \div p
           Numbers == {r \in 0 .. W \div p : r * p >= lo /\ r * p + p <= hi}
<1>1. a \in Int /\ F = p * a /\ b \in Int /\ E = p * b
  BY Multiple
<1>2. W \div p \in Int /\ W = p * (W \div p)
  BY Multiple
<1> HIDE DEF a, b
<1>3. ASSUME NEW x \in F .. E - 1
      PROVE  \E q \in Numbers : x \in q * p .. q * p + p - 1
  <2> DEFINE q == x \div p
  <2>1. x \in Nat /\ x >= F /\ x < E
    BY <1>3
  <2>2. q \in Int /\ x = p * q + (x % p) /\ x % p \in 0 .. p - 1
    BY <2>1, DivMod
  <2> DEFINE m == x % p
  <2> HIDE DEF q, m
  <2>3. m \in Int /\ m >= 0 /\ m < p /\ x = p * q + m
    BY <2>2 DEF m
  <2>4. q >= a
    <3> SUFFICES ASSUME q < a PROVE FALSE
      BY <1>1, <2>2
    <3>1. p * q + p <= p * a
      BY <1>1, <2>2, NextMultiple
    <3>2. p * q \in Int
      BY <2>2
    <3>3. QED
      BY <1>1, <2>1, <2>3, <3>1, <3>2
  <2>5. q < b
    <3> SUFFICES ASSUME b < q \/ b = q PROVE FALSE
      BY <1>1, <2>2
    <3>1. p * b <= p * q
      BY <1>1, <2>2, NextMultiple
    <3>2. p * q \in Int /\ p * b \in Int
      BY <1>1, <2>2
    <3>3. QED
      BY <1>1, <2>1, <2>3, <3>1, <3>2
  <2>6. p * a <= p * q
    BY <1>1, <2>2, <2>4, NextMultiple
  <2>7. p * q + p <= p * b
    BY <1>1, <2>2, <2>5, NextMultiple
  <2>8. q * p = p * q /\ q * p \in Int
    BY <2>2
  <2>9. q * p >= lo /\ q * p + p <= hi
    BY <1>1, <2>6, <2>7, <2>8
  <2>10. q >= 0
    <3> SUFFICES ASSUME q < 0 PROVE FALSE
      BY <2>2
    <3>1. p * q + p <= p * 0
      BY <2>2, NextMultiple
    <3>2. QED
      BY <2>8, <2>9, <3>1
  <2>11. q <= W \div p
    <3> DEFINE w == W \div p
    <3> HIDE DEF w
    <3> SUFFICES ASSUME w < q PROVE FALSE
      BY <1>2, <2>2 DEF w
    <3>1. w \in Int /\ W = p * w
      BY <1>2 DEF w
    <3>2. p * w + p <= p * q
      BY <2>2, <3>1, NextMultiple
    <3>3. QED
      BY <2>8, <2>9, <3>1, <3>2
  <2>12. q \in Numbers
    BY <1>2, <2>2, <2>9, <2>10, <2>11
  <2>13. x \in q * p .. q * p + p - 1
    BY <2>1, <2>3, <2>8
  <2>14. QED
    BY <2>12, <2>13
<1>4. ASSUME NEW q \in Numbers, NEW x \in q * p .. q * p + p - 1
      PROVE  x \in F .. E - 1
  <2>1. q \in Int /\ q * p \in Int /\ q * p = p * q /\ q * p >= lo /\ q * p + p <= hi
    BY <1>2
  <2>2. q >= a
    <3> SUFFICES ASSUME q < a PROVE FALSE
      BY <1>1, <2>1
    <3>1. p * q + p <= p * a
      BY <1>1, <2>1, NextMultiple
    <3>2. QED
      BY <1>1, <2>1, <3>1
  <2>3. q < b
    <3> SUFFICES ASSUME b < q \/ b = q PROVE FALSE
      BY <1>1, <2>1
    <3>1. p * b <= p * q
      BY <1>1, <2>1, NextMultiple
    <3>2. QED
      BY <1>1, <2>1, <3>1
  <2>4. p * a <= p * q
    BY <1>1, <2>1, <2>2, NextMultiple
  <2>5. p * q + p <= p * b
    BY <1>1, <2>1, <2>3, NextMultiple
  <2>6. QED
    BY <1>1, <1>4, <2>1, <2>4, <2>5
<1>5. QED
  BY <1>3, <1>4 DEF Blocks, Span

-----------------------------------------------------------------------------
(* The free region of mmap_initialize, step by step.                       *)

\* The longest available areas are not among those beyond 4 GiB, of whose
\* addresses the code keeps the low word (run MmapHigh).
LongestBelow == \A n \in Available(mmap) : Longest(mmap, n) => mmap[n].addr < WORD

\* And all of them have past the kernel what a region can be made of.
LongestReach == \A n \in Available(mmap) : Longest(mmap, n) => Reaches(n)

MapSound ==
  /\ mmap \in Seq(Area)
  /\ mmap = <<>> \/ Loaded(mmap)
  /\ i \in Nat \ {0}
  /\ mmap_free_memory \in Nat /\ mmap_free_memory_length \in Nat
  /\ at \in {"check", "aborted", "scan", "start", "length", "done"}

\* The longest of the areas looked at, or none of them was available.
Scanned ==
  /\ at = "check" => i = 1 /\ mmap_free_memory_length = 0
  /\ at \notin {"check", "aborted"} => mmap # <<>>
  /\ at \in {"check", "scan"} =>
       /\ \A n \in Available(mmap) : n < i => mmap[n].len <= mmap_free_memory_length
       /\ \/ mmap_free_memory_length = 0
          \/ \E n \in Available(mmap) : /\ mmap_free_memory = addr_low(mmap[n])
                                        /\ mmap_free_memory_length = mmap[n].len

\* The region goes to the end of area n, or the unsigned length has wrapped.
Remains(n) ==
  mmap_free_memory + mmap_free_memory_length
    = IF End(n) >= mmap_free_memory THEN End(n) ELSE End(n) + UINT64

\* What is left of area n at each step.
LeftOf(n) ==
  /\ at = "start"  => mmap_free_memory = Start(n)
  /\ at \in {"start", "length"} => Remains(n)
  /\ at \in {"length", "done"} => /\ mmap_free_memory % PAGE_SIZE = 0
                                  /\ mmap_free_memory >= Start(n)
                                  /\ mmap_free_memory < Start(n) + PAGE_SIZE
                                  /\ mmap_free_memory < WORD
  /\ at = "done"   =>
       /\ mmap_free_memory_length % PAGE_SIZE = 0
       /\ IF End(n) >= mmap_free_memory
          THEN /\ mmap_free_memory + mmap_free_memory_length <= End(n)
               /\ End(n) < mmap_free_memory + mmap_free_memory_length + PAGE_SIZE
          ELSE mmap_free_memory_length >= UINT64 - WORD

Narrowed ==
  at \in {"start", "length", "done"} =>
    \E n \in Available(mmap) : Longest(mmap, n) /\ LeftOf(n)

MmapInv == MapSound /\ Scanned /\ (LongestBelow => Narrowed)

LEMMA Words ==
  /\ WORD \in Nat /\ WORD > 1 /\ PAGE_SIZE \in Nat /\ PAGE_SIZE > 0 /\ WORD % PAGE_SIZE = 0
  /\ WORD \in Int /\ PAGE_SIZE \in Int /\ WORD \in Nat \ {0} /\ PAGE_SIZE \in Nat \ {0}
  /\ KernelEnd \in Nat /\ KernelEnd + PAGE_SIZE <= WORD
  /\ UINT64 \in Nat \ {0} /\ UINT64 > WORD
<1>1. WORD \in Nat /\ WORD > 1
  BY WordAssumption
<1>2. WORD * WORD > WORD /\ WORD * WORD \in Nat
  <2>1. (WORD - 1) * WORD > 0
    BY <1>1
  <2>2. WORD * WORD = (WORD - 1) * WORD + WORD
    BY <1>1
  <2>3. QED
    BY <1>1, <2>1, <2>2
<1>3. QED
  BY <1>1, <1>2, WordAssumption DEF UINT64

LEMMA Areas ==
  ASSUME NEW a \in Area
  PROVE  a.addr \in Nat /\ a.len \in Nat /\ a.len > 0
         /\ (a.addr + a.len <= WORD \/ a.addr >= WORD)
<1>1. a \in [addr : Starts, len : Lengths, available : BOOLEAN]
      /\ (a.addr + a.len <= WORD \/ a.addr >= WORD)
  BY DEF Area
<1>2. a.addr \in Starts /\ a.len \in Lengths
  BY <1>1
<1>3. a.addr \in Nat /\ a.len \in Nat \ {0}
  BY <1>2, MapAssumption
<1>4. QED
  BY <1>1, <1>3

LEMMA Mapped ==
  ASSUME MapSound, NEW n \in DOMAIN mmap
  PROVE  /\ n \in 1 .. Len(mmap) /\ n \in Nat /\ Len(mmap) \in Nat
         /\ mmap[n].addr \in Nat /\ mmap[n].len \in Nat /\ mmap[n].len > 0
         /\ mmap[n].addr + mmap[n].len <= WORD \/ mmap[n].addr >= WORD
         /\ Start(n) \in Nat /\ End(n) \in Nat
<1>1. n \in 1 .. Len(mmap) /\ Len(mmap) \in Nat /\ mmap[n] \in Area
  BY DEF MapSound
<1>2. QED
  BY <1>1, Areas, Words DEF Start, End

\* The longest areas are at least a page, since the kernel's last page is in one:
\* below 4 GiB they begin a page before its end, if not earlier.
LEMMA LongestHolds ==
  ASSUME MapSound, mmap # <<>>, LongestBelow,
         NEW n \in Available(mmap), Longest(mmap, n)
  PROVE  /\ n \in DOMAIN mmap /\ mmap[n].addr \in Nat /\ mmap[n].len \in Nat
         /\ mmap[n].addr < WORD /\ mmap[n].addr + mmap[n].len <= WORD
         /\ Start(n) \in Nat /\ End(n) \in Nat
         /\ Start(n) + PAGE_SIZE <= WORD /\ End(n) <= WORD
<1>1. n \in DOMAIN mmap /\ mmap[n].addr < WORD
  BY DEF Available, LongestBelow
<1>2. /\ mmap[n].addr \in Nat /\ mmap[n].len \in Nat
      /\ mmap[n].addr + mmap[n].len <= WORD \/ mmap[n].addr >= WORD
      /\ Start(n) \in Nat /\ End(n) \in Nat
  BY <1>1, Mapped
<1>3. PICK m \in Available(mmap) : /\ mmap[m].addr + PAGE_SIZE <= KernelEnd
                                   /\ KernelEnd <= mmap[m].addr + mmap[m].len
  BY DEF MapSound, Loaded
<1>4. m \in DOMAIN mmap
  BY DEF Available
<1>5. mmap[m].addr \in Nat /\ mmap[m].len \in Nat
  BY <1>4, Mapped
<1>6. mmap[m].len >= PAGE_SIZE
  BY <1>3, <1>5, Words
<1>7. mmap[n].len >= mmap[m].len
  BY DEF Longest
<1>8. mmap[n].addr + mmap[n].len <= WORD /\ mmap[n].addr + PAGE_SIZE <= WORD
  BY <1>1, <1>2, <1>5, <1>6, <1>7, Words
<1>9. Start(n) + PAGE_SIZE <= WORD
  BY <1>2, <1>8, Words DEF Start
<1>10. End(n) <= WORD
  BY <1>8 DEF End
<1>11. QED
  BY <1>1, <1>2, <1>8, <1>9, <1>10

LEMMA MmapInit == Init => MmapInv
<1> SUFFICES ASSUME Init PROVE MmapInv
  OBVIOUS
<1>1. PICK n \in 0 .. MaxAreas : mmap \in [1 .. n -> Area]
  BY DEF Init
<1>2. n \in Nat
  BY MapAssumption
<1>3. mmap \in Seq(Area)
  BY <1>1, <1>2, IsASeq
<1>4. QED
  BY <1>3 DEF Init, MmapInv, MapSound, Scanned, Narrowed, Available

LEMMA CheckInv ==
  ASSUME MmapInv, Check
  PROVE  MmapInv'
<1>1. /\ at = "check" /\ at' \in {"scan", "aborted"} /\ (at' = "scan" => mmap # <<>>)
      /\ UNCHANGED <<mmap, flagged, i, mmap_free_memory, mmap_free_memory_length>>
  BY DEF Check
<1>2. MapSound'
  BY <1>1 DEF MmapInv, MapSound, Loaded, Available, Longest, Disjoint
<1>3. Scanned'
  BY <1>1 DEF MmapInv, Scanned, Available, addr_low
<1>4. Narrowed'
  BY <1>1 DEF Narrowed
<1>5. QED
  BY <1>2, <1>3, <1>4 DEF MmapInv

LEMMA ScanInv ==
  ASSUME MmapInv, Scan
  PROVE  MmapInv'
<1>1. /\ at = "scan" /\ at' = "scan" /\ i \in Nat /\ i \in DOMAIN mmap /\ i' = i + 1
      /\ mmap' = mmap /\ mmap \in Seq(Area) /\ mmap # <<>>
      /\ mmap_free_memory \in Nat /\ mmap_free_memory_length \in Nat
  BY DEF Scan, MmapInv, MapSound, Scanned, NextArea
<1>2. /\ Better(mmap[i]) => mmap_free_memory' = addr_low(mmap[i])
                           /\ mmap_free_memory_length' = mmap[i].len
      /\ ~Better(mmap[i]) => UNCHANGED <<mmap_free_memory, mmap_free_memory_length>>
  BY DEF Scan
<1>3. /\ mmap[i].addr \in Nat /\ mmap[i].len \in Nat
      /\ \A n \in DOMAIN mmap : n \in Nat /\ mmap[n].len \in Nat
  BY <1>1, Mapped DEF MmapInv
<1>4. addr_low(mmap[i]) \in Nat
  BY <1>3, Words DEF addr_low
<1>5. MapSound'
  BY <1>1, <1>2, <1>3, <1>4 DEF MmapInv, MapSound, Loaded, Available, Longest, Disjoint
<1>6. Available(mmap) \subseteq DOMAIN mmap
      /\ (i \in Available(mmap) <=> mmap[i].available)
  BY <1>1 DEF Available
<1>7. \A n \in Available(mmap) : n < i' => mmap[n].len <= mmap_free_memory_length'
  <2> SUFFICES ASSUME NEW n \in Available(mmap), n < i'
               PROVE  mmap[n].len <= mmap_free_memory_length'
    OBVIOUS
  <2>1. n \in Nat /\ mmap[n].len \in Nat
    BY <1>3, <1>6
  <2>2. n < i => mmap[n].len <= mmap_free_memory_length
    BY <1>1 DEF MmapInv, Scanned
  <2>3. mmap_free_memory_length <= mmap_free_memory_length'
    BY <1>1, <1>2, <1>3 DEF Better
  <2>4. n = i => mmap[n].len <= mmap_free_memory_length'
    BY <1>1, <1>2, <1>3, <1>6 DEF Better
  <2>5. mmap_free_memory_length' \in Nat
    BY <1>1, <1>2, <1>3
  <2>6. QED
    BY <1>1, <2>1, <2>2, <2>3, <2>4, <2>5
<1>8. \/ mmap_free_memory_length' = 0
      \/ \E n \in Available(mmap) : /\ mmap_free_memory' = addr_low(mmap[n])
                                   /\ mmap_free_memory_length' = mmap[n].len
  <2>1. CASE Better(mmap[i])
    BY <1>2, <1>6, <2>1 DEF Better
  <2>2. CASE ~Better(mmap[i])
    BY <1>1, <1>2, <2>2 DEF MmapInv, Scanned
  <2>3. QED
    BY <2>1, <2>2
<1>9. Scanned'
  BY <1>1, <1>7, <1>8 DEF Scanned, Available, addr_low
<1>10. Narrowed'
  BY <1>1 DEF Narrowed
<1>11. QED
  BY <1>5, <1>9, <1>10 DEF MmapInv

\* MoveTo keeps the end of the region, and what of it is before p wraps.
LEMMA Moved ==
  ASSUME NEW p \in Nat, p < WORD, p >= mmap_free_memory,
         NEW n, End(n) \in Nat, End(n) <= WORD, Remains(n),
         mmap_free_memory \in Nat, mmap_free_memory_length \in Nat,
         MoveTo(p)
  PROVE  /\ mmap_free_memory' = p
         /\ mmap_free_memory' + mmap_free_memory_length'
              = IF End(n) >= p THEN End(n) ELSE End(n) + UINT64
<1> DEFINE d == p - mmap_free_memory
           l == mmap_free_memory_length - d
           e == End(n)
<1>1. p % WORD = p
  BY Words, ModSmall
<1>2. d \in Nat /\ d < WORD
  BY Words
<1>3. d % WORD = d
  BY <1>2, Words, ModSmall
<1>4. mmap_free_memory' = p /\ mmap_free_memory_length' = l % UINT64
  BY <1>1, <1>3 DEF MoveTo
<1>5. /\ e \in Nat /\ e <= WORD /\ l \in Int
      /\ l = IF e >= mmap_free_memory THEN e - p ELSE e + UINT64 - p
  BY <1>2, Words DEF Remains
<1> HIDE DEF d, l, e
<1>6. CASE e >= p
  <2>1. l = e - p /\ l \in Nat /\ l < UINT64
    BY <1>5, <1>6, Words
  <2>2. l % UINT64 = l
    BY <2>1, Words, ModSmall
  <2>3. QED
    BY <1>4, <1>5, <1>6, <2>1, <2>2 DEF e
<1>7. CASE e < p
  <2>1. e - p + UINT64 \in Nat /\ e - p + UINT64 < UINT64
    BY <1>5, <1>7, Words
  <2>2. l % UINT64 = e - p + UINT64
    <3>1. CASE l = e + UINT64 - p
      <4>1. l = e - p + UINT64
        BY <1>5, <3>1, Words
      <4>2. QED
        BY <2>1, <4>1, Words, ModSmall
    <3>2. CASE l = e - p
      <4>1. l \in Int /\ l < 0 /\ l + UINT64 = e - p + UINT64 /\ l + UINT64 \in Nat
        BY <1>5, <1>7, <2>1, <3>2, Words
      <4>2. l % UINT64 = l + UINT64
        BY <4>1, Words, ModWrapped
      <4>3. QED
        BY <4>1, <4>2
    <3>3. QED
      BY <1>5, <3>1, <3>2
  <2>3. e - p + UINT64 + p = e + UINT64 /\ ~(e >= p)
    BY <1>5, <1>7, Words
  <2>4. QED
    BY <1>4, <1>5, <1>7, <2>1, <2>2, <2>3 DEF e
<1>8. QED
  BY <1>5, <1>6, <1>7

\* MoveTo in any case.
LEMMA MoveToSound ==
  ASSUME NEW p \in Nat, MapSound, MoveTo(p)
  PROVE  mmap_free_memory' \in Nat /\ mmap_free_memory_length' \in Nat
<1> DEFINE d == (p - mmap_free_memory) % WORD
<1>1. d \in Int
  BY Words DEF MapSound
<1>2. mmap_free_memory_length - d \in Int
  BY <1>1 DEF MapSound
<1>3. (mmap_free_memory_length - d) % UINT64 \in Nat
  <2> DEFINE l == mmap_free_memory_length - d
  <2>1. l \in Int
    BY <1>2
  <2> HIDE DEF l
  <2>2. l % UINT64 \in 0 .. UINT64 - 1
    BY <2>1, Words, DivMod
  <2>3. QED
    BY <2>2, Words DEF l
<1>4. p % WORD \in Nat
  BY Words
<1>5. QED
  BY <1>3, <1>4 DEF MoveTo

\* The map does not change.
LEMMA SameMap ==
  ASSUME UNCHANGED mmap
  PROVE  /\ Available(mmap)' = Available(mmap)
         /\ \A n : Longest(mmap, n)' <=> Longest(mmap, n)
         /\ LongestBelow' <=> LongestBelow
         /\ \A n : Start(n)' = Start(n) /\ End(n)' = End(n)
         /\ \A n : Reaches(n)' <=> Reaches(n)
         /\ LongestReach' <=> LongestReach
         /\ Loaded(mmap)' <=> Loaded(mmap)
BY DEF Available, Longest, LongestBelow, LongestReach, Reaches, Start, End, Loaded,
       Disjoint

LEMMA AvoidKernelInv ==
  ASSUME MmapInv, AvoidKernel
  PROVE  MmapInv'
<1>1. /\ at = "scan" /\ at' = "start" /\ i > Len(mmap) /\ UNCHANGED <<mmap, flagged, i>>
      /\ OverlapsKernel => MoveTo(KernelEnd)
      /\ ~OverlapsKernel => UNCHANGED <<mmap_free_memory, mmap_free_memory_length>>
      /\ mmap # <<>> /\ MapSound /\ mmap \in Seq(Area) /\ i \in Nat
      /\ mmap_free_memory \in Nat /\ mmap_free_memory_length \in Nat
  BY DEF AvoidKernel, MmapInv, MapSound, Scanned
<1>2. mmap_free_memory' \in Nat /\ mmap_free_memory_length' \in Nat
  BY <1>1, MoveToSound, Words
<1>3. MapSound'
  BY <1>1, <1>2, SameMap DEF MapSound
<1>4. Scanned'
  BY <1>1 DEF Scanned
<1>5. ASSUME LongestBelow
      PROVE  Narrowed'
  <2>1. Loaded(mmap)
    BY <1>1 DEF MapSound
  <2>2. \A n \in Available(mmap) :
          /\ n \in DOMAIN mmap /\ n < i
          /\ mmap[n].len \in Nat /\ mmap[n].len > 0
          /\ mmap[n].len <= mmap_free_memory_length
    <3> SUFFICES ASSUME NEW n \in Available(mmap)
                 PROVE  /\ n \in DOMAIN mmap /\ n < i
                        /\ mmap[n].len \in Nat /\ mmap[n].len > 0
                        /\ mmap[n].len <= mmap_free_memory_length
      OBVIOUS
    <3>1. n \in DOMAIN mmap
      BY DEF Available
    <3>2. n \in 1 .. Len(mmap) /\ mmap[n].len \in Nat /\ mmap[n].len > 0 /\ Len(mmap) \in Nat
      BY <1>1, <3>1, Mapped
    <3>3. n < i
      BY <1>1, <3>2
    <3>4. QED
      BY <1>1, <3>1, <3>2, <3>3 DEF MmapInv, Scanned
  <2>3. mmap_free_memory_length # 0
    <3>1. PICK n \in Available(mmap) : TRUE
      BY <2>1 DEF Loaded
    <3>2. QED
      BY <1>1, <2>2, <3>1
  <2>4. PICK n \in Available(mmap) : /\ mmap_free_memory = addr_low(mmap[n])
                                    /\ mmap_free_memory_length = mmap[n].len
    BY <1>1, <2>3 DEF MmapInv, Scanned
  <2>5. Longest(mmap, n)
    BY <2>2, <2>4 DEF Longest
  <2>6. /\ n \in DOMAIN mmap /\ mmap[n].addr \in Nat /\ mmap[n].len \in Nat
        /\ mmap[n].addr < WORD /\ End(n) \in Nat /\ End(n) <= WORD
    BY <1>1, <1>5, <2>5, LongestHolds
  <2>7. mmap_free_memory = mmap[n].addr
    BY <2>4, <2>6, Words, ModSmall DEF addr_low
  <2>8. Remains(n)
    BY <2>4, <2>6, <2>7 DEF Remains, End
  <2>9. OverlapsKernel <=> mmap_free_memory < KernelEnd
    <3>1. (mmap_free_memory + mmap_free_memory_length) % WORD >= 0
      <4>1. mmap_free_memory + mmap_free_memory_length \in Int
        BY <1>1
      <4>2. QED
        BY <4>1, Words, DivMod
    <3>2. QED
      BY <3>1 DEF OverlapsKernel, _kernel_start
  <2>10. mmap_free_memory' = Start(n) /\ Remains(n)'
    <3>1. CASE mmap_free_memory < KernelEnd
      <4>1. MoveTo(KernelEnd) /\ KernelEnd \in Nat /\ KernelEnd < WORD
            /\ KernelEnd >= mmap_free_memory
        BY <1>1, <2>9, <3>1, Words
      <4>2. /\ mmap_free_memory' = KernelEnd
            /\ mmap_free_memory' + mmap_free_memory_length'
                 = IF End(n) >= KernelEnd THEN End(n) ELSE End(n) + UINT64
        BY <1>1, <2>6, <2>8, <4>1, Moved
      <4>3. Start(n) = KernelEnd
        BY <2>7, <3>1 DEF Start
      <4>4. QED
        BY <1>1, <4>2, <4>3, SameMap DEF Remains
    <3>2. CASE ~(mmap_free_memory < KernelEnd)
      <4>1. UNCHANGED <<mmap_free_memory, mmap_free_memory_length>>
        BY <1>1, <2>9, <3>2
      <4>2. Start(n) = mmap_free_memory
        BY <2>7, <3>2 DEF Start
      <4>3. QED
        BY <1>1, <2>8, <4>1, <4>2, SameMap DEF Remains
    <3>3. QED
      BY <3>1, <3>2
  <2>11. LeftOf(n)'
    BY <1>1, <2>10, SameMap DEF LeftOf
  <2>12. QED
    BY <1>1, <2>5, <2>11, SameMap DEF Narrowed
<1>6. QED
  BY <1>1, <1>3, <1>4, <1>5, SameMap DEF MmapInv

\* Where AlignStart goes.
LEMMA Aligned ==
  ASSUME MapSound
  PROVE  /\ AlignedStart \in Nat /\ AlignedStart % PAGE_SIZE = 0
         /\ AlignedStart >= mmap_free_memory
         /\ AlignedStart < mmap_free_memory + PAGE_SIZE
<1> DEFINE x == mmap_free_memory
           r == x % PAGE_SIZE
           q == x \div PAGE_SIZE
<1>1. x \in Nat /\ PAGE_SIZE \in Nat \ {0}
  BY Words DEF MapSound
<1>2. r \in 0 .. PAGE_SIZE - 1 /\ q \in Int /\ x = PAGE_SIZE * q + r
  BY <1>1, DivMod
<1>3. AlignedStart = IF r = 0 THEN x ELSE x + (PAGE_SIZE - r)
  BY DEF AlignedStart
<1> HIDE DEF r, q
<1>4. r # 0 => x + (PAGE_SIZE - r) = PAGE_SIZE * (q + 1)
  BY <1>1, <1>2
<1>5. r # 0 => (x + (PAGE_SIZE - r)) % PAGE_SIZE = 0
  <2>1. (PAGE_SIZE * (q + 1)) % PAGE_SIZE = 0
    BY <1>1, <1>2, ModMultiple
  <2>2. QED
    BY <1>4, <2>1
<1>6. r = 0 => x % PAGE_SIZE = 0
  BY DEF r
<1>7. AlignedStart % PAGE_SIZE = 0
  BY <1>3, <1>5, <1>6
<1> HIDE DEF x
<1>8. AlignedStart \in Nat /\ AlignedStart >= x /\ AlignedStart < x + PAGE_SIZE
  BY <1>1, <1>2, <1>3
<1>9. QED
  BY <1>7, <1>8 DEF x

LEMMA AlignStartInv ==
  ASSUME MmapInv, AlignStart
  PROVE  MmapInv'
<1>1. /\ at = "start" /\ at' = "length" /\ UNCHANGED <<mmap, flagged, i>>
      /\ MoveTo(AlignedStart) /\ MapSound
      /\ mmap_free_memory \in Nat /\ mmap_free_memory_length \in Nat
      /\ mmap # <<>>
  BY DEF AlignStart, MmapInv, MapSound, Scanned
<1>2. /\ AlignedStart \in Nat /\ AlignedStart % PAGE_SIZE = 0
      /\ AlignedStart >= mmap_free_memory
      /\ AlignedStart < mmap_free_memory + PAGE_SIZE
  BY <1>1, Aligned
<1>3. mmap_free_memory' \in Nat /\ mmap_free_memory_length' \in Nat
  BY <1>1, <1>2, MoveToSound
<1>4. MapSound'
  BY <1>1, <1>3, SameMap DEF MapSound
<1>5. Scanned'
  BY <1>1 DEF Scanned
<1>6. ASSUME LongestBelow
      PROVE  Narrowed'
  <2>1. PICK n \in Available(mmap) : Longest(mmap, n) /\ LeftOf(n)
    BY <1>1, <1>6 DEF MmapInv, Narrowed
  <2>2. mmap_free_memory = Start(n) /\ Remains(n)
    BY <1>1, <2>1 DEF LeftOf
  <2>3. /\ End(n) \in Nat /\ End(n) <= WORD /\ Start(n) \in Nat
        /\ Start(n) + PAGE_SIZE <= WORD
    BY <1>1, <1>6, <2>1, LongestHolds
  <2>4. AlignedStart < WORD
    BY <1>2, <2>2, <2>3, Words
  <2>5. /\ mmap_free_memory' = AlignedStart
        /\ mmap_free_memory' + mmap_free_memory_length'
             = IF End(n) >= AlignedStart THEN End(n) ELSE End(n) + UINT64
    BY <1>1, <1>2, <2>2, <2>3, <2>4, Moved
  <2>6. Remains(n)'
    BY <1>1, <2>5, SameMap DEF Remains
  <2>7. LeftOf(n)'
    BY <1>1, <1>2, <2>2, <2>4, <2>5, <2>6, SameMap DEF LeftOf
  <2>8. QED
    BY <1>1, <2>1, <2>7, SameMap DEF Narrowed
<1>7. QED
  BY <1>1, <1>4, <1>5, <1>6, SameMap DEF MmapInv

LEMMA AlignLengthInv ==
  ASSUME MmapInv, AlignLength
  PROVE  MmapInv'
<1>1. /\ at = "length" /\ at' = "done" /\ UNCHANGED <<mmap, flagged, i, mmap_free_memory>>
      /\ mmap_free_memory_length' = AlignedLength /\ MapSound
      /\ mmap_free_memory \in Nat /\ mmap_free_memory_length \in Nat
      /\ mmap # <<>>
  BY DEF AlignLength, MmapInv, MapSound, Scanned
<1> DEFINE l == mmap_free_memory_length
           r == l % PAGE_SIZE
<1>2. r \in 0 .. PAGE_SIZE - 1
  BY <1>1, Words, DivMod
<1>3. AlignedLength = l - r /\ (l - r) % PAGE_SIZE = 0
  BY <1>1, Words, ModRest DEF AlignedLength
<1> HIDE DEF r
<1>4. r \in Nat /\ r < PAGE_SIZE
  BY <1>2, Words
<1>5. r <= l
  BY <1>1, Words, ModBelow DEF r
<1>6. AlignedLength \in Nat
  BY <1>1, <1>3, <1>4, <1>5
<1>7. MapSound'
  BY <1>1, <1>6, SameMap DEF MapSound
<1>8. Scanned'
  BY <1>1 DEF Scanned
<1>9. ASSUME LongestBelow
      PROVE  Narrowed'
  <2>1. PICK n \in Available(mmap) : Longest(mmap, n) /\ LeftOf(n)
    BY <1>1, <1>9 DEF MmapInv, Narrowed
  <2>2. /\ mmap_free_memory % PAGE_SIZE = 0 /\ mmap_free_memory >= Start(n)
        /\ mmap_free_memory < Start(n) + PAGE_SIZE /\ mmap_free_memory < WORD
        /\ Remains(n)
    BY <1>1, <2>1 DEF LeftOf
  <2>3. End(n) \in Nat
    BY <1>1, <1>9, <2>1, LongestHolds
  <2>4. mmap_free_memory_length' = l - r
    BY <1>1, <1>3
  <2>5. mmap_free_memory_length' % PAGE_SIZE = 0
    BY <1>1, <1>3
  <2>6. ASSUME End(n) >= mmap_free_memory
        PROVE  LeftOf(n)'
    <3>1. /\ mmap_free_memory + mmap_free_memory_length' <= End(n)
          /\ End(n) < mmap_free_memory + mmap_free_memory_length' + PAGE_SIZE
      BY <1>1, <1>4, <2>2, <2>3, <2>4, <2>6, Words DEF Remains
    <3>2. QED
      BY <1>1, <2>2, <2>5, <2>6, <3>1, SameMap DEF LeftOf
  <2>7. ASSUME ~(End(n) >= mmap_free_memory)
        PROVE  LeftOf(n)'
    <3>1. mmap_free_memory + PAGE_SIZE <= WORD
      BY <1>1, <2>2, Words, NextPage
    <3>2. mmap_free_memory_length' >= UINT64 - WORD
      BY <1>1, <1>4, <2>2, <2>3, <2>4, <2>7, <3>1, Words DEF Remains
    <3>3. QED
      BY <1>1, <2>2, <2>5, <2>7, <3>2, SameMap DEF LeftOf
  <2>8. LeftOf(n)'
    BY <2>6, <2>7
  <2>9. QED
    BY <1>1, <2>1, <2>8, SameMap DEF Narrowed
<1>10. QED
  BY <1>1, <1>7, <1>8, <1>9, SameMap DEF MmapInv

LEMMA MmapStutter ==
  ASSUME MmapInv, UNCHANGED vars
  PROVE  MmapInv'
<1>1. UNCHANGED <<mmap, flagged, i, mmap_free_memory, mmap_free_memory_length, at>>
  BY DEF vars
<1>2. MapSound' /\ Scanned'
  BY <1>1, SameMap DEF MmapInv, MapSound, Scanned, addr_low
<1>3. LongestBelow' => Narrowed'
  BY <1>1, SameMap DEF MmapInv, Narrowed, LeftOf, Remains
<1>4. QED
  BY <1>2, <1>3 DEF MmapInv

LEMMA MmapNext ==
  ASSUME MmapInv, Next \/ UNCHANGED vars
  PROVE  MmapInv' /\ UNCHANGED mmap
<1>1. CASE Check
  BY <1>1, CheckInv DEF Check
<1>2. CASE Scan
  BY <1>2, ScanInv DEF Scan
<1>3. CASE AvoidKernel
  BY <1>3, AvoidKernelInv DEF AvoidKernel
<1>4. CASE AlignStart
  BY <1>4, AlignStartInv DEF AlignStart
<1>5. CASE AlignLength
  BY <1>5, AlignLengthInv DEF AlignLength
<1>6. CASE UNCHANGED vars
  BY <1>6, MmapStutter DEF vars
<1>7. QED
  BY <1>1, <1>2, <1>3, <1>4, <1>5, <1>6 DEF Next

\* A page begins past the kernel just when the region is not past the end.
LEMMA ReachesAt ==
  ASSUME MmapInv, LongestBelow, at = "done",
         NEW n \in Available(mmap), Longest(mmap, n), LeftOf(n)
  PROVE  Reaches(n) <=> End(n) >= mmap_free_memory
<1>1. /\ mmap_free_memory \in Nat /\ mmap_free_memory % PAGE_SIZE = 0
      /\ mmap_free_memory >= Start(n) /\ mmap_free_memory < Start(n) + PAGE_SIZE
  BY DEF MmapInv, MapSound, LeftOf
<1>2. Start(n) \in Nat /\ End(n) \in Nat
  BY LongestHolds DEF MmapInv, Scanned
<1>3. ASSUME End(n) >= mmap_free_memory
      PROVE  Reaches(n)
  BY <1>1, <1>2, <1>3 DEF Reaches
<1>4. ASSUME NEW p \in Start(n) .. End(n), p % PAGE_SIZE = 0
      PROVE  End(n) >= mmap_free_memory
  <2>1. p \in Nat /\ p >= Start(n) /\ p <= End(n)
    BY <1>2
  <2>2. p < mmap_free_memory => p + PAGE_SIZE <= mmap_free_memory
    BY <1>1, <1>4, <2>1, Words, NextPage
  <2>3. QED
    BY <1>1, <1>2, <2>1, <2>2, Words
<1>5. QED
  BY <1>3, <1>4 DEF Reaches

\* What the invariant says when the region is made.
LEMMA RegionMade ==
  ASSUME MmapInv, LongestBelow
  PROVE  WholePagesUsed /\ (LongestReach => FreeMemoryAvailable)
<1> SUFFICES ASSUME at = "done"
             PROVE  WholePagesUsed /\ (LongestReach => FreeMemoryAvailable)
  BY DEF WholePagesUsed, FreeMemoryAvailable
<1>1. PICK n \in Available(mmap) : Longest(mmap, n) /\ LeftOf(n)
  BY DEF MmapInv, Narrowed
<1> DEFINE F == mmap_free_memory
           E == mmap_free_memory + mmap_free_memory_length
<1>2. /\ F % PAGE_SIZE = 0 /\ F >= Start(n) /\ F < Start(n) + PAGE_SIZE
      /\ mmap_free_memory_length % PAGE_SIZE = 0
      /\ End(n) >= F => E <= End(n) /\ End(n) < E + PAGE_SIZE
      /\ ~(End(n) >= F) => mmap_free_memory_length >= UINT64 - WORD
  BY <1>1 DEF LeftOf
<1>3. F \in Nat /\ mmap_free_memory_length \in Nat /\ E \in Nat
  BY DEF MmapInv, MapSound
<1>4. /\ mmap[n].addr \in Nat /\ mmap[n].len \in Nat
      /\ Start(n) \in Nat /\ End(n) \in Nat /\ End(n) <= WORD
  BY <1>1, LongestHolds DEF MmapInv, Scanned
<1>5. Reaches(n) <=> End(n) >= F
  BY <1>1, ReachesAt
<1>6. E % PAGE_SIZE = 0
  <2> DEFINE a == F \div PAGE_SIZE
             b == mmap_free_memory_length \div PAGE_SIZE
  <2>1. a \in Int /\ b \in Int /\ F = PAGE_SIZE * a
        /\ mmap_free_memory_length = PAGE_SIZE * b
    BY <1>2, <1>3, Words, Multiple
  <2> HIDE DEF a, b
  <2>2. E = PAGE_SIZE * (a + b)
    BY <2>1, Words
  <2>3. (PAGE_SIZE * (a + b)) % PAGE_SIZE = 0
    BY <2>1, Words, ModMultiple
  <2>4. QED
    BY <2>2, <2>3
<1>7. Free = Span(F, E)
  BY <1>3 DEF Free, Span
<1> HIDE DEF F, E
<1>8. ASSUME Reaches(n)
      PROVE  Span(F, E) = Blocks(PAGE_SIZE, WORD, Start(n), End(n))
  <2>1. PAGE_SIZE \in Nat \ {0} /\ WORD \in Nat /\ WORD % PAGE_SIZE = 0
        /\ Start(n) \in Nat /\ End(n) \in Nat /\ F \in Nat /\ E \in Nat
    BY <1>3, <1>4, Words
  <2>2. /\ F % PAGE_SIZE = 0 /\ E % PAGE_SIZE = 0 /\ F >= Start(n)
        /\ F < Start(n) + PAGE_SIZE /\ E <= End(n) /\ End(n) < E + PAGE_SIZE
        /\ End(n) <= WORD
    BY <1>2, <1>4, <1>5, <1>6, <1>8
  <2>3. QED
    BY <2>1, <2>2, WholeBlocks
<1>9. WholePagesUsed
  <2>1. F = mmap_free_memory
    BY DEF F
  <2>2. ~Reaches(n) => mmap_free_memory_length >= UINT64 - WORD
    BY <1>2, <1>5
  <2>3. QED
    BY <1>1, <1>2, <1>7, <1>8, <2>1, <2>2 DEF WholePagesUsed, Blocks
<1>10. LongestReach => FreeMemoryAvailable
  <2> SUFFICES ASSUME LongestReach PROVE FreeMemoryAvailable
    OBVIOUS
  <2>1. Start(n) >= mmap[n].addr
    BY <1>4, Words DEF Start
  <2>2. E <= End(n)
    BY <1>1, <1>2, <1>5 DEF LongestReach
  <2>3. Free \subseteq mmap[n].addr .. mmap[n].addr + mmap[n].len - 1
    BY <1>2, <1>3, <1>4, <1>7, <2>1, <2>2 DEF End, Span
  <2>4. QED
    BY <1>1, <2>3 DEF FreeMemoryAvailable
<1>11. QED
  BY <1>9, <1>10

\* The invariant of mmap_initialize, for every map whose areas are apart and in
\* which the kernel is loaded.
THEOREM SpecMmapInv == Spec => []MmapInv
<1>1. MmapInv /\ [Next]_vars => MmapInv'
  BY MmapNext
<1>2. QED
  BY <1>1, MmapInit, PTL DEF Spec

\* If the longest available areas are below 4 GiB, mmap_initialize gives the page
\* allocator all the whole pages that one of them has past the kernel, or else a
\* wrapped length because that area ends before a page begins there; and if they
\* all reach a page, the region is free memory.
THEOREM SpecFreeMemory ==
  Spec /\ LongestBelow => [](WholePagesUsed /\ (LongestReach => FreeMemoryAvailable))
<1>1. LongestBelow /\ MmapInv /\ [Next]_vars => LongestBelow'
  BY MmapNext, SameMap
<1>2. MmapInv /\ LongestBelow => WholePagesUsed /\ (LongestReach => FreeMemoryAvailable)
  BY RegionMade
<1>3. QED
  BY <1>1, <1>2, SpecMmapInv, PTL DEF Spec

\* What Paging assumes of its region (RegionAssumption): it is so many frames
\* from frame "base" on, of those below 4 GiB, and the kernel ends before them.
RegionForPaging ==
  at = "done" =>
    \E base, n \in Nat :
      /\ mmap_free_memory = base * PAGE_SIZE
      /\ mmap_free_memory_length = n * PAGE_SIZE
      /\ KernelEnd <= base * PAGE_SIZE
      /\ base + n <= WORD \div PAGE_SIZE

\* What the invariant says of the region in frames.
LEMMA RegionOfFrames ==
  ASSUME MmapInv, LongestBelow, LongestReach
  PROVE  RegionForPaging
<1> SUFFICES ASSUME at = "done"
             PROVE  \E base, n \in Nat :
                      /\ mmap_free_memory = base * PAGE_SIZE
                      /\ mmap_free_memory_length = n * PAGE_SIZE
                      /\ KernelEnd <= base * PAGE_SIZE
                      /\ base + n <= WORD \div PAGE_SIZE
  BY DEF RegionForPaging
<1>1. PICK a \in Available(mmap) : Longest(mmap, a) /\ LeftOf(a)
  BY DEF MmapInv, Narrowed
<1>2. /\ mmap_free_memory \in Nat /\ mmap_free_memory_length \in Nat
      /\ mmap_free_memory % PAGE_SIZE = 0 /\ mmap_free_memory_length % PAGE_SIZE = 0
      /\ mmap_free_memory >= Start(a)
      /\ mmap_free_memory + mmap_free_memory_length <= End(a)
  <2>1. End(a) >= mmap_free_memory
    BY <1>1, ReachesAt DEF LongestReach
  <2>2. QED
    BY <1>1, <2>1 DEF LeftOf, MmapInv, MapSound
<1>3. Start(a) \in Nat /\ Start(a) >= KernelEnd /\ End(a) \in Nat /\ End(a) <= WORD
  <2>1. /\ mmap[a].addr \in Nat /\ Start(a) \in Nat /\ End(a) \in Nat
        /\ End(a) <= WORD
    BY <1>1, LongestHolds DEF MmapInv, Scanned
  <2>2. QED
    BY <2>1, Words DEF Start
<1> DEFINE base == mmap_free_memory \div PAGE_SIZE
           n == mmap_free_memory_length \div PAGE_SIZE
           w == WORD \div PAGE_SIZE
<1>4. /\ base \in Int /\ mmap_free_memory = PAGE_SIZE * base
      /\ n \in Int /\ mmap_free_memory_length = PAGE_SIZE * n
      /\ w \in Int /\ WORD = PAGE_SIZE * w
  BY <1>2, Words, Multiple
<1> HIDE DEF base, n
<1>5. w = WORD \div PAGE_SIZE
  OBVIOUS
<1> HIDE DEF w
<1>6. base \in Nat /\ n \in Nat /\ base + n <= w
  <2>1. PAGE_SIZE \in Nat \ {0}
    BY Words
  <2>2. PAGE_SIZE * base >= 0 /\ PAGE_SIZE * n >= 0
    BY <1>2, <1>4
  <2>3. PAGE_SIZE * (base + n) <= PAGE_SIZE * w
    BY <1>2, <1>3, <1>4, <2>1
  <2>4. QED
    BY <1>4, <2>1, <2>2, <2>3, Factor
<1>7. KernelEnd <= base * PAGE_SIZE
  BY <1>2, <1>3, <1>4, Words
<1>8. mmap_free_memory = base * PAGE_SIZE /\ mmap_free_memory_length = n * PAGE_SIZE
  BY <1>4, Words
<1>9. QED
  BY <1>5, <1>6, <1>7, <1>8

-----------------------------------------------------------------------------
(* Boot: the stages, and what is done before each.                         *)

ToTerminal == {"start", "jump", "entry", "paging", "terminal"}
ToMagic    == ToTerminal \cup {"magic"}

Stages == {"start", "jump", "entry", "paging", "terminal", "magic", "gdt", "isr",
           "lidt", "sti", "mmap", "pci", "greet"}
WithGdt  == {"isr", "lidt", "sti", "mmap", "pci", "greet"}
WithIdt  == {"sti", "mmap", "pci", "greet"}
WithMap  == {"pci", "greet"}

Control ==
  /\ machine \in Machine /\ flagged \in BOOLEAN
  /\ stage \in Stages
  /\ outcome \in {"none", "reset", "aborted", "reported", "booted", "lost"}
  /\ directory = CASE stage = "start" -> [s \in 0 .. 1023 |-> s]
                   [] stage \in {"jump", "entry", "paging"} -> BootDirectory
                   [] OTHER -> KernelDirectory
  /\ segments = IF stage \in WithGdt
                THEN [cs |-> GDT[CODE_GDT_R0], ds |-> GDT[DATA_GDT_R0]]
                ELSE [cs |-> Flat, ds |-> [Flat EXCEPT !.code = 0]]
  /\ gdt_loaded <=> stage \in WithGdt
  /\ remapped   <=> stage \in WithGdt \ {"isr"}
  /\ idt_loaded <=> stage \in WithIdt
  /\ interrupts => stage \in WithIdt \ {"sti"}

\* mmap_initialize is under way in its stage, and done after it.
MapStage ==
  /\ stage \notin WithMap \cup {"mmap"} => at = "check"
  /\ stage \in WithMap => at = "done"
  /\ stage = "mmap" /\ outcome = "none" => at \in {"check", "scan", "start", "length"}

\* What a machine has that got as far.
Passed ==
  /\ stage \notin ToTerminal =>
       /\ Low(machine.mbi) /\ machine.framebuffer # NOT_TEXT
       /\ Low(machine.framebuffer)
  /\ stage \notin ToMagic => machine.magic
  /\ at \notin {"check", "aborted"} => flagged /\ mmap # <<>>
  /\ at \in {"start", "length", "done"} \/ i > 1 => Low(machine.mmap_addr)
  /\ stage = "greet" => mmap_free_memory_length >= ListBytes /\ ListBacked
                      /\ ~machine.crowded

BootInv == MmapInv /\ Control /\ MapStage /\ Passed /\ EndsAsDue

-----------------------------------------------------------------------------
(* What a stage uses, and what can be used.                                *)

LEMMA AfterStage ==
  /\ After("start") = "jump" /\ After("jump") = "entry" /\ After("entry") = "paging"
  /\ After("paging") = "terminal" /\ After("terminal") = "magic" /\ After("magic") = "gdt"
  /\ After("gdt") = "isr" /\ After("isr") = "lidt" /\ After("lidt") = "sti"
  /\ After("sti") = "mmap" /\ After("mmap") = "pci" /\ After("pci") = "greet"
<1>1. /\ Order[1] = "start" /\ Order[2] = "jump" /\ Order[3] = "entry"
      /\ Order[4] = "paging" /\ Order[5] = "terminal" /\ Order[6] = "magic"
      /\ Order[7] = "gdt" /\ Order[8] = "isr" /\ Order[9] = "lidt" /\ Order[10] = "sti"
      /\ Order[11] = "mmap" /\ Order[12] = "pci" /\ Order[13] = "greet"
      /\ Len(Order) = 13
  BY DEF Order
<1>2. \A n \in 1 .. 13 : n = 1 \/ n = 2 \/ n = 3 \/ n = 4 \/ n = 5 \/ n = 6 \/ n = 7 \/ n = 8
                         \/ n = 9 \/ n = 10 \/ n = 11 \/ n = 12 \/ n = 13
  OBVIOUS
<1>3. ASSUME NEW m \in 1 .. 13, NEW n \in 1 .. 13, Order[m] = Order[n]
      PROVE  m = n
  <2> HIDE DEF Order
  <2>1. QED
    BY <1>1, <1>2, <1>3
<1>4. ASSUME NEW n \in 1 .. 12
      PROVE  After(Order[n]) = Order[n + 1]
  <2> HIDE DEF Order
  <2> DEFINE Is(t) == \E m \in 1 .. Len(Order) - 1 : Order[m] = Order[n] /\ Order[m + 1] = t
             T == {Order[m] : m \in 2 .. Len(Order)}
  <2>1. Order[n + 1] \in T
    BY <1>1
  <2>2. Is(Order[n + 1])
    BY <1>1
  <2>3. \A t : Is(t) => t = Order[n + 1]
    BY <1>1, <1>3
  <2>4. After(Order[n]) = CHOOSE t \in T : Is(t)
    BY DEF After
  <2> HIDE DEF T, Is
  <2>5. QED
    BY <2>1, <2>2, <2>3, <2>4
<1>5. QED
  <2> HIDE DEF Order
  <2>1. /\ After(Order[1]) = Order[2] /\ After(Order[2]) = Order[3]
        /\ After(Order[3]) = Order[4] /\ After(Order[4]) = Order[5]
        /\ After(Order[5]) = Order[6] /\ After(Order[6]) = Order[7]
        /\ After(Order[7]) = Order[8] /\ After(Order[8]) = Order[9]
        /\ After(Order[9]) = Order[10] /\ After(Order[10]) = Order[11]
        /\ After(Order[11]) = Order[12] /\ After(Order[12]) = Order[13]
    BY <1>4
  <2>2. QED
    BY <1>1, <2>1

\* A segment of 4 GiB reaches every slot.
LEMMA Segments ==
  ASSUME Control
  PROVE  /\ segments.cs.present = 1 /\ LastPage(segments.cs) = 1048575
         /\ segments.ds.present = 1 /\ LastPage(segments.ds) = 1048575
<1>1. LastPage(Flat) = 1048575 /\ Flat.present = 1
  BY DEF LastPage, Flat
<1>2. LastPage([Flat EXCEPT !.code = 0]) = 1048575 /\ [Flat EXCEPT !.code = 0].present = 1
  BY DEF LastPage, Flat
<1>3. GDT[CODE_GDT_R0] = Flat /\ GDT[DATA_GDT_R0] = [Flat EXCEPT !.code = 0]
  BY DEF GDT, CODE_GDT_R0, DATA_GDT_R0, TSS_GDT_R3
<1>4. \/ segments = [cs |-> Flat, ds |-> [Flat EXCEPT !.code = 0]]
      \/ segments = [cs |-> GDT[CODE_GDT_R0], ds |-> GDT[DATA_GDT_R0]]
  BY DEF Control
<1>5. segments.cs = Flat /\ segments.ds = [Flat EXCEPT !.code = 0]
  BY <1>3, <1>4
<1>6. QED
  BY <1>1, <1>2, <1>5

\* The slots of a page directory.
Slots == 0 .. 1023

LEMMA UsableSlot ==
  ASSUME Control, NEW slot \in Slots, NEW chunk
  PROVE  Usable(<<slot, chunk>>) <=> slot \in DOMAIN directory /\ directory[slot] = chunk
<1>1. slot * 1024 + 1023 <= 1048575
  BY DEF Slots
<1>2. QED
  BY <1>1, Segments DEF Usable

\* The kernel's page directory shows the first 8 MiB, and so does that of _start.
LEMMA Directories ==
  ASSUME NEW c \in 0 .. 1023 \ {255}
  PROVE  /\ PHYS_TO_KERNEL(c) \in Slots
         /\ PHYS_TO_KERNEL(c) \in DOMAIN KernelDirectory
              /\ KernelDirectory[PHYS_TO_KERNEL(c)] = c <=> Low(c)
         /\ Low(c) => PHYS_TO_KERNEL(c) \in DOMAIN BootDirectory
                      /\ BootDirectory[PHYS_TO_KERNEL(c)] = c
<1>1. c \in Nat /\ c < 1024 /\ c # 255
  OBVIOUS
<1>2. PHYS_TO_KERNEL(c) = IF c < 256 THEN 768 + c ELSE c - 256
  BY <1>1 DEF PHYS_TO_KERNEL, PAGE_DIRECTORY_START
<1>3. DOMAIN KernelDirectory = {768, 769, 1023} /\ DOMAIN BootDirectory = {0, 768, 769}
  BY DEF KernelDirectory, BootDirectory
<1>4. KernelDirectory[768] = 0 /\ KernelDirectory[769] = 1 /\ KernelDirectory[1023] = -1
  BY DEF KernelDirectory, PAGE_DIRECTORY_START, SELF
<1>5. BootDirectory[0] = 0 /\ BootDirectory[768] = 0 /\ BootDirectory[769] = 1
  BY DEF BootDirectory, PAGE_DIRECTORY_START
<1>6. PHYS_TO_KERNEL(c) \in 0 .. 1023
  BY <1>1, <1>2
<1>7. Low(c) <=> c = 0 \/ c = 1
  BY <1>1 DEF Low
<1>8. c = 0 \/ c = 1 => PHYS_TO_KERNEL(c) \in DOMAIN KernelDirectory
                        /\ KernelDirectory[PHYS_TO_KERNEL(c)] = c
  BY <1>2, <1>3, <1>4
<1>9. PHYS_TO_KERNEL(c) \in DOMAIN KernelDirectory => c = 0 \/ c = 1
  BY <1>1, <1>2, <1>3
<1>10. c = 0 \/ c = 1 => PHYS_TO_KERNEL(c) \in DOMAIN BootDirectory
                         /\ BootDirectory[PHYS_TO_KERNEL(c)] = c
  BY <1>2, <1>3, <1>5
<1>11. QED
  BY <1>6, <1>7, <1>8, <1>9, <1>10 DEF Slots

LEMMA KernelUsable ==
  ASSUME Control, stage \notin {"start", "jump"}
  PROVE  \A use \in Kernel : Usable(use)
<1> SUFFICES ASSUME NEW c \in ImageChunks
             PROVE  Usable(<<PHYS_TO_KERNEL(c), c>>)
  BY DEF Kernel
<1>1. c \in 0 .. 1023 \ {255} /\ Low(c)
  BY ChunksAssumption DEF Low
<1>2. directory \in {BootDirectory, KernelDirectory}
  BY DEF Control
<1>3. /\ PHYS_TO_KERNEL(c) \in Slots
      /\ PHYS_TO_KERNEL(c) \in DOMAIN directory /\ directory[PHYS_TO_KERNEL(c)] = c
  BY <1>1, <1>2, Directories
<1> DEFINE slot == PHYS_TO_KERNEL(c)
<1> HIDE DEF slot
<1>4. Usable(<<slot, c>>)
  BY <1>3, UsableSlot, Zenon DEF slot
<1>5. QED
  BY <1>4 DEF slot

LEMMA ShownUsable ==
  ASSUME Control, stage \notin {"start", "jump", "entry", "paging"}, NEW c \in Chunks
  PROVE  (\A use \in Shown(c) : Usable(use)) <=> Low(c)
<1>1. c \in 0 .. 1023 \ {255}
  BY ChunksAssumption
<1>2. directory = KernelDirectory
  BY DEF Control
<1>3. PHYS_TO_KERNEL(c) \in Slots
      /\ (PHYS_TO_KERNEL(c) \in DOMAIN KernelDirectory
             /\ KernelDirectory[PHYS_TO_KERNEL(c)] = c <=> Low(c))
  BY <1>1, Directories
<1>4. Usable(<<PHYS_TO_KERNEL(c), c>>) <=> Low(c)
  <2>1. PHYS_TO_KERNEL(c) \in DOMAIN directory /\ directory[PHYS_TO_KERNEL(c)] = c
          <=> Low(c)
    BY <1>2, <1>3
  <2>2. Usable(<<PHYS_TO_KERNEL(c), c>>)
          <=> /\ PHYS_TO_KERNEL(c) \in DOMAIN directory
              /\ directory[PHYS_TO_KERNEL(c)] = c
    BY <1>3, UsableSlot, Zenon
  <2>3. QED
    BY <2>1, <2>2
<1>5. QED
  BY <1>4 DEF Shown

LEMMA OfMachine ==
  ASSUME Control
  PROVE  /\ machine.mbi \in Chunks /\ machine.mmap_addr \in Chunks
         /\ machine.framebuffer = NOT_TEXT \/ machine.framebuffer \in Chunks
         /\ machine.magic \in BOOLEAN /\ machine.crowded \in BOOLEAN
BY DEF Control, Machine

LEMMA ScreenUsable ==
  ASSUME Control, stage \notin {"start", "jump", "entry", "paging"}
  PROVE  (\A use \in Screen : Usable(use))
           <=> machine.framebuffer = NOT_TEXT \/ Low(machine.framebuffer)
<1>1. CASE machine.framebuffer = NOT_TEXT
  BY <1>1 DEF Screen
<1>2. CASE machine.framebuffer # NOT_TEXT
  <2>1. machine.framebuffer \in Chunks /\ Screen = Shown(machine.framebuffer)
    BY <1>2, OfMachine DEF Screen
  <2>2. QED
    BY <1>2, <2>1, ShownUsable
<1>3. QED
  BY <1>1, <1>2

\* What of a stage's use can fail.
LEMMA Faults ==
  ASSUME Control, Passed, \E use \in Used(stage) : ~Usable(use)
  PROVE  \/ /\ stage = "terminal"
            /\ \/ ~Low(machine.mbi)
               \/ machine.framebuffer # NOT_TEXT /\ ~Low(machine.framebuffer)
         \/ /\ stage = "mmap" /\ at = "scan" /\ i <= Len(mmap)
            /\ ~Low(machine.mmap_addr)
<1>1. stage # "start"
  BY DEF Used
<1>2. stage # "jump"
  <2> SUFFICES ASSUME stage = "jump" PROVE Usable(<<0, 0>>)
    BY DEF Used
  <2>1. directory = BootDirectory /\ 0 \in DOMAIN BootDirectory /\ BootDirectory[0] = 0
    BY DEF Control, BootDirectory
  <2>3. 0 \in Slots /\ 0 \in DOMAIN directory /\ directory[0] = 0
    BY <2>1 DEF Slots
  <2>2. QED
    BY <2>3, UsableSlot, Zenon
<1>3. \A use \in Kernel : Usable(use)
  BY <1>1, <1>2, KernelUsable
<1>4. stage \notin {"entry", "paging"}
  BY <1>3 DEF Used
<1>5. /\ (\A use \in Screen : Usable(use))
            <=> machine.framebuffer = NOT_TEXT \/ Low(machine.framebuffer)
      /\ (\A use \in Information : Usable(use)) <=> Low(machine.mbi)
      /\ (\A use \in Shown(machine.mmap_addr) : Usable(use)) <=> Low(machine.mmap_addr)
  BY <1>1, <1>2, <1>4, ScreenUsable, ShownUsable, OfMachine DEF Information
<1>6. CASE stage = "terminal"
  BY <1>3, <1>5, <1>6 DEF Used
<1>7. CASE stage # "terminal"
  <2>1. Low(machine.mbi) /\ Low(machine.framebuffer)
    BY <1>1, <1>2, <1>4, <1>7 DEF Passed, ToTerminal
  <2>2. (\A use \in Screen : Usable(use)) /\ (\A use \in Information : Usable(use))
    BY <1>5, <2>1
  <2>3. stage \in {"mmap", "pci"}
    BY <1>1, <1>2, <1>3, <1>4, <1>7, <2>2 DEF Used
  <2>4. stage # "pci"
    <3> SUFFICES ASSUME stage = "pci" PROVE Usable(<<1023, SELF>>)
      BY <1>3, <2>2 DEF Used
    <3>1. directory = KernelDirectory /\ 1023 \in DOMAIN KernelDirectory
          /\ KernelDirectory[1023] = SELF
      BY DEF Control, KernelDirectory
    <3>2. 1023 \in 0 .. 1023 /\ 1023 \in DOMAIN directory /\ directory[1023] = SELF
      BY <3>1
    <3> DEFINE use == <<1023, SELF>>
    <3>3. use[1] = 1023 /\ use[2] = SELF
      OBVIOUS
    <3> HIDE DEF use
    <3>4. use[1] \in DOMAIN directory /\ directory[use[1]] = use[2]
      BY <3>2, <3>3
    <3>5. use[1] * 1024 + 1023 <= 1048575
      BY <3>3
    <3>6. Usable(use)
      BY <3>4, <3>5, Segments DEF Usable
    <3>7. QED
      BY <3>6 DEF use
  <2>5. QED
    BY <1>3, <1>5, <2>2, <2>3, <2>4 DEF Used
<1>8. QED
  BY <1>6, <1>7

\* What a stage that runs has shown of the machine.
LEMMA Ran ==
  ASSUME Control
  PROVE  /\ Runs("terminal") =>
              /\ Low(machine.mbi)
              /\ machine.framebuffer = NOT_TEXT \/ Low(machine.framebuffer)
         /\ Runs("mmap") /\ at = "scan" /\ i <= Len(mmap) => Low(machine.mmap_addr)
<1>1. ASSUME Runs("terminal")
      PROVE  /\ Low(machine.mbi)
             /\ machine.framebuffer = NOT_TEXT \/ Low(machine.framebuffer)
  <2>1. stage = "terminal" /\ (\A use \in Information : Usable(use))
        /\ (\A use \in Screen : Usable(use))
    BY <1>1 DEF Runs, Used
  <2>2. QED
    BY <2>1, ScreenUsable, ShownUsable, OfMachine DEF Information
<1>2. ASSUME Runs("mmap"), at = "scan", i <= Len(mmap)
      PROVE  Low(machine.mmap_addr)
  <2>1. stage = "mmap" /\ (\A use \in Shown(machine.mmap_addr) : Usable(use))
    BY <1>2 DEF Runs, Used
  <2>2. QED
    BY <2>1, ShownUsable, OfMachine
<1>3. QED
  BY <1>1, <1>2

-----------------------------------------------------------------------------
(* The invariant of boot.                                                  *)

LEMMA BootInitInv == BootInit => BootInv
<1> SUFFICES ASSUME BootInit PROVE BootInv
  OBVIOUS
<1>1. Init /\ MmapInv
  BY MmapInit DEF BootInit
<1>2. at = "check" /\ i = 1 /\ flagged \in BOOLEAN
  BY <1>1 DEF Init
<1>3. Control
  BY <1>2 DEF BootInit, Control, Stages, WithGdt, WithIdt
<1>4. MapStage /\ Passed /\ EndsAsDue
  BY <1>2 DEF BootInit, MapStage, Passed, EndsAsDue, ToTerminal, ToMagic, WithMap
<1>5. QED
  BY <1>1, <1>3, <1>4 DEF BootInv

LEMMA ExceptionInv ==
  ASSUME BootInv, Exception
  PROVE  BootInv'
<1>1. /\ outcome = "none" /\ outcome' = IF idt_loaded THEN "reported" ELSE "reset"
      /\ UNCHANGED <<vars, machine, stage, directory, segments, gdt_loaded,
                     idt_loaded, remapped, interrupts>>
      /\ UNCHANGED <<mmap, flagged, i, mmap_free_memory, mmap_free_memory_length, at>>
      /\ Control /\ Passed
  BY DEF Exception, BootInv, vars
<1>2. \/ /\ stage = "terminal"
         /\ \/ ~Low(machine.mbi)
            \/ machine.framebuffer # NOT_TEXT /\ ~Low(machine.framebuffer)
      \/ /\ stage = "mmap" /\ at = "scan" /\ i <= Len(mmap)
         /\ ~Low(machine.mmap_addr)
  BY <1>1, Faults DEF Exception
<1>3. MmapInv'
  BY <1>1, MmapStutter DEF BootInv
<1>4. Control'
  BY <1>1 DEF Control
<1>5. MapStage' /\ Passed'
  BY <1>1 DEF BootInv, MapStage, Passed, ListBacked, Available
<1>6. outcome' = Due
  <2>1. CASE stage = "terminal"
    <3>1. outcome' = "reset"
      BY <1>1, <2>1 DEF Control, WithIdt
    <3>2. QED
      BY <1>2, <2>1, <3>1 DEF Due
  <2>2. CASE stage = "mmap"
    <3>1. outcome' = "reported"
      BY <1>1, <2>2 DEF Control, WithIdt
    <3>2. /\ Low(machine.mbi) /\ machine.framebuffer # NOT_TEXT
          /\ Low(machine.framebuffer) /\ machine.magic
      BY <1>1, <2>2 DEF Passed, ToTerminal, ToMagic
    <3>3. flagged /\ mmap # <<>> /\ ~Low(machine.mmap_addr)
      BY <1>1, <1>2, <2>2 DEF Passed
    <3>4. QED
      BY <3>1, <3>2, <3>3 DEF Due
  <2>3. QED
    BY <1>2, <2>1, <2>2
<1>7. Due' = Due
  BY <1>1 DEF Due, ListBacked, Available
<1>8. EndsAsDue'
  BY <1>6, <1>7 DEF EndsAsDue
<1>9. QED
  BY <1>3, <1>4, <1>5, <1>8 DEF BootInv

\* A stage before mmap_initialize that stops nothing.
LEMMA StageInv ==
  ASSUME BootInv, outcome = "none", UNCHANGED <<vars, machine, outcome>>,
         stage \notin WithMap \cup {"mmap"}, stage' \notin WithMap,
         Control',
         stage \in ToTerminal /\ stage' \notin ToTerminal =>
           /\ Low(machine.mbi) /\ machine.framebuffer # NOT_TEXT
           /\ Low(machine.framebuffer),
         stage \in ToMagic /\ stage' \notin ToMagic => machine.magic
  PROVE  BootInv'
<1>1. UNCHANGED <<mmap, flagged, i, mmap_free_memory, mmap_free_memory_length, at>>
  BY DEF vars
<1>2. MmapInv'
  BY MmapStutter DEF BootInv
<1>3. MapStage'
  BY <1>1 DEF BootInv, MapStage, WithMap
<1>4. Passed'
  BY <1>1 DEF BootInv, Passed, WithMap, ListBacked, Available
<1>5. EndsAsDue'
  BY DEF EndsAsDue
<1>6. QED
  BY <1>2, <1>3, <1>4, <1>5 DEF BootInv

LEMMA StartInv ==
  ASSUME BootInv, _start
  PROVE  BootInv'
<1>1. /\ outcome = "none" /\ stage = "start" /\ directory' = BootDirectory
      /\ stage' = "jump"
      /\ UNCHANGED <<vars, machine, segments, gdt_loaded, idt_loaded, remapped,
                     interrupts, outcome>> /\ flagged' = flagged
  BY AfterStage DEF _start, Runs, vars
<1>2. Control'
  BY <1>1 DEF BootInv, Control, Stages, WithGdt, WithIdt
<1>3. QED
  BY <1>1, <1>2, StageInv DEF ToTerminal, ToMagic, WithMap

LEMMA EntryInv ==
  ASSUME BootInv, _kernel_entry
  PROVE  BootInv'
<1>1. /\ outcome = "none"
      /\ \/ stage = "jump" /\ stage' = "entry"
         \/ stage = "entry" /\ stage' = "paging"
      /\ UNCHANGED <<vars, machine, directory, segments, gdt_loaded, idt_loaded,
                     remapped, interrupts, outcome>> /\ flagged' = flagged
  BY AfterStage DEF _kernel_entry, Runs, vars
<1>2. Control'
  BY <1>1 DEF BootInv, Control, Stages, WithGdt, WithIdt
<1>3. QED
  BY <1>1, <1>2, StageInv DEF ToTerminal, ToMagic, WithMap

LEMMA PagingInv ==
  ASSUME BootInv, paging_initialize
  PROVE  BootInv'
<1>1. /\ outcome = "none" /\ stage = "paging" /\ directory' = KernelDirectory
      /\ stage' = "terminal"
      /\ UNCHANGED <<vars, machine, segments, gdt_loaded, idt_loaded, remapped,
                     interrupts, outcome>> /\ flagged' = flagged
  BY AfterStage DEF paging_initialize, Runs, vars
<1>2. Control'
  BY <1>1 DEF BootInv, Control, Stages, WithGdt, WithIdt
<1>3. QED
  BY <1>1, <1>2, StageInv DEF ToTerminal, ToMagic, WithMap

\* A stage that is stopped leaves all but the outcome as it is.
LEMMA StopInv ==
  ASSUME BootInv, outcome = "none",
         UNCHANGED <<vars, machine, stage, directory, segments, gdt_loaded,
                     idt_loaded, remapped>>,
         stage # "mmap", interrupts' => interrupts \/ stage = "pci",
         outcome' \in {"aborted", "reported", "booted", "lost"}, outcome' = Due
  PROVE  BootInv'
<1>1. UNCHANGED <<mmap, flagged, i, mmap_free_memory, mmap_free_memory_length, at>>
  BY DEF vars
<1>2. MmapInv'
  BY MmapStutter DEF BootInv
<1>3. Control'
  BY <1>1 DEF BootInv, Control, WithIdt
<1>4. MapStage' /\ Passed'
  BY <1>1 DEF BootInv, MapStage, Passed, ListBacked, Available
<1>5. Due' = Due
  BY <1>1 DEF Due, ListBacked, Available
<1>6. EndsAsDue'
  BY <1>5 DEF EndsAsDue
<1>7. QED
  BY <1>2, <1>3, <1>4, <1>6 DEF BootInv

LEMMA TerminalInv ==
  ASSUME BootInv, terminal_initialize
  PROVE  BootInv'
<1>1. /\ outcome = "none" /\ stage = "terminal"
      /\ UNCHANGED <<vars, machine, directory, segments, gdt_loaded, idt_loaded,
                     remapped, interrupts>> /\ flagged' = flagged
  BY DEF terminal_initialize, Runs, vars
<1>2. /\ Low(machine.mbi)
      /\ machine.framebuffer = NOT_TEXT \/ Low(machine.framebuffer)
  BY Ran DEF terminal_initialize, BootInv
<1>3. CASE machine.framebuffer = NOT_TEXT
  <2>1. outcome' = "aborted" /\ UNCHANGED stage
    BY <1>3 DEF terminal_initialize
  <2>2. Due = "aborted"
    BY <1>2, <1>3 DEF Due
  <2>3. QED
    BY <1>1, <2>1, <2>2, StopInv
<1>4. CASE machine.framebuffer # NOT_TEXT
  <2>1. stage' = "magic" /\ UNCHANGED outcome
    BY <1>1, <1>4, AfterStage DEF terminal_initialize
  <2>2. Control'
    BY <1>1, <2>1 DEF BootInv, Control, Stages, WithGdt, WithIdt
  <2>3. QED
    BY <1>1, <1>2, <1>4, <2>1, <2>2, StageInv DEF ToTerminal, ToMagic, WithMap
<1>5. QED
  BY <1>3, <1>4

LEMMA CheckMagicInv ==
  ASSUME BootInv, CheckMagic
  PROVE  BootInv'
<1>1. /\ outcome = "none" /\ stage = "magic"
      /\ UNCHANGED <<vars, machine, directory, segments, gdt_loaded, idt_loaded,
                     remapped, interrupts>> /\ flagged' = flagged
  BY DEF CheckMagic, Runs, vars
<1>2. /\ Low(machine.mbi) /\ machine.framebuffer # NOT_TEXT
      /\ Low(machine.framebuffer)
  BY <1>1 DEF BootInv, Passed, ToTerminal
<1>3. CASE ~machine.magic
  <2>1. outcome' = "aborted" /\ UNCHANGED stage
    BY <1>3 DEF CheckMagic, MagicFits
  <2>2. Due = "aborted"
    BY <1>2, <1>3 DEF Due
  <2>3. QED
    BY <1>1, <2>1, <2>2, StopInv
<1>4. CASE machine.magic
  <2>1. stage' = "gdt" /\ UNCHANGED outcome
    BY <1>1, <1>4, AfterStage DEF CheckMagic, MagicFits
  <2>2. Control'
    BY <1>1, <2>1 DEF BootInv, Control, Stages, WithGdt, WithIdt
  <2>3. QED
    BY <1>1, <1>4, <2>1, <2>2, StageInv DEF ToTerminal, ToMagic, WithMap
<1>5. QED
  BY <1>3, <1>4

LEMMA GdtInv ==
  ASSUME BootInv, gdt_initialize
  PROVE  BootInv'
<1>1. /\ outcome = "none" /\ stage = "gdt" /\ stage' = "isr" /\ gdt_loaded' = TRUE
      /\ segments' = [cs |-> GDT[CODE_GDT_R0], ds |-> GDT[DATA_GDT_R0]]
      /\ UNCHANGED <<vars, machine, directory, idt_loaded, remapped, interrupts,
                     outcome>> /\ flagged' = flagged
  BY AfterStage DEF gdt_initialize, Runs, vars
<1>2. Control'
  BY <1>1 DEF BootInv, Control, Stages, WithGdt, WithIdt
<1>3. QED
  BY <1>1, <1>2, StageInv DEF ToTerminal, ToMagic, WithMap

LEMMA IsrInv ==
  ASSUME BootInv, isr_install
  PROVE  BootInv'
<1>1. /\ outcome = "none" /\ stage = "isr" /\ stage' = "lidt" /\ remapped' = TRUE
      /\ UNCHANGED <<vars, machine, directory, segments, gdt_loaded, idt_loaded,
                     interrupts, outcome>> /\ flagged' = flagged
  BY AfterStage DEF isr_install, Runs, vars
<1>2. Control'
  BY <1>1 DEF BootInv, Control, Stages, WithGdt, WithIdt
<1>3. QED
  BY <1>1, <1>2, StageInv DEF ToTerminal, ToMagic, WithMap

LEMMA LidtInv ==
  ASSUME BootInv, lidt
  PROVE  BootInv'
<1>1. /\ outcome = "none" /\ stage = "lidt" /\ stage' = "sti" /\ idt_loaded' = TRUE
      /\ UNCHANGED <<vars, machine, directory, segments, gdt_loaded, remapped,
                     interrupts, outcome>> /\ flagged' = flagged
  BY AfterStage DEF lidt, Runs, vars
<1>2. Control'
  BY <1>1 DEF BootInv, Control, Stages, WithGdt, WithIdt
<1>3. QED
  BY <1>1, <1>2, StageInv DEF ToTerminal, ToMagic, WithMap

LEMMA StiInv ==
  ASSUME BootInv, sti
  PROVE  BootInv'
<1>1. /\ outcome = "none" /\ stage = "sti" /\ stage' = "mmap"
      /\ UNCHANGED <<vars, machine, directory, segments, gdt_loaded, idt_loaded,
                     remapped, outcome>> /\ flagged' = flagged
  BY AfterStage DEF sti, Runs, vars
<1>2. Control'
  BY <1>1 DEF BootInv, Control, Stages, WithGdt, WithIdt
<1>3. QED
  BY <1>1, <1>2, StageInv DEF ToTerminal, ToMagic, WithMap

LEMMA MmapStageInv ==
  ASSUME BootInv, mmap_initialize
  PROVE  BootInv'
<1>1. /\ outcome = "none" /\ stage = "mmap" /\ Next
      /\ stage' = (IF at' = "done" THEN "pci" ELSE "mmap")
      /\ outcome' = (IF at' = "aborted" THEN "aborted" ELSE "none")
      /\ UNCHANGED <<machine, directory, segments, gdt_loaded, idt_loaded, remapped,
                     interrupts>>
  BY AfterStage DEF mmap_initialize, Runs
<1>2. MmapInv' /\ mmap' = mmap /\ flagged' = flagged
  BY <1>1, MmapNext DEF BootInv, Next, Check, Scan, AvoidKernel, AlignStart, AlignLength
<1>3. Control'
  BY <1>1, <1>2 DEF BootInv, Control, Stages, WithGdt, WithIdt
<1>4. at' \in {"scan", "aborted", "start", "length", "done"}
  BY <1>1 DEF Next, Check, Scan, AvoidKernel, AlignStart, AlignLength
<1>5. MapStage'
  BY <1>1, <1>4 DEF MapStage, WithMap
<1>6. /\ Low(machine.mbi) /\ machine.framebuffer # NOT_TEXT
      /\ Low(machine.framebuffer) /\ machine.magic
  BY <1>1 DEF BootInv, Passed, ToTerminal, ToMagic
<1>7. at' \notin {"check", "aborted"} => flagged /\ mmap # <<>>
  BY <1>1 DEF BootInv, Passed, Next, Check, Scan, AvoidKernel, AlignStart, AlignLength
<1>8. at' \in {"start", "length", "done"} \/ i' > 1 => Low(machine.mmap_addr)
  <2>1. CASE Check
    BY <2>1 DEF BootInv, Passed, Check
  <2>2. CASE Scan
    <3>1. at = "scan" /\ i <= Len(mmap)
      BY <2>2 DEF Scan
    <3>2. QED
      BY <3>1, Ran DEF mmap_initialize, BootInv
  <2>3. CASE AvoidKernel
    <3>1. at = "scan" /\ i > Len(mmap) /\ mmap # <<>> /\ mmap \in Seq(Area) /\ i \in Nat
      BY <2>3 DEF AvoidKernel, BootInv, MmapInv, MapSound, Scanned
    <3>2. Len(mmap) \in Nat /\ Len(mmap) # 0
      BY <3>1, EmptySeq
    <3>3. i > 1
      BY <3>1, <3>2
    <3>4. QED
      BY <3>3 DEF BootInv, Passed
  <2>4. CASE AlignStart \/ AlignLength
    BY <2>4 DEF BootInv, Passed, AlignStart, AlignLength
  <2>5. QED
    BY <1>1, <2>1, <2>2, <2>3, <2>4 DEF Next
<1>9. Passed'
  BY <1>1, <1>2, <1>6, <1>7, <1>8 DEF Passed
<1>10. EndsAsDue'
  <2> SUFFICES ASSUME at' = "aborted"
               PROVE  Due' = "aborted"
    BY <1>1 DEF EndsAsDue
  <2>1. at' = "aborted" /\ (at = "check" => ~flagged \/ mmap = <<>>)
    BY <1>1 DEF Next, Check, Scan, AvoidKernel, AlignStart, AlignLength
  <2>2. at = "check"
    BY <1>1 DEF Next, Check, Scan, AvoidKernel, AlignStart, AlignLength
  <2>3. QED
    BY <1>1, <1>2, <1>6, <2>1, <2>2 DEF Due
<1>11. QED
  BY <1>2, <1>3, <1>5, <1>9, <1>10 DEF BootInv

LEMMA PciStageInv ==
  ASSUME BootInv, pci_initialize
  PROVE  BootInv'
<1>1. /\ outcome = "none" /\ stage = "pci" /\ interrupts' = TRUE
      /\ UNCHANGED <<vars, machine, directory, segments, gdt_loaded, idt_loaded,
                     remapped>>
      /\ UNCHANGED <<mmap, flagged, i, mmap_free_memory, mmap_free_memory_length, at>>
  BY DEF pci_initialize, Runs, vars
<1>2. /\ Low(machine.mbi) /\ machine.framebuffer # NOT_TEXT
      /\ Low(machine.framebuffer) /\ machine.magic /\ at = "done"
      /\ flagged /\ mmap # <<>> /\ Low(machine.mmap_addr)
  <2>1. at = "done"
    BY <1>1 DEF BootInv, MapStage, WithMap
  <2>2. QED
    BY <1>1, <2>1 DEF BootInv, Passed, ToTerminal, ToMagic
<1>3. CASE mmap_free_memory_length < ListBytes
  <2>1. outcome' = "aborted" /\ UNCHANGED stage /\ Due = "aborted"
    BY <1>2, <1>3 DEF pci_initialize, Due
  <2>2. QED
    BY <1>1, <2>1, StopInv
<1>4. CASE ~(mmap_free_memory_length < ListBytes) /\ ~ListBacked
  <2>1. outcome' = "lost" /\ UNCHANGED stage /\ Due = "lost"
    BY <1>2, <1>4 DEF pci_initialize, Due
  <2>2. QED
    BY <1>1, <2>1, StopInv
<1>5. CASE ~(mmap_free_memory_length < ListBytes) /\ ListBacked /\ machine.crowded
  <2>1. outcome' = "reported" /\ UNCHANGED stage /\ Due = "reported"
    BY <1>2, <1>5 DEF pci_initialize, Due
  <2>2. QED
    BY <1>1, <2>1, StopInv
<1>6. CASE ~(mmap_free_memory_length < ListBytes) /\ ListBacked /\ ~machine.crowded
  <2>1. stage' = "greet" /\ UNCHANGED outcome
    BY <1>1, <1>6, AfterStage DEF pci_initialize
  <2>2. MmapInv'
    BY <1>1, MmapStutter DEF BootInv
  <2>3. Control'
    BY <1>1, <2>1 DEF BootInv, Control, Stages, WithGdt, WithIdt
  <2>4. MapStage'
    BY <1>1, <1>2, <2>1 DEF MapStage, WithMap
  <2>5. mmap_free_memory_length >= ListBytes
    <3>1. mmap_free_memory_length \in Nat /\ ListBytes \in Nat
      BY ChunksAssumption DEF BootInv, MmapInv, MapSound
    <3>2. QED
      BY <1>6, <3>1
  <2>6. Passed'
    BY <1>1, <1>2, <1>6, <2>1, <2>5 DEF Passed, ListBacked, Available
  <2>7. EndsAsDue'
    BY <1>1, <2>1 DEF EndsAsDue
  <2>8. QED
    BY <2>2, <2>3, <2>4, <2>6, <2>7 DEF BootInv
<1>7. QED
  BY <1>3, <1>4, <1>5, <1>6

LEMMA GreetInv ==
  ASSUME BootInv, Greet
  PROVE  BootInv'
<1>1. /\ outcome = "none" /\ stage = "greet" /\ outcome' = "booted"
      /\ UNCHANGED <<vars, machine, stage, directory, segments, gdt_loaded,
                     idt_loaded, remapped, interrupts>>
  BY DEF Greet, Runs
<1>2. at = "done"
  BY <1>1 DEF BootInv, MapStage, WithMap
<1>3. /\ Low(machine.mbi) /\ machine.framebuffer # NOT_TEXT
      /\ Low(machine.framebuffer) /\ machine.magic
      /\ flagged /\ mmap # <<>> /\ Low(machine.mmap_addr)
      /\ mmap_free_memory_length >= ListBytes /\ ListBacked /\ ~machine.crowded
  BY <1>1, <1>2 DEF BootInv, Passed, ToTerminal, ToMagic
<1>4. ~(mmap_free_memory_length < ListBytes)
  <2>1. mmap_free_memory_length \in Nat /\ ListBytes \in Nat
    BY ChunksAssumption DEF BootInv, MmapInv, MapSound
  <2>2. QED
    BY <1>3, <2>1
<1>5. Due = "booted"
  BY <1>3, <1>4 DEF Due
<1>6. QED
  BY <1>1, <1>5, StopInv

LEMMA BootStutter ==
  ASSUME BootInv, UNCHANGED <<vars, bootVars>>
  PROVE  BootInv'
<1>1. /\ UNCHANGED <<machine, stage, directory, segments, gdt_loaded, idt_loaded,
                     remapped, interrupts, outcome>>
      /\ UNCHANGED <<mmap, flagged, i, mmap_free_memory, mmap_free_memory_length, at>>
  BY DEF vars, bootVars
<1>2. MmapInv'
  BY MmapStutter DEF BootInv
<1>3. Control'
  BY <1>1 DEF BootInv, Control
<1>4. MapStage' /\ Passed'
  BY <1>1 DEF BootInv, MapStage, Passed, ListBacked, Available
<1>5. EndsAsDue'
  BY <1>1 DEF BootInv, EndsAsDue, Due, ListBacked, Available
<1>6. QED
  BY <1>2, <1>3, <1>4, <1>5 DEF BootInv

LEMMA BootNextInv == BootInv /\ [BootNext]_<<vars, bootVars>> => BootInv'
BY StartInv, EntryInv, PagingInv, TerminalInv, CheckMagicInv, GdtInv, IsrInv, LidtInv,
   StiInv, MmapStageInv, PciStageInv, GreetInv, ExceptionInv, BootStutter DEF BootNext

\* Boot does not change the map.
LEMMA MapKept == BootInv /\ [BootNext]_<<vars, bootVars>> => UNCHANGED mmap
<1> SUFFICES ASSUME BootInv, [BootNext]_<<vars, bootVars>>
             PROVE  mmap' = mmap
  OBVIOUS
<1>1. Next \/ UNCHANGED vars
  BY DEF BootNext, Exception, _start, _kernel_entry, paging_initialize,
         terminal_initialize, CheckMagic, gdt_initialize, isr_install, lidt, sti,
         mmap_initialize, pci_initialize, Greet
<1>2. QED
  BY <1>1, MmapNext DEF BootInv

\* The inductive invariant of boot.
THEOREM SpecBootInv == BootSpec => []BootInv
BY BootInitInv, BootNextInv, PTL DEF BootSpec

\* Boot ends as the machine says it must: nothing on the way faults but for what
\* the boot loader has put beyond the first 8 MiB, whatever the memory map is.
THEOREM SpecEndsAsDue == BootSpec => []EndsAsDue
<1>1. BootInv => EndsAsDue
  BY DEF BootInv
<1>2. QED
  BY <1>1, SpecBootInv, PTL

\* Interrupts are on only with the kernel's own segments, gates and vectors in
\* place, and the heap is used only when memory and page directory are ready.
THEOREM SpecReadyWhenUsed == BootSpec => []ReadyWhenUsed
<1>1. BootInv => ReadyWhenUsed
  BY DEF BootInv, Control, MapStage, ReadyWhenUsed, WithGdt, WithIdt, WithMap
<1>2. QED
  BY <1>1, SpecBootInv, PTL

\* What mmap_initialize gives is whole pages past the kernel, or a wrapped length
\* if the longest area ends before a page begins there, during boot too.
THEOREM SpecWholePagesUsed == BootSpec /\ LongestBelow => []WholePagesUsed
<1>1. BootInv /\ LongestBelow /\ [BootNext]_<<vars, bootVars>> => LongestBelow'
  BY MapKept, SameMap
<1>2. BootInv /\ LongestBelow => WholePagesUsed
  BY RegionMade DEF BootInv
<1>3. QED
  BY <1>1, <1>2, SpecBootInv, PTL DEF BootSpec

\* The region that boot leaves is one that Paging can be given: what the model
\* of the page allocator assumes is what boot has made before the heap is used,
\* if the longest areas are below 4 GiB and reach a page past the kernel.
THEOREM SpecRegionForPaging ==
  BootSpec /\ LongestBelow /\ LongestReach => []RegionForPaging
<1>1. BootInv /\ LongestBelow /\ LongestReach /\ [BootNext]_<<vars, bootVars>>
        => LongestBelow' /\ LongestReach'
  BY MapKept, SameMap
<1>2. BootInv /\ LongestBelow /\ LongestReach => RegionForPaging
  BY RegionOfFrames DEF BootInv
<1>3. QED
  BY <1>1, <1>2, SpecBootInv, PTL DEF BootSpec

-----------------------------------------------------------------------------
(* read_rtc (Rtc), for every time and mode of the clock and every speed of  *)
(* the reads.  The invariant: what has been read in the pass under way.     *)

FieldSet == {"second", "minute", "hour", "day", "month", "year", "century"}

Reading == pc \in {"first_read", "read"}
HasRead == pc \in {"keep", "compare", "convert"}

\* What register f holds at instant n.
RegisterAt(n, f) ==
  LET v == calendar[n][f]
  IN  IF f = "hour" THEN HourRegister(v) ELSE IF mode.binary THEN v ELSE BCD(v)

ClockTypeOK ==
  /\ calendar \in Calendars
  /\ instant \in 1 .. Len(calendar)
  /\ uip \in BOOLEAN /\ hold \in Nat /\ since \in Nat
  /\ mode \in [binary : BOOLEAN, hours24 : BOOLEAN]
  /\ DOMAIN state = FieldSet
  /\ k \in 1 .. 7
  /\ pc \in {"first_wait", "first_read", "keep", "wait", "read", "compare", "convert",
             "done"}
  /\ pass \in 1 .. instant

\* The flag is raised at most once in a pass, and no more reads have been done
\* since than the pass has: an update that they fit before is not in it.
OnePass ==
  /\ uip => instant < Len(calendar)
  /\ ~Reading => k = 1
  /\ Reading /\ uip => since <= k - 1
  /\ Reading /\ hold >= 7 => pass = instant

\* What has been read is of the instant the pass began at.
PassRead ==
  pass = instant \/ hold >= 7 =>
    /\ Reading => \A m \in 1 .. k - 1 : state[Fields[m]] = RegisterAt(pass, Fields[m])
    /\ HasRead => \A f \in FieldSet : state[f] = RegisterAt(pass, f)

Result ==
  pc = "done" /\ hold >= 7 => \E n \in 1 .. instant : timestamp = TimeShown(n)

RtcInv == ClockTypeOK /\ OnePass /\ PassRead /\ Result

-----------------------------------------------------------------------------
(* The registers and their conversion.                                     *)

LEMMA FieldNames ==
  /\ Len(Fields) = 7
  /\ Fields[1] = "second" /\ Fields[2] = "minute" /\ Fields[3] = "hour"
  /\ Fields[4] = "day" /\ Fields[5] = "month" /\ Fields[6] = "year"
  /\ Fields[7] = "century"
  /\ \A m \in 1 .. 7 : Fields[m] \in FieldSet
  /\ \A m, n \in 1 .. 7 : m # n => Fields[m] # Fields[n]
  /\ \A f \in FieldSet : \E m \in 1 .. 7 : Fields[m] = f
<1>1. /\ Len(Fields) = 7
      /\ Fields[1] = "second" /\ Fields[2] = "minute" /\ Fields[3] = "hour"
      /\ Fields[4] = "day" /\ Fields[5] = "month" /\ Fields[6] = "year"
      /\ Fields[7] = "century"
  BY DEF Fields
<1>2. \A m \in 1 .. 7 : m = 1 \/ m = 2 \/ m = 3 \/ m = 4 \/ m = 5 \/ m = 6 \/ m = 7
  OBVIOUS
<1> HIDE DEF Fields
<1>3. \A m \in 1 .. 7 : Fields[m] \in FieldSet
  BY <1>1, <1>2 DEF FieldSet
<1>4. \A m, n \in 1 .. 7 : m # n => Fields[m] # Fields[n]
  BY <1>1, <1>2
<1>5. \A f \in FieldSet : \E m \in 1 .. 7 : Fields[m] = f
  <2>1. 1 \in 1 .. 7 /\ 2 \in 1 .. 7 /\ 3 \in 1 .. 7 /\ 4 \in 1 .. 7 /\ 5 \in 1 .. 7
        /\ 6 \in 1 .. 7 /\ 7 \in 1 .. 7
    OBVIOUS
  <2>2. QED
    BY <1>1, <2>1 DEF FieldSet
<1>6. QED
  BY <1>1, <1>3, <1>4, <1>5

LEMMA InstantFields ==
  ASSUME NEW t \in Instants
  PROVE  /\ t.hour \in 0 .. 23
         /\ t.second \in Nat /\ t.minute \in Nat /\ t.day \in Nat
         /\ t.month \in Nat /\ t.year \in Nat /\ t.century \in Nat
<1>1. t.hour \in 0 .. 23 /\ t.second \in 0 .. 59 /\ t.minute \in 0 .. 59 /\ t.day \in 1 .. 31
      /\ t.month \in 1 .. 12 /\ t.year \in 0 .. 99 /\ t.century \in 0 .. 99
  BY DEF Instants
<1>2. QED
  BY <1>1

LEMMA Instant ==
  ASSUME calendar \in Calendars, NEW n \in 1 .. Len(calendar)
  PROVE  LET t == calendar[n]
         IN  /\ t \in Instants
             /\ t.hour \in 0 .. 23
             /\ t.second \in Nat /\ t.minute \in Nat /\ t.day \in Nat
             /\ t.month \in Nat /\ t.year \in Nat /\ t.century \in Nat
<1> DEFINE t == calendar[n]
<1>1. t \in Instants
  BY CalendarsAssumption
<1> HIDE DEF t
<1>2. QED
  BY <1>1, InstantFields DEF t

LEMMA BCDRead ==
  ASSUME NEW v \in Nat
  PROVE  FromBCD(BCD(v)) = v
BY DEF FromBCD, BCD

\* What is made of the hour register, in every mode.
HourRead(r) ==
  LET number == IF mode.binary THEN r ELSE HourFromBCD(r)
  IN  IF mode.hours24 THEN number ELSE To24(number)

LEMMA HourShown ==
  ASSUME NEW hour \in 0 .. 23, mode \in [binary : BOOLEAN, hours24 : BOOLEAN]
  PROVE  HourRead(HourRegister(hour))
           = IF ~mode.hours24 /\ hour % 12 = 0 THEN (hour + 12) % 24 ELSE hour
<1> DEFINE twelve == IF hour % 12 = 0 THEN 12 ELSE hour % 12
           pm == IF hour >= 12 THEN PM ELSE 0
<1>1. mode.binary \in BOOLEAN /\ mode.hours24 \in BOOLEAN
  OBVIOUS
<1>2. HourRegister(hour) = IF mode.hours24 THEN (IF mode.binary THEN hour ELSE BCD(hour))
                           ELSE (IF mode.binary THEN twelve ELSE BCD(twelve)) + pm
  BY DEF HourRegister
<1>3. twelve \in 1 .. 12
  OBVIOUS
<1>4. HourFromBCD(BCD(hour)) = hour
  BY DEF HourFromBCD, BCD, PM
<1>5. HourFromBCD(BCD(twelve) + pm) = twelve + pm
  <2>1. \A w \in 1 .. 12 : /\ HourFromBCD(BCD(w) + 0) = w + 0
                           /\ HourFromBCD(BCD(w) + PM) = w + PM
    BY DEF HourFromBCD, BCD, PM
  <2>2. QED
    BY <1>3, <2>1
<1>6. To24(twelve + pm) = IF hour % 12 = 0 THEN (hour + 12) % 24 ELSE hour
  BY DEF To24, PM
<1>7. CASE mode.hours24
  BY <1>1, <1>2, <1>4, <1>7 DEF HourRead
<1>8. CASE ~mode.hours24
  <2>1. HourRead(HourRegister(hour)) = To24(twelve + pm)
    <3> HIDE DEF twelve, pm
    <3>1. CASE mode.binary
      BY <1>2, <1>8, <3>1 DEF HourRead
    <3>2. CASE ~mode.binary
      BY <1>2, <1>5, <1>8, <3>2 DEF HourRead
    <3>3. QED
      BY <3>1, <3>2
  <2>2. QED
    BY <1>6, <1>8, <2>1
<1>9. QED
  BY <1>1, <1>7, <1>8

\* Registers that are all of one instant are converted to what it is shown as.
LEMMA ConvertedShown ==
  ASSUME ClockTypeOK, NEW n \in 1 .. Len(calendar),
         \A f \in FieldSet : state[f] = RegisterAt(n, f)
  PROVE  Converted = TimeShown(n)
<1> DEFINE t == calendar[n]
           six == {"second", "minute", "hour", "day", "month", "year"}
           number(f) == IF mode.binary THEN state[f]
                        ELSE IF f = "hour" THEN HourFromBCD(state[f])
                        ELSE FromBCD(state[f])
<1>1. /\ t.hour \in 0 .. 23 /\ t.second \in Nat /\ t.minute \in Nat /\ t.day \in Nat
      /\ t.month \in Nat /\ t.year \in Nat /\ t.century \in Nat
  BY Instant DEF ClockTypeOK
<1>2. mode \in [binary : BOOLEAN, hours24 : BOOLEAN]
  BY DEF ClockTypeOK
<1>3. /\ state["second"] = IF mode.binary THEN t.second ELSE BCD(t.second)
      /\ state["minute"] = IF mode.binary THEN t.minute ELSE BCD(t.minute)
      /\ state["day"] = IF mode.binary THEN t.day ELSE BCD(t.day)
      /\ state["month"] = IF mode.binary THEN t.month ELSE BCD(t.month)
      /\ state["year"] = IF mode.binary THEN t.year ELSE BCD(t.year)
      /\ state["century"] = IF mode.binary THEN t.century ELSE BCD(t.century)
      /\ state["hour"] = HourRegister(t.hour)
  BY DEF RegisterAt, FieldSet
<1>4. /\ number("second") = t.second /\ number("minute") = t.minute
      /\ number("day") = t.day /\ number("month") = t.month
      /\ number("year") = t.year /\ number("century") = t.century
  BY <1>1, <1>3, BCDRead
<1>5. (IF mode.hours24 THEN number("hour") ELSE To24(number("hour")))
        = IF ~mode.hours24 /\ t.hour % 12 = 0 THEN (t.hour + 12) % 24 ELSE t.hour
  <2>1. number("hour") = IF mode.binary THEN HourRegister(t.hour)
                         ELSE HourFromBCD(HourRegister(t.hour))
    BY <1>3
  <2>2. HourRead(HourRegister(t.hour))
          = IF ~mode.hours24 /\ t.hour % 12 = 0 THEN (t.hour + 12) % 24 ELSE t.hour
    BY <1>1, <1>2, HourShown
  <2> HIDE DEF t
  <2>3. QED
    BY <2>1, <2>2 DEF HourRead
<1>6. Converted = [f \in six |->
                     CASE f = "hour" -> IF mode.hours24 THEN number("hour")
                                        ELSE To24(number("hour"))
                       [] f = "year" -> number("year") + number("century") * 100
                       [] OTHER      -> number(f)]
  BY DEF Converted
<1> HIDE DEF number
<1>7. /\ Converted["hour"] = IF ~mode.hours24 /\ t.hour % 12 = 0 THEN (t.hour + 12) % 24
                              ELSE t.hour
      /\ Converted["year"] = t.year + t.century * 100
      /\ Converted["second"] = t.second /\ Converted["minute"] = t.minute
      /\ Converted["day"] = t.day /\ Converted["month"] = t.month
      /\ DOMAIN Converted = six
  BY <1>4, <1>5, <1>6
<1>8. /\ TimeShown(n)["hour"] = IF ~mode.hours24 /\ t.hour % 12 = 0 THEN (t.hour + 12) % 24
                            ELSE t.hour
      /\ TimeShown(n)["year"] = t.year + t.century * 100
      /\ TimeShown(n)["second"] = t.second /\ TimeShown(n)["minute"] = t.minute
      /\ TimeShown(n)["day"] = t.day /\ TimeShown(n)["month"] = t.month
      /\ DOMAIN TimeShown(n) = six
  BY DEF TimeShown
<1>9. Converted = [f \in six |-> Converted[f]] /\ TimeShown(n) = [f \in six |-> TimeShown(n)[f]]
  <2>1. Converted = [f \in six |-> Converted[f]]
    BY <1>6, <1>7
  <2>2. TimeShown(n) = [f \in six |-> TimeShown(n)[f]]
    BY DEF TimeShown
  <2>3. QED
    BY <2>1, <2>2
<1>10. \A f \in six : Converted[f] = TimeShown(n)[f]
  BY <1>7, <1>8
<1>11. QED
  BY <1>9, <1>10

-----------------------------------------------------------------------------
(* The invariant of read_rtc holds initially, and every action keeps it.    *)

LEMMA RtcInitInv == RtcInit => RtcInv
<1> SUFFICES ASSUME RtcInit PROVE RtcInv
  OBVIOUS
<1>1. instant = 1 /\ k = 1 /\ pass = 1 /\ pc = "first_wait" /\ uip = FALSE
  BY DEF RtcInit
<1>2. Len(calendar) \in Nat /\ Len(calendar) # 0
  BY CalendarsAssumption, EmptySeq DEF RtcInit
<1>3. DOMAIN state = FieldSet
  <2>1. {Fields[m] : m \in DOMAIN Fields} = FieldSet
    <3>1. DOMAIN Fields = 1 .. 7
      BY DEF Fields
    <3>2. QED
      BY <3>1, FieldNames
  <2>2. QED
    BY <2>1 DEF RtcInit, Blank
<1>4. ClockTypeOK
  <2>1. calendar \in Calendars /\ hold \in Nat /\ since \in Nat /\ uip \in BOOLEAN
        /\ mode \in [binary : BOOLEAN, hours24 : BOOLEAN]
    BY HoldAssumption DEF RtcInit
  <2>2. instant \in 1 .. Len(calendar) /\ pass \in 1 .. instant /\ k \in 1 .. 7
    BY <1>1, <1>2
  <2>3. QED
    BY <1>1, <1>3, <2>1, <2>2 DEF ClockTypeOK
<1>5. OnePass /\ PassRead /\ Result
  BY <1>1 DEF OnePass, PassRead, Result, Reading, HasRead
<1>6. QED
  BY <1>4, <1>5 DEF RtcInv

LEMMA AgedSound ==
  ASSUME ClockTypeOK
  PROVE  Aged \in Nat /\ (uip => Aged <= since + 1) /\ (~uip => Aged = since)
BY DEF Aged, ClockTypeOK

LEMMA WaitInv ==
  ASSUME RtcInv, Wait
  PROVE  RtcInv'
<1>1. /\ pc \in {"first_wait", "wait"} /\ since' = Aged
      /\ UNCHANGED <<calendar, instant, uip, hold, mode, state, last_state, k, timestamp>>
      /\ ClockTypeOK
  BY DEF Wait, RtcInv
<1>2. Aged \in Nat
  BY <1>1, AgedSound
<1>3. CASE ~uip
  <2>1. pc' \in {"first_read", "read"} /\ pass' = instant
    BY <1>1, <1>3 DEF Wait, MayRead
  <2>2. ClockTypeOK'
    BY <1>1, <1>2, <2>1 DEF ClockTypeOK
  <2>3. k = 1
    BY <1>1 DEF RtcInv, OnePass, Reading
  <2>4. OnePass'
    BY <1>1, <1>3, <2>1, <2>3 DEF OnePass, Reading
  <2>5. PassRead'
    BY <1>1, <2>1, <2>3 DEF PassRead, Reading, HasRead
  <2>6. Result'
    BY <2>1 DEF Result
  <2>7. QED
    BY <2>2, <2>4, <2>5, <2>6 DEF RtcInv
<1>4. CASE uip
  <2>1. UNCHANGED <<pc, pass>>
    BY <1>4 DEF Wait, MayRead
  <2>2. ClockTypeOK'
    BY <1>1, <1>2, <2>1 DEF ClockTypeOK
  <2>3. OnePass' /\ PassRead' /\ Result'
    BY <1>1, <2>1 DEF RtcInv, OnePass, PassRead, Result, Reading, HasRead
  <2>4. QED
    BY <2>2, <2>3 DEF RtcInv
<1>5. uip \in BOOLEAN
  BY <1>1 DEF ClockTypeOK
<1>6. QED
  BY <1>3, <1>4, <1>5

LEMMA ReadRegisterInv ==
  ASSUME RtcInv, ReadRegister
  PROVE  RtcInv'
<1>1. /\ pc \in {"first_read", "read"} /\ since' = Aged
      /\ state' = [state EXCEPT ![Fields[k]] = Register(Fields[k])]
      /\ k' = NextRegister
      /\ pc' = (IF k < 7 THEN pc ELSE IF pc = "read" THEN "compare" ELSE "keep")
      /\ UNCHANGED <<calendar, instant, uip, hold, mode, last_state, pass, timestamp>>
      /\ ClockTypeOK
  BY FieldNames DEF ReadRegister, RtcInv
<1>2. Aged \in Nat /\ (uip => Aged <= since + 1)
  BY <1>1, AgedSound
<1>3. k \in 1 .. 7 /\ k' = (IF k = 7 THEN 1 ELSE k + 1) /\ k' \in 1 .. 7
  BY <1>1, FieldNames DEF ClockTypeOK, NextRegister
<1>4. pc' \in {"first_read", "read", "compare", "keep"} /\ (pc' \in {"first_read", "read"} <=> k < 7)
  BY <1>1, <1>3
<1>5. ClockTypeOK'
  <2>1. DOMAIN state' = FieldSet
    BY <1>1 DEF ClockTypeOK
  <2>2. QED
    BY <1>1, <1>2, <1>3, <1>4, <2>1 DEF ClockTypeOK
<1>6. OnePass'
  <2>1. since \in Nat /\ (uip => since <= k - 1)
    BY <1>1 DEF RtcInv, OnePass, Reading, ClockTypeOK
  <2>2. QED
    BY <1>1, <1>2, <1>3, <1>4, <2>1 DEF RtcInv, OnePass, Reading
<1>7. PassRead'
  <2> SUFFICES ASSUME pass = instant \/ hold >= 7
               PROVE  \A m \in 1 .. k : state'[Fields[m]] = RegisterAt(pass, Fields[m])
    <3>1. (\A m \in 1 .. k : state'[Fields[m]] = RegisterAt(pass, Fields[m]))
            => /\ Reading' => \A m \in 1 .. k' - 1 : state'[Fields[m]] = RegisterAt(pass, Fields[m])
               /\ HasRead' => \A f \in FieldSet : state'[f] = RegisterAt(pass, f)
      <4>1. Reading' => k' - 1 = k
        BY <1>3, <1>4 DEF Reading
      <4>2. HasRead' => k = 7
        BY <1>3, <1>4 DEF HasRead
      <4>3. QED
        BY <4>1, <4>2, FieldNames
    <3>2. \A m : RegisterAt(pass, m)' = RegisterAt(pass, m)
      BY <1>1 DEF RegisterAt, HourRegister
    <3>3. QED
      BY <1>1, <3>1, <3>2 DEF PassRead
  <2>1. pass = instant
    BY <1>1 DEF RtcInv, OnePass, Reading
  <2>2. Register(Fields[k]) = RegisterAt(pass, Fields[k])
    BY <2>1 DEF Register, RegisterAt
  <2>3. \A m \in 1 .. k - 1 : state[Fields[m]] = RegisterAt(pass, Fields[m])
    BY <1>1 DEF RtcInv, PassRead, Reading
  <2>4. TAKE m \in 1 .. k
  <2>5. m \in 1 .. 7 /\ Fields[m] \in FieldSet /\ Fields[k] \in FieldSet
    BY <1>3, FieldNames
  <2>6. CASE m = k
    BY <1>1, <2>2, <2>5, <2>6 DEF ClockTypeOK
  <2>7. CASE m # k
    <3>1. m \in 1 .. k - 1
      BY <1>3, <2>5, <2>7
    <3>2. Fields[m] # Fields[k]
      BY <1>3, <2>5, <2>7, FieldNames
    <3>3. state'[Fields[m]] = state[Fields[m]]
      BY <1>1, <2>5, <3>2 DEF ClockTypeOK
    <3>4. QED
      BY <2>3, <3>1, <3>3
  <2>8. QED
    BY <2>6, <2>7
<1>8. Result'
  BY <1>4 DEF Result
<1>9. QED
  BY <1>5, <1>6, <1>7, <1>8 DEF RtcInv

\* Keep and Compare: what has been read stays.
LEMMA PassOverInv ==
  ASSUME RtcInv, Keep \/ Compare
  PROVE  RtcInv'
<1>1. /\ pc \in {"keep", "compare"} /\ pc' \in {"wait", "keep", "convert"}
      /\ pc = "keep" => pc' = "wait"
      /\ UNCHANGED <<calendar, instant, uip, hold, since, mode, state, k, pass, timestamp>>
      /\ ClockTypeOK
  BY DEF Keep, Compare, clock, RtcInv
<1>2. ClockTypeOK'
  BY <1>1 DEF ClockTypeOK
<1>3. OnePass' /\ Result'
  BY <1>1 DEF RtcInv, OnePass, Result, Reading
<1>4. PassRead'
  <2>1. \A m, f : RegisterAt(m, f)' = RegisterAt(m, f)
    BY <1>1 DEF RegisterAt, HourRegister
  <2>2. ~Reading' /\ (HasRead' => HasRead)
    BY <1>1 DEF Reading, HasRead
  <2>3. QED
    BY <1>1, <2>1, <2>2 DEF RtcInv, PassRead
<1>5. QED
  BY <1>2, <1>3, <1>4 DEF RtcInv

LEMMA SameShown ==
  ASSUME UNCHANGED <<calendar, mode>>
  PROVE  /\ \A n, f : RegisterAt(n, f)' = RegisterAt(n, f)
         /\ \A n : TimeShown(n)' = TimeShown(n)
BY DEF RegisterAt, HourRegister, TimeShown

\* What Convert makes of a pass that no update was in.
LEMMA ConvertShows ==
  ASSUME RtcInv, Convert, pass = instant \/ hold >= 7
  PROVE  timestamp' = TimeShown(pass)
<1>1. \A f \in FieldSet : state[f] = RegisterAt(pass, f)
  BY DEF Convert, RtcInv, PassRead, HasRead
<1>2. pass \in 1 .. Len(calendar)
  <2>1. pass \in 1 .. instant /\ instant \in 1 .. Len(calendar)
    BY DEF RtcInv, ClockTypeOK
  <2>2. Len(calendar) \in Nat
    BY CalendarsAssumption, EmptySeq DEF RtcInv, ClockTypeOK
  <2>3. QED
    BY <2>1, <2>2
<1>3. Converted = TimeShown(pass)
  BY <1>1, <1>2, ConvertedShown DEF RtcInv
<1>4. QED
  BY <1>3 DEF Convert

LEMMA ConvertInv ==
  ASSUME RtcInv, Convert
  PROVE  RtcInv'
<1>1. /\ pc = "convert" /\ pc' = "done"
      /\ UNCHANGED <<calendar, instant, uip, hold, since, mode, state, k, pass>>
      /\ ClockTypeOK
  BY DEF Convert, clock, RtcInv
<1>2. ClockTypeOK'
  BY <1>1 DEF ClockTypeOK
<1>3. OnePass' /\ PassRead'
  BY <1>1 DEF RtcInv, OnePass, PassRead, Reading, HasRead
<1>4. Result'
  <2> SUFFICES ASSUME hold >= 7
               PROVE  \E n \in 1 .. instant : timestamp' = TimeShown(n)
    BY <1>1, SameShown DEF Result
  <2>1. timestamp' = TimeShown(pass)
    BY ConvertShows
  <2>2. QED
    BY <1>1, <2>1 DEF ClockTypeOK
<1>5. QED
  BY <1>2, <1>3, <1>4 DEF RtcInv

LEMMA RaiseFlagInv ==
  ASSUME RtcInv, RaiseFlag
  PROVE  RtcInv'
<1>1. /\ uip' = TRUE /\ since' = 0 /\ instant < Len(calendar)
      /\ UNCHANGED <<calendar, instant, hold, mode, state, last_state, k, pc, pass,
                     timestamp>>
      /\ ClockTypeOK
  BY DEF RaiseFlag, RtcInv
<1>2. ClockTypeOK'
  BY <1>1 DEF ClockTypeOK
<1>3. OnePass'
  BY <1>1 DEF RtcInv, OnePass, Reading, ClockTypeOK
<1>4. PassRead' /\ Result'
  BY <1>1, SameShown DEF RtcInv, PassRead, Result, Reading, HasRead
<1>5. QED
  BY <1>2, <1>3, <1>4 DEF RtcInv

LEMMA UpdateInv ==
  ASSUME RtcInv, Update
  PROVE  RtcInv'
<1>1. /\ uip /\ since = hold /\ instant' = instant + 1 /\ uip' = FALSE /\ since' = 0
      /\ UNCHANGED <<calendar, hold, mode, state, last_state, k, pc, pass, timestamp>>
      /\ ClockTypeOK /\ instant < Len(calendar) /\ calendar \in Calendars
  BY DEF Update, RtcInv, OnePass, ClockTypeOK
<1>2. Len(calendar) \in Nat
  BY <1>1, CalendarsAssumption, EmptySeq
<1>3. instant \in Nat /\ instant \in 1 .. Len(calendar) /\ pass \in 1 .. instant
      /\ k \in 1 .. 7 /\ since \in Nat /\ hold \in Nat
  BY <1>1, <1>2 DEF ClockTypeOK
<1>4. instant' \in 1 .. Len(calendar) /\ pass' \in 1 .. instant' /\ pass' # instant'
      /\ 1 .. instant \subseteq 1 .. instant'
  BY <1>1, <1>2, <1>3
<1>5. ClockTypeOK'
  BY <1>1, <1>4 DEF ClockTypeOK
<1>6. Reading /\ hold >= 7 => FALSE
  BY <1>1, <1>3 DEF RtcInv, OnePass
<1>7. Reading' = Reading /\ HasRead' = HasRead
  BY <1>1 DEF Reading, HasRead
<1>8. OnePass'
  BY <1>1, <1>6, <1>7 DEF RtcInv, OnePass
<1>9. PassRead'
  BY <1>1, <1>4, <1>6, <1>7, SameShown DEF RtcInv, PassRead
<1>10. Result'
  BY <1>1, <1>4, SameShown DEF RtcInv, Result
<1>11. QED
  BY <1>5, <1>8, <1>9, <1>10 DEF RtcInv

LEMMA RtcStutter ==
  ASSUME RtcInv, UNCHANGED rtcVars
  PROVE  RtcInv'
<1>1. UNCHANGED <<calendar, instant, uip, hold, since, mode, state, last_state, k, pc,
                  pass, timestamp>>
  BY DEF rtcVars, clock
<1>2. ClockTypeOK' /\ OnePass'
  BY <1>1 DEF RtcInv, ClockTypeOK, OnePass, Reading
<1>3. PassRead' /\ Result'
  BY <1>1, SameShown DEF RtcInv, PassRead, Result, Reading, HasRead
<1>4. QED
  BY <1>2, <1>3 DEF RtcInv

LEMMA RtcNextInv == RtcInv /\ [RtcNext]_rtcVars => RtcInv'
BY WaitInv, ReadRegisterInv, PassOverInv, ConvertInv, RaiseFlagInv, UpdateInv, RtcStutter
   DEF RtcNext, Reader

-----------------------------------------------------------------------------
(* The theorems about read_rtc.                                            *)

\* The inductive invariant of read_rtc.
THEOREM SpecRtcInv == RtcSpec => []RtcInv
BY RtcInitInv, RtcNextInv, PTL DEF RtcSpec

\* What read_rtc returns is a time the clock had during the call, but for the
\* hours from noon and midnight of a 12-hour clock (TimeShown), in every mode
\* of the chip, if the seven reads of a pass fit between flag and update.
THEOREM SpecTimestampWasTime == RtcSpec => []TimestampWasTime
<1>1. RtcInv => TimestampWasTime
  BY FieldNames DEF RtcInv, Result, TimestampWasTime
<1>2. QED
  BY <1>1, SpecRtcInv, PTL

\* However slow the reads are, only an update during the last pass can tear the
\* timestamp.
THEOREM SpecTornOnlyByUpdate == RtcSpec => TornOnlyByUpdate
<1>1. RtcInv /\ [RtcNext]_rtcVars => [Convert => timestamp' = TimeShown(pass) \/ pass < instant]_rtcVars
  <2> SUFFICES ASSUME RtcInv, Convert, ~(pass < instant)
               PROVE  timestamp' = TimeShown(pass)
    OBVIOUS
  <2>1. pass \in 1 .. instant /\ instant \in 1 .. Len(calendar) /\ calendar \in Calendars
    BY DEF RtcInv, ClockTypeOK
  <2>2. Len(calendar) \in Nat
    BY <2>1, CalendarsAssumption, EmptySeq
  <2>3. pass = instant
    BY <2>1, <2>2
  <2>4. QED
    BY <2>3, ConvertShows
<1>2. QED
  BY <1>1, SpecRtcInv, PTL DEF RtcSpec, TornOnlyByUpdate
=============================================================================
