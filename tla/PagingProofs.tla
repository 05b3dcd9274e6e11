---------------------------- MODULE PagingProofs ----------------------------
(***************************************************************************)
(* Proofs about the page allocator of Paging, for every size of the        *)
(* bitmap, of the page tables and of the free region, and for any number   *)
(* of calls of alloc_pages and free_pages in any order.                    *)
(***************************************************************************)
EXTENDS Paging, SequenceTheorems, TLAPS

-----------------------------------------------------------------------------
(* Arithmetic of page numbers.                                             *)

LEMMA Frames == FRAMES \in Nat /\ FRAMES > 0
BY DEF FRAMES

LEMMA Sizes ==
  Tables \in Nat /\ Entries \in Nat /\ DirSize \in Nat
  /\ Tables > 0 /\ Entries > 0 /\ DirSize > Tables + 3
BY SizesAssumption

\* The free region lies in the 32-bit address space, after the kernel.
LEMMA Region ==
  ASSUME mmap_free_memory_length \in FreeLengths
  PROVE  /\ FreeBase \in Nat /\ KernelEnd \in Nat /\ KernelEnd <= FreeBase
         /\ mmap_free_memory_length \in Nat
         /\ FreeBase + mmap_free_memory_length <= FRAMES
BY RegionAssumption

\* A page number splits into the directory slot and the table entry that
\* map_page and unmap_page compute from it.
LEMMA PageSplit ==
  ASSUME NEW v \in Nat
  PROVE  /\ pd_index(v) \in Nat
         /\ pt_index(v) \in 0 .. Entries - 1
         /\ v = pd_index(v) * Entries + pt_index(v)
BY SizesAssumption DEF pd_index, pt_index

\* Pages below the kernel's slots have a free page table; a block of at most
\* one page table's worth of pages that starts there ends before those slots.
LEMMA PageSlot ==
  ASSUME NEW v \in Nat, NEW k \in Nat, v < k * Entries
  PROVE  pd_index(v) < k
<1>1. pd_index(v) \in Nat /\ pt_index(v) \in Nat
      /\ v = pd_index(v) * Entries + pt_index(v)
  BY PageSplit
<1>2. ASSUME pd_index(v) >= k
      PROVE  FALSE
  <2>1. pd_index(v) * Entries >= k * Entries
    BY <1>1, <1>2, SizesAssumption
  <2>2. QED
    BY <2>1, <1>1, SizesAssumption
<1>3. QED
  BY <1>1, <1>2

LEMMA VPageSlot ==
  ASSUME NEW v \in VPage
  PROVE  v \in Nat /\ pd_index(v) \in 0 .. Tables - 1
         /\ pt_index(v) \in 0 .. Entries - 1
<1>1. Tables \in Nat /\ Tables * Entries \in Nat
  BY SizesAssumption
<1>2. v \in Nat /\ v < Tables * Entries
  BY <1>1 DEF VPage
<1>3. pd_index(v) < Tables
  BY <1>1, <1>2, PageSlot
<1>4. pd_index(v) \in Nat /\ pt_index(v) \in 0 .. Entries - 1
  BY <1>2, PageSplit
<1>5. QED
  BY <1>1, <1>2, <1>3, <1>4

LEMMA VPageTable ==
  ASSUME NEW v \in VPage
  PROVE  ~NoPageTable(v)
<1>1. pd_index(v) \in 0 .. Tables - 1 /\ Tables \in Nat
  BY VPageSlot, Sizes
<1>2. QED
  BY <1>1 DEF NoPageTable

\* Two pages with the same slot and entry are one page.
LEMMA PageUnique ==
  ASSUME NEW v \in Nat, NEW w \in Nat,
         pd_index(v) = pd_index(w), pt_index(v) = pt_index(w)
  PROVE  v = w
BY PageSplit

\* The page alloc_page computes for a slot it scans has a free page table,
\* and so does the page after it, at which it is mapped.
LEMMA ScannedPage ==
  ASSUME NEW s \in Word \X ScannedBits
  PROVE  /\ page_index(s[1], s[2]) \in Nat
         /\ page_virtual_address(page_index(s[1], s[2])) \in VPage
<1>1. s[1] \in 0 .. Words - 1 /\ s[2] \in 1 .. 31
  BY DEF Word, ScannedBits, WORD_BITS
<1>2. s[1] * 32 + (31 - s[2]) + 1 < Words * 32
  BY <1>1, SizesAssumption
<1>3. QED
  BY <1>1, <1>2, SizesAssumption
     DEF page_index, page_virtual_address, VPage, WORD_BITS

-----------------------------------------------------------------------------
(* The inductive invariant.  FrameSafety is not inductive: map_page writes *)
(* a frame without looking at the other entries.  TableSound says where    *)
(* each frame may appear; the bounds on blocks and on the call in progress *)
(* keep free_page inside page_bitmap and page_directory, although its page *)
(* index is one too large; DirectorySound keeps the walk out of the        *)
(* kernel's tables; NoTableAbort and TlbCoherent are inductive with them.  *)

FrameOf(v) == free_page_tables[pd_index(v)][pt_index(v)]

\* Page v of the free tables is unmapped or mapped to frame v - 1 of the
\* free region (alloc_page, paging.c:125-128).
TableSound ==
  \A v \in VPage :
    FrameOf(v) # NotPresent =>
      /\ v >= 1 /\ v - 1 < mmap_free_memory_length
      /\ FrameOf(v) = FreeBase + (v - 1)

BlocksBounded ==
  \A i \in DOMAIN blocks : blocks[i].ptr \in VPage /\ blocks[i].n \in 1 .. Entries

OpBounded ==
  op.kind # "idle" => op.ptr \in VPage /\ op.n \in 1 .. Entries

IndInv ==
  /\ TypeOK
  /\ DirectorySound
  /\ TableSound
  /\ BlocksBounded
  /\ OpBounded
  /\ NoTableAbort
  /\ TlbCoherent

-----------------------------------------------------------------------------
(* map_page and unmap_page.                                                *)

\* The part of the invariant that map_page and unmap_page can disturb.
PagesInv ==
  /\ mmap_free_memory_length \in FreeLengths
  /\ page_directory \in [0 .. DirSize - 1 -> Table \cup {NotPresent}]
  /\ free_page_tables \in
       [0 .. Tables - 1 -> [0 .. Entries - 1 -> NotPresent .. FRAMES - 1]]
  /\ tlb \in [Watched -> NotPresent .. FRAMES - 1]
  /\ DirectorySound
  /\ TableSound
  /\ TlbCoherent

\* The walk of get_physical_address from a page below the kernel's slots ends
\* in the free table of the page's own slot, or nowhere.
LEMMA Walk ==
  ASSUME NEW v \in Nat, pd_index(v) \in 0 .. Tables, DirectorySound
  PROVE  /\ page_directory[pd_index(v)] \in {NotPresent, pd_index(v)}
         /\ get_physical_address(v) # NotPresent =>
              /\ pd_index(v) < Tables
              /\ page_directory[pd_index(v)] = pd_index(v)
              /\ get_physical_address(v) = FrameOf(v)
<1>1. pd_index(v) \in 0 .. DirSize - 1 /\ pd_index(v) < DirSize - 1
      /\ pd_index(v) < KERNEL_PAGE_DIRECTORY_START
  BY Sizes DEF KERNEL_PAGE_DIRECTORY_START
<1>2. page_directory[pd_index(v)] =
        IF pd_index(v) < Tables /\ page_directory[pd_index(v)] # NotPresent
        THEN pd_index(v) ELSE NotPresent
  BY <1>1, Sizes DEF DirectorySound
<1>3. QED
  BY <1>1, <1>2 DEF get_physical_address, FrameOf

\* map_page keeps the directory, the tables and the TLB sound when it maps a
\* page of the free tables to its own frame.
LEMMA MapStep ==
  ASSUME PagesInv, NEW v \in VPage, v >= 1, v - 1 < mmap_free_memory_length,
         map_page(FreeBase + (v - 1), v), UNCHANGED mmap_free_memory_length
  PROVE  PagesInv'
<1> DEFINE d == pd_index(v)
           e == pt_index(v)
           f == FreeBase + (v - 1)
<1>1. v \in Nat /\ d \in 0 .. Tables - 1 /\ e \in 0 .. Entries - 1
  BY VPageSlot
<1>2. f \in 0 .. FRAMES - 1
  BY <1>1, Frames, Region DEF PagesInv
<1>3. page_directory[d] \in {NotPresent, d}
  BY <1>1, Walk, Sizes DEF PagesInv
<1>4. d \in 0 .. DirSize - 1 /\ d \in Table /\ d # NotPresent
  BY <1>1, Sizes DEF Table, SelfTable, KERNEL_PAGE_TABLES_SIZE, NotPresent
<1>5. /\ page_directory' = [page_directory EXCEPT ![d] = d]
      /\ free_page_tables' = [free_page_tables EXCEPT ![d][e] = f]
      /\ tlb' = [w \in Watched |-> IF w = v THEN NotPresent ELSE tlb[w]]
  BY <1>3, <1>4 DEF map_page
<1>6. page_directory' \in [0 .. DirSize - 1 -> Table \cup {NotPresent}]
  BY <1>4, <1>5 DEF PagesInv
<1>7. free_page_tables' \in
        [0 .. Tables - 1 -> [0 .. Entries - 1 -> NotPresent .. FRAMES - 1]]
  BY <1>1, <1>2, <1>5, Frames DEF PagesInv, NotPresent
<1>8. tlb' \in [Watched -> NotPresent .. FRAMES - 1]
  BY <1>5, Frames DEF PagesInv, NotPresent
<1>9. DirectorySound'
  <2>1. \A i \in 0 .. DirSize - 1 :
          page_directory'[i] = IF i = d THEN d ELSE page_directory[i]
    BY <1>5 DEF PagesInv
  <2>2. ASSUME NEW i \in 0 .. Tables - 1
        PROVE  page_directory'[i] \in {NotPresent, i}
    <3>1. i \in 0 .. DirSize - 1 /\ page_directory[i] \in {NotPresent, i}
      BY Sizes DEF PagesInv, DirectorySound
    <3>2. QED
      BY <2>1, <3>1
  <2>3. \A i \in Tables .. DirSize - 1 : page_directory'[i] = page_directory[i]
    BY <1>1, <2>1, Sizes
  <2>4. QED
    BY <2>2, <2>3, Sizes
       DEF PagesInv, DirectorySound, KERNEL_PAGE_DIRECTORY_START
<1>10. \A w \in VPage : FrameOf(w)' = IF w = v THEN f ELSE FrameOf(w)
  <2> TAKE w \in VPage
  <2>1. w \in Nat /\ pd_index(w) \in 0 .. Tables - 1
        /\ pt_index(w) \in 0 .. Entries - 1
    BY VPageSlot
  <2>2. pd_index(w) = d /\ pt_index(w) = e => w = v
    BY <1>1, <2>1, PageUnique
  <2>3. QED
    BY <1>1, <1>5, <2>1, <2>2 DEF FrameOf, PagesInv
<1>11. TableSound'
  BY <1>10 DEF TableSound, PagesInv
<1>12. TlbCoherent'
  <2> SUFFICES ASSUME NEW w \in Watched, tlb'[w] # NotPresent
               PROVE  tlb'[w] = get_physical_address(w)'
    BY DEF TlbCoherent
  <2>1. w # v /\ tlb'[w] = tlb[w]
    BY <1>5
  <2>2. w \in VPage
    BY WatchedAssumption DEF VPage
  <2>3. w \in Nat /\ pd_index(w) \in 0 .. Tables - 1
    BY <2>2, VPageSlot
  <2>4. get_physical_address(w) = tlb[w]
    BY <2>1 DEF PagesInv, TlbCoherent
  <2>5. pd_index(w) < Tables /\ page_directory[pd_index(w)] = pd_index(w)
        /\ tlb[w] = FrameOf(w)
    BY <2>1, <2>3, <2>4, Walk, Sizes DEF PagesInv
  <2>6. page_directory'[pd_index(w)] = pd_index(w)
    BY <1>4, <1>5, <2>3, <2>5, Sizes DEF PagesInv
  <2>7. get_physical_address(w)' = FrameOf(w)'
    BY <2>3, <2>6, Sizes
       DEF get_physical_address, FrameOf, NotPresent
  <2>8. QED
    BY <2>1, <2>2, <2>5, <2>7, <1>10
<1>13. QED
  BY <1>6, <1>7, <1>8, <1>9, <1>11, <1>12 DEF PagesInv

\* unmap_page keeps them sound for every page number free_pages can compute,
\* the pages past the last free table included.
LEMMA UnmapStep ==
  ASSUME PagesInv, NEW v \in Nat, pd_index(v) \in 0 .. Tables,
         unmap_page(v), UNCHANGED <<page_directory, mmap_free_memory_length>>
  PROVE  PagesInv'
<1>1. CASE get_physical_address(v) = NotPresent
  <2>1. UNCHANGED <<page_directory, free_page_tables, tlb>>
    BY <1>1 DEF unmap_page
  <2>2. QED
    BY <2>1 DEF PagesInv, DirectorySound, TableSound, TlbCoherent, FrameOf,
                get_physical_address
<1>2. CASE get_physical_address(v) # NotPresent
  <2> DEFINE d == pd_index(v)
             e == pt_index(v)
  <2>1. d \in 0 .. Tables - 1 /\ page_directory[d] = d
    BY <1>2, Walk, Sizes DEF PagesInv
  <2>2. e \in 0 .. Entries - 1
    BY PageSplit
  <2>3. /\ free_page_tables' = [free_page_tables EXCEPT ![d][e] = NotPresent]
        /\ tlb' = [w \in Watched |-> IF w = v THEN NotPresent ELSE tlb[w]]
    BY <1>2, <2>1 DEF unmap_page
  <2>4. free_page_tables' \in
          [0 .. Tables - 1 -> [0 .. Entries - 1 -> NotPresent .. FRAMES - 1]]
    BY <2>1, <2>2, <2>3, Frames DEF PagesInv, NotPresent
  <2>5. tlb' \in [Watched -> NotPresent .. FRAMES - 1]
    BY <2>3, Frames DEF PagesInv, NotPresent
  <2>6. DirectorySound'
    BY DEF PagesInv, DirectorySound
  <2>7. \A w \in VPage : FrameOf(w)' = IF w = v THEN NotPresent ELSE FrameOf(w)
    <3> TAKE w \in VPage
    <3>1. w \in Nat /\ pd_index(w) \in 0 .. Tables - 1
          /\ pt_index(w) \in 0 .. Entries - 1
      BY VPageSlot
    <3>2. pd_index(w) = d /\ pt_index(w) = e => w = v
      BY <3>1, PageUnique
    <3>3. QED
      BY <2>1, <2>2, <2>3, <3>1, <3>2 DEF FrameOf, PagesInv
  <2>8. TableSound'
    BY <2>7 DEF TableSound, PagesInv
  <2>9. TlbCoherent'
    <3> SUFFICES ASSUME NEW w \in Watched, tlb'[w] # NotPresent
                 PROVE  tlb'[w] = get_physical_address(w)'
      BY DEF TlbCoherent
    <3>1. w # v /\ tlb'[w] = tlb[w]
      BY <2>3
    <3>2. w \in VPage
      BY WatchedAssumption DEF VPage
    <3>3. w \in Nat /\ pd_index(w) \in 0 .. Tables - 1
      BY <3>2, VPageSlot
    <3>4. get_physical_address(w) = tlb[w]
      BY <3>1 DEF PagesInv, TlbCoherent
    <3>5. page_directory[pd_index(w)] = pd_index(w) /\ tlb[w] = FrameOf(w)
      <4>1. tlb[w] # NotPresent /\ DirectorySound
        BY <3>1 DEF PagesInv
      <4>2. pd_index(w) \in 0 .. Tables
        BY <3>3, Sizes
      <4>3. QED
        BY <3>3, <3>4, <4>1, <4>2, Walk
    <3>6. get_physical_address(w)' = FrameOf(w)'
      BY <3>3, <3>5, Sizes
         DEF get_physical_address, FrameOf, NotPresent
    <3>7. QED
      BY <3>1, <3>2, <3>5, <3>6, <2>7
  <2>10. QED
    BY <2>4, <2>5, <2>6, <2>8, <2>9 DEF PagesInv
<1>3. QED
  BY <1>1, <1>2

-----------------------------------------------------------------------------
(* The invariant holds initially and every action keeps it.                *)

LEMMA IdleCall == Idle \in Call /\ Idle.left <= Idle.n
BY DEF Idle, Call, NULL

LEMMA InitInv == Init => IndInv
<1> SUFFICES ASSUME Init PROVE IndInv
  OBVIOUS
<1>1. page_directory \in [0 .. DirSize - 1 -> Table \cup {NotPresent}]
  BY Sizes DEF Init, Table, SelfTable, KERNEL_PAGE_TABLES_SIZE
<1>2. free_page_tables \in
        [0 .. Tables - 1 -> [0 .. Entries - 1 -> NotPresent .. FRAMES - 1]]
  BY Frames DEF Init, NotPresent
<1>3. page_bitmap \in [Word -> SUBSET Bits]
  BY DEF Init
<1>4. tlb \in [Watched -> NotPresent .. FRAMES - 1]
  BY Frames DEF Init, NotPresent
<1>5. TypeOK
  <2>1. op \in Call /\ op.left <= op.n
    BY IdleCall DEF Init
  <2>2. blocks \in Seq(Block) /\ calls \in Nat
    BY DEF Init
  <2>3. misfreed \in BOOLEAN /\ halted \in {"no", "out of memory", "page table"}
    BY Zenon DEF Init
  <2>4. mmap_free_memory_length \in FreeLengths
    BY DEF Init
  <2>5. QED
    BY <1>1, <1>2, <1>3, <1>4, <2>1, <2>2, <2>3, <2>4 DEF TypeOK
<1>6. DirectorySound
  BY Sizes DEF Init, DirectorySound, KERNEL_PAGE_DIRECTORY_START
<1>7. TableSound
  <2> SUFFICES ASSUME NEW v \in VPage PROVE FrameOf(v) = NotPresent
    BY DEF TableSound
  <2>1. QED
    BY VPageSlot DEF Init, FrameOf
<1>8. BlocksBounded /\ OpBounded /\ NoTableAbort /\ TlbCoherent
  BY DEF Init, BlocksBounded, OpBounded, NoTableAbort, TlbCoherent, Idle
<1>9. QED
  BY <1>5, <1>6, <1>7, <1>8 DEF IndInv

\* What the pages part of the invariant gives back to the whole of it.
LEMMA PagesInvOf == IndInv => PagesInv
BY DEF IndInv, TypeOK, PagesInv

LEMMA RegionOf ==
  IndInv => /\ FreeBase \in Nat /\ KernelEnd \in Nat /\ KernelEnd <= FreeBase
            /\ mmap_free_memory_length \in Nat
            /\ FreeBase + mmap_free_memory_length <= FRAMES
BY Region DEF IndInv, TypeOK

LEMMA AllocCallInv ==
  ASSUME IndInv, NEW n \in Counts, AllocCall(n)
  PROVE  IndInv'
<1>1. n \in Nat /\ n \in 1 .. Entries
  BY CallerAssumption, Sizes
<1>2. 0 \in VPage
  BY SizesAssumption DEF VPage
<1>3. TypeOK'
  <2>1. op' \in Call /\ op'.left <= op'.n
    BY <1>1 DEF AllocCall, Call, NULL
  <2>2. calls \in Nat /\ calls' = calls + 1
    BY Zenon DEF IndInv, TypeOK, AllocCall
  <2>3. calls' \in Nat
    BY <2>2
  <2>4. QED
    BY <2>1, <2>3 DEF IndInv, TypeOK, AllocCall
<1>4. OpBounded'
  BY <1>1, <1>2 DEF AllocCall, OpBounded, NULL
<1>5. PagesInv' /\ BlocksBounded' /\ NoTableAbort'
  BY PagesInvOf DEF IndInv, AllocCall, PagesInv, DirectorySound, TableSound,
     TlbCoherent, FrameOf, get_physical_address, BlocksBounded, NoTableAbort
<1>6. QED
  BY <1>3, <1>4, <1>5 DEF IndInv, PagesInv

LEMMA AllocPageNullInv ==
  ASSUME IndInv, AllocPageNull
  PROVE  IndInv'
<1>1. op' = [op EXCEPT !.left = op.left - 1]
  BY DEF AllocPageNull
<1>2. op \in Call /\ op.left > 0 /\ op.left <= op.n
  BY DEF AllocPageNull, IndInv, TypeOK
<1>3. op' \in Call /\ op'.left <= op'.n
  BY <1>1, <1>2 DEF Call
<1>4. TypeOK'
  BY <1>3 DEF IndInv, TypeOK, AllocPageNull
<1>5. OpBounded'
  BY <1>1, <1>2 DEF IndInv, OpBounded, Call
<1>6. PagesInv' /\ BlocksBounded' /\ NoTableAbort'
  BY PagesInvOf DEF IndInv, AllocPageNull, PagesInv, DirectorySound, TableSound,
     TlbCoherent, FrameOf, get_physical_address, BlocksBounded, NoTableAbort
<1>7. QED
  BY <1>4, <1>5, <1>6 DEF IndInv, PagesInv

\* alloc_page never runs out of page tables: the page of a scanned slot, and
\* the page after it, have one.
LEMMA AllocPageAbortInv ==
  ASSUME IndInv, AllocPageAbort
  PROVE  IndInv'
<1> PICK s \in FreeSlots :
      LET p == page_index(s[1], s[2])
      IN  \/ p >= mmap_free_memory_length /\ halted' = "out of memory"
          \/ /\ p < mmap_free_memory_length
             /\ NoPageTable(page_virtual_address(p))
             /\ halted' = "page table"
  BY DEF AllocPageAbort
<1>1. s \in Word \X ScannedBits
  BY DEF FreeSlots
<1>2. page_virtual_address(page_index(s[1], s[2])) \in VPage
  BY <1>1, ScannedPage
<1>3. ~NoPageTable(page_virtual_address(page_index(s[1], s[2])))
  BY <1>2, VPageTable
<1>4. halted' = "out of memory"
  BY <1>3
<1>5. PagesInv' /\ BlocksBounded' /\ OpBounded'
  BY PagesInvOf DEF IndInv, AllocPageAbort, PagesInv, DirectorySound, TableSound,
     TlbCoherent, FrameOf, get_physical_address, BlocksBounded, OpBounded
<1>6. TypeOK'
  BY <1>4 DEF IndInv, TypeOK, AllocPageAbort
<1>7. QED
  BY <1>4, <1>5, <1>6 DEF IndInv, PagesInv, NoTableAbort

\* One page of a call: the record op after alloc_page has found page v.
LEMMA CallProgress ==
  ASSUME NEW o \in Call, o.left > 0, o.left <= o.n, NEW v \in Nat, NEW q,
         q = [kind |-> "alloc", n |-> o.n, left |-> o.left - 1,
              ptr |-> IF o.ptr = NULL THEN v ELSE o.ptr,
              got |-> o.got \cup {v}]
  PROVE  /\ q \in Call /\ q.left <= q.n
         /\ q.kind = "alloc" /\ q.n = o.n /\ q.ptr \in {v, o.ptr}
<1>1. /\ o.left - 1 \in Nat /\ o.left - 1 <= o.n
      /\ o.n \in Nat /\ o.ptr \in Nat /\ o.got \cup {v} \in SUBSET Nat
  BY DEF Call
<1>2. QED
  BY <1>1 DEF Call

LEMMA AllocPageInv ==
  ASSUME IndInv, AllocPage
  PROVE  IndInv'
<1> PICK s \in FreeSlots :
      LET p == page_index(s[1], s[2])
          v == page_virtual_address(p)
      IN  /\ p < mmap_free_memory_length
          /\ map_page(page_physical_address(p), v)
          /\ page_bitmap' = SetBit(s)
          /\ op' = [kind |-> "alloc", n |-> op.n, left |-> op.left - 1,
                    ptr |-> IF op.ptr = NULL THEN v ELSE op.ptr,
                    got |-> op.got \cup {v}]
  BY DEF AllocPage
<1> DEFINE p == page_index(s[1], s[2])
           v == page_virtual_address(p)
<1>1. s \in Word \X ScannedBits
  BY DEF FreeSlots
<1>2. p \in Nat /\ v \in VPage /\ v = p + 1
  BY <1>1, ScannedPage DEF page_virtual_address
<1>3. v \in Nat /\ v >= 1 /\ v - 1 < mmap_free_memory_length
  BY <1>2
<1>4. page_physical_address(p) = FreeBase + (v - 1)
  <2>1. /\ FreeBase \in Nat /\ mmap_free_memory_length \in Nat
        /\ FreeBase + mmap_free_memory_length <= FRAMES
    BY RegionOf
  <2>2. FreeBase + p \in 0 .. FRAMES - 1
    BY <1>2, <1>3, <2>1, Frames
  <2>3. (FreeBase + p) % FRAMES = FreeBase + p
    BY <2>2, Frames
  <2>4. QED
    BY <1>2, <2>1, <2>3 DEF page_physical_address
<1>5. PagesInv'
  <2>1. PagesInv /\ UNCHANGED mmap_free_memory_length
    BY PagesInvOf DEF AllocPage
  <2>2. map_page(FreeBase + (v - 1), v)
    BY <1>4
  <2>3. QED
    BY <1>2, <1>3, <2>1, <2>2, MapStep
<1>6. page_bitmap' \in [Word -> SUBSET Bits]
  <2>1. s[1] \in Word /\ s[2] \in Bits
    BY <1>1 DEF Bits, ScannedBits, WORD_BITS
  <2>2. QED
    BY <2>1 DEF IndInv, TypeOK, SetBit
<1>7. op' = [kind |-> "alloc", n |-> op.n, left |-> op.left - 1,
             ptr |-> IF op.ptr = NULL THEN v ELSE op.ptr,
             got |-> op.got \cup {v}]
  OBVIOUS
<1>8. op \in Call /\ op.left > 0 /\ op.left <= op.n /\ op.kind = "alloc"
  BY DEF IndInv, TypeOK, AllocPage, Running
<1>9. /\ op' \in Call /\ op'.left <= op'.n
      /\ op'.kind = "alloc" /\ op'.n = op.n /\ op'.ptr \in {v, op.ptr}
  BY <1>3, <1>7, <1>8, CallProgress
<1>10. TypeOK'
  BY <1>5, <1>6, <1>9 DEF IndInv, TypeOK, PagesInv, AllocPage
<1>11. OpBounded'
  BY <1>2, <1>8, <1>9 DEF IndInv, OpBounded
<1>12. BlocksBounded' /\ NoTableAbort'
  BY DEF IndInv, AllocPage, BlocksBounded, NoTableAbort
<1>13. QED
  BY <1>5, <1>10, <1>11, <1>12 DEF IndInv, PagesInv

LEMMA AllocReturnInv ==
  ASSUME IndInv, AllocReturn
  PROVE  IndInv'
<1> DEFINE b == [ptr |-> op.ptr, n |-> op.n, got |-> op.got]
<1>1. op \in Call /\ blocks \in Seq(Block) /\ op.kind = "alloc"
  BY DEF IndInv, TypeOK, AllocReturn, Running
<1>2. b \in Block /\ b.ptr \in VPage /\ b.n \in 1 .. Entries
  BY <1>1 DEF IndInv, OpBounded, Block, Call
<1>3. op' \in Call /\ op'.left <= op'.n /\ op'.kind = "idle"
  BY IdleCall DEF AllocReturn, Idle
<1>4. blocks' \in Seq(Block) /\ BlocksBounded'
  <2>1. CASE op.ptr = NULL
    BY <2>1, <1>1 DEF AllocReturn, IndInv, BlocksBounded
  <2>2. CASE op.ptr # NULL
    <3>1. blocks' = Append(blocks, b)
      BY <2>2 DEF AllocReturn
    <3>2. /\ blocks' \in Seq(Block) /\ DOMAIN blocks' = 1 .. Len(blocks) + 1
          /\ Len(blocks) \in Nat /\ DOMAIN blocks = 1 .. Len(blocks)
          /\ \A j \in 1 .. Len(blocks) : blocks'[j] = blocks[j]
          /\ blocks'[Len(blocks) + 1] = b
      BY <1>1, <1>2, <3>1
    <3>3. BlocksBounded'
      BY <1>2, <3>2 DEF IndInv, BlocksBounded
    <3>4. QED
      BY <3>2, <3>3
  <2>3. QED
    BY <2>1, <2>2
<1>5. TypeOK'
  BY <1>3, <1>4 DEF IndInv, TypeOK, AllocReturn
<1>6. PagesInv' /\ NoTableAbort'
  BY PagesInvOf DEF IndInv, AllocReturn, PagesInv, DirectorySound, TableSound,
     TlbCoherent, FrameOf, get_physical_address, NoTableAbort
<1>7. OpBounded'
  BY <1>3 DEF OpBounded
<1>8. QED
  BY <1>4, <1>5, <1>6, <1>7 DEF IndInv, PagesInv

LEMMA FreeCallInv ==
  ASSUME IndInv, NEW i \in 1 .. Len(blocks), FreeCall(i)
  PROVE  IndInv'
<1>1. blocks \in Seq(Block) /\ DOMAIN blocks = 1 .. Len(blocks)
      /\ Len(blocks) \in Nat
  <2>1. blocks \in Seq(Block)
    BY DEF IndInv, TypeOK
  <2>2. QED
    BY <2>1
<1>2. blocks[i] \in Block /\ blocks[i].ptr \in VPage
      /\ blocks[i].n \in 1 .. Entries
  BY <1>1 DEF IndInv, BlocksBounded
<1>3. op' \in Call /\ op'.left <= op'.n /\ op'.ptr \in VPage
      /\ op'.n \in 1 .. Entries
  BY <1>2 DEF FreeCall, Block, Call
<1>4. /\ \A j \in 1 .. Len(blocks) - 1 :
           blocks'[j] \in {blocks[j], blocks[j + 1]}
      /\ blocks' \in Seq(Block) /\ DOMAIN blocks' = 1 .. Len(blocks) - 1
  <2>1. blocks' = [j \in 1 .. Len(blocks) - 1 |->
                     IF j < i THEN blocks[j] ELSE blocks[j + 1]]
    BY DEF FreeCall
  <2>2. Len(blocks) - 1 \in Nat
    BY <1>1
  <2>3. \A j \in 1 .. Len(blocks) - 1 :
          blocks[j] \in Block /\ blocks[j + 1] \in Block
    BY <1>1
  <2>4. QED
    BY <2>1, <2>2, <2>3
<1>5. BlocksBounded'
  <2> SUFFICES ASSUME NEW j \in 1 .. Len(blocks) - 1
               PROVE  blocks'[j].ptr \in VPage /\ blocks'[j].n \in 1 .. Entries
    BY <1>4 DEF BlocksBounded
  <2>1. j \in DOMAIN blocks /\ j + 1 \in DOMAIN blocks
    BY <1>1
  <2>2. QED
    BY <1>4, <2>1 DEF IndInv, BlocksBounded
<1>6. calls \in Nat /\ calls' = calls + 1
  BY Zenon DEF IndInv, TypeOK, FreeCall
<1>7. calls' \in Nat
  BY <1>6
<1>8. TypeOK'
  BY <1>3, <1>4, <1>7 DEF IndInv, TypeOK, FreeCall
<1>9. PagesInv' /\ NoTableAbort'
  BY PagesInvOf DEF IndInv, FreeCall, PagesInv, DirectorySound, TableSound,
     TlbCoherent, FrameOf, get_physical_address, NoTableAbort
<1>10. OpBounded'
  BY <1>3 DEF OpBounded
<1>11. QED
  BY <1>5, <1>8, <1>9, <1>10 DEF IndInv, PagesInv

\* The page number free_pages passes to free_page lies in the directory, and
\* the word of page_bitmap that free_page computes from it exists, although
\* a block may end past the last free page table.
LEMMA FreedPage ==
  ASSUME IndInv, Running("free"), op.left > 0
  PROVE  /\ page_addr \in Nat
         /\ pd_index(page_addr) \in 0 .. Tables
         /\ bitmap_index(page_addr) \in Word
<1>1. op \in Call /\ op.left <= op.n /\ op.ptr \in VPage
      /\ op.n \in 1 .. Entries
  BY DEF IndInv, TypeOK, OpBounded, Running
<1>2. op.left \in Nat /\ op.n \in Nat /\ op.ptr \in Nat
      /\ op.ptr < Tables * Entries
  BY <1>1, SizesAssumption DEF Call, VPage
<1>3. page_addr \in Nat /\ page_addr < Tables * Entries + Entries
  BY <1>1, <1>2, SizesAssumption DEF page_addr
<1>4. Tables * Entries + Entries = (Tables + 1) * Entries
      /\ Tables * Entries + Entries <= 2 * (Tables * Entries)
  BY SizesAssumption
<1>5. pd_index(page_addr) \in 0 .. Tables
  <2>1. Tables + 1 \in Nat /\ page_addr < (Tables + 1) * Entries
    BY <1>3, <1>4, Sizes
  <2>2. pd_index(page_addr) < Tables + 1 /\ pd_index(page_addr) \in Nat
    BY <1>3, <2>1, PageSlot, PageSplit
  <2>3. QED
    BY <2>2, Sizes
<1>6. bitmap_index(page_addr) \in Word
  <2>1. page_addr < 64 * Words
    BY <1>3, <1>4, SizesAssumption
  <2>2. QED
    BY <1>3, <2>1, SizesAssumption DEF bitmap_index, FREE_BITS, Word
<1>7. QED
  BY <1>3, <1>5, <1>6

LEMMA FreePageInv ==
  ASSUME IndInv, FreePage
  PROVE  IndInv'
<1>1. op \in Call /\ op.left > 0 /\ op.left <= op.n
  BY DEF IndInv, TypeOK, FreePage
<1>2. PagesInv'
  BY FreedPage, UnmapStep, PagesInvOf DEF FreePage
<1>3. page_bitmap' \in [Word -> SUBSET Bits]
  BY FreedPage DEF IndInv, TypeOK, FreePage, ClearBit
<1>4. op' = [op EXCEPT !.left = op.left - 1]
  BY DEF FreePage
<1>5. op' \in Call /\ op'.left <= op'.n /\ op'.ptr = op.ptr /\ op'.n = op.n
      /\ op'.kind = op.kind
  BY <1>1, <1>4 DEF Call
<1>6. misfreed' \in BOOLEAN
  BY Zenon DEF FreePage
<1>7. TypeOK'
  BY <1>2, <1>3, <1>5, <1>6 DEF IndInv, TypeOK, PagesInv, FreePage
<1>8. OpBounded'
  BY <1>5 DEF IndInv, OpBounded
<1>9. BlocksBounded' /\ NoTableAbort'
  BY DEF IndInv, FreePage, BlocksBounded, NoTableAbort
<1>10. QED
  BY <1>2, <1>7, <1>8, <1>9 DEF IndInv, PagesInv

LEMMA FreeReturnInv ==
  ASSUME IndInv, FreeReturn
  PROVE  IndInv'
<1>1. op' \in Call /\ op'.left <= op'.n /\ op'.kind = "idle"
  BY IdleCall DEF FreeReturn, Idle
<1>2. TypeOK'
  BY <1>1 DEF IndInv, TypeOK, FreeReturn
<1>3. PagesInv' /\ BlocksBounded' /\ NoTableAbort'
  BY PagesInvOf DEF IndInv, FreeReturn, PagesInv, DirectorySound, TableSound,
     TlbCoherent, FrameOf, get_physical_address, BlocksBounded, NoTableAbort
<1>4. OpBounded'
  BY <1>1 DEF OpBounded
<1>5. QED
  BY <1>2, <1>3, <1>4 DEF IndInv, PagesInv

LEMMA TlbFillInv ==
  ASSUME IndInv, NEW v \in Watched, TlbFill(v)
  PROVE  IndInv'
<1>1. v \in VPage
  BY WatchedAssumption DEF VPage
<1>2. v \in Nat /\ pd_index(v) \in 0 .. Tables
      /\ pt_index(v) \in 0 .. Entries - 1
  BY <1>1, VPageSlot, Sizes
<1>3. get_physical_address(v) \in NotPresent .. FRAMES - 1
  <2>1. pd_index(v) < Tables /\ get_physical_address(v) = FrameOf(v)
    BY <1>2, Walk DEF TlbFill, IndInv
  <2>2. pd_index(v) \in 0 .. Tables - 1
    BY <1>2, <2>1, Sizes
  <2>3. FrameOf(v) \in NotPresent .. FRAMES - 1
    BY <1>2, <2>2 DEF IndInv, TypeOK, FrameOf
  <2>4. QED
    BY <2>1, <2>3
<1>4. tlb' \in [Watched -> NotPresent .. FRAMES - 1]
  BY <1>3 DEF IndInv, TypeOK, TlbFill
<1>5. \A w \in Watched : get_physical_address(w)' = get_physical_address(w)
  BY DEF TlbFill, get_physical_address
<1>6. TlbCoherent'
  BY <1>5 DEF IndInv, TypeOK, TlbFill, TlbCoherent
<1>7. TypeOK'
  BY <1>4 DEF IndInv, TypeOK, TlbFill
<1>8. DirectorySound' /\ TableSound' /\ BlocksBounded' /\ OpBounded'
      /\ NoTableAbort'
  BY DEF IndInv, TlbFill, DirectorySound, TableSound, FrameOf, BlocksBounded,
     OpBounded, NoTableAbort
<1>9. QED
  BY <1>6, <1>7, <1>8 DEF IndInv

LEMMA StutterInv ==
  ASSUME IndInv, UNCHANGED vars
  PROVE  IndInv'
BY DEF IndInv, vars, TypeOK, DirectorySound, TableSound, FrameOf, BlocksBounded,
   OpBounded, NoTableAbort, TlbCoherent, get_physical_address

LEMMA NextInv == IndInv /\ [Next]_vars => IndInv'
<1> SUFFICES ASSUME IndInv, [Next]_vars PROVE IndInv'
  OBVIOUS
<1>1. CASE \E n \in Counts : AllocCall(n)
  BY <1>1, AllocCallInv
<1>2. CASE AllocPageNull
  BY <1>2, AllocPageNullInv
<1>3. CASE AllocPageAbort
  BY <1>3, AllocPageAbortInv
<1>4. CASE AllocPage
  BY <1>4, AllocPageInv
<1>5. CASE AllocReturn
  BY <1>5, AllocReturnInv
<1>6. CASE \E i \in 1 .. Len(blocks) : FreeCall(i)
  BY <1>6, FreeCallInv
<1>7. CASE FreePage
  BY <1>7, FreePageInv
<1>8. CASE FreeReturn
  BY <1>8, FreeReturnInv
<1>9. CASE \E v \in Watched : TlbFill(v)
  BY <1>9, TlbFillInv
<1>10. CASE UNCHANGED vars
  BY <1>10, StutterInv
<1>11. QED
  BY <1>1, <1>2, <1>3, <1>4, <1>5, <1>6, <1>7, <1>8, <1>9, <1>10 DEF Next

-----------------------------------------------------------------------------
(* The theorems.                                                           *)

\* The invariant holds in every reachable state of the allocator.
THEOREM SpecIndInv == Spec => []IndInv
BY InitInv, NextInv, PTL DEF Spec

\* Every call, in every order, leaves well-typed tables and bitmap: free_page
\* never writes outside page_bitmap and map_page never outside the tables.
THEOREM SpecTypeOK == Spec => []TypeOK
BY SpecIndInv, PTL DEF IndInv

\* map_page never aborts for want of a page table (paging.c:71-75).
THEOREM SpecNoTableAbort == Spec => []NoTableAbort
BY SpecIndInv, PTL DEF IndInv

\* The directory slots of the kernel and of the recursive window are never
\* touched, and a slot below them only gets its own table (paging.c:69-77).
THEOREM SpecDirectorySound == Spec => []DirectorySound
BY SpecIndInv, PTL DEF IndInv

\* The TLB never holds a translation that the tables do not (paging.c:84 and
\* paging.c:102).
THEOREM SpecTlbCoherent == Spec => []TlbCoherent
BY SpecIndInv, PTL DEF IndInv

LEMMA FrameSafetyOf == IndInv => FrameSafety
<1> SUFFICES ASSUME IndInv PROVE FrameSafety
  OBVIOUS
<1>1. ASSUME NEW v \in Mapped
      PROVE  /\ v \in Nat /\ v >= 1 /\ v - 1 < mmap_free_memory_length
             /\ get_physical_address(v) = FreeBase + (v - 1)
  <2>1. v \in VPage /\ get_physical_address(v) # NotPresent
    BY DEF Mapped
  <2>2. v \in Nat /\ pd_index(v) \in 0 .. Tables
    BY <2>1, VPageSlot, Sizes
  <2>3. get_physical_address(v) = FrameOf(v)
    BY <2>1, <2>2, Walk DEF IndInv
  <2>4. QED
    BY <2>1, <2>2, <2>3 DEF IndInv, TableSound
<1>2. NULL \notin Mapped
  BY <1>1 DEF NULL
<1>3. ASSUME NEW v \in Mapped
      PROVE  /\ get_physical_address(v) \in
                FreeBase .. FreeBase + mmap_free_memory_length - 1
             /\ get_physical_address(v) >= KernelEnd
  BY <1>1, RegionOf, Frames
<1>4. ASSUME NEW v \in Mapped, NEW w \in Mapped,
             get_physical_address(v) = get_physical_address(w)
      PROVE  v = w
  BY <1>1, <1>4, RegionOf
<1>5. QED
  BY <1>2, <1>3, <1>4 DEF FrameSafety

\* Whatever is allocated and freed, in whatever order, even after free_page
\* has corrupted the bitmap: the null page stays unmapped, a mapped page is a
\* frame of the free region outside the kernel, and no two pages share one.
THEOREM SpecFrameSafety == Spec => []FrameSafety
BY SpecIndInv, FrameSafetyOf, PTL

-----------------------------------------------------------------------------
(* What callers hold, until free_page clears a bit.  The two properties    *)
(* are not inductive: they need that alloc_page's bits are set in the      *)
(* order of the pages, so that the pages of one call are consecutive       *)
(* except for the word ends, and that what is held has its bit set, so     *)
(* that it is not found free again.                                        *)

\* The pages alloc_page can hand out: those of the bits it tests.
Slotted == {v \in VPage : v % WORD_BITS # 0}

\* Those whose bit is set.
Marked ==
  {v \in Slotted : WORD_BITS - (v % WORD_BITS) \in page_bitmap[v \div WORD_BITS]}

\* The bits are set in the order of the pages.
MarkedPrefix == \A v \in Marked, w \in Slotted : w < v => w \in Marked

\* Each caller's pages are marked and mapped, all the pages of its block that
\* alloc_page can hand out are among them, and no two callers share one.
Held ==
  /\ \A i \in DOMAIN blocks :
       /\ blocks[i].got \subseteq Marked /\ blocks[i].got \subseteq Mapped
       /\ \A v \in Slotted :
            blocks[i].ptr <= v /\ v < blocks[i].ptr + blocks[i].n =>
              v \in blocks[i].got
  /\ \A i, j \in DOMAIN blocks :
       i # j => blocks[i].got \cap blocks[j].got = {}

\* The call in progress: alloc_pages has the last marked pages, from its
\* pointer on; free_pages has a block that nobody else holds a page of.
Pending ==
  /\ op.got \subseteq Marked /\ op.got \subseteq Mapped
  /\ op.kind # "alloc" => op.got = {}
  /\ \A i \in DOMAIN blocks : blocks[i].got \cap op.got = {}
  /\ op.kind = "alloc" /\ op.ptr = NULL /\ op.left < op.n => Slotted \subseteq Marked
  /\ op.kind = "alloc" /\ op.ptr = NULL => op.got = {}
  /\ op.kind = "alloc" /\ op.ptr # NULL =>
       /\ op.ptr \in op.got
       /\ \A v \in Marked : op.ptr <= v => v \in op.got
       /\ \A v \in Slotted :
            op.ptr <= v /\ v < op.ptr + (op.n - op.left) => v \in op.got
  /\ op.kind = "free" =>
       \A i \in DOMAIN blocks :
         \A v \in blocks[i].got : ~(op.ptr <= v /\ v < op.ptr + op.n)

HeldInv == ~misfreed => MarkedPrefix /\ Held /\ Pending

\* A page that alloc_page can hand out has a bit, which it tests ...
LEMMA SlottedSlot ==
  ASSUME NEW v \in Slotted
  PROVE  /\ v \in Nat /\ v \in VPage
         /\ v \div WORD_BITS \in Word
         /\ WORD_BITS - (v % WORD_BITS) \in ScannedBits
         /\ v = 32 * (v \div WORD_BITS) + (v % WORD_BITS)
         /\ v % WORD_BITS \in 1 .. 31
<1>1. /\ v \in Nat /\ v \in VPage /\ v < Words * 32 /\ v % 32 # 0
      /\ Words \in Nat
  BY SizesAssumption DEF Slotted, VPage, WORD_BITS
<1>2. v = 32 * (v \div 32) + (v % 32) /\ v % 32 \in 1 .. 31 /\ v \div 32 \in Nat
  BY <1>1
<1>3. v \div 32 \in 0 .. Words - 1
  BY <1>1, <1>2
<1>4. QED
  BY <1>1, <1>2, <1>3 DEF Word, ScannedBits, WORD_BITS

\* ... and the other way round.
LEMMA SlotSlotted ==
  ASSUME NEW s \in Word \X ScannedBits, NEW v,
         v = page_virtual_address(page_index(s[1], s[2]))
  PROVE  /\ v \in Slotted /\ v = 32 * s[1] + (32 - s[2])
         /\ v \div WORD_BITS = s[1] /\ WORD_BITS - (v % WORD_BITS) = s[2]
<1>1. s[1] \in 0 .. Words - 1 /\ s[2] \in 1 .. 31 /\ Words \in Nat
  BY SizesAssumption DEF Word, ScannedBits, WORD_BITS
<1>2. v = 32 * s[1] + (32 - s[2]) /\ s[1] \in Nat
  BY <1>1 DEF page_virtual_address, page_index, WORD_BITS
<1>3. v \div 32 = s[1] /\ v % 32 = 32 - s[2]
  BY <1>1, <1>2
<1>4. v \in VPage
  BY ScannedPage
<1>5. s[2] \in Int /\ v % 32 # 0 /\ 32 - (v % 32) = s[2]
  BY <1>1, <1>3
<1>6. v \in Slotted
  BY <1>4, <1>5 DEF Slotted, WORD_BITS
<1>7. QED
  BY <1>2, <1>3, <1>5, <1>6 DEF WORD_BITS

\* The page alloc_page finds is the first one without its bit.
LEMMA FirstUnmarked ==
  ASSUME NEW s \in FreeSlots, FirstFree(s), NEW v,
         v = page_virtual_address(page_index(s[1], s[2]))
  PROVE  v \in Slotted /\ v \notin Marked
         /\ \A w \in Slotted \ Marked : v <= w
<1>1. s \in Word \X ScannedBits /\ s[2] \notin page_bitmap[s[1]]
  BY DEF FreeSlots
<1>2. /\ v \in Slotted /\ v = 32 * s[1] + (32 - s[2])
      /\ v \div WORD_BITS = s[1] /\ WORD_BITS - (v % WORD_BITS) = s[2]
  BY <1>1, SlotSlotted
<1>3. v \notin Marked
  BY <1>1, <1>2 DEF Marked
<1>4. ASSUME NEW w \in Slotted \ Marked
      PROVE  v <= w
  <2> DEFINE t == <<w \div WORD_BITS, WORD_BITS - (w % WORD_BITS)>>
  <2>1. /\ w \in Nat /\ t \in Word \X ScannedBits
        /\ w = 32 * (w \div WORD_BITS) + (w % WORD_BITS)
        /\ w % WORD_BITS \in 1 .. 31
    BY SlottedSlot
  <2>2. t \in FreeSlots
    BY <2>1 DEF FreeSlots, Marked
  <2>3. s[1] < t[1] \/ (s[1] = t[1] /\ s[2] >= t[2])
    BY <2>2 DEF FirstFree, ScanBefore
  <2>4. s[1] \in Nat /\ s[2] \in 1 .. 31 /\ t[1] \in Nat /\ t[2] \in 1 .. 31
    BY <1>1, <2>1, SizesAssumption DEF Word, ScannedBits, WORD_BITS
  <2>5. w = 32 * t[1] + (32 - t[2])
    BY <2>1, <2>4 DEF WORD_BITS
  <2>6. QED
    BY <1>2, <2>3, <2>4, <2>5
<1>5. QED
  BY <1>2, <1>3, <1>4

\* When alloc_page finds nothing, every page it could hand out has its bit.
LEMMA NoneUnmarked ==
  ASSUME FreeSlots = {}
  PROVE  Slotted \subseteq Marked
<1> SUFFICES ASSUME NEW w \in Slotted, w \notin Marked
             PROVE  FALSE
  OBVIOUS
<1> DEFINE t == <<w \div WORD_BITS, WORD_BITS - (w % WORD_BITS)>>
<1>1. t \in Word \X ScannedBits
  BY SlottedSlot
<1>2. t \in FreeSlots
  BY <1>1 DEF FreeSlots, Marked
<1>3. QED
  BY <1>2

\* Setting the bit alloc_page found marks its page and no other.
LEMMA MarkStep ==
  ASSUME page_bitmap \in [Word -> SUBSET Bits], NEW s \in Word \X ScannedBits,
         page_bitmap' = SetBit(s), NEW v,
         v = page_virtual_address(page_index(s[1], s[2]))
  PROVE  Marked' = Marked \cup {v}
<1>1. /\ v \in Slotted /\ v = 32 * s[1] + (32 - s[2])
      /\ v \div WORD_BITS = s[1] /\ WORD_BITS - (v % WORD_BITS) = s[2]
  BY SlotSlotted
<1>2. s[1] \in Word /\ page_bitmap[s[1]] \subseteq Bits
  OBVIOUS
<1>3. \A w \in Word : page_bitmap'[w] = IF w = s[1] THEN page_bitmap[w] \cup {s[2]}
                                        ELSE page_bitmap[w]
  BY <1>2 DEF SetBit
<1>4. ASSUME NEW w \in Slotted
      PROVE  w \in Marked' <=> w \in Marked \/ w = v
  <2> DEFINE b == WORD_BITS - (w % WORD_BITS)
             d == w \div WORD_BITS
  <2>1. /\ w \in Nat /\ d \in Word /\ b \in ScannedBits
        /\ w = 32 * d + (w % WORD_BITS) /\ w % WORD_BITS \in 1 .. 31
    BY SlottedSlot
  <2>2. w = 32 * d + (32 - b)
    BY <2>1, SizesAssumption DEF WORD_BITS, Word
  <2>3. d = s[1] /\ b = s[2] <=> w = v
    BY <1>1, <2>2
  <2>4. w \in Marked' <=> b \in page_bitmap'[d]
    BY DEF Marked
  <2>5. w \in Marked <=> b \in page_bitmap[d]
    BY DEF Marked
  <2>6. QED
    BY <1>3, <2>1, <2>3, <2>4, <2>5
<1>5. QED
  BY <1>1, <1>4 DEF Marked

LEMMA MarkedSame ==
  ASSUME UNCHANGED page_bitmap
  PROVE  Marked' = Marked
BY DEF Marked

\* The mapped pages of the free tables, in terms of the tables.
LEMMA MappedFrames ==
  ASSUME DirectorySound, NEW v \in VPage
  PROVE  v \in Mapped <=> /\ page_directory[pd_index(v)] = pd_index(v)
                          /\ FrameOf(v) # NotPresent
<1>1. v \in Nat /\ pd_index(v) \in 0 .. Tables /\ pd_index(v) # NotPresent
  BY VPageSlot, Sizes DEF NotPresent
<1>2. /\ page_directory[pd_index(v)] \in {NotPresent, pd_index(v)}
      /\ get_physical_address(v) # NotPresent =>
           /\ page_directory[pd_index(v)] = pd_index(v)
           /\ get_physical_address(v) = FrameOf(v)
  BY <1>1, Walk
<1>3. page_directory[pd_index(v)] = pd_index(v) => get_physical_address(v) = FrameOf(v)
  BY <1>1 DEF get_physical_address, FrameOf
<1>4. QED
  BY <1>2, <1>3 DEF Mapped

\* alloc_page maps the page it found and unmaps none.
LEMMA MapGrows ==
  ASSUME PagesInv, NEW v \in VPage, NEW f \in Nat, map_page(f, v)
  PROVE  v \in Mapped' /\ Mapped \subseteq Mapped'
<1> DEFINE d == pd_index(v)
           e == pt_index(v)
<1>1. v \in Nat /\ d \in 0 .. Tables - 1 /\ e \in 0 .. Entries - 1
  BY VPageSlot
<1>2. page_directory[d] \in {NotPresent, d} /\ d # NotPresent
  <2>1. d # NotPresent
    BY <1>1 DEF NotPresent
  <2>2. d \in 0 .. Tables /\ DirectorySound
    BY <1>1, Sizes DEF PagesInv
  <2>4. page_directory[d] \in {NotPresent, d}
    BY <1>1, <2>2, Walk
  <2>3. QED
    BY <2>1, <2>4
<1>3. /\ page_directory' = [page_directory EXCEPT ![d] = d]
      /\ free_page_tables' = [free_page_tables EXCEPT ![d][e] = f]
  BY <1>1, <1>2 DEF map_page
<1>4. d \in 0 .. DirSize - 1
  BY <1>1, Sizes
<1>5. f # NotPresent
  BY DEF NotPresent
<1>6. v \in Mapped'
  <2>1. page_directory'[d] = d /\ free_page_tables'[d][e] = f
    BY <1>1, <1>3, <1>4 DEF PagesInv
  <2>2. get_physical_address(v)' = f
    BY <1>2, <2>1 DEF get_physical_address
  <2>3. QED
    BY <1>5, <2>2 DEF Mapped
<1>7. ASSUME NEW w \in Mapped
      PROVE  w \in Mapped'
  <2>1. w \in VPage
    BY DEF Mapped
  <2>2. w \in Nat /\ pd_index(w) \in 0 .. Tables - 1 /\ pt_index(w) \in 0 .. Entries - 1
    BY <2>1, VPageSlot
  <2>3. page_directory[pd_index(w)] = pd_index(w) /\ FrameOf(w) # NotPresent
    BY <2>1, MappedFrames DEF PagesInv
  <2>4. page_directory'[pd_index(w)] = pd_index(w)
    <3> DEFINE g == pd_index(w)
               D == page_directory
    <3> HIDE DEF d, g, D
    <3>1. g \in 0 .. DirSize - 1 /\ D[g] = g
      BY <2>2, <2>3, Sizes DEF g, D
    <3>2. D \in [0 .. DirSize - 1 -> Table \cup {NotPresent}] /\ D' = [D EXCEPT ![d] = d]
      BY <1>3 DEF PagesInv, D
    <3>3. D'[g] = g
      BY <3>1, <3>2
    <3>4. QED
      BY <3>3 DEF g, D
  <2>5. FrameOf(w)' # NotPresent
    <3> DEFINE g == pd_index(w)
               h == pt_index(w)
               T == free_page_tables
    <3> HIDE DEF g, h, T, d, e
    <3>1. T \in [0 .. Tables - 1 -> [0 .. Entries - 1 -> NotPresent .. FRAMES - 1]]
      BY DEF PagesInv, T
    <3>2. T' = [T EXCEPT ![d][e] = f]
      BY <1>3 DEF T
    <3>3. g \in 0 .. Tables - 1 /\ h \in 0 .. Entries - 1
      BY <2>2 DEF g, h
    <3>4. T'[g][h] = T[g][h] \/ T'[g][h] = f
      BY <1>1, <3>1, <3>2, <3>3
    <3>5. T[g][h] # NotPresent
      BY <2>3 DEF FrameOf, g, h, T
    <3>6. T'[g][h] # NotPresent
      BY <1>5, <3>4, <3>5
    <3>7. QED
      BY <3>6 DEF FrameOf, g, h, T
  <2>6. get_physical_address(w)' # NotPresent
    BY <2>2, <2>4, <2>5 DEF get_physical_address, FrameOf, NotPresent
  <2>7. QED
    BY <2>1, <2>6 DEF Mapped
<1>8. QED
  BY <1>6, <1>7

\* free_page unmaps its page and no other.
LEMMA UnmapOnly ==
  ASSUME PagesInv, NEW v \in Nat, pd_index(v) \in 0 .. Tables,
         unmap_page(v), UNCHANGED page_directory
  PROVE  \A w \in Mapped : w # v => w \in Mapped'
<1>1. CASE get_physical_address(v) = NotPresent
  BY <1>1 DEF unmap_page, Mapped, get_physical_address
<1>2. CASE get_physical_address(v) # NotPresent
  <2> DEFINE d == pd_index(v)
             e == pt_index(v)
  <2>1. d \in 0 .. Tables - 1 /\ page_directory[d] = d /\ e \in 0 .. Entries - 1
    BY <1>2, Walk, Sizes, PageSplit DEF PagesInv
  <2>2. free_page_tables' = [free_page_tables EXCEPT ![d][e] = NotPresent]
    BY <1>2, <2>1 DEF unmap_page
  <2> SUFFICES ASSUME NEW w \in Mapped, w # v
               PROVE  w \in Mapped'
    OBVIOUS
  <2>3. w \in VPage
    BY DEF Mapped
  <2>4. w \in Nat /\ pd_index(w) \in 0 .. Tables - 1 /\ pt_index(w) \in 0 .. Entries - 1
    BY <2>3, VPageSlot
  <2>5. page_directory[pd_index(w)] = pd_index(w) /\ FrameOf(w) # NotPresent
    BY <2>3, MappedFrames DEF PagesInv
  <2>6. ~(pd_index(w) = d /\ pt_index(w) = e)
    BY <2>4, PageUnique
  <2>7. FrameOf(w)' # NotPresent
    BY <2>1, <2>2, <2>4, <2>5, <2>6 DEF FrameOf, PagesInv
  <2>8. get_physical_address(w)' # NotPresent
    BY <2>4, <2>5, <2>7 DEF get_physical_address, FrameOf, NotPresent
  <2>9. QED
    BY <2>3, <2>8 DEF Mapped
<1>3. QED
  BY <1>1, <1>2

-----------------------------------------------------------------------------
(* Every action keeps what is held.                                        *)

LEMMA HeldInit == Init => HeldInv
<1> SUFFICES ASSUME Init PROVE MarkedPrefix /\ Held /\ Pending
  BY DEF HeldInv
<1>1. Marked = {}
  <2>1. \A v \in Slotted : v \div WORD_BITS \in Word
    BY SlottedSlot
  <2>2. page_bitmap = [w \in Word |-> {}]
    BY DEF Init
  <2>3. QED
    BY <2>1, <2>2 DEF Marked
<1>2. blocks = <<>> /\ DOMAIN blocks = {}
  BY DEF Init
<1>3. op.kind = "idle" /\ op.got = {}
  BY DEF Init, Idle
<1>4. MarkedPrefix
  BY <1>1 DEF MarkedPrefix
<1>5. Held
  BY <1>2 DEF Held
<1>6. Pending
  BY <1>2, <1>3 DEF Pending
<1>7. QED
  BY <1>4, <1>5, <1>6

\* The steps that change neither the bitmap, nor the tables, nor the blocks.
LEMMA HeldSame ==
  ASSUME HeldInv, ~misfreed,
         UNCHANGED <<page_bitmap, page_directory, free_page_tables, blocks>>
  PROVE  /\ MarkedPrefix' /\ Held' /\ Marked' = Marked /\ Mapped' = Mapped
         /\ MarkedPrefix /\ Held /\ Pending
<1>1. MarkedPrefix /\ Held /\ Pending
  BY DEF HeldInv
<1>2. Marked' = Marked
  BY MarkedSame
<1>3. Mapped' = Mapped
  BY DEF Mapped, get_physical_address
<1>4. QED
  BY <1>1, <1>2, <1>3 DEF MarkedPrefix, Held

LEMMA HeldAllocCall ==
  ASSUME IndInv, HeldInv, NEW n \in Counts, AllocCall(n)
  PROVE  HeldInv'
<1> SUFFICES ASSUME ~misfreed'
             PROVE  MarkedPrefix' /\ Held' /\ Pending'
  BY DEF HeldInv
<1>1. ~misfreed /\ UNCHANGED <<page_bitmap, page_directory, free_page_tables, blocks>>
  BY DEF AllocCall
<1>2. MarkedPrefix' /\ Held' /\ Marked' = Marked /\ Mapped' = Mapped
  BY <1>1, HeldSame
<1>3. n \in Nat
  BY CallerAssumption, Sizes
<1>4. op' = [kind |-> "alloc", n |-> n, left |-> n, ptr |-> NULL, got |-> {}]
  BY DEF AllocCall
<1>5. Pending'
  BY <1>3, <1>4 DEF Pending
<1>6. QED
  BY <1>2, <1>5

LEMMA HeldAllocPageNull ==
  ASSUME IndInv, HeldInv, AllocPageNull
  PROVE  HeldInv'
<1> SUFFICES ASSUME ~misfreed'
             PROVE  MarkedPrefix' /\ Held' /\ Pending'
  BY DEF HeldInv
<1>1. ~misfreed /\ UNCHANGED <<page_bitmap, page_directory, free_page_tables, blocks>>
  BY DEF AllocPageNull
<1>2. /\ MarkedPrefix' /\ Held' /\ Marked' = Marked /\ Mapped' = Mapped
      /\ MarkedPrefix /\ Held /\ Pending
  BY <1>1, HeldSame
<1>3. op \in Call /\ op' = [op EXCEPT !.left = op.left - 1] /\ op.kind = "alloc"
  BY DEF AllocPageNull, IndInv, TypeOK, Running
<1>4. /\ op'.kind = "alloc" /\ op'.ptr = op.ptr /\ op'.got = op.got /\ op'.n = op.n
      /\ op'.left = op.left - 1 /\ op.ptr \in Nat /\ op.n \in Nat /\ op.left \in Nat
  BY <1>3 DEF Call
<1>5. Slotted \subseteq Marked
  BY NoneUnmarked DEF AllocPageNull
<1>6. Slotted \subseteq Marked' /\ blocks' = blocks
  BY <1>1, <1>2, <1>5
<1>7. op.ptr # NULL => \A v \in Slotted : op.ptr <= v => v \in op.got
  BY <1>2, <1>3, <1>5 DEF Pending
<1>8. Pending'
  <2>1. op'.ptr = NULL => op'.got = {}
    BY <1>2, <1>3, <1>4 DEF Pending
  <2>2. op'.ptr # NULL =>
          /\ op'.ptr \in op'.got
          /\ \A v \in Marked' : op'.ptr <= v => v \in op'.got
          /\ \A v \in Slotted :
               op'.ptr <= v /\ v < op'.ptr + (op'.n - op'.left) => v \in op'.got
    BY <1>2, <1>3, <1>4, <1>7 DEF Pending
  <2>3. /\ op'.got \subseteq Marked' /\ op'.got \subseteq Mapped'
        /\ \A i \in DOMAIN blocks' : blocks'[i].got \cap op'.got = {}
    BY <1>2, <1>4, <1>6 DEF Pending
  <2>4. QED
    BY <1>4, <1>6, <2>1, <2>2, <2>3 DEF Pending
<1>9. QED
  BY <1>2, <1>8

LEMMA HeldAllocPageAbort ==
  ASSUME HeldInv, AllocPageAbort
  PROVE  HeldInv'
<1> SUFFICES ASSUME ~misfreed'
             PROVE  MarkedPrefix' /\ Held' /\ Pending'
  BY DEF HeldInv
<1>1. ~misfreed /\ UNCHANGED <<page_bitmap, page_directory, free_page_tables,
                               blocks, op>>
  BY DEF AllocPageAbort
<1>2. QED
  BY <1>1, HeldSame DEF Pending

\* The page alloc_page finds is the one after the marked ones: it belongs to
\* nobody, and the pages of the call stay consecutive.
LEMMA HeldAllocPage ==
  ASSUME IndInv, HeldInv, AllocPage
  PROVE  HeldInv'
<1> SUFFICES ASSUME ~misfreed'
             PROVE  MarkedPrefix' /\ Held' /\ Pending'
  BY DEF HeldInv
<1>1. ~misfreed /\ blocks' = blocks /\ MarkedPrefix /\ Held /\ Pending
  BY DEF AllocPage, HeldInv
<1> PICK s \in FreeSlots :
      LET p == page_index(s[1], s[2])
          v == page_virtual_address(p)
      IN  /\ FirstFree(s)
          /\ map_page(page_physical_address(p), v)
          /\ page_bitmap' = SetBit(s)
          /\ op' = [kind |-> "alloc", n |-> op.n, left |-> op.left - 1,
                    ptr |-> IF op.ptr = NULL THEN v ELSE op.ptr,
                    got |-> op.got \cup {v}]
  BY DEF AllocPage
<1> DEFINE p == page_index(s[1], s[2])
           v == page_virtual_address(p)
<1>2. s \in Word \X ScannedBits
  BY DEF FreeSlots
<1>3. /\ v \in Slotted /\ v \notin Marked
      /\ \A w \in Slotted \ Marked : v <= w
  BY FirstUnmarked
<1>4. v \in Nat /\ v \in VPage /\ v # NULL
  <2>1. v % WORD_BITS \in 1 .. 31 /\ v \in Nat /\ v \in VPage
    BY <1>3, SlottedSlot
  <2>2. QED
    BY <2>1 DEF NULL, WORD_BITS
<1>5. Marked' = Marked \cup {v} /\ Marked \subseteq Slotted
  <2>1. page_bitmap \in [Word -> SUBSET Bits] /\ page_bitmap' = SetBit(s)
    BY DEF IndInv, TypeOK
  <2>2. Marked' = Marked \cup {v}
    BY <1>2, <2>1, MarkStep
  <2>3. QED
    BY <2>2 DEF Marked
<1>6. v \in Mapped' /\ Mapped \subseteq Mapped'
  <2>1. page_physical_address(p) \in Nat
    <3>1. p \in Nat
      BY <1>2, ScannedPage
    <3>2. QED
      BY <3>1, RegionOf, Frames DEF page_physical_address
  <2>2. PagesInv /\ map_page(page_physical_address(p), v)
    BY PagesInvOf
  <2>3. QED
    BY <1>4, <2>1, <2>2, MapGrows
<1>7. \A w \in Slotted : w \in Nat
  BY SlottedSlot
<1>8. MarkedPrefix'
  <2>1. \A w \in Slotted : w < v => w \in Marked
    BY <1>3, <1>4, <1>7
  <2>2. QED
    BY <1>1, <1>5, <2>1 DEF MarkedPrefix
<1>9. Held'
  BY <1>1, <1>5, <1>6 DEF Held
<1>10. /\ op \in Call /\ op.left > 0 /\ op.kind = "alloc" /\ op.left <= op.n
       /\ op' = [kind |-> "alloc", n |-> op.n, left |-> op.left - 1,
                 ptr |-> IF op.ptr = NULL THEN v ELSE op.ptr,
                 got |-> op.got \cup {v}]
  BY DEF IndInv, TypeOK, AllocPage, Running
<1>11. /\ op'.kind = "alloc" /\ op'.n = op.n /\ op'.left = op.left - 1
       /\ op'.ptr = (IF op.ptr = NULL THEN v ELSE op.ptr)
       /\ op'.got = op.got \cup {v}
       /\ op.ptr \in Nat /\ op.n \in Nat /\ op.left \in Nat
  BY <1>10 DEF Call
<1>12. Pending'
  <2>1. op'.got \subseteq Marked' /\ op'.got \subseteq Mapped'
    BY <1>1, <1>5, <1>6, <1>11 DEF Pending
  <2>2. \A i \in DOMAIN blocks' : blocks'[i].got \cap op'.got = {}
    <3>1. \A i \in DOMAIN blocks : v \notin blocks[i].got
      BY <1>1, <1>3 DEF Held
    <3>2. QED
      BY <1>1, <1>11, <3>1 DEF Pending
  <2>3. op'.ptr # NULL
    BY <1>4, <1>11
  <2>4. op'.ptr \in op'.got
    BY <1>1, <1>10, <1>11 DEF Pending
  <2>5. op.ptr # NULL => op.ptr < v
    <3> SUFFICES ASSUME op.ptr # NULL PROVE op.ptr < v
      OBVIOUS
    <3>1. op.ptr \in Marked
      BY <1>1, <1>10 DEF Pending
    <3>2. ~(v < op.ptr)
      BY <1>1, <1>3, <3>1 DEF MarkedPrefix
    <3>3. QED
      BY <1>3, <1>4, <1>11, <3>1, <3>2
  <2>6. \A w \in Marked' : op'.ptr <= w => w \in op'.got
    <3>1. CASE op.ptr = NULL
      <4>1. op'.ptr = v
        BY <1>11, <3>1
      <4>2. \A w \in Marked : ~(v <= w)
        <5> SUFFICES ASSUME NEW w \in Marked, v <= w PROVE FALSE
          OBVIOUS
        <5>1. w \in Nat /\ w # v
          BY <1>3, <1>5, <1>7
        <5>2. v < w
          BY <1>4, <5>1
        <5>3. QED
          BY <1>1, <1>3, <5>2 DEF MarkedPrefix
      <4>3. QED
        BY <1>5, <1>11, <4>1, <4>2
    <3>2. CASE op.ptr # NULL
      BY <1>1, <1>5, <1>10, <1>11, <3>2 DEF Pending
    <3>3. QED
      BY <3>1, <3>2
  <2>7. ASSUME NEW w \in Slotted,
               op'.ptr <= w, w < op'.ptr + (op'.n - op'.left)
        PROVE  w \in op'.got
    <3>1. CASE op.ptr = NULL
      <4>1. op.left = op.n
        BY <1>1, <1>3, <1>10, <1>11, <3>1 DEF Pending
      <4>2. op'.ptr = v /\ w \in Nat
        BY <1>7, <1>11, <3>1
      <4>3. w = v
        BY <1>4, <1>11, <2>7, <4>1, <4>2
      <4>4. QED
        BY <1>11, <4>3
    <3>2. CASE op.ptr # NULL
      <4>1. op'.ptr = op.ptr /\ w \in Nat /\ op.ptr <= w
        BY <1>7, <1>11, <2>7, <3>2
      <4>2. CASE w \in Marked'
        BY <2>6, <2>7, <4>2
      <4>3. CASE w \notin Marked'
        <5>1. v < w
          BY <1>3, <1>4, <1>5, <4>1, <4>3
        <5>2. op.ptr <= v /\ v < op.ptr + (op.n - op.left)
          BY <1>4, <1>11, <2>5, <2>7, <3>2, <4>1, <5>1
        <5>3. v \in op.got
          BY <1>1, <1>3, <1>10, <3>2, <5>2 DEF Pending
        <5>4. QED
          BY <1>1, <1>3, <5>3 DEF Pending
      <4>4. QED
        BY <4>2, <4>3
    <3>3. QED
      BY <3>1, <3>2
  <2>8. QED
    BY <1>11, <2>1, <2>2, <2>3, <2>4, <2>6, <2>7 DEF Pending
<1>13. QED
  BY <1>8, <1>9, <1>12

LEMMA HeldAllocReturn ==
  ASSUME IndInv, HeldInv, AllocReturn
  PROVE  HeldInv'
<1> DEFINE b == [ptr |-> op.ptr, n |-> op.n, got |-> op.got]
<1> SUFFICES ASSUME ~misfreed'
             PROVE  MarkedPrefix' /\ Held' /\ Pending'
  BY DEF HeldInv
<1>1. /\ ~misfreed /\ MarkedPrefix /\ Held /\ Pending
      /\ UNCHANGED <<page_bitmap, page_directory, free_page_tables>>
  BY DEF AllocReturn, HeldInv
<1>2. Marked' = Marked /\ Mapped' = Mapped
  BY <1>1, MarkedSame DEF Mapped, get_physical_address
<1>3. MarkedPrefix'
  BY <1>1, <1>2 DEF MarkedPrefix
<1>4. op'.kind = "idle" /\ op'.got = {}
  BY DEF AllocReturn, Idle
<1>5. Pending'
  BY <1>4 DEF Pending
<1>6. op \in Call /\ blocks \in Seq(Block) /\ op.kind = "alloc" /\ op.left = 0
  BY DEF IndInv, TypeOK, AllocReturn, Running
<1>7. CASE op.ptr = NULL
  <2>1. blocks' = blocks
    BY <1>7 DEF AllocReturn
  <2>2. QED
    BY <1>1, <1>2, <1>3, <1>5, <2>1 DEF Held
<1>8. CASE op.ptr # NULL
  <2>1. blocks' = Append(blocks, b) /\ b \in Block
    BY <1>6, <1>8 DEF AllocReturn, Block, Call
  <2>2. /\ DOMAIN blocks' = 1 .. Len(blocks) + 1
        /\ Len(blocks) \in Nat /\ DOMAIN blocks = 1 .. Len(blocks)
        /\ \A j \in 1 .. Len(blocks) : blocks'[j] = blocks[j]
        /\ blocks'[Len(blocks) + 1] = b
    BY <1>6, <2>1
  <2>3. \A j \in DOMAIN blocks' : j \in DOMAIN blocks \/ j = Len(blocks) + 1
    BY <2>2
  <2>4. /\ b.got \subseteq Marked /\ b.got \subseteq Mapped
        /\ \A v \in Slotted : b.ptr <= v /\ v < b.ptr + b.n => v \in b.got
        /\ \A i \in DOMAIN blocks : blocks[i].got \cap b.got = {}
    <3>1. op.n - op.left = op.n
      BY <1>6 DEF Call
    <3>2. QED
      BY <1>1, <1>6, <1>8, <3>1 DEF Pending
  <2>5. ASSUME NEW i \in DOMAIN blocks'
        PROVE  /\ blocks'[i].got \subseteq Marked /\ blocks'[i].got \subseteq Mapped
               /\ \A v \in Slotted :
                    blocks'[i].ptr <= v /\ v < blocks'[i].ptr + blocks'[i].n =>
                      v \in blocks'[i].got
    <3>1. CASE i \in DOMAIN blocks
      <4>1. blocks'[i] = blocks[i]
        BY <2>2, <3>1
      <4>2. QED
        BY <1>1, <3>1, <4>1 DEF Held
    <3>2. CASE i = Len(blocks) + 1
      <4>1. blocks'[i] = b
        BY <2>2, <3>2
      <4>2. QED
        BY <2>4, <4>1
    <3>3. QED
      BY <2>3, <3>1, <3>2
  <2>6. ASSUME NEW i \in DOMAIN blocks', NEW j \in DOMAIN blocks', i # j
        PROVE  blocks'[i].got \cap blocks'[j].got = {}
    <3>1. CASE i \in DOMAIN blocks /\ j \in DOMAIN blocks
      <4>1. blocks'[i] = blocks[i] /\ blocks'[j] = blocks[j]
        BY <2>2, <3>1
      <4>2. QED
        BY <1>1, <2>6, <3>1, <4>1 DEF Held
    <3>2. CASE i \in DOMAIN blocks /\ j = Len(blocks) + 1
      <4>1. blocks'[i] = blocks[i] /\ blocks'[j] = b
        BY <2>2, <3>2
      <4>2. QED
        BY <2>4, <3>2, <4>1
    <3>3. CASE i = Len(blocks) + 1 /\ j \in DOMAIN blocks
      <4>1. blocks'[j] = blocks[j] /\ blocks'[i] = b
        BY <2>2, <3>3
      <4>2. QED
        BY <2>4, <3>3, <4>1
    <3>4. QED
      BY <2>3, <2>6, <3>1, <3>2, <3>3
  <2>7. Held'
    BY <1>2, <2>5, <2>6 DEF Held
  <2>8. QED
    BY <1>3, <1>5, <2>7
<1>9. QED
  BY <1>7, <1>8

\* The block given back has no page of another one, not even in the part of
\* its range that is not its own.
LEMMA HeldFreeCall ==
  ASSUME IndInv, HeldInv, NEW i \in 1 .. Len(blocks), FreeCall(i)
  PROVE  HeldInv'
<1> DEFINE old(j) == IF j < i THEN j ELSE j + 1
<1> SUFFICES ASSUME ~misfreed'
             PROVE  MarkedPrefix' /\ Held' /\ Pending'
  BY DEF HeldInv
<1>1. /\ ~misfreed /\ MarkedPrefix /\ Held /\ Pending
      /\ UNCHANGED <<page_bitmap, page_directory, free_page_tables>>
  BY DEF FreeCall, HeldInv
<1>2. Marked' = Marked /\ Mapped' = Mapped
  BY <1>1, MarkedSame DEF Mapped, get_physical_address
<1>3. MarkedPrefix'
  BY <1>1, <1>2 DEF MarkedPrefix
<1>4. blocks \in Seq(Block) /\ DOMAIN blocks = 1 .. Len(blocks) /\ Len(blocks) \in Nat
  <2>1. blocks \in Seq(Block)
    BY DEF IndInv, TypeOK
  <2>2. QED
    BY <2>1
<1>5. /\ DOMAIN blocks' = 1 .. Len(blocks) - 1
      /\ \A j \in 1 .. Len(blocks) - 1 :
           /\ old(j) \in DOMAIN blocks /\ old(j) # i /\ blocks'[j] = blocks[old(j)]
  <2>1. blocks' = [j \in 1 .. Len(blocks) - 1 |->
                     IF j < i THEN blocks[j] ELSE blocks[j + 1]]
    BY DEF FreeCall
  <2>2. QED
    BY <1>4, <2>1
<1>6. \A j, k \in 1 .. Len(blocks) - 1 : j # k => old(j) # old(k)
  BY <1>4
<1>7. Held'
  <2>1. ASSUME NEW j \in DOMAIN blocks'
        PROVE  /\ blocks'[j].got \subseteq Marked /\ blocks'[j].got \subseteq Mapped
               /\ \A v \in Slotted :
                    blocks'[j].ptr <= v /\ v < blocks'[j].ptr + blocks'[j].n =>
                      v \in blocks'[j].got
    <3>1. blocks'[j] = blocks[old(j)] /\ old(j) \in DOMAIN blocks
      BY <1>5
    <3> HIDE DEF old
    <3>2. QED
      BY <1>1, <3>1 DEF Held
  <2>2. ASSUME NEW j \in DOMAIN blocks', NEW k \in DOMAIN blocks', j # k
        PROVE  blocks'[j].got \cap blocks'[k].got = {}
    <3>1. /\ blocks'[j] = blocks[old(j)] /\ old(j) \in DOMAIN blocks
          /\ blocks'[k] = blocks[old(k)] /\ old(k) \in DOMAIN blocks
          /\ old(j) # old(k)
      BY <1>5, <1>6, <2>2
    <3> HIDE DEF old
    <3>2. QED
      BY <1>1, <3>1 DEF Held
  <2>3. QED
    BY <1>2, <2>1, <2>2 DEF Held
<1>8. /\ op'.kind = "free" /\ op'.got = {}
      /\ op'.ptr = blocks[i].ptr /\ op'.n = blocks[i].n
  BY DEF FreeCall
<1>9. ASSUME NEW j \in DOMAIN blocks', NEW v \in blocks'[j].got
      PROVE  ~(op'.ptr <= v /\ v < op'.ptr + op'.n)
  <2>1. /\ blocks'[j] = blocks[old(j)] /\ old(j) \in DOMAIN blocks
        /\ old(j) # i /\ i \in DOMAIN blocks
    BY <1>4, <1>5
  <2> HIDE DEF old
  <2>2. v \in Slotted /\ v \notin blocks[i].got
    BY <1>1, <2>1 DEF Held, Marked
  <2>3. QED
    BY <1>1, <1>8, <2>1, <2>2 DEF Held
<1>10. Pending'
  BY <1>8, <1>9 DEF Pending
<1>11. QED
  BY <1>3, <1>7, <1>10

LEMMA HeldFreePage ==
  ASSUME IndInv, HeldInv, FreePage
  PROVE  HeldInv'
<1> SUFFICES ASSUME ~misfreed'
             PROVE  MarkedPrefix' /\ Held' /\ Pending'
  BY DEF HeldInv
<1>1. ~misfreed /\ page_bitmap' = page_bitmap
  BY DEF FreePage
<1>2. MarkedPrefix /\ Held /\ Pending
  BY <1>1 DEF HeldInv
<1>3. Marked' = Marked
  BY <1>1, MarkedSame
<1>4. MarkedPrefix'
  BY <1>2, <1>3 DEF MarkedPrefix
<1>5. /\ page_addr \in Nat /\ pd_index(page_addr) \in 0 .. Tables
      /\ unmap_page(page_addr) /\ UNCHANGED page_directory /\ blocks' = blocks
  BY FreedPage DEF FreePage
<1>6. \A w \in Mapped : w # page_addr => w \in Mapped'
  BY <1>5, UnmapOnly, PagesInvOf
<1>7. op \in Call /\ op.kind = "free" /\ op.left > 0 /\ op.left <= op.n
      /\ op' = [op EXCEPT !.left = op.left - 1]
  BY DEF IndInv, TypeOK, FreePage, Running
<1>8. op.ptr <= page_addr /\ page_addr < op.ptr + op.n
  BY <1>7 DEF page_addr, Call
<1>9. \A i \in DOMAIN blocks : page_addr \notin blocks[i].got
  BY <1>2, <1>7, <1>8 DEF Pending
<1>10. Held'
  <2>1. \A i \in DOMAIN blocks : blocks[i].got \subseteq Mapped'
    BY <1>2, <1>6, <1>9 DEF Held
  <2>2. QED
    BY <1>2, <1>3, <1>5, <2>1 DEF Held
<1>11. op'.kind = "free" /\ op'.got = op.got /\ op'.ptr = op.ptr /\ op'.n = op.n
  BY <1>7 DEF Call
<1>12. Pending'
  BY <1>2, <1>5, <1>7, <1>11 DEF Pending
<1>13. QED
  BY <1>4, <1>10, <1>12

LEMMA HeldFreeReturn ==
  ASSUME HeldInv, FreeReturn
  PROVE  HeldInv'
<1> SUFFICES ASSUME ~misfreed'
             PROVE  MarkedPrefix' /\ Held' /\ Pending'
  BY DEF HeldInv
<1>1. ~misfreed /\ UNCHANGED <<page_bitmap, page_directory, free_page_tables, blocks>>
  BY DEF FreeReturn
<1>2. op'.kind = "idle" /\ op'.got = {}
  BY DEF FreeReturn, Idle
<1>3. Pending'
  BY <1>2 DEF Pending
<1>4. QED
  BY <1>1, <1>3, HeldSame

LEMMA HeldTlb ==
  ASSUME HeldInv,
         UNCHANGED <<page_bitmap, page_directory, free_page_tables, blocks, op,
                     misfreed>>
  PROVE  HeldInv'
<1> SUFFICES ASSUME ~misfreed'
             PROVE  MarkedPrefix' /\ Held' /\ Pending'
  BY DEF HeldInv
<1>1. QED
  BY HeldSame DEF Pending

LEMMA HeldNext == IndInv /\ HeldInv /\ [Next]_vars => HeldInv'
<1> SUFFICES ASSUME IndInv, HeldInv, [Next]_vars PROVE HeldInv'
  OBVIOUS
<1>1. CASE \E n \in Counts : AllocCall(n)
  BY <1>1, HeldAllocCall
<1>2. CASE AllocPageNull
  BY <1>2, HeldAllocPageNull
<1>3. CASE AllocPageAbort
  BY <1>3, HeldAllocPageAbort
<1>4. CASE AllocPage
  BY <1>4, HeldAllocPage
<1>5. CASE AllocReturn
  BY <1>5, HeldAllocReturn
<1>6. CASE \E i \in 1 .. Len(blocks) : FreeCall(i)
  BY <1>6, HeldFreeCall
<1>7. CASE FreePage
  BY <1>7, HeldFreePage
<1>8. CASE FreeReturn
  BY <1>8, HeldFreeReturn
<1>9. CASE \E v \in Watched : TlbFill(v)
  BY <1>9, HeldTlb DEF TlbFill
<1>10. CASE UNCHANGED vars
  BY <1>10, HeldTlb DEF vars
<1>11. QED
  BY <1>1, <1>2, <1>3, <1>4, <1>5, <1>6, <1>7, <1>8, <1>9, <1>10 DEF Next

\* Until free_page clears a bit, the bits are set in the order of the pages
\* and whatever a caller holds has its bit and its mapping.
THEOREM SpecHeldInv == Spec => []HeldInv
<1>1. Spec => [](IndInv /\ HeldInv)
  <2>1. Init => IndInv /\ HeldInv
    BY InitInv, HeldInit
  <2>2. IndInv /\ HeldInv /\ [Next]_vars => (IndInv /\ HeldInv)'
    BY NextInv, HeldNext
  <2>3. QED
    BY <2>1, <2>2, PTL DEF Spec
<1>2. QED
  BY <1>1, PTL

\* Until free_page clears a bit, no page is handed out twice and freeing one
\* block takes no page away from another (paging.c:105-166).
THEOREM SpecBlocksSoundUntilMisfree == Spec => []BlocksSoundUntilMisfree
<1>1. HeldInv => BlocksSoundUntilMisfree
  BY DEF HeldInv, Held, Pending, BlocksSoundUntilMisfree
<1>2. QED
  BY <1>1, SpecHeldInv, PTL

\* Until free_page clears a bit, a caller misses exactly the pages whose bit
\* alloc_page does not test, at whatever page the block starts and also when
\* the pages run out in the middle of the call (paging.c:105-160).
THEOREM SpecHolesAreWordEnds == Spec => []HolesAreWordEnds
<1>1. IndInv /\ HeldInv => HolesAreWordEnds
  <2> SUFFICES ASSUME IndInv, HeldInv, ~misfreed, NEW i \in DOMAIN blocks,
                      NEW v \in blocks[i].ptr .. blocks[i].ptr + blocks[i].n - 1,
                      v \in VPage
               PROVE  v \in blocks[i].got <=> v % WORD_BITS # 0
    BY DEF HolesAreWordEnds
  <2>1. blocks[i].ptr \in Nat /\ blocks[i].n \in Nat
    BY SizesAssumption DEF IndInv, BlocksBounded, VPage
  <2>2. blocks[i].ptr <= v /\ v < blocks[i].ptr + blocks[i].n
    BY <2>1
  <2>3. blocks[i].got \subseteq Slotted
    BY DEF HeldInv, Held, Marked
  <2>4. v \in Slotted => v \in blocks[i].got
    BY <2>2 DEF HeldInv, Held
  <2>5. QED
    BY <2>3, <2>4 DEF Slotted
<1>2. QED
  BY <1>1, SpecIndInv, SpecHeldInv, PTL
=============================================================================
