------------------------------- MODULE Paging -------------------------------
(***************************************************************************)
(* The physical page allocator of kernel/src/paging.c: a bitmap of 32-bit  *)
(* words over the free memory region, the page tables that map the page    *)
(* with index p at virtual page p + 1, and the four calls liballoc makes   *)
(* through liballoc_alloc and liballoc_free (libc/src/liballoc/mvk.c).     *)
(*                                                                         *)
(* Addresses are page numbers: every address paging.c computes is masked   *)
(* to, or is a multiple of, PAGE_SIZE.  All calls run with interrupts      *)
(* disabled (liballoc_lock), so the only concurrent actor is the MMU,      *)
(* which may load a translation into the TLB at any time.                  *)
(***************************************************************************)
EXTENDS Integers, Sequences

CONSTANTS
  Words,        \* PAGE_BITMAP_SIZE, the number of words of page_bitmap
  Tables,       \* FREE_PAGE_TABLES_SIZE, the number of free_page_tables
  Entries,      \* entries of a page table, 1024 in the kernel
  DirSize,      \* entries of page_directory, 1024 in the kernel
  FreeBase,     \* mmap_free_memory / PAGE_SIZE, from mmap_initialize
  FreeLengths,  \* the lengths in pages the free region may have
  KernelEnd,    \* first physical page after the kernel image
  Counts,       \* page counts asked of alloc_pages, at most one page table
  Watched,      \* virtual pages whose TLB entry is tracked
  MaxCalls      \* bound: calls of alloc_pages and free_pages in a behaviour

WORD_BITS == 32                       \* the uint32_t words of page_bitmap
FREE_BITS == 64                       \* the 63 and 64 of free_page
FRAMES    == 1048576                  \* physical pages of a 32-bit address
NULL      == 0                        \* virtual page 0, the null pointer

ASSUME SizesAssumption ==
  /\ Words \in Nat \ {0} /\ Tables \in Nat \ {0} /\ Entries \in Nat \ {0}
  /\ Words * 32 = Tables * Entries
  /\ DirSize \in Nat /\ DirSize > Tables + 3
ASSUME RegionAssumption ==
  /\ FreeBase \in Nat /\ KernelEnd \in Nat /\ KernelEnd <= FreeBase
  /\ \A n \in FreeLengths : n \in Nat /\ FreeBase + n <= FRAMES
ASSUME CallerAssumption == Counts \subseteq 1 .. Entries /\ MaxCalls \in Nat
ASSUME WatchedAssumption == Watched \subseteq 0 .. (Tables * Entries - 1)

KERNEL_PAGE_TABLES_SIZE      == 2
KERNEL_PAGE_DIRECTORY_START  == Tables + 1

NotPresent == -1
Bits       == 0 .. WORD_BITS - 1
Word       == 0 .. Words - 1
VPage      == 0 .. Tables * Entries - 1     \* pages under free_page_tables
SelfTable  == Tables + KERNEL_PAGE_TABLES_SIZE  \* page_directory as a table
Table      == 0 .. SelfTable   \* the free tables, the two of the kernel, self

Idle == [kind |-> "idle", n |-> 0, left |-> 0, ptr |-> NULL, got |-> {}]

VARIABLES
  mmap_free_memory_length,  \* / PAGE_SIZE, set once by mmap_initialize
  page_directory,    \* slot -> table it points to, or NotPresent
  free_page_tables,  \* table -> entry -> physical page, or NotPresent
  page_bitmap,       \* word -> set of its bits that are 1
  tlb,               \* watched virtual page -> cached physical page
  op,                \* the call of alloc_pages or free_pages in progress
  blocks,            \* history: what callers hold, in order of allocation
  misfreed,          \* history: free_page cleared the bit of some page
  halted,            \* "no", or why the kernel entered abort()
  calls              \* calls made so far, for the bound MaxCalls

vars == <<mmap_free_memory_length, page_directory, free_page_tables,
          page_bitmap, tlb, op, blocks, misfreed, halted, calls>>

-----------------------------------------------------------------------------
(* Address arithmetic.                                                     *)

page_index(word, bit) == word * WORD_BITS + (WORD_BITS - 1 - bit)

pd_index(v) == v \div Entries
pt_index(v) == v % Entries

\* For the pages below the kernel's directory slots, the only ones the
\* allocator maps: the walk through the recursive window at 0xFFC00000.
get_physical_address(v) ==
  IF page_directory[pd_index(v)] = NotPresent
  THEN NotPresent
  ELSE free_page_tables[page_directory[pd_index(v)]][pt_index(v)]

-----------------------------------------------------------------------------
(* map_page, unmap_page and the scan of alloc_page.                        *)

\* map_page installs the page table of a directory slot on first use and
\* gives up when the caller's array has none for that slot.
NoPageTable(v) ==
  page_directory[pd_index(v)] = NotPresent /\ pd_index(v) >= Tables

\* Mutant: every directory slot gets the first table of the array.
map_page_first_table(frame, v) ==
  LET pde == IF page_directory[pd_index(v)] = NotPresent
             THEN 0 ELSE page_directory[pd_index(v)]
  IN  /\ page_directory' = [page_directory EXCEPT ![pd_index(v)] = pde]
      /\ free_page_tables' =
           [free_page_tables EXCEPT ![pde][pt_index(v)] = frame]
      /\ tlb' = [w \in Watched |-> IF w = v THEN NotPresent ELSE tlb[w]]

map_page(frame, v) ==
  LET pde == IF page_directory[pd_index(v)] = NotPresent
             THEN pd_index(v) ELSE page_directory[pd_index(v)]
  IN  /\ page_directory' = [page_directory EXCEPT ![pd_index(v)] = pde]
      /\ free_page_tables' =
           [free_page_tables EXCEPT ![pde][pt_index(v)] = frame]
      /\ tlb' = [w \in Watched |-> IF w = v THEN NotPresent ELSE tlb[w]]

\* Mutant: the entry is cleared and the TLB is not flushed.
unmap_page_no_flush(v) ==
  /\ UNCHANGED tlb
  /\ IF get_physical_address(v) = NotPresent
     THEN UNCHANGED free_page_tables
     ELSE free_page_tables' =
            [free_page_tables EXCEPT
               ![page_directory[pd_index(v)]][pt_index(v)] = NotPresent]

unmap_page(v) ==
  IF get_physical_address(v) = NotPresent
  THEN UNCHANGED <<free_page_tables, tlb>>
  ELSE /\ free_page_tables' =
            [free_page_tables EXCEPT
               ![page_directory[pd_index(v)]][pt_index(v)] = NotPresent]
       /\ tlb' = [w \in Watched |-> IF w = v THEN NotPresent ELSE tlb[w]]

\* Mutant: the scan goes down to bit 0.
ScannedBits_all == 0 .. WORD_BITS - 1

\* The bits alloc_page tests in a word: "while (bit_index > 0)" never
\* reaches bit 0.
ScannedBits == 1 .. WORD_BITS - 1

FreeSlots == {s \in Word \X ScannedBits : s[2] \notin page_bitmap[s[1]]}

\* Mutant: the bits of a word are scanned upwards too.
ScanBefore_upwards(s, t) == s[1] < t[1] \/ (s[1] = t[1] /\ s[2] <= t[2])

\* Words are scanned upwards and the bits of a word downwards from 31.
ScanBefore(s, t) == s[1] < t[1] \/ (s[1] = t[1] /\ s[2] >= t[2])

\* The slot alloc_page finds, and the pages it stands for.
FirstFree(s) == s \in FreeSlots /\ \A t \in FreeSlots : ScanBefore(s, t)

\* Mutant: page p is mapped at page p, without the offset of one page.
page_virtual_address_no_offset(p) == p

page_physical_address(p) == (FreeBase + p) % FRAMES
page_virtual_address(p)  == p + 1

\* Mutants: the mask is shifted one bit too far; it is built from the page
\* order instead of the bit index.
SetBit_shifted(s)  == [page_bitmap EXCEPT ![s[1]] = @ \cup {s[2] + 1}]
SetBit_mirrored(s) ==
  [page_bitmap EXCEPT ![s[1]] = @ \cup {WORD_BITS - 1 - s[2]}]

SetBit(s) == [page_bitmap EXCEPT ![s[1]] = @ \cup {s[2]}]

\* free_page takes the virtual page number for the page index and divides
\* the bitmap into 64-bit words.
bitmap_index(v) == v \div FREE_BITS
bit_index(v)    == FREE_BITS - 1 - (v % FREE_BITS)

ClearBit(v) == [page_bitmap EXCEPT ![bitmap_index(v)] = @ \ {bit_index(v)}]

-----------------------------------------------------------------------------
(* The state paging_initialize leaves, with nothing allocated.             *)

Init ==
  /\ mmap_free_memory_length \in FreeLengths
  /\ page_directory =
       [i \in 0 .. DirSize - 1 |->
          IF i = KERNEL_PAGE_DIRECTORY_START THEN Tables
          ELSE IF i = KERNEL_PAGE_DIRECTORY_START + 1 THEN Tables + 1
          ELSE IF i = DirSize - 1 THEN SelfTable
          ELSE NotPresent]
  /\ free_page_tables =
       [t \in 0 .. Tables - 1 |-> [j \in 0 .. Entries - 1 |-> NotPresent]]
  /\ page_bitmap = [w \in Word |-> {}]
  /\ tlb = [v \in Watched |-> NotPresent]
  /\ op = Idle
  /\ blocks = <<>>
  /\ misfreed = FALSE
  /\ halted = "no"
  /\ calls = 0

-----------------------------------------------------------------------------
(* alloc_pages: a loop of alloc_page.                                      *)

Running(kind) == halted = "no" /\ op.kind = kind

AllocCall(n) ==
  /\ Running("idle") /\ calls < MaxCalls
  /\ op' = [kind |-> "alloc", n |-> n, left |-> n, ptr |-> NULL, got |-> {}]
  /\ calls' = calls + 1
  /\ UNCHANGED <<mmap_free_memory_length, page_directory, free_page_tables,
                 page_bitmap, tlb, blocks, misfreed, halted>>

\* Every scanned bit is set: alloc_page returns NULL, alloc_pages goes on.
AllocPageNull ==
  /\ Running("alloc") /\ op.left > 0
  /\ FreeSlots = {}
  /\ op' = [op EXCEPT !.left = @ - 1]
  /\ UNCHANGED <<mmap_free_memory_length, page_directory, free_page_tables,
                 page_bitmap, tlb, blocks, misfreed, halted, calls>>

\* The two ways alloc_page calls abort().
AllocPageAbort ==
  /\ Running("alloc") /\ op.left > 0
  /\ \E s \in FreeSlots :
       LET p == page_index(s[1], s[2])
       IN  /\ FirstFree(s)
           /\ \/ p >= mmap_free_memory_length /\ halted' = "out of memory"
              \/ /\ p < mmap_free_memory_length
                 /\ NoPageTable(page_virtual_address(p))
                 /\ halted' = "page table"
  /\ UNCHANGED <<mmap_free_memory_length, page_directory, free_page_tables,
                 page_bitmap, tlb, op, blocks, misfreed, calls>>

AllocPage ==
  /\ Running("alloc") /\ op.left > 0
  /\ \E s \in FreeSlots :
       LET p == page_index(s[1], s[2])
           v == page_virtual_address(p)
       IN  /\ FirstFree(s)
           /\ p < mmap_free_memory_length /\ ~NoPageTable(v)
           /\ map_page(page_physical_address(p), v)
           /\ page_bitmap' = SetBit(s)
           /\ op' = [kind |-> "alloc", n |-> op.n, left |-> op.left - 1,
                     ptr |-> IF op.ptr = NULL THEN v ELSE op.ptr,
                     got |-> op.got \cup {v}]
  /\ UNCHANGED <<mmap_free_memory_length, blocks, misfreed, halted, calls>>

AllocReturn ==
  /\ Running("alloc") /\ op.left = 0
  /\ blocks' = IF op.ptr = NULL THEN blocks
               ELSE Append(blocks,
                           [ptr |-> op.ptr, n |-> op.n, got |-> op.got])
  /\ op' = Idle
  /\ UNCHANGED <<mmap_free_memory_length, page_directory, free_page_tables,
                 page_bitmap, tlb, misfreed, halted, calls>>

-----------------------------------------------------------------------------
(* free_pages: a loop of free_page over the block the caller gives back.   *)

FreeCall(i) ==
  /\ Running("idle") /\ calls < MaxCalls
  /\ op' = [kind |-> "free", n |-> blocks[i].n, left |-> blocks[i].n,
            ptr |-> blocks[i].ptr, got |-> {}]
  /\ blocks' = [j \in 1 .. Len(blocks) - 1 |->
                  IF j < i THEN blocks[j] ELSE blocks[j + 1]]
  /\ calls' = calls + 1
  /\ UNCHANGED <<mmap_free_memory_length, page_directory, free_page_tables,
                 page_bitmap, tlb, misfreed, halted>>

\* Mutant: the loop of free_pages counts from 1.
page_addr_from_one == op.ptr + (op.n - op.left) + 1

page_addr == op.ptr + (op.n - op.left)     \* pages_addr + i * PAGE_SIZE

FreePage ==
  /\ Running("free") /\ op.left > 0
  /\ unmap_page(page_addr)
  /\ page_bitmap' = ClearBit(page_addr)
  /\ misfreed' = (misfreed \/ page_bitmap' # page_bitmap)
  /\ op' = [op EXCEPT !.left = @ - 1]
  /\ UNCHANGED <<mmap_free_memory_length, page_directory, blocks, halted,
                 calls>>

FreeReturn ==
  /\ Running("free") /\ op.left = 0
  /\ op' = Idle
  /\ UNCHANGED <<mmap_free_memory_length, page_directory, free_page_tables,
                 page_bitmap, tlb, blocks, misfreed, halted, calls>>

\* The MMU caches the translation of a mapped page whenever it likes.
TlbFill(v) ==
  /\ get_physical_address(v) # NotPresent
  /\ tlb' = [tlb EXCEPT ![v] = get_physical_address(v)]
  /\ UNCHANGED <<mmap_free_memory_length, page_directory, free_page_tables,
                 page_bitmap, op, blocks, misfreed, halted, calls>>

Next ==
  \/ \E n \in Counts : AllocCall(n)
  \/ AllocPageNull
  \/ AllocPageAbort
  \/ AllocPage
  \/ AllocReturn
  \/ \E i \in 1 .. Len(blocks) : FreeCall(i)
  \/ FreePage
  \/ FreeReturn
  \/ \E v \in Watched : TlbFill(v)

Spec == Init /\ [][Next]_vars

-----------------------------------------------------------------------------
(* Properties.                                                             *)

Block == [ptr : Nat, n : Nat, got : SUBSET Nat]
Call  == [kind : {"idle", "alloc", "free"}, n : Nat, left : Nat, ptr : Nat,
          got : SUBSET Nat]

TypeOK ==
  /\ mmap_free_memory_length \in FreeLengths
  /\ page_directory \in [0 .. DirSize - 1 -> Table \cup {NotPresent}]
  /\ free_page_tables \in
       [0 .. Tables - 1 ->
          [0 .. Entries - 1 -> NotPresent .. FRAMES - 1]]
  /\ page_bitmap \in [Word -> SUBSET Bits]
  /\ tlb \in [Watched -> NotPresent .. FRAMES - 1]
  /\ op \in Call /\ op.left <= op.n
  /\ blocks \in Seq(Block)
  /\ misfreed \in BOOLEAN
  /\ halted \in {"no", "out of memory", "page table"}
  /\ calls \in Nat

Mapped == {v \in VPage : get_physical_address(v) # NotPresent}

\* Whatever is allocated and freed, in whatever order: the null page is never
\* mapped, so a null pointer faults; a mapped page lies in the free region and
\* outside the kernel image; and no two pages share a frame
\* (alloc_page, map_page and unmap_page).
FrameSafety ==
  /\ NULL \notin Mapped
  /\ \A v \in Mapped :
       /\ get_physical_address(v) \in
            FreeBase .. FreeBase + mmap_free_memory_length - 1
       /\ get_physical_address(v) >= KernelEnd
  /\ \A v, w \in Mapped :
       get_physical_address(v) = get_physical_address(w) => v = w

\* map_page never runs out of page tables for alloc_page, although page p is
\* mapped at p + 1 and the last index of the bitmap has no page table for
\* that: the scan never tests bit 0 of a word, the bit of that last index.
NoTableAbort == halted # "page table"

\* The directory keeps the kernel's two tables and its own recursive slot,
\* and a slot below them only ever points to the free table of that slot.
DirectorySound ==
  /\ page_directory[KERNEL_PAGE_DIRECTORY_START] = Tables
  /\ page_directory[KERNEL_PAGE_DIRECTORY_START + 1] = Tables + 1
  /\ page_directory[DirSize - 1] = SelfTable
  /\ \A i \in 0 .. Tables - 1 : page_directory[i] \in {NotPresent, i}
  /\ \A i \in {Tables} \cup (Tables + 3 .. DirSize - 2) :
       page_directory[i] = NotPresent

\* Until free_page clears a bit, no page is handed out twice, to two callers or
\* to a new one while it is still held, and freeing one block never takes a
\* page away from another: every page a caller got stays mapped (alloc_page,
\* free_page).
BlocksSoundUntilMisfree ==
  ~misfreed =>
    /\ \A i, j \in DOMAIN blocks :
         i # j => blocks[i].got \cap blocks[j].got = {}
    /\ \A i \in DOMAIN blocks :
         blocks[i].got \cap op.got = {} /\ blocks[i].got \subseteq Mapped

\* Until free_page clears a bit, the pages a block misses are exactly those
\* whose index ends a 32-bit word, whose bit alloc_page never tests.
HolesAreWordEnds ==
  ~misfreed =>
    \A i \in DOMAIN blocks :
      \A v \in blocks[i].ptr .. blocks[i].ptr + blocks[i].n - 1 :
        v \in VPage => (v \in blocks[i].got <=> v % WORD_BITS # 0)

\* The TLB never holds a translation the page tables do not: unmap_page and
\* map_page flush the entry they change.
TlbCoherent ==
  \A v \in Watched :
    tlb[v] # NotPresent => tlb[v] = get_physical_address(v)
=============================================================================
