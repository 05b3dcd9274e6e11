----------------------------- MODULE KernelHeap -----------------------------
(***************************************************************************)
(* The heap on the pages it really gets: liballoc.c (LibAlloc) over        *)
(* paging.c (Paging), joined by liballoc_alloc and liballoc_free of        *)
(* libc/src/liballoc/mvk.c.  Every page of a call is a step.  A byte that  *)
(* is read or written on a page that is not mapped is a page fault, which  *)
(* the kernel reports and does not return from.                            *)
(*                                                                         *)
(* The callers use the bytes they are given; calloc is called nowhere in   *)
(* the kernel.                                                             *)
(***************************************************************************)
EXTENDS Integers, Sequences, FiniteSets

CONSTANTS
  \* of Paging
  Words, Tables, Entries, DirSize, FreeBase, FreeLengths, KernelEnd,
  MaxCalls,     \* bound: calls of alloc_pages and free_pages
  \* of LibAlloc
  UINT, TAG, MINEXP, MAXEXP, MAXCOMPLETE, PageSize, PageCount,
  ArenaPages,   \* the virtual pages that blocks can lie in
  Sizes, MaxLive

\* The sizes of the page allocator and of the heap, as Paging and LibAlloc
\* assume them.
ASSUME SizesAssumption ==
  /\ Words \in Nat \ {0} /\ Tables \in Nat \ {0} /\ Entries \in Nat \ {0}
  /\ Words * 32 = Tables * Entries
  /\ DirSize \in Nat /\ DirSize > Tables + 3
ASSUME RegionAssumption ==
  /\ FreeBase \in Nat /\ KernelEnd \in Nat /\ KernelEnd <= FreeBase
  /\ \A n \in FreeLengths : n \in Nat /\ FreeBase + n <= 1048576
  /\ MaxCalls \in Nat
ASSUME WidthAssumption ==
  /\ MINEXP \in Nat /\ MAXEXP \in Nat /\ MINEXP < MAXEXP /\ UINT = 2^MAXEXP
  /\ TAG \in Nat \ {0} /\ MAXCOMPLETE \in Nat /\ MaxLive \in Nat
  /\ PageSize \in Nat \ {0} /\ PageCount \in Nat \ {0} /\ ArenaPages \in Nat
  /\ 2 * TAG <= PageSize /\ (ArenaPages + 1) * PageSize < UINT

\* A block begins at a page that has a bit and is at most a page table long: it
\* ends in the arena, which ends before the kernel's own page tables.
ASSUME ArenaAssumption == Words * 32 + Entries <= ArenaPages + 1

\* What is asked for does not wrap, and neither it and its header nor the least
\* number of pages is more than a page table.
ASSUME NoWrapAssumption ==
  /\ PageCount <= Entries
  /\ \A size \in Sizes :
       size \in 1 .. UINT - TAG - 1 /\ size + TAG <= Entries * PageSize

VARIABLES
  mmap_free_memory_length, page_directory, free_page_tables, page_bitmap, tlb,
  page_op, blocks, misfreed, halted, calls,
  tag, l_freePages, l_completePages, pages, heap_op, live,
  faulted   \* the pages that were used and not mapped

pageVars == <<mmap_free_memory_length, page_directory, free_page_tables,
              page_bitmap, tlb, page_op, blocks, misfreed, halted, calls>>
heapVars == <<tag, l_freePages, l_completePages, pages, heap_op, live>>
vars     == <<pageVars, heapVars, faulted>>

PG == INSTANCE Paging WITH
        op <- page_op, Counts <- 1 .. Entries, Watched <- {}
LA == INSTANCE LibAlloc WITH op <- heap_op

NULL == 0

Init == PG!Init /\ LA!Init /\ faulted = {}

-----------------------------------------------------------------------------
(* The pages that a step uses.                                             *)

PagesOf(a, bytes) == a \div PageSize .. (a + bytes - 1) \div PageSize

Payload(t, bytes) == PagesOf(t + TAG, bytes)

Unmapped(V) == {v \in V : PG!get_physical_address(v) = PG!NotPresent}

\* The tags malloc looks at: those of one list, up to the first that will do.
Searched ==
  LET walk == LA!ListWalk(LA!ListIndex(heap_op.size))
  IN  {walk[n] : n \in {k \in DOMAIN walk :
         \A m \in 0 .. k - 1 :
           walk[m] # NULL => ~LA!BigEnough(walk[m], heap_op.size)}}

\* The tags whose headers a step of the heap reads or writes.
Accessed ==
  LET was     == DOMAIN tag
      is      == DOMAIN tag'
      changed == {a \in was \cup is : a \in was \cap is => tag'[a] # tag[a]}
      read    == CASE heap_op.pc = "idle"   -> {heap_op'.old, heap_op'.t}
                   [] heap_op.pc = "search" -> Searched
                   [] heap_op.pc = "melt"   ->
                        {heap_op.t, tag[heap_op.t].split_left,
                         tag[heap_op.t].split_right}
                   [] heap_op.pc = "free"   -> {heap_op.old}
                   [] OTHER                 -> {heap_op.t}
  IN  (changed \cup read) \ {NULL}

\* The bytes that realloc copies between its calls of malloc and free.
Copied ==
  IF heap_op.pc = "free" /\ heap_op.t # NULL
  THEN LET size  == tag[heap_op.old].size
           bytes == IF size > heap_op.size THEN heap_op.size ELSE size
       IN  Payload(heap_op.old, bytes) \cup Payload(heap_op.t, bytes)
  ELSE {}

-----------------------------------------------------------------------------
Running == faulted = {} /\ halted = "no"

\* paging.c is at work for the heap.
Paging == Running /\ page_op.kind # "idle"
Heap   == Running /\ page_op.kind = "idle"

\* What the kernel asks of the heap: at most two calls of mvk.c each.
Request ==
  /\ Heap /\ ~misfreed /\ calls + 2 <= MaxCalls
  /\ \/ \E size \in Sizes :
          \/ LA!Call("malloc", size, NULL)
          \/ \E old \in DOMAIN live : LA!Call("realloc", size, old)
     \/ \E t \in DOMAIN live : LA!FreeCall(t)
  /\ faulted' = Unmapped(UNION {PagesOf(a, TAG) : a \in Accessed})
  /\ UNCHANGED pageVars

\* The realloc of check_function: the list gets one pci_device of three bytes
\* longer, once the last entry has been written.
check_function ==
  /\ Heap /\ calls + 2 <= MaxCalls
  /\ \/ live = [t \in {} |-> 0] /\ LA!Call("malloc", 3, NULL)
     \/ \E old \in DOMAIN live :
          /\ Unmapped(Payload(old, live[old])) = {}
          /\ LA!Call("realloc", live[old] + 3, old)
  /\ faulted' = Unmapped(UNION {PagesOf(a, TAG) : a \in Accessed})
  /\ UNCHANGED pageVars

\* A caller uses what it was given.
UsePayload(t) ==
  /\ Heap /\ heap_op.pc = "idle"
  /\ faulted' = Unmapped(Payload(t, live[t]))
  /\ faulted' # {}
  /\ UNCHANGED <<pageVars, heapVars>>

\* The steps of liballoc.c that do not leave it.
HeapStep ==
  /\ Heap
  /\ \/ LA!SearchFound
     \/ LA!SearchFailed
     \/ LA!Carve
     \/ LA!ReallocFree
     \/ LA!MeltLeft
     \/ LA!AbsorbRight
     \/ LA!InsertFree
  /\ faulted' = Unmapped((UNION {PagesOf(a, TAG) : a \in Accessed}) \cup Copied)
  /\ UNCHANGED pageVars

\* liballoc_alloc calls alloc_pages.
AskPages ==
  /\ Heap /\ heap_op.pc = "pages"
  /\ PG!AllocCall(LA!PagesFor(heap_op.size))
  /\ UNCHANGED <<heapVars, faulted>>

PageStep ==
  /\ Paging
  /\ \/ PG!AllocPageNull
     \/ PG!AllocPageAbort
     \/ PG!AllocPage
     \/ PG!FreePage
     \/ PG!FreeReturn
  /\ UNCHANGED <<heapVars, faulted>>

\* alloc_pages returns to liballoc_alloc, and that to allocate_new_tag, which
\* writes the first tag of the block.
PagesArrive ==
  /\ Paging
  /\ PG!AllocReturn
  /\ IF page_op.ptr = PG!NULL
     THEN LA!NoPages /\ UNCHANGED faulted
     ELSE /\ LA!PagesArrive(page_op.ptr)
          /\ faulted' = Unmapped(PagesOf(page_op.ptr * PageSize, TAG))

\* free calls liballoc_free, which calls free_pages, with the last block that
\* begins there.
ReturnPages ==
  /\ Heap
  /\ LA!ReturnPages
  /\ \E i \in DOMAIN blocks :
       /\ blocks[i].ptr * PageSize = heap_op.t
       /\ \A j \in i + 1 .. Len(blocks) : blocks[j].ptr # blocks[i].ptr
       /\ PG!FreeCall(i)
  /\ faulted' = Unmapped(PagesOf(heap_op.t, TAG))

Step == HeapStep \/ AskPages \/ PageStep \/ PagesArrive \/ ReturnPages

Use == \E t \in DOMAIN live : UsePayload(t)

Next == Request \/ Use \/ Step

Spec == Init /\ [][Next]_vars /\ WF_vars(Step)

\* The list of PCI devices is all that the kernel has on its heap.  It is a few
\* bytes long, so that no block is used far enough for blocks that overlap to
\* share a byte in use.
PciSpec == Init /\ [][check_function \/ Use \/ Step]_vars

-----------------------------------------------------------------------------
(* Properties.                                                             *)

\* Until free_page clears a bit, be it of a page that is held or of one nobody
\* holds, the heap and its callers only ever fault at the pages alloc_page
\* leaves out of a block, the ends of the words of the bitmap, and behind the
\* last page of the bitmap. Once a bit is clear nothing is said: a block can
\* then begin in the middle of a word and lack another page.
FaultsOnlyAtHoles ==
  ~misfreed =>
    \A v \in faulted : v % PG!WORD_BITS = 0 \/ v > Words * PG!WORD_BITS

\* Until free_page clears a bit the heap keeps its promise on the pages it gets,
\* not only on ideal ones: what malloc and realloc return overlaps nothing that is held.
KeepsPromise == [][~misfreed' => LA!Heap!Next \/ UNCHANGED live]_vars

\* Every call of the heap returns, page by page of alloc_pages and free_pages,
\* or the kernel has stopped: at a fault, or out of memory.
CallsEnd ==
  heap_op.pc # "idle" \/ page_op.kind # "idle" ~>
    \/ heap_op.pc = "idle" /\ page_op.kind = "idle"
    \/ faulted # {} \/ halted # "no" \/ heap_op.pc = "fault"

\* libc/private_include/liballoc.h:73: realloc is "The standard function", so
\* the list it returns to check_function is memory that can be used.
ListUsable == faulted = {}
=============================================================================
