-------------------------- MODULE KernelHeapProofs --------------------------
(***************************************************************************)
(* Proofs about the heap on the pages it really gets (KernelHeap).  What   *)
(* is proved of the page allocator alone (PagingProofs) and of the heap    *)
(* alone (LibAllocProofs) is carried over to the two together: every step  *)
(* of one is a step of it, or leaves it as it was, and the pages that      *)
(* arrive have room among the blocks the heap has.                         *)
(***************************************************************************)
EXTENDS KernelHeap, TLAPS

PP == INSTANCE PagingProofs WITH
        op <- page_op, Counts <- 1 .. Entries, Watched <- {}
LP == INSTANCE LibAllocProofs WITH op <- heap_op

-----------------------------------------------------------------------------
(* What the two assume of their constants.                                 *)

LEMMA PagingFacts ==
  /\ /\ Words \in Nat \ {0} /\ Tables \in Nat \ {0} /\ Entries \in Nat \ {0}
     /\ Words * 32 = Tables * Entries
     /\ DirSize \in Nat /\ DirSize > Tables + 3
  /\ /\ FreeBase \in Nat /\ KernelEnd \in Nat /\ KernelEnd <= FreeBase
     /\ \A n \in FreeLengths : n \in Nat /\ FreeBase + n <= PP!FRAMES
  /\ 1 .. Entries \subseteq 1 .. Entries /\ MaxCalls \in Nat
  /\ {} \subseteq 0 .. (Tables * Entries - 1)
BY SizesAssumption, RegionAssumption DEF PP!FRAMES

LEMMA HeapFacts ==
  /\ /\ MINEXP \in Nat /\ MAXEXP \in Nat /\ MINEXP < MAXEXP /\ UINT = 2^MAXEXP
     /\ TAG \in Nat \ {0} /\ MAXCOMPLETE \in Nat /\ MaxLive \in Nat
     /\ PageSize \in Nat \ {0} /\ PageCount \in Nat \ {0} /\ ArenaPages \in Nat
     /\ 2 * TAG <= PageSize /\ (ArenaPages + 1) * PageSize < UINT
  /\ Sizes \subseteq 0 .. UINT - 1
<1>1. UINT \in Int
  BY WidthAssumption
<1>2. QED
  BY <1>1, WidthAssumption, NoWrapAssumption

-----------------------------------------------------------------------------
(* The model names the operators of Paging PG!... and those of LibAlloc    *)
(* LA!...; the lemmas cited name them PP!... and LP!...                    *)

LEMMA SamePaging ==
  /\ PG!Init <=> PP!Init
  /\ PG!Next <=> PP!Next
BY DEF PG!Init, PP!Init, PG!Next, PP!Next, PG!KERNEL_PAGE_DIRECTORY_START,
       PP!KERNEL_PAGE_DIRECTORY_START, PG!SelfTable, PP!SelfTable, PG!NotPresent,
       PP!NotPresent, PG!Word, PP!Word, PG!Idle, PP!Idle, PG!AllocCall,
       PP!AllocCall, PG!AllocPageNull, PP!AllocPageNull, PG!AllocPageAbort,
       PP!AllocPageAbort, PG!AllocPage, PP!AllocPage, PG!AllocReturn,
       PP!AllocReturn, PG!FreeCall, PP!FreeCall, PG!FreePage, PP!FreePage,
       PG!FreeReturn, PP!FreeReturn, PG!TlbFill, PP!TlbFill,
       PG!KERNEL_PAGE_TABLES_SIZE, PP!KERNEL_PAGE_TABLES_SIZE, PG!NULL, PP!NULL,
       PG!Running, PP!Running, PG!FreeSlots, PP!FreeSlots, PG!page_index,
       PP!page_index, PG!FirstFree, PP!FirstFree, PG!NoPageTable, PP!NoPageTable,
       PG!page_virtual_address, PP!page_virtual_address, PG!map_page, PP!map_page,
       PG!page_physical_address, PP!page_physical_address, PG!SetBit, PP!SetBit,
       PG!unmap_page, PP!unmap_page, PG!page_addr, PP!page_addr, PG!ClearBit,
       PP!ClearBit, PG!get_physical_address, PP!get_physical_address,
       PG!ScannedBits, PP!ScannedBits, PG!WORD_BITS, PP!WORD_BITS, PG!ScanBefore,
       PP!ScanBefore, PG!pd_index, PP!pd_index, PG!pt_index, PP!pt_index, PG!FRAMES,
       PP!FRAMES, PG!bitmap_index, PP!bitmap_index, PG!bit_index, PP!bit_index,
       PG!FREE_BITS, PP!FREE_BITS

LEMMA SamePages ==
  ASSUME NEW v
  PROVE  PG!get_physical_address(v) = PP!get_physical_address(v)
BY DEF PG!get_physical_address, PP!get_physical_address, PG!pd_index, PP!pd_index,
       PG!NotPresent, PP!NotPresent, PG!pt_index, PP!pt_index

LEMMA SameCalls ==
  /\ LA!Init <=> LP!Init
  /\ \A fn, size, old : LA!Call(fn, size, old) <=> LP!Call(fn, size, old)
  /\ \A t : LA!Surrender(t) <=> LP!Surrender(t)
  /\ LA!SearchFound <=> LP!SearchFound
  /\ LA!SearchFailed <=> LP!SearchFailed
  /\ \A b : LA!PagesArrive(b) <=> LP!PagesArrive(b)
  /\ LA!NoPages <=> LP!NoPages
  /\ LA!Carve <=> LP!Carve
BY DEF LA!Init, LP!Init, LA!Call, LP!Call, LA!Surrender, LP!Surrender,
       LA!SearchFound, LP!SearchFound, LA!SearchFailed, LP!SearchFailed,
       LA!PagesArrive, LP!PagesArrive, LA!NoPages, LP!NoPages, LA!Carve, LP!Carve,
       LA!Cardinality, LP!Cardinality, LA!NULL, LP!NULL, LA!Index, LP!Index,
       LA!Idle, LP!Idle, LA!At, LP!At, LA!ListIndex, LP!ListIndex, LA!FirstFit,
       LP!FirstFit, LA!Unlinked, LP!Unlinked, LA!HeadsWithout, LP!HeadsWithout,
       LA!Taken, LP!Taken, LA!PagesFor, LP!PagesFor, LA!FreshTag, LP!FreshTag,
       LA!Unsigned, LP!Unsigned, LA!SplitAt, LP!SplitAt, LA!Signed, LP!Signed,
       LA!getexp, LP!getexp, LA!Split, LP!Split, LA!ListWalk, LP!ListWalk,
       LA!BigEnough, LP!BigEnough, LA!Whole, LP!Whole, LA!Linked, LP!Linked

LEMMA SameMelts ==
  /\ LA!MeltLeft <=> LP!MeltLeft
  /\ LA!AbsorbRight <=> LP!AbsorbRight
  /\ LA!InsertFree <=> LP!InsertFree
  /\ LA!ReturnPages <=> LP!ReturnPages
BY DEF LA!MeltLeft, LP!MeltLeft, LA!AbsorbRight, LP!AbsorbRight, LA!InsertFree,
       LP!InsertFree, LA!ReturnPages, LP!ReturnPages, LA!At, LP!At, LA!LeftIsFree,
       LP!LeftIsFree, LA!Melted, LP!Melted, LA!Unlinked, LP!Unlinked,
       LA!HeadsWithout, LP!HeadsWithout, LA!RightIsFree, LP!RightIsFree, LA!Surplus,
       LP!Surplus, LA!FreeIndex, LP!FreeIndex, LA!Whole, LP!Whole, LA!Linked,
       LP!Linked, LA!Idle, LP!Idle, LA!NULL, LP!NULL, LA!ListIndex, LP!ListIndex,
       LA!getexp, LP!getexp, LA!Index, LP!Index

LEMMA SameProperties ==
  /\ LA!ListsSound <=> LP!ListsSound
  /\ LA!BlocksTiled <=> LP!BlocksTiled
  /\ LA!CompleteCounted <=> LP!CompleteCounted
  /\ LA!AllocationsFit <=> LP!AllocationsFit
BY DEF LA!ListsSound, LP!ListsSound, LA!BlocksTiled, LP!BlocksTiled,
       LA!CompleteCounted, LP!CompleteCounted, LA!AllocationsFit, LP!AllocationsFit,
       LA!Cardinality, LP!Cardinality, LA!Index, LP!Index, LA!FreeTags, LP!FreeTags,
       LA!ListWalk, LP!ListWalk, LA!NULL, LP!NULL, LA!ListIndex, LP!ListIndex,
       LA!Whole, LP!Whole, LA!InTransit, LP!InTransit, LA!getexp, LP!getexp

LEMMA SamePromise == LA!Heap!Next <=> LP!Heap!Next
BY DEF LA!Heap!Next, LP!Heap!Next, LA!Heap!Allocate, LP!Heap!Allocate,
       LA!Heap!Release, LP!Heap!Release

-----------------------------------------------------------------------------
(* What the two keep, step by step.                                        *)

LEMMA PagesInit == PG!Init => PP!IndInv /\ PP!HeldInv
<1>1. PG!Init => PP!Init
  BY SamePaging
<1>2. PP!Init => PP!IndInv
  BY PagingFacts, PP!InitInv
<1>3. PP!Init => PP!HeldInv
  BY PagingFacts, PP!HeldInit
<1>4. QED
  BY <1>1, <1>2, <1>3

LEMMA PagesNext ==
  ASSUME PP!IndInv, PP!HeldInv, [PG!Next]_PG!vars
  PROVE  PP!IndInv' /\ PP!HeldInv'
<1>1. [PP!Next]_PP!vars
  BY SamePaging DEF PG!vars, PP!vars
<1>2. PP!IndInv'
  BY <1>1, PagingFacts, PP!NextInv
<1>3. PP!HeldInv'
  BY <1>1, PagingFacts, PP!HeldNext
<1>4. QED
  BY <1>2, <1>3

LEMMA HeapInit == LA!Init => LP!IndInv
BY HeapFacts, SameCalls, LP!InitInv

\* The steps of liballoc.c that do not wait for pages.
LEMMA HeapNext ==
  ASSUME LP!IndInv,
         \/ LA!SearchFound \/ LA!SearchFailed \/ LA!NoPages \/ LA!Carve
         \/ LA!MeltLeft \/ LA!AbsorbRight \/ LA!InsertFree \/ LA!ReturnPages
  PROVE  LP!IndInv'
<1>1. CASE LA!SearchFound
  BY <1>1, HeapFacts, SameCalls, LP!SearchFoundInv
<1>2. CASE LA!SearchFailed
  BY <1>2, HeapFacts, SameCalls, LP!SearchFailedInv
<1>3. CASE LA!NoPages
  BY <1>3, HeapFacts, SameCalls, LP!NoPagesInv
<1>4. CASE LA!Carve
  BY <1>4, HeapFacts, SameCalls, LP!CarveInv
<1>5. CASE LA!MeltLeft
  BY <1>5, HeapFacts, SameMelts, LP!MeltLeftInv
<1>6. CASE LA!AbsorbRight
  BY <1>6, HeapFacts, SameMelts, LP!AbsorbRightInv
<1>7. CASE LA!InsertFree
  BY <1>7, HeapFacts, SameMelts, LP!InsertFreeInv
<1>8. CASE LA!ReturnPages
  BY <1>8, HeapFacts, SameMelts, LP!ReturnPagesInv
<1>9. QED
  BY <1>1, <1>2, <1>3, <1>4, <1>5, <1>6, <1>7, <1>8

LEMMA HeapSame ==
  ASSUME LP!IndInv, UNCHANGED heapVars
  PROVE  LP!IndInv'
<1>1. UNCHANGED LP!vars
  BY DEF heapVars, LP!vars
<1>2. QED
  BY <1>1, HeapFacts, LP!StutterInv

LEMMA HeldTags ==
  ASSUME LP!IndInv
  PROVE  \A t \in DOMAIN live :
           /\ t \in DOMAIN tag /\ t \in Int /\ t > 0
           /\ live[t] \in Sizes /\ tag[t].size = live[t]
           /\ live[t] + TAG <= tag[t].real_size /\ tag[t].real_size \in Int
<1>1. \A t \in DOMAIN live :
        t \in DOMAIN tag /\ t \in Int /\ t > 0 /\ tag[t].real_size \in Int
  BY HeapFacts, LP!LiveTags
<1>2. \A t \in DOMAIN live :
        live[t] \in Sizes /\ tag[t].size = live[t] /\ live[t] + TAG <= tag[t].real_size
  BY DEF LP!IndInv, LP!Owned
<1>3. QED
  BY <1>1, <1>2

LEMMA HeapCall ==
  ASSUME LP!IndInv, NEW size \in Sizes,
         \/ LA!Call("malloc", size, NULL)
         \/ \E old \in DOMAIN live : LA!Call("realloc", size, old)
  PROVE  LP!IndInv'
<1>1. CASE LA!Call("malloc", size, NULL)
  <2>1. NULL \in Int /\ NULL = LP!NULL /\ LP!Call("malloc", size, NULL)
    BY <1>1, SameCalls DEF NULL, LP!NULL
  <2>2. QED
    BY <2>1, HeapFacts, LP!CallInv
<1>2. CASE \E old \in DOMAIN live : LA!Call("realloc", size, old)
  <2>1. PICK old \in DOMAIN live : LA!Call("realloc", size, old)
    BY <1>2
  <2>2. old \in Int /\ LP!Call("realloc", size, old)
    BY <2>1, SameCalls, HeldTags
  <2>3. QED
    BY <2>2, HeapFacts, LP!CallInv
<1>3. QED
  BY <1>1, <1>2

LEMMA HeapSurrender ==
  ASSUME LP!IndInv, heap_op.pc \in {"idle", "free"}, NEW t \in DOMAIN live,
         LA!Surrender(t)
  PROVE  LP!IndInv'
BY SameCalls, HeapFacts, LP!SurrenderInv

LEMMA HeapPages ==
  ASSUME LP!IndInv, NEW b \in 1 .. ArenaPages,
         LP!RoomAt(b, LP!PagesFor(heap_op.size)), LA!PagesArrive(b)
  PROVE  LP!IndInv'
BY SameCalls, HeapFacts, LP!PagesArriveInv

-----------------------------------------------------------------------------
(* The two together.                                                       *)

\* A call of the heap asks for bytes that it can be asked for.
Sized ==
  /\ heap_op = [pc |-> heap_op.pc, fn |-> heap_op.fn, size |-> heap_op.size,
                t |-> heap_op.t, old |-> heap_op.old]
  /\ heap_op.pc \in {"search", "pages"} => heap_op.size \in Sizes

\* The blocks of the heap are those that alloc_pages has handed out, and each
\* begins with a page that it got.
Agree ==
  /\ \A i \in DOMAIN blocks :
       /\ blocks[i].ptr \in blocks[i].got
       /\ blocks[i].ptr * PageSize \in DOMAIN pages
       /\ pages[blocks[i].ptr * PageSize] = blocks[i].n
  /\ \A b \in DOMAIN pages : \E i \in DOMAIN blocks : blocks[i].ptr * PageSize = b

\* alloc_pages works for a malloc that waits for it.
Asked ==
  page_op.kind = "alloc" =>
    heap_op.pc = "pages" /\ page_op.n = LP!PagesFor(heap_op.size)

\* realloc copies to an allocation of the bytes it was asked for.
Copying ==
  heap_op.pc = "free" =>
    heap_op.t \in DOMAIN live /\ live[heap_op.t] = heap_op.size

HeapSound == LP!IndInv /\ Agree /\ Asked /\ Copying

IndInv ==
  /\ Sized
  /\ PP!IndInv
  /\ PP!HeldInv
  /\ ~misfreed => HeapSound
  /\ FaultsOnlyAtHoles

-----------------------------------------------------------------------------
(* The heap implements the page allocator's callers.                       *)

LEMMA PagesForBounds ==
  ASSUME NEW size \in Sizes
  PROVE  /\ LA!PagesFor(size) = LP!PagesFor(size)
         /\ LP!PagesFor(size) \in 1 .. Entries
<1> DEFINE usage == size + TAG
           n == (usage + PageSize - 1) \div PageSize
<1>1. LA!PagesFor(size) = LP!PagesFor(size)
  BY DEF LA!PagesFor, LP!PagesFor, LA!Unsigned, LP!Unsigned
<1>2. /\ UINT \in Nat /\ TAG \in Nat \ {0} /\ PageSize \in Nat \ {0}
      /\ PageCount \in Nat \ {0} /\ Entries \in Nat \ {0} /\ PageCount <= Entries
      /\ size \in 1 .. UINT - TAG - 1 /\ usage <= Entries * PageSize
  <2>1. UINT = 2^MAXEXP /\ MAXEXP \in Nat
    BY WidthAssumption
  <2>2. UINT \in Int /\ (ArenaPages + 1) * PageSize < UINT
        /\ ArenaPages \in Nat /\ PageSize \in Nat \ {0}
    BY <2>1, WidthAssumption
  <2>3. (ArenaPages + 1) * PageSize \in Nat
    BY <2>2
  <2>4. QED
    BY <2>2, <2>3, WidthAssumption, NoWrapAssumption, SizesAssumption
<1>3. usage \in Nat /\ usage >= 1 /\ usage < UINT
  BY <1>2
<1>4. LP!Unsigned(usage) = usage
  BY <1>2, <1>3 DEF LP!Unsigned
<1>5. LP!PagesFor(size) = IF n < PageCount THEN PageCount ELSE n
  BY <1>4 DEF LP!PagesFor
<1> HIDE DEF usage
<1>6. n \in Nat /\ n <= Entries
  <2>1. usage + PageSize - 1 < (Entries + 1) * PageSize
    BY <1>2, <1>3
  <2>2. QED
    BY <1>2, <1>3, <2>1
<1> HIDE DEF n
<1>7. QED
  BY <1>1, <1>2, <1>5, <1>6

LEMMA SizedInit == Init => Sized
BY DEF Init, LA!Init, LA!Idle, Sized

LEMMA SizedNext ==
  ASSUME Sized, [Next]_vars
  PROVE  Sized'
<1> DEFINE Shape(r) == [pc |-> r.pc, fn |-> r.fn, size |-> r.size, t |-> r.t, old |-> r.old]
<1>1. CASE UNCHANGED heap_op
  BY <1>1 DEF Sized
<1>2. ASSUME NEW pc, NEW fn, NEW size, NEW t, NEW old,
             heap_op' = [pc |-> pc, fn |-> fn, size |-> size, t |-> t, old |-> old],
             pc \in {"search", "pages"} => size \in Sizes
      PROVE  Sized'
  BY <1>2 DEF Sized
<1>3. ASSUME NEW pc, heap_op' = [heap_op EXCEPT !.pc = pc],
             pc \in {"search", "pages"} => heap_op.size \in Sizes
      PROVE  Sized'
  <2>1. heap_op' = [pc |-> pc, fn |-> heap_op.fn, size |-> heap_op.size,
                    t |-> heap_op.t, old |-> heap_op.old]
    BY <1>3 DEF Sized
  <2>2. QED
    BY <1>2, <1>3, <2>1
<1>4. ASSUME NEW t, heap_op' = [heap_op EXCEPT !.pc = "carve", !.t = t]
      PROVE  Sized'
  <2>1. heap_op' = [pc |-> "carve", fn |-> heap_op.fn, size |-> heap_op.size,
                    t |-> t, old |-> heap_op.old]
    BY <1>4 DEF Sized
  <2>2. QED
    BY <1>2, <2>1
<1>5. ASSUME heap_op' = LA!Idle
      PROVE  Sized'
  BY <1>2, <1>5 DEF LA!Idle
<1>6. ASSUME NEW fn, NEW size \in Sizes, NEW old, LA!Call(fn, size, old)
      PROVE  Sized'
  BY <1>2, <1>6 DEF LA!Call
<1>7. ASSUME NEW t, LA!Surrender(t)
      PROVE  Sized'
  BY <1>2, <1>7 DEF LA!Surrender
<1>8. CASE Request
  BY <1>6, <1>7, <1>8 DEF Request, LA!FreeCall
<1>9. CASE HeapStep
  <2>1. CASE LA!SearchFound
    <3>1. PICK t : heap_op' = [heap_op EXCEPT !.pc = "carve", !.t = t]
      BY <2>1 DEF LA!SearchFound
    <3>2. QED
      BY <1>4, <3>1
  <2>2. CASE LA!SearchFailed
    BY <1>3, <2>2 DEF LA!SearchFailed, LA!At, Sized
  <2>3. CASE LA!Carve
    BY <1>3, <1>5, <2>3 DEF LA!Carve
  <2>4. CASE LA!ReallocFree
    BY <1>7, <2>4 DEF LA!ReallocFree
  <2>5. CASE LA!MeltLeft
    <3>1. heap_op' = [heap_op EXCEPT !.t = tag[heap_op.t].split_left]
          /\ heap_op.pc = "melt"
      BY <2>5 DEF LA!MeltLeft, LA!At
    <3>2. heap_op' = [pc |-> "melt", fn |-> heap_op.fn, size |-> heap_op.size,
                      t |-> tag[heap_op.t].split_left, old |-> heap_op.old]
      BY <3>1 DEF Sized
    <3>3. QED
      BY <1>2, <3>2
  <2>6. CASE LA!AbsorbRight
    BY <1>1, <2>6 DEF LA!AbsorbRight
  <2>7. CASE LA!InsertFree
    BY <1>5, <2>7 DEF LA!InsertFree
  <2>8. QED
    BY <1>9, <2>1, <2>2, <2>3, <2>4, <2>5, <2>6, <2>7 DEF HeapStep
<1>10. CASE PagesArrive
  <2>1. CASE LA!NoPages
    <3>1. \/ heap_op' = [heap_op EXCEPT !.pc = "fault"]
          \/ heap_op' = [heap_op EXCEPT !.pc = "free"]
          \/ heap_op' = LA!Idle
      BY <2>1 DEF LA!NoPages
    <3>2. QED
      BY <1>3, <1>5, <3>1
  <2>2. CASE LA!PagesArrive(page_op.ptr)
    BY <1>4, <2>2 DEF LA!PagesArrive
  <2>3. QED
    BY <1>10, <2>1, <2>2 DEF PagesArrive
<1>11. CASE ReturnPages
  BY <1>5, <1>11 DEF ReturnPages, LA!ReturnPages
<1>12. CASE Use \/ AskPages \/ PageStep \/ UNCHANGED vars
  BY <1>1, <1>12 DEF Use, UsePayload, AskPages, PageStep, vars, heapVars
<1>13. QED
  BY <1>8, <1>9, <1>10, <1>11, <1>12 DEF Next, Step

\* Every step is one of the page allocator, or leaves it as it was.
LEMMA StepOfPaging ==
  ASSUME Sized, PP!IndInv, [Next]_vars
  PROVE  [PG!Next]_PG!vars
<1>1. CASE Request \/ Use \/ HeapStep \/ UNCHANGED vars
  BY <1>1 DEF Request, Use, UsePayload, HeapStep, vars, pageVars, PG!vars
<1>2. CASE AskPages
  <2>1. heap_op.size \in Sizes /\ PG!AllocCall(LA!PagesFor(heap_op.size))
    BY <1>2 DEF AskPages, Sized
  <2>2. LA!PagesFor(heap_op.size) \in 1 .. Entries
    BY <2>1, PagesForBounds
  <2>3. QED
    BY <2>1, <2>2 DEF PG!Next
<1>3. CASE PageStep
  BY <1>3 DEF PageStep, PG!Next
<1>4. CASE PagesArrive
  BY <1>4 DEF PagesArrive, PG!Next
<1>5. CASE ReturnPages
  <2>1. \E i \in DOMAIN blocks : PG!FreeCall(i)
    BY <1>5 DEF ReturnPages
  <2>2. blocks \in Seq(PP!Block)
    BY DEF PP!IndInv, PP!TypeOK
  <2>3. DOMAIN blocks = 1 .. Len(blocks)
    BY <2>2
  <2>4. QED
    BY <2>1, <2>3 DEF PG!Next
<1>6. QED
  BY <1>1, <1>2, <1>3, <1>4, <1>5 DEF Next, Step

-----------------------------------------------------------------------------
(* What a step of the heap uses lies in a block, and the pages of a block  *)
(* that are not mapped are the ends of the bitmap's words.                 *)

LEMMA Pages == PageSize \in Nat \ {0} /\ TAG \in Nat \ {0} /\ 2 * TAG <= PageSize
BY WidthAssumption

LEMMA PageOf ==
  ASSUME NEW x \in Int, NEW p \in Int
  PROVE  /\ x \div PageSize \in Int
         /\ p * PageSize <= x <=> p <= x \div PageSize
<1> DEFINE q == x \div PageSize
<1>1. PageSize \in Nat \ {0}
  BY Pages
<1>2. q \in Int /\ q * PageSize <= x /\ x < (q + 1) * PageSize
  BY <1>1
<1> HIDE DEF q
<1>3. p <= q => p * PageSize <= q * PageSize
  BY <1>1, <1>2
<1>4. q + 1 <= p => (q + 1) * PageSize <= p * PageSize
  BY <1>1, <1>2
<1>5. p * PageSize \in Int /\ q * PageSize \in Int /\ (q + 1) * PageSize \in Int
  BY <1>1, <1>2
<1>6. QED
  BY <1>2, <1>3, <1>4, <1>5 DEF q

\* What callers of alloc_pages hold.
LEMMA BlockPages ==
  ASSUME PP!IndInv, PP!HeldInv, ~misfreed
  PROVE  /\ \A i \in DOMAIN blocks :
              /\ blocks[i].ptr \in Nat /\ blocks[i].ptr < Words * 32
              /\ blocks[i].n \in 1 .. Entries
              /\ blocks[i].got \subseteq PP!Slotted
              /\ \A v \in blocks[i].got : PG!get_physical_address(v) # PG!NotPresent
              /\ \A v \in PP!Slotted :
                   blocks[i].ptr <= v /\ v < blocks[i].ptr + blocks[i].n =>
                     v \in blocks[i].got
         /\ \A i, j \in DOMAIN blocks :
              i # j => blocks[i].got \cap blocks[j].got = {}
<1>1. PP!Held /\ PP!BlocksBounded
  BY DEF PP!IndInv, PP!HeldInv
<1>2. ASSUME NEW i \in DOMAIN blocks
      PROVE  /\ blocks[i].ptr \in Nat /\ blocks[i].ptr < Words * 32
             /\ blocks[i].n \in 1 .. Entries
  BY <1>1, SizesAssumption DEF PP!BlocksBounded, PP!VPage
<1>3. ASSUME NEW i \in DOMAIN blocks, NEW v \in blocks[i].got
      PROVE  PG!get_physical_address(v) # PG!NotPresent
  BY <1>1, SamePages DEF PP!Held, PP!Mapped, PP!NotPresent, PG!NotPresent
<1>4. QED
  BY <1>1, <1>2, <1>3 DEF PP!Held, PP!Marked

LEMMA HeldAfter ==
  ASSUME PP!IndInv', PP!HeldInv', ~misfreed'
  PROVE  /\ \A i \in DOMAIN blocks' :
              /\ blocks'[i].ptr \in Nat /\ blocks'[i].ptr < Words * 32
              /\ blocks'[i].n \in 1 .. Entries
              /\ blocks'[i].got \subseteq PP!Slotted
              /\ \A v \in PP!Slotted :
                   blocks'[i].ptr <= v /\ v < blocks'[i].ptr + blocks'[i].n =>
                     v \in blocks'[i].got
         /\ \A i, j \in DOMAIN blocks' :
              i # j => blocks'[i].got \cap blocks'[j].got = {}
<1>1. PP!Held' /\ PP!BlocksBounded'
  BY DEF PP!IndInv, PP!HeldInv
<1>2. ASSUME NEW i \in DOMAIN blocks'
      PROVE  /\ blocks'[i].ptr \in Nat /\ blocks'[i].ptr < Words * 32
             /\ blocks'[i].n \in 1 .. Entries
  BY <1>1, SizesAssumption DEF PP!BlocksBounded, PP!VPage
<1>3. PP!Slotted' = PP!Slotted
  BY DEF PP!Slotted, PP!VPage, PP!WORD_BITS
<1>4. QED
  BY <1>1, <1>2, <1>3 DEF PP!Held, PP!Marked

Hole(v) == v % PG!WORD_BITS = 0 \/ v > Words * PG!WORD_BITS

LEMMA SlottedPage ==
  ASSUME NEW v \in Nat, ~Hole(v)
  PROVE  v \in PP!Slotted
<1>1. Words * 32 \in Nat /\ Words * 32 = Tables * Entries /\ (Words * 32) % 32 = 0
  BY SizesAssumption
<1>2. v % 32 # 0 /\ v <= Words * 32
  BY <1>1 DEF Hole, PG!WORD_BITS
<1>3. v < Words * 32
  BY <1>1, <1>2
<1>4. QED
  BY <1>1, <1>2, <1>3 DEF PP!Slotted, PP!VPage, PP!WORD_BITS

LEMMA UseInBlock ==
  ASSUME PP!IndInv, PP!HeldInv, ~misfreed, Agree,
         NEW b \in DOMAIN pages, NEW a \in Int, NEW bytes \in Int, bytes > 0,
         b <= a, a + bytes <= b + pages[b] * PageSize,
         NEW v \in Unmapped(PagesOf(a, bytes))
  PROVE  Hole(v)
<1>1. PICK i \in DOMAIN blocks : blocks[i].ptr * PageSize = b /\ pages[b] = blocks[i].n
  BY DEF Agree
<1> DEFINE p == blocks[i].ptr
           n == blocks[i].n
<1>2. /\ p \in Nat /\ n \in Nat /\ blocks[i].got \subseteq PP!Slotted
      /\ \A w \in blocks[i].got : PG!get_physical_address(w) # PG!NotPresent
      /\ \A w \in PP!Slotted : p <= w /\ w < p + n => w \in blocks[i].got
  BY BlockPages, SizesAssumption
<1> HIDE DEF p, n
<1>3. PageSize \in Nat \ {0}
  BY Pages
<1>4. v \in a \div PageSize .. (a + bytes - 1) \div PageSize
      /\ PG!get_physical_address(v) = PG!NotPresent
  BY DEF Unmapped, PagesOf
<1>5. p * PageSize <= a /\ a + bytes <= (p + n) * PageSize
  <2>1. (p + n) * PageSize = p * PageSize + n * PageSize
    BY <1>2, <1>3
  <2>2. QED
    BY <1>1, <2>1 DEF p, n
<1>6. p <= a \div PageSize /\ a \div PageSize \in Int
  BY <1>2, <1>5, PageOf
<1>7. /\ (a + bytes - 1) \div PageSize < p + n
      /\ (a + bytes - 1) \div PageSize \in Int
  <2>1. a + bytes - 1 \in Int /\ p + n \in Int /\ (p + n) * PageSize \in Int
    BY <1>2, <1>3
  <2>2. ~((p + n) * PageSize <= a + bytes - 1)
    BY <1>5, <2>1
  <2>3. QED
    BY <2>1, <2>2, PageOf
<1>8. v \in Nat /\ p <= v /\ v < p + n
  BY <1>2, <1>4, <1>6, <1>7
<1>9. QED
  BY <1>2, <1>4, <1>8, SlottedPage

\* The header of a tag, of one of this state or of the next.
LEMMA HeaderInBlock ==
  ASSUME PP!IndInv, PP!HeldInv, ~misfreed, HeapSound,
         NEW t \in DOMAIN tag, NEW v \in Unmapped(PagesOf(t, TAG))
  PROVE  Hole(v)
<1>1. PICK b \in DOMAIN pages :
        b <= t /\ t + tag[t].real_size <= b + pages[b] * PageSize
  BY DEF HeapSound, LP!IndInv, LP!Tiled, LP!Apart, LP!Extent
<1>2. t \in Int /\ tag[t].real_size \in Int /\ tag[t].real_size >= TAG
  BY HeapFacts, LP!Basics DEF HeapSound
<1>3. b \in Int /\ pages[b] * PageSize \in Int
  BY DEF HeapSound, LP!IndInv, LP!Tiled, LP!Blocks, LP!Extent
<1>4. t + TAG <= b + pages[b] * PageSize
  BY <1>1, <1>2, <1>3, Pages
<1>5. QED
  BY <1>1, <1>2, <1>4, Pages, UseInBlock DEF HeapSound

LEMMA NextHeaderInBlock ==
  ASSUME PP!IndInv, PP!HeldInv, ~misfreed, HeapSound, LP!IndInv', UNCHANGED pages,
         NEW t \in DOMAIN tag', NEW v \in Unmapped(PagesOf(t, TAG))
  PROVE  Hole(v)
<1>1. LP!Tags(tag') /\ LP!Tiled(tag', LP!Extent')
  BY DEF LP!IndInv
<1>2. LP!Extent' = LP!Extent
  BY DEF LP!Extent
<1>3. PICK b \in DOMAIN pages :
        b <= t /\ t + tag'[t].real_size <= b + pages[b] * PageSize
  BY <1>1, <1>2 DEF LP!Tiled, LP!Apart, LP!Extent
<1>4. t \in Int /\ tag'[t].real_size \in Int /\ tag'[t].real_size >= TAG
  BY <1>1 DEF LP!Tags, LP!TagRecord, LP!Tiled, LP!Apart
<1>5. b \in Int /\ pages[b] * PageSize \in Int
  BY DEF HeapSound, LP!IndInv, LP!Tiled, LP!Blocks, LP!Extent
<1>6. t + TAG <= b + pages[b] * PageSize
  BY <1>3, <1>4, <1>5, Pages
<1>7. QED
  BY <1>3, <1>4, <1>6, Pages, UseInBlock DEF HeapSound

\* The bytes of an allocation.
LEMMA PayloadInBlock ==
  ASSUME PP!IndInv, PP!HeldInv, ~misfreed, HeapSound,
         NEW t \in DOMAIN live, NEW bytes \in 1 .. live[t],
         NEW v \in Unmapped(Payload(t, bytes))
  PROVE  Hole(v)
<1>1. /\ t \in DOMAIN tag /\ t \in Int /\ tag[t].real_size \in Int
      /\ live[t] + TAG <= tag[t].real_size /\ live[t] \in Sizes
  BY HeldTags DEF HeapSound
<1>2. PICK b \in DOMAIN pages :
        b <= t /\ t + tag[t].real_size <= b + pages[b] * PageSize
  BY <1>1 DEF HeapSound, LP!IndInv, LP!Tiled, LP!Apart, LP!Extent
<1>3. b \in Int /\ pages[b] * PageSize \in Int
  BY DEF HeapSound, LP!IndInv, LP!Tiled, LP!Blocks, LP!Extent
<1>4. live[t] \in Int /\ bytes \in Int /\ bytes > 0 /\ bytes <= live[t]
  <2>1. UINT \in Nat
    BY HeapFacts, LP!Widths
  <2>2. live[t] \in 0 .. UINT - 1
    BY <1>1, HeapFacts
  <2>3. QED
    BY <2>1, <2>2
<1>5. /\ t + TAG \in Int /\ b <= t + TAG
      /\ (t + TAG) + bytes <= b + pages[b] * PageSize
  BY <1>1, <1>2, <1>3, <1>4, Pages
<1>6. QED
  BY <1>4, <1>5, UseInBlock DEF HeapSound, Payload

-----------------------------------------------------------------------------
(* The tags that a step of the heap uses.                                  *)

LEMMA SearchedTags ==
  ASSUME HeapSound, heap_op.pc = "search"
  PROVE  Searched \subseteq DOMAIN tag \cup {NULL}
<1> DEFINE i == LA!ListIndex(heap_op.size)
           walk == LA!ListWalk(i)
<1>1. LP!IndInv => LP!ListsSound
  BY HeapFacts, LP!ListsSoundHolds
<1>2. LA!ListsSound
  BY <1>1, SameProperties DEF HeapSound
<1>3. i \in LA!Index
  <2>1. heap_op.size \in 0 .. UINT - 1
    BY HeapFacts DEF HeapSound, LP!IndInv, LP!Control, LP!Calling
  <2>2. LP!ListIndex(heap_op.size) \in LP!Index
    BY <2>1, HeapFacts, LP!ListIndexIn
  <2>3. QED
    BY <2>2 DEF LA!Index, LP!Index, LA!ListIndex, LP!ListIndex, LA!getexp, LP!getexp
<1> HIDE DEF i
<1>4. {walk[n] : n \in DOMAIN walk} \ {NULL} \subseteq DOMAIN tag
  BY <1>2, <1>3 DEF LA!ListsSound, LA!FreeTags, LA!NULL, NULL
<1>5. Searched \subseteq {walk[n] : n \in DOMAIN walk}
  BY DEF Searched, i
<1>6. QED
  BY <1>4, <1>5

LEMMA AccessedTags ==
  ASSUME HeapSound,
         \/ \E size \in Sizes :
              \/ LA!Call("malloc", size, NULL)
              \/ \E old \in DOMAIN live : LA!Call("realloc", size, old)
         \/ \E t \in DOMAIN live : LA!FreeCall(t)
         \/ LA!SearchFound \/ LA!SearchFailed \/ LA!Carve \/ LA!ReallocFree
         \/ LA!MeltLeft \/ LA!AbsorbRight \/ LA!InsertFree
  PROVE  Accessed \subseteq DOMAIN tag \cup DOMAIN tag'
<1> DEFINE was     == DOMAIN tag
           is      == DOMAIN tag'
           changed == {a \in was \cup is : a \in was \cap is => tag'[a] # tag[a]}
<1>1. changed \subseteq was \cup is
  OBVIOUS
<1> HIDE DEF changed
<1>2. CASE heap_op.pc = "idle"
  <2>1. heap_op'.old \in DOMAIN live \cup {NULL} /\ heap_op'.t \in DOMAIN live \cup {NULL}
    <3>1. ASSUME NEW fn, NEW size, NEW old \in DOMAIN live \cup {NULL},
                 LA!Call(fn, size, old)
          PROVE  heap_op'.old = old /\ heap_op'.t = NULL
      BY <3>1 DEF LA!Call, LA!NULL, NULL
    <3>2. ASSUME NEW t \in DOMAIN live, LA!FreeCall(t)
          PROVE  heap_op'.old = NULL /\ heap_op'.t = t
      BY <3>2 DEF LA!FreeCall, LA!Surrender, LA!NULL, NULL
    <3>3. \/ \E fn, size : \E old \in DOMAIN live \cup {NULL} : LA!Call(fn, size, old)
          \/ \E t \in DOMAIN live : LA!FreeCall(t)
      BY <1>2 DEF LA!SearchFound, LA!SearchFailed, LA!Carve, LA!ReallocFree,
         LA!MeltLeft, LA!AbsorbRight, LA!InsertFree, LA!At
    <3>4. QED
      BY <3>1, <3>2, <3>3
  <2>2. DOMAIN live \subseteq DOMAIN tag
    BY HeldTags DEF HeapSound
  <2>3. Accessed = (changed \cup {heap_op'.old, heap_op'.t}) \ {NULL}
    BY <1>2 DEF Accessed, changed
  <2>4. QED
    BY <1>1, <2>1, <2>2, <2>3
<1>3. CASE heap_op.pc = "search"
  <2>1. Accessed = (changed \cup Searched) \ {NULL}
    BY <1>3 DEF Accessed, changed
  <2>2. QED
    BY <1>1, <1>3, <2>1, SearchedTags
<1>4. CASE heap_op.pc = "melt"
  <2>1. heap_op.t \in DOMAIN tag
    BY <1>4 DEF HeapSound, LP!IndInv, LP!Control
  <2>2. /\ tag[heap_op.t].split_left \in DOMAIN tag \cup {NULL}
        /\ tag[heap_op.t].split_right \in DOMAIN tag \cup {NULL}
    BY <2>1, HeapFacts, LP!NeighbourTags DEF HeapSound, LP!NULL, NULL
  <2>3. Accessed = (changed \cup {heap_op.t, tag[heap_op.t].split_left,
                                  tag[heap_op.t].split_right}) \ {NULL}
    BY <1>4 DEF Accessed, changed
  <2>4. QED
    BY <1>1, <2>1, <2>2, <2>3
<1>5. CASE heap_op.pc = "free"
  <2>1. heap_op.old \in DOMAIN tag
    BY <1>5, HeldTags DEF HeapSound, LP!IndInv, LP!Control
  <2>2. Accessed = (changed \cup {heap_op.old}) \ {NULL}
    BY <1>5 DEF Accessed, changed
  <2>3. QED
    BY <1>1, <2>1, <2>2
<1>6. CASE heap_op.pc = "carve"
  <2>1. heap_op.t \in DOMAIN tag
    BY <1>6 DEF HeapSound, LP!IndInv, LP!Control
  <2>2. Accessed = (changed \cup {heap_op.t}) \ {NULL}
    BY <1>6 DEF Accessed, changed
  <2>3. QED
    BY <1>1, <2>1, <2>2
<1>7. heap_op.pc \in {"idle", "search", "carve", "free", "melt"}
  BY DEF LA!Call, LA!FreeCall, LA!SearchFound, LA!SearchFailed, LA!Carve,
     LA!ReallocFree, LA!MeltLeft, LA!AbsorbRight, LA!InsertFree, LA!At
<1>8. QED
  BY <1>2, <1>3, <1>4, <1>5, <1>6, <1>7

\* The bytes that realloc copies are bytes of the two allocations.
LEMMA CopiedBytes ==
  ASSUME PP!IndInv, PP!HeldInv, ~misfreed, HeapSound,
         NEW v \in Unmapped(Copied)
  PROVE  Hole(v)
<1>1. heap_op.pc = "free" /\ v \in Copied
  BY DEF Unmapped, Copied
<1> DEFINE old   == heap_op.old
           t     == heap_op.t
           size  == tag[old].size
           bytes == IF size > heap_op.size THEN heap_op.size ELSE size
<1>2. /\ old \in DOMAIN live /\ t \in DOMAIN live
      /\ live[t] = heap_op.size /\ live[old] = size
  BY <1>1, HeldTags DEF HeapSound, Copying, LP!IndInv, LP!Control
<1>3. size \in Sizes /\ heap_op.size \in Sizes
  BY <1>2, HeldTags DEF HeapSound
<1>4. bytes \in 1 .. live[old] /\ bytes \in 1 .. live[t]
  <2>1. UINT \in Nat /\ TAG \in Nat
    BY HeapFacts, LP!Widths
  <2>2. \A x \in Sizes : x \in Int /\ x >= 1
    BY <2>1, NoWrapAssumption
  <2>3. QED
    BY <1>2, <1>3, <2>2
<1>5. Copied = Payload(old, bytes) \cup Payload(t, bytes) \/ Copied = {}
  BY <1>1 DEF Copied
<1> HIDE DEF bytes, old, t
<1>6. v \in Unmapped(Payload(old, bytes)) \/ v \in Unmapped(Payload(t, bytes))
  BY <1>1, <1>5 DEF Unmapped
<1>7. QED
  BY <1>2, <1>4, <1>6, PayloadInBlock

-----------------------------------------------------------------------------
(* The steps.                                                              *)

LEMMA AgreeSame ==
  ASSUME Agree, UNCHANGED <<blocks, pages>>
  PROVE  Agree'
BY DEF Agree

\* A request, which is made while no page was ever freed for another.
LEMMA RequestInv ==
  ASSUME IndInv, Request
  PROVE  HeapSound' /\ FaultsOnlyAtHoles'
<1> DEFINE Calls ==
      \/ \E size \in Sizes :
           \/ LA!Call("malloc", size, NULL)
           \/ \E old \in DOMAIN live : LA!Call("realloc", size, old)
      \/ \E t \in DOMAIN live : LA!FreeCall(t)
<1>1. /\ HeapSound /\ PP!IndInv /\ PP!HeldInv /\ ~misfreed /\ Calls
      /\ page_op.kind = "idle" /\ UNCHANGED <<page_op, blocks>>
  BY DEF IndInv, Request, Heap, pageVars
<1>2. LP!IndInv'
  <2>1. ASSUME NEW t \in DOMAIN live, LA!FreeCall(t)
        PROVE  LP!IndInv'
    BY <1>1, <2>1, HeapSurrender DEF LA!FreeCall, LA!At, HeapSound
  <2>2. QED
    BY <1>1, <2>1, HeapCall DEF HeapSound
<1>3. UNCHANGED pages /\ heap_op'.pc \in {"search", "melt"}
  <2>1. ASSUME NEW fn, NEW size, NEW old, LA!Call(fn, size, old)
        PROVE  UNCHANGED pages /\ heap_op'.pc = "search"
    BY <2>1 DEF LA!Call
  <2>2. ASSUME NEW t, LA!FreeCall(t)
        PROVE  UNCHANGED pages /\ heap_op'.pc = "melt"
    BY <2>2 DEF LA!FreeCall, LA!Surrender
  <2>3. QED
    BY <1>1, <2>1, <2>2
<1>4. HeapSound'
  BY <1>1, <1>2, <1>3, AgreeSame DEF HeapSound, Asked, Copying
<1>5. ASSUME NEW v \in faulted'
      PROVE  Hole(v)
  <2>1. v \in Unmapped(UNION {PagesOf(a, TAG) : a \in Accessed})
    BY <1>5 DEF Request
  <2>2. PICK a \in Accessed : v \in Unmapped(PagesOf(a, TAG))
    BY <2>1 DEF Unmapped
  <2>3. a \in DOMAIN tag \cup DOMAIN tag'
    BY <1>1, <2>2, AccessedTags
  <2>4. CASE a \in DOMAIN tag
    BY <1>1, <2>2, <2>4, HeaderInBlock
  <2>5. CASE a \in DOMAIN tag'
    BY <1>1, <1>2, <1>3, <2>2, <2>5, NextHeaderInBlock
  <2>6. QED
    BY <2>3, <2>4, <2>5
<1>6. QED
  BY <1>4, <1>5 DEF FaultsOnlyAtHoles, Hole

LEMMA UseInv ==
  ASSUME IndInv, ~misfreed, Use
  PROVE  HeapSound' /\ FaultsOnlyAtHoles'
<1>1. PICK t \in DOMAIN live : UsePayload(t)
  BY DEF Use
<1>2. /\ HeapSound /\ PP!IndInv /\ PP!HeldInv
      /\ UNCHANGED <<page_op, blocks, tag, l_freePages, l_completePages, pages,
                     heap_op, live>>
  BY <1>1 DEF IndInv, UsePayload, pageVars, heapVars
<1>3. LP!IndInv'
  BY <1>2, HeapSame DEF HeapSound, heapVars
<1>4. HeapSound'
  BY <1>2, <1>3, AgreeSame DEF HeapSound, Asked, Copying, LP!PagesFor, LP!Unsigned
<1>5. live[t] \in 1 .. live[t]
  <2>1. live[t] \in Sizes /\ UINT \in Nat /\ TAG \in Nat
    BY <1>2, HeldTags, HeapFacts, LP!Widths DEF HeapSound
  <2>2. QED
    BY <2>1, NoWrapAssumption
<1>6. faulted' = Unmapped(Payload(t, live[t]))
  BY <1>1 DEF UsePayload
<1>7. \A v \in faulted' : Hole(v)
  BY <1>2, <1>5, <1>6, PayloadInBlock
<1>8. QED
  BY <1>4, <1>7 DEF FaultsOnlyAtHoles, Hole

LEMMA HeapStepInv ==
  ASSUME IndInv, ~misfreed, HeapStep
  PROVE  HeapSound' /\ FaultsOnlyAtHoles'
<1>1. /\ HeapSound /\ PP!IndInv /\ PP!HeldInv
      /\ page_op.kind = "idle" /\ UNCHANGED <<page_op, blocks>>
      /\ \/ LA!SearchFound \/ LA!SearchFailed \/ LA!Carve \/ LA!ReallocFree
         \/ LA!MeltLeft \/ LA!AbsorbRight \/ LA!InsertFree
  BY DEF IndInv, HeapStep, Heap, pageVars
<1>2. LP!IndInv'
  <2>1. CASE LA!ReallocFree
    <3>1. heap_op.pc = "free" /\ LA!Surrender(heap_op.old)
      BY <2>1 DEF LA!ReallocFree, LA!At
    <3>2. heap_op.old \in DOMAIN live
      BY <1>1, <3>1 DEF HeapSound, LP!IndInv, LP!Control
    <3>3. QED
      BY <1>1, <3>1, <3>2, HeapSurrender DEF HeapSound
  <2>2. QED
    BY <1>1, <2>1, HeapNext DEF HeapSound
<1>3. UNCHANGED pages
  BY <1>1 DEF LA!SearchFound, LA!SearchFailed, LA!Carve, LA!ReallocFree, LA!Surrender,
     LA!MeltLeft, LA!AbsorbRight, LA!InsertFree
<1>4. Copying'
  <2>1. CASE LA!Carve
    <3>1. /\ live' = [t \in DOMAIN live \cup {heap_op.t} |->
                        IF t = heap_op.t THEN heap_op.size ELSE live[t]]
          /\ \/ heap_op' = [heap_op EXCEPT !.pc = "free"]
             \/ heap_op' = LA!Idle
      BY <2>1 DEF LA!Carve
    <3>2. live'[heap_op.t] = heap_op.size /\ heap_op.t \in DOMAIN live'
      BY <3>1
    <3>3. \/ heap_op'.t = heap_op.t /\ heap_op'.size = heap_op.size
          \/ heap_op'.pc = "idle"
      BY <3>1 DEF LA!Idle, IndInv, Sized
    <3>4. QED
      BY <3>2, <3>3 DEF Copying
  <2>2. CASE ~LA!Carve
    <3>1. CASE LA!SearchFound
      <4>1. PICK t : heap_op' = [heap_op EXCEPT !.pc = "carve", !.t = t]
        BY <3>1 DEF LA!SearchFound
      <4>2. heap_op'.pc = "carve"
        BY <4>1 DEF IndInv, Sized
      <4>3. QED
        BY <4>2 DEF Copying
    <3>2. CASE LA!SearchFailed
      <4>1. heap_op' = [heap_op EXCEPT !.pc = "pages"]
        BY <3>2 DEF LA!SearchFailed
      <4>2. heap_op'.pc = "pages"
        BY <4>1 DEF IndInv, Sized
      <4>3. QED
        BY <4>2 DEF Copying
    <3>3. CASE LA!ReallocFree
      BY <3>3 DEF LA!ReallocFree, LA!Surrender, Copying
    <3>4. CASE LA!MeltLeft
      <4>1. PICK t : heap_op' = [heap_op EXCEPT !.t = t] /\ heap_op.pc = "melt"
        BY <3>4 DEF LA!MeltLeft, LA!At
      <4>2. heap_op'.pc = "melt"
        BY <4>1 DEF IndInv, Sized
      <4>3. QED
        BY <4>2 DEF Copying
    <3>5. CASE LA!AbsorbRight
      BY <3>5 DEF LA!AbsorbRight, LA!At, Copying
    <3>6. CASE LA!InsertFree
      BY <3>6 DEF LA!InsertFree, LA!Idle, Copying
    <3>7. QED
      BY <1>1, <2>2, <3>1, <3>2, <3>3, <3>4, <3>5, <3>6
  <2>3. QED
    BY <2>1, <2>2
<1>5. HeapSound'
  BY <1>1, <1>2, <1>3, <1>4, AgreeSame DEF HeapSound, Asked
<1>6. ASSUME NEW v \in faulted'
      PROVE  Hole(v)
  <2> DEFINE U == UNION {PagesOf(a, TAG) : a \in Accessed}
  <2>1. faulted' = Unmapped(U \cup Copied)
    BY DEF HeapStep
  <2> HIDE DEF U
  <2>2. CASE v \in Unmapped(Copied)
    BY <1>1, <2>2, CopiedBytes
  <2>3. CASE v \in Unmapped(U)
    <3>1. PICK a \in Accessed : v \in Unmapped(PagesOf(a, TAG))
      BY <2>3 DEF Unmapped, U
    <3>2. a \in DOMAIN tag \cup DOMAIN tag'
      BY <1>1, <3>1, AccessedTags
    <3>3. CASE a \in DOMAIN tag
      BY <1>1, <3>1, <3>3, HeaderInBlock
    <3>4. CASE a \in DOMAIN tag'
      BY <1>1, <1>2, <1>3, <3>1, <3>4, NextHeaderInBlock
    <3>5. QED
      BY <3>2, <3>3, <3>4
  <2>4. QED
    BY <1>6, <2>1, <2>2, <2>3 DEF Unmapped
<1>7. QED
  BY <1>5, <1>6 DEF FaultsOnlyAtHoles, Hole

LEMMA AskPagesInv ==
  ASSUME IndInv, ~misfreed, AskPages
  PROVE  HeapSound' /\ FaultsOnlyAtHoles'
<1>1. /\ HeapSound /\ heap_op.pc = "pages"
      /\ page_op' = [kind |-> "alloc", n |-> LA!PagesFor(heap_op.size),
                     left |-> LA!PagesFor(heap_op.size), ptr |-> PG!NULL, got |-> {}]
      /\ UNCHANGED <<blocks, tag, l_freePages, l_completePages, pages, heap_op, live,
                     faulted, misfreed>>
  BY DEF IndInv, AskPages, heapVars, PG!AllocCall
<1>2. LP!IndInv'
  BY <1>1, HeapSame DEF HeapSound, heapVars
<1>3. heap_op.size \in Sizes
  BY <1>1 DEF IndInv, Sized
<1>4. LA!PagesFor(heap_op.size) = LP!PagesFor(heap_op.size)
  BY <1>3, PagesForBounds
<1>5. Asked'
  BY <1>1, <1>4 DEF Asked, LP!PagesFor, LP!Unsigned
<1>6. HeapSound'
  BY <1>1, <1>2, <1>5, AgreeSame DEF HeapSound, Copying
<1>7. FaultsOnlyAtHoles'
  BY <1>1 DEF IndInv, FaultsOnlyAtHoles, PG!WORD_BITS
<1>8. QED
  BY <1>6, <1>7

LEMMA PageStepInv ==
  ASSUME IndInv, ~misfreed, PageStep
  PROVE  HeapSound' /\ FaultsOnlyAtHoles'
<1>1. /\ HeapSound
      /\ UNCHANGED <<blocks, tag, l_freePages, l_completePages, pages, heap_op, live,
                     faulted>>
  BY DEF IndInv, PageStep, heapVars, PG!AllocPageNull, PG!AllocPageAbort,
     PG!AllocPage, PG!FreePage, PG!FreeReturn
<1>2. LP!IndInv'
  BY <1>1, HeapSame DEF HeapSound, heapVars
<1>3. page_op'.kind = "alloc" => page_op.kind = "alloc" /\ page_op'.n = page_op.n
  <2>1. page_op \in PP!Call
    BY DEF IndInv, PP!IndInv, PP!TypeOK
  <2>2. CASE PG!AllocPageNull
    BY <2>1, <2>2 DEF PG!AllocPageNull, PP!Call
  <2>3. CASE PG!AllocPageAbort
    BY <2>3 DEF PG!AllocPageAbort
  <2>4. CASE PG!AllocPage
    BY <2>4 DEF PG!AllocPage, PG!Running
  <2>5. CASE PG!FreePage
    BY <2>1, <2>5 DEF PG!FreePage, PG!Running, PP!Call
  <2>6. CASE PG!FreeReturn
    BY <2>6 DEF PG!FreeReturn, PG!Idle
  <2>7. QED
    BY <2>2, <2>3, <2>4, <2>5, <2>6 DEF PageStep
<1>4. Asked'
  BY <1>1, <1>3 DEF HeapSound, Asked, LP!PagesFor, LP!Unsigned
<1>5. HeapSound'
  BY <1>1, <1>2, <1>4, AgreeSame DEF HeapSound, Copying
<1>6. FaultsOnlyAtHoles'
  BY <1>1 DEF IndInv, FaultsOnlyAtHoles, PG!WORD_BITS
<1>7. QED
  BY <1>5, <1>6

\* What alloc_pages hands out has room among the blocks of the heap: neither it
\* nor a block begins within the other, for each begins with a page that has a
\* bit and so belongs to whoever has the pages around it.
LEMMA RoomForBlock ==
  ASSUME PP!IndInv, PP!HeldInv, PP!IndInv', PP!HeldInv', ~misfreed, ~misfreed', HeapSound,
         PG!AllocReturn, page_op.ptr # PG!NULL
  PROVE  /\ page_op.ptr \in 1 .. ArenaPages
         /\ LP!RoomAt(page_op.ptr, page_op.n)
         /\ page_op.ptr \in page_op.got
         /\ \A i \in DOMAIN blocks : blocks[i].ptr # page_op.ptr
<1> DEFINE q == page_op.ptr
           m == page_op.n
           new == [ptr |-> page_op.ptr, n |-> page_op.n, got |-> page_op.got]
           last == Len(blocks) + 1
<1>1. page_op.kind = "alloc" /\ blocks' = Append(blocks, new)
  BY DEF PG!AllocReturn, PG!Running
<1>2. blocks \in Seq(PP!Block) /\ page_op \in PP!Call
  BY DEF PP!IndInv, PP!TypeOK
<1>3. /\ last \in DOMAIN blocks' /\ blocks'[last] = new
      /\ \A i \in DOMAIN blocks :
           i \in DOMAIN blocks' /\ i # last /\ blocks'[i] = blocks[i]
  BY <1>1, <1>2
<1> HIDE DEF last
<1>4. q \in page_op.got
  BY <1>1 DEF PP!HeldInv, PP!Pending, PG!NULL, PP!NULL
<1>5. /\ \A i \in DOMAIN blocks' :
            /\ blocks'[i].ptr \in Nat /\ blocks'[i].ptr < Words * 32
            /\ blocks'[i].n \in 1 .. Entries
            /\ blocks'[i].got \subseteq PP!Slotted
            /\ \A v \in PP!Slotted :
                 blocks'[i].ptr <= v /\ v < blocks'[i].ptr + blocks'[i].n =>
                   v \in blocks'[i].got
      /\ \A i, j \in DOMAIN blocks' :
            i # j => blocks'[i].got \cap blocks'[j].got = {}
  BY HeldAfter
<1>6. /\ q \in Nat /\ q < Words * 32 /\ m \in 1 .. Entries
      /\ page_op.got \subseteq PP!Slotted
      /\ \A v \in PP!Slotted : q <= v /\ v < q + m => v \in page_op.got
  BY <1>3, <1>5
<1>7. q \in 1 .. ArenaPages /\ q + m <= ArenaPages + 1
  BY <1>6, ArenaAssumption, WidthAssumption, SizesAssumption DEF PG!NULL
<1>8. ASSUME NEW i \in DOMAIN blocks
      PROVE  /\ blocks[i].ptr \in Nat /\ blocks[i].n \in Nat
             /\ blocks[i].ptr # q
             /\ blocks[i].ptr + blocks[i].n <= q \/ q + m <= blocks[i].ptr
  <2> DEFINE p == blocks[i].ptr
             n == blocks[i].n
  <2>1. /\ p \in Nat /\ n \in Nat /\ blocks[i].got \subseteq PP!Slotted
        /\ \A v \in PP!Slotted : p <= v /\ v < p + n => v \in blocks[i].got
        /\ blocks[i].got \cap page_op.got = {}
    BY <1>3, <1>5, <1>8, SizesAssumption
  <2>2. p \in blocks[i].got
    BY <1>8 DEF HeapSound, Agree
  <2> HIDE DEF p, n, q, m
  <2>3. p # q
    BY <1>4, <2>1, <2>2 DEF q
  <2>4. ~(p <= q /\ q < p + n)
    BY <1>4, <1>6, <2>1 DEF q
  <2>5. ~(q <= p /\ p < q + m)
    BY <1>6, <2>1, <2>2 DEF q, m
  <2>6. p + n <= q \/ q + m <= p
    BY <1>6, <2>1, <2>4, <2>5, SizesAssumption DEF q, m
  <2>7. QED
    BY <2>1, <2>3, <2>6 DEF p, n, q, m
<1>9. ASSUME NEW b \in DOMAIN pages
      PROVE  q * PageSize >= b + pages[b] * PageSize \/ (q + m) * PageSize <= b
  <2>1. PICK i \in DOMAIN blocks :
          blocks[i].ptr * PageSize = b /\ pages[b] = blocks[i].n
    BY <1>9 DEF HeapSound, Agree
  <2> DEFINE p == blocks[i].ptr
             n == blocks[i].n
  <2>2. p \in Nat /\ n \in Nat /\ (p + n <= q \/ q + m <= p)
    BY <1>8
  <2>3. PageSize \in Nat \ {0} /\ q \in Nat /\ m \in Nat
    BY <1>6, Pages, SizesAssumption
  <2> HIDE DEF p, n, q, m
  <2>4. \A x, y \in Nat : x <= y => x * PageSize <= y * PageSize
    BY <2>3
  <2>5. (p + n) * PageSize = p * PageSize + n * PageSize
    BY <2>2, <2>3
  <2>6. (p + n) * PageSize <= q * PageSize \/ (q + m) * PageSize <= p * PageSize
    BY <2>2, <2>3, <2>4
  <2>7. b = p * PageSize /\ pages[b] = n
    BY <2>1 DEF p, n
  <2>8. QED
    BY <2>2, <2>3, <2>5, <2>6, <2>7
<1>10. QED
  BY <1>4, <1>7, <1>8, <1>9 DEF LP!RoomAt

LEMMA PagesArriveInv ==
  ASSUME IndInv, PP!IndInv', PP!HeldInv', ~misfreed, ~misfreed', PagesArrive
  PROVE  HeapSound' /\ FaultsOnlyAtHoles'
<1> DEFINE q == page_op.ptr
           base == q * PageSize
<1>1. /\ HeapSound /\ PP!IndInv /\ PP!HeldInv /\ PG!AllocReturn
      /\ page_op.kind = "alloc" /\ page_op'.kind = "idle"
  BY DEF IndInv, PagesArrive, PG!AllocReturn, PG!Running, PG!Idle
<1>2. heap_op.pc = "pages" /\ page_op.n = LP!PagesFor(heap_op.size)
  BY <1>1 DEF HeapSound, Asked
<1>3. Asked'
  BY <1>1 DEF Asked
<1>4. CASE q = PG!NULL
  <2>1. LA!NoPages /\ UNCHANGED faulted /\ UNCHANGED blocks
    BY <1>1, <1>4 DEF PagesArrive, PG!AllocReturn
  <2>2. LP!IndInv'
    BY <1>1, <2>1, HeapNext DEF HeapSound
  <2>3. UNCHANGED pages
    BY <2>1 DEF LA!NoPages
  <2>4. heap_op'.pc # "free"
    <3>1. heap_op.fn = "realloc" => tag[heap_op.old].size > 0
      <4>1. heap_op.fn = "realloc" => heap_op.old \in DOMAIN live
        BY <1>1, <1>2 DEF HeapSound, LP!IndInv, LP!Control, LP!Calling
      <4>2. UINT \in Nat /\ TAG \in Nat
        BY HeapFacts, LP!Widths
      <4>3. \A t \in DOMAIN live : tag[t].size \in Sizes
        BY <1>1, HeldTags DEF HeapSound
      <4>4. QED
        BY <4>1, <4>2, <4>3, NoWrapAssumption
    <3>2. \/ heap_op' = [heap_op EXCEPT !.pc = "fault"]
          \/ heap_op' = LA!Idle
      BY <2>1, <3>1 DEF LA!NoPages
    <3>3. QED
      BY <3>2 DEF LA!Idle, IndInv, Sized
  <2>5. HeapSound'
    BY <1>1, <1>3, <2>1, <2>2, <2>3, <2>4, AgreeSame DEF HeapSound, Copying
  <2>6. FaultsOnlyAtHoles'
    BY <2>1 DEF IndInv, FaultsOnlyAtHoles, PG!WORD_BITS
  <2>7. QED
    BY <2>5, <2>6
<1>5. CASE q # PG!NULL
  <2>1. /\ LA!PagesArrive(q)
        /\ faulted' = Unmapped(PagesOf(base, TAG))
        /\ blocks' = Append(blocks, [ptr |-> q, n |-> page_op.n, got |-> page_op.got])
    BY <1>1, <1>5 DEF PagesArrive, PG!AllocReturn
  <2>2. /\ q \in 1 .. ArenaPages /\ LP!RoomAt(q, page_op.n) /\ q \in page_op.got
        /\ \A i \in DOMAIN blocks : blocks[i].ptr # q
    BY <1>1, <1>5, RoomForBlock
  <2> HIDE DEF q
  <2>3. LP!IndInv'
    BY <1>1, <1>2, <2>1, <2>2, HeapPages DEF HeapSound
  <2>4. heap_op.size \in Sizes
    BY <1>2 DEF IndInv, Sized
  <2>5. pages' = [c \in DOMAIN pages \cup {base} |->
                    IF c = base THEN page_op.n ELSE pages[c]]
    BY <1>2, <2>1, <2>4, PagesForBounds DEF LA!PagesArrive
  <2>6. /\ DOMAIN pages' = DOMAIN pages \cup {base} /\ pages'[base] = page_op.n
        /\ \A c \in DOMAIN pages : c # base => pages'[c] = pages[c]
    BY <2>5
  <2> HIDE DEF base
  <2>7. Agree'
    <3> DEFINE last == Len(blocks) + 1
    <3>1. blocks \in Seq(PP!Block)
      BY <1>1 DEF PP!IndInv, PP!TypeOK
    <3>2. /\ DOMAIN blocks' = DOMAIN blocks \cup {last}
          /\ blocks'[last] = [ptr |-> q, n |-> page_op.n, got |-> page_op.got]
          /\ \A i \in DOMAIN blocks : blocks'[i] = blocks[i]
      BY <2>1, <3>1
    <3> HIDE DEF last
    <3>3. /\ blocks'[last].ptr = q /\ blocks'[last].n = page_op.n
          /\ blocks'[last].got = page_op.got
      BY <3>2
    <3>4. ASSUME NEW i \in DOMAIN blocks
          PROVE  blocks[i].ptr * PageSize # base
      <4>1. blocks[i].ptr \in Nat /\ q \in Nat /\ blocks[i].ptr # q
        BY <1>1, <2>2, BlockPages
      <4>2. QED
        BY <4>1, Pages DEF base
    <3>5. ASSUME NEW i \in DOMAIN blocks'
          PROVE  /\ blocks'[i].ptr \in blocks'[i].got
                 /\ blocks'[i].ptr * PageSize \in DOMAIN pages'
                 /\ pages'[blocks'[i].ptr * PageSize] = blocks'[i].n
      <4>1. CASE i = last
        BY <2>2, <2>6, <3>3, <4>1 DEF base
      <4>2. CASE i \in DOMAIN blocks
        BY <1>1, <2>6, <3>2, <3>4, <4>2 DEF HeapSound, Agree
      <4>3. QED
        BY <3>2, <4>1, <4>2
    <3>6. ASSUME NEW b \in DOMAIN pages'
          PROVE  \E i \in DOMAIN blocks' : blocks'[i].ptr * PageSize = b
      <4>1. CASE b = base
        BY <3>2, <3>3, <4>1 DEF base
      <4>2. CASE b \in DOMAIN pages
        BY <1>1, <3>2, <4>2 DEF HeapSound, Agree
      <4>3. QED
        BY <2>6, <4>1, <4>2
    <3>7. QED
      BY <3>5, <3>6 DEF Agree
  <2>8. heap_op'.pc # "free"
    <3>1. PICK t : heap_op' = [heap_op EXCEPT !.pc = "carve", !.t = t]
      BY <2>1 DEF LA!PagesArrive
    <3>2. QED
      BY <3>1 DEF IndInv, Sized
  <2>9. HeapSound'
    BY <1>3, <2>3, <2>7, <2>8 DEF HeapSound, Copying
  <2>10. faulted' = {}
    <3>1. PagesOf(base, TAG) \subseteq {q}
      <4>1. q \in Nat /\ PageSize \in Nat \ {0} /\ TAG \in Nat \ {0} /\ TAG <= PageSize
        BY <2>2, Pages
      <4>2. base \in Int /\ base + TAG - 1 \in Int /\ base + TAG - 1 < (q + 1) * PageSize
        BY <4>1 DEF base
      <4>3. q <= base \div PageSize /\ base \div PageSize \in Int
        BY <4>1, <4>2, PageOf DEF base
      <4>4. /\ (base + TAG - 1) \div PageSize < q + 1
            /\ (base + TAG - 1) \div PageSize \in Int
        <5>1. (q + 1) * PageSize \in Int /\ q + 1 \in Int
          BY <4>1
        <5>2. ~((q + 1) * PageSize <= base + TAG - 1)
          BY <4>2, <5>1
        <5>3. QED
          BY <4>2, <5>1, <5>2, PageOf
      <4>5. QED
        BY <4>1, <4>3, <4>4 DEF PagesOf
    <3>2. PG!get_physical_address(q) # PG!NotPresent
      <4>1. page_op.got \subseteq PP!Mapped
        BY <1>1 DEF PP!HeldInv, PP!Pending
      <4>2. QED
        BY <2>2, <4>1, SamePages DEF PP!Mapped, PP!NotPresent, PG!NotPresent
    <3>3. QED
      BY <2>1, <3>1, <3>2 DEF Unmapped
  <2>11. QED
    BY <2>9, <2>10 DEF FaultsOnlyAtHoles
<1>6. QED
  BY <1>4, <1>5

LEMMA ReturnPagesInv ==
  ASSUME IndInv, ~misfreed, ReturnPages
  PROVE  HeapSound' /\ FaultsOnlyAtHoles'
<1> DEFINE t == heap_op.t
<1>1. PICK i \in DOMAIN blocks :
        /\ blocks[i].ptr * PageSize = t
        /\ PG!FreeCall(i)
  BY DEF ReturnPages
<1>2. /\ HeapSound /\ PP!IndInv /\ PP!HeldInv /\ LA!ReturnPages
      /\ faulted' = Unmapped(PagesOf(t, TAG))
  BY DEF IndInv, ReturnPages
<1>3. LP!IndInv'
  BY <1>2, HeapNext DEF HeapSound
<1>4. /\ heap_op.pc = "melt" /\ heap_op'.pc = "idle"
      /\ pages' = [b \in DOMAIN pages \ {t} |-> pages[b]]
  BY <1>2 DEF LA!ReturnPages, LA!At, LA!Idle
<1>5. /\ page_op'.kind = "free"
      /\ blocks' = [j \in 1 .. Len(blocks) - 1 |->
                      IF j < i THEN blocks[j] ELSE blocks[j + 1]]
  BY <1>1 DEF PG!FreeCall
<1>6. blocks \in Seq(PP!Block)
  BY <1>2 DEF PP!IndInv, PP!TypeOK
<1>7. DOMAIN blocks = 1 .. Len(blocks) /\ Len(blocks) \in Nat /\ i \in 1 .. Len(blocks)
  BY <1>6
<1>8. \A j \in DOMAIN blocks' : \E k \in DOMAIN blocks : k # i /\ blocks'[j] = blocks[k]
  <2> SUFFICES ASSUME NEW j \in DOMAIN blocks'
               PROVE  \E k \in DOMAIN blocks : k # i /\ blocks'[j] = blocks[k]
    OBVIOUS
  <2>1. j \in 1 .. Len(blocks) - 1
    BY <1>5
  <2>2. CASE j < i
    BY <1>5, <1>7, <2>1, <2>2
  <2>3. CASE ~(j < i)
    <3>1. j + 1 \in DOMAIN blocks /\ j + 1 # i /\ blocks'[j] = blocks[j + 1]
      BY <1>5, <1>7, <2>1, <2>3
    <3>2. QED
      BY <3>1
  <2>4. QED
    BY <2>2, <2>3
<1>9. \A k \in DOMAIN blocks : k # i => \E j \in DOMAIN blocks' : blocks'[j] = blocks[k]
  <2> SUFFICES ASSUME NEW k \in DOMAIN blocks, k # i
               PROVE  \E j \in DOMAIN blocks' : blocks'[j] = blocks[k]
    OBVIOUS
  <2>1. CASE k < i
    <3>1. k \in DOMAIN blocks' /\ blocks'[k] = blocks[k]
      BY <1>5, <1>7, <2>1
    <3>2. QED
      BY <3>1
  <2>2. CASE ~(k < i)
    <3>1. k - 1 \in 1 .. Len(blocks) - 1 /\ ~(k - 1 < i) /\ (k - 1) + 1 = k
      BY <1>7, <2>2
    <3>2. k - 1 \in DOMAIN blocks' /\ blocks'[k - 1] = blocks[k]
      BY <1>5, <3>1
    <3>3. QED
      BY <3>2
  <2>3. QED
    BY <2>1, <2>2
<1>10. ASSUME NEW k \in DOMAIN blocks, k # i
       PROVE  blocks[k].ptr * PageSize # t
  <2>1. blocks[k].ptr \in blocks[k].got /\ blocks[i].ptr \in blocks[i].got
    BY <1>2 DEF HeapSound, Agree
  <2>2. blocks[k].got \cap blocks[i].got = {}
    BY <1>2, <1>10, BlockPages
  <2>3. blocks[k].ptr \in Nat /\ blocks[i].ptr \in Nat
    BY <1>2, BlockPages
  <2>4. blocks[k].ptr # blocks[i].ptr
    BY <2>1, <2>2
  <2>5. QED
    BY <1>1, <2>3, <2>4, Pages
<1> HIDE DEF t
<1>11. Agree'
  <2>1. ASSUME NEW j \in DOMAIN blocks'
        PROVE  /\ blocks'[j].ptr \in blocks'[j].got
               /\ blocks'[j].ptr * PageSize \in DOMAIN pages'
               /\ pages'[blocks'[j].ptr * PageSize] = blocks'[j].n
    <3>1. PICK k \in DOMAIN blocks : k # i /\ blocks'[j] = blocks[k]
      BY <1>8
    <3>2. blocks[k].ptr * PageSize # t
      BY <1>10, <3>1
    <3>3. QED
      BY <1>2, <1>4, <3>1, <3>2 DEF HeapSound, Agree
  <2>2. ASSUME NEW b \in DOMAIN pages'
        PROVE  \E j \in DOMAIN blocks' : blocks'[j].ptr * PageSize = b
    <3>1. b \in DOMAIN pages /\ b # t
      BY <1>4
    <3>2. PICK k \in DOMAIN blocks : blocks[k].ptr * PageSize = b
      BY <1>2, <3>1 DEF HeapSound, Agree
    <3>3. k # i
      BY <1>1, <3>1, <3>2
    <3>4. QED
      BY <1>9, <3>2, <3>3
  <2>3. QED
    BY <2>1, <2>2 DEF Agree
<1>12. HeapSound'
  BY <1>3, <1>4, <1>5, <1>11 DEF HeapSound, Asked, Copying
<1>13. t \in DOMAIN tag
  BY <1>2, <1>4 DEF HeapSound, LP!IndInv, LP!Control, t
<1>14. \A v \in faulted' : Hole(v)
  BY <1>2, <1>13, HeaderInBlock
<1>15. QED
  BY <1>12, <1>14 DEF FaultsOnlyAtHoles, Hole

-----------------------------------------------------------------------------
(* The theorems.                                                           *)

LEMMA MisfreedStays ==
  ASSUME PP!IndInv, [PG!Next]_PG!vars, misfreed
  PROVE  misfreed'
<1>1. CASE UNCHANGED PG!vars
  BY <1>1 DEF PG!vars
<1>2. CASE PG!Next
  BY <1>2 DEF PG!Next, PG!AllocCall, PG!AllocPageNull, PG!AllocPageAbort,
     PG!AllocPage, PG!AllocReturn, PG!FreeCall, PG!FreePage, PG!FreeReturn, PG!TlbFill
<1>3. QED
  BY <1>1, <1>2

LEMMA InitInv == Init => IndInv
<1> SUFFICES ASSUME Init PROVE IndInv
  OBVIOUS
<1>1. PP!IndInv /\ PP!HeldInv /\ Sized
  BY PagesInit, SizedInit DEF Init
<1>2. LP!IndInv
  BY HeapInit DEF Init
<1>3. DOMAIN blocks = {} /\ DOMAIN pages = {}
  BY DEF Init, PG!Init, LA!Init
<1>4. page_op.kind = "idle" /\ heap_op.pc = "idle"
  BY DEF Init, PG!Init, LA!Init, PG!Idle, LA!Idle
<1>5. HeapSound
  BY <1>2, <1>3, <1>4 DEF HeapSound, Agree, Asked, Copying
<1>6. FaultsOnlyAtHoles
  BY DEF Init, FaultsOnlyAtHoles
<1>7. QED
  BY <1>1, <1>5, <1>6 DEF IndInv

LEMMA NextInv ==
  ASSUME IndInv, [Next]_vars
  PROVE  IndInv'
<1>1. Sized' /\ [PG!Next]_PG!vars
  BY SizedNext, StepOfPaging DEF IndInv
<1>2. PP!IndInv' /\ PP!HeldInv'
  BY <1>1, PagesNext DEF IndInv
<1>3. CASE misfreed'
  BY <1>1, <1>2, <1>3 DEF IndInv, FaultsOnlyAtHoles
<1>4. CASE ~misfreed'
  <2>1. ~misfreed
    BY <1>1, <1>4, MisfreedStays DEF IndInv
  <2>2. HeapSound' /\ FaultsOnlyAtHoles'
    <3>1. CASE Request
      BY <3>1, RequestInv
    <3>2. CASE Use
      BY <2>1, <3>2, UseInv
    <3>3. CASE HeapStep
      BY <2>1, <3>3, HeapStepInv
    <3>4. CASE AskPages
      BY <2>1, <3>4, AskPagesInv
    <3>5. CASE PageStep
      BY <2>1, <3>5, PageStepInv
    <3>6. CASE PagesArrive
      BY <1>2, <1>4, <2>1, <3>6, PagesArriveInv
    <3>7. CASE ReturnPages
      BY <2>1, <3>7, ReturnPagesInv
    <3>8. CASE UNCHANGED vars
      <4>1. HeapSound /\ UNCHANGED heapVars
            /\ UNCHANGED <<page_op, blocks, pages, heap_op, live, faulted>>
        BY <2>1, <3>8 DEF IndInv, vars, pageVars, heapVars
      <4>2. LP!IndInv'
        BY <4>1, HeapSame DEF HeapSound
      <4>3. HeapSound'
        BY <4>1, <4>2, AgreeSame DEF HeapSound, Asked, Copying, LP!PagesFor, LP!Unsigned
      <4>4. FaultsOnlyAtHoles'
        BY <2>1, <4>1 DEF IndInv, FaultsOnlyAtHoles, PG!WORD_BITS
      <4>5. QED
        BY <4>3, <4>4
    <3>9. QED
      BY <3>1, <3>2, <3>3, <3>4, <3>5, <3>6, <3>7, <3>8 DEF Next, Step
  <2>3. QED
    BY <1>1, <1>2, <2>2 DEF IndInv
<1>5. QED
  BY <1>3, <1>4

\* The inductive invariant of the two together.
THEOREM SpecIndInv == Spec => []IndInv
<1>1. IndInv /\ [Next]_vars => IndInv'
  BY NextInv
<1>2. QED
  BY <1>1, InitInv, PTL DEF Spec

\* Until free_page clears a bit, of whatever page, the heap and its
\* callers fault at nothing but the pages that alloc_page leaves out of a
\* block, the last one of every word of the bitmap, and behind the bitmap:
\* the headers liballoc.c reads and writes while it searches, splits, melts and
\* takes blocks apart, the bytes realloc copies and all the callers use lie in
\* blocks whose other pages are mapped.
THEOREM SpecFaultsOnlyAtHoles == Spec => []FaultsOnlyAtHoles
BY SpecIndInv, PTL DEF IndInv

\* Under the heap the page allocator does what it does alone: every step of the
\* heap is one of alloc_pages or free_pages as Paging has them, with at most a
\* page table asked for and a block it handed out given back, or none.
THEOREM SpecImplementsPaging == Spec => PG!Spec
<1>1. Init => PG!Init
  BY DEF Init
<1>2. IndInv /\ [Next]_vars => [PG!Next]_PG!vars
  BY StepOfPaging DEF IndInv
<1>3. QED
  BY <1>1, <1>2, SpecIndInv, PTL DEF Spec, PG!Spec

\* The properties of the heap that hold on ideal pages hold on those it gets,
\* until free_page clears a bit: the lists, the tiling of the blocks, the counts
\* and the room of the allocations.
THEOREM SpecHeapSound ==
  Spec => [](~misfreed => /\ LA!ListsSound /\ LA!BlocksTiled
                          /\ LA!CompleteCounted /\ LA!AllocationsFit)
<1>1. LP!IndInv => /\ LP!ListsSound /\ LP!BlocksTiled
                   /\ LP!CompleteCounted /\ LP!AllocationsFit
  BY HeapFacts, LP!ListsSoundHolds, LP!BlocksTiledHolds, LP!CompleteCountedHolds,
     LP!AllocationsFitHolds
<1>2. IndInv => (~misfreed => /\ LA!ListsSound /\ LA!BlocksTiled
                              /\ LA!CompleteCounted /\ LA!AllocationsFit)
  BY <1>1, SameProperties DEF IndInv, HeapSound
<1>3. QED
  BY <1>2, SpecIndInv, PTL

\* On the pages it really gets the heap implements AbstractHeap until free_page
\* clears a bit, of whatever page: an allocation and its header overlap
\* nothing that is held, and nothing is released but what is freed.
THEOREM SpecKeepsPromise == Spec => KeepsPromise
<1>1. ASSUME IndInv, IndInv', Next, ~misfreed'
      PROVE  LA!Heap!Next \/ UNCHANGED live
  <2>1. ~misfreed /\ HeapSound /\ HeapSound'
    <3>1. [PG!Next]_PG!vars
      BY <1>1, StepOfPaging DEF IndInv
    <3>2. QED
      BY <1>1, <3>1, MisfreedStays DEF IndInv
  <2>2. ASSUME LP!Carve \/ \E t \in DOMAIN live : LP!Surrender(t)
        PROVE  LA!Heap!Next
    BY <2>1, <2>2, HeapFacts, SamePromise, LP!CarveOrSurrender DEF HeapSound
  <2>3. CASE Request
    <3>1. ASSUME NEW t \in DOMAIN live, LA!FreeCall(t)
          PROVE  LA!Heap!Next
      BY <2>2, <3>1, SameCalls DEF LA!FreeCall
    <3>2. QED
      BY <2>3, <3>1 DEF Request, LA!Call
  <2>4. CASE HeapStep
    <3>1. CASE LA!Carve
      BY <2>2, <3>1, SameCalls
    <3>2. CASE LA!ReallocFree
      <4>1. heap_op.pc = "free" /\ LA!Surrender(heap_op.old)
        BY <3>2 DEF LA!ReallocFree, LA!At
      <4>2. heap_op.old \in DOMAIN live
        BY <2>1, <4>1 DEF HeapSound, LP!IndInv, LP!Control
      <4>3. QED
        BY <2>2, <4>1, <4>2, SameCalls
    <3>3. QED
      BY <2>4, <3>1, <3>2 DEF HeapStep, LA!SearchFound, LA!SearchFailed, LA!MeltLeft,
         LA!AbsorbRight, LA!InsertFree
  <2>5. CASE Use \/ AskPages \/ PageStep
    BY <2>5 DEF Use, UsePayload, AskPages, PageStep, heapVars
  <2>6. CASE PagesArrive
    BY <2>6 DEF PagesArrive, LA!NoPages, LA!PagesArrive
  <2>7. CASE ReturnPages
    BY <2>7 DEF ReturnPages, LA!ReturnPages
  <2>8. QED
    BY <1>1, <2>3, <2>4, <2>5, <2>6, <2>7 DEF Next, Step
<1>2. IndInv /\ IndInv' /\ [Next]_vars =>
        [~misfreed' => LA!Heap!Next \/ UNCHANGED live]_vars
  BY <1>1
<1>3. QED
  BY <1>2, SpecIndInv, PTL DEF Spec, KeepsPromise

\* As long as free_page has cleared no bit, what liballoc_free is told to take
\* back is what liballoc_alloc gave: the
\* number of pages, which free works out anew from the size of the melted tag,
\* is that of the block which begins there.
THEOREM SpecTakesBackWhole ==
  Spec => [][ReturnPages /\ ~misfreed =>
               \E i \in DOMAIN blocks :
                 /\ blocks[i].ptr * PageSize = heap_op.t
                 /\ blocks[i].n = LA!ReturnedPages(heap_op.t)
                 /\ PG!FreeCall(i)]_vars
<1>1. ASSUME IndInv, ReturnPages, ~misfreed
      PROVE  \E i \in DOMAIN blocks :
               /\ blocks[i].ptr * PageSize = heap_op.t
               /\ blocks[i].n = LA!ReturnedPages(heap_op.t)
               /\ PG!FreeCall(i)
  <2>1. PICK i \in DOMAIN blocks : blocks[i].ptr * PageSize = heap_op.t /\ PG!FreeCall(i)
    BY <1>1 DEF ReturnPages
  <2>2. HeapSound /\ LP!ReturnPages
    BY <1>1, SameMelts DEF IndInv, ReturnPages
  <2>3. pages[heap_op.t] = LP!ReturnedPages(heap_op.t)
    BY <2>2, HeapFacts, LP!WholeReturned DEF HeapSound
  <2>4. LP!ReturnedPages(heap_op.t) = LA!ReturnedPages(heap_op.t)
    BY DEF LP!ReturnedPages, LA!ReturnedPages
  <2>5. pages[heap_op.t] = blocks[i].n
    BY <2>1, <2>2 DEF HeapSound, Agree
  <2>6. QED
    BY <2>1, <2>3, <2>4, <2>5
<1>2. IndInv /\ [Next]_vars =>
        [ReturnPages /\ ~misfreed =>
           \E i \in DOMAIN blocks :
             /\ blocks[i].ptr * PageSize = heap_op.t
             /\ blocks[i].n = LA!ReturnedPages(heap_op.t)
             /\ PG!FreeCall(i)]_vars
  BY <1>1
<1>3. QED
  BY <1>2, SpecIndInv, PTL DEF Spec

-----------------------------------------------------------------------------
(* The memory of the machine that the callers hold.                        *)

\* The bytes of memory behind an allocation and its header: byte a of the
\* address space is in the frame that its page is mapped to.
MemoryOf(t) ==
  {PG!get_physical_address(a \div PageSize) * PageSize + (a % PageSize) :
     a \in {x \in t .. t + TAG + live[t] - 1 :
              PG!get_physical_address(x \div PageSize) # PG!NotPresent}}

LEMMA ByteOf ==
  ASSUME NEW x \in Int
  PROVE  /\ x \div PageSize \in Int /\ x % PageSize \in 0 .. PageSize - 1
         /\ x = PageSize * (x \div PageSize) + (x % PageSize)
<1>1. PageSize \in Nat \ {0}
  BY Pages
<1>2. QED
  BY <1>1

\* Two addresses of a byte of memory are in the same frame.
LEMMA SameByte ==
  ASSUME NEW f \in Int, NEW g \in Int,
         NEW r \in 0 .. PageSize - 1, NEW s \in 0 .. PageSize - 1,
         f * PageSize + r = g * PageSize + s
  PROVE  f = g /\ r = s
<1>1. PageSize \in Nat \ {0}
  BY Pages
<1>2. f + 1 <= g => (f + 1) * PageSize <= g * PageSize
  BY <1>1
<1>3. g + 1 <= f => (g + 1) * PageSize <= f * PageSize
  BY <1>1
<1>4. /\ (f + 1) * PageSize = f * PageSize + PageSize
      /\ (g + 1) * PageSize = g * PageSize + PageSize
      /\ f * PageSize \in Int /\ g * PageSize \in Int
  BY <1>1
<1>5. f = g
  BY <1>1, <1>2, <1>3, <1>4
<1>6. QED
  BY <1>1, <1>4, <1>5

\* What is mapped of an allocation is mapped by a free page table, to a frame
\* of the free region.
LEMMA MappedByte ==
  ASSUME PP!IndInv, PP!HeldInv, ~misfreed, HeapSound, NEW t \in DOMAIN live,
         NEW a \in t .. t + TAG + live[t] - 1,
         PG!get_physical_address(a \div PageSize) # PG!NotPresent
  PROVE  /\ a \in Int /\ a \div PageSize \in PP!Mapped
         /\ PP!get_physical_address(a \div PageSize) \in Int
         /\ PP!get_physical_address(a \div PageSize) >= KernelEnd
<1>1. /\ t \in DOMAIN tag /\ t \in Int /\ t > 0 /\ tag[t].real_size \in Int
      /\ live[t] + TAG <= tag[t].real_size /\ live[t] \in Sizes
  BY HeldTags DEF HeapSound
<1>2. live[t] \in Nat
  <2>1. UINT \in Nat
    BY HeapFacts, LP!Widths
  <2>2. live[t] \in 0 .. UINT - 1
    BY <1>1, HeapFacts
  <2>3. QED
    BY <2>1, <2>2
<1>3. a \in Nat /\ t <= a /\ a < t + tag[t].real_size
  BY <1>1, <1>2, Pages
<1>4. PICK b \in DOMAIN pages :
        b <= t /\ t + tag[t].real_size <= b + pages[b] * PageSize
  BY <1>1 DEF HeapSound, LP!IndInv, LP!Tiled, LP!Apart, LP!Extent
<1>5. PICK i \in DOMAIN blocks : blocks[i].ptr * PageSize = b /\ pages[b] = blocks[i].n
  BY DEF HeapSound, Agree
<1> DEFINE p == blocks[i].ptr
           n == blocks[i].n
           v == a \div PageSize
<1>6. p \in Nat /\ p < Words * 32 /\ n \in 1 .. Entries
  BY BlockPages
<1>7. v \in Nat
  BY <1>3, Pages
<1> HIDE DEF p, n
<1>8. a < (p + n) * PageSize
  <2>1. (p + n) * PageSize = p * PageSize + n * PageSize
        /\ p * PageSize \in Int /\ n * PageSize \in Int
    BY <1>6, SizesAssumption, Pages
  <2>2. QED
    BY <1>1, <1>3, <1>4, <1>5, <2>1 DEF p, n
<1>9. v < p + n
  <2>1. a \in Int /\ p + n \in Int /\ (p + n) * PageSize \in Int
    BY <1>3, <1>6, SizesAssumption, Pages
  <2>2. QED
    BY <1>7, <1>8, <2>1, PageOf
<1> HIDE DEF v
<1>10. PP!pd_index(v) \in 0 .. Tables
  <2>1. v < (Tables + 1) * Entries /\ Tables + 1 \in Nat
    BY <1>6, <1>7, <1>9, SizesAssumption
  <2>2. PP!pd_index(v) < Tables + 1
    BY <1>7, <2>1, PagingFacts, PP!PageSlot
  <2>3. PP!pd_index(v) \in Nat
    BY <1>7, PagingFacts, PP!PageSplit
  <2>4. QED
    BY <2>2, <2>3, SizesAssumption
<1>11. PP!get_physical_address(v) # PP!NotPresent
  BY SamePages DEF v, PG!NotPresent, PP!NotPresent
<1>12. PP!pd_index(v) < Tables
  BY <1>7, <1>10, <1>11, PagingFacts, PP!Walk DEF PP!IndInv
<1>13. v \in PP!VPage
  <2>1. /\ PP!pt_index(v) \in 0 .. Entries - 1 /\ PP!pd_index(v) \in Nat
        /\ v = PP!pd_index(v) * Entries + PP!pt_index(v)
    BY <1>7, PagingFacts, PP!PageSplit
  <2>2. (PP!pd_index(v) + 1) * Entries <= Tables * Entries
    BY <1>12, <2>1, SizesAssumption
  <2>3. (PP!pd_index(v) + 1) * Entries = PP!pd_index(v) * Entries + Entries
        /\ PP!pd_index(v) * Entries \in Nat /\ Tables * Entries \in Nat
    BY <2>1, SizesAssumption
  <2>4. QED
    BY <1>7, <2>1, <2>2, <2>3, SizesAssumption DEF PP!VPage
<1>14. v \in PP!Mapped
  BY <1>11, <1>13 DEF PP!Mapped
<1>15. PP!FrameSafety
  BY PagingFacts, PP!FrameSafetyOf
<1>16. FreeBase \in Int /\ mmap_free_memory_length \in Int
  <2>1. mmap_free_memory_length \in FreeLengths
    BY DEF PP!IndInv, PP!TypeOK
  <2>2. QED
    BY <2>1, PagingFacts
<1>17. PP!get_physical_address(v) \in Int /\ PP!get_physical_address(v) >= KernelEnd
  BY <1>14, <1>15, <1>16 DEF PP!FrameSafety
<1>18. QED
  BY <1>3, <1>14, <1>17 DEF v

\* Until free_page clears a bit, of whatever page, no byte of memory is
\* behind two allocations, whatever is allocated, grown and freed: what melting,
\* splitting, mapping and the scan of the bitmap do together keeps the bytes of
\* one caller from another, and from the kernel.
THEOREM SpecMemoryApart ==
  Spec => [](~misfreed =>
               /\ \A t, u \in DOMAIN live : t # u => MemoryOf(t) \cap MemoryOf(u) = {}
               /\ \A t \in DOMAIN live : \A m \in MemoryOf(t) : m >= KernelEnd * PageSize)
<1> DEFINE Apart ==
             /\ \A t, u \in DOMAIN live : t # u => MemoryOf(t) \cap MemoryOf(u) = {}
             /\ \A t \in DOMAIN live : \A m \in MemoryOf(t) : m >= KernelEnd * PageSize
<1>1. ASSUME IndInv, ~misfreed
      PROVE  Apart
  <2>1. PP!IndInv /\ PP!HeldInv /\ HeapSound
    BY <1>1 DEF IndInv
  <2>2. ASSUME NEW t \in DOMAIN live, NEW m \in MemoryOf(t)
        PROVE  \E a \in t .. t + TAG + live[t] - 1 :
                 /\ a \in Int /\ a \div PageSize \in PP!Mapped
                 /\ PP!get_physical_address(a \div PageSize) \in Int
                 /\ PP!get_physical_address(a \div PageSize) >= KernelEnd
                 /\ m = PP!get_physical_address(a \div PageSize) * PageSize + (a % PageSize)
    <3>1. PICK a \in t .. t + TAG + live[t] - 1 :
            /\ PG!get_physical_address(a \div PageSize) # PG!NotPresent
            /\ m = PG!get_physical_address(a \div PageSize) * PageSize + (a % PageSize)
      BY <2>2 DEF MemoryOf
    <3>2. m = PP!get_physical_address(a \div PageSize) * PageSize + (a % PageSize)
      BY <3>1, SamePages
    <3>3. QED
      BY <1>1, <2>1, <3>1, <3>2, MappedByte
  <2>3. ASSUME NEW t \in DOMAIN live, NEW m \in MemoryOf(t)
        PROVE  m >= KernelEnd * PageSize
    <3>1. PICK a \in Int :
            /\ PP!get_physical_address(a \div PageSize) \in Int
            /\ PP!get_physical_address(a \div PageSize) >= KernelEnd
            /\ m = PP!get_physical_address(a \div PageSize) * PageSize + (a % PageSize)
      BY <2>2
    <3> DEFINE f == PP!get_physical_address(a \div PageSize)
    <3>2. a % PageSize \in 0 .. PageSize - 1
      BY ByteOf
    <3> HIDE DEF f
    <3>3. f \in Int /\ f >= KernelEnd /\ m = f * PageSize + (a % PageSize)
      BY <3>1 DEF f
    <3>4. f * PageSize >= KernelEnd * PageSize
      BY <3>3, Pages, PagingFacts
    <3>5. f * PageSize \in Int /\ KernelEnd * PageSize \in Int
      BY <3>3, Pages, PagingFacts
    <3>6. QED
      BY <3>2, <3>3, <3>4, <3>5, Pages
  <2>4. DOMAIN live \subseteq Int
    BY <2>1, HeldTags DEF HeapSound
  <2>5. ASSUME NEW t \in DOMAIN live, NEW u \in DOMAIN live, t < u,
               NEW m \in MemoryOf(t), m \in MemoryOf(u)
        PROVE  FALSE
    <3>1. PICK a \in t .. t + TAG + live[t] - 1 :
            /\ a \in Int /\ a \div PageSize \in PP!Mapped
            /\ PP!get_physical_address(a \div PageSize) \in Int
            /\ m = PP!get_physical_address(a \div PageSize) * PageSize + (a % PageSize)
      BY <2>2
    <3>2. PICK c \in u .. u + TAG + live[u] - 1 :
            /\ c \in Int /\ c \div PageSize \in PP!Mapped
            /\ PP!get_physical_address(c \div PageSize) \in Int
            /\ m = PP!get_physical_address(c \div PageSize) * PageSize + (c % PageSize)
      BY <2>2, <2>5
    <3>3. /\ PP!get_physical_address(a \div PageSize)
               = PP!get_physical_address(c \div PageSize)
          /\ a % PageSize = c % PageSize
      BY <3>1, <3>2, ByteOf, SameByte
    <3>4. a \div PageSize = c \div PageSize
      BY <2>1, <3>1, <3>2, <3>3, PagingFacts, PP!FrameSafetyOf DEF PP!FrameSafety
    <3>5. a = c
      BY <3>1, <3>2, <3>3, <3>4, ByteOf
    <3>6. t + tag[t].real_size <= u
      BY <2>1, <2>5, HeldTags DEF HeapSound, LP!IndInv, LP!Tiled, LP!Apart
    <3>7. /\ t \in Int /\ u \in Int /\ tag[t].real_size \in Int
          /\ live[t] + TAG <= tag[t].real_size /\ live[t] \in Nat
      <4>1. UINT \in Nat
        BY HeapFacts, LP!Widths
      <4>2. live[t] \in 0 .. UINT - 1
        BY <2>1, HeldTags, HeapFacts DEF HeapSound
      <4>3. QED
        BY <2>1, <2>4, <4>1, <4>2, HeldTags DEF HeapSound
    <3>8. a \in Int /\ a <= t + TAG + live[t] - 1 /\ u <= a
      BY <3>1, <3>2, <3>5
    <3>9. QED
      BY <3>6, <3>7, <3>8, Pages
  <2>6. QED
    BY <2>3, <2>4, <2>5
<1>2. IndInv => (~misfreed => Apart)
  BY <1>1
<1>3. QED
  BY <1>2, SpecIndInv, PTL
=============================================================================
