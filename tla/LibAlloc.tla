------------------------------ MODULE LibAlloc ------------------------------
(***************************************************************************)
(* The kernel heap of libc/src/liballoc/liballoc.c: blocks of whole pages, *)
(* split into chained pieces that each begin with a boundary_tag, and the  *)
(* free pieces kept in doubly linked lists by the exponent of their size.  *)
(*                                                                         *)
(* malloc, free, calloc and realloc are split at their loops and at the    *)
(* calls that leave the file (liballoc_alloc and liballoc_free); the lock  *)
(* disables interrupts, so one call runs at a time.  Addresses and sizes   *)
(* are bytes and wrap at UINT, the range of an unsigned int.               *)
(*                                                                         *)
(* Callers hand back only what they were given, so the magic word, which   *)
(* is never cleared, always matches and is left out.                       *)
(***************************************************************************)
EXTENDS Integers, FiniteSets

CONSTANTS
  UINT,         \* 2^32 in the kernel
  TAG,          \* sizeof(struct boundary_tag), 32
  MINEXP,       \* 8
  MAXEXP,       \* 32; 2^MAXEXP = UINT
  MAXCOMPLETE,  \* 5, whole blocks kept in one list
  PageSize,     \* l_pageSize, 4096
  PageCount,    \* l_pageCount, 16
  ArenaPages,   \* bound: pages liballoc_alloc can hand out
  Sizes,        \* sizes the callers ask for
  MaxLive       \* bound: allocations held at once

ASSUME WidthAssumption ==
  /\ MINEXP \in Nat /\ MAXEXP \in Nat /\ MINEXP < MAXEXP /\ UINT = 2^MAXEXP
  /\ TAG \in Nat \ {0} /\ MAXCOMPLETE \in Nat /\ MaxLive \in Nat
  /\ PageSize \in Nat \ {0} /\ PageCount \in Nat \ {0} /\ ArenaPages \in Nat
  /\ 2 * TAG <= PageSize /\ (ArenaPages + 1) * PageSize < UINT
ASSUME RequestAssumption == Sizes \subseteq 0 .. UINT - 1

NULL  == 0
Index == MINEXP .. MAXEXP - 1

Unsigned(x) == x % UINT

Signed(x) == IF x < UINT \div 2 THEN x ELSE x - UINT

VARIABLES
  tag,              \* address -> struct boundary_tag, without magic
  l_freePages,      \* exponent -> first free tag, or NULL
  l_completePages,  \* exponent -> whole blocks in that list
  pages,            \* base address -> pages liballoc_alloc handed out
  op,               \* the call in progress
  live              \* history: tag -> bytes, for what the callers hold

vars == <<tag, l_freePages, l_completePages, pages, op, live>>

Idle == [pc |-> "idle", fn |-> "none", size |-> 0, t |-> NULL, old |-> NULL]

\* A struct boundary_tag that has just been filled in.
FreshTag(size, real_size, left, right) ==
  [size |-> size, real_size |-> real_size, index |-> -1, split_left |-> left,
   split_right |-> right, next |-> NULL, prev |-> NULL]

-----------------------------------------------------------------------------
(* Exponents and lists.                                                    *)

getexp(size) ==
  IF size < 2^MINEXP THEN -1
  ELSE CHOOSE n \in Index : 2^n <= size /\ size < 2^(n + 1)

ListIndex(size) == IF getexp(size) < MINEXP THEN MINEXP ELSE getexp(size)

\* Mutant: the loop does not go on to the next tag.
ListWalk_stuck(i) == [n \in 0 .. Cardinality(DOMAIN tag) |-> l_freePages[i]]

\* The tags of list i in the order of its next links, then NULL.
ListWalk(i) ==
  LET walk[n \in 0 .. Cardinality(DOMAIN tag)] ==
        IF n = 0 THEN l_freePages[i]
        ELSE IF walk[n - 1] = NULL THEN NULL ELSE tag[walk[n - 1]].next
  IN  walk

\* Mutant: a tag that holds the bytes but not its header will do.
BigEnough_no_header(t, size) == tag[t].real_size >= size

BigEnough(t, size) ==
  Unsigned(tag[t].real_size - TAG) >= Unsigned(size + TAG)

\* t is the first tag of list i that is big enough; NULL when there is none.
FirstFit(i, size, t) ==
  LET walk == ListWalk(i)
      Ends(n) == walk[n] # NULL => BigEnough(walk[n], size)
  IN  \E n \in DOMAIN walk :
        walk[n] = t /\ Ends(n) /\ \A m \in 0 .. n - 1 : ~Ends(m)

Whole(t) == tag[t].split_left = NULL /\ tag[t].split_right = NULL

-----------------------------------------------------------------------------
(* The helpers on tags: each is the function tag, or the array of list     *)
(* heads, that the helper leaves.                                          *)

\* Mutant: remove_tag leaves the links of the removed tag as they were.
Unlinked_stale_links(t) ==
  [a \in DOMAIN tag |->
     [tag[a] EXCEPT
        !.next  = IF a = tag[t].prev THEN tag[t].next ELSE @,
        !.prev  = IF a = tag[t].next THEN tag[t].prev ELSE @,
        !.index = IF a = t THEN -1 ELSE @]]

\* remove_tag: t leaves its list.
Unlinked(t) ==
  [a \in DOMAIN tag |->
     [tag[a] EXCEPT
        !.next  = IF a = t THEN NULL
                  ELSE IF a = tag[t].prev THEN tag[t].next ELSE @,
        !.prev  = IF a = t THEN NULL
                  ELSE IF a = tag[t].next THEN tag[t].prev ELSE @,
        !.index = IF a = t THEN -1 ELSE @]]

HeadsWithout(t) ==
  [l_freePages EXCEPT
     ![tag[t].index] = IF @ = t THEN tag[t].next ELSE @]

\* insert_tag into list i of the tags in T: the links of t are only written
\* when the list is not empty.
Linked(T, t, i) ==
  [a \in DOMAIN T |->
     [T[a] EXCEPT
        !.index = IF a = t THEN i ELSE @,
        !.next  = IF a = t /\ l_freePages[i] # NULL THEN l_freePages[i] ELSE @,
        !.prev  = IF a = l_freePages[i] THEN t ELSE @]]

\* Mutant: the tag right of the pair keeps its old left neighbour.
Melted_one_way(T, l, r) ==
  [a \in DOMAIN T \ {r} |->
     [T[a] EXCEPT
        !.real_size   = IF a = l THEN @ + T[r].real_size ELSE @,
        !.split_right = IF a = l THEN T[r].split_right ELSE @]]

\* melt_left and absorb_right: l takes the space of r, its right neighbour.
Melted(T, l, r) ==
  [a \in DOMAIN T \ {r} |->
     [T[a] EXCEPT
        !.real_size   = IF a = l THEN @ + T[r].real_size ELSE @,
        !.split_right = IF a = l THEN T[r].split_right ELSE @,
        !.split_left  = IF a = T[r].split_right THEN l ELSE @]]

\* Mutant: the new tag starts where the caller's bytes should end, without
\* room for the header of the tag that is split.
SplitAt_no_header(t, size) == t + size

SplitAt(t, size) == Unsigned(t + TAG + size)

\* split_tag: the space of t past its size bytes becomes a tag of its own.
Split(t, size) ==
  LET new  == SplitAt(t, size)
      rest == Unsigned(tag[t].real_size - TAG - size)
      T    == [a \in DOMAIN tag \cup {new} |->
                 IF a = new
                 THEN FreshTag(0, rest, t, tag[t].split_right)
                 ELSE IF a = t
                 THEN [tag[t] EXCEPT !.size = size, !.split_right = new,
                                     !.real_size = Unsigned(@ - rest)]
                 ELSE [tag[a] EXCEPT
                         !.split_left = IF a = tag[t].split_right THEN new
                                        ELSE @]]
  IN  Linked(T, new, ListIndex(Unsigned(rest - TAG)))

-----------------------------------------------------------------------------
Init ==
  /\ tag = [a \in {} |-> NULL]
  /\ l_freePages = [i \in Index |-> NULL]
  /\ l_completePages = [i \in Index |-> 0]
  /\ pages = [b \in {} |-> 0]
  /\ op = Idle
  /\ live = [t \in {} |-> 0]

At(pc) == op.pc = pc

-----------------------------------------------------------------------------
(* malloc, and the first half of calloc and realloc.                       *)

\* realloc copies from a block the caller holds; realloc(p, 0) is free(p) and
\* realloc(NULL, size) is malloc(size).
Call(fn, size, old) ==
  /\ At("idle") /\ Cardinality(DOMAIN live) < MaxLive
  /\ fn = "realloc" <=> old # NULL
  /\ fn = "realloc" => size > 0
  /\ op' = [pc |-> "search", fn |-> fn, size |-> size, t |-> NULL, old |-> old]
  /\ UNCHANGED <<tag, l_freePages, l_completePages, pages, live>>

\* Mutant: a block of which a part is taken still counts as whole.
Taken_still_counted(i, t) == l_completePages

Taken(i, t) == [l_completePages EXCEPT ![i] = IF Whole(t) THEN @ - 1 ELSE @]

\* Only the list of the exponent of size is searched.
SearchFound ==
  /\ At("search")
  /\ LET i == ListIndex(op.size)
     IN  \E t \in DOMAIN tag :
           /\ FirstFit(i, op.size, t)
           /\ tag' = Unlinked(t)
           /\ l_freePages' = HeadsWithout(t)
           /\ l_completePages' = Taken(i, t)
           /\ op' = [op EXCEPT !.pc = "carve", !.t = t]
  /\ UNCHANGED <<pages, live>>

\* Mutant: room for the bytes, and none for their header.
PagesFor_no_header(size) ==
  LET n == (size + PageSize - 1) \div PageSize
  IN  IF n < PageCount THEN PageCount ELSE n

PagesFor(size) ==
  LET usage == Unsigned(size + TAG)
      n     == (usage + PageSize - 1) \div PageSize
  IN  IF n < PageCount THEN PageCount ELSE n

SearchFailed ==
  /\ At("search") /\ FirstFit(ListIndex(op.size), op.size, NULL)
  /\ op' = [op EXCEPT !.pc = "pages"]
  /\ UNCHANGED <<tag, l_freePages, l_completePages, pages, live>>

\* liballoc_alloc(n): the first n free pages in a row, from page 1 on.
RoomAt(b, n) ==
  /\ b + n <= ArenaPages + 1
  /\ \A c \in DOMAIN pages :
       b * PageSize >= c + pages[c] * PageSize \/ (b + n) * PageSize <= c

liballoc_alloc(b, n) == RoomAt(b, n) /\ \A c \in 1 .. b - 1 : ~RoomAt(c, n)

\* allocate_new_tag, given page b and those after it.
PagesArrive(b) ==
  /\ At("pages")
  /\ LET n    == PagesFor(op.size)
         base == b * PageSize
     IN  /\ pages' = [c \in DOMAIN pages \cup {base} |->
                        IF c = base THEN n ELSE pages[c]]
         /\ tag' = [a \in DOMAIN tag \cup {base} |->
                      IF a # base THEN tag[a]
                      ELSE FreshTag(op.size, Unsigned(n * PageSize), NULL, NULL)]
         /\ op' = [op EXCEPT !.pc = "carve", !.t = base]
  /\ UNCHANGED <<l_freePages, l_completePages, live>>

PagesFound ==
  \E b \in 1 .. ArenaPages : liballoc_alloc(b, PagesFor(op.size)) /\ PagesArrive(b)

\* No pages: malloc returns NULL, but calloc clears and realloc copies its
\* bytes at the null page, which is never mapped.
NoPages ==
  /\ At("pages")
  /\ LET bytes == CASE op.fn = "malloc"  -> 0
                    [] op.fn = "calloc"  -> op.size
                    [] op.fn = "realloc" -> tag[op.old].size
     IN  op' = IF bytes > 0 THEN [op EXCEPT !.pc = "fault"]
               ELSE IF op.fn = "realloc" THEN [op EXCEPT !.pc = "free"]
               ELSE Idle
  /\ UNCHANGED <<tag, l_freePages, l_completePages, pages, live>>

PagesRefused ==
  (\A b \in 1 .. ArenaPages : ~liballoc_alloc(b, PagesFor(op.size))) /\ NoPages

\* The size and the header together wrap: the tag that is split off lies over
\* the header of the tag it comes from, and nothing is modelled after that.
CarveHeader ==
  /\ At("carve") /\ SplitAt(op.t, op.size) - op.t \in 0 .. TAG - 1
  /\ op' = [op EXCEPT !.pc = "corrupt"]
  /\ UNCHANGED <<tag, l_freePages, l_completePages, pages, live>>

\* The excess of the tag is split off when it can hold a tag and 2^MINEXP
\* bytes; the tag is the caller's, and realloc goes on to free the old one.
Carve ==
  /\ At("carve") /\ SplitAt(op.t, op.size) - op.t \notin 0 .. TAG - 1
  /\ LET rest  == Unsigned(tag[op.t].real_size - op.size - 2 * TAG)
         new   == SplitAt(op.t, op.size)
         index == ListIndex(Unsigned(tag[op.t].real_size - op.size - 2 * TAG))
     IN  IF Signed(rest) > 0 /\ getexp(rest) >= 0
         THEN /\ tag' = Split(op.t, op.size)
              /\ l_freePages' = [l_freePages EXCEPT ![index] = new]
         ELSE /\ tag' = [tag EXCEPT ![op.t].size = op.size]
              /\ UNCHANGED l_freePages
  /\ live' = [t \in DOMAIN live \cup {op.t} |->
                IF t = op.t THEN op.size ELSE live[t]]
  /\ op' = IF op.fn = "realloc" THEN [op EXCEPT !.pc = "free"] ELSE Idle
  /\ UNCHANGED <<l_completePages, pages>>

-----------------------------------------------------------------------------
(* free.                                                                   *)

Surrender(t) ==
  /\ live' = [u \in DOMAIN live \ {t} |-> live[u]]
  /\ op' = [pc |-> "melt", fn |-> "free", size |-> 0, t |-> t, old |-> NULL]
  /\ UNCHANGED <<tag, l_freePages, l_completePages, pages>>

FreeCall(t)  == At("idle") /\ Surrender(t)
ReallocFree  == At("free") /\ Surrender(op.old)

\* Mutant: only the left neighbour is looked at.
RightIsFree_never(t) == FALSE

LeftIsFree(t) ==
  tag[t].split_left # NULL /\ tag[tag[t].split_left].index >= 0
RightIsFree(t) ==
  tag[t].split_right # NULL /\ tag[tag[t].split_right].index >= 0

MeltLeft ==
  /\ At("melt") /\ LeftIsFree(op.t)
  /\ LET left == tag[op.t].split_left
     IN  /\ tag' = Melted(Unlinked(left), left, op.t)
         /\ l_freePages' = HeadsWithout(left)
         /\ op' = [op EXCEPT !.t = left]
  /\ UNCHANGED <<l_completePages, pages, live>>

AbsorbRight ==
  /\ At("melt") /\ ~LeftIsFree(op.t) /\ RightIsFree(op.t)
  /\ LET right == tag[op.t].split_right
     IN  /\ tag' = Melted(Unlinked(right), op.t, right)
         /\ l_freePages' = HeadsWithout(right)
  /\ UNCHANGED <<l_completePages, pages, op, live>>

\* Mutant: the header counts as free space.
FreeIndex_with_header == ListIndex(tag[op.t].real_size)

FreeIndex == ListIndex(tag[op.t].real_size - TAG)

\* Mutant: a part of a block is returned too.
Surplus_of_parts == l_completePages[FreeIndex] = MAXCOMPLETE

Surplus == Whole(op.t) /\ l_completePages[FreeIndex] = MAXCOMPLETE

InsertFree ==
  /\ At("melt") /\ ~LeftIsFree(op.t) /\ ~RightIsFree(op.t) /\ ~Surplus
  /\ l_completePages' =
       [l_completePages EXCEPT ![FreeIndex] = IF Whole(op.t) THEN @ + 1 ELSE @]
  /\ tag' = Linked(tag, op.t, FreeIndex)
  /\ l_freePages' = [l_freePages EXCEPT ![FreeIndex] = op.t]
  /\ op' = Idle
  /\ UNCHANGED <<pages, live>>

\* The pages that liballoc_free is told to take back.
ReturnedPages(t) ==
  LET n == (tag[t].real_size + PageSize - 1) \div PageSize
  IN  IF n < PageCount THEN PageCount ELSE n

ReturnPages ==
  /\ At("melt") /\ ~LeftIsFree(op.t) /\ ~RightIsFree(op.t) /\ Surplus
  /\ tag' = [a \in DOMAIN tag \ {op.t} |-> tag[a]]
  /\ pages' = [b \in DOMAIN pages \ {op.t} |-> pages[b]]
  /\ op' = Idle
  /\ UNCHANGED <<l_freePages, l_completePages, live>>

-----------------------------------------------------------------------------
Next ==
  \/ \E size \in Sizes :
       \/ Call("malloc", size, NULL)
       \/ Call("calloc", size, NULL)
       \/ \E old \in DOMAIN live : Call("realloc", size, old)
  \/ SearchFound
  \/ SearchFailed
  \/ PagesFound
  \/ PagesRefused
  \/ CarveHeader
  \/ Carve
  \/ \E t \in DOMAIN live : FreeCall(t)
  \/ ReallocFree
  \/ MeltLeft
  \/ AbsorbRight
  \/ InsertFree
  \/ ReturnPages

Spec == Init /\ [][Next]_vars

\* Interrupts are off inside a call, so its steps follow one another.
Step == SearchFound \/ SearchFailed \/ PagesFound \/ PagesRefused
        \/ CarveHeader \/ Carve \/ ReallocFree \/ MeltLeft \/ AbsorbRight \/ InsertFree \/ ReturnPages

FairSpec == Spec /\ WF_vars(Step)

-----------------------------------------------------------------------------
(* Properties.                                                             *)

FreeTags == {t \in DOMAIN tag : tag[t].index >= 0}
\* The tag a call has taken off its list or back from its holder.
InTransit == IF op.pc \in {"carve", "melt", "corrupt"} THEN {op.t} ELSE {}

\* Every list is a doubly linked list of exactly the tags with its index, which
\* is that of the list a search for their bytes looks at; and a tag on no list
\* has no links: insert_tag and the first remove_tag rely on it, for insert_tag
\* does not clear what it does not set.
ListsSound ==
  /\ \A i \in Index :
       LET members == {t \in FreeTags : tag[t].index = i}
           walk    == ListWalk(i)
       IN  /\ {walk[n] : n \in DOMAIN walk} \ {NULL} = members
           /\ l_freePages[i] # NULL => tag[l_freePages[i]].prev = NULL
           /\ \A t \in members :
                tag[t].next # NULL => tag[tag[t].next].prev = t
  /\ \A t \in FreeTags : tag[t].index = ListIndex(tag[t].real_size - TAG)
  /\ \A t \in DOMAIN tag \ FreeTags : tag[t].next = NULL /\ tag[t].prev = NULL

\* The tags of a block tile it: each ends where its right neighbour begins,
\* the neighbours agree, and the first and the last end at the block's bounds;
\* and free leaves no two free neighbours, so that what has been freed can be
\* used again as one piece.
BlocksTiled ==
  /\ {t \in DOMAIN tag : tag[t].split_left = NULL} = DOMAIN pages
  /\ \A t \in DOMAIN tag :
       LET r == tag[t].split_right
       IN  IF r = NULL
           THEN \E b \in DOMAIN pages :
                  b <= t /\ t + tag[t].real_size = b + pages[b] * PageSize
           ELSE t + tag[t].real_size = r /\ tag[r].split_left = t
  /\ \A t \in DOMAIN tag :
       LET l == tag[t].split_left
       IN  l # NULL => tag[l].split_right = t
  /\ \A t \in FreeTags :
       tag[t].split_right # NULL => tag[t].split_right \notin FreeTags

\* l_completePages counts the whole blocks of its list, and never more than
\* MAXCOMPLETE are kept.
CompleteCounted ==
  \A i \in Index :
    /\ l_completePages[i] =
         Cardinality({t \in FreeTags : tag[t].index = i /\ Whole(t)})
    /\ l_completePages[i] <= MAXCOMPLETE

\* The tags on no list are exactly what the callers hold, none is lost, and
\* each holds the bytes that were asked for and its header (liballoc.c:242:
\* "This is how much space is required."); malloc only goes wrong on sizes
\* within a header of the largest unsigned int.
AllocationsFit ==
  /\ DOMAIN live = DOMAIN tag \ (FreeTags \cup InTransit)
  /\ \A t \in DOMAIN live :
       tag[t].size = live[t] /\ live[t] + TAG <= tag[t].real_size
  /\ op.pc = "corrupt" => op.size + TAG >= UINT

\* liballoc.h:60-64: liballoc_free is given a pointer liballoc_alloc returned,
\* with the number of pages it was asked for.
PagesReturnedWhole ==
  [][ReturnPages =>
       op.t \in DOMAIN pages /\ pages[op.t] = ReturnedPages(op.t)]_vars

\* To its callers the heap is an abstract heap: what it allocates overlaps
\* nothing that is held, and it frees only what it is told to free.
Heap == INSTANCE AbstractHeap WITH
          Memory   <- (ArenaPages + 1) * PageSize - 1,
          Header   <- TAG,
          Requests <- Sizes,
          held     <- [p \in {t + TAG : t \in DOMAIN live} |-> live[p - TAG]]

ImplementsHeap == Heap!Spec

\* Every call returns or faults: the search ends, and melting ends because
\* each round takes a tag away.
CallsReturn ==
  op.pc = "search" \/ op.pc = "melt" ~> op.pc \in {"idle", "fault", "corrupt"}

\* pci.c:59-61 takes NULL from realloc for the end of the memory: realloc
\* returns it, and does not fault.
ReallocReturnsNull == ~(op.pc = "fault" /\ op.fn = "realloc")
=============================================================================
