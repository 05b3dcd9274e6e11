--------------------------- MODULE LibAllocProofs ---------------------------
(***************************************************************************)
(* Proofs about the kernel heap (LibAlloc): its lists, its tiling of the   *)
(* blocks, its counts, and that it implements AbstractHeap.  The invariant *)
(* speaks of a function T from addresses to tags, of the heads F of the    *)
(* lists, of the counts C and of the bytes E of the blocks, because an     *)
(* action of the model is often two steps on the tags.                     *)
(***************************************************************************)
EXTENDS LibAlloc, FiniteSetTheorems, TLAPS

-----------------------------------------------------------------------------
(* The inductive invariant.                                                *)

TagRecord == [size : Int, real_size : Int, index : Int, split_left : Int,
              split_right : Int, next : Int, prev : Int]

Tags(T) == T \in [DOMAIN T -> TagRecord]

Top == (ArenaPages + 1) * PageSize

\* The bytes of the blocks.
Extent == [b \in DOMAIN pages |-> pages[b] * PageSize]

\* The blocks lie apart below Top, and above the null page.
Blocks(E) ==
  /\ E \in [DOMAIN E -> Int]
  /\ \A b \in DOMAIN E : b \in Int /\ b > 0 /\ E[b] > 0 /\ b + E[b] <= Top
  /\ \A b, c \in DOMAIN E : b < c => b + E[b] <= c

\* The tags lie apart in the blocks, each with room for its header.
Apart(T, E) ==
  /\ \A a \in DOMAIN T : T[a].real_size >= TAG
  /\ \A a, b \in DOMAIN T : a < b => a + T[a].real_size <= b
  /\ \A a \in DOMAIN T : \E b \in DOMAIN E :
       b <= a /\ a + T[a].real_size <= b + E[b]

\* The tag right of a begins where a ends, and the last one of a block ends
\* where the block does.
Neighbours(T, E) ==
  /\ DOMAIN E \subseteq DOMAIN T
  /\ \A a \in DOMAIN T : T[a].split_left = NULL <=> a \in DOMAIN E
  /\ \A a \in DOMAIN T : T[a].split_right = NULL =>
       \E b \in DOMAIN E : b <= a /\ a + T[a].real_size = b + E[b]
  /\ \A a \in DOMAIN T : T[a].split_right # NULL =>
       /\ T[a].split_right \in DOMAIN T
       /\ a + T[a].real_size = T[a].split_right
       /\ T[T[a].split_right].split_left = a
  /\ \A a \in DOMAIN T : T[a].split_left # NULL =>
       /\ T[a].split_left \in DOMAIN T
       /\ T[T[a].split_left].split_right = a

Tiled(T, E) == DOMAIN T \subseteq Int /\ Blocks(E) /\ Apart(T, E) /\ Neighbours(T, E)

\* s lists the L tags of list i in the order of both links.
IsList(T, F, i, L, s) ==
  /\ s \in [1 .. L -> DOMAIN T]
  /\ \A m, n \in 1 .. L : s[m] = s[n] => m = n
  /\ \A t \in DOMAIN T : T[t].index = i <=> \E n \in 1 .. L : s[n] = t
  /\ F[i] = IF L = 0 THEN NULL ELSE s[1]
  /\ \A n \in 1 .. L :
       /\ T[s[n]].next = IF n = L THEN NULL ELSE s[n + 1]
       /\ T[s[n]].prev = IF n = 1 THEN NULL ELSE s[n - 1]

\* A tag is on the list of its index, or it is on none and has no links.
Lists(T, F) ==
  /\ F \in [Index -> Int]
  /\ \A i \in Index : \E L \in Nat : \E s : IsList(T, F, i, L, s)
  /\ \A t \in DOMAIN T :
       \/ T[t].index \in Index
       \/ T[t].index = -1 /\ T[t].next = NULL /\ T[t].prev = NULL

\* A free tag is on the list for its bytes.
Sorted(T) ==
  \A t \in DOMAIN T : T[t].index # -1 => T[t].index = ListIndex(T[t].real_size - TAG)

\* Of two neighbours at most one is free.
Melded(T) ==
  \A t \in DOMAIN T : T[t].index # -1 /\ T[t].split_right # NULL =>
    T[T[t].split_right].index = -1

WholeIn(T, i) ==
  {t \in DOMAIN T : T[t].index = i /\ T[t].split_left = NULL /\ T[t].split_right = NULL}

Counted(T, C) ==
  /\ C \in [Index -> Int]
  /\ \A i \in Index : C[i] = Cardinality(WholeIn(T, i)) /\ C[i] <= MAXCOMPLETE

\* What the callers hold are the tags on no list, but for the one that a call
\* is at work on.
Owned ==
  /\ DOMAIN live = {t \in DOMAIN tag : tag[t].index = -1} \ InTransit
  /\ \A t \in DOMAIN live :
       /\ live[t] \in Sizes /\ tag[t].size = live[t]
       /\ live[t] + TAG <= tag[t].real_size

Calling == {"search", "pages", "carve"}

\* What a call relies on.  A tag that is about to be carved has room for the
\* bytes, unless their number and the header wrap, and has no free neighbour
\* on the right, for what is split off it is free.
Control ==
  /\ op \in [pc : Calling \cup {"idle", "free", "melt", "fault", "corrupt"},
             fn : {"none", "malloc", "calloc", "realloc", "free"},
             size : Sizes \cup {0}, t : Int, old : Int]
  /\ op.pc \in Calling => op.size \in Sizes
  /\ op.pc \in Calling /\ op.fn = "realloc" => op.old \in DOMAIN live
  /\ op.pc = "free" => op.old \in DOMAIN live
  /\ op.pc \in {"carve", "melt", "corrupt"} =>
       op.t \in DOMAIN tag /\ tag[op.t].index = -1
  /\ op.pc = "carve" =>
       /\ op.size + TAG < UINT => op.size + TAG <= tag[op.t].real_size
       /\ tag[op.t].split_right # NULL => tag[tag[op.t].split_right].index = -1
  /\ op.pc = "corrupt" => op.size + TAG >= UINT

BlocksGiven ==
  /\ pages \in [DOMAIN pages -> Nat]
  /\ \A b \in DOMAIN pages : pages[b] >= PageCount

IndInv ==
  /\ Tags(tag)
  /\ Tiled(tag, Extent)
  /\ Lists(tag, l_freePages)
  /\ Sorted(tag)
  /\ Melded(tag)
  /\ Counted(tag, l_completePages)
  /\ BlocksGiven
  /\ Owned
  /\ Control

-----------------------------------------------------------------------------
(* Arithmetic.                                                             *)

LEMMA Widths ==
  /\ UINT \in Nat /\ Top \in Nat /\ Top < UINT
  /\ TAG \in Nat /\ 0 < TAG /\ 2 * TAG <= PageSize /\ 2 * TAG < UINT
  /\ \A n \in Nat : 2^n \in Int
  /\ MINEXP \in Nat /\ MAXEXP \in Nat /\ MINEXP < MAXEXP /\ UINT = 2^MAXEXP
  /\ PageSize \in Nat \ {0} /\ PageCount \in Nat \ {0} /\ ArenaPages \in Nat
<1>1. ArenaPages + 1 \in Nat \ {0} /\ PageSize \in Nat \ {0}
  BY WidthAssumption
<1>2. \A m, n \in Nat \ {0} : m * n \in Nat /\ n <= m * n
  OBVIOUS
<1>3. Top \in Nat /\ PageSize <= Top
  BY <1>1, <1>2 DEF Top
<1>4. \A n \in Nat : 2^n \in Int
  OBVIOUS
<1>5. UINT \in Int /\ Top < UINT
  BY <1>4, WidthAssumption DEF Top
<1>6. QED
  BY <1>3, <1>4, <1>5, WidthAssumption

LEMMA Wrap ==
  ASSUME NEW x \in Int
  PROVE  /\ 0 <= x /\ x < UINT => Unsigned(x) = x
         /\ UINT <= x /\ x < 2 * UINT => Unsigned(x) = x - UINT
         /\ -UINT <= x /\ x < 0 => Unsigned(x) = x + UINT
         /\ Unsigned(x) \in 0 .. UINT - 1
<1>1. UINT \in Nat /\ UINT > 0
  BY Widths
<1>2. ASSUME 0 <= x, x < UINT
      PROVE  x % UINT = x
  BY <1>1, <1>2
<1>3. ASSUME UINT <= x, x < 2 * UINT
      PROVE  x % UINT = x - UINT
  BY <1>1, <1>3
<1>4. ASSUME -UINT <= x, x < 0
      PROVE  x % UINT = x + UINT
  BY <1>1, <1>4
<1>5. (x % UINT) \in 0 .. UINT - 1
  BY <1>1
<1>6. QED
  BY <1>2, <1>3, <1>4, <1>5 DEF Unsigned

\* Induction, for a set of numbers from one on.
LEMMA SetInduction ==
  ASSUME NEW S, NEW z \in Nat, z \in S, \A n \in Nat : z <= n /\ n \in S => n + 1 \in S
  PROVE  \A n \in Nat : z <= n => n \in S
<1> SUFFICES ASSUME NEW n \in Nat, z <= n, n \notin S
             PROVE  FALSE
  OBVIOUS
<1> DEFINE R == {x \in z .. n : x \in S}
           f == [x \in R |-> x + 1]
<1>1. IsFiniteSet(R) /\ z \in R
  <2>1. IsFiniteSet(z .. n)
    BY FS_Interval
  <2>2. QED
    BY <2>1, FS_Subset
<1>2. IsFiniteSet(R \ {z}) /\ Cardinality(R \ {z}) = Cardinality(R) - 1
      /\ Cardinality(R) \in Nat
  BY <1>1, FS_RemoveElement, FS_CardinalityType
<1>3. f \in [R -> R \ {z}]
  OBVIOUS
<1>4. \E x, y \in R : x # y /\ f[x] = f[y]
  <2> HIDE DEF R, f
  <2>1. Cardinality(R \ {z}) < Cardinality(R)
    BY <1>2
  <2>2. QED
    BY <1>1, <1>2, <1>3, <2>1, FS_PigeonHole
<1>5. QED
  BY <1>4

\* The exponent of a size is one of a list, whatever the powers of two are: they
\* only lead from 2^MINEXP to UINT.
LEMMA GetexpIndex ==
  ASSUME NEW size \in Int, 2^MINEXP <= size, size < UINT
  PROVE  getexp(size) \in Index
<1> DEFINE P(n) == 2^n
           Fits(n) == P(n) <= size /\ size < P(n + 1)
<1>1. /\ \A n \in Nat : P(n) \in Int
      /\ MINEXP \in Nat /\ MAXEXP \in Nat /\ MINEXP < MAXEXP
      /\ P(MAXEXP) = UINT /\ P(MINEXP) <= size
  BY Widths
<1>2. getexp(size) = CHOOSE n \in Index : Fits(n)
  <2>1. ~(size < P(MINEXP))
    BY <1>1
  <2>2. QED
    BY <2>1 DEF getexp
<1> HIDE DEF P
<1>3. \E n \in Index : Fits(n)
  <2> SUFFICES ASSUME \A n \in Index : ~Fits(n)
               PROVE  FALSE
    OBVIOUS
  <2> DEFINE S == {n \in Nat : n <= MAXEXP => P(n) <= size}
  <2>1. MINEXP \in S
    BY <1>1
  <2>2. \A n \in Nat : MINEXP <= n /\ n \in S => n + 1 \in S
    <3> SUFFICES ASSUME NEW n \in Nat, MINEXP <= n, n \in S, n + 1 <= MAXEXP
                 PROVE  P(n + 1) <= size
      OBVIOUS
    <3>1. n \in Index /\ P(n) <= size /\ P(n + 1) \in Int
      BY <1>1 DEF Index
    <3>2. QED
      BY <3>1
  <2>3. MAXEXP \in S
    <3> HIDE DEF S
    <3>1. QED
      BY <1>1, <2>1, <2>2, SetInduction
  <2>4. QED
    BY <1>1, <2>3
<1> HIDE DEF Fits
<1>4. QED
  BY <1>2, <1>3

LEMMA ListIndexIn ==
  ASSUME NEW size \in 0 .. UINT - 1
  PROVE  /\ ListIndex(size) \in Index
         /\ getexp(size) >= 0 => size >= 2^MINEXP
<1>1. /\ 2^MINEXP \in Int /\ UINT \in Nat /\ MINEXP \in Nat /\ MAXEXP \in Nat
      /\ MINEXP < MAXEXP
  BY Widths
<1>2. CASE size < 2^MINEXP
  <2>1. getexp(size) = -1
    BY <1>2 DEF getexp
  <2>2. QED
    BY <1>1, <2>1 DEF ListIndex, Index
<1>3. CASE size >= 2^MINEXP
  <2>1. getexp(size) \in Index
    BY <1>1, <1>3, GetexpIndex
  <2>2. QED
    BY <1>1, <1>3, <2>1 DEF ListIndex, Index
<1>4. QED
  BY <1>1, <1>2, <1>3

LEMMA IndexNat == \A i \in Index : i \in Nat /\ i # -1 /\ i >= 0
BY Widths DEF Index

-----------------------------------------------------------------------------
(* What the helpers on tags leave, field by field.                         *)

\* Two functions to tags that agree on what tiles the blocks.
SameTiling(T, U) ==
  /\ DOMAIN U = DOMAIN T
  /\ \A a \in DOMAIN T : /\ U[a].real_size = T[a].real_size
                         /\ U[a].split_left = T[a].split_left
                         /\ U[a].split_right = T[a].split_right

UnlinkedTo(U, t) ==
  /\ SameTiling(tag, U)
  /\ \A a \in DOMAIN tag :
       /\ U[a].size = tag[a].size
       /\ U[a].index = IF a = t THEN -1 ELSE tag[a].index
       /\ U[a].next = IF a = t THEN NULL
                      ELSE IF a = tag[t].prev THEN tag[t].next ELSE tag[a].next
       /\ U[a].prev = IF a = t THEN NULL
                      ELSE IF a = tag[t].next THEN tag[t].prev ELSE tag[a].prev

LinkedTo(T, U, t, i) ==
  /\ SameTiling(T, U)
  /\ \A a \in DOMAIN T :
       /\ U[a].size = T[a].size
       /\ U[a].index = IF a = t THEN i ELSE T[a].index
       /\ U[a].next = IF a = t /\ l_freePages[i] # NULL
                      THEN l_freePages[i] ELSE T[a].next
       /\ U[a].prev = IF a = l_freePages[i] THEN t ELSE T[a].prev

MeltedTo(T, U, l, r) ==
  /\ DOMAIN U = DOMAIN T \ {r}
  /\ \A a \in DOMAIN T \ {r} :
       /\ U[a].size = T[a].size
       /\ U[a].index = T[a].index
       /\ U[a].next = T[a].next
       /\ U[a].prev = T[a].prev
       /\ U[a].real_size =
            IF a = l THEN T[l].real_size + T[r].real_size ELSE T[a].real_size
       /\ U[a].split_right = IF a = l THEN T[r].split_right ELSE T[a].split_right
       /\ U[a].split_left = IF a = T[r].split_right THEN l ELSE T[a].split_left

LEMMA UnlinkedFields ==
  ASSUME Tags(tag), NEW t \in DOMAIN tag
  PROVE  Tags(Unlinked(t)) /\ UnlinkedTo(Unlinked(t), t)
<1>1. DOMAIN Unlinked(t) = DOMAIN tag
  BY DEF Unlinked
<1>2. tag[t] \in TagRecord
  BY DEF Tags
<1>3. ASSUME NEW a \in DOMAIN tag
      PROVE  /\ Unlinked(t)[a] \in TagRecord
             /\ Unlinked(t)[a].size = tag[a].size
             /\ Unlinked(t)[a].real_size = tag[a].real_size
             /\ Unlinked(t)[a].split_left = tag[a].split_left
             /\ Unlinked(t)[a].split_right = tag[a].split_right
             /\ Unlinked(t)[a].index = IF a = t THEN -1 ELSE tag[a].index
             /\ Unlinked(t)[a].next = IF a = t THEN NULL
                                      ELSE IF a = tag[t].prev THEN tag[t].next
                                      ELSE tag[a].next
             /\ Unlinked(t)[a].prev = IF a = t THEN NULL
                                      ELSE IF a = tag[t].next THEN tag[t].prev
                                      ELSE tag[a].prev
  <2>1. tag[a] \in TagRecord
    BY DEF Tags
  <2>2. Unlinked(t)[a] =
          [tag[a] EXCEPT
             !.next  = IF a = t THEN NULL
                       ELSE IF a = tag[t].prev THEN tag[t].next ELSE @,
             !.prev  = IF a = t THEN NULL
                       ELSE IF a = tag[t].next THEN tag[t].prev ELSE @,
             !.index = IF a = t THEN -1 ELSE @]
    BY DEF Unlinked
  <2> DEFINE x == IF a = t THEN NULL
                  ELSE IF a = tag[t].prev THEN tag[t].next ELSE tag[a].next
             y == IF a = t THEN NULL
                  ELSE IF a = tag[t].next THEN tag[t].prev ELSE tag[a].prev
             z == IF a = t THEN -1 ELSE tag[a].index
  <2>3. x \in Int /\ y \in Int /\ z \in Int
    BY <1>2, <2>1 DEF TagRecord, NULL
  <2>4. Unlinked(t)[a] = [tag[a] EXCEPT !.next = x, !.prev = y, !.index = z]
    BY <2>2
  <2> HIDE DEF x, y, z
  <2>5. /\ Unlinked(t)[a] \in TagRecord
        /\ Unlinked(t)[a].size = tag[a].size
        /\ Unlinked(t)[a].real_size = tag[a].real_size
        /\ Unlinked(t)[a].split_left = tag[a].split_left
        /\ Unlinked(t)[a].split_right = tag[a].split_right
        /\ Unlinked(t)[a].index = z
        /\ Unlinked(t)[a].next = x
        /\ Unlinked(t)[a].prev = y
    BY <2>1, <2>3, <2>4 DEF TagRecord
  <2>6. QED
    BY <2>5 DEF x, y, z
<1>4. Unlinked(t) \in [DOMAIN tag -> TagRecord]
  BY <1>1, <1>3 DEF Unlinked
<1>5. QED
  BY <1>1, <1>3, <1>4 DEF Tags, UnlinkedTo, SameTiling

LEMMA LinkedFields ==
  ASSUME NEW T, Tags(T), NEW t, t \in Int, NEW i, i \in Int, l_freePages[i] \in Int
  PROVE  Tags(Linked(T, t, i)) /\ LinkedTo(T, Linked(T, t, i), t, i)
<1>1. DOMAIN Linked(T, t, i) = DOMAIN T
  BY DEF Linked
<1>2. ASSUME NEW a \in DOMAIN T
      PROVE  /\ Linked(T, t, i)[a] \in TagRecord
             /\ Linked(T, t, i)[a].size = T[a].size
             /\ Linked(T, t, i)[a].real_size = T[a].real_size
             /\ Linked(T, t, i)[a].split_left = T[a].split_left
             /\ Linked(T, t, i)[a].split_right = T[a].split_right
             /\ Linked(T, t, i)[a].index = IF a = t THEN i ELSE T[a].index
             /\ Linked(T, t, i)[a].next = IF a = t /\ l_freePages[i] # NULL
                                          THEN l_freePages[i] ELSE T[a].next
             /\ Linked(T, t, i)[a].prev = IF a = l_freePages[i] THEN t ELSE T[a].prev
  <2>1. T[a] \in TagRecord
    BY DEF Tags
  <2>2. Linked(T, t, i)[a] =
          [T[a] EXCEPT
             !.index = IF a = t THEN i ELSE @,
             !.next  = IF a = t /\ l_freePages[i] # NULL THEN l_freePages[i] ELSE @,
             !.prev  = IF a = l_freePages[i] THEN t ELSE @]
    BY DEF Linked
  <2>3. QED
    BY <2>1, <2>2 DEF TagRecord
<1>3. Linked(T, t, i) \in [DOMAIN T -> TagRecord]
  BY <1>1, <1>2 DEF Linked
<1>4. QED
  BY <1>1, <1>2, <1>3 DEF Tags, LinkedTo, SameTiling

LEMMA MeltedFields ==
  ASSUME NEW T, Tags(T), NEW l \in DOMAIN T, NEW r \in DOMAIN T, l \in Int
  PROVE  Tags(Melted(T, l, r)) /\ MeltedTo(T, Melted(T, l, r), l, r)
<1>1. DOMAIN Melted(T, l, r) = DOMAIN T \ {r}
  BY DEF Melted
<1>2. ASSUME NEW a \in DOMAIN T \ {r}
      PROVE  /\ Melted(T, l, r)[a] \in TagRecord
             /\ Melted(T, l, r)[a].size = T[a].size
             /\ Melted(T, l, r)[a].index = T[a].index
             /\ Melted(T, l, r)[a].next = T[a].next
             /\ Melted(T, l, r)[a].prev = T[a].prev
             /\ Melted(T, l, r)[a].real_size =
                  IF a = l THEN T[l].real_size + T[r].real_size ELSE T[a].real_size
             /\ Melted(T, l, r)[a].split_right =
                  IF a = l THEN T[r].split_right ELSE T[a].split_right
             /\ Melted(T, l, r)[a].split_left =
                  IF a = T[r].split_right THEN l ELSE T[a].split_left
  <2>1. T[a] \in TagRecord /\ T[r] \in TagRecord
    BY DEF Tags
  <2>2. Melted(T, l, r)[a] =
          [T[a] EXCEPT
             !.real_size   = IF a = l THEN @ + T[r].real_size ELSE @,
             !.split_right = IF a = l THEN T[r].split_right ELSE @,
             !.split_left  = IF a = T[r].split_right THEN l ELSE @]
    BY DEF Melted
  <2> DEFINE x == IF a = l THEN T[a].real_size + T[r].real_size ELSE T[a].real_size
             y == IF a = l THEN T[r].split_right ELSE T[a].split_right
             z == IF a = T[r].split_right THEN l ELSE T[a].split_left
  <2>3. x \in Int /\ y \in Int /\ z \in Int
    BY <2>1 DEF TagRecord
  <2>4. Melted(T, l, r)[a] =
          [T[a] EXCEPT !.real_size = x, !.split_right = y, !.split_left = z]
    BY <2>2
  <2> HIDE DEF x, y, z
  <2>5. /\ Melted(T, l, r)[a] \in TagRecord
        /\ Melted(T, l, r)[a].size = T[a].size
        /\ Melted(T, l, r)[a].index = T[a].index
        /\ Melted(T, l, r)[a].next = T[a].next
        /\ Melted(T, l, r)[a].prev = T[a].prev
        /\ Melted(T, l, r)[a].real_size = x
        /\ Melted(T, l, r)[a].split_right = y
        /\ Melted(T, l, r)[a].split_left = z
    BY <2>1, <2>3, <2>4 DEF TagRecord
  <2>6. QED
    BY <2>5 DEF x, y, z
<1>3. Melted(T, l, r) \in [DOMAIN T \ {r} -> TagRecord]
  BY <1>1, <1>2 DEF Melted
<1>4. QED
  BY <1>1, <1>2, <1>3 DEF Tags, MeltedTo

\* split_tag before the new tag is put on its list.
Halved(t, size) ==
  LET new  == SplitAt(t, size)
      rest == Unsigned(tag[t].real_size - TAG - size)
  IN  [a \in DOMAIN tag \cup {new} |->
         IF a = new
         THEN FreshTag(0, rest, t, tag[t].split_right)
         ELSE IF a = t
         THEN [tag[t] EXCEPT !.size = size, !.split_right = new,
                             !.real_size = Unsigned(@ - rest)]
         ELSE [tag[a] EXCEPT
                 !.split_left = IF a = tag[t].split_right THEN new ELSE @]]

HalvedTo(U, t, size, new) ==
  /\ DOMAIN U = DOMAIN tag \cup {new}
  /\ U[new] = FreshTag(0, tag[t].real_size - TAG - size, t, tag[t].split_right)
  /\ U[t] = [tag[t] EXCEPT !.size = size, !.split_right = new,
                           !.real_size = TAG + size]
  /\ \A a \in DOMAIN tag \ {t} :
       U[a] = [tag[a] EXCEPT
                 !.split_left = IF a = tag[t].split_right THEN new ELSE @]

LEMMA HalvedFields ==
  ASSUME Tags(tag), NEW t \in DOMAIN tag, t \in Int, t > 0,
         NEW size \in Nat, NEW new, new = t + TAG + size, new \notin DOMAIN tag,
         new < UINT, TAG + size <= tag[t].real_size, tag[t].real_size < UINT
  PROVE  /\ SplitAt(t, size) = new
         /\ Unsigned(tag[t].real_size - TAG - size) = tag[t].real_size - TAG - size
         /\ Tags(Halved(t, size)) /\ HalvedTo(Halved(t, size), t, size, new)
<1> DEFINE rest == tag[t].real_size - TAG - size
<1>1. /\ UINT \in Nat /\ TAG \in Nat /\ tag[t] \in TagRecord
      /\ tag[t].real_size \in Int /\ new \in Int /\ rest \in Int
      /\ tag[t].split_right \in Int
  BY Widths DEF Tags, TagRecord
<1>2. SplitAt(t, size) = new
  BY <1>1, Wrap DEF SplitAt
<1>3. Unsigned(rest) = rest
  BY <1>1, Wrap
<1>4. Unsigned(tag[t].real_size - rest) = TAG + size
  <2>1. tag[t].real_size - rest = TAG + size /\ TAG + size < UINT
    BY <1>1
  <2>2. QED
    BY <1>1, <2>1, Wrap
<1> DEFINE H == Halved(t, size)
<1>5. H = [a \in DOMAIN tag \cup {new} |->
             IF a = new
             THEN FreshTag(0, rest, t, tag[t].split_right)
             ELSE IF a = t
             THEN [tag[t] EXCEPT !.size = size, !.split_right = new,
                                 !.real_size = TAG + size]
             ELSE [tag[a] EXCEPT
                     !.split_left = IF a = tag[t].split_right THEN new ELSE @]]
  BY <1>2, <1>3, <1>4 DEF Halved
<1> HIDE DEF H, rest
<1>6. DOMAIN H = DOMAIN tag \cup {new}
  BY <1>5
<1>7. H[new] = FreshTag(0, rest, t, tag[t].split_right)
  BY <1>5
<1>8. H[t] = [tag[t] EXCEPT !.size = size, !.split_right = new,
                            !.real_size = TAG + size]
  BY <1>5
<1>9. ASSUME NEW a \in DOMAIN tag \ {t}
      PROVE  H[a] = [tag[a] EXCEPT
                       !.split_left = IF a = tag[t].split_right THEN new ELSE @]
  BY <1>5
<1>10. H[new] \in TagRecord
  BY <1>1, <1>7 DEF FreshTag, TagRecord, NULL
<1>11. H[t] \in TagRecord
  <2> DEFINE held == TAG + size
  <2>1. held \in Int /\ size \in Int
    BY <1>1
  <2>2. H[t] = [tag[t] EXCEPT !.size = size, !.split_right = new, !.real_size = held]
    BY <1>8
  <2> HIDE DEF held
  <2>3. QED
    BY <1>1, <2>1, <2>2 DEF TagRecord
<1>12. \A a \in DOMAIN tag \ {t} : H[a] \in TagRecord
  <2> TAKE a \in DOMAIN tag \ {t}
  <2>1. tag[a] \in TagRecord
    BY DEF Tags
  <2> DEFINE r == tag[a]
  <2>2. r \in TagRecord /\ new \in Int
    BY <1>1, <2>1
  <2>3. H[a] = [r EXCEPT !.split_left = IF a = tag[t].split_right THEN new ELSE @]
    BY <1>9
  <2> HIDE DEF r
  <2>4. H[a] = r \/ H[a] = [r EXCEPT !.split_left = new]
    BY <2>2, <2>3 DEF TagRecord
  <2>5. [r EXCEPT !.split_left = new] \in TagRecord
    BY <2>2 DEF TagRecord
  <2>6. QED
    BY <2>2, <2>4, <2>5
<1>13. Tags(H)
  <2>1. \A a \in DOMAIN H : H[a] \in TagRecord
    BY <1>6, <1>10, <1>11, <1>12
  <2>2. H = [a \in DOMAIN H |-> H[a]]
    BY <1>5
  <2>3. QED
    BY <2>1, <2>2 DEF Tags
<1>14. QED
  BY <1>2, <1>3, <1>6, <1>7, <1>8, <1>9, <1>13 DEF H, rest, HalvedTo

LEMMA SplitHalved ==
  ASSUME NEW t, NEW size
  PROVE  Split(t, size) =
           Linked(Halved(t, size), SplitAt(t, size),
                  ListIndex(Unsigned(Unsigned(tag[t].real_size - TAG - size) - TAG)))
BY DEF Split, Halved

-----------------------------------------------------------------------------
(* The tiling of the blocks.                                               *)

\* A tag lies within the memory of the heap, above the null page.
LEMMA InBlock ==
  ASSUME NEW T, NEW E, Tags(T), Tiled(T, E)
  PROVE  \A a \in DOMAIN T :
           /\ a \in Int /\ a > 0 /\ T[a].real_size \in Int
           /\ T[a].real_size > 0 /\ a + T[a].real_size <= Top
           /\ T[a].split_right \in Int /\ T[a].split_left \in Int
<1> TAKE a \in DOMAIN T
<1>1. T[a] \in TagRecord /\ a \in Int /\ T[a].real_size >= TAG
  BY DEF Tags, Tiled, Apart
<1>2. PICK b \in DOMAIN E : b <= a /\ a + T[a].real_size <= b + E[b]
  BY DEF Tiled, Apart
<1>3. b \in Int /\ b > 0 /\ E[b] \in Int /\ b + E[b] <= Top
  BY DEF Tiled, Blocks
<1>4. QED
  BY <1>1, <1>2, <1>3, Widths DEF TagRecord

LEMMA SameTiled ==
  ASSUME NEW T, NEW U, NEW E, Tiled(T, E), SameTiling(T, U)
  PROVE  Tiled(U, E)
<1>0. /\ DOMAIN U = DOMAIN T
      /\ \A a \in DOMAIN T : /\ U[a].real_size = T[a].real_size
                             /\ U[a].split_left = T[a].split_left
                             /\ U[a].split_right = T[a].split_right
  BY DEF SameTiling
<1>1. Apart(U, E)
  BY <1>0 DEF Tiled, Apart
<1>2. Neighbours(U, E)
  <2>1. DOMAIN E \subseteq DOMAIN U
    BY <1>0 DEF Tiled, Neighbours
  <2>2. \A a \in DOMAIN U : U[a].split_left = NULL <=> a \in DOMAIN E
    BY <1>0 DEF Tiled, Neighbours
  <2>3. \A a \in DOMAIN U : U[a].split_right = NULL =>
          \E b \in DOMAIN E : b <= a /\ a + U[a].real_size = b + E[b]
    BY <1>0 DEF Tiled, Neighbours
  <2>4. \A a \in DOMAIN U : U[a].split_right # NULL =>
          /\ U[a].split_right \in DOMAIN U
          /\ a + U[a].real_size = U[a].split_right
          /\ U[U[a].split_right].split_left = a
    BY <1>0 DEF Tiled, Neighbours
  <2>5. \A a \in DOMAIN U : U[a].split_left # NULL =>
          /\ U[a].split_left \in DOMAIN U
          /\ U[U[a].split_left].split_right = a
    BY <1>0 DEF Tiled, Neighbours
  <2>6. QED
    BY <2>1, <2>2, <2>3, <2>4, <2>5 DEF Neighbours
<1>3. QED
  BY <1>0, <1>1, <1>2 DEF Tiled

\* A tag with a left neighbour lies in the block of that neighbour.
LEMMA SameBlock ==
  ASSUME NEW T, NEW E, Tags(T), Tiled(T, E), NEW l \in DOMAIN T, NEW r \in DOMAIN T,
         T[l].split_right = r
  PROVE  /\ l + T[l].real_size = r /\ l < r /\ T[r].split_left = l
         /\ r \notin DOMAIN E
         /\ \A b \in DOMAIN E : b <= r /\ r + T[r].real_size <= b + E[b] => b <= l
<1>1. /\ l \in Int /\ l > 0 /\ T[l].real_size \in Int /\ T[l].real_size > 0
      /\ r \in Int /\ r > 0 /\ T[r].real_size \in Int /\ T[r].real_size > 0
  BY InBlock
<1>2. l + T[l].real_size = r /\ T[r].split_left = l
  BY <1>1 DEF Tiled, Neighbours, NULL
<1>3. l < r /\ r \notin DOMAIN E
  BY <1>1, <1>2 DEF Tiled, Neighbours, NULL
<1>4. ASSUME NEW b \in DOMAIN E, b <= r, r + T[r].real_size <= b + E[b]
      PROVE  b <= l
  <2>1. PICK c \in DOMAIN E : c <= l /\ l + T[l].real_size <= c + E[c]
    BY DEF Tiled, Apart
  <2>2. b \in Int /\ c \in Int /\ E[b] \in Int /\ E[c] \in Int /\ b # r
    BY <1>3 DEF Tiled, Blocks
  <2>3. c < b => c + E[c] <= b
    BY DEF Tiled, Blocks
  <2>4. QED
    BY <1>1, <1>2, <1>4, <2>1, <2>2, <2>3
<1>5. QED
  BY <1>2, <1>3, <1>4

\* Two neighbours can be made one.
LEMMA MeltedTiled ==
  ASSUME NEW T, NEW E, Tags(T), Tiled(T, E), NEW l \in DOMAIN T, NEW r \in DOMAIN T,
         T[l].split_right = r
  PROVE  Tiled(Melted(T, l, r), E)
<1> DEFINE U == Melted(T, l, r)
<1>1. \A a \in DOMAIN T :
        /\ a \in Int /\ a > 0 /\ T[a].real_size \in Int /\ T[a].real_size > 0
        /\ T[a].split_right \in Int /\ T[a].split_left \in Int
  BY InBlock
<1>2. /\ l + T[l].real_size = r /\ l < r /\ T[r].split_left = l
      /\ r \notin DOMAIN E
      /\ \A b \in DOMAIN E : b <= r /\ r + T[r].real_size <= b + E[b] => b <= l
  BY SameBlock
<1>3. /\ DOMAIN U = DOMAIN T \ {r}
      /\ \A a \in DOMAIN T \ {r} :
           /\ U[a].real_size =
                IF a = l THEN T[l].real_size + T[r].real_size ELSE T[a].real_size
           /\ U[a].split_right = IF a = l THEN T[r].split_right ELSE T[a].split_right
           /\ U[a].split_left = IF a = T[r].split_right THEN l ELSE T[a].split_left
  <2>1. l \in Int
    BY <1>1
  <2>2. MeltedTo(T, U, l, r)
    BY <2>1, MeltedFields
  <2> HIDE DEF U
  <2>3. QED
    BY <2>2 DEF MeltedTo
<1>4. /\ \A b \in DOMAIN E : b \in Int /\ E[b] \in Int
      /\ TAG \in Int /\ l # r /\ l \in DOMAIN U
  BY <1>1, <1>2, <1>3, Widths DEF Tiled, Blocks
<1> HIDE DEF U
<1>5. l + U[l].real_size = r + T[r].real_size
  BY <1>1, <1>2, <1>3, <1>4
<1>6. Apart(U, E)
  <2>1. ASSUME NEW a \in DOMAIN U
        PROVE  U[a].real_size >= TAG
    <3>1. T[a].real_size >= TAG /\ T[l].real_size >= TAG /\ T[r].real_size >= TAG
      BY <1>3 DEF Tiled, Apart
    <3>2. QED
      BY <1>1, <1>3, <1>4, <3>1, Widths
  <2>2. ASSUME NEW a \in DOMAIN U, NEW b \in DOMAIN U, a < b
        PROVE  a + U[a].real_size <= b
    <3>1. a \in DOMAIN T /\ b \in DOMAIN T /\ b # r /\ a + T[a].real_size <= b
      BY <1>3, <2>2 DEF Tiled, Apart
    <3>2. CASE a = l
      <4>1. r < b
        BY <1>1, <1>2, <3>1, <3>2
      <4>2. r + T[r].real_size <= b
        BY <3>1, <4>1 DEF Tiled, Apart
      <4>3. QED
        BY <1>5, <3>2, <4>2
    <3>3. CASE a # l
      BY <1>3, <3>1, <3>3
    <3>4. QED
      BY <3>2, <3>3
  <2>3. ASSUME NEW a \in DOMAIN U
        PROVE  \E b \in DOMAIN E : b <= a /\ a + U[a].real_size <= b + E[b]
    <3>1. CASE a = l
      <4>1. PICK b \in DOMAIN E : b <= r /\ r + T[r].real_size <= b + E[b]
        BY DEF Tiled, Apart
      <4>2. QED
        BY <1>2, <1>5, <3>1, <4>1
    <3>2. CASE a # l
      <4>1. PICK b \in DOMAIN E : b <= a /\ a + T[a].real_size <= b + E[b]
        BY <1>3 DEF Tiled, Apart
      <4>2. QED
        BY <1>3, <3>2, <4>1
    <3>3. QED
      BY <3>1, <3>2
  <2>4. QED
    BY <2>1, <2>2, <2>3 DEF Apart
<1>7. Neighbours(U, E)
  <2>1. DOMAIN E \subseteq DOMAIN U
    BY <1>2, <1>3 DEF Tiled, Neighbours
  <2>2. ASSUME NEW a \in DOMAIN U
        PROVE  U[a].split_left = NULL <=> a \in DOMAIN E
    <3>1. T[a].split_left = NULL <=> a \in DOMAIN E
      BY <1>3 DEF Tiled, Neighbours
    <3>2. CASE a = T[r].split_right
      <4>1. a # NULL
        BY <1>1, <1>3 DEF NULL
      <4>2. T[a].split_left = r
        BY <3>2, <4>1 DEF Tiled, Neighbours
      <4>3. U[a].split_left = l /\ l # NULL /\ r # NULL
        BY <1>1, <1>3, <3>2 DEF NULL
      <4>4. QED
        BY <3>1, <4>2, <4>3
    <3>3. CASE a # T[r].split_right
      BY <1>3, <3>1, <3>3
    <3>4. QED
      BY <3>2, <3>3
  <2>3. ASSUME NEW a \in DOMAIN U, U[a].split_right = NULL
        PROVE  \E b \in DOMAIN E : b <= a /\ a + U[a].real_size = b + E[b]
    <3>1. CASE a = l
      <4>1. T[r].split_right = NULL
        BY <1>3, <1>4, <2>3, <3>1
      <4>2. PICK b \in DOMAIN E : b <= r /\ r + T[r].real_size = b + E[b]
        BY <4>1 DEF Tiled, Neighbours
      <4>3. b <= l
        BY <1>1, <1>2, <1>4, <4>2
      <4>4. QED
        BY <1>5, <3>1, <4>2, <4>3
    <3>2. CASE a # l
      <4>1. T[a].split_right = NULL /\ U[a].real_size = T[a].real_size
        BY <1>3, <2>3, <3>2
      <4>2. QED
        BY <1>3, <4>1 DEF Tiled, Neighbours
    <3>3. QED
      BY <3>1, <3>2
  <2>4. ASSUME NEW a \in DOMAIN U, U[a].split_right # NULL
        PROVE  /\ U[a].split_right \in DOMAIN U
               /\ a + U[a].real_size = U[a].split_right
               /\ U[U[a].split_right].split_left = a
    <3>1. CASE a = l
      <4> DEFINE q == T[r].split_right
      <4>1. U[a].split_right = q /\ q # NULL
        BY <1>3, <1>4, <2>4, <3>1
      <4>2. q \in DOMAIN T /\ r + T[r].real_size = q /\ T[q].split_left = r
        BY <4>1 DEF Tiled, Neighbours
      <4>3. q # r
        BY <1>1, <4>2
      <4>4. q \in DOMAIN U /\ U[q].split_left = l
        BY <1>3, <4>2, <4>3
      <4>5. QED
        BY <1>5, <3>1, <4>1, <4>2, <4>4
    <3>2. CASE a # l
      <4> DEFINE q == T[a].split_right
      <4>1. U[a].split_right = q /\ q # NULL /\ U[a].real_size = T[a].real_size
        BY <1>3, <2>4, <3>2
      <4>2. q \in DOMAIN T /\ a + T[a].real_size = q /\ T[q].split_left = a
        BY <1>3, <4>1 DEF Tiled, Neighbours
      <4>3. q # r
        BY <1>2, <3>2, <4>2
      <4>4. q # T[r].split_right
        <5>1. q = T[r].split_right => T[q].split_left = r
          BY <4>1 DEF Tiled, Neighbours
        <5>2. a # r
          BY <1>3
        <5>3. QED
          BY <4>2, <5>1, <5>2
      <4>5. q \in DOMAIN U /\ U[q].split_left = a
        BY <1>3, <4>2, <4>3, <4>4
      <4>6. QED
        BY <4>1, <4>2, <4>5
    <3>3. QED
      BY <3>1, <3>2
  <2>5. ASSUME NEW a \in DOMAIN U, U[a].split_left # NULL
        PROVE  /\ U[a].split_left \in DOMAIN U
               /\ U[U[a].split_left].split_right = a
    <3>1. CASE a = T[r].split_right
      BY <1>3, <1>4, <3>1
    <3>2. CASE a # T[r].split_right
      <4> DEFINE q == T[a].split_left
      <4>1. U[a].split_left = q /\ q # NULL
        BY <1>3, <2>5, <3>2
      <4>2. q \in DOMAIN T /\ T[q].split_right = a
        BY <1>3, <4>1 DEF Tiled, Neighbours
      <4>3. q # r /\ q # l
        BY <1>3, <3>2, <4>2
      <4>4. QED
        BY <1>3, <4>1, <4>2, <4>3
    <3>3. QED
      BY <3>1, <3>2
  <2>6. QED
    BY <2>1, <2>2, <2>3, <2>4, <2>5 DEF Neighbours
<1>8. DOMAIN U \subseteq Int /\ Blocks(E)
  BY <1>3 DEF Tiled
<1>9. QED
  BY <1>6, <1>7, <1>8 DEF Tiled, U

\* The fields of the tags, then.
Halves(U, t, size, new) ==
  /\ DOMAIN U = DOMAIN tag \cup {new}
  /\ U[new].size = 0 /\ U[new].index = -1
  /\ U[new].next = NULL /\ U[new].prev = NULL
  /\ U[new].real_size = tag[t].real_size - TAG - size
  /\ U[new].split_left = t /\ U[new].split_right = tag[t].split_right
  /\ U[t].size = size /\ U[t].real_size = TAG + size
  /\ U[t].split_right = new /\ U[t].split_left = tag[t].split_left
  /\ \A a \in DOMAIN tag : /\ U[a].index = tag[a].index
                           /\ U[a].next = tag[a].next
                           /\ U[a].prev = tag[a].prev
  /\ \A a \in DOMAIN tag \ {t} :
       /\ U[a].size = tag[a].size
       /\ U[a].real_size = tag[a].real_size
       /\ U[a].split_right = tag[a].split_right
       /\ U[a].split_left = IF a = tag[t].split_right THEN new
                            ELSE tag[a].split_left

LEMMA HalvedParts ==
  ASSUME Tags(tag), NEW t \in DOMAIN tag, NEW U, NEW size, NEW new,
         HalvedTo(U, t, size, new), new \notin DOMAIN tag
  PROVE  Halves(U, t, size, new)
<1>1. DOMAIN U = DOMAIN tag \cup {new}
  BY DEF HalvedTo
<1>2. /\ U[new].size = 0 /\ U[new].index = -1
      /\ U[new].next = NULL /\ U[new].prev = NULL
      /\ U[new].real_size = tag[t].real_size - TAG - size
      /\ U[new].split_left = t /\ U[new].split_right = tag[t].split_right
  BY DEF HalvedTo, FreshTag
<1>3. /\ U[t].size = size /\ U[t].real_size = TAG + size
      /\ U[t].split_right = new /\ U[t].split_left = tag[t].split_left
      /\ U[t].index = tag[t].index
      /\ U[t].next = tag[t].next /\ U[t].prev = tag[t].prev
  <2> DEFINE held == TAG + size
  <2>1. tag[t] \in TagRecord
    BY DEF Tags
  <2>2. U[t] = [tag[t] EXCEPT !.size = size, !.split_right = new, !.real_size = held]
    BY DEF HalvedTo
  <2> HIDE DEF held
  <2>3. /\ U[t].size = size /\ U[t].real_size = held
        /\ U[t].split_right = new /\ U[t].split_left = tag[t].split_left
        /\ U[t].index = tag[t].index
        /\ U[t].next = tag[t].next /\ U[t].prev = tag[t].prev
    BY <2>1, <2>2 DEF TagRecord
  <2>4. QED
    BY <2>3 DEF held
<1>4. ASSUME NEW a \in DOMAIN tag \ {t}
      PROVE  /\ U[a].size = tag[a].size
             /\ U[a].real_size = tag[a].real_size
             /\ U[a].split_right = tag[a].split_right
             /\ U[a].split_left = IF a = tag[t].split_right THEN new
                                  ELSE tag[a].split_left
             /\ U[a].index = tag[a].index
             /\ U[a].next = tag[a].next /\ U[a].prev = tag[a].prev
  <2> DEFINE left == IF a = tag[t].split_right THEN new ELSE tag[a].split_left
  <2>1. tag[a] \in TagRecord
    BY DEF Tags
  <2>2. U[a] = [tag[a] EXCEPT !.split_left = left]
    BY DEF HalvedTo
  <2> HIDE DEF left
  <2>3. /\ U[a].size = tag[a].size
        /\ U[a].real_size = tag[a].real_size
        /\ U[a].split_right = tag[a].split_right
        /\ U[a].split_left = left
        /\ U[a].index = tag[a].index
        /\ U[a].next = tag[a].next /\ U[a].prev = tag[a].prev
    BY <2>1, <2>2 DEF TagRecord
  <2>4. QED
    BY <2>3 DEF left
<1>5. QED
  BY <1>1, <1>2, <1>3, <1>4 DEF Halves

\* A tag with room behind its bytes can be made two.
LEMMA HalvedTiled ==
  ASSUME Tags(tag), NEW E, Tiled(tag, E), NEW t \in DOMAIN tag, NEW U,
         NEW size \in Nat, NEW new, new = t + TAG + size,
         TAG + size + TAG <= tag[t].real_size, HalvedTo(U, t, size, new)
  PROVE  Tiled(U, E) /\ new \notin DOMAIN tag
<1>1. \A a \in DOMAIN tag :
        /\ a \in Int /\ a > 0 /\ tag[a].real_size \in Int /\ tag[a].real_size > 0
        /\ tag[a].split_right \in Int /\ tag[a].split_left \in Int
  BY InBlock
<1>2. /\ TAG \in Nat /\ TAG > 0 /\ new \in Int /\ t < new
      /\ new < t + tag[t].real_size
      /\ \A b \in DOMAIN E : b \in Int /\ E[b] \in Int
  BY <1>1, Widths DEF Tiled, Blocks
<1>3. new \notin DOMAIN tag
  BY <1>1, <1>2 DEF Tiled, Apart
<1>4. /\ DOMAIN U = DOMAIN tag \cup {new}
      /\ U[new].real_size = tag[t].real_size - TAG - size
      /\ U[new].split_left = t /\ U[new].split_right = tag[t].split_right
      /\ U[t].real_size = TAG + size
      /\ U[t].split_right = new /\ U[t].split_left = tag[t].split_left
      /\ \A a \in DOMAIN tag \ {t} :
           /\ U[a].real_size = tag[a].real_size
           /\ U[a].split_right = tag[a].split_right
           /\ U[a].split_left = IF a = tag[t].split_right THEN new
                                ELSE tag[a].split_left
  <2>1. Halves(U, t, size, new)
    BY <1>3, HalvedParts
  <2>2. QED
    BY <2>1 DEF Halves
<1>5. /\ new + U[new].real_size = t + tag[t].real_size /\ t + U[t].real_size = new
      /\ new # NULL /\ t # NULL /\ t # new
  BY <1>1, <1>2, <1>4 DEF NULL
<1> DEFINE R == tag[t].split_right
<1>6. \A a \in DOMAIN tag : a = R => a # t /\ tag[a].split_left = t
  <2> SUFFICES ASSUME R \in DOMAIN tag
               PROVE  R # t /\ tag[R].split_left = t
    OBVIOUS
  <2>1. R # NULL
    BY <1>1 DEF NULL
  <2>2. QED
    BY <1>1, <2>1 DEF Tiled, Neighbours
<1>7. Apart(U, E)
  <2>1. ASSUME NEW a \in DOMAIN U
        PROVE  U[a].real_size >= TAG
    <3>1. CASE a = new \/ a = t
      BY <1>1, <1>2, <1>4, <3>1
    <3>2. CASE a \in DOMAIN tag \ {t}
      BY <1>4, <3>2 DEF Tiled, Apart
    <3>3. QED
      BY <1>4, <3>1, <3>2
  <2>2. ASSUME NEW a \in DOMAIN U, NEW b \in DOMAIN U, a < b
        PROVE  a + U[a].real_size <= b
    <3>1. CASE a = new
      <4>1. b \in DOMAIN tag /\ t < b
        BY <1>1, <1>2, <1>4, <2>2, <3>1
      <4>2. t + tag[t].real_size <= b
        BY <4>1 DEF Tiled, Apart
      <4>3. QED
        BY <1>5, <3>1, <4>2
    <3>2. CASE b = new /\ a # new
      <4>1. CASE a = t
        BY <1>2, <1>5, <3>2, <4>1
      <4>2. CASE a # t
        <5>1. a \in DOMAIN tag
          BY <1>4, <3>2
        <5>2. ~(t < a)
          <6>1. t < a => t + tag[t].real_size <= a
            BY <5>1 DEF Tiled, Apart
          <6>2. QED
            BY <1>1, <1>2, <2>2, <3>2, <5>1, <6>1
        <5>3. a < t
          BY <1>1, <4>2, <5>1, <5>2
        <5>4. a + tag[a].real_size <= t
          BY <5>1, <5>3 DEF Tiled, Apart
        <5>5. QED
          BY <1>1, <1>2, <1>4, <3>2, <4>2, <5>1, <5>4
      <4>3. QED
        BY <4>1, <4>2
    <3>3. CASE a # new /\ b # new
      <4>1. a \in DOMAIN tag /\ b \in DOMAIN tag
        BY <1>4, <3>3
      <4>2. a + tag[a].real_size <= b
        BY <2>2, <4>1 DEF Tiled, Apart
      <4>3. U[a].real_size <= tag[a].real_size /\ U[a].real_size \in Int
        BY <1>1, <1>2, <1>4, <4>1
      <4>4. QED
        BY <1>1, <4>1, <4>2, <4>3
    <3>4. QED
      BY <3>1, <3>2, <3>3
  <2>3. ASSUME NEW a \in DOMAIN U
        PROVE  \E b \in DOMAIN E : b <= a /\ a + U[a].real_size <= b + E[b]
    <3>1. PICK b \in DOMAIN E : b <= t /\ t + tag[t].real_size <= b + E[b]
      BY DEF Tiled, Apart
    <3>2. CASE a = new
      BY <1>1, <1>2, <1>5, <3>1, <3>2
    <3>3. CASE a = t
      BY <1>1, <1>2, <1>5, <3>1, <3>3
    <3>4. CASE a \in DOMAIN tag \ {t}
      <4>1. PICK c \in DOMAIN E : c <= a /\ a + tag[a].real_size <= c + E[c]
        BY <3>4 DEF Tiled, Apart
      <4>2. QED
        BY <1>4, <3>4, <4>1
    <3>5. QED
      BY <1>4, <3>2, <3>3, <3>4
  <2>4. QED
    BY <2>1, <2>2, <2>3 DEF Apart
<1>8. Neighbours(U, E)
  <2>1. DOMAIN E \subseteq DOMAIN U
    BY <1>4 DEF Tiled, Neighbours
  <2>2. ASSUME NEW a \in DOMAIN U
        PROVE  U[a].split_left = NULL <=> a \in DOMAIN E
    <3>1. CASE a = new
      BY <1>3, <1>4, <1>5, <3>1 DEF Tiled, Neighbours
    <3>2. CASE a = t
      BY <1>4, <3>2 DEF Tiled, Neighbours
    <3>3. CASE a \in DOMAIN tag \ {t} /\ a = R
      BY <1>4, <1>5, <1>6, <3>3 DEF Tiled, Neighbours
    <3>4. CASE a \in DOMAIN tag \ {t} /\ a # R
      BY <1>4, <3>4 DEF Tiled, Neighbours
    <3>5. QED
      BY <1>4, <3>1, <3>2, <3>3, <3>4
  <2>3. ASSUME NEW a \in DOMAIN U, U[a].split_right = NULL
        PROVE  \E b \in DOMAIN E : b <= a /\ a + U[a].real_size = b + E[b]
    <3>1. CASE a = new
      <4>1. PICK b \in DOMAIN E : b <= t /\ t + tag[t].real_size = b + E[b]
        BY <1>4, <2>3, <3>1 DEF Tiled, Neighbours
      <4>2. QED
        BY <1>1, <1>2, <1>5, <3>1, <4>1
    <3>2. CASE a = t
      BY <1>4, <1>5, <2>3, <3>2
    <3>3. CASE a \in DOMAIN tag \ {t}
      <4>1. tag[a].split_right = NULL /\ U[a].real_size = tag[a].real_size
        BY <1>4, <2>3, <3>3
      <4>2. QED
        BY <3>3, <4>1 DEF Tiled, Neighbours
    <3>4. QED
      BY <1>4, <3>1, <3>2, <3>3
  <2>4. ASSUME NEW a \in DOMAIN U, U[a].split_right # NULL
        PROVE  /\ U[a].split_right \in DOMAIN U
               /\ a + U[a].real_size = U[a].split_right
               /\ U[U[a].split_right].split_left = a
    <3>1. CASE a = new
      <4>1. U[a].split_right = R /\ R # NULL
        BY <1>4, <2>4, <3>1
      <4>2. R \in DOMAIN tag /\ t + tag[t].real_size = R
        BY <4>1 DEF Tiled, Neighbours
      <4>3. R # t /\ U[R].split_left = new
        BY <1>4, <1>6, <4>2
      <4>4. QED
        BY <1>4, <1>5, <3>1, <4>1, <4>2, <4>3
    <3>2. CASE a = t
      BY <1>4, <1>5, <3>2
    <3>3. CASE a \in DOMAIN tag \ {t}
      <4> DEFINE q == tag[a].split_right
      <4>1. U[a].split_right = q /\ q # NULL /\ U[a].real_size = tag[a].real_size
        BY <1>4, <2>4, <3>3
      <4>2. q \in DOMAIN tag /\ a + tag[a].real_size = q /\ tag[q].split_left = a
        BY <3>3, <4>1 DEF Tiled, Neighbours
      <4>3. q # R
        BY <1>6, <3>3, <4>2
      <4>4. U[q].split_left = a
        BY <1>4, <4>2, <4>3
      <4>5. QED
        BY <1>4, <4>1, <4>2, <4>4
    <3>4. QED
      BY <1>4, <3>1, <3>2, <3>3
  <2>5. ASSUME NEW a \in DOMAIN U, U[a].split_left # NULL
        PROVE  /\ U[a].split_left \in DOMAIN U
               /\ U[U[a].split_left].split_right = a
    <3>1. CASE a = new
      BY <1>4, <3>1
    <3>2. CASE a \in DOMAIN tag /\ a = R
      BY <1>4, <1>6, <3>2
    <3>3. CASE a \in DOMAIN tag /\ a # R
      <4> DEFINE q == tag[a].split_left
      <4>1. U[a].split_left = q /\ q # NULL
        BY <1>4, <2>5, <3>3
      <4>2. q \in DOMAIN tag /\ tag[q].split_right = a
        BY <3>3, <4>1 DEF Tiled, Neighbours
      <4>3. q # t
        BY <3>3, <4>2
      <4>4. QED
        BY <1>4, <4>1, <4>2, <4>3
    <3>4. QED
      BY <1>4, <3>1, <3>2, <3>3
  <2>6. QED
    BY <2>1, <2>2, <2>3, <2>4, <2>5 DEF Neighbours
<1>9. DOMAIN U \subseteq Int /\ Blocks(E)
  BY <1>2, <1>4 DEF Tiled
<1>10. QED
  BY <1>3, <1>7, <1>8, <1>9 DEF Tiled

\* A block that no other overlaps is tiled by one tag.
LEMMA PlacedTiled ==
  ASSUME NEW T, NEW E, NEW U, NEW G, Tags(T), Tiled(T, E),
         NEW base \in Int, NEW bytes \in Int, base > 0, bytes >= TAG, base + bytes <= Top,
         \A c \in DOMAIN E : base >= c + E[c] \/ base + bytes <= c,
         DOMAIN U = DOMAIN T \cup {base}, \A a \in DOMAIN T \ {base} : U[a] = T[a],
         U[base].real_size = bytes, U[base].split_left = NULL, U[base].split_right = NULL,
         G = [b \in DOMAIN E \cup {base} |-> IF b = base THEN bytes ELSE E[b]]
  PROVE  Tiled(U, G) /\ base \notin DOMAIN T
<1>1. \A a \in DOMAIN T :
        /\ a \in Int /\ a > 0 /\ T[a].real_size \in Int /\ T[a].real_size > 0
  BY InBlock
<1>2. /\ \A b \in DOMAIN E : b \in Int /\ b > 0 /\ E[b] \in Int /\ E[b] > 0
                             /\ b + E[b] <= Top
      /\ TAG \in Nat /\ TAG > 0
  BY Widths DEF Tiled, Blocks
<1>3. base \notin DOMAIN E
  BY <1>2
\* Whatever lies in a block lies on one side of the new one.
<1>4. \A a \in DOMAIN T : a + T[a].real_size <= base \/ base + bytes <= a
  <2> TAKE a \in DOMAIN T
  <2>1. PICK b \in DOMAIN E : b <= a /\ a + T[a].real_size <= b + E[b]
    BY DEF Tiled, Apart
  <2>2. QED
    BY <1>1, <1>2, <2>1
<1>5. base \notin DOMAIN T
  BY <1>1, <1>2, <1>4
<1>6. /\ DOMAIN G = DOMAIN E \cup {base} /\ G[base] = bytes
      /\ \A b \in DOMAIN E : G[b] = E[b]
  BY <1>3
<1>7. Blocks(G)
  <2>1. G \in [DOMAIN G -> Int]
    BY <1>2, <1>6
  <2>2. \A b \in DOMAIN G : b \in Int /\ b > 0 /\ G[b] > 0 /\ b + G[b] <= Top
    BY <1>2, <1>6
  <2>3. ASSUME NEW b \in DOMAIN G, NEW c \in DOMAIN G, b < c
        PROVE  b + G[b] <= c
    <3>1. CASE b = base
      BY <1>2, <1>6, <2>3, <3>1
    <3>2. CASE c = base
      BY <1>2, <1>6, <2>3, <3>2
    <3>3. CASE b # base /\ c # base
      BY <1>6, <2>3, <3>3 DEF Tiled, Blocks
    <3>4. QED
      BY <3>1, <3>2, <3>3
  <2>4. QED
    BY <2>1, <2>2, <2>3 DEF Blocks
<1>8. \A a \in DOMAIN T : a # base /\ U[a] = T[a]
  BY <1>5
<1>9. Apart(U, G)
  <2>1. \A a \in DOMAIN U : U[a].real_size >= TAG
    BY <1>8 DEF Tiled, Apart
  <2>2. ASSUME NEW a \in DOMAIN U, NEW b \in DOMAIN U, a < b
        PROVE  a + U[a].real_size <= b
    <3>1. CASE a = base
      BY <1>1, <1>4, <2>2, <3>1
    <3>2. CASE b = base
      BY <1>1, <1>2, <1>4, <1>8, <2>2, <3>2
    <3>3. CASE a # base /\ b # base
      BY <1>8, <2>2, <3>3 DEF Tiled, Apart
    <3>4. QED
      BY <3>1, <3>2, <3>3
  <2>3. ASSUME NEW a \in DOMAIN U
        PROVE  \E b \in DOMAIN G : b <= a /\ a + U[a].real_size <= b + G[b]
    <3>1. CASE a = base
      BY <1>6, <3>1
    <3>2. CASE a \in DOMAIN T
      <4>1. PICK b \in DOMAIN E : b <= a /\ a + T[a].real_size <= b + E[b]
        BY <3>2 DEF Tiled, Apart
      <4>2. QED
        BY <1>6, <1>8, <3>2, <4>1
    <3>3. QED
      BY <3>1, <3>2
  <2>4. QED
    BY <2>1, <2>2, <2>3 DEF Apart
<1>10. Neighbours(U, G)
  <2>1. DOMAIN G \subseteq DOMAIN U
    BY <1>6 DEF Tiled, Neighbours
  <2>2. \A a \in DOMAIN U : U[a].split_left = NULL <=> a \in DOMAIN G
    BY <1>6, <1>8 DEF Tiled, Neighbours
  <2>3. ASSUME NEW a \in DOMAIN U, U[a].split_right = NULL
        PROVE  \E b \in DOMAIN G : b <= a /\ a + U[a].real_size = b + G[b]
    <3>1. CASE a = base
      BY <1>6, <3>1
    <3>2. CASE a \in DOMAIN T
      <4>1. PICK b \in DOMAIN E : b <= a /\ a + T[a].real_size = b + E[b]
        BY <1>8, <2>3, <3>2 DEF Tiled, Neighbours
      <4>2. QED
        BY <1>6, <1>8, <3>2, <4>1
    <3>3. QED
      BY <3>1, <3>2
  <2>4. ASSUME NEW a \in DOMAIN U, U[a].split_right # NULL
        PROVE  /\ U[a].split_right \in DOMAIN U
               /\ a + U[a].real_size = U[a].split_right
               /\ U[U[a].split_right].split_left = a
    <3>1. a \in DOMAIN T /\ U[a] = T[a] /\ T[a].split_right # NULL
      BY <1>8, <2>4
    <3>2. /\ T[a].split_right \in DOMAIN T
          /\ a + T[a].real_size = T[a].split_right
          /\ T[T[a].split_right].split_left = a
      BY <3>1 DEF Tiled, Neighbours
    <3>3. QED
      BY <1>8, <3>1, <3>2
  <2>5. ASSUME NEW a \in DOMAIN U, U[a].split_left # NULL
        PROVE  /\ U[a].split_left \in DOMAIN U
               /\ U[U[a].split_left].split_right = a
    <3>1. a \in DOMAIN T /\ U[a] = T[a] /\ T[a].split_left # NULL
      BY <1>8, <2>5
    <3>2. T[a].split_left \in DOMAIN T /\ T[T[a].split_left].split_right = a
      BY <3>1 DEF Tiled, Neighbours
    <3>3. QED
      BY <1>8, <3>1, <3>2
  <2>6. QED
    BY <2>1, <2>2, <2>3, <2>4, <2>5 DEF Neighbours
<1>11. QED
  BY <1>1, <1>5, <1>7, <1>9, <1>10 DEF Tiled

\* A tag without neighbours is a whole block.
LEMMA WholeBlock ==
  ASSUME NEW T, NEW E, Tags(T), Tiled(T, E), NEW t \in DOMAIN T,
         T[t].split_left = NULL, T[t].split_right = NULL
  PROVE  t \in DOMAIN E /\ E[t] = T[t].real_size
<1>1. t \in DOMAIN E /\ t \in Int /\ T[t].real_size \in Int /\ T[t].real_size > 0
  BY InBlock DEF Tiled, Neighbours
<1>2. PICK b \in DOMAIN E : b <= t /\ t + T[t].real_size = b + E[b]
  BY DEF Tiled, Neighbours
<1>3. b \in Int /\ E[b] \in Int
  BY DEF Tiled, Blocks
<1>4. b < t => b + E[b] <= t
  BY <1>1 DEF Tiled, Blocks
<1>5. b = t
  BY <1>1, <1>2, <1>3, <1>4
<1>6. QED
  BY <1>1, <1>2, <1>3, <1>5

LEMMA DroppedTiled ==
  ASSUME NEW T, NEW E, NEW U, NEW G, Tags(T), Tiled(T, E), NEW t \in DOMAIN T,
         T[t].split_left = NULL, T[t].split_right = NULL,
         DOMAIN U = DOMAIN T \ {t}, \A a \in DOMAIN T \ {t} : U[a] = T[a],
         G = [b \in DOMAIN E \ {t} |-> E[b]]
  PROVE  Tiled(U, G)
<1>1. \A a \in DOMAIN T :
        /\ a \in Int /\ a > 0 /\ T[a].real_size \in Int /\ T[a].real_size > 0
  BY InBlock
<1>2. \A b \in DOMAIN E : b \in Int /\ E[b] \in Int
  BY DEF Tiled, Blocks
<1>3. t \in DOMAIN E /\ E[t] = T[t].real_size
  BY WholeBlock
<1>4. DOMAIN G = DOMAIN E \ {t} /\ \A b \in DOMAIN G : G[b] = E[b]
  OBVIOUS
\* No other tag lies in that block.
<1>5. \A a \in DOMAIN U, b \in DOMAIN E :
        b <= a /\ a + T[a].real_size <= b + E[b] => b # t
  <2> SUFFICES ASSUME NEW a \in DOMAIN U, t <= a, a + T[a].real_size <= t + E[t]
               PROVE  FALSE
    OBVIOUS
  <2>1. t < a
    BY <1>1
  <2>2. t + T[t].real_size <= a
    BY <2>1 DEF Tiled, Apart
  <2>3. QED
    BY <1>1, <1>3, <2>2
<1>6. Blocks(G)
  <2>1. G \in [DOMAIN G -> Int]
    BY <1>2, <1>4
  <2>2. QED
    BY <1>4, <2>1 DEF Tiled, Blocks
<1>7. Apart(U, G)
  <2>1. ASSUME NEW a \in DOMAIN U
        PROVE  \E b \in DOMAIN G : b <= a /\ a + U[a].real_size <= b + G[b]
    <3>1. PICK b \in DOMAIN E : b <= a /\ a + T[a].real_size <= b + E[b]
      BY DEF Tiled, Apart
    <3>2. QED
      BY <1>4, <1>5, <3>1
  <2>2. QED
    BY <2>1 DEF Tiled, Apart
<1>8. Neighbours(U, G)
  <2>1. DOMAIN G \subseteq DOMAIN U
    BY <1>4 DEF Tiled, Neighbours
  <2>2. \A a \in DOMAIN U : U[a].split_left = NULL <=> a \in DOMAIN G
    BY <1>4 DEF Tiled, Neighbours
  <2>3. ASSUME NEW a \in DOMAIN U, U[a].split_right = NULL
        PROVE  \E b \in DOMAIN G : b <= a /\ a + U[a].real_size = b + G[b]
    <3>1. PICK b \in DOMAIN E : b <= a /\ a + T[a].real_size = b + E[b]
      BY <2>3 DEF Tiled, Neighbours
    <3>2. a + T[a].real_size <= b + E[b]
      BY <1>1, <1>2, <3>1
    <3>3. QED
      BY <1>4, <1>5, <3>1, <3>2
  <2>4. ASSUME NEW a \in DOMAIN U, U[a].split_right # NULL
        PROVE  /\ U[a].split_right \in DOMAIN U
               /\ a + U[a].real_size = U[a].split_right
               /\ U[U[a].split_right].split_left = a
    <3>1. /\ T[a].split_right \in DOMAIN T
          /\ a + T[a].real_size = T[a].split_right
          /\ T[T[a].split_right].split_left = a
      BY <2>4 DEF Tiled, Neighbours
    <3>2. T[a].split_right # t
      BY <1>1, <3>1 DEF NULL
    <3>3. QED
      BY <3>1, <3>2
  <2>5. ASSUME NEW a \in DOMAIN U, U[a].split_left # NULL
        PROVE  /\ U[a].split_left \in DOMAIN U
               /\ U[U[a].split_left].split_right = a
    <3>1. T[a].split_left \in DOMAIN T /\ T[T[a].split_left].split_right = a
      BY <2>5 DEF Tiled, Neighbours
    <3>2. T[a].split_left # t
      BY <1>1, <3>1 DEF NULL
    <3>3. QED
      BY <3>1, <3>2
  <2>6. QED
    BY <2>1, <2>2, <2>3, <2>4, <2>5 DEF Neighbours
<1>9. QED
  BY <1>1, <1>6, <1>7, <1>8 DEF Tiled

-----------------------------------------------------------------------------
(* The lists.                                                              *)

\* Tags on no list may come and go.
LEMMA SameLists ==
  ASSUME NEW T, NEW U, NEW F, Lists(T, F),
         \A a \in DOMAIN T \cap DOMAIN U :
           U[a].index = T[a].index /\ U[a].next = T[a].next /\ U[a].prev = T[a].prev,
         \A a \in DOMAIN T \ DOMAIN U : T[a].index = -1,
         \A a \in DOMAIN U \ DOMAIN T :
           U[a].index = -1 /\ U[a].next = NULL /\ U[a].prev = NULL
  PROVE  Lists(U, F)
<1>1. ASSUME NEW i \in Index
      PROVE  \E L \in Nat : \E s : IsList(U, F, i, L, s)
  <2>L. PICK L \in Nat : \E s : IsList(T, F, i, L, s)
    BY DEF Lists
  <2>1. PICK s : IsList(T, F, i, L, s)
    BY <2>L
  <2>2. \A n \in 1 .. L : s[n] \in DOMAIN T /\ T[s[n]].index = i
    BY <2>1 DEF IsList
  <2>3. \A n \in 1 .. L : s[n] \in DOMAIN T \cap DOMAIN U
    BY <2>2, IndexNat
  <2>4. s \in [1 .. L -> DOMAIN U]
    BY <2>1, <2>3 DEF IsList
  <2>5. \A t \in DOMAIN U : U[t].index = i <=> \E n \in 1 .. L : s[n] = t
    BY <2>1, <2>3, IndexNat DEF IsList
  <2>6. \A n \in 1 .. L :
          /\ U[s[n]].next = IF n = L THEN NULL ELSE s[n + 1]
          /\ U[s[n]].prev = IF n = 1 THEN NULL ELSE s[n - 1]
    BY <2>1, <2>3 DEF IsList
  <2>7. IsList(U, F, i, L, s)
    BY <2>1, <2>4, <2>5, <2>6 DEF IsList
  <2>8. QED
    BY <2>7
<1>2. QED
  BY <1>1 DEF Lists

\* A link leads to a tag of the same list.
LEMMA LinksStay ==
  ASSUME NEW T, NEW F, Lists(T, F), NEW t \in DOMAIN T, T[t].index \in Index
  PROVE  /\ T[t].next # NULL =>
              T[t].next \in DOMAIN T /\ T[T[t].next].index = T[t].index
         /\ T[t].prev # NULL =>
              T[t].prev \in DOMAIN T /\ T[T[t].prev].index = T[t].index
<1> DEFINE i == T[t].index
<1>L. PICK L \in Nat : \E s : IsList(T, F, i, L, s)
  BY DEF Lists
<1>1. PICK s : IsList(T, F, i, L, s)
  BY <1>L
<1>2. PICK k \in 1 .. L : s[k] = t
  BY <1>1 DEF IsList
<1>3. \A n \in 1 .. L : s[n] \in DOMAIN T /\ T[s[n]].index = i
  BY <1>1 DEF IsList
<1>4. T[t].next # NULL => k + 1 \in 1 .. L /\ T[t].next = s[k + 1]
  BY <1>1, <1>2 DEF IsList
<1>5. T[t].prev # NULL => k - 1 \in 1 .. L /\ T[t].prev = s[k - 1]
  BY <1>1, <1>2 DEF IsList
<1>6. QED
  BY <1>3, <1>4, <1>5

\* insert_tag puts a tag before the first of its list.
LEMMA LinkedLists ==
  ASSUME NEW T, NEW U, NEW i \in Index, NEW t \in DOMAIN T, Lists(T, l_freePages),
         NULL \notin DOMAIN T, t \in Int, T[t].index = -1, LinkedTo(T, U, t, i)
  PROVE  Lists(U, [l_freePages EXCEPT ![i] = t])
<1> DEFINE F == l_freePages
           G == [F EXCEPT ![i] = t]
<1>1. /\ F \in [Index -> Int] /\ G \in [Index -> Int] /\ G[i] = t
      /\ \A j \in Index : j # i => G[j] = F[j]
  BY DEF Lists
<1>2. /\ DOMAIN U = DOMAIN T
      /\ \A a \in DOMAIN T :
           /\ U[a].index = IF a = t THEN i ELSE T[a].index
           /\ U[a].next = IF a = t /\ F[i] # NULL THEN F[i] ELSE T[a].next
           /\ U[a].prev = IF a = F[i] THEN t ELSE T[a].prev
  BY DEF LinkedTo, SameTiling
<1>3. T[t].next = NULL /\ T[t].prev = NULL
  BY IndexNat DEF Lists
<1>L. PICK L \in Nat : \E s : IsList(T, F, i, L, s)
  BY DEF Lists
<1>4. PICK s : IsList(T, F, i, L, s)
  BY <1>L
<1>5. \A n \in 1 .. L : s[n] \in DOMAIN T /\ T[s[n]].index = i /\ s[n] # NULL /\ s[n] # t
  BY <1>4, IndexNat DEF IsList
<1>6. F[i] # NULL => F[i] \in DOMAIN T /\ T[F[i]].index = i
  BY <1>4, <1>5 DEF IsList
<1> HIDE DEF F, G
<1>7. \E K \in Nat : \E r : IsList(U, G, i, K, r)
  <2> DEFINE r == [n \in 1 .. L + 1 |-> IF n = 1 THEN t ELSE s[n - 1]]
  <2>1. /\ \A n \in 1 .. L : n + 1 \in 1 .. L + 1 /\ r[n + 1] = s[n]
        /\ 1 \in 1 .. L + 1 /\ r[1] = t
    OBVIOUS
  <2>2. \A n \in 1 .. L + 1 : n = 1 \/ (n - 1 \in 1 .. L /\ r[n] = s[n - 1])
    OBVIOUS
  <2>3. r \in [1 .. L + 1 -> DOMAIN U]
    <3>1. \A n \in 1 .. L + 1 : r[n] \in DOMAIN U
      BY <1>2, <1>5, <2>1, <2>2
    <3>2. QED
      BY <3>1
  <2> HIDE DEF r
  <2>4. \A m, n \in 1 .. L + 1 : r[m] = r[n] => m = n
    <3> SUFFICES ASSUME NEW m \in 1 .. L + 1, NEW n \in 1 .. L + 1, r[m] = r[n]
                 PROVE  m = n
      OBVIOUS
    <3>1. CASE m = 1 \/ n = 1
      BY <1>5, <2>1, <2>2, <3>1
    <3>2. CASE m # 1 /\ n # 1
      <4>1. m - 1 \in 1 .. L /\ n - 1 \in 1 .. L /\ s[m - 1] = s[n - 1]
        BY <2>2, <3>2
      <4>2. m - 1 = n - 1
        BY <1>4, <4>1 DEF IsList
      <4>3. QED
        BY <4>2
    <3>3. QED
      BY <3>1, <3>2
  <2>5. \A a \in DOMAIN U : U[a].index = i <=> \E n \in 1 .. L + 1 : r[n] = a
    <3> TAKE a \in DOMAIN U
    <3>1. CASE a = t
      BY <1>2, <2>1, <3>1
    <3>2. CASE a # t
      <4>1. U[a].index = i <=> \E n \in 1 .. L : s[n] = a
        BY <1>2, <1>4, <3>2 DEF IsList
      <4>2. (\E n \in 1 .. L : s[n] = a) <=> \E n \in 1 .. L + 1 : r[n] = a
        BY <2>1, <2>2, <3>2
      <4>3. QED
        BY <4>1, <4>2
    <3>3. QED
      BY <3>1, <3>2
  <2>6. \A n \in 1 .. L + 1 :
          /\ U[r[n]].next = IF n = L + 1 THEN NULL ELSE r[n + 1]
          /\ U[r[n]].prev = IF n = 1 THEN NULL ELSE r[n - 1]
    <3> TAKE n \in 1 .. L + 1
    <3>1. CASE n = 1
      <4>1. F[i] = IF L = 0 THEN NULL ELSE s[1]
        BY <1>4 DEF IsList
      <4>2. U[t].next = IF L = 0 THEN NULL ELSE s[1]
        BY <1>2, <1>3, <1>5, <4>1
      <4>3. U[t].prev = NULL
        BY <1>2, <1>3, <1>5, <1>6, IndexNat
      <4>4. L # 0 => r[2] = s[1]
        BY <2>2
      <4>5. QED
        BY <2>1, <3>1, <4>2, <4>3, <4>4
    <3>2. CASE n # 1
      <4> DEFINE m == n - 1
      <4>1. m \in 1 .. L /\ r[n] = s[m] /\ m + 1 = n
        BY <2>2, <3>2
      <4>2. /\ T[s[m]].next = IF m = L THEN NULL ELSE s[m + 1]
            /\ T[s[m]].prev = IF m = 1 THEN NULL ELSE s[m - 1]
        BY <1>4, <4>1 DEF IsList
      <4>3. U[s[m]].next = IF n = L + 1 THEN NULL ELSE r[n + 1]
        <5>1. U[s[m]].next = T[s[m]].next
          BY <1>2, <1>5, <4>1
        <5>2. m # L => r[n + 1] = s[n]
          BY <2>1, <4>1
        <5>3. QED
          BY <4>1, <4>2, <5>1, <5>2
      <4>4. U[s[m]].prev = r[m]
        <5>1. CASE m = 1
          <6>1. F[i] = s[1]
            BY <1>4, <4>1 DEF IsList
          <6>2. QED
            BY <1>2, <1>5, <2>1, <4>1, <5>1, <6>1
        <5>2. CASE m # 1
          <6>1. m - 1 \in 1 .. L /\ r[m] = s[m - 1] /\ 1 \in 1 .. L
            BY <2>1, <4>1, <5>2
          <6>2. s[m] # F[i]
            BY <1>4, <4>1, <5>2, <6>1 DEF IsList
          <6>3. QED
            BY <1>2, <1>5, <4>1, <4>2, <5>2, <6>1, <6>2
        <5>3. QED
          BY <5>1, <5>2
      <4>5. QED
        BY <3>2, <4>1, <4>3, <4>4
    <3>3. QED
      BY <3>1, <3>2
  <2>7. G[i] = IF L + 1 = 0 THEN NULL ELSE r[1]
    BY <1>1, <2>1
  <2>8. IsList(U, G, i, L + 1, r)
    BY <2>3, <2>4, <2>5, <2>6, <2>7 DEF IsList
  <2>9. L + 1 \in Nat
    OBVIOUS
  <2>10. QED
    BY <2>8, <2>9
<1>8. ASSUME NEW j \in Index, j # i
      PROVE  \E K \in Nat : \E r : IsList(U, G, j, K, r)
  <2>K. PICK K \in Nat : \E r : IsList(T, F, j, K, r)
    BY DEF Lists, F
  <2>1. PICK r : IsList(T, F, j, K, r)
    BY <2>K
  <2>2. \A n \in 1 .. K : r[n] \in DOMAIN T /\ r[n] # t /\ r[n] # F[i]
    <3>1. \A n \in 1 .. K : r[n] \in DOMAIN T /\ T[r[n]].index = j
      BY <2>1 DEF IsList
    <3>2. j # -1
      BY IndexNat
    <3>3. QED
      BY <1>6, <1>8, <3>1, <3>2
  <2>3. \A n \in 1 .. K : U[r[n]].next = T[r[n]].next /\ U[r[n]].prev = T[r[n]].prev
    BY <1>2, <2>2
  <2>4. \A a \in DOMAIN U : U[a].index = j <=> \E n \in 1 .. K : r[n] = a
    BY <1>2, <1>8, <2>1, <2>2, IndexNat DEF IsList
  <2>5. IsList(U, G, j, K, r)
    BY <1>1, <1>2, <1>8, <2>1, <2>3, <2>4 DEF IsList
  <2>6. QED
    BY <2>5
<1>9. \A a \in DOMAIN U :
        \/ U[a].index \in Index
        \/ U[a].index = -1 /\ U[a].next = NULL /\ U[a].prev = NULL
  <2> TAKE a \in DOMAIN U
  <2>1. CASE a = t
    BY <1>2, <2>1
  <2>2. CASE a # t
    <3>1. \/ T[a].index \in Index
          \/ T[a].index = -1 /\ T[a].next = NULL /\ T[a].prev = NULL
      BY <1>2 DEF Lists
    <3>2. T[a].index = -1 => a # F[i]
      BY <1>2, <1>6, IndexNat
    <3>3. QED
      BY <1>2, <2>2, <3>1, <3>2
  <2>3. QED
    BY <2>1, <2>2
<1>10. QED
  BY <1>1, <1>7, <1>8, <1>9 DEF Lists, F, G

\* remove_tag takes a tag out of its list and closes the gap.
LEMMA UnlinkedLists ==
  ASSUME Tags(tag), Lists(tag, l_freePages), NULL \notin DOMAIN tag,
         NEW t \in DOMAIN tag, tag[t].index \in Index, NEW U, UnlinkedTo(U, t)
  PROVE  Lists(U, HeadsWithout(t))
<1> DEFINE F == l_freePages
           G == HeadsWithout(t)
           i == tag[t].index
           next == tag[t].next
           prev == tag[t].prev
<1>1. /\ next \in Int /\ prev \in Int
      /\ F \in [Index -> Int] /\ G \in [Index -> Int]
      /\ G[i] = IF F[i] = t THEN next ELSE F[i]
      /\ \A j \in Index : j # i => G[j] = F[j]
  <2>1. next \in Int /\ prev \in Int /\ F \in [Index -> Int]
    BY DEF Tags, TagRecord, Lists
  <2>2. G = [F EXCEPT ![i] = IF F[i] = t THEN next ELSE F[i]]
    BY DEF HeadsWithout
  <2>3. QED
    BY <2>1, <2>2
<1>2. /\ DOMAIN U = DOMAIN tag
      /\ \A a \in DOMAIN tag :
           /\ U[a].index = IF a = t THEN -1 ELSE tag[a].index
           /\ U[a].next = IF a = t THEN NULL
                          ELSE IF a = prev THEN next ELSE tag[a].next
           /\ U[a].prev = IF a = t THEN NULL
                          ELSE IF a = next THEN prev ELSE tag[a].prev
  BY DEF UnlinkedTo, SameTiling
<1>3. /\ next \in DOMAIN tag => tag[next].index = i
      /\ prev \in DOMAIN tag => tag[prev].index = i
  BY LinksStay
<1>L. PICK L \in Nat : \E s : IsList(tag, F, i, L, s)
  BY DEF Lists
<1>4. PICK s : IsList(tag, F, i, L, s)
  BY <1>L
<1>5. PICK k \in 1 .. L : s[k] = t
  BY <1>4 DEF IsList
<1>6. /\ \A n \in 1 .. L : s[n] \in DOMAIN tag /\ tag[s[n]].index = i /\ s[n] # NULL
      /\ \A m, n \in 1 .. L : s[m] = s[n] => m = n
      /\ \A n \in 1 .. L :
           /\ tag[s[n]].next = IF n = L THEN NULL ELSE s[n + 1]
           /\ tag[s[n]].prev = IF n = 1 THEN NULL ELSE s[n - 1]
      /\ F[i] = s[1] /\ L # 0
  BY <1>4, <1>5 DEF IsList
<1>7. /\ next = IF k = L THEN NULL ELSE s[k + 1]
      /\ prev = IF k = 1 THEN NULL ELSE s[k - 1]
  BY <1>5, <1>6
<1> HIDE DEF F, G, i, next, prev
<1>8. \E K \in Nat : \E r : IsList(U, G, i, K, r)
  <2> DEFINE r == [n \in 1 .. L - 1 |-> IF n < k THEN s[n] ELSE s[n + 1]]
  <2>1. \A n \in 1 .. L - 1 :
          /\ n < k => n \in 1 .. L /\ r[n] = s[n]
          /\ ~(n < k) => n + 1 \in 1 .. L /\ r[n] = s[n + 1]
    OBVIOUS
  <2>2. \A n \in 1 .. L - 1 : r[n] \in DOMAIN U /\ r[n] # t
    BY <1>2, <1>5, <1>6, <2>1
  <2>3. r \in [1 .. L - 1 -> DOMAIN U]
    BY <2>2
  <2> HIDE DEF r
  <2>4. \A m, n \in 1 .. L - 1 : r[m] = r[n] => m = n
    <3> SUFFICES ASSUME NEW m \in 1 .. L - 1, NEW n \in 1 .. L - 1, r[m] = r[n]
                 PROVE  m = n
      OBVIOUS
    <3>1. CASE m < k /\ n < k
      BY <1>6, <2>1, <3>1
    <3>2. CASE ~(m < k) /\ ~(n < k)
      <4>1. m + 1 = n + 1
        BY <1>6, <2>1, <3>2
      <4>2. QED
        BY <4>1
    <3>3. CASE m < k /\ ~(n < k)
      <4>1. m = n + 1
        BY <1>6, <2>1, <3>3
      <4>2. QED
        BY <3>3, <4>1
    <3>4. CASE ~(m < k) /\ n < k
      <4>1. m + 1 = n
        BY <1>6, <2>1, <3>4
      <4>2. QED
        BY <3>4, <4>1
    <3>5. QED
      BY <3>1, <3>2, <3>3, <3>4
  <2>5. \A a \in DOMAIN U : U[a].index = i <=> \E n \in 1 .. L - 1 : r[n] = a
    <3> TAKE a \in DOMAIN U
    <3>1. CASE a = t
      BY <1>2, <2>2, <3>1, IndexNat DEF i
    <3>2. CASE a # t
      <4>1. U[a].index = i <=> \E n \in 1 .. L : s[n] = a
        BY <1>2, <1>4, <3>2 DEF IsList
      <4>2. ASSUME NEW n \in 1 .. L, s[n] = a
            PROVE  \E m \in 1 .. L - 1 : r[m] = a
        <5>1. CASE n < k
          <6>1. n \in 1 .. L - 1
            BY <5>1
          <6>2. QED
            BY <2>1, <4>2, <5>1, <6>1
        <5>2. CASE n > k
          <6>1. n - 1 \in 1 .. L - 1 /\ ~(n - 1 < k) /\ n - 1 + 1 = n
            BY <5>2
          <6>2. r[n - 1] = s[n]
            BY <2>1, <6>1
          <6>3. QED
            BY <4>2, <6>1, <6>2
        <5>3. QED
          BY <1>5, <3>2, <4>2, <5>1, <5>2
      <4>3. ASSUME NEW m \in 1 .. L - 1, r[m] = a
            PROVE  \E n \in 1 .. L : s[n] = a
        BY <2>1, <4>3
      <4>4. QED
        BY <4>1, <4>2, <4>3
    <3>3. QED
      BY <3>1, <3>2
  <2>6. ASSUME NEW n \in 1 .. L - 1
        PROVE  /\ U[r[n]].next = IF n = L - 1 THEN NULL ELSE r[n + 1]
               /\ U[r[n]].prev = IF n = 1 THEN NULL ELSE r[n - 1]
    <3>1. CASE n < k
      <4>1. r[n] = s[n] /\ n \in 1 .. L /\ s[n] \in DOMAIN tag /\ s[n] # t /\ n # L
        BY <1>5, <1>6, <2>1, <3>1
      <4>2. U[r[n]].next = IF n = L - 1 THEN NULL ELSE r[n + 1]
        <5>1. CASE n = k - 1
          <6>1. prev = s[n]
            BY <1>7, <5>1
          <6>2. U[s[n]].next = next
            BY <1>2, <4>1, <6>1
          <6>3. k # L => k \in 1 .. L - 1 /\ r[k] = s[k + 1]
            BY <2>1
          <6>4. QED
            BY <1>7, <4>1, <5>1, <6>2, <6>3
        <5>2. CASE n < k - 1
          <6>1. s[n] # prev
            BY <1>6, <1>7, <4>1, <5>2
          <6>2. U[s[n]].next = s[n + 1]
            BY <1>2, <1>6, <4>1, <6>1
          <6>3. n # L - 1 /\ n + 1 \in 1 .. L - 1 /\ n + 1 < k
            BY <5>2
          <6>4. r[n + 1] = s[n + 1]
            BY <2>1, <6>3
          <6>5. QED
            BY <4>1, <6>2, <6>3, <6>4
        <5>3. QED
          BY <3>1, <5>1, <5>2
      <4>3. U[r[n]].prev = IF n = 1 THEN NULL ELSE r[n - 1]
        <5>1. s[n] # next
          BY <1>6, <1>7, <3>1, <4>1
        <5>2. U[s[n]].prev = IF n = 1 THEN NULL ELSE s[n - 1]
          BY <1>2, <1>6, <4>1, <5>1
        <5>3. n # 1 => r[n - 1] = s[n - 1]
          BY <2>1, <3>1
        <5>4. QED
          BY <4>1, <5>2, <5>3
      <4>4. QED
        BY <4>2, <4>3
    <3>2. CASE ~(n < k)
      <4> DEFINE m == n + 1
      <4>1. /\ m \in 1 .. L /\ r[n] = s[m] /\ s[m] \in DOMAIN tag /\ s[m] # t
            /\ m > k /\ m - 1 = n /\ m # 1
        <5>1. m \in 1 .. L /\ r[n] = s[m] /\ m > k
          BY <2>1, <3>2
        <5>2. QED
          BY <1>5, <1>6, <5>1
      <4>2. U[r[n]].next = IF n = L - 1 THEN NULL ELSE r[n + 1]
        <5>1. s[m] # prev
          BY <1>6, <1>7, <4>1
        <5>2. U[s[m]].next = IF m = L THEN NULL ELSE s[m + 1]
          BY <1>2, <1>6, <4>1, <5>1
        <5>3. m # L => m \in 1 .. L - 1 /\ ~(m < k)
          BY <4>1
        <5>4. m # L => r[m] = s[m + 1]
          BY <2>1, <5>3
        <5>5. QED
          BY <4>1, <5>2, <5>4
      <4>3. U[r[n]].prev = IF n = 1 THEN NULL ELSE r[n - 1]
        <5>1. CASE n = k
          <6>1. next = s[m]
            BY <1>7, <4>1, <5>1
          <6>2. U[s[m]].prev = prev
            BY <1>2, <4>1, <6>1
          <6>3. n # 1 => r[n - 1] = s[n - 1]
            BY <2>1, <5>1
          <6>4. QED
            BY <1>7, <4>1, <5>1, <6>2, <6>3
        <5>2. CASE n > k
          <6>1. s[m] # next
            BY <1>6, <1>7, <4>1, <5>2
          <6>2. U[s[m]].prev = s[n]
            BY <1>2, <1>6, <4>1, <6>1
          <6>3. n # 1 /\ n - 1 \in 1 .. L - 1 /\ ~(n - 1 < k) /\ n - 1 + 1 = n
            BY <5>2
          <6>4. r[n - 1] = s[n]
            BY <2>1, <6>3
          <6>5. QED
            BY <4>1, <6>2, <6>3, <6>4
        <5>3. QED
          BY <3>2, <5>1, <5>2
      <4>4. QED
        BY <4>2, <4>3
    <3>3. QED
      BY <3>1, <3>2
  <2>7. G[i] = IF L - 1 = 0 THEN NULL ELSE r[1]
    <3>1. 1 \in 1 .. L
      BY <1>6
    <3>2. CASE k = 1
      <4>1. G[i] = next
        BY <1>1, <1>5, <1>6, <3>2
      <4>2. L # 1 => r[1] = s[2]
        BY <2>1, <3>2
      <4>3. QED
        BY <1>7, <3>2, <4>1, <4>2
    <3>3. CASE k # 1
      <4>1. F[i] # t
        BY <1>5, <1>6, <3>1, <3>3
      <4>2. L # 1 /\ r[1] = s[1]
        BY <2>1, <3>3
      <4>3. QED
        BY <1>1, <1>6, <4>1, <4>2
    <3>4. QED
      BY <3>2, <3>3
  <2>8. IsList(U, G, i, L - 1, r)
    BY <2>3, <2>4, <2>5, <2>6, <2>7 DEF IsList
  <2>9. L - 1 \in Nat
    BY <1>6
  <2>10. QED
    BY <2>8, <2>9
<1>9. ASSUME NEW j \in Index, j # i
      PROVE  \E K \in Nat : \E r : IsList(U, G, j, K, r)
  <2>K. PICK K \in Nat : \E r : IsList(tag, F, j, K, r)
    BY DEF Lists, F
  <2>1. PICK r : IsList(tag, F, j, K, r)
    BY <2>K
  <2>2. \A n \in 1 .. K : r[n] \in DOMAIN tag /\ r[n] # t /\ r[n] # next /\ r[n] # prev
    <3>1. \A n \in 1 .. K : r[n] \in DOMAIN tag /\ tag[r[n]].index = j
      BY <2>1 DEF IsList
    <3>2. QED
      BY <1>3, <1>9, <3>1 DEF i
  <2>3. \A n \in 1 .. K : U[r[n]].next = tag[r[n]].next /\ U[r[n]].prev = tag[r[n]].prev
    BY <1>2, <2>2
  <2>4. \A a \in DOMAIN U : U[a].index = j <=> \E n \in 1 .. K : r[n] = a
    BY <1>2, <1>9, <2>1, <2>2, IndexNat DEF IsList
  <2>5. IsList(U, G, j, K, r)
    BY <1>1, <1>2, <1>9, <2>1, <2>3, <2>4 DEF IsList
  <2>6. QED
    BY <2>5
<1>10. \A a \in DOMAIN U :
        \/ U[a].index \in Index
        \/ U[a].index = -1 /\ U[a].next = NULL /\ U[a].prev = NULL
  <2> TAKE a \in DOMAIN U
  <2>1. CASE a = t
    BY <1>2, <2>1
  <2>2. CASE a # t
    <3>1. \/ tag[a].index \in Index
          \/ tag[a].index = -1 /\ tag[a].next = NULL /\ tag[a].prev = NULL
      BY <1>2 DEF Lists
    <3>2. tag[a].index = -1 => a # next /\ a # prev
      BY <1>2, <1>3, IndexNat DEF i
    <3>3. QED
      BY <1>2, <2>2, <3>1, <3>2
  <2>3. QED
    BY <2>1, <2>2
<1>11. QED
  <2>1. i \in Index
    BY DEF i
  <2>2. QED
    BY <1>1, <1>8, <1>9, <1>10, <2>1 DEF Lists, G

\* Following the next links from its head walks a list once.
LEMMA WalkList ==
  ASSUME Lists(tag, l_freePages), NULL \notin DOMAIN tag, IsFiniteSet(DOMAIN tag),
         NEW i \in Index
  PROVE  LET walk == ListWalk(i)
         IN  {walk[n] : n \in DOMAIN walk} \ {NULL} = {t \in DOMAIN tag : tag[t].index = i}
<1> DEFINE C == Cardinality(DOMAIN tag)
           F == l_freePages
           Follows(walk) ==
             walk = [n \in 0 .. C |->
                       IF n = 0 THEN F[i]
                       ELSE IF walk[n - 1] = NULL THEN NULL ELSE tag[walk[n - 1]].next]
<1>1. C \in Nat
  BY FS_CardinalityType
<1>L. PICK L \in Nat : \E s : IsList(tag, F, i, L, s)
  BY DEF Lists
<1>2. PICK s : IsList(tag, F, i, L, s)
  BY <1>L
<1>3. /\ s \in [1 .. L -> DOMAIN tag]
      /\ \A n \in 1 .. L : s[n] \in DOMAIN tag /\ s[n] # NULL
      /\ \A m, n \in 1 .. L : s[m] = s[n] => m = n
      /\ F[i] = IF L = 0 THEN NULL ELSE s[1]
      /\ \A n \in 1 .. L : tag[s[n]].next = IF n = L THEN NULL ELSE s[n + 1]
      /\ \A t \in DOMAIN tag : tag[t].index = i <=> \E n \in 1 .. L : s[n] = t
  BY <1>2 DEF IsList
<1>4. L <= C
  <2> SUFFICES ASSUME C < L
               PROVE  FALSE
    BY <1>1
  <2>1. IsFiniteSet(1 .. L) /\ Cardinality(1 .. L) = L
    BY <1>1, FS_Interval
  <2>2. C < Cardinality(1 .. L)
    BY <2>1
  <2>3. \E x, y \in 1 .. L : x # y /\ s[x] = s[y]
    BY <1>3, <2>1, <2>2, FS_PigeonHole
  <2>4. QED
    BY <1>3, <2>3
<1> DEFINE w == [n \in 0 .. C |-> IF n < L THEN s[n + 1] ELSE NULL]
<1>5. ListWalk(i) = CHOOSE walk : Follows(walk)
  BY DEF ListWalk
<1>6. Follows(w)
  <2>1. ASSUME NEW n \in 0 .. C
        PROVE  w[n] = IF n = 0 THEN F[i]
                      ELSE IF w[n - 1] = NULL THEN NULL ELSE tag[w[n - 1]].next
    <3>1. CASE n = 0
      BY <1>1, <1>3, <3>1
    <3>2. CASE n # 0 /\ n < L
      <4>1. n \in 1 .. L /\ w[n - 1] = s[n] /\ w[n] = s[n + 1] /\ n # L
        BY <1>1, <3>2
      <4>2. QED
        BY <1>3, <3>2, <4>1
    <3>3. CASE n # 0 /\ n = L
      <4>1. n \in 1 .. L /\ w[n - 1] = s[n] /\ w[n] = NULL
        BY <1>1, <3>3
      <4>2. QED
        BY <1>3, <3>3, <4>1
    <3>4. CASE n # 0 /\ n > L
      BY <1>1, <3>4
    <3>5. QED
      BY <1>1, <3>1, <3>2, <3>3, <3>4
  <2>2. QED
    BY <2>1
<1> HIDE DEF Follows
<1>7. Follows(ListWalk(i))
  BY <1>5, <1>6
<1> DEFINE walk == ListWalk(i)
<1>8. /\ DOMAIN walk = 0 .. C
      /\ \A n \in 0 .. C : walk[n] =
           IF n = 0 THEN F[i]
           ELSE IF walk[n - 1] = NULL THEN NULL ELSE tag[walk[n - 1]].next
  <2> HIDE DEF walk
  <2>1. Follows(walk)
    BY <1>7 DEF walk
  <2>2. QED
    BY <2>1 DEF Follows
<1>9. \A n \in 0 .. C : w[n] =
           IF n = 0 THEN F[i]
           ELSE IF w[n - 1] = NULL THEN NULL ELSE tag[w[n - 1]].next
  <2>1. \A v : Follows(v) => \A n \in 0 .. C : v[n] =
           IF n = 0 THEN F[i]
           ELSE IF v[n - 1] = NULL THEN NULL ELSE tag[v[n - 1]].next
    BY DEF Follows
  <2> HIDE DEF w
  <2>2. QED
    BY <1>6, <2>1
<1> HIDE DEF walk, w, C
<1>10. \A n \in Nat : 0 <= n => n \in {m \in Nat : m <= C => walk[m] = w[m]}
  <2> DEFINE S == {m \in Nat : m <= C => walk[m] = w[m]}
  <2>1. 0 \in S
    BY <1>1, <1>8, <1>9
  <2>2. \A n \in Nat : 0 <= n /\ n \in S => n + 1 \in S
    <3> SUFFICES ASSUME NEW n \in Nat, n \in S, n + 1 <= C
                 PROVE  walk[n + 1] = w[n + 1]
      OBVIOUS
    <3>1. n + 1 \in 0 .. C /\ n + 1 # 0 /\ n + 1 - 1 = n /\ walk[n] = w[n]
      BY <1>1
    <3>2. QED
      BY <1>8, <1>9, <3>1
  <2> HIDE DEF S
  <2>3. \A n \in Nat : 0 <= n => n \in S
    BY <2>1, <2>2, SetInduction
  <2>4. QED
    BY <2>3 DEF S
<1>11. \A n \in 0 .. C : walk[n] = IF n < L THEN s[n + 1] ELSE NULL
  <2>1. \A n \in 0 .. C : walk[n] = w[n]
    BY <1>1, <1>10
  <2>2. \A n \in 0 .. C : w[n] = IF n < L THEN s[n + 1] ELSE NULL
    BY DEF w
  <2>3. QED
    BY <2>1, <2>2
<1>12. {walk[n] : n \in DOMAIN walk} \ {NULL} = {t \in DOMAIN tag : tag[t].index = i}
  <2>1. ASSUME NEW n \in 0 .. C, walk[n] # NULL
        PROVE  walk[n] \in DOMAIN tag /\ tag[walk[n]].index = i
    <3>1. n < L /\ n + 1 \in 1 .. L
      BY <1>1, <1>11, <2>1
    <3>2. QED
      BY <1>3, <1>11, <3>1
  <2>2. ASSUME NEW t \in DOMAIN tag, tag[t].index = i
        PROVE  \E n \in 0 .. C : walk[n] = t
    <3>1. PICK n \in 1 .. L : s[n] = t
      BY <1>3, <2>2
    <3>2. n - 1 \in 0 .. C /\ n - 1 < L /\ n - 1 + 1 = n
      BY <1>1, <1>4
    <3>3. QED
      BY <1>11, <3>1, <3>2
  <2>3. QED
    BY <1>8, <2>1, <2>2
<1>13. QED
  BY <1>12 DEF walk

-----------------------------------------------------------------------------
(* What the invariant says at once.                                        *)

LEMMA Basics ==
  ASSUME IndInv
  PROVE  /\ NULL \notin DOMAIN tag /\ IsFiniteSet(DOMAIN tag)
         /\ \A a \in DOMAIN tag :
              /\ a \in Int /\ a > 0 /\ tag[a].real_size \in Int
              /\ tag[a].real_size >= TAG /\ a + tag[a].real_size <= Top
              /\ tag[a].split_right \in Int /\ tag[a].split_left \in Int
              /\ tag[a].index \in Index \cup {-1}
              /\ tag[a].index >= 0 <=> tag[a].index \in Index
              /\ tag[a].index >= 0 <=> tag[a].index # -1
<1>1. Tags(tag) /\ Tiled(tag, Extent) /\ Lists(tag, l_freePages)
  BY DEF IndInv
<1>2. \A a \in DOMAIN tag :
        /\ a \in Int /\ a > 0 /\ tag[a].real_size \in Int /\ tag[a].real_size > 0
        /\ a + tag[a].real_size <= Top
        /\ tag[a].split_right \in Int /\ tag[a].split_left \in Int
  BY <1>1, InBlock
<1>3. IsFiniteSet(DOMAIN tag)
  <2>1. DOMAIN tag \in SUBSET (1 .. Top)
    BY <1>2, Widths
  <2>2. IsFiniteSet(1 .. Top)
    BY FS_Interval, Widths
  <2>3. QED
    BY <2>1, <2>2, FS_Subset
<1>4. \A a \in DOMAIN tag :
        /\ tag[a].real_size >= TAG
        /\ tag[a].index \in Index \cup {-1}
        /\ tag[a].index >= 0 <=> tag[a].index \in Index
        /\ tag[a].index >= 0 <=> tag[a].index # -1
  <2> TAKE a \in DOMAIN tag
  <2>1. tag[a].index \in Index \cup {-1}
    BY <1>1 DEF Lists
  <2>2. tag[a].real_size >= TAG
    BY <1>1 DEF Tiled, Apart
  <2>3. QED
    BY <2>1, <2>2, IndexNat
<1>5. QED
  BY <1>2, <1>3, <1>4 DEF NULL

\* The tag right of another, and that left of another.
LEMMA NeighbourTags ==
  ASSUME IndInv
  PROVE  \A a \in DOMAIN tag :
           /\ tag[a].split_right # NULL =>
                /\ tag[a].split_right \in DOMAIN tag /\ tag[a].split_right # a
                /\ tag[tag[a].split_right].split_left = a
           /\ tag[a].split_left # NULL =>
                /\ tag[a].split_left \in DOMAIN tag /\ tag[a].split_left # a
                /\ tag[tag[a].split_left].split_right = a
<1> TAKE a \in DOMAIN tag
<1>1. /\ tag[a].split_right # NULL =>
           /\ tag[a].split_right \in DOMAIN tag
           /\ a + tag[a].real_size = tag[a].split_right
           /\ tag[tag[a].split_right].split_left = a
      /\ tag[a].split_left # NULL =>
           /\ tag[a].split_left \in DOMAIN tag
           /\ tag[tag[a].split_left].split_right = a
  BY DEF IndInv, Tiled, Neighbours
<1>2. \A b \in DOMAIN tag : b \in Int /\ tag[b].real_size \in Int /\ tag[b].real_size > 0
  BY Basics, Widths
<1>3. \A b \in DOMAIN tag : tag[b].split_right # b
  <2> TAKE b \in DOMAIN tag
  <2>1. tag[b].split_right # NULL => b + tag[b].real_size = tag[b].split_right
    BY DEF IndInv, Tiled, Neighbours
  <2>2. b # NULL
    BY Basics
  <2>3. QED
    BY <1>2, <2>1, <2>2
<1>4. QED
  BY <1>1, <1>3

LEMMA SameCount ==
  ASSUME NEW T, NEW U, NEW C, Counted(T, C), \A i \in Index : WholeIn(U, i) = WholeIn(T, i)
  PROVE  Counted(U, C)
BY DEF Counted

-----------------------------------------------------------------------------
(* The steps of a call.                                                    *)

LEMMA InitInv == Init => IndInv
<1> SUFFICES ASSUME Init
             PROVE  IndInv
  OBVIOUS
<1>1. /\ DOMAIN tag = {} /\ DOMAIN pages = {} /\ DOMAIN live = {} /\ DOMAIN Extent = {}
      /\ tag = [a \in {} |-> NULL] /\ pages = [b \in {} |-> 0]
  BY DEF Init, Extent
<1>2. Tags(tag) /\ Sorted(tag) /\ Melded(tag)
  BY <1>1 DEF Tags, Sorted, Melded
<1>3. Tiled(tag, Extent)
  <2>1. Blocks(Extent)
    BY <1>1 DEF Blocks, Extent
  <2>2. QED
    BY <1>1, <2>1 DEF Tiled, Apart, Neighbours
<1>4. Lists(tag, l_freePages)
  <2>1. l_freePages = [i \in Index |-> NULL]
    BY DEF Init
  <2>2. ASSUME NEW i \in Index
        PROVE  \E L \in Nat : \E s : IsList(tag, l_freePages, i, L, s)
    <3> DEFINE none == [n \in 1 .. 0 |-> NULL]
    <3>1. none \in [1 .. 0 -> DOMAIN tag]
      OBVIOUS
    <3>2. IsList(tag, l_freePages, i, 0, none)
      BY <1>1, <2>1, <3>1 DEF IsList
    <3>3. QED
      BY <3>2
  <2>3. QED
    BY <1>1, <2>1, <2>2 DEF Lists, NULL
<1>5. Counted(tag, l_completePages)
  <2>1. l_completePages = [i \in Index |-> 0] /\ MAXCOMPLETE \in Nat
    BY WidthAssumption DEF Init
  <2>2. \A i \in Index : WholeIn(tag, i) = {}
    BY <1>1 DEF WholeIn
  <2>3. QED
    BY <2>1, <2>2, FS_EmptySet DEF Counted
<1>6. BlocksGiven
  BY <1>1 DEF BlocksGiven
<1>7. op = Idle
  BY DEF Init
<1>8. Owned
  BY <1>1, <1>7 DEF Owned, Idle, InTransit
<1>9. Control
  BY <1>7 DEF Control, Idle, Calling, NULL
<1>10. QED
  BY <1>2, <1>3, <1>4, <1>5, <1>6, <1>8, <1>9 DEF IndInv

\* What the steps that leave the tags alone preserve.
LEMMA TagsStay ==
  ASSUME IndInv, UNCHANGED <<tag, l_freePages, l_completePages, pages>>, Owned', Control'
  PROVE  IndInv'
<1>1. Extent' = Extent
  BY DEF Extent
<1>2. Tags(tag)' /\ Tiled(tag, Extent)'
  BY <1>1 DEF IndInv
<1>3. Lists(tag, l_freePages)' /\ Sorted(tag)' /\ Melded(tag)'
  BY DEF IndInv
<1>4. Counted(tag, l_completePages)' /\ BlocksGiven'
  BY DEF IndInv, BlocksGiven
<1>5. QED
  BY <1>2, <1>3, <1>4 DEF IndInv

LEMMA CallInv ==
  ASSUME IndInv, NEW fn \in {"malloc", "calloc", "realloc"}, NEW size \in Sizes,
         NEW old \in Int, old # NULL => old \in DOMAIN live, Call(fn, size, old)
  PROVE  IndInv'
<1>1. /\ op.pc = "idle" /\ (fn = "realloc" <=> old # NULL)
      /\ op' = [pc |-> "search", fn |-> fn, size |-> size, t |-> NULL, old |-> old]
      /\ UNCHANGED <<tag, l_freePages, l_completePages, pages, live>>
  BY DEF Call, At
<1>2. /\ op'.pc = "search" /\ op'.fn = fn /\ op'.size = size
      /\ op'.t = NULL /\ op'.old = old
  BY <1>1
<1>3. Owned'
  <2>1. InTransit = {} /\ InTransit' = {}
    BY <1>1, <1>2 DEF InTransit
  <2>2. QED
    BY <1>1, <2>1 DEF IndInv, Owned
<1>4. Control'
  BY <1>1, <1>2 DEF Control, Calling, NULL
<1>5. QED
  BY <1>1, <1>3, <1>4, TagsStay

LEMMA SearchFailedInv ==
  ASSUME IndInv, SearchFailed
  PROVE  IndInv'
<1>1. /\ op.pc = "search" /\ op' = [op EXCEPT !.pc = "pages"]
      /\ UNCHANGED <<tag, l_freePages, l_completePages, pages, live>>
  BY DEF SearchFailed, At
<1>2. /\ op'.pc = "pages" /\ op'.fn = op.fn /\ op'.size = op.size
      /\ op'.t = op.t /\ op'.old = op.old
  BY <1>1 DEF IndInv, Control
<1>3. Owned'
  <2>1. InTransit = {} /\ InTransit' = {}
    BY <1>1, <1>2 DEF InTransit
  <2>2. QED
    BY <1>1, <2>1 DEF IndInv, Owned
<1>4. Control'
  BY <1>1, <1>2 DEF IndInv, Control, Calling
<1>5. QED
  BY <1>1, <1>3, <1>4, TagsStay

LEMMA NoPagesInv ==
  ASSUME IndInv, NoPages
  PROVE  IndInv'
<1>1. /\ op.pc = "pages"
      /\ UNCHANGED <<tag, l_freePages, l_completePages, pages, live>>
      /\ \/ op' = [op EXCEPT !.pc = "fault"]
         \/ op.fn = "realloc" /\ op' = [op EXCEPT !.pc = "free"]
         \/ op' = Idle
  BY DEF NoPages, At
<1>2. Owned' /\ Control'
  <2>1. CASE op' = [op EXCEPT !.pc = "fault"]
    <3>1. /\ op'.pc = "fault" /\ op'.fn = op.fn /\ op'.size = op.size
          /\ op'.t = op.t /\ op'.old = op.old
      BY <2>1 DEF IndInv, Control
    <3>2. InTransit = {} /\ InTransit' = {}
      BY <1>1, <3>1 DEF InTransit
    <3>3. Owned'
      BY <1>1, <3>2 DEF IndInv, Owned
    <3>4. Control'
      BY <1>1, <2>1, <3>1 DEF IndInv, Control, Calling
    <3>5. QED
      BY <3>3, <3>4
  <2>2. CASE op.fn = "realloc" /\ op' = [op EXCEPT !.pc = "free"]
    <3>1. /\ op'.pc = "free" /\ op'.fn = op.fn /\ op'.size = op.size
          /\ op'.t = op.t /\ op'.old = op.old
      BY <2>2 DEF IndInv, Control
    <3>2. InTransit = {} /\ InTransit' = {}
      BY <1>1, <3>1 DEF InTransit
    <3>3. Owned'
      BY <1>1, <3>2 DEF IndInv, Owned
    <3>4. op.old \in DOMAIN live
      BY <1>1, <2>2 DEF IndInv, Control, Calling
    <3>5. Control'
      BY <1>1, <2>2, <3>1, <3>4 DEF IndInv, Control, Calling
    <3>6. QED
      BY <3>3, <3>5
  <2>3. CASE op' = Idle
    <3>1. InTransit = {} /\ InTransit' = {}
      BY <1>1, <2>3 DEF InTransit, Idle
    <3>2. Owned'
      BY <1>1, <3>1 DEF IndInv, Owned
    <3>3. Control'
      BY <1>1, <2>3 DEF Control, Calling, Idle, NULL
    <3>4. QED
      BY <3>2, <3>3
  <2>4. QED
    BY <1>1, <2>1, <2>2, <2>3
<1>3. QED
  BY <1>1, <1>2, TagsStay

\* The end of the caller's bytes wraps onto the header only when their number
\* and the header wrap by themselves: the memory of the heap ends below UINT.
LEMMA SplitWraps ==
  ASSUME IndInv, op.pc = "carve"
  PROVE  /\ SplitAt(op.t, op.size) - op.t \in 0 .. TAG - 1 <=> op.size + TAG >= UINT
         /\ op.t \in DOMAIN tag /\ op.size \in Sizes /\ op.size \in Nat
<1>1. op.t \in DOMAIN tag /\ op.size \in Sizes
  BY DEF IndInv, Control, Calling
<1>2. op.size \in 0 .. UINT - 1
  BY <1>1, RequestAssumption
<1>3. /\ op.t \in Int /\ op.t > 0 /\ tag[op.t].real_size \in Int
      /\ tag[op.t].real_size >= TAG /\ op.t + tag[op.t].real_size <= Top
  BY <1>1, Basics
<1>4. TAG \in Nat /\ UINT \in Nat /\ 2 * TAG < UINT /\ Top \in Nat /\ Top < UINT
  BY Widths
<1> DEFINE x == op.t + TAG + op.size
<1>5. /\ x \in Int /\ 0 <= x /\ x < 2 * UINT
  BY <1>2, <1>3, <1>4
<1>6. CASE x < UINT
  <2>1. SplitAt(op.t, op.size) = x
    BY <1>5, <1>6, Wrap DEF SplitAt
  <2>2. QED
    BY <1>1, <1>2, <1>3, <1>4, <1>6, <2>1
<1>7. CASE ~(x < UINT)
  <2>1. SplitAt(op.t, op.size) = x - UINT
    BY <1>4, <1>5, <1>7, Wrap DEF SplitAt
  <2>2. QED
    BY <1>1, <1>2, <1>3, <1>4, <1>7, <2>1
<1>8. QED
  BY <1>6, <1>7

LEMMA CarveHeaderInv ==
  ASSUME IndInv, CarveHeader
  PROVE  IndInv'
<1>1. /\ op.pc = "carve" /\ op' = [op EXCEPT !.pc = "corrupt"]
      /\ SplitAt(op.t, op.size) - op.t \in 0 .. TAG - 1
      /\ UNCHANGED <<tag, l_freePages, l_completePages, pages, live>>
  BY DEF CarveHeader, At
<1>2. /\ op'.pc = "corrupt" /\ op'.fn = op.fn /\ op'.size = op.size
      /\ op'.t = op.t /\ op'.old = op.old
  BY <1>1 DEF IndInv, Control
<1>3. Owned'
  <2>1. InTransit' = InTransit
    BY <1>1, <1>2 DEF InTransit
  <2>2. QED
    BY <1>1, <2>1 DEF IndInv, Owned
<1>4. op.size + TAG >= UINT
  BY <1>1, SplitWraps
<1>5. Control'
  BY <1>1, <1>2, <1>4 DEF IndInv, Control, Calling
<1>6. QED
  BY <1>1, <1>3, <1>5, TagsStay

LEMMA SurrenderInv ==
  ASSUME IndInv, op.pc \in {"idle", "free"}, NEW t \in DOMAIN live, Surrender(t)
  PROVE  IndInv'
<1>1. /\ live' = [u \in DOMAIN live \ {t} |-> live[u]]
      /\ op' = [pc |-> "melt", fn |-> "free", size |-> 0, t |-> t, old |-> NULL]
      /\ UNCHANGED <<tag, l_freePages, l_completePages, pages>>
  BY DEF Surrender
<1>2. /\ op'.pc = "melt" /\ op'.fn = "free" /\ op'.size = 0
      /\ op'.t = t /\ op'.old = NULL
  BY <1>1
<1>3. InTransit = {} /\ InTransit' = {t}
  BY <1>2 DEF InTransit
<1>4. t \in DOMAIN tag /\ tag[t].index = -1 /\ t \in Int
  BY Basics DEF IndInv, Owned
<1>5. Owned'
  BY <1>1, <1>3 DEF IndInv, Owned
<1>6. Control'
  BY <1>1, <1>2, <1>4 DEF Control, Calling, NULL
<1>7. QED
  BY <1>1, <1>5, <1>6, TagsStay

\* What unlinking a free tag leaves, but for the count and the caller.
LEMMA UnlinkedInv ==
  ASSUME IndInv, NEW t \in DOMAIN tag, tag[t].index # -1
  PROVE  LET U == Unlinked(t)
         IN  /\ Tags(U) /\ UnlinkedTo(U, t)
             /\ Tiled(U, Extent) /\ Lists(U, HeadsWithout(t)) /\ Sorted(U) /\ Melded(U)
             /\ \A i \in Index : WholeIn(U, i) = WholeIn(tag, i) \ {t}
<1> DEFINE U == Unlinked(t)
<1>1. /\ Tags(tag) /\ Tiled(tag, Extent) /\ Lists(tag, l_freePages)
      /\ Sorted(tag) /\ Melded(tag)
  BY DEF IndInv
<1>2. Tags(U) /\ UnlinkedTo(U, t)
  BY <1>1, UnlinkedFields
<1> HIDE DEF U
<1>3. Tiled(U, Extent)
  <2>1. SameTiling(tag, U)
    BY <1>2 DEF UnlinkedTo
  <2>2. QED
    BY <1>1, <2>1, SameTiled
<1>4. Lists(U, HeadsWithout(t))
  <2>1. tag[t].index \in Index /\ NULL \notin DOMAIN tag
    BY Basics
  <2>2. QED
    BY <1>1, <1>2, <2>1, UnlinkedLists
<1>5. /\ DOMAIN U = DOMAIN tag
      /\ \A a \in DOMAIN tag :
           /\ U[a].real_size = tag[a].real_size
           /\ U[a].split_left = tag[a].split_left
           /\ U[a].split_right = tag[a].split_right
           /\ U[a].index = IF a = t THEN -1 ELSE tag[a].index
  BY <1>2 DEF UnlinkedTo, SameTiling
<1>6. Sorted(U)
  BY <1>1, <1>5 DEF Sorted
<1>7. Melded(U)
  <2>1. \A a \in DOMAIN tag :
          tag[a].split_right # NULL => tag[a].split_right \in DOMAIN tag
    BY NeighbourTags
  <2>2. QED
    BY <1>1, <1>5, <2>1 DEF Melded
<1>8. \A i \in Index : WholeIn(U, i) = WholeIn(tag, i) \ {t}
  BY <1>5, IndexNat DEF WholeIn
<1>9. QED
  BY <1>2, <1>3, <1>4, <1>6, <1>7, <1>8 DEF U

LEMMA SearchFoundInv ==
  ASSUME IndInv, SearchFound
  PROVE  IndInv'
<1> DEFINE i == ListIndex(op.size)
<1>1. PICK t \in DOMAIN tag :
        /\ FirstFit(i, op.size, t)
        /\ tag' = Unlinked(t)
        /\ l_freePages' = HeadsWithout(t)
        /\ l_completePages' = Taken(i, t)
        /\ op' = [op EXCEPT !.pc = "carve", !.t = t]
  BY DEF SearchFound
<1>2. op.pc = "search" /\ UNCHANGED <<pages, live>>
  BY DEF SearchFound, At
<1>3. /\ op'.pc = "carve" /\ op'.fn = op.fn /\ op'.size = op.size
      /\ op'.t = t /\ op'.old = op.old
  BY <1>1 DEF IndInv, Control
<1>4. /\ op.size \in Sizes /\ op.size \in 0 .. UINT - 1 /\ i \in Index
  <2>1. op.size \in Sizes
    BY <1>2 DEF IndInv, Control, Calling
  <2>2. QED
    BY <2>1, RequestAssumption, ListIndexIn
<1>5. tag[t].index = i /\ BigEnough(t, op.size)
  <2> DEFINE walk == ListWalk(i)
  <2>1. PICK n \in DOMAIN walk :
          walk[n] = t /\ (walk[n] # NULL => BigEnough(walk[n], op.size))
    BY <1>1 DEF FirstFit
  <2>2. NULL \notin DOMAIN tag /\ IsFiniteSet(DOMAIN tag)
    BY Basics
  <2>3. {walk[m] : m \in DOMAIN walk} \ {NULL} = {u \in DOMAIN tag : tag[u].index = i}
    <3>1. Lists(tag, l_freePages)
      BY DEF IndInv
    <3>2. QED
      BY <1>4, <2>2, <3>1, WalkList
  <2> HIDE DEF walk, i
  <2>4. t \in {walk[m] : m \in DOMAIN walk} \ {NULL}
    BY <2>1, <2>2
  <2>5. tag[t].index = i
    BY <2>3, <2>4
  <2>6. BigEnough(t, op.size)
    BY <2>1, <2>2
  <2>7. QED
    BY <2>5, <2>6
<1>6. tag[t].index # -1
  BY <1>4, <1>5, IndexNat
<1>7. /\ Tags(tag') /\ UnlinkedTo(tag', t) /\ Tiled(tag', Extent)
      /\ Lists(tag', l_freePages') /\ Sorted(tag') /\ Melded(tag')
      /\ \A j \in Index : WholeIn(tag', j) = WholeIn(tag, j) \ {t}
  BY <1>1, <1>6, UnlinkedInv
<1>8. Extent' = Extent
  BY <1>2 DEF Extent
<1>9. Counted(tag', l_completePages')
  <2>1. /\ l_completePages \in [Index -> Int]
        /\ \A j \in Index : l_completePages[j] = Cardinality(WholeIn(tag, j))
                            /\ l_completePages[j] <= MAXCOMPLETE
    BY DEF IndInv, Counted
  <2>2. l_completePages' =
          [l_completePages EXCEPT ![i] = IF Whole(t) THEN l_completePages[i] - 1
                                         ELSE l_completePages[i]]
    BY <1>1 DEF Taken
  <2>3. Whole(t) <=> t \in WholeIn(tag, i)
    BY <1>5 DEF Whole, WholeIn
  <2>4. \A j \in Index : j # i => t \notin WholeIn(tag, j)
    BY <1>5 DEF WholeIn
  <2>5. ASSUME NEW j \in Index
        PROVE  IsFiniteSet(WholeIn(tag, j))
    BY Basics, FS_Subset DEF WholeIn
  <2> HIDE DEF i
  <2>6. ASSUME NEW j \in Index
        PROVE  /\ Cardinality(WholeIn(tag, j) \ {t}) =
                    IF t \in WholeIn(tag, j) THEN Cardinality(WholeIn(tag, j)) - 1
                    ELSE Cardinality(WholeIn(tag, j))
    BY <2>5, FS_RemoveElement
  <2>7. ASSUME NEW j \in Index
        PROVE  l_completePages'[j] = Cardinality(WholeIn(tag', j))
               /\ l_completePages'[j] <= MAXCOMPLETE
               /\ l_completePages'[j] \in Int
    <3>0. MAXCOMPLETE \in Int
      BY WidthAssumption
    <3>1. Cardinality(WholeIn(tag', j)) = Cardinality(WholeIn(tag, j) \ {t})
      BY <1>7
    <3>2. CASE j = i
      <4>1. l_completePages'[j] = IF Whole(t) THEN l_completePages[j] - 1
                                  ELSE l_completePages[j]
        BY <2>1, <2>2, <3>2
      <4>2. QED
        BY <2>1, <2>3, <2>6, <3>0, <3>1, <3>2, <4>1
    <3>3. CASE j # i
      <4>1. l_completePages'[j] = l_completePages[j]
        BY <2>1, <2>2, <3>3
      <4>2. QED
        BY <2>1, <2>4, <2>6, <3>1, <3>3, <4>1
    <3>4. QED
      BY <3>2, <3>3
  <2>8. l_completePages' = [j \in Index |-> l_completePages'[j]]
    BY <2>1, <2>2
  <2>9. QED
    BY <2>7, <2>8 DEF Counted
<1>10. /\ DOMAIN tag' = DOMAIN tag
       /\ \A a \in DOMAIN tag :
            /\ tag'[a].size = tag[a].size
            /\ tag'[a].real_size = tag[a].real_size
            /\ tag'[a].split_left = tag[a].split_left
            /\ tag'[a].split_right = tag[a].split_right
            /\ tag'[a].index = IF a = t THEN -1 ELSE tag[a].index
  BY <1>7 DEF UnlinkedTo, SameTiling
<1>11. BlocksGiven'
  BY <1>2 DEF IndInv, BlocksGiven
<1>12. Owned'
  <2>1. InTransit = {} /\ InTransit' = {t}
    BY <1>2, <1>3 DEF InTransit
  <2>2. DOMAIN live = {a \in DOMAIN tag : tag[a].index = -1}
    BY <2>1 DEF IndInv, Owned
  <2>3. DOMAIN live' = {a \in DOMAIN tag' : tag'[a].index = -1} \ InTransit'
    BY <1>2, <1>6, <1>10, <2>1, <2>2
  <2>4. \A a \in DOMAIN live' :
          /\ live'[a] \in Sizes /\ tag'[a].size = live'[a]
          /\ live'[a] + TAG <= tag'[a].real_size
    BY <1>2, <1>10, <2>2 DEF IndInv, Owned
  <2>5. QED
    BY <2>3, <2>4 DEF Owned
<1>13. Control'
  <2>1. /\ t \in Int /\ tag[t].real_size \in Int /\ tag[t].real_size >= TAG
        /\ t + tag[t].real_size <= Top /\ t > 0
    BY Basics
  <2>2. op.size + TAG < UINT => op.size + TAG <= tag[t].real_size
    <3> SUFFICES ASSUME op.size + TAG < UINT
                 PROVE  op.size + TAG <= tag[t].real_size
      OBVIOUS
    <3>1. TAG \in Nat /\ UINT \in Nat /\ Top \in Nat /\ Top < UINT
      BY Widths
    <3>2. Unsigned(op.size + TAG) = op.size + TAG
      BY <1>4, <3>1, Wrap
    <3>3. Unsigned(tag[t].real_size - TAG) = tag[t].real_size - TAG
      <4>1. /\ tag[t].real_size - TAG \in Int /\ 0 <= tag[t].real_size - TAG
            /\ tag[t].real_size - TAG < UINT
        BY <2>1, <3>1
      <4>2. QED
        BY <4>1, Wrap
    <3>4. QED
      BY <1>4, <1>5, <2>1, <3>1, <3>2, <3>3 DEF BigEnough
  <2>3. tag[t].split_right # NULL =>
          tag[t].split_right \in DOMAIN tag /\ tag[t].split_right # t
          /\ tag[tag[t].split_right].index = -1
    BY <1>6, NeighbourTags DEF IndInv, Melded
  <2>4. op'.pc = "carve" =>
          /\ op'.size + TAG < UINT => op'.size + TAG <= tag'[op'.t].real_size
          /\ tag'[op'.t].split_right # NULL => tag'[tag'[op'.t].split_right].index = -1
    BY <1>3, <1>10, <2>2, <2>3
  <2>5. op' \in [pc : Calling \cup {"idle", "free", "melt", "fault", "corrupt"},
                 fn : {"none", "malloc", "calloc", "realloc", "free"},
                 size : Sizes \cup {0}, t : Int, old : Int]
    BY <1>1, <2>1 DEF IndInv, Control, Calling
  <2>6. op'.t \in DOMAIN tag' /\ tag'[op'.t].index = -1
    BY <1>3, <1>10
  <2>7. op'.fn = "realloc" => op'.old \in DOMAIN live'
    BY <1>2, <1>3 DEF IndInv, Control, Calling
  <2>8. QED
    BY <1>3, <1>4, <2>4, <2>5, <2>6, <2>7 DEF Control, Calling
<1>14. QED
  BY <1>7, <1>8, <1>9, <1>11, <1>12, <1>13 DEF IndInv

LEMMA Multiples ==
  ASSUME NEW m \in Nat, NEW n \in Nat, NEW k \in Nat
  PROVE  /\ m * k \in Nat /\ (m + n) * k = m * k + n * k
         /\ m <= n => m * k <= n * k
<1>1. m * k \in Nat /\ (m + n) * k = m * k + n * k
  OBVIOUS
<1>2. ASSUME m <= n
      PROVE  m * k <= n * k
  <2> DEFINE d == n - m
  <2>1. d \in Nat /\ n = m + d
    BY <1>2
  <2> HIDE DEF d
  <2>2. n * k = m * k + d * k /\ d * k \in Nat /\ m * k \in Nat
    BY <2>1
  <2>3. QED
    BY <2>2
<1>3. QED
  BY <1>1, <1>2

\* The pages that cover some bytes, and no page more.
LEMMA Covering ==
  ASSUME NEW u \in Nat, NEW k \in Nat \ {0}
  PROVE  /\ (u + k - 1) \div k \in Nat
         /\ u <= ((u + k - 1) \div k) * k
         /\ \A m \in Nat : u = m * k => (u + k - 1) \div k = m
<1> DEFINE x == u + k - 1
           q == x \div k
<1>1. x \in Nat
  OBVIOUS
<1> HIDE DEF x
<1>2. q \in Nat /\ q * k <= x /\ x < q * k + k
  <2>1. q \in Int /\ (x % k) \in 0 .. k - 1 /\ x = k * q + (x % k)
    BY <1>1
  <2>2. q >= 0
    BY <1>1
  <2>3. k * q = q * k
    BY <2>1
  <2>4. QED
    BY <1>1, <2>1, <2>2, <2>3
<1> HIDE DEF q
<1>3. q * k \in Nat
  BY <1>2
<1>4. u <= q * k
  BY <1>2, <1>3 DEF x
<1>5. ASSUME NEW m \in Nat, u = m * k
      PROVE  q = m
  <2>1. m * k \in Nat /\ m * k <= x /\ x < m * k + k
    BY <1>5 DEF x
  <2>2. ASSUME q < m
        PROVE  FALSE
    <3>1. (q + 1) * k <= m * k
      BY <1>2, <2>2, Multiples
    <3>2. (q + 1) * k = q * k + k
      BY <1>2
    <3>3. QED
      BY <1>1, <1>2, <1>3, <2>1, <3>1, <3>2
  <2>3. ASSUME m < q
        PROVE  FALSE
    <3>1. (m + 1) * k <= q * k
      BY <1>2, <2>3, Multiples
    <3>2. (m + 1) * k = m * k + k
      OBVIOUS
    <3>3. QED
      BY <1>1, <1>2, <1>3, <2>1, <3>1, <3>2
  <2>4. QED
    BY <1>2, <2>2, <2>3
<1>6. QED
  BY <1>2, <1>4, <1>5 DEF q, x

\* malloc asks for the bytes and the header, and for PageCount pages at least.
LEMMA PagesForFits ==
  ASSUME NEW size \in 0 .. UINT - 1
  PROVE  /\ PagesFor(size) \in Nat /\ PagesFor(size) >= PageCount
         /\ size + TAG < UINT => size + TAG <= PagesFor(size) * PageSize
         /\ 2 * TAG <= PagesFor(size) * PageSize
<1> DEFINE usage == Unsigned(size + TAG)
           n == (usage + PageSize - 1) \div PageSize
<1>1. /\ TAG \in Nat /\ 0 < TAG /\ 2 * TAG <= PageSize /\ UINT \in Nat
      /\ PageSize \in Nat \ {0} /\ PageCount \in Nat \ {0}
  BY Widths
<1>2. usage \in Nat /\ (size + TAG < UINT => usage = size + TAG)
  BY <1>1, Wrap
<1>3. PagesFor(size) = IF n < PageCount THEN PageCount ELSE n
  BY DEF PagesFor
<1> HIDE DEF usage
<1>4. n \in Nat /\ usage <= n * PageSize
  BY <1>1, <1>2, Covering
<1> HIDE DEF n
<1>5. PagesFor(size) \in Nat /\ PagesFor(size) >= PageCount /\ PagesFor(size) >= n
  BY <1>1, <1>3, <1>4
<1>6. n * PageSize <= PagesFor(size) * PageSize
  BY <1>1, <1>4, <1>5, Multiples
<1>7. 1 * PageSize <= PagesFor(size) * PageSize
  BY <1>1, <1>5, Multiples
<1>8. n * PageSize \in Nat /\ PagesFor(size) * PageSize \in Nat
  BY <1>1, <1>4, <1>5
<1>9. QED
  BY <1>1, <1>2, <1>4, <1>5, <1>6, <1>7, <1>8

\* Pages arrive wherever there is room for them.
LEMMA PagesArriveInv ==
  ASSUME IndInv, NEW b \in 1 .. ArenaPages, RoomAt(b, PagesFor(op.size)),
         PagesArrive(b)
  PROVE  IndInv'
<1> DEFINE n     == PagesFor(op.size)
           base  == b * PageSize
           bytes == n * PageSize
           tail  == b + n
<1>1. /\ op.pc = "pages"
      /\ pages' = [c \in DOMAIN pages \cup {base} |-> IF c = base THEN n ELSE pages[c]]
      /\ tag' = [a \in DOMAIN tag \cup {base} |->
                   IF a # base THEN tag[a]
                   ELSE FreshTag(op.size, Unsigned(bytes), NULL, NULL)]
      /\ op' = [op EXCEPT !.pc = "carve", !.t = base]
      /\ UNCHANGED <<l_freePages, l_completePages, live>>
  BY DEF PagesArrive, At
<1>2. /\ op'.pc = "carve" /\ op'.fn = op.fn /\ op'.size = op.size
      /\ op'.t = base /\ op'.old = op.old
  BY <1>1 DEF IndInv, Control
<1>3. /\ op.size \in Sizes /\ op.size \in 0 .. UINT - 1
  BY <1>1, RequestAssumption DEF IndInv, Control, Calling
<1>4. /\ n \in Nat /\ n >= PageCount /\ 2 * TAG <= bytes
      /\ op.size + TAG < UINT => op.size + TAG <= bytes
  BY <1>3, PagesForFits
<1>5. /\ TAG \in Nat /\ 0 < TAG /\ UINT \in Nat /\ Top \in Nat /\ Top < UINT
      /\ PageSize \in Nat \ {0} /\ ArenaPages \in Nat /\ b \in Nat /\ b >= 1
  BY Widths
<1>6. /\ tail <= ArenaPages + 1
      /\ \A c \in DOMAIN pages : base >= c + pages[c] * PageSize \/ tail * PageSize <= c
  BY DEF RoomAt
<1> HIDE DEF n
<1>7. base \in Nat /\ bytes \in Nat /\ tail * PageSize = base + bytes
  BY <1>4, <1>5, Multiples
<1>8. base + bytes <= Top
  <2>1. tail \in Nat /\ ArenaPages + 1 \in Nat
    BY <1>4, <1>5
  <2>2. tail * PageSize <= (ArenaPages + 1) * PageSize
    BY <1>5, <1>6, <2>1, Multiples
  <2>3. QED
    BY <1>7, <2>2 DEF Top
<1>9. base > 0
  <2>1. 1 * PageSize <= b * PageSize
    BY <1>5, Multiples
  <2>2. QED
    BY <1>5, <1>7, <2>1
<1>10. Unsigned(bytes) = bytes
  <2>1. bytes \in Int /\ 0 <= bytes /\ bytes < UINT
    BY <1>5, <1>7, <1>8
  <2>2. QED
    BY <2>1, Wrap
<1>11. \A c \in DOMAIN Extent : base >= c + Extent[c] \/ base + bytes <= c
  BY <1>6, <1>7 DEF Extent
<1>12. Extent' = [c \in DOMAIN Extent \cup {base} |-> IF c = base THEN bytes ELSE Extent[c]]
  <2>1. DOMAIN Extent = DOMAIN pages /\ DOMAIN pages' = DOMAIN pages \cup {base}
    BY <1>1 DEF Extent
  <2>2. \A c \in DOMAIN pages' : pages'[c] * PageSize =
          IF c = base THEN bytes ELSE Extent[c]
    BY <1>1 DEF Extent
  <2>3. Extent' = [c \in DOMAIN pages' |-> pages'[c] * PageSize]
    BY DEF Extent
  <2>4. QED
    BY <2>1, <2>2, <2>3
<1> HIDE DEF base, bytes, tail
<1>13. /\ DOMAIN tag' = DOMAIN tag \cup {base}
       /\ \A a \in DOMAIN tag \ {base} : tag'[a] = tag[a]
       /\ tag'[base] = FreshTag(op.size, bytes, NULL, NULL)
  BY <1>1, <1>10
<1>14. /\ tag'[base].size = op.size /\ tag'[base].real_size = bytes
       /\ tag'[base].split_left = NULL /\ tag'[base].split_right = NULL
       /\ tag'[base].next = NULL /\ tag'[base].prev = NULL
       /\ tag'[base].index = -1 /\ tag'[base] \in TagRecord
  <2>1. op.size \in Int /\ bytes \in Int
    BY <1>3, <1>5, <1>7
  <2>2. QED
    BY <1>13, <2>1 DEF FreshTag, TagRecord, NULL
<1>15. Tags(tag')
  <2>1. \A a \in DOMAIN tag' : tag'[a] \in TagRecord
    BY <1>13, <1>14 DEF IndInv, Tags
  <2>2. tag' = [a \in DOMAIN tag' |-> tag'[a]]
    BY <1>1
  <2>3. QED
    BY <2>1, <2>2 DEF Tags
<1>16. Tiled(tag', Extent') /\ base \notin DOMAIN tag
  <2>1. base \in Int /\ bytes \in Int /\ bytes >= TAG
    BY <1>4, <1>5, <1>7
  <2>2. Tags(tag) /\ Tiled(tag, Extent)
    BY DEF IndInv
  <2>3. QED
    BY <1>8, <1>9, <1>11, <1>12, <1>13, <1>14, <2>1, <2>2, PlacedTiled
<1>17. \A a \in DOMAIN tag : a # base /\ tag'[a] = tag[a]
  BY <1>13, <1>16
<1>18. Lists(tag', l_freePages')
  <2>1. Lists(tag, l_freePages)
    BY DEF IndInv
  <2>2. Lists(tag', l_freePages)
    BY <1>13, <1>14, <1>17, <2>1, SameLists
  <2>3. QED
    BY <1>1, <2>2
<1>19. Sorted(tag')
  BY <1>13, <1>14, <1>17 DEF IndInv, Sorted
<1>20. Melded(tag')
  <2>1. \A a \in DOMAIN tag :
          tag[a].split_right # NULL => tag[a].split_right \in DOMAIN tag
    BY NeighbourTags
  <2>2. QED
    BY <1>13, <1>14, <1>17, <2>1 DEF IndInv, Melded
<1>21. Counted(tag', l_completePages')
  <2>1. \A i \in Index : WholeIn(tag', i) = WholeIn(tag, i)
    BY <1>13, <1>14, <1>17, IndexNat DEF WholeIn
  <2>2. Counted(tag, l_completePages)
    BY DEF IndInv
  <2>3. QED
    BY <1>1, <2>1, <2>2, SameCount
<1>22. BlocksGiven'
  <2>1. DOMAIN pages' = DOMAIN pages \cup {base}
    BY <1>1
  <2>2. \A c \in DOMAIN pages' : pages'[c] \in Nat /\ pages'[c] >= PageCount
    BY <1>1, <1>4 DEF IndInv, BlocksGiven
  <2>3. pages' = [c \in DOMAIN pages' |-> pages'[c]]
    BY <1>1
  <2>4. QED
    BY <2>2, <2>3 DEF BlocksGiven
<1>23. Owned'
  <2>1. InTransit = {} /\ InTransit' = {base}
    BY <1>1, <1>2 DEF InTransit
  <2>2. DOMAIN live = {a \in DOMAIN tag : tag[a].index = -1}
    BY <2>1 DEF IndInv, Owned
  <2>3. DOMAIN live' = {a \in DOMAIN tag' : tag'[a].index = -1} \ InTransit'
    BY <1>1, <1>13, <1>17, <2>1, <2>2
  <2>4. \A a \in DOMAIN live' :
          /\ live'[a] \in Sizes /\ tag'[a].size = live'[a]
          /\ live'[a] + TAG <= tag'[a].real_size
    BY <1>1, <1>17, <2>2 DEF IndInv, Owned
  <2>5. QED
    BY <2>3, <2>4 DEF Owned
<1>24. Control'
  <2>1. op' \in [pc : Calling \cup {"idle", "free", "melt", "fault", "corrupt"},
                 fn : {"none", "malloc", "calloc", "realloc", "free"},
                 size : Sizes \cup {0}, t : Int, old : Int]
    <3>1. op' = [op EXCEPT !.pc = "carve", !.t = base]
      BY <1>1
    <3>2. op \in [pc : Calling \cup {"idle", "free", "melt", "fault", "corrupt"},
                  fn : {"none", "malloc", "calloc", "realloc", "free"},
                  size : Sizes \cup {0}, t : Int, old : Int]
      BY DEF IndInv, Control
    <3>3. base \in Int
      BY <1>7
    <3>4. QED
      BY <3>1, <3>2, <3>3 DEF Calling
  <2>2. op'.t \in DOMAIN tag' /\ tag'[op'.t].index = -1
    BY <1>2, <1>13, <1>14
  <2>3. op'.fn = "realloc" => op'.old \in DOMAIN live'
    BY <1>1, <1>2 DEF IndInv, Control, Calling
  <2>4. /\ op'.size + TAG < UINT => op'.size + TAG <= tag'[op'.t].real_size
        /\ tag'[op'.t].split_right = NULL
    BY <1>2, <1>4, <1>14
  <2>5. QED
    BY <1>2, <1>3, <2>1, <2>2, <2>3, <2>4 DEF Control, Calling
<1>25. QED
  BY <1>15, <1>16, <1>18, <1>19, <1>20, <1>21, <1>22, <1>23, <1>24 DEF IndInv

\* Melting with a free neighbour f, on either side.
LEMMA MeltInv ==
  ASSUME IndInv, op.pc = "melt", NEW f \in DOMAIN tag, tag[f].index # -1, NEW l, NEW r,
         (l = f /\ r = op.t) \/ (l = op.t /\ r = f),
         tag[l].split_right = r,
         tag' = Melted(Unlinked(f), l, r), l_freePages' = HeadsWithout(f),
         op' = [op EXCEPT !.t = l], UNCHANGED <<l_completePages, pages, live>>
  PROVE  IndInv'
<1> DEFINE U == Unlinked(f)
           V == Melted(U, l, r)
<1>1. /\ op.t \in DOMAIN tag /\ tag[op.t].index = -1
      /\ op \in [pc : Calling \cup {"idle", "free", "melt", "fault", "corrupt"},
                 fn : {"none", "malloc", "calloc", "realloc", "free"},
                 size : Sizes \cup {0}, t : Int, old : Int]
  BY DEF IndInv, Control
<1>2. l \in DOMAIN tag /\ r \in DOMAIN tag /\ l # r /\ l \in Int
  <2>1. l \in DOMAIN tag /\ r \in DOMAIN tag /\ l # r
    BY <1>1
  <2>2. QED
    BY <2>1, Basics
<1>3. /\ op'.pc = "melt" /\ op'.fn = op.fn /\ op'.size = op.size
      /\ op'.t = l /\ op'.old = op.old
  BY <1>1
<1>4. /\ Tags(U) /\ UnlinkedTo(U, f)
      /\ Tiled(U, Extent) /\ Lists(U, HeadsWithout(f)) /\ Sorted(U) /\ Melded(U)
      /\ \A i \in Index : WholeIn(U, i) = WholeIn(tag, i) \ {f}
  BY UnlinkedInv
<1>5. /\ DOMAIN U = DOMAIN tag
      /\ \A a \in DOMAIN tag :
           /\ U[a].size = tag[a].size
           /\ U[a].real_size = tag[a].real_size
           /\ U[a].split_left = tag[a].split_left
           /\ U[a].split_right = tag[a].split_right
           /\ U[a].index = IF a = f THEN -1 ELSE tag[a].index
  <2> HIDE DEF U
  <2>1. QED
    BY <1>4 DEF UnlinkedTo, SameTiling
<1>6. tag' = V
  OBVIOUS
<1> HIDE DEF U
<1>7. U[l].index = -1 /\ U[r].index = -1 /\ U[l].split_right = r
  BY <1>1, <1>2, <1>5
<1>8. Tags(V) /\ MeltedTo(U, V, l, r)
  <2>1. l \in DOMAIN U /\ r \in DOMAIN U
    BY <1>2, <1>5
  <2>2. QED
    BY <1>2, <1>4, <2>1, MeltedFields
<1>9. Tiled(V, Extent)
  <2>1. l \in DOMAIN U /\ r \in DOMAIN U
    BY <1>2, <1>5
  <2>2. QED
    BY <1>4, <1>7, <2>1, MeltedTiled
<1> HIDE DEF V
<1>10. /\ DOMAIN V = DOMAIN tag \ {r} /\ l \in DOMAIN V
       /\ \A a \in DOMAIN V :
            /\ a \in DOMAIN U
            /\ V[a].size = U[a].size /\ V[a].index = U[a].index
            /\ V[a].next = U[a].next /\ V[a].prev = U[a].prev
            /\ a # l => /\ V[a].real_size = U[a].real_size
                        /\ V[a].split_right = U[a].split_right
            /\ V[a].split_left = IF a = U[r].split_right THEN l ELSE U[a].split_left
  BY <1>2, <1>5, <1>8 DEF MeltedTo
<1>11. Extent' = Extent
  BY DEF Extent
<1>12. Lists(V, l_freePages')
  <2>1. Lists(U, l_freePages')
    BY <1>4
  <2>2. /\ \A a \in DOMAIN U \cap DOMAIN V :
             V[a].index = U[a].index /\ V[a].next = U[a].next /\ V[a].prev = U[a].prev
        /\ \A a \in DOMAIN U \ DOMAIN V : U[a].index = -1
        /\ \A a \in DOMAIN V \ DOMAIN U :
             V[a].index = -1 /\ V[a].next = NULL /\ V[a].prev = NULL
    BY <1>5, <1>7, <1>10
  <2>3. QED
    BY <2>1, <2>2, SameLists
<1>13. Sorted(V)
  BY <1>4, <1>7, <1>10 DEF Sorted
\* The right neighbour of a tag other than l is one of the others.
<1>14. \A a \in DOMAIN V : a # l /\ tag[a].split_right # NULL =>
         tag[a].split_right \in DOMAIN V
  <2> TAKE a \in DOMAIN V
  <2> SUFFICES ASSUME a # l, tag[a].split_right # NULL
               PROVE  tag[a].split_right \in DOMAIN V
    OBVIOUS
  <2>1. a \in DOMAIN tag /\ tag[a].split_right \in DOMAIN tag
        /\ tag[tag[a].split_right].split_left = a
    BY <1>5, <1>10, NeighbourTags
  <2>2. tag[r].split_left = l
    <3>1. r # NULL
      BY <1>2, Basics
    <3>2. QED
      BY <1>2, <3>1, NeighbourTags
  <2>3. QED
    BY <1>10, <2>1, <2>2
<1>15. Melded(V)
  <2> SUFFICES ASSUME NEW a \in DOMAIN V, V[a].index # -1, V[a].split_right # NULL
               PROVE  V[V[a].split_right].index = -1
    BY DEF Melded
  <2>1. a # l
    BY <1>7, <1>10
  <2>2. /\ a \in DOMAIN U /\ U[a].index # -1
        /\ V[a].split_right = U[a].split_right /\ U[a].split_right = tag[a].split_right
    BY <1>5, <1>10, <2>1
  <2>3. U[U[a].split_right].index = -1
    BY <1>4, <2>2 DEF Melded
  <2>4. U[a].split_right \in DOMAIN V
    BY <1>14, <2>1, <2>2
  <2>5. QED
    BY <1>10, <2>2, <2>3, <2>4
<1>16. Counted(V, l_completePages')
  <2>1. ASSUME NEW i \in Index
        PROVE  WholeIn(V, i) = WholeIn(tag, i)
    <3>1. i # -1 /\ l # NULL /\ r # NULL
      BY <1>2, Basics, IndexNat
    <3>2. f \notin WholeIn(tag, i)
      <4>1. tag[l].split_right # NULL
        BY <3>1
      <4>2. tag[r].split_left = l
        BY <1>2, <3>1, NeighbourTags
      <4>3. QED
        BY <3>1, <4>1, <4>2 DEF WholeIn
    <3>3. WholeIn(U, i) = WholeIn(tag, i)
      BY <1>4, <3>2
    <3>4. ASSUME NEW a \in WholeIn(V, i)
          PROVE  a \in WholeIn(U, i)
      BY <1>7, <1>10, <3>1, <3>4 DEF WholeIn
    <3>5. ASSUME NEW a \in WholeIn(U, i)
          PROVE  a \in WholeIn(V, i)
      <4>1. a # l /\ a # r /\ a \in DOMAIN V
        BY <1>5, <1>7, <1>10, <3>1 DEF WholeIn
      <4>2. a # U[r].split_right
        <5>1. a # NULL /\ U[r].split_right = tag[r].split_right
              /\ U[a].split_left = tag[a].split_left /\ a \in DOMAIN tag
          BY <1>2, <1>5, <3>5, Basics DEF WholeIn
        <5>2. tag[r].split_right # NULL => tag[tag[r].split_right].split_left = r
          BY <1>2, NeighbourTags
        <5>3. QED
          BY <3>1, <3>5, <5>1, <5>2 DEF WholeIn
      <4>3. QED
        BY <1>10, <4>1, <4>2 DEF WholeIn
    <3>6. QED
      BY <3>3, <3>4, <3>5
  <2>2. Counted(tag, l_completePages)
    BY DEF IndInv
  <2>3. QED
    BY <2>1, <2>2, SameCount
<1>17. BlocksGiven'
  BY DEF IndInv, BlocksGiven
<1>18. Owned'
  <2>1. InTransit = {op.t} /\ InTransit' = {l}
    BY <1>3 DEF InTransit
  <2>2. DOMAIN live = {a \in DOMAIN tag : tag[a].index = -1} \ {op.t}
    BY <2>1 DEF IndInv, Owned
  <2>3. \A a \in DOMAIN live : a \in DOMAIN tag /\ a # op.t /\ a # f
    BY <2>2
  <2>4. DOMAIN live = {a \in DOMAIN V : V[a].index = -1} \ {l}
    <3>1. ASSUME NEW a \in DOMAIN live
          PROVE  a \in DOMAIN V /\ V[a].index = -1 /\ a # l
      BY <1>5, <1>10, <2>2, <2>3
    <3>2. ASSUME NEW a \in DOMAIN V, V[a].index = -1, a # l
          PROVE  a \in DOMAIN live
      BY <1>5, <1>10, <2>2, <3>2
    <3>3. QED
      BY <3>1, <3>2
  <2>5. \A a \in DOMAIN live :
          /\ live[a] \in Sizes /\ V[a].size = live[a]
          /\ live[a] + TAG <= V[a].real_size
    <3> TAKE a \in DOMAIN live
    <3>1. a \in DOMAIN V /\ a # l
      BY <2>4
    <3>2. /\ live[a] \in Sizes /\ tag[a].size = live[a]
          /\ live[a] + TAG <= tag[a].real_size
      BY DEF IndInv, Owned
    <3>3. QED
      BY <1>5, <1>10, <3>1, <3>2
  <2>6. QED
    BY <1>6, <2>1, <2>4, <2>5 DEF Owned
<1>19. Control'
  <2>1. op' \in [pc : Calling \cup {"idle", "free", "melt", "fault", "corrupt"},
                 fn : {"none", "malloc", "calloc", "realloc", "free"},
                 size : Sizes \cup {0}, t : Int, old : Int]
    BY <1>1, <1>2
  <2>2. op'.t \in DOMAIN tag' /\ tag'[op'.t].index = -1
    BY <1>3, <1>6, <1>7, <1>10
  <2>3. QED
    BY <1>3, <2>1, <2>2 DEF Control, Calling
<1>20. QED
  BY <1>6, <1>8, <1>9, <1>11, <1>12, <1>13, <1>15, <1>16, <1>17, <1>18, <1>19 DEF IndInv

LEMMA MeltLeftInv ==
  ASSUME IndInv, MeltLeft
  PROVE  IndInv'
<1> DEFINE left == tag[op.t].split_left
<1>1. /\ op.pc = "melt" /\ left # NULL /\ tag[left].index >= 0
      /\ tag' = Melted(Unlinked(left), left, op.t)
      /\ l_freePages' = HeadsWithout(left)
      /\ op' = [op EXCEPT !.t = left]
      /\ UNCHANGED <<l_completePages, pages, live>>
  BY DEF MeltLeft, At, LeftIsFree
<1>2. op.t \in DOMAIN tag
  BY <1>1 DEF IndInv, Control
<1>3. left \in DOMAIN tag /\ tag[left].split_right = op.t
  BY <1>1, <1>2, NeighbourTags
<1>4. tag[left].index # -1
  BY <1>1, <1>3, Basics
<1> HIDE DEF left
<1>5. QED
  BY <1>1, <1>3, <1>4, MeltInv

LEMMA AbsorbRightInv ==
  ASSUME IndInv, AbsorbRight
  PROVE  IndInv'
<1> DEFINE right == tag[op.t].split_right
<1>1. /\ op.pc = "melt" /\ right # NULL /\ tag[right].index >= 0
      /\ tag' = Melted(Unlinked(right), op.t, right)
      /\ l_freePages' = HeadsWithout(right)
      /\ UNCHANGED <<l_completePages, pages, op, live>>
  BY DEF AbsorbRight, At, RightIsFree
<1>2. op.t \in DOMAIN tag
  BY <1>1 DEF IndInv, Control
<1>3. right \in DOMAIN tag /\ tag[op.t].split_right = right
  BY <1>1, <1>2, NeighbourTags
<1>4. tag[right].index # -1
  BY <1>1, <1>3, Basics
<1>5. op' = [op EXCEPT !.t = op.t]
  BY <1>1 DEF IndInv, Control
<1> HIDE DEF right
<1>6. QED
  BY <1>1, <1>3, <1>4, <1>5, MeltInv

\* The caller gets the tag, whether something was split off it or not.
LEMMA CarvedOwned ==
  ASSUME IndInv, op.pc = "carve",
         \A a : a \in DOMAIN tag' /\ tag'[a].index = -1 <=>
                  a \in DOMAIN tag /\ tag[a].index = -1,
         \A a \in DOMAIN live : /\ tag'[a].size = tag[a].size
                                /\ tag'[a].real_size = tag[a].real_size,
         tag'[op.t].size = op.size, op.size + TAG <= tag'[op.t].real_size,
         live' = [u \in DOMAIN live \cup {op.t} |-> IF u = op.t THEN op.size ELSE live[u]],
         op' = IF op.fn = "realloc" THEN [op EXCEPT !.pc = "free"] ELSE Idle
  PROVE  Owned' /\ Control'
<1>1. /\ op.t \in DOMAIN tag /\ tag[op.t].index = -1 /\ op.size \in Sizes
      /\ op \in [pc : Calling \cup {"idle", "free", "melt", "fault", "corrupt"},
                 fn : {"none", "malloc", "calloc", "realloc", "free"},
                 size : Sizes \cup {0}, t : Int, old : Int]
      /\ op.fn = "realloc" => op.old \in DOMAIN live
  BY DEF IndInv, Control, Calling
<1>2. \/ /\ op.fn = "realloc" /\ op'.pc = "free" /\ op'.old = op.old
         /\ op'.fn = op.fn /\ op'.size = op.size /\ op'.t = op.t
         /\ op' = [op EXCEPT !.pc = "free"]
      \/ op' = Idle
  BY <1>1
<1>3. DOMAIN live = {a \in DOMAIN tag : tag[a].index = -1} \ {op.t}
  BY DEF IndInv, Owned, InTransit
<1>4. DOMAIN live' = DOMAIN live \cup {op.t}
  OBVIOUS
<1>5. Owned'
  <2>1. InTransit' = {}
    BY <1>2 DEF InTransit, Idle
  <2>2. DOMAIN live' = {a \in DOMAIN tag' : tag'[a].index = -1} \ InTransit'
    BY <1>1, <1>3, <1>4, <2>1
  <2>3. \A a \in DOMAIN live' :
          /\ live'[a] \in Sizes /\ tag'[a].size = live'[a]
          /\ live'[a] + TAG <= tag'[a].real_size
    <3> TAKE a \in DOMAIN live'
    <3>1. CASE a = op.t
      <4>1. live'[a] = op.size
        BY <3>1
      <4>2. QED
        BY <1>1, <3>1, <4>1
    <3>2. CASE a # op.t
      <4>1. a \in DOMAIN live /\ live'[a] = live[a]
        BY <1>4, <3>2
      <4>2. /\ live[a] \in Sizes /\ tag[a].size = live[a]
            /\ live[a] + TAG <= tag[a].real_size
        BY <4>1 DEF IndInv, Owned
      <4>3. QED
        BY <4>1, <4>2
    <3>3. QED
      BY <3>1, <3>2
  <2>4. QED
    BY <2>2, <2>3 DEF Owned
<1>6. Control'
  <2>1. op' \in [pc : Calling \cup {"idle", "free", "melt", "fault", "corrupt"},
                 fn : {"none", "malloc", "calloc", "realloc", "free"},
                 size : Sizes \cup {0}, t : Int, old : Int]
    BY <1>1, <1>2 DEF Idle, NULL
  <2>2. op'.pc = "idle" \/ (op'.pc = "free" /\ op'.old \in DOMAIN live')
    BY <1>1, <1>2, <1>4 DEF Idle
  <2>3. QED
    BY <2>1, <2>2 DEF Control, Calling
<1>7. QED
  BY <1>5, <1>6

\* What is at hand when a tag is carved.
LEMMA CarveRoom ==
  ASSUME IndInv, Carve
  PROVE  /\ op.pc = "carve" /\ op.t \in DOMAIN tag /\ tag[op.t].index = -1
         /\ op.size \in Nat /\ op.size < UINT /\ TAG + op.size <= tag[op.t].real_size
         /\ op.t \in Int /\ op.t > 0 /\ tag[op.t].real_size \in Int
         /\ op.t + tag[op.t].real_size <= Top /\ tag[op.t].real_size < UINT
         /\ tag[op.t].split_right # NULL => tag[tag[op.t].split_right].index = -1
<1>1. op.pc = "carve" /\ SplitAt(op.t, op.size) - op.t \notin 0 .. TAG - 1
  BY DEF Carve, At
<1>2. op.t \in DOMAIN tag /\ op.size \in Sizes /\ ~(op.size + TAG >= UINT)
  BY <1>1, SplitWraps
<1>3. op.size \in 0 .. UINT - 1
  BY <1>2, RequestAssumption
<1>4. op.size + TAG < UINT
  BY <1>2, <1>3, Widths
<1>5. /\ tag[op.t].index = -1 /\ op.size + TAG <= tag[op.t].real_size
      /\ tag[op.t].split_right # NULL => tag[tag[op.t].split_right].index = -1
  BY <1>1, <1>4 DEF IndInv, Control
<1>6. /\ op.t \in Int /\ op.t > 0 /\ tag[op.t].real_size \in Int
      /\ op.t + tag[op.t].real_size <= Top
  BY <1>2, Basics
<1>7. QED
  BY <1>1, <1>2, <1>3, <1>5, <1>6, Widths

LEMMA CarveWholeInv ==
  ASSUME IndInv, Carve, tag' = [tag EXCEPT ![op.t].size = op.size], UNCHANGED l_freePages
  PROVE  IndInv'
<1> DEFINE t == op.t
<1>1. /\ op.pc = "carve" /\ t \in DOMAIN tag /\ tag[t].index = -1
      /\ op.size \in Nat /\ TAG + op.size <= tag[t].real_size
      /\ tag[t].real_size \in Int
  BY CarveRoom
<1>2. /\ live' = [u \in DOMAIN live \cup {t} |-> IF u = t THEN op.size ELSE live[u]]
      /\ op' = IF op.fn = "realloc" THEN [op EXCEPT !.pc = "free"] ELSE Idle
      /\ UNCHANGED <<l_completePages, pages>>
  BY DEF Carve
<1>3. Tags(tag)
  BY DEF IndInv
<1>4. /\ DOMAIN tag' = DOMAIN tag
      /\ \A a \in DOMAIN tag : a # t => tag'[a] = tag[a]
      /\ tag'[t] = [tag[t] EXCEPT !.size = op.size]
  BY <1>1
<1>5. /\ tag'[t] \in TagRecord /\ tag'[t].size = op.size
      /\ tag'[t].real_size = tag[t].real_size /\ tag'[t].index = tag[t].index
      /\ tag'[t].split_left = tag[t].split_left
      /\ tag'[t].split_right = tag[t].split_right
      /\ tag'[t].next = tag[t].next /\ tag'[t].prev = tag[t].prev
  <2>1. tag[t] \in TagRecord /\ op.size \in Int
    BY <1>1, <1>3 DEF Tags
  <2>2. QED
    BY <1>4, <2>1 DEF TagRecord
<1>6. Tags(tag')
  <2>1. \A a \in DOMAIN tag' : tag'[a] \in TagRecord
    BY <1>3, <1>4, <1>5 DEF Tags
  <2>2. tag' = [a \in DOMAIN tag' |-> tag'[a]]
    BY <1>3 DEF Tags
  <2>3. QED
    BY <2>1, <2>2 DEF Tags
<1> HIDE DEF t
<1>7. \A a \in DOMAIN tag :
        /\ tag'[a].real_size = tag[a].real_size /\ tag'[a].index = tag[a].index
        /\ tag'[a].split_left = tag[a].split_left
        /\ tag'[a].split_right = tag[a].split_right
        /\ tag'[a].next = tag[a].next /\ tag'[a].prev = tag[a].prev
  BY <1>4, <1>5
<1>8. Extent' = Extent
  BY <1>2 DEF Extent
<1>9. Tiled(tag', Extent')
  <2>1. SameTiling(tag, tag')
    BY <1>4, <1>7 DEF SameTiling
  <2>2. Tiled(tag, Extent)
    BY DEF IndInv
  <2>3. QED
    BY <1>8, <2>1, <2>2, SameTiled
<1>10. Lists(tag', l_freePages')
  <2>1. Lists(tag, l_freePages)
    BY DEF IndInv
  <2>2. Lists(tag', l_freePages)
    BY <1>4, <1>7, <2>1, SameLists
  <2>3. QED
    BY <2>2
<1>11. Sorted(tag')
  BY <1>4, <1>7 DEF IndInv, Sorted
<1>12. Melded(tag')
  <2>1. \A a \in DOMAIN tag :
          tag[a].split_right # NULL => tag[a].split_right \in DOMAIN tag
    BY NeighbourTags
  <2>2. QED
    BY <1>4, <1>7, <2>1 DEF IndInv, Melded
<1>13. Counted(tag', l_completePages')
  <2>1. \A i \in Index : WholeIn(tag', i) = WholeIn(tag, i)
    BY <1>4, <1>7 DEF WholeIn
  <2>2. Counted(tag, l_completePages)
    BY DEF IndInv
  <2>3. Counted(tag', l_completePages)
    BY <2>1, <2>2 DEF Counted
  <2>4. l_completePages' = l_completePages
    BY <1>2
  <2>5. QED
    BY <2>3, <2>4
<1>14. BlocksGiven'
  BY <1>2 DEF IndInv, BlocksGiven
<1>15. Owned' /\ Control'
  <2>1. \A a \in DOMAIN live : a \in DOMAIN tag /\ a # t
    BY <1>1 DEF IndInv, Owned, InTransit, t
  <2>2. \A a \in DOMAIN live : /\ tag'[a].size = tag[a].size
                               /\ tag'[a].real_size = tag[a].real_size
    BY <1>4, <2>1
  <2>3. \A a : a \in DOMAIN tag' /\ tag'[a].index = -1 <=>
                 a \in DOMAIN tag /\ tag[a].index = -1
    BY <1>4, <1>7
  <2>4. tag'[t].size = op.size /\ op.size + TAG <= tag'[t].real_size
    BY <1>1, <1>5, Widths
  <2>5. QED
    BY <1>1, <1>2, <2>2, <2>3, <2>4, CarvedOwned DEF t
<1>16. QED
  BY <1>6, <1>9, <1>10, <1>11, <1>12, <1>13, <1>14, <1>15 DEF IndInv

LEMMA CarveSplitInv ==
  ASSUME IndInv, Carve, NEW new, new = op.t + TAG + op.size,
         TAG + op.size + TAG <= tag[op.t].real_size,
         NEW i, i = ListIndex(tag[op.t].real_size - TAG - op.size - TAG),
         tag' = Split(op.t, op.size),
         l_freePages' = [l_freePages EXCEPT ![i] = new]
  PROVE  IndInv'
<1> DEFINE t == op.t
           H == Halved(t, op.size)
           V == tag'
<1>1. /\ op.pc = "carve" /\ t \in DOMAIN tag /\ tag[t].index = -1
      /\ op.size \in Nat /\ op.size < UINT /\ TAG + op.size <= tag[t].real_size
      /\ t \in Int /\ t > 0 /\ tag[t].real_size \in Int
      /\ t + tag[t].real_size <= Top /\ tag[t].real_size < UINT
      /\ tag[t].split_right # NULL => tag[tag[t].split_right].index = -1
  BY CarveRoom
<1>2. /\ live' = [u \in DOMAIN live \cup {t} |-> IF u = t THEN op.size ELSE live[u]]
      /\ op' = IF op.fn = "realloc" THEN [op EXCEPT !.pc = "free"] ELSE Idle
      /\ UNCHANGED <<l_completePages, pages>>
  BY DEF Carve
<1>3. l_completePages' = l_completePages /\ Extent' = Extent
  BY <1>2 DEF Extent
<1>4. /\ TAG \in Nat /\ TAG > 0 /\ UINT \in Nat /\ Top \in Nat /\ Top < UINT
  BY Widths
<1>5. /\ Tags(tag) /\ Tiled(tag, Extent) /\ Lists(tag, l_freePages)
      /\ Sorted(tag) /\ Melded(tag) /\ Counted(tag, l_completePages)
  BY DEF IndInv
<1> DEFINE x == tag[t].real_size - TAG - op.size - TAG
<1>6. /\ x \in Int /\ 0 <= x /\ x < UINT /\ i \in Index
      /\ new \in Int /\ t < new /\ new < UINT /\ new < t + tag[t].real_size
  <2>1. /\ x \in Int /\ 0 <= x /\ x < UINT
        /\ new \in Int /\ t < new /\ new < UINT /\ new < t + tag[t].real_size
    BY <1>1, <1>4
  <2>2. x \in 0 .. UINT - 1 /\ i = ListIndex(x)
    BY <1>4, <2>1
  <2> HIDE DEF x
  <2>3. i \in Index
    BY <2>2, ListIndexIn
  <2>4. QED
    BY <2>1, <2>3 DEF x
<1>7. new \notin DOMAIN tag
  <2>1. ASSUME new \in DOMAIN tag
        PROVE  t + tag[t].real_size <= new
    BY <1>1, <1>5, <1>6, <2>1 DEF Tiled, Apart
  <2>2. QED
    BY <1>1, <1>6, <2>1
<1>8. /\ SplitAt(t, op.size) = new
      /\ Unsigned(tag[t].real_size - TAG - op.size) = tag[t].real_size - TAG - op.size
      /\ Tags(H) /\ HalvedTo(H, t, op.size, new)
  BY <1>1, <1>5, <1>6, <1>7, HalvedFields
<1>9. Unsigned(Unsigned(tag[t].real_size - TAG - op.size) - TAG) = x
  BY <1>6, <1>8, Wrap
<1>10. V = Linked(H, new, i)
  <2>1. V = Linked(H, SplitAt(t, op.size),
                   ListIndex(Unsigned(Unsigned(tag[t].real_size - TAG - op.size) - TAG)))
    BY SplitHalved
  <2>2. QED
    BY <1>8, <1>9, <2>1
<1> HIDE DEF H, V, t
<1>11. Tiled(H, Extent)
  BY <1>1, <1>5, <1>8, HalvedTiled DEF t
<1>12. Halves(H, t, op.size, new)
  BY <1>1, <1>5, <1>7, <1>8, HalvedParts
<1>13. /\ DOMAIN H = DOMAIN tag \cup {new} /\ new # t /\ new # NULL /\ t # NULL
       /\ H[new].index = -1 /\ H[new].next = NULL /\ H[new].prev = NULL
       /\ \A a \in DOMAIN tag : /\ H[a].index = tag[a].index
                                /\ H[a].next = tag[a].next
                                /\ H[a].prev = tag[a].prev
  BY <1>1, <1>6, <1>12 DEF Halves, NULL
<1>14. /\ H[new].real_size = tag[t].real_size - TAG - op.size
       /\ H[new].split_left = t /\ H[new].split_right = tag[t].split_right
       /\ H[t].size = op.size /\ H[t].real_size = TAG + op.size
       /\ H[t].split_right = new /\ H[t].split_left = tag[t].split_left
       /\ \A a \in DOMAIN tag \ {t} :
            /\ H[a].size = tag[a].size
            /\ H[a].real_size = tag[a].real_size
            /\ H[a].split_right = tag[a].split_right
            /\ H[a].split_left = IF a = tag[t].split_right THEN new
                                 ELSE tag[a].split_left
  BY <1>12 DEF Halves
<1>15. Lists(H, l_freePages)
  BY <1>5, <1>13, SameLists
<1>16. Tags(V) /\ LinkedTo(H, V, new, i)
  <2>1. i \in Int /\ l_freePages[i] \in Int
    BY <1>5, <1>6, IndexNat DEF Lists
  <2>2. QED
    BY <1>6, <1>8, <1>10, <2>1, LinkedFields
<1>17. /\ DOMAIN V = DOMAIN H
       /\ \A a \in DOMAIN H : /\ V[a].real_size = H[a].real_size
                              /\ V[a].split_left = H[a].split_left
                              /\ V[a].split_right = H[a].split_right
                              /\ V[a].size = H[a].size
                              /\ V[a].index = IF a = new THEN i ELSE H[a].index
  BY <1>16 DEF LinkedTo, SameTiling
<1>18. Tiled(V, Extent)
  <2>1. SameTiling(H, V)
    BY <1>16 DEF LinkedTo
  <2>2. QED
    BY <1>11, <2>1, SameTiled
<1>19. Lists(V, l_freePages')
  <2>1. NULL \notin DOMAIN H /\ new \in DOMAIN H
    BY <1>13, Basics
  <2>2. Lists(V, [l_freePages EXCEPT ![i] = new])
    BY <1>6, <1>13, <1>15, <1>16, <2>1, LinkedLists
  <2>3. QED
    BY <2>2
<1>20. \A a \in DOMAIN V : a = new \/
          (/\ a \in DOMAIN tag /\ a # new /\ V[a].index = tag[a].index
           /\ a # t => /\ V[a].real_size = tag[a].real_size
                       /\ V[a].split_right = tag[a].split_right)
  BY <1>7, <1>13, <1>14, <1>17
<1>21. /\ new \in DOMAIN V /\ V[new].index = i /\ i # -1
       /\ V[new].real_size - TAG = x /\ V[new].split_right = tag[t].split_right
       /\ V[new].split_left = t /\ V[t].split_right = new /\ V[t].index = -1
  <2>1. V[new].real_size = tag[t].real_size - TAG - op.size
    BY <1>13, <1>14, <1>17
  <2>2. QED
    BY <1>1, <1>6, <1>13, <1>14, <1>17, <2>1, IndexNat DEF t
<1>22. Sorted(V)
  <2> SUFFICES ASSUME NEW a \in DOMAIN V, V[a].index # -1
               PROVE  V[a].index = ListIndex(V[a].real_size - TAG)
    BY DEF Sorted
  <2>1. CASE a = new
    BY <1>21, <2>1 DEF t
  <2>2. CASE a # new
    <3>1. a # t
      BY <1>21
    <3>2. QED
      BY <1>5, <1>20, <2>2, <3>1 DEF Sorted
  <2>3. QED
    BY <2>1, <2>2
<1>23. Melded(V)
  <2> SUFFICES ASSUME NEW a \in DOMAIN V, V[a].index # -1, V[a].split_right # NULL
               PROVE  V[V[a].split_right].index = -1
    BY DEF Melded
  <2>1. \A b \in DOMAIN tag :
          tag[b].split_right # NULL =>
            /\ tag[b].split_right \in DOMAIN tag
            /\ V[tag[b].split_right].index = tag[tag[b].split_right].index
    <3>1. \A b \in DOMAIN tag : V[b].index = tag[b].index
      BY <1>7, <1>13, <1>17
    <3>2. QED
      BY <3>1, NeighbourTags
  <2>2. CASE a = new
    BY <1>1, <1>21, <2>1, <2>2
  <2>3. CASE a # new
    <3>1. a # t
      BY <1>21
    <3>2. QED
      BY <1>5, <1>20, <2>1, <2>3, <3>1 DEF Melded
  <2>4. QED
    BY <2>2, <2>3
<1>24. Counted(V, l_completePages')
  <2>1. ASSUME NEW j \in Index
        PROVE  WholeIn(V, j) = WholeIn(tag, j)
    <3>1. j # -1
      BY IndexNat
    <3>2. ASSUME NEW a \in WholeIn(V, j)
          PROVE  a \in WholeIn(tag, j)
      <4>1. a \in DOMAIN V /\ V[a].index = j /\ V[a].split_left = NULL
            /\ V[a].split_right = NULL
        BY <3>2 DEF WholeIn
      <4>2. a # new /\ a # t
        BY <1>13, <1>21, <3>1, <4>1
      <4>3. a \in DOMAIN tag /\ tag[a].index = j /\ tag[a].split_right = NULL
        BY <1>20, <4>1, <4>2
      <4>4. tag[a].split_left = NULL
        BY <1>13, <1>14, <1>17, <4>1, <4>2, <4>3
      <4>5. QED
        BY <4>3, <4>4 DEF WholeIn
    <3>3. ASSUME NEW a \in WholeIn(tag, j)
          PROVE  a \in WholeIn(V, j)
      <4>1. a \in DOMAIN tag /\ tag[a].index = j /\ tag[a].split_left = NULL
            /\ tag[a].split_right = NULL
        BY <3>3 DEF WholeIn
      <4>2. a # t /\ a # new /\ a # NULL
        BY <1>1, <1>7, <3>1, <4>1, Basics DEF t
      <4>3. a # tag[t].split_right
        <5>1. tag[t].split_right # NULL => tag[tag[t].split_right].split_left = t
          BY <1>1, NeighbourTags
        <5>2. QED
          BY <1>13, <4>1, <4>2, <5>1
      <4>4. V[a].split_left = NULL /\ a \in DOMAIN V
        BY <1>13, <1>14, <1>17, <4>1, <4>2, <4>3
      <4>5. QED
        BY <1>20, <4>1, <4>2, <4>4 DEF WholeIn
    <3>4. QED
      BY <3>2, <3>3
  <2>2. Counted(V, l_completePages)
    BY <1>5, <2>1, SameCount
  <2>3. QED
    BY <1>3, <2>2
<1>25. BlocksGiven'
  BY <1>2 DEF IndInv, BlocksGiven
<1>26. Owned' /\ Control'
  <2>1. \A a \in DOMAIN live : a \in DOMAIN tag /\ a # t
    BY <1>1 DEF IndInv, Owned, InTransit, t
  <2>2. \A a \in DOMAIN live : /\ V[a].size = tag[a].size
                               /\ V[a].real_size = tag[a].real_size
    BY <1>13, <1>14, <1>17, <2>1
  <2>3. \A a : a \in DOMAIN V /\ V[a].index = -1 <=>
                 a \in DOMAIN tag /\ tag[a].index = -1
    BY <1>7, <1>13, <1>17, <1>20, <1>21
  <2>4. V[t].size = op.size /\ op.size + TAG <= V[t].real_size
    <3>1. V[t].size = op.size /\ V[t].real_size = TAG + op.size
      BY <1>1, <1>13, <1>14, <1>17
    <3>2. QED
      BY <1>1, <1>4, <3>1
  <2>5. QED
    BY <1>1, <1>2, <2>2, <2>3, <2>4, CarvedOwned DEF t, V
<1>27. QED
  BY <1>3, <1>16, <1>18, <1>19, <1>22, <1>23, <1>24, <1>25, <1>26 DEF IndInv, V

\* Something is split off only when it is there: the excess, as a signed number,
\* is not negative.
LEMMA CarveInv ==
  ASSUME IndInv, Carve
  PROVE  IndInv'
<1> DEFINE x     == tag[op.t].real_size - op.size - 2 * TAG
           rest  == Unsigned(x)
           index == ListIndex(rest)
           new   == SplitAt(op.t, op.size)
<1>1. /\ op.pc = "carve" /\ op.t \in DOMAIN tag
      /\ op.size \in Nat /\ op.size < UINT /\ TAG + op.size <= tag[op.t].real_size
      /\ op.t \in Int /\ op.t > 0 /\ tag[op.t].real_size \in Int
      /\ op.t + tag[op.t].real_size <= Top /\ tag[op.t].real_size < UINT
  BY CarveRoom
<1>2. /\ TAG \in Nat /\ TAG > 0 /\ 2 * TAG < UINT /\ UINT \in Nat /\ Top \in Nat
      /\ Top < UINT
  BY Widths
<1>3. \/ /\ Signed(rest) > 0
         /\ tag' = Split(op.t, op.size)
         /\ l_freePages' = [l_freePages EXCEPT ![index] = new]
      \/ tag' = [tag EXCEPT ![op.t].size = op.size] /\ UNCHANGED l_freePages
  BY DEF Carve
<1>4. CASE tag' = [tag EXCEPT ![op.t].size = op.size] /\ UNCHANGED l_freePages
  BY <1>4, CarveWholeInv
<1>5. CASE /\ Signed(rest) > 0
           /\ tag' = Split(op.t, op.size)
           /\ l_freePages' = [l_freePages EXCEPT ![index] = new]
  <2>1. x \in Int /\ -TAG <= x /\ x < UINT
    BY <1>1, <1>2
  <2>2. x >= 0
    <3> SUFFICES ASSUME x < 0
                 PROVE  FALSE
      BY <2>1
    <3>1. rest = x + UINT
      <4>1. -UINT <= x
        BY <1>2, <2>1
      <4> HIDE DEF x
      <4>2. QED
        BY <2>1, <4>1, Wrap
    <3>2. UINT \div 2 <= x + UINT
      BY <1>2, <2>1
    <3> HIDE DEF x, rest
    <3>3. Signed(rest) = x
      BY <1>2, <2>1, <3>1, <3>2 DEF Signed
    <3>4. QED
      BY <1>5, <2>1, <3>3
  <2>3. rest = x
    <3> HIDE DEF x
    <3>1. QED
      BY <2>1, <2>2, Wrap
  <2>4. new = op.t + TAG + op.size
    <3>1. op.t + TAG + op.size \in Int /\ 0 <= op.t + TAG + op.size
          /\ op.t + TAG + op.size < UINT
      BY <1>1, <1>2
    <3>2. QED
      BY <3>1, Wrap DEF SplitAt
  <2>5. x = tag[op.t].real_size - TAG - op.size - TAG
    BY <1>1, <1>2
  <2>6. TAG + op.size + TAG <= tag[op.t].real_size
    BY <1>1, <1>2, <2>2
  <2>7. index = ListIndex(tag[op.t].real_size - TAG - op.size - TAG)
    BY <2>3, <2>5
  <2> HIDE DEF x, rest, index, new
  <2>8. QED
    BY <1>5, <2>4, <2>6, <2>7, CarveSplitInv
<1>6. QED
  BY <1>3, <1>4, <1>5

LEMMA InsertFreeInv ==
  ASSUME IndInv, InsertFree
  PROVE  IndInv'
<1> DEFINE t == op.t
           i == FreeIndex
           V == tag'
<1>1. /\ op.pc = "melt" /\ ~LeftIsFree(t) /\ ~RightIsFree(t) /\ ~Surplus
      /\ l_completePages' = [l_completePages EXCEPT ![i] =
                               IF Whole(t) THEN l_completePages[i] + 1
                               ELSE l_completePages[i]]
      /\ V = Linked(tag, t, i)
      /\ l_freePages' = [l_freePages EXCEPT ![i] = t]
      /\ op' = Idle
      /\ UNCHANGED <<pages, live>>
  BY DEF InsertFree, At
<1>2. t \in DOMAIN tag /\ tag[t].index = -1
  BY <1>1 DEF IndInv, Control
<1>3. /\ t \in Int /\ t > 0 /\ tag[t].real_size \in Int
      /\ tag[t].real_size >= TAG /\ t + tag[t].real_size <= Top
  BY <1>2, Basics
<1>4. i = ListIndex(tag[t].real_size - TAG) /\ i \in Index
  <2>1. tag[t].real_size - TAG \in 0 .. UINT - 1
    BY <1>3, Widths
  <2>2. QED
    BY <2>1, ListIndexIn DEF FreeIndex
<1>5. /\ Tags(tag) /\ Tiled(tag, Extent) /\ Lists(tag, l_freePages)
      /\ Sorted(tag) /\ Melded(tag) /\ Counted(tag, l_completePages)
  BY DEF IndInv
<1>6. i # -1
  BY <1>4, IndexNat
<1> HIDE DEF i, V
<1>7. Tags(V) /\ LinkedTo(tag, V, t, i)
  <2>1. i \in Int /\ l_freePages[i] \in Int
    BY <1>4, <1>5, IndexNat DEF Lists
  <2>2. QED
    BY <1>1, <1>3, <1>5, <2>1, LinkedFields
<1>8. /\ DOMAIN V = DOMAIN tag
      /\ \A a \in DOMAIN tag : /\ V[a].real_size = tag[a].real_size
                               /\ V[a].split_left = tag[a].split_left
                               /\ V[a].split_right = tag[a].split_right
                               /\ V[a].size = tag[a].size
                               /\ V[a].index = IF a = t THEN i ELSE tag[a].index
  BY <1>7 DEF LinkedTo, SameTiling
<1> HIDE DEF t
<1>9. Extent' = Extent
  BY <1>1 DEF Extent
<1>10. Tiled(V, Extent)
  <2>1. SameTiling(tag, V)
    BY <1>7 DEF LinkedTo
  <2>2. QED
    BY <1>5, <2>1, SameTiled
<1>11. Lists(V, l_freePages')
  <2>1. NULL \notin DOMAIN tag
    BY Basics
  <2>2. Lists(V, [l_freePages EXCEPT ![i] = t])
    BY <1>2, <1>3, <1>4, <1>5, <1>7, <2>1, LinkedLists
  <2>3. QED
    BY <1>1, <2>2
<1>12. Sorted(V)
  BY <1>4, <1>5, <1>8 DEF Sorted
<1>13. Melded(V)
  <2> SUFFICES ASSUME NEW a \in DOMAIN V, V[a].index # -1, V[a].split_right # NULL
               PROVE  V[V[a].split_right].index = -1
    BY DEF Melded
  <2> DEFINE q == tag[a].split_right
  <2>1. /\ a \in DOMAIN tag /\ V[a].split_right = q /\ q # NULL
        /\ q \in DOMAIN tag /\ q # a /\ tag[q].split_left = a
    BY <1>8, NeighbourTags
  <2>2. CASE a = t
    <3>1. tag[q].index = -1
      BY <1>1, <2>1, <2>2, Basics DEF RightIsFree
    <3>2. QED
      BY <1>8, <2>1, <2>2, <3>1
  <2>3. CASE a # t
    <3>1. tag[a].index # -1
      BY <1>8, <2>1, <2>3
    <3>2. q # t
      <4> SUFFICES ASSUME q = t
                   PROVE  FALSE
        OBVIOUS
      <4>1. tag[t].split_left = a /\ a # NULL
        BY <2>1, Basics
      <4>2. ~(tag[a].index >= 0)
        BY <1>1, <4>1 DEF LeftIsFree
      <4>3. QED
        BY <2>1, <3>1, <4>2, Basics
    <3>3. tag[q].index = -1
      BY <1>5, <2>1, <3>1 DEF Melded
    <3>4. QED
      BY <1>8, <2>1, <3>2, <3>3
  <2>4. QED
    BY <2>2, <2>3
<1>14. Counted(V, l_completePages')
  <2>1. /\ l_completePages \in [Index -> Int]
        /\ \A j \in Index : l_completePages[j] = Cardinality(WholeIn(tag, j))
                            /\ l_completePages[j] <= MAXCOMPLETE
    BY <1>5 DEF Counted
  <2>2. Whole(t) => l_completePages[i] # MAXCOMPLETE
    BY <1>1 DEF Surplus, t, i
  <2>3. \A j \in Index : j # i => WholeIn(V, j) = WholeIn(tag, j)
    BY <1>2, <1>8, IndexNat DEF WholeIn
  <2>4. /\ Whole(t) => WholeIn(V, i) = WholeIn(tag, i) \cup {t}
        /\ ~Whole(t) => WholeIn(V, i) = WholeIn(tag, i)
        /\ t \notin WholeIn(tag, i)
    BY <1>2, <1>6, <1>8 DEF WholeIn, Whole
  <2>5. IsFiniteSet(WholeIn(tag, i))
    BY Basics, FS_Subset DEF WholeIn
  <2>6. Cardinality(WholeIn(tag, i) \cup {t}) = Cardinality(WholeIn(tag, i)) + 1
    BY <2>4, <2>5, FS_AddElement
  <2>7. ASSUME NEW j \in Index
        PROVE  l_completePages'[j] = Cardinality(WholeIn(V, j))
               /\ l_completePages'[j] <= MAXCOMPLETE
               /\ l_completePages'[j] \in Int
    <3>1. CASE j = i
      <4>1. l_completePages'[j] = IF Whole(t) THEN l_completePages[j] + 1
                                  ELSE l_completePages[j]
        BY <1>1, <2>1, <3>1
      <4>2. MAXCOMPLETE \in Nat /\ l_completePages[j] \in Int
        BY <2>1, WidthAssumption
      <4>3. QED
        BY <2>1, <2>2, <2>4, <2>6, <3>1, <4>1, <4>2
    <3>2. CASE j # i
      <4>1. l_completePages'[j] = l_completePages[j]
        BY <1>1, <2>1, <3>2
      <4>2. QED
        BY <2>1, <2>3, <3>2, <4>1
    <3>3. QED
      BY <3>1, <3>2
  <2>8. l_completePages' = [j \in Index |-> l_completePages'[j]]
    BY <1>1, <2>1
  <2>9. QED
    BY <2>7, <2>8 DEF Counted
<1>15. BlocksGiven'
  BY <1>1 DEF IndInv, BlocksGiven
<1>16. Owned'
  <2>1. InTransit = {t} /\ InTransit' = {}
    BY <1>1 DEF InTransit, Idle, t
  <2>2. DOMAIN live = {a \in DOMAIN tag : tag[a].index = -1} \ {t}
    BY <2>1 DEF IndInv, Owned
  <2>3. DOMAIN live = {a \in DOMAIN V : V[a].index = -1}
    BY <1>6, <1>8, <2>2
  <2>4. \A a \in DOMAIN live :
          /\ live[a] \in Sizes /\ V[a].size = live[a]
          /\ live[a] + TAG <= V[a].real_size
    BY <1>8, <2>2 DEF IndInv, Owned
  <2>5. QED
    BY <1>1, <2>1, <2>3, <2>4 DEF Owned, V
<1>17. Control'
  BY <1>1 DEF Control, Calling, Idle, NULL
<1>18. QED
  BY <1>7, <1>9, <1>10, <1>11, <1>12, <1>13, <1>14, <1>15, <1>16, <1>17 DEF IndInv, V

LEMMA ReturnPagesInv ==
  ASSUME IndInv, ReturnPages
  PROVE  IndInv'
<1> DEFINE t == op.t
           V == tag'
<1>1. /\ op.pc = "melt" /\ Whole(t)
      /\ V = [a \in DOMAIN tag \ {t} |-> tag[a]]
      /\ pages' = [b \in DOMAIN pages \ {t} |-> pages[b]]
      /\ op' = Idle
      /\ UNCHANGED <<l_freePages, l_completePages, live>>
  BY DEF ReturnPages, At, Surplus
<1>2. t \in DOMAIN tag /\ tag[t].index = -1
  BY <1>1 DEF IndInv, Control
<1>3. tag[t].split_left = NULL /\ tag[t].split_right = NULL
  BY <1>1 DEF Whole
<1>4. /\ Tags(tag) /\ Tiled(tag, Extent) /\ Lists(tag, l_freePages)
      /\ Sorted(tag) /\ Melded(tag) /\ Counted(tag, l_completePages)
  BY DEF IndInv
<1> HIDE DEF t, V
<1>5. DOMAIN V = DOMAIN tag \ {t} /\ \A a \in DOMAIN tag \ {t} : V[a] = tag[a]
  BY <1>1
<1>6. Tags(V)
  <2>1. \A a \in DOMAIN V : V[a] \in TagRecord
    BY <1>4, <1>5 DEF Tags
  <2>2. V = [a \in DOMAIN V |-> V[a]]
    BY <1>1
  <2>3. QED
    BY <2>1, <2>2 DEF Tags
<1>7. Extent' = [b \in DOMAIN Extent \ {t} |-> Extent[b]]
  BY <1>1 DEF Extent
<1>8. Tiled(V, Extent')
  BY <1>2, <1>3, <1>4, <1>5, <1>7, DroppedTiled
<1>9. Lists(V, l_freePages')
  <2>1. Lists(V, l_freePages)
    BY <1>2, <1>4, <1>5, SameLists
  <2>2. QED
    BY <1>1, <2>1
<1>10. Sorted(V)
  BY <1>4, <1>5 DEF Sorted
<1>11. Melded(V)
  <2> SUFFICES ASSUME NEW a \in DOMAIN V, V[a].index # -1, V[a].split_right # NULL
               PROVE  V[V[a].split_right].index = -1
    BY DEF Melded
  <2> DEFINE q == tag[a].split_right
  <2>1. /\ a \in DOMAIN tag /\ V[a] = tag[a] /\ q # NULL
        /\ q \in DOMAIN tag /\ tag[q].split_left = a /\ a # NULL
    BY <1>5, NeighbourTags, Basics
  <2>2. q # t
    BY <1>3, <2>1
  <2>3. QED
    BY <1>4, <1>5, <2>1, <2>2 DEF Melded
<1>12. Counted(V, l_completePages')
  <2>1. \A j \in Index : WholeIn(V, j) = WholeIn(tag, j)
    BY <1>2, <1>5, IndexNat DEF WholeIn
  <2>2. Counted(V, l_completePages)
    BY <1>4, <2>1, SameCount
  <2>3. l_completePages' = l_completePages
    BY <1>1
  <2>4. QED
    BY <2>2, <2>3
<1>13. BlocksGiven'
  <2>1. DOMAIN pages' = DOMAIN pages \ {t} /\ \A b \in DOMAIN pages' : pages'[b] = pages[b]
    BY <1>1
  <2>2. pages' = [b \in DOMAIN pages' |-> pages'[b]]
    BY <1>1
  <2>3. QED
    BY <2>1, <2>2 DEF IndInv, BlocksGiven
<1>14. Owned'
  <2>1. InTransit = {t} /\ InTransit' = {}
    BY <1>1 DEF InTransit, Idle, t
  <2>2. DOMAIN live = {a \in DOMAIN tag : tag[a].index = -1} \ {t}
    BY <2>1 DEF IndInv, Owned
  <2>3. DOMAIN live = {a \in DOMAIN V : V[a].index = -1}
    BY <1>5, <2>2
  <2>4. \A a \in DOMAIN live :
          /\ live[a] \in Sizes /\ V[a].size = live[a]
          /\ live[a] + TAG <= V[a].real_size
    BY <1>5, <2>2 DEF IndInv, Owned
  <2>5. live' = live
    BY <1>1
  <2>6. QED
    BY <2>1, <2>3, <2>4, <2>5 DEF Owned, V
<1>15. Control'
  BY <1>1 DEF Control, Calling, Idle, NULL
<1>16. QED
  BY <1>6, <1>8, <1>9, <1>10, <1>11, <1>12, <1>13, <1>14, <1>15 DEF IndInv, V

-----------------------------------------------------------------------------
(* The invariant, and the properties it gives.                             *)

LEMMA StutterInv ==
  ASSUME IndInv, UNCHANGED vars
  PROVE  IndInv'
<1>1. UNCHANGED <<tag, l_freePages, l_completePages, pages, op, live>>
  BY DEF vars
<1>2. InTransit' = InTransit
  BY <1>1 DEF InTransit
<1>3. Owned'
  BY <1>1, <1>2 DEF IndInv, Owned
<1>4. Control'
  BY <1>1 DEF IndInv, Control
<1>5. QED
  BY <1>1, <1>3, <1>4, TagsStay

\* What the callers hold are addresses, and none is the null page.
LEMMA LiveTags ==
  ASSUME IndInv
  PROVE  \A t \in DOMAIN live :
           /\ t \in DOMAIN tag /\ t \in Int /\ t > 0 /\ tag[t].index = -1
           /\ live[t] \in Nat /\ live[t] + TAG <= tag[t].real_size
           /\ tag[t].real_size \in Int /\ t + tag[t].real_size <= Top
<1> TAKE t \in DOMAIN live
<1>1. /\ t \in DOMAIN tag /\ tag[t].index = -1 /\ live[t] \in Sizes
      /\ live[t] + TAG <= tag[t].real_size
  BY DEF IndInv, Owned
<1>2. live[t] \in Nat
  <2>1. UINT \in Nat
    BY Widths
  <2>2. live[t] \in 0 .. UINT - 1
    BY <1>1, RequestAssumption
  <2>3. QED
    BY <2>1, <2>2
<1>3. QED
  BY <1>1, <1>2, Basics

LEMMA NextInv ==
  ASSUME IndInv, [Next]_vars
  PROVE  IndInv'
<1>1. CASE UNCHANGED vars
  BY <1>1, StutterInv
<1>2. ASSUME NEW size \in Sizes, Call("malloc", size, NULL)
      PROVE  IndInv'
  <2>1. NULL \in Int
    BY DEF NULL
  <2>2. QED
    BY <1>2, <2>1, CallInv
<1>3. ASSUME NEW size \in Sizes, Call("calloc", size, NULL)
      PROVE  IndInv'
  <2>1. NULL \in Int
    BY DEF NULL
  <2>2. QED
    BY <1>3, <2>1, CallInv
<1>4. ASSUME NEW size \in Sizes, NEW old \in DOMAIN live, Call("realloc", size, old)
      PROVE  IndInv'
  <2>1. old \in Int
    BY LiveTags
  <2>2. QED
    BY <1>4, <2>1, CallInv
<1>5. CASE SearchFound
  BY <1>5, SearchFoundInv
<1>6. CASE SearchFailed
  BY <1>6, SearchFailedInv
<1>7. CASE PagesFound
  <2>1. PICK b \in 1 .. ArenaPages :
          RoomAt(b, PagesFor(op.size)) /\ PagesArrive(b)
    BY <1>7 DEF PagesFound, liballoc_alloc
  <2>2. QED
    BY <2>1, PagesArriveInv
<1>8. CASE PagesRefused
  <2>1. NoPages
    BY <1>8 DEF PagesRefused
  <2>2. QED
    BY <2>1, NoPagesInv
<1>9. CASE CarveHeader
  BY <1>9, CarveHeaderInv
<1>10. CASE Carve
  BY <1>10, CarveInv
<1>11. ASSUME NEW t \in DOMAIN live, FreeCall(t)
       PROVE  IndInv'
  <2>1. op.pc \in {"idle", "free"} /\ Surrender(t)
    BY <1>11 DEF FreeCall, At
  <2>2. QED
    BY <2>1, SurrenderInv
<1>12. CASE ReallocFree
  <2>1. op.pc \in {"idle", "free"} /\ op.pc = "free" /\ Surrender(op.old)
    BY <1>12 DEF ReallocFree, At
  <2>2. op.old \in DOMAIN live
    BY <2>1 DEF IndInv, Control
  <2>3. QED
    BY <2>1, <2>2, SurrenderInv
<1>13. CASE MeltLeft
  BY <1>13, MeltLeftInv
<1>14. CASE AbsorbRight
  BY <1>14, AbsorbRightInv
<1>15. CASE InsertFree
  BY <1>15, InsertFreeInv
<1>16. CASE ReturnPages
  BY <1>16, ReturnPagesInv
<1>17. QED
  BY <1>1, <1>2, <1>3, <1>4, <1>5, <1>6, <1>7, <1>8, <1>9, <1>10, <1>11, <1>12, <1>13,
     <1>14, <1>15, <1>16 DEF Next

\* The invariant: the tags tile the blocks and the blocks lie apart, the lists
\* hold the free tags where their sizes put them, no two neighbours are free,
\* the whole blocks are counted, and the callers hold the rest.
THEOREM SpecIndInv == Spec => []IndInv
<1>1. Init => IndInv
  BY InitInv
<1>2. IndInv /\ [Next]_vars => IndInv'
  BY NextInv
<1>3. QED
  BY <1>1, <1>2, PTL DEF Spec

\* The head of a list has no tag before it, and each tag is before its next.
LEMMA PrevLinks ==
  ASSUME IndInv, NEW i \in Index
  PROVE  /\ l_freePages[i] # NULL => tag[l_freePages[i]].prev = NULL
         /\ \A t \in DOMAIN tag : tag[t].index = i /\ tag[t].next # NULL =>
              tag[tag[t].next].prev = t
<1>1. PICK L \in Nat : \E s : IsList(tag, l_freePages, i, L, s)
  BY DEF IndInv, Lists
<1>2. PICK s : IsList(tag, l_freePages, i, L, s)
  BY <1>1
<1>3. l_freePages[i] # NULL => tag[l_freePages[i]].prev = NULL
  <2>1. l_freePages[i] # NULL => 1 \in 1 .. L /\ l_freePages[i] = s[1]
    BY <1>2 DEF IsList
  <2>2. 1 \in 1 .. L => tag[s[1]].prev = NULL
    BY <1>2 DEF IsList
  <2>3. QED
    BY <2>1, <2>2
<1>4. ASSUME NEW t \in DOMAIN tag, tag[t].index = i, tag[t].next # NULL
      PROVE  tag[tag[t].next].prev = t
  <2>1. PICK k \in 1 .. L : s[k] = t
    BY <1>2, <1>4 DEF IsList
  <2>2. k # L /\ tag[t].next = s[k + 1]
    BY <1>2, <1>4, <2>1 DEF IsList
  <2>3. k + 1 \in 1 .. L /\ k + 1 # 1 /\ (k + 1) - 1 = k
    BY <2>2
  <2>4. tag[s[k + 1]].prev = s[(k + 1) - 1]
    BY <1>2, <2>3 DEF IsList
  <2>5. QED
    BY <2>1, <2>2, <2>3, <2>4
<1>5. QED
  BY <1>3, <1>4

LEMMA ListsSoundHolds == IndInv => ListsSound
<1> SUFFICES ASSUME IndInv
             PROVE  ListsSound
  OBVIOUS
<1>1. FreeTags = {t \in DOMAIN tag : tag[t].index # -1}
  BY Basics DEF FreeTags
<1>2. ASSUME NEW i \in Index
      PROVE  LET members == {t \in FreeTags : tag[t].index = i}
                 walk    == ListWalk(i)
             IN  /\ {walk[n] : n \in DOMAIN walk} \ {NULL} = members
                 /\ l_freePages[i] # NULL => tag[l_freePages[i]].prev = NULL
                 /\ \A t \in members :
                      tag[t].next # NULL => tag[tag[t].next].prev = t
  <2> DEFINE members == {t \in FreeTags : tag[t].index = i}
             walk    == ListWalk(i)
  <2>1. members = {t \in DOMAIN tag : tag[t].index = i}
    BY <1>1, IndexNat
  <2>2. {walk[n] : n \in DOMAIN walk} \ {NULL} = {t \in DOMAIN tag : tag[t].index = i}
    <3>1. Lists(tag, l_freePages)
      BY DEF IndInv
    <3>2. QED
      BY <3>1, Basics, WalkList
  <2> HIDE DEF members, walk
  <2>3. {walk[n] : n \in DOMAIN walk} \ {NULL} = members
    BY <2>1, <2>2
  <2>4. l_freePages[i] # NULL => tag[l_freePages[i]].prev = NULL
    BY PrevLinks
  <2>5. \A t \in members : tag[t].next # NULL => tag[tag[t].next].prev = t
    BY <2>1, PrevLinks
  <2>6. QED
    BY <2>3, <2>4, <2>5 DEF members, walk
<1>3. \A t \in FreeTags : tag[t].index = ListIndex(tag[t].real_size - TAG)
  BY <1>1 DEF IndInv, Sorted
<1>4. \A t \in DOMAIN tag \ FreeTags : tag[t].next = NULL /\ tag[t].prev = NULL
  <2> TAKE t \in DOMAIN tag \ FreeTags
  <2>1. tag[t].index = -1 /\ ~(tag[t].index \in Index)
    BY <1>1, IndexNat
  <2>2. QED
    BY <2>1 DEF IndInv, Lists
<1>5. QED
  BY <1>2, <1>3, <1>4 DEF ListsSound

LEMMA BlocksTiledHolds == IndInv => BlocksTiled
<1> SUFFICES ASSUME IndInv
             PROVE  BlocksTiled
  OBVIOUS
<1>1. DOMAIN Extent = DOMAIN pages /\ \A b \in DOMAIN pages : Extent[b] = pages[b] * PageSize
  BY DEF Extent
<1>2. Neighbours(tag, Extent) /\ Melded(tag)
  BY DEF IndInv, Tiled
<1>3. FreeTags = {t \in DOMAIN tag : tag[t].index # -1}
  BY Basics DEF FreeTags
<1>4. {t \in DOMAIN tag : tag[t].split_left = NULL} = DOMAIN pages
  BY <1>1, <1>2 DEF Neighbours
<1>5. ASSUME NEW t \in DOMAIN tag
      PROVE  LET r == tag[t].split_right
             IN  IF r = NULL
                 THEN \E b \in DOMAIN pages :
                        b <= t /\ t + tag[t].real_size = b + pages[b] * PageSize
                 ELSE t + tag[t].real_size = r /\ tag[r].split_left = t
  <2>1. CASE tag[t].split_right = NULL
    <3>1. PICK b \in DOMAIN Extent : b <= t /\ t + tag[t].real_size = b + Extent[b]
      BY <1>2, <2>1 DEF Neighbours
    <3>2. b \in DOMAIN pages /\ Extent[b] = pages[b] * PageSize
      BY <1>1
    <3>3. QED
      BY <2>1, <3>1, <3>2
  <2>2. CASE tag[t].split_right # NULL
    BY <1>2, <2>2 DEF Neighbours
  <2>3. QED
    BY <2>1, <2>2
<1>6. \A t \in DOMAIN tag :
        LET l == tag[t].split_left
        IN  l # NULL => tag[l].split_right = t
  BY <1>2 DEF Neighbours
<1>7. \A t \in FreeTags :
        tag[t].split_right # NULL => tag[t].split_right \notin FreeTags
  BY <1>2, <1>3 DEF Melded
<1>8. QED
  BY <1>4, <1>5, <1>6, <1>7 DEF BlocksTiled

LEMMA CompleteCountedHolds == IndInv => CompleteCounted
<1> SUFFICES ASSUME IndInv, NEW i \in Index
             PROVE  /\ l_completePages[i] =
                         Cardinality({t \in FreeTags : tag[t].index = i /\ Whole(t)})
                    /\ l_completePages[i] <= MAXCOMPLETE
  BY DEF CompleteCounted
<1>1. {t \in FreeTags : tag[t].index = i /\ Whole(t)} = WholeIn(tag, i)
  BY IndexNat DEF FreeTags, Whole, WholeIn
<1>2. Counted(tag, l_completePages)
  BY DEF IndInv
<1>3. QED
  BY <1>1, <1>2 DEF Counted

LEMMA AllocationsFitHolds == IndInv => AllocationsFit
<1> SUFFICES ASSUME IndInv
             PROVE  AllocationsFit
  OBVIOUS
<1>1. FreeTags = {t \in DOMAIN tag : tag[t].index # -1}
  BY Basics DEF FreeTags
<1>2. DOMAIN live = DOMAIN tag \ (FreeTags \cup InTransit)
  BY <1>1 DEF IndInv, Owned
<1>3. \A t \in DOMAIN live :
        tag[t].size = live[t] /\ live[t] + TAG <= tag[t].real_size
  BY DEF IndInv, Owned
<1>4. op.pc = "corrupt" => op.size + TAG >= UINT
  BY DEF IndInv, Control
<1>5. QED
  BY <1>2, <1>3, <1>4 DEF AllocationsFit

\* insert_tag and remove_tag keep every list a doubly linked list of exactly the
\* free tags whose size belongs there, over any sequence of calls.
THEOREM SpecListsSound == Spec => []ListsSound
BY SpecIndInv, ListsSoundHolds, PTL

\* split_tag, melt_left and absorb_right keep the tags of every block adjoining
\* from its first byte to its last, and free leaves no two free neighbours.
THEOREM SpecBlocksTiled == Spec => []BlocksTiled
BY SpecIndInv, BlocksTiledHolds, PTL

\* l_completePages is the number of the whole free blocks of each list, and at
\* most MAXCOMPLETE.
THEOREM SpecCompleteCounted == Spec => []CompleteCounted
BY SpecIndInv, CompleteCountedHolds, PTL

\* What malloc returned keeps its bytes and its header until it is freed, and
\* no tag is lost; the header is overrun only by a size within TAG of UINT.
THEOREM SpecAllocationsFit == Spec => []AllocationsFit
BY SpecIndInv, AllocationsFitHolds, PTL

\* A whole block has the pages it came with: what liballoc_free is told is
\* worked out anew from the tag's size, which melting has put together from the
\* parts.
LEMMA WholeReturned ==
  ASSUME IndInv, ReturnPages
  PROVE  op.t \in DOMAIN pages /\ pages[op.t] = ReturnedPages(op.t)
<1> DEFINE t == op.t
<1>1. op.pc = "melt" /\ tag[t].split_left = NULL /\ tag[t].split_right = NULL
  BY DEF ReturnPages, At, Surplus, Whole
<1>2. t \in DOMAIN tag
  BY <1>1 DEF IndInv, Control
<1>3. Tags(tag) /\ Tiled(tag, Extent)
  BY DEF IndInv
<1> HIDE DEF t
<1>4. t \in DOMAIN Extent /\ Extent[t] = tag[t].real_size
  BY <1>1, <1>2, <1>3, WholeBlock
<1>5. t \in DOMAIN pages /\ pages[t] * PageSize = tag[t].real_size
  BY <1>4 DEF Extent
<1>6. pages[t] \in Nat /\ pages[t] >= PageCount
  BY <1>5 DEF IndInv, BlocksGiven
<1>7. PageSize \in Nat \ {0} /\ PageCount \in Nat \ {0}
  BY Widths
<1>8. pages[t] * PageSize \in Nat
  BY <1>6, <1>7
<1>9. (tag[t].real_size + PageSize - 1) \div PageSize = pages[t]
  BY <1>5, <1>6, <1>7, <1>8, Covering
<1> DEFINE n == (tag[t].real_size + PageSize - 1) \div PageSize
<1>10. ReturnedPages(t) = IF n < PageCount THEN PageCount ELSE n
  BY DEF ReturnedPages
<1>11. ReturnedPages(t) = pages[t]
  <2>1. n = pages[t]
    BY <1>9
  <2> HIDE DEF n
  <2>2. QED
    BY <1>6, <1>7, <1>10, <2>1
<1>12. QED
  BY <1>5, <1>11 DEF t

\* A whole block that is surplus goes back with the number of pages it came
\* with, whatever was split off it and melted into it before.
THEOREM SpecPagesReturnedWhole == Spec => PagesReturnedWhole
<1>1. IndInv /\ [Next]_vars =>
        [ReturnPages => op.t \in DOMAIN pages /\ pages[op.t] = ReturnedPages(op.t)]_vars
  BY WholeReturned
<1>2. QED
  BY <1>1, SpecIndInv, PTL DEF Spec, PagesReturnedWhole

-----------------------------------------------------------------------------
(* The heap implements the abstract heap.                                  *)

\* What the abstract heap sees of the allocations h, and of those after a step.
Shown(h) == [p \in {t + TAG : t \in DOMAIN h} |-> h[p - TAG]]

LEMMA ShownStarts ==
  ASSUME NEW h, DOMAIN h \subseteq Int
  PROVE  /\ \A t \in DOMAIN h : t + TAG \in DOMAIN Shown(h) /\ Shown(h)[t + TAG] = h[t]
         /\ \A p \in DOMAIN Shown(h) :
              /\ p - TAG \in DOMAIN h /\ p = (p - TAG) + TAG
              /\ Shown(h)[p] = h[p - TAG] /\ p \in Int
<1>1. TAG \in Nat
  BY Widths
<1>2. \A t \in DOMAIN h : t \in Int /\ (t + TAG) - TAG = t
  BY <1>1
<1>3. DOMAIN Shown(h) = {t + TAG : t \in DOMAIN h}
  BY DEF Shown
<1>4. ASSUME NEW t \in DOMAIN h
      PROVE  t + TAG \in DOMAIN Shown(h) /\ Shown(h)[t + TAG] = h[t]
  <2>1. t + TAG \in {u + TAG : u \in DOMAIN h}
    OBVIOUS
  <2>2. Shown(h)[t + TAG] = h[(t + TAG) - TAG]
    BY <2>1 DEF Shown
  <2>3. QED
    BY <1>2, <1>3, <2>1, <2>2
<1>5. ASSUME NEW p \in DOMAIN Shown(h)
      PROVE  /\ p - TAG \in DOMAIN h /\ p = (p - TAG) + TAG
             /\ Shown(h)[p] = h[p - TAG] /\ p \in Int
  <2>1. PICK t \in DOMAIN h : p = t + TAG
    BY <1>3
  <2>2. p - TAG = t /\ p \in Int
    BY <1>1, <1>2, <2>1
  <2>3. Shown(h)[p] = h[p - TAG]
    BY <1>3 DEF Shown
  <2>4. QED
    BY <2>1, <2>2, <2>3
<1>6. QED
  BY <1>4, <1>5

\* A carved tag is shown as an allocation apart from those that are held.
LEMMA CarveAllocates ==
  ASSUME IndInv, IndInv', Carve
  PROVE  LET p == op.t + TAG
         IN  /\ p \notin DOMAIN Shown(live) /\ op.size \in Sizes
             /\ p - TAG > 0 /\ p + op.size - 1 <= Top - 1
             /\ \A q \in DOMAIN Shown(live) :
                  p + op.size <= q - TAG \/ q + Shown(live)[q] <= p - TAG
             /\ Shown(live') = [q \in DOMAIN Shown(live) \cup {p} |->
                                  IF q = p THEN op.size ELSE Shown(live)[q]]
<1> DEFINE p == op.t + TAG
           t == op.t
           size == op.size
<1>1. /\ op.pc = "carve" /\ op.t \in DOMAIN tag /\ op.size \in Sizes
      /\ live' = [u \in DOMAIN live \cup {t} |-> IF u = t THEN size ELSE live[u]]
  BY SplitWraps DEF Carve, At
<1>2. t \notin DOMAIN live
  BY <1>1 DEF IndInv, Owned, InTransit
<1>3. TAG \in Nat /\ TAG > 0 /\ Top \in Nat
  BY Widths
<1> HIDE DEF t, size
<1>4. /\ DOMAIN live' = DOMAIN live \cup {t} /\ live'[t] = size
      /\ \A u \in DOMAIN live : live'[u] = live[u]
  BY <1>1, <1>2
<1>5. \A u \in DOMAIN live' :
        /\ u \in DOMAIN tag' /\ u \in Int /\ u > 0
        /\ live'[u] \in Nat /\ live'[u] + TAG <= tag'[u].real_size
        /\ tag'[u].real_size \in Int /\ u + tag'[u].real_size <= Top
  <2> TAKE u \in DOMAIN live'
  <2>1. u \in DOMAIN tag' /\ live'[u] \in Sizes /\ live'[u] + TAG <= tag'[u].real_size
    BY DEF IndInv, Owned
  <2>2. Tags(tag') /\ Tiled(tag', Extent')
    BY DEF IndInv
  <2>3. /\ u \in Int /\ u > 0 /\ tag'[u].real_size \in Int
        /\ u + tag'[u].real_size <= Top
    BY <2>1, <2>2, InBlock
  <2>4. UINT \in Nat /\ live'[u] \in 0 .. UINT - 1
    BY <2>1, RequestAssumption, Widths
  <2>5. QED
    BY <2>1, <2>3, <2>4
<1>7. \A a, b \in DOMAIN tag' : a < b => a + tag'[a].real_size <= b
  BY DEF IndInv, Tiled, Apart
<1>8. ASSUME NEW a \in DOMAIN live', NEW b \in DOMAIN live', a < b
      PROVE  a + TAG + live'[a] <= b
  BY <1>3, <1>5, <1>7, <1>8
<1>9. /\ t \in Int /\ t > 0 /\ size \in Nat /\ t + TAG + size <= Top
  BY <1>3, <1>4, <1>5
<1>10. DOMAIN live \subseteq Int /\ DOMAIN live' \subseteq Int
  BY <1>4, <1>5
<1>11. p = t + TAG /\ p \in Int /\ p - TAG = t
  BY <1>3, <1>9 DEF t
<1> HIDE DEF p
<1>12. p \notin DOMAIN Shown(live)
  BY <1>2, <1>10, <1>11, ShownStarts
<1>13. p - TAG > 0 /\ p + size - 1 <= Top - 1
  BY <1>3, <1>9, <1>11
<1>14. ASSUME NEW q \in DOMAIN Shown(live)
       PROVE  p + size <= q - TAG \/ q + Shown(live)[q] <= p - TAG
  <2> DEFINE u == q - TAG
  <2>1. u \in DOMAIN live /\ q = u + TAG /\ Shown(live)[q] = live[u]
    BY <1>10, ShownStarts
  <2> HIDE DEF u
  <2>2. u \in Int /\ u # t /\ live[u] \in Nat /\ live'[u] = live[u]
    BY <1>2, <1>4, <1>5, <2>1
  <2>3. t < u => t + TAG + size <= u
    BY <1>4, <1>8, <2>1
  <2>4. u < t => u + TAG + live[u] <= t
    BY <1>4, <1>8, <2>1, <2>2
  <2>5. QED
    BY <1>3, <1>9, <1>11, <2>1, <2>2, <2>3, <2>4
<1>15. Shown(live') = [q \in DOMAIN Shown(live) \cup {p} |->
                         IF q = p THEN size ELSE Shown(live)[q]]
  <2> DEFINE R == [q \in DOMAIN Shown(live) \cup {p} |->
                     IF q = p THEN size ELSE Shown(live)[q]]
  <2>1. DOMAIN Shown(live') = DOMAIN Shown(live) \cup {p}
    BY <1>4, <1>11 DEF Shown
  <2>2. ASSUME NEW q \in DOMAIN Shown(live')
        PROVE  Shown(live')[q] = R[q]
    <3>1. q - TAG \in DOMAIN live' /\ Shown(live')[q] = live'[q - TAG]
      BY <1>10, ShownStarts
    <3>2. CASE q = p
      BY <1>4, <1>11, <3>1, <3>2
    <3>3. CASE q # p
      <4>1. q \in DOMAIN Shown(live)
        BY <2>1, <3>3
      <4>2. q - TAG \in DOMAIN live /\ Shown(live)[q] = live[q - TAG]
        BY <1>10, <4>1, ShownStarts
      <4>3. live'[q - TAG] = live[q - TAG]
        BY <1>4, <4>2
      <4>4. R[q] = Shown(live)[q]
        BY <3>3, <4>1
      <4>5. QED
        BY <3>1, <4>2, <4>3, <4>4
    <3>4. QED
      BY <3>2, <3>3
  <2>3. Shown(live') = [q \in DOMAIN Shown(live') |-> Shown(live')[q]]
    BY DEF Shown
  <2>4. QED
    BY <2>1, <2>2, <2>3
<1>16. QED
  BY <1>1, <1>12, <1>13, <1>14, <1>15 DEF p, size

LEMMA SurrenderReleases ==
  ASSUME IndInv, NEW t \in DOMAIN live, Surrender(t)
  PROVE  /\ t + TAG \in DOMAIN Shown(live)
         /\ Shown(live') = [q \in DOMAIN Shown(live) \ {t + TAG} |-> Shown(live)[q]]
<1>1. live' = [u \in DOMAIN live \ {t} |-> live[u]]
  BY DEF Surrender
<1>2. DOMAIN live \subseteq Int /\ TAG \in Nat
  BY LiveTags, Widths
<1>3. DOMAIN live' = DOMAIN live \ {t} /\ \A u \in DOMAIN live' : live'[u] = live[u]
  BY <1>1
<1>4. DOMAIN live' \subseteq Int
  BY <1>2, <1>3
<1>5. DOMAIN Shown(live') = DOMAIN Shown(live) \ {t + TAG}
  <2>1. \A u \in DOMAIN live : u \in Int /\ (u + TAG = t + TAG => u = t)
    <3>1. t \in Int /\ TAG \in Int
      BY <1>2
    <3>2. QED
      BY <1>2, <3>1
  <2>2. QED
    BY <1>3, <2>1 DEF Shown
<1>6. ASSUME NEW q \in DOMAIN Shown(live')
      PROVE  Shown(live')[q] = Shown(live)[q]
  <2>1. q - TAG \in DOMAIN live' /\ Shown(live')[q] = live'[q - TAG]
    BY <1>4, ShownStarts
  <2>2. q \in DOMAIN Shown(live)
    BY <1>5
  <2>3. Shown(live)[q] = live[q - TAG]
    BY <1>2, <2>2, ShownStarts
  <2>4. QED
    BY <1>3, <2>1, <2>3
<1>7. Shown(live') = [q \in DOMAIN Shown(live') |-> Shown(live')[q]]
  BY DEF Shown
<1>8. t + TAG \in DOMAIN Shown(live)
  BY <1>2, ShownStarts
<1>9. QED
  BY <1>5, <1>6, <1>7, <1>8

\* Only Carve, and the two that surrender a tag, change what the callers hold.
LEMMA LiveChanges ==
  ASSUME IndInv, [Next]_vars
  PROVE  \/ UNCHANGED live
         \/ Carve
         \/ \E t \in DOMAIN live : Surrender(t)
<1>1. CASE UNCHANGED vars
  BY <1>1 DEF vars
<1>2. CASE \E size \in Sizes :
             \/ Call("malloc", size, NULL)
             \/ Call("calloc", size, NULL)
             \/ \E old \in DOMAIN live : Call("realloc", size, old)
  BY <1>2 DEF Call
<1>3. CASE SearchFound \/ SearchFailed
  BY <1>3 DEF SearchFound, SearchFailed
<1>4. CASE PagesFound \/ PagesRefused
  BY <1>4 DEF PagesFound, PagesArrive, PagesRefused, NoPages
<1>5. CASE CarveHeader \/ Carve
  BY <1>5 DEF CarveHeader
<1>6. CASE \E t \in DOMAIN live : FreeCall(t)
  BY <1>6 DEF FreeCall
<1>7. CASE ReallocFree
  BY <1>7 DEF ReallocFree, At, IndInv, Control
<1>8. CASE MeltLeft \/ AbsorbRight
  BY <1>8 DEF MeltLeft, AbsorbRight
<1>9. CASE InsertFree \/ ReturnPages
  BY <1>9 DEF InsertFree, ReturnPages
<1>10. QED
  BY <1>1, <1>2, <1>3, <1>4, <1>5, <1>6, <1>7, <1>8, <1>9 DEF Next

\* What a carved or a surrendered tag is to the abstract heap: an allocation of
\* bytes and a header that touch no other one, or a release.
LEMMA CarveOrSurrender ==
  ASSUME IndInv, IndInv', Carve \/ \E t \in DOMAIN live : Surrender(t)
  PROVE  Heap!Next
<1> DEFINE held == [p \in {t + TAG : t \in DOMAIN live} |-> live[p - TAG]]
<1>1. held = Shown(live) /\ held' = Shown(live')
  BY DEF Shown
<1> HIDE DEF held
<1>2. CASE Carve
  <2>1. PICK p, size :
          /\ p \notin DOMAIN held /\ size \in Sizes
          /\ p - TAG > 0 /\ p + size - 1 <= Top - 1
          /\ \A q \in DOMAIN held : p + size <= q - TAG \/ q + held[q] <= p - TAG
          /\ held' = [q \in DOMAIN held \cup {p} |-> IF q = p THEN size ELSE held[q]]
    BY <1>1, <1>2, CarveAllocates
  <2>2. Heap!Allocate(p, size)
    BY <2>1 DEF Heap!Allocate, Top, held
  <2>3. p \in DOMAIN held'
    BY <2>1
  <2>4. QED
    BY <2>1, <2>2, <2>3 DEF Heap!Next, held
<1>3. CASE \E t \in DOMAIN live : Surrender(t)
  <2>1. PICK t \in DOMAIN live : Surrender(t)
    BY <1>3
  <2>2. /\ t + TAG \in DOMAIN held
        /\ held' = [q \in DOMAIN held \ {t + TAG} |-> held[q]]
    BY <1>1, <2>1, SurrenderReleases
  <2>3. Heap!Release(t + TAG)
    BY <2>2 DEF Heap!Release, held
  <2>4. QED
    BY <2>2, <2>3 DEF Heap!Next, held
<1>4. QED
  BY <1>2, <1>3

\* Seen by its callers the heap is the abstract one: every call, however its
\* steps search, split, melt or take pages, allocates bytes and a header that
\* touch no other allocation, or releases one, or changes nothing they see.
THEOREM SpecImplementsHeap == Spec => ImplementsHeap
<1> DEFINE held == [p \in {t + TAG : t \in DOMAIN live} |-> live[p - TAG]]
<1>1. Init => Heap!Init
  <2> SUFFICES ASSUME Init
               PROVE  held = [p \in {} |-> 0]
    BY DEF Heap!Init
  <2>1. live = [t \in {} |-> 0]
    BY DEF Init
  <2>2. QED
    BY <2>1
<1>2. ASSUME IndInv, IndInv', [Next]_vars
      PROVE  [Heap!Next]_held
  <2>1. CASE UNCHANGED live
    BY <2>1
  <2>2. CASE Carve \/ \E t \in DOMAIN live : Surrender(t)
    BY <1>2, <2>2, CarveOrSurrender
  <2>3. QED
    BY <1>2, <2>1, <2>2, LiveChanges
<1>3. QED
  BY <1>1, <1>2, SpecIndInv, PTL DEF Spec, ImplementsHeap, Heap!Spec, held
=============================================================================
