-------------------------------- MODULE Mmap --------------------------------
(***************************************************************************)
(* mmap_initialize of kernel/src/mmap.c: out of the memory map that the    *)
(* boot loader hands over, the one free region that the page allocator is  *)
(* given.  Pointers have 32 bits and lengths 64; here a word has WORD      *)
(* values, and an address in the map is two words.                         *)
(***************************************************************************)
EXTENDS Integers, Sequences

CONSTANTS
  WORD,        \* values of a uint32_t
  PAGE_SIZE,   \* bytes of a page
  KernelEnd,   \* KERNEL_TO_PHYS(&_kernel_end)
  Starts,      \* addresses where the areas of the memory map start
  Lengths,     \* their lengths
  MaxAreas     \* bound: areas in the map

ASSUME WordAssumption ==
  /\ WORD \in Nat \ {0, 1} /\ PAGE_SIZE \in Nat \ {0} /\ WORD % PAGE_SIZE = 0
  /\ KernelEnd \in 0 .. WORD - PAGE_SIZE
ASSUME MapAssumption ==
  Starts \subseteq Nat /\ Lengths \subseteq Nat \ {0} /\ MaxAreas \in Nat

UINT64 == WORD * WORD
_kernel_start == 0            \* KERNEL_TO_PHYS of it: the linker script's base

\* Below 4 GiB a PC has its devices, so no area goes across it.
Area == {a \in [addr : Starts, len : Lengths, available : BOOLEAN] :
           a.addr + a.len <= WORD \/ a.addr >= WORD}

VARIABLES
  mmap,                      \* the areas, in the order of the boot loader
  flagged,                   \* flag 6 of the Multiboot information
  i,                         \* the loop variable of the scan
  mmap_free_memory,          \* start of the region
  mmap_free_memory_length,   \* its length
  at                         \* the part of mmap_initialize that is next

vars == <<mmap, flagged, i, mmap_free_memory, mmap_free_memory_length, at>>

-----------------------------------------------------------------------------
(* The maps a boot loader hands over.                                      *)

Disjoint(map) ==
  \A m, n \in DOMAIN map :
    m # n => \/ map[m].addr + map[m].len <= map[n].addr
             \/ map[n].addr + map[n].len <= map[m].addr

Available(map)  == {n \in DOMAIN map : map[n].available}
Longest(map, n) == \A m \in Available(map) : map[m].len <= map[n].len

\* The boot loader has put the kernel into memory: the last page of its image
\* lies in an available area.  Nothing else is taken for granted, so the longest
\* area may be another one, and either may end in the page the kernel ends in.
Loaded(map) ==
  /\ Disjoint(map)
  /\ \E n \in Available(map) : /\ map[n].addr + PAGE_SIZE <= KernelEnd
                                /\ KernelEnd <= map[n].addr + map[n].len

-----------------------------------------------------------------------------
Init ==
  /\ \E n \in 0 .. MaxAreas : mmap \in [1 .. n -> Area]
  /\ mmap = <<>> \/ Loaded(mmap)
  /\ flagged \in BOOLEAN
  /\ i = 1
  /\ mmap_free_memory = 0 /\ mmap_free_memory_length = 0
  /\ at = "check"

Check ==
  /\ at = "check"
  /\ at' = IF flagged /\ mmap # <<>> THEN "scan" ELSE "aborted"
  /\ UNCHANGED <<mmap, flagged, i, mmap_free_memory, mmap_free_memory_length>>

addr_low(area) == area.addr % WORD

\* Mutant: an area of any type is taken.
Better_any_type(area) == mmap_free_memory_length < area.len

Better(area) == area.available /\ mmap_free_memory_length < area.len

\* Mutant: the loop looks at one area for ever.
NextArea_same == i

NextArea == i + 1

Scan ==
  /\ at = "scan" /\ i <= Len(mmap)
  /\ IF Better(mmap[i])
     THEN /\ mmap_free_memory' = addr_low(mmap[i])
          /\ mmap_free_memory_length' = mmap[i].len
     ELSE UNCHANGED <<mmap_free_memory, mmap_free_memory_length>>
  /\ i' = NextArea
  /\ UNCHANGED <<mmap, flagged, at>>

\* Mutant: only a region that starts at the kernel's start is moved.
OverlapsKernel_at_start == mmap_free_memory = _kernel_start

OverlapsKernel ==
  /\ mmap_free_memory < KernelEnd
  /\ (mmap_free_memory + mmap_free_memory_length) % WORD >= _kernel_start

\* The region loses what lies before p; all of it is unsigned arithmetic.
MoveTo(p) ==
  /\ mmap_free_memory' = p % WORD
  /\ mmap_free_memory_length' =
       (mmap_free_memory_length - ((p - mmap_free_memory) % WORD)) % UINT64

AvoidKernel ==
  /\ at = "scan" /\ i > Len(mmap)
  /\ IF OverlapsKernel THEN MoveTo(KernelEnd)
     ELSE UNCHANGED <<mmap_free_memory, mmap_free_memory_length>>
  /\ at' = "start"
  /\ UNCHANGED <<mmap, flagged, i>>

\* Mutant: an aligned start is moved to the next page too.
AlignedStart_always == mmap_free_memory + PAGE_SIZE
                         - (mmap_free_memory % PAGE_SIZE)

AlignedStart ==
  LET pointer_alignment == mmap_free_memory % PAGE_SIZE
  IN  IF pointer_alignment = 0 THEN mmap_free_memory
      ELSE mmap_free_memory + (PAGE_SIZE - pointer_alignment)

AlignStart ==
  /\ at = "start"
  /\ MoveTo(AlignedStart)
  /\ at' = "length"
  /\ UNCHANGED <<mmap, flagged, i>>

AlignedLength ==
  mmap_free_memory_length - (mmap_free_memory_length % PAGE_SIZE)

AlignLength ==
  /\ at = "length"
  /\ mmap_free_memory_length' = AlignedLength
  /\ at' = "done"
  /\ UNCHANGED <<mmap, flagged, i, mmap_free_memory>>

Next == Check \/ Scan \/ AvoidKernel \/ AlignStart \/ AlignLength

Spec == Init /\ [][Next]_vars

-----------------------------------------------------------------------------
(* Properties.                                                             *)

Free == mmap_free_memory .. mmap_free_memory + mmap_free_memory_length - 1

\* mmap.c:40: "Find the biggest memory area available".  All of the region that
\* the page allocator is given lies in one area of the longest that the memory
\* map calls available: nothing reserved, no device and no hole.
FreeMemoryAvailable ==
  at = "done" =>
    \E n \in Available(mmap) :
      /\ Longest(mmap, n)
      /\ Free \subseteq mmap[n].addr .. mmap[n].addr + mmap[n].len - 1

\* What area n has past the kernel.
Start(n) == IF mmap[n].addr < KernelEnd THEN KernelEnd ELSE mmap[n].addr
End(n)   == mmap[n].addr + mmap[n].len

\* A page begins there, or just where it ends.
Reaches(n) == \E p \in Start(n) .. End(n) : p % PAGE_SIZE = 0

\* mmap.c:54: "Make sure we don't overlap with the kernel".  The region is
\* whole pages past the kernel, and of the longest area only what is not
\* a whole page is left out.  That fails for one kind of area, always and in
\* one way: if the area ends before a page begins past the kernel, what is taken
\* off its length is more than it has, and the unsigned length wraps.
WholePagesUsed ==
  at = "done" =>
    /\ mmap_free_memory % PAGE_SIZE = 0 /\ mmap_free_memory_length % PAGE_SIZE = 0
    /\ \E n \in Available(mmap) :
         /\ Longest(mmap, n)
         /\ IF Reaches(n)
            THEN Free = UNION {p * PAGE_SIZE .. p * PAGE_SIZE + PAGE_SIZE - 1 :
                               p \in {q \in 0 .. WORD \div PAGE_SIZE :
                                        /\ q * PAGE_SIZE >= Start(n)
                                        /\ q * PAGE_SIZE + PAGE_SIZE <= End(n)}}
            ELSE mmap_free_memory_length >= UINT64 - WORD
=============================================================================
