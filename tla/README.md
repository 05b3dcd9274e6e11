# TLA+ models and proofs for MVK

MVK is a small 32-bit x86 kernel: it boots from GRUB, sets up paging, the
terminal, interrupts and a heap, lists the PCI devices, reads the clock and then
idles. This directory holds its verification development: TLA+ modules that model
the parts of the kernel that carry logic, TLC configurations that check them on
small instances, and TLAPS proofs of their safety for every size.

Run a model with `tlc -config <run>.cfg <module>.tla`; `PROJECT.json` lists the
runs, the definitions with the source lines each stands for, the hazards, and a
mutant of the code for every checked property. Check the proofs of a component with
`tlapm <component>Proofs.tla`.

## 1. Inventory

There is one thread, `kernel_main`. What runs beside it: interrupt and exception
handlers on its stack, the devices that request interrupts, the MMU that caches
translations, and the CMOS clock.

| component | source | state | operations | who uses it |
|---|---|---|---|---|
| page allocator | `kernel/src/paging.c` | `page_directory`, `free_page_tables`, `page_bitmap`, the TLB | `alloc_pages`, `free_pages`, `map_page`, `unmap_page` | the heap, through `liballoc/mvk.c` |
| heap | `libc/src/liballoc/liballoc.c` | boundary tags in memory, `l_freePages`, `l_completePages` | `malloc`, `calloc`, `realloc`, `free` | the PCI list; later everybody |
| interrupts | `isr.c`, `israsm.S`, `pic.c`, `idt.c` | IDT, `irq_handlers`, two 8259s, the interrupt flag | `isr_install`, `pic_remap`, stubs, `irq_handler`, `pic_eoi`, `register_irq_handler` | the processor; the heap's lock is the interrupt flag |
| terminal | `terminal.c` | frame buffer, cursor | `terminal_putchar`, `terminal_scrolldown` | `printf` and `puts` of the thread and of `isr_handler` |
| memory map | `mmap.c` | `mmap_free_memory`, its length | `mmap_initialize` | the page allocator |
| clock | `rtc.c` | the chip's registers | `read_rtc` | `kernel_main` |
| PCI scan | `pci.c` | `pci_connected_devices` | `pci_initialize` | `kernel_main`; grows its list with `realloc` |
| C library | `stdio.c`, `stdlib.c`, `string.c`, `ctype.c` | none | `printf`, `itoa` | everybody |
| boot | `boot.S`, `kernel.c`, `gdt.c`, `pagingasm.S` | page directory, segments, interrupt flag | `_start`, `kernel_main`, the `*_initialize` | run once, on the Multiboot information |
| CPU | `cpu.c`, `fpu.h` | none | `cpuid` | the greeting |

What is hard in it, and what makes each part correct:

* **Page allocator.** A bitmap scanned in one unit and cleared in another; calls
  that fail half-way; frames shared by mistake; stale TLB entries. No page has two
  holders, no frame is mapped twice, nothing of the kernel is mapped, a null pointer
  faults.
* **Heap.** Long sequences of legal calls that corrupt a doubly linked list or a
  chain of split tags; unsigned arithmetic at its edges; a reserve of whole blocks
  that is counted. To its callers it has to be a heap: no overlap, no loss.
* **Interrupts.** Everything interleaves: trap gates leave interrupts on until the
  stub's `cli`; the heap's unlock enables interrupts inside handlers; the EOI names
  no line; spurious interrupts put nothing in service but get an EOI.
* **Terminal.** Statement by statement the cursor is off the screen; an exception
  report starts right there.
* **Memory map.** 64-bit lengths, 32-bit addresses, unsigned subtraction.
* **Clock.** It goes on while its registers are read one by one.
* **PCI scan.** Recursion, on a stack of fixed size, along what the hardware says; a
  list that grows by `realloc`, function by function, on the heap and pages above.
* **printf.** Its walk over the format, and digits written backwards in a buffer; what
  it prints must be the expansion of the format, for the smallest int and for 0 too.
* **Boot.** Each initialisation uses what earlier ones set up. What is not mapped yet,
  or not any more, is an exception, and before `lidt` an exception is a reset.

The list of hazards with their lines, and the properties that would catch each, is
in `PROJECT.json`.

## 2. Modules

| module | models | how |
|---|---|---|
| `Paging` | `paging.c` | one action per `alloc_page` and `free_page`, so that an MMU fill can come between any two; addresses are page numbers; the bitmap keeps 32-bit words where `alloc_page` does and 64-bit words where `free_page` does |
| `LibAlloc` | `liballoc.c` | split at its loops and at the calls that leave the file; `tag` is memory: address to `boundary_tag`; the helpers (`remove_tag`, `insert_tag`, `melt_left`, `absorb_right`, `split_tag`) are operators on it |
| `AbstractHeap` | - | what the heap promises; `LibAlloc` implements it with `held <- payload addresses of live` |
| `Interrupts` | `isr.c`, `israsm.S`, `pic.c`, `pic.h`, `idt.c`, the lock of `mvk.c` | a stack of frames, the innermost runs; the stubs' steps that change shared state are actions; the 8259s are external: priorities, cascade, spurious answers |
| `Terminal` | `terminal.c`, `isr_handler` as a printer | one action per statement of `terminal_putchar` that writes the cursor, one per row scrolled |
| `TerminalRoll` | - | the roll of paper that the terminal implements; its step is one character |
| `KernelHeap` | `liballoc.c` on `paging.c`, joined by `mvk.c` | instances of `LibAlloc` and `Paging`; every step of either is a step; a page that a step uses and that is not mapped is a fault, after which nothing runs |
| `Mmap` | `mmap.c` | one action per iteration of the scan and per adjustment, words of `WORD` values |
| `KernelMain` | `boot.S`, `kernel.c`, `gdt.c`, and the calls they make | extends `Mmap`, which it runs as one of its stages; address space and memory 4 MiB at a time; a stage names what it uses, and runs when the page directory and the segments let it |
| `Rtc`, `MCRtc` | `rtc.c` | one action per register read; the clock raises its flag and advances at any time |
| `Pci`, `MCPci` | `pci.c` | the recursion is a stack with a frame per bus; the configuration space is bytes, read by words; the machines are given by `MCPci` |
| `Printf`, `MCPrintf` | `printf`, `_puts`, `_uputs`, `toupper` | one action per character or conversion; extends `Itoa` |
| `Itoa` | `itoa`, `_uitoa`, `_pitoa` | one action per digit and per exchange |
| `PagingProofs`, `LibAllocProofs`, `KernelHeapProofs`, `InterruptsProofs`, `TerminalProofs`, `PciProofs`, `KernelMainProofs`, `PrintfProofs` | - | each extends the module it is about with its inductive invariant and theorems; `KernelMainProofs` includes `Mmap`, and `Rtc`, whose `read_rtc` `kernel_main` calls; `PrintfProofs` includes `Itoa`, `TerminalProofs` and `LibAllocProofs` the refinements of `TerminalRoll` and `AbstractHeap`; `KernelHeapProofs` instantiates `PagingProofs` and `LibAllocProofs`, whose lemmas it carries over |

Where two components meet: the heap's lock is modelled in `Interrupts` (its handlers
and its thread call the heap), so `LibAlloc` can take a call as uninterrupted.
`LibAlloc` takes its pages from an ideal source (`liballoc_alloc` returns the first
room there is), to show what `liballoc.c` keeps by itself; `KernelHeap` puts it on
`Paging`, the source the kernel has. `Mmap` establishes what `Paging` assumes of its
region (`RegionAssumption`), which is proved (`SpecRegionForPaging`); its result is
`mmap_free_memory_length` there.
`KernelMain` runs `Mmap` in its place in the boot, and takes from `KernelHeap` that the
list of nine PCI functions is the end of it (`crowded`).

### What each model leaves out

* `Paging`: page flags; the kernel's own page tables beyond their directory slots.
  Frames are below 4 GiB (`RegionAssumption`), as `Mmap` delivers without high
  memory.
* `LibAlloc`: the magic word (callers free only what they hold), the payload, the
  `DEBUG` code. `PagesRefused` ends in "fault" where `calloc` and `realloc` touch
  the null page; nothing runs after it.
* `Mmap`: maps whose areas overlap, and maps in which the last page of the kernel image
  is not in an available area (`Loaded`). What is said of memory maps below is said of
  those; the longest area may be any of theirs, one that ends inside the kernel included.
* `Interrupts`: saved registers, the error code, `cld`; that `realloc` drops the lock
  between its own part and those of `malloc` and `free`, each of which is a call here. A handler is one that calls
  the heap; one that does not changes nothing here. No code of this commit registers
  a handler: `register_irq_handler` is the interface the kernel offers.
* `Terminal`: colours. Video memory is given one row behind the screen.
* `Rtc`: reads of register A and B take no time other than that of the clock.
* `Pci`: the bits of the address port that name the function; the size of the stack. Its
  recursion is bounded by the buses; whether as many nested scans fit the 16 KiB is open.
* `Printf`: flags and precision, which `printf` does not have either; that `buf` has
  128 bytes, of which no conversion uses more than 12.
* `KernelHeap`: page flags, and that two blocks which overlap share bytes. In the run
  `KernelHeap` the first bit that `free_page` clears, of whatever page, ends the calls
  (`misfreed`), so nothing is claimed after it; the list in `PciHeap` is so short that no
  byte in use is shared.
* `KernelMain`: what is printed, the FPU, the clock and the greeting, as far as they use
  nothing but kernel memory and the screen; what lies where within 4 MiB. How the heap
  uses its pages is `KernelHeap`'s. If the region is memory where the list is put, the list
  is good; if it is not, boot is "lost", since nothing is known of what is read back.

## 3. Runs, bounds, and what they show

| run | bounds, and why they are enough |
|---|---|
| `Paging` | 4 words of bitmap, 2 tables of 64 entries, blocks of 20 pages and of 64 (over a word's end, over a table's end, and as large as a table, the most the proofs allow), 4 calls. The free region has 100 pages, where memory runs out in the middle of a block, or 200, where the bitmap fills up first. Four calls allocate two blocks, free one and allocate again with the bits that `free_page` cleared, or fill the bitmap. One watched TLB entry, on a page that is mapped, unmapped and mapped again. |
| `LibAlloc` | 3 held blocks, room for two blocks of 16 pages, `MAXCOMPLETE` 1 instead of 5 so that the reserve overflows, 20-bit sizes so that a remainder wraps as it does in 32 bits. Sizes: one below the first list, one that leaves a piece bigger than itself, two around half a block (the remainder just splits, just does not), one with which header and block fill the pages, and one that wraps when the header is added. Every call returns, under fairness, and the heap implements `AbstractHeap`. |
| `Interrupts` | lines 1, 3, 8 and 15: one of each priority class, and the two that spurious answers name or neighbour. One masked line on each controller's path, handlers on lines 1, 8 and 15 that may use the heap, one heap call of the thread, 3 requests (they nest three deep), an exception. |
| `Terminal` | 2 rows of 2 cells, 8 characters: it scrolls at least twice, and an exception can cut any statement. |
| `KernelHeap` | two words of bitmap, one table of 64 entries; a region of 50 pages, which runs out in the middle of a block, and one of 64, with which the bitmap does; sizes of a small piece, of nearly a block, of a block that needs a page more, and of a block as large as the bitmap; two held blocks and five calls of `mvk.c`: enough for blocks over a word's end, for one that is returned whole, and for the bitmap and the region to be used up. |
| `KernelMain` | words of 64 values, pages of 4, all memory maps of up to 3 areas from 6 starts and 3 lengths in which the kernel is loaded: areas inside it, ending in its last page, across, right after it and far from it, aligned and not, so that the unsigned length wraps at either subtraction (`mmap.c:59` and `67`), with memory behind the list and without; everything else the boot loader leaves in the first chunk or in the third, the first that the kernel does not map. Where no map is read (flag 6 is clear, or the magic word is missing) there is none, or one of at most one area. |
| `Rtc` | 4 stretches of time, 4 register modes; all seven reads fit between the flag and the update, or only two do. |
| `Pci` | every subset of eight functions on four buses, and whether each of two devices says it is multi-function. |
| `Printf` | all formats of up to four of ten characters, so up to two conversions or a pair of `%` and one; three memories behind the format; all values of a 9-bit long where there is one conversion, and its edges where there are more. |

Deadlock is not checked (`CHECK_DEADLOCK FALSE`): each model really stops, because
its code runs once or because the bound on calls, characters or requests is used up,
and the kernel's `abort()` stops it for good. That calls do return is a property of
its own where it is at stake (`CallsReturn`, `CallsEnd`, `ReadReturns`,
`ScanEnds`, `BootEnds`, `RequestsServed`).

**Fairness.** `LibAlloc`: weak fairness of the steps of a call; interrupts are off
inside it, so the processor does nothing else; `KernelHeap` the same, the pages'
steps included. `KernelMain`: weak fairness of the only thread, as in `Pci`.
`Interrupts`: weak fairness of the running stub and of the return from the heap (the processor goes on), and of taking
a request that stays; not of the thread's next call, nor of the devices, nor of the
choice between a real and a spurious answer. `Rtc`: weak fairness of the reader and
of the update once its flag is raised. `Pci`: weak fairness of the only thread.

### Disagreements with the source's own words

Each is a run that TLC finds violated, with the counterexample it prints:

* `PciHeap` (`pci.c:58`): on a machine with nine PCI functions the list that `realloc`
  returns is on a page that is not mapped, and the kernel ends in a page fault. The
  counterexample is the only behaviour there is: one block per function, since `malloc`
  searches only the list of the exponent of a few bytes; the sixth free is the first that
  gives pages back, and `free_pages` clears the bits of other pages than it unmaps; the
  eighth block is made of pages that do not follow one another, and the ninth lies in
  what `free_pages` then unmaps as the eighth.
* `LibAllocNull` (`liballoc.c:527`): `realloc` copies to NULL.
* `MmapHigh` (`mmap.c:50`): the high half of an area's address is dropped. Its maps are of
  whole pages, so that nothing else is wrong with the region.

The two faults of `paging.c` behind the first are also stated by themselves, as the
exact extent of what holds. Bit 0 of a word is never tested (`paging.c:112`), so a block
that goes over the end of a word lacks a page while liballoc uses it as contiguous:
`HolesAreWordEnds`, and `FaultsOnlyAtHoles` for the heap on it. `free_page` clears another
bit than `alloc_page` set (`paging.c:143-148`), so a page that is held can be handed out
again, and the cleared bit of a page nobody holds makes the next block begin in the middle
of a word: `BlocksSoundUntilMisfree`; `FrameSafety` says what survives even that: no two
virtual pages ever share a frame, since the frame of a page is fixed.

Divergences that the models show without a run of their own:

* `alloc_page` ends in `abort()` when the free region is used up (`AllocPageAbort` in
  `Paging`), while `liballoc.h:55` says the hook returns NULL.
* `malloc` searches only the list of the exponent of the size (`ListIndex` in `LibAlloc`)
  and takes new pages though a piece on a longer list is big enough.
* The size plus the header wraps within a header of 2^32 (`liballoc.c:243`): the state
  "corrupt" of `LibAlloc`, which `AllocationsFit` confines to those sizes.
* `mmap_initialize` takes more off the length of an area than it has when the area, cut at
  the end of the kernel, ends before a page begins: with the longest area there, the
  length wraps (`mmap.c:59`, `67`) and the region seems to be all of memory. `WholePagesUsed`
  states for which maps that happens, and `EndsAsDue` what becomes of boot ("lost").
* `printf` goes past the zero of a format that ends in an unpaired `%` (`StopsAtZero`),
  and what it returns leaves out the plain characters (`PrintsExpansion`).
* `kernel_main` uses the Multiboot information before it checks the magic word
  (`kernel.c:28-30`): without it the machine resets or stops without a message, unless
  what is found there happens to describe a text screen (`Due` in `KernelMain`).
* Structures or a screen beyond the first 8 MiB are not mapped; before `lidt` that is a
  reset, later a reported page fault (`Due`).
* `set_gdt` and `lidt` are given the sizes of the tables where the registers hold the size
  less one; the byte that this adds is never reached.
* Outside the models: `cpu.c` takes AVX512_BF16 from leaf 1, where it is another bit; the
  kernel is linked to physical address 0 (`linker.ld:5`), so that its image lies over the
  low memory with the text buffer in it, and what of it is where depends on the linker.

Behaviour that no document contradicts is stated in the properties as it is, so that
the model shows it: a 12-hour clock shows noon as midnight and midnight as noon
(`TimeShown` in `Rtc`); a machine whose host bridge has several functions lists no
device at all (`ListComplete` in `Pci`); a report that begins between
`term->y += term->char_height` and `--term->y` is printed below the screen
(`LastCharacterShown` in `Terminal`; one that begins before `term->x = 0` in another row
loses its first character to its second, which a property of the last one cannot see);
handlers nest as soon as one uses the heap, and
when handlers nest *and* a spurious interrupt comes in, an EOI can end another line's
interrupt (`EoiEndsOwnLine` in `Interrupts` excludes exactly that), though nothing is
left in service at the end (`NothingLeftInService`).

## 4. Proofs

Every safety property that the passing runs check, every action property among them, is
proved for every value of the constants. For each module there is an inductive
invariant, a conjunction of named parts; TLC found it invariant in the instance of the
module's run before it was proved (where it quantifies over all sequences, in a bounded
form). The step lemmas are one per action, and the last
step of a theorem is the usual `Init => Inv`, `Inv /\ [Next]_vars => Inv'`, `Inv => P`.
What follows is, per module, the invariant and why the property needs it.

The assumptions are the `ASSUME`s of the modules, all of which TLC evaluates on the runs.
Four theorems have a hypothesis of their own, named where they stand below.

### Page allocator (`PagingProofs`)

| theorem | |
|---|---|
| `SpecTypeOK` | no call leaves the bounds of the bitmap or of a table |
| `SpecFrameSafety` | null is unmapped; mapped frames are in the free region, outside the kernel, and not shared |
| `SpecNoTableAbort` | `map_page` finds its page table |
| `SpecDirectorySound` | the directory is only ever filled in as intended |
| `SpecTlbCoherent` | the TLB agrees with the tables |
| `SpecBlocksSoundUntilMisfree` | until `free_page` clears a bit, no page is handed out twice, and freeing a block takes none from another |
| `SpecHolesAreWordEnds` | until then, what a block lacks is exactly the pages whose bit is never tested |

The kernel's numbers satisfy the assumptions: 767 tables of 1024 entries and 24544 words,
32 bits each; requests of at most a page table (the heap asks for 16 pages or a little
more); a region of frames below 4 GiB behind the kernel. The steps of `free_page` are
the code's own, with its wrong index.

    IndInv == TypeOK /\ DirectorySound /\ TableSound /\ BlocksBounded /\ OpBounded
              /\ NoTableAbort /\ TlbCoherent

`FrameSafety` is not inductive: that two pages never share a frame would have to be
re-established from the bitmap, which `free_page` corrupts. It is the layout of the
tables that keeps it: `TableSound` says that a mapped entry of table `t` at `j` holds
exactly the frame of page `t * Entries + j`, whichever bits are set. From that the
frames of different pages differ by arithmetic (`PageUnique`). `OpBounded` and
`BlocksBounded` keep the pages that `free_pages` walks over inside the bitmap and
inside the directory slot after the free tables at most; `DirectorySound` says that
this slot is empty, so that `unmap_page` returns early there. `NoTableAbort` needs
that the last bit of the last word is never scanned (`ScannedPage`): the off-by-one of
line 112 is what keeps `map_page` from its abort.

The last two theorems are about the bitmap, so they need what `FrameSafety` does without:
`HeldInv == ~misfreed => MarkedPrefix /\ Held /\ Pending`. As long as nothing was cleared
the bits that are set are a prefix in the order of the scan (`MarkedPrefix`), so the next
page a scan finds is above all that were found before; `Held` and `Pending` tie to it
what the blocks and the call under way have got.

### Heap (`LibAllocProofs`)

| theorem | |
|---|---|
| `SpecListsSound` | each list is a doubly linked list of exactly the free tags of its exponent |
| `SpecBlocksTiled` | the tags of a block adjoin from its first byte to its last, and no two neighbours are free |
| `SpecCompleteCounted` | the count of whole free blocks is right, and within its limit |
| `SpecAllocationsFit` | what is held has its bytes and its header |
| `SpecPagesReturnedWhole` | `free` gives back as many pages as were asked for |
| `SpecImplementsHeap` | the heap implements `AbstractHeap` |

    IndInv == Tags /\ Tiled /\ Lists /\ Sorted /\ Melded /\ Counted
              /\ BlocksGiven /\ Owned /\ Control

`Lists` says that for each exponent there is a sequence without repetitions of which
`next` and `prev` are the neighbours; the proof gives that sequence for each of
`remove_tag` and `insert_tag`, and only then are "reachable from the head" and "has this
index" the same set. `Tiled` says that blocks lie apart, that tags do inside them, and
that each begins where its left neighbour ends; it has to hold between `melt_left` and
`absorb_right`, where the tag that is melted is on no list. So do `Melded` (no two
neighbours are free) and `Counted`. `Owned` says that the tags on no list are what the
callers hold, but for the tag a call is at work on (`InTransit`), and `Control` says of
that one what the rest of the call relies on: that it has room for the request, and no
free neighbour on its right when it is about to be carved. The property
`AllocationsFit` allows the overrun of a request within a header of `UINT`; that is the
only way `Control` lets a call get to "corrupt". `PagesReturnedWhole` follows from `Tiled`: a
free tag without neighbours is as long as its block, and from that size `free` works
out the pages.

For the refinement each action is shown to be a step of `AbstractHeap` or to leave the
held payloads as they are: that a new allocation touches none held follows from `Tiled`
and `Owned`. Assumed of the numbers: widths as in C, `2 * TAG <= PageSize`, and an arena
below `UINT`.

### Heap on its pages (`KernelHeapProofs`)

| theorem | |
|---|---|
| `SpecFaultsOnlyAtHoles` | what heap and callers touch is mapped, but for the ends of the bitmap's words and what is behind the bitmap |
| `SpecKeepsPromise` | until `free_page` clears a bit, the heap implements `AbstractHeap` on the pages it really gets |
| `SpecImplementsPaging` | under the heap the allocator does only what `Paging` has it do, so what is proved of `Paging` holds here |
| `SpecHeapSound` | `ListsSound`, `BlocksTiled`, `CompleteCounted` and `AllocationsFit` hold on those pages |
| `SpecTakesBackWhole` | `free` returns the block and the number of pages that `malloc` got |
| `SpecMemoryApart` | no byte of physical memory is behind two allocations or in the kernel image |

All but `SpecImplementsPaging` are about the time until `free_page` clears a bit
(`misfreed`), whether of a page that is held or of one that nobody holds; `Request` stops
there too. Nothing is claimed beyond it, and there the first
is false. Take blocks on pages 1 to 16 and on 17 to 31
and 33, and free both. The first free clears nothing: the upper half of a 64-bit index
does not meet the bits that `alloc_page` set. The second, at page 32, clears the bit of
page 1, which nobody holds any more; the next block begins at page 1, goes on behind 33,
and its caller faults at page 2, no end of a word. `PciHeap` shows what becomes of the
kernel's own heap after it.

    IndInv == Sized /\ PP!IndInv /\ PP!HeldInv /\ (~misfreed => HeapSound)
              /\ FaultsOnlyAtHoles
    HeapSound == LP!IndInv /\ Agree /\ Asked /\ Copying

`PP` and `LP` are instances of `PagingProofs` and `LibAllocProofs`, so that the step
lemmas proved of each alone are cited for the two together; the model's own instances
`PG` and `LA` have the same definitions under other names, which `SamePaging`,
`SameCalls` and `SameMelts` state. `Sized` is what makes a step of the heap one that
`Paging` allows: no more than a page table is asked for.

The heap's invariant was proved for pages that come from an ideal source. What is new is
that what `alloc_pages` returns has room among the blocks the heap has (`RoomForBlock`),
although a block has holes and `alloc_pages` returns only where it begins. `Agree` says
that the heap's blocks are those handed out and each begins on a page that was got for
it. By `HeldInv` a block holds each page of its extent that has a bit; if one block began
within another, its first page would be held by both, and those sets are disjoint.
For `FaultsOnlyAtHoles`, each address that a step uses is traced to a block: headers by
`Tiled` (`AccessedTags` says which tags a step reads, the list that is searched
included), the bytes `realloc` copies by `Owned` and `Copying`. A page of a block that is
not mapped has no bit that `alloc_page` tests. `SpecMemoryApart` adds the frames:
`FrameSafety` makes the mapping one to one, so bytes of two allocations that were one in
memory would be one address, and `Tiled` keeps the addresses apart.

Assumed of the numbers is what `Paging` and `LibAlloc` assume, and that a request with its
header is at most a page table (4 MiB), that the least number of pages is too, and that
the arena reaches a page table past the bitmap. The kernel's numbers satisfy it: 785408
pages of bitmap and 1024 more are below 4 GiB.

### Interrupts (`InterruptsProofs`)

| theorem | |
|---|---|
| `SpecRightStub` | every interrupt reaches its own stub; the firmware's masks are back after `pic_remap` |
| `SpecHeapExclusive` | one context at a time is in the heap, to any depth of handlers |
| `SpecHandlersNestOnlyByUnlock` | handlers nest only after a `liballoc_unlock` in one |
| `SpecEoiEndsOwnLine` | an EOI ends its own line, but for nesting together with a spurious interrupt |
| `SpecNothingLeftInService` | no line is in service when the last handler has returned |
| `SpecReportUndisturbed` | an exception report is not interrupted |

    IndInv == TypeOK /\ BootOrder /\ FramesSound /\ ClosedFrames /\ Nested /\ EnoughEois

A frame is closed where interrupts are off: from the gate or from `cli` to the unlock of
the heap, or to `iret` if handlers never call it. `ClosedFrames` says that above a closed
frame there are only exceptions, which use no heap; so one context at a time has its
lock. `Nested` says that the lines in service are those the frames owe an EOI, in the
order of priority; it holds unless nesting and spurious interrupts came together, and
`EoiEndsOwnLine` has the same exception. `NothingLeftInService` has none, though an EOI
may end another frame's line: what holds throughout is a count, `EnoughEois`. For
each controller the frames still owe at least as many EOIs as it has lines in service,
and an empty stack owes none.

### Terminal (`TerminalProofs`)

| theorem | |
|---|---|
| `SpecCursorOnScreen` | between characters the cursor is on the screen; a report is below it only if it began before `--y` |
| `SpecScreenOnly` | what the thread prints stays in the screen |
| `SpecLastCharacterShown` | the last character is in its cell after any scrolling |
| `SpecImplementsRoll` | the terminal implements `TerminalRoll` |

`CursorSound` says at each statement how far the cursor may be off; `LastSound` and
`RollSound` follow the cells through the rows of a scroll, half of which has been
moved: a row above the one being copied is the new picture, one below the old. Assumed
is a screen with a cell (`GlyphsAssumption` for the characters). `SpecLastCharacterShown`
has the hypothesis `height > 1`: with one row a scroll clears the character just printed,
so for such a screen the property is false, and it is what the code does.

### PCI scan (`PciProofs`)

| theorem | |
|---|---|
| `SpecRecursionBounded` | `check_bus` never comes back to a bus that is being scanned |
| `SpecListComplete` | the list is what can be reached from bus 0, each function once; empty if the host bridge has several functions |

    IndInv == TypeOK /\ FramesSound /\ BusesGrow /\ HostsSound /\ ListSound
              /\ OnlyReachable /\ NoneTwice

`BusesGrow` (bus numbers rise along the stack) bounds the recursion. It rests on
`TopologyAssumption`: the firmware gives a bus behind a bridge a higher number than the
bus in front, and each bus one bridge; a machine not so numbered is outside what is shown.
`ListSound` says that the list is what has been passed: the functions before the place of
their bus's frame, and those of buses that are over, which shows in their bridge being
listed. `OnlyReachable` says that every set closed under the bridges has what is listed,
and `NoneTwice` that no bus is scanned again.

### Memory map and boot (`KernelMainProofs`)

| theorem | |
|---|---|
| `SpecFreeMemory` | `mmap_initialize` yields the whole pages that a longest area has past the kernel, or a wrapped length; with longest areas that reach a page, available memory |
| `SpecWholePagesUsed` | the same extent of the region during boot |
| `SpecEndsAsDue` | boot ends as what the boot loader left demands |
| `SpecReadyWhenUsed` | interrupts and heap are used only when what they need is in place |
| `SpecRegionForPaging` | the free region is what the page allocator's model assumes of it |

`MmapInv` relates the scan's variables to the areas looked at (`Scanned`) and what is then left of
the one chosen, adjustment by adjustment, to that area (`Narrowed`). `SpecFreeMemory`,
`SpecWholePagesUsed` and `SpecRegionForPaging` have the hypothesis `LongestBelow`: the longest available areas lie
below 4 GiB. It excludes what `MmapHigh` finds, and every machine with less
than 4 GiB satisfies it. That the region is memory (`FreeMemoryAvailable`) and one for
`Paging` needs `LongestReach` too: the longest areas have past the kernel a place where a
page begins. Without it the length wraps, which `WholePagesUsed` includes as a case of
its own: `Remains` says what is left of the area at each step, up to that multiple of 2^64.
Nothing here needs the kernel to be loaded in the longest area, only in an available one
(`Loaded`), so that there is an available area for the scan to find.

`BootInv` adds the stage: what stages have passed (`Passed`), and what page directory, segments and free region are at this one (`Control`, `MapStage`);
`EndsAsDue` and `ReadyWhenUsed` are read off from it, over every machine and every map
that `Loaded` admits, those of wrapped lengths and of high memory included.

### Clock (`KernelMainProofs`)

| theorem | |
|---|---|
| `SpecTimestampWasTime` | what `read_rtc` returns is a time the clock had during the call, but for the hours from noon and midnight of a 12-hour clock (`TimeShown`), if seven reads fit between flag and update |
| `SpecTornOnlyByUpdate` | however slow the reads are, only an update in the last pass tears the time |

    RtcInv == ClockTypeOK /\ OnePass /\ PassRead /\ Result

`OnePass` counts: a flag that goes up within a pass has seen no more reads than the pass
has made, so an update that seven reads fit before does not come in the same pass.
`PassRead` says that, without an update in it, what a pass has read are the registers of
one instant; `Result` that the conversion turns them into `TimeShown`, whatever the chip's mode: the time
itself, but for noon and midnight of a 12-hour clock, which come out 12 hours off.

### printf (`PrintfProofs`)

| theorem | |
|---|---|
| `SpecStopsAtZero` | the walk stops at the zero, and goes past it exactly when the format ends in an unpaired `%` |
| `SpecPrintsExpansion` | what is printed is the expansion of the format, for every format, value and width |

The invariant is `WalkInv /\ ItoaInv /\ ExpandInv`. `WalkInv` relates the index of the walk
to the pairing of `%`s: at each position the number of `%`s right before it is even where
the code takes it for the start of something. `ItoaInv` is about the digits: while
they are written, the numeral asked for is the numeral of what is left of the value,
followed by the characters written so far, backwards (`Writing`); while they are
exchanged, what is outside the two indices is in its place and what is between is
mirrored (`Exchanging`). `ExpandInv` says that the output is the concatenation of the
pieces for the characters walked over. That the recursive definitions of the
specification (the numeral, the count of `%`s) exist and unfold as written needs induction
over numbers. The library's induction theorems take an operator and are not available to
the provers at hand; `SetInduction` states induction for a set of numbers instead, and is
proved from the pigeonhole theorem on finite sets.

### What is only model-checked

* Liveness: `CallsReturn`, `CallsEnd`, `ReadReturns`, `ScanEnds`, `BootEnds` and
  `RequestsServed`. Liveness under fairness is out of these provers' reach, as is
  `ENABLED`.
* The three disagreements of section 3, which are counterexamples.

## 5. Not modelled

`cpu.c` and `fpu.h` (wrappers of instructions, without state: what they return depends on
the processor alone), `string.c` and the rest of `ctype.c` (loops over bytes without
state; `memcpy` and `memset` are part of the actions that call them), the user-space
stubs (they only return), `rand` (unused), the bit layout of descriptors and gates beyond
the fields named in `KernelMain` and `Interrupts`, the build. `abort()` is a stop: in the
library as it is built (`stdlib.c:44` tests `__lib_k`, which nothing defines) it spins
instead of halting, which is the same here.

## 6. Plan

Done: the models of all components that keep state; their safety proved for every size,
that of the composition `KernelHeap` included; both refinements (`AbstractHeap`,
`TerminalRoll`) and that of `Paging` by `KernelHeap` proved; that boot leaves the region
`Paging` assumes.

Left: the same for the other components that boot hands over to, whose models say at
their start what the stages of `KernelMain` leave (the IDT of `Interrupts`, the screen of
`Terminal`); and what the heap keeps after a misfreed page, where the code gives no
promise that could be proved.
