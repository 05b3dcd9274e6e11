----------------------------- MODULE KernelMain -----------------------------
(***************************************************************************)
(* Boot: _start in kernel/src/boot.S, kernel_main in kernel/src/kernel.c   *)
(* and the initialisations it calls, mmap_initialize step by step (Mmap).  *)
(*                                                                         *)
(* Memory is looked at 4 MiB at a time: a slot of the page directory is    *)
(* that much of the address space, a chunk that much physical memory.      *)
(* Every step uses some of it, as code, stack or data; what is not mapped, *)
(* or beyond the segments, is an exception, and before lidt that is the    *)
(* end of the machine: a reset.                                            *)
(***************************************************************************)
EXTENDS Mmap

CONSTANTS
  Chunks,        \* where the boot loader's structures and the screen can be
  ImageChunks,   \* where the kernel image is, from the linker script's base on
  ListBytes      \* free memory that the list of PCI devices takes

ASSUME ChunksAssumption ==
  Chunks \subseteq 0 .. 1023 \ {255} /\ ImageChunks \subseteq {0, 1} /\ ListBytes \in Nat

CODE_GDT_R0 == 1
DATA_GDT_R0 == 2
TSS_GDT_R3  == 3

PAGE_DIRECTORY_START == 768     \* KERNEL_ADDRESS / 4 MiB
NOT_TEXT == -1                  \* no framebuffer, or one for pixels
SELF == -1                      \* the page directory as a page table

\* PHYS_TO_KERNEL, for addresses in a chunk; chunk 255, which the page tables
\* themselves would show in the place of, is left out of Chunks.
PHYS_TO_KERNEL(chunk) == (PAGE_DIRECTORY_START + chunk) % 1024

VARIABLES
  machine,      \* what the boot loader and the hardware come with
  stage,        \* what is next in _start and kernel_main
  directory,    \* slot -> chunk, of the page directory in cr3
  segments,     \* the descriptors in cs and in the data segments
  gdt_loaded, idt_loaded, remapped,
  interrupts,   \* the interrupt flag
  outcome       \* how boot has ended

bootVars == <<machine, stage, directory, segments, gdt_loaded, idt_loaded,
              remapped, interrupts, outcome>>

-----------------------------------------------------------------------------
(* Page directories and descriptors.                                       *)

\* Mutant: the identity mapping is left out.
BootDirectory_high_only == [s \in {768, 769} |-> s - PAGE_DIRECTORY_START]

\* _start maps the first 4 MiB where they are, and 8 MiB where the kernel is.
BootDirectory ==
  [s \in {0, 768, 769} |-> IF s = 0 THEN 0 ELSE s - PAGE_DIRECTORY_START]

\* Mutant: only one of the kernel's page tables is installed.
KernelDirectory_one_table ==
  [s \in {768, 1023} |-> IF s = 1023 THEN SELF ELSE s - PAGE_DIRECTORY_START]

\* paging_initialize maps only the 8 MiB, and the directory itself.
KernelDirectory ==
  [s \in {768, 769, 1023} |->
     IF s = 1023 THEN SELF ELSE s - PAGE_DIRECTORY_START]

Flat == [limit_high |-> 15, limit_low |-> 65535, base |-> 0, code |-> 1,
         TSS |-> 1, DPL |-> 0, present |-> 1, big |-> 1, gran |-> 1]

\* Mutant: limits are in bytes.
GDT_bytes == [d \in 1 .. 2 |-> [Flat EXCEPT !.gran = 0, !.code = 2 - d]]

TSS_SIZE == 104   \* sizeof(tss_entry)

\* The TSS is described and never loaded; its base is left out.
GDT == [d \in CODE_GDT_R0 .. TSS_GDT_R3 |->
          CASE d = CODE_GDT_R0 -> Flat
            [] d = DATA_GDT_R0 -> [Flat EXCEPT !.code = 0]
            [] d = TSS_GDT_R3  -> [Flat EXCEPT
                 !.limit_high = 0, !.limit_low = TSS_SIZE, !.TSS = 0, !.DPL = 3,
                 !.big = 0, !.gran = 0]]

\* The last page that a segment, which starts at 0, reaches.
LastPage(d) ==
  LET limit == d.limit_high * 65536 + d.limit_low
  IN  IF d.gran = 1 THEN limit ELSE limit \div 4096

-----------------------------------------------------------------------------
(* What a step uses: a set of slots, each with the chunk it should show.   *)

Kernel      == {<<PHYS_TO_KERNEL(c), c>> : c \in ImageChunks}
Shown(c)    == {<<PHYS_TO_KERNEL(c), c>>}
Information == Shown(machine.mbi)
Screen      == IF machine.framebuffer = NOT_TEXT THEN {}
               ELSE Shown(machine.framebuffer)

\* Kernel code and stack, and what else a stage reads and writes; from
\* terminal_initialize on every stage writes to the screen.  mmap_initialize
\* reads the memory map once it has checked that there is one, and the scan of
\* the PCI buses needs the page tables for its list.
Used(s) ==
  CASE s = "start"    -> {}
    [] s = "jump"     -> {<<0, 0>>}
    [] s \in {"entry", "paging"} -> Kernel
    [] s = "terminal" -> Kernel \cup Information \cup Screen
    [] s = "mmap"     -> Kernel \cup Screen \cup Information \cup
                         (IF at = "scan" /\ i <= Len(mmap)
                          THEN Shown(machine.mmap_addr) ELSE {})
    [] s = "pci"      -> Kernel \cup Screen \cup {<<1023, SELF>>}
    [] OTHER          -> Kernel \cup Screen

Usable(use) ==
  /\ use[1] \in DOMAIN directory /\ directory[use[1]] = use[2]
  /\ \A d \in {segments.cs, segments.ds} :
       d.present = 1 /\ use[1] * 1024 + 1023 <= LastPage(d)

-----------------------------------------------------------------------------
\* What kernel_main reads of the multiboot_info, whether eax holds the magic
\* word, and whether the machine has more than eight PCI functions.
Machine == [magic : BOOLEAN, mbi : Chunks, mmap_addr : Chunks,
            framebuffer : Chunks \cup {NOT_TEXT}, crowded : BOOLEAN]

\* The Multiboot standard: a machine without paging, flat segments, and no
\* interrupts.  Without the magic word anything can be in ebx.
BootInit ==
  /\ Init
  /\ machine \in Machine
  /\ ~flagged => mmap = <<>>            \* bounds: no map is read then
  /\ ~machine.magic => Len(mmap) <= 1
  /\ stage = "start"
  /\ directory = [s \in 0 .. 1023 |-> s]
  /\ segments = [cs |-> Flat, ds |-> [Flat EXCEPT !.code = 0]]
  /\ gdt_loaded = FALSE /\ idt_loaded = FALSE /\ remapped = FALSE
  /\ interrupts = FALSE
  /\ outcome = "none"

\* Mutants: interrupts are enabled before the IDT is loaded; the PCI buses are
\* scanned before the free memory is known.
Order_sti_first ==
  <<"start", "jump", "entry", "paging", "terminal", "magic", "gdt", "isr", "sti",
    "lidt", "mmap", "pci", "greet">>
Order_pci_first ==
  <<"start", "jump", "entry", "paging", "terminal", "magic", "gdt", "isr", "lidt",
    "sti", "pci", "mmap", "greet">>

Order ==
  <<"start", "jump", "entry", "paging", "terminal", "magic", "gdt", "isr", "lidt",
    "sti", "mmap", "pci", "greet">>

After(s) == CHOOSE t \in {Order[n] : n \in 2 .. Len(Order)} :
              \E n \in 1 .. Len(Order) - 1 : Order[n] = s /\ Order[n + 1] = t

\* A stage runs when all it uses can be used.
Runs(s) == outcome = "none" /\ stage = s /\ \A use \in Used(s) : Usable(use)

\* An exception, which isr_handler reports once the IDT is loaded.
Exception ==
  /\ outcome = "none" /\ \E use \in Used(stage) : ~Usable(use)
  /\ outcome' = IF idt_loaded THEN "reported" ELSE "reset"
  /\ UNCHANGED <<vars, machine, stage, directory, segments, gdt_loaded,
                 idt_loaded, remapped, interrupts>>

\* _start builds the tables, loads cr3 and sets the bit of cr0, and is then
\* still at its physical address.
_start ==
  /\ Runs("start")
  /\ directory' = BootDirectory
  /\ stage' = After("start")
  /\ UNCHANGED <<vars, machine, segments, gdt_loaded, idt_loaded, remapped,
                 interrupts, outcome>>

\* The jump to _kernel_entry, and its stack for kernel_main.
_kernel_entry ==
  /\ Runs("jump") \/ Runs("entry")
  /\ stage' = After(stage)
  /\ UNCHANGED <<vars, machine, directory, segments, gdt_loaded, idt_loaded,
                 remapped, interrupts, outcome>>

paging_initialize ==
  /\ Runs("paging")
  /\ directory' = KernelDirectory
  /\ stage' = After("paging")
  /\ UNCHANGED <<vars, machine, segments, gdt_loaded, idt_loaded, remapped,
                 interrupts, outcome>>

\* Only text mode will do; without it there is nothing to report that on.
terminal_initialize ==
  /\ Runs("terminal")
  /\ IF machine.framebuffer = NOT_TEXT THEN outcome' = "aborted" /\ UNCHANGED stage
     ELSE stage' = After("terminal") /\ UNCHANGED outcome
  /\ UNCHANGED <<vars, machine, directory, segments, gdt_loaded, idt_loaded,
                 remapped, interrupts>>

\* Mutant: the magic word is not looked at.
MagicFits_always == TRUE

MagicFits == machine.magic

CheckMagic ==
  /\ Runs("magic")
  /\ IF MagicFits THEN stage' = After("magic") /\ UNCHANGED outcome
     ELSE outcome' = "aborted" /\ UNCHANGED stage
  /\ UNCHANGED <<vars, machine, directory, segments, gdt_loaded, idt_loaded,
                 remapped, interrupts>>

\* set_gdt loads all the segment registers.
gdt_initialize ==
  /\ Runs("gdt")
  /\ gdt_loaded' = TRUE
  /\ segments' = [cs |-> GDT[CODE_GDT_R0], ds |-> GDT[DATA_GDT_R0]]
  /\ stage' = After("gdt")
  /\ UNCHANGED <<vars, machine, directory, idt_loaded, remapped, interrupts,
                 outcome>>

isr_install ==
  /\ Runs("isr")
  /\ remapped' = TRUE
  /\ stage' = After("isr")
  /\ UNCHANGED <<vars, machine, directory, segments, gdt_loaded, idt_loaded,
                 interrupts, outcome>>

lidt ==
  /\ Runs("lidt")
  /\ idt_loaded' = TRUE
  /\ stage' = After("lidt")
  /\ UNCHANGED <<vars, machine, directory, segments, gdt_loaded, remapped,
                 interrupts, outcome>>

sti ==
  /\ Runs("sti")
  /\ interrupts' = TRUE
  /\ stage' = After("sti")
  /\ UNCHANGED <<vars, machine, directory, segments, gdt_loaded, idt_loaded,
                 remapped, outcome>>

mmap_initialize ==
  /\ Runs("mmap")
  /\ Next
  /\ stage' = IF at' = "done" THEN After("mmap") ELSE stage
  /\ outcome' = IF at' = "aborted" THEN "aborted" ELSE outcome
  /\ UNCHANGED <<machine, directory, segments, gdt_loaded, idt_loaded, remapped,
                 interrupts>>

\* The frames the list is put in are memory: they lie in an available area.
ListBacked ==
  \E n \in Available(mmap) :
    /\ mmap[n].addr <= mmap_free_memory
    /\ mmap_free_memory + ListBytes <= mmap[n].addr + mmap[n].len

\* The scan ends in a page fault on a crowded machine (run PciHeap), and in
\* abort when there is no memory for its list.  Where the region is no memory
\* nothing is known of what the heap reads back, nor of anything after it.
\* liballoc_unlock sets the interrupt flag.
pci_initialize ==
  /\ Runs("pci")
  /\ interrupts' = TRUE
  /\ IF mmap_free_memory_length < ListBytes
     THEN outcome' = "aborted" /\ UNCHANGED stage
     ELSE IF ~ListBacked THEN outcome' = "lost" /\ UNCHANGED stage
     ELSE IF machine.crowded THEN outcome' = "reported" /\ UNCHANGED stage
     ELSE stage' = After("pci") /\ UNCHANGED outcome
  /\ UNCHANGED <<vars, machine, directory, segments, gdt_loaded, idt_loaded,
                 remapped>>

\* read_rtc, and what kernel_main prints before its last loop.
Greet ==
  /\ Runs("greet")
  /\ outcome' = "booted"
  /\ UNCHANGED <<vars, machine, stage, directory, segments, gdt_loaded,
                 idt_loaded, remapped, interrupts>>

BootNext ==
  \/ _start
  \/ _kernel_entry
  \/ paging_initialize
  \/ terminal_initialize
  \/ CheckMagic
  \/ gdt_initialize
  \/ isr_install
  \/ lidt
  \/ sti
  \/ mmap_initialize
  \/ pci_initialize
  \/ Greet
  \/ Exception

\* The processor goes on.
BootSpec == BootInit /\ [][BootNext]_<<vars, bootVars>>
            /\ WF_<<vars, bootVars>>(BootNext)

-----------------------------------------------------------------------------
(* Properties.                                                             *)

Low(chunk) == chunk < 2      \* in the 8 MiB the kernel maps

\* How boot must end, from the machine and the region of free memory: nothing on
\* the way faults but for what the boot loader has put beyond the first 8 MiB,
\* which resets a machine before it can report anything, memory map apart;
\* whoever lacks a text screen, the magic word, a memory map or the memory is
\* stopped, in that order; and a list outside memory loses it.
Due ==
  CASE ~Low(machine.mbi)                                   -> "reset"
    [] Low(machine.mbi) /\ machine.framebuffer = NOT_TEXT -> "aborted"
    [] Low(machine.mbi) /\ machine.framebuffer # NOT_TEXT
         /\ ~Low(machine.framebuffer)                      -> "reset"
    [] OTHER ->
         IF ~machine.magic \/ ~flagged \/ mmap = <<>>     THEN "aborted"
         ELSE IF ~Low(machine.mmap_addr)                  THEN "reported"
         ELSE IF mmap_free_memory_length < ListBytes      THEN "aborted"
         ELSE IF ~ListBacked                              THEN "lost"
         ELSE IF machine.crowded                          THEN "reported"
         ELSE "booted"

\* Boot ends as it must (_start to the last loop of kernel_main).
EndsAsDue == outcome # "none" => outcome = Due

\* Interrupts are on only with the kernel's own segments, gates and vectors in
\* place; and the first use of the heap, which enables them and takes pages,
\* finds the free memory known and the page directory that maps it.
ReadyWhenUsed ==
  /\ interrupts => gdt_loaded /\ idt_loaded /\ remapped
  /\ stage = "pci" => at = "done" /\ directory = KernelDirectory

\* Boot comes to an end, or to where nothing is known of it.
BootEnds == <>(outcome # "none")
=============================================================================
