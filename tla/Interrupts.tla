----------------------------- MODULE Interrupts -----------------------------
(***************************************************************************)
(* Interrupts in the kernel: the interrupt flag, the IDT that isr_install  *)
(* fills (kernel/src/isr.c), the two cascaded 8259 controllers that        *)
(* pic_remap programs (kernel/src/pic.c), the stubs of israsm.S and the    *)
(* "lock" of the heap, which is cli and sti (libc/src/liballoc/mvk.c).     *)
(*                                                                         *)
(* The kernel has one thread.  What runs beside it are the handlers: the   *)
(* stack below is the thread's stack, a frame for each interrupt that has  *)
(* been entered and not yet returned from; only its last frame runs.       *)
(***************************************************************************)
EXTENDS Integers, Sequences, FiniteSets

CONSTANTS
  Lines,         \* lines on which a device is connected, 0 .. 15 without 2
  Masked,        \* the masks the firmware left in the two controllers
  HeapHandlers,  \* lines for which a handler that allocates may be registered
  MaxRaises,     \* bound: requests the devices make in a behaviour
  MaxCalls,      \* bound: calls of the heap by the thread
  MaxExceptions  \* bound: exceptions (or NMIs) in a behaviour

CASCADE == 2                       \* the line the slave is connected to
IRQ0    == 32
IRQ8    == 40
Line    == 0 .. 15

ASSUME LinesAssumption ==
  /\ Lines \subseteq Line \ {CASCADE} /\ Masked \subseteq Line
  /\ HeapHandlers \subseteq Lines
ASSUME BoundsAssumption ==
  MaxRaises \in Nat /\ MaxCalls \in Nat /\ MaxExceptions \in Nat

VARIABLES
  pc,            \* where the thread is
  flag,          \* the interrupt flag of EFLAGS
  stack,         \* the frames of the interrupts entered, innermost last
  idt,           \* vector -> the stub its gate points to, or "none"
  idtr,          \* lidt has been executed
  irq_handlers,  \* lines with a registered handler; here one that allocates
  offsets,       \* vector of the first line of the master and of the slave
  irr,           \* lines that request an interrupt
  isr,           \* lines in service, CASCADE for any line of the slave
  imr,           \* lines that are masked
  masks,         \* a1 and a2 of pic_remap
  reenabled,     \* history: liballoc_unlock ran in a handler
  spurious,      \* history: a request was withdrawn while being answered
  raises, heapCalls, exceptions   \* counters for the bounds

thread   == <<pc, flag, stack>>
tables   == <<idt, idtr, irq_handlers, masks>>
pics     == <<offsets, irr, isr, imr>>
history  == <<reenabled, spurious>>
counters == <<raises, heapCalls, exceptions>>
vars     == <<thread, tables, pics, history, counters>>

-----------------------------------------------------------------------------
(* The stubs, the gates and the controllers.                               *)

Master(lines) == lines \cap 0 .. 7
Slave(lines)  == lines \cap 8 .. 15

\* Mutant: the numbers the stubs push are one too high.
stub_off_by_one(v) == IF v < IRQ0 THEN [kind |-> "exception", number |-> v]
                      ELSE [kind |-> "irq", number |-> v - IRQ0 + 1]

\* What the stub isr0 .. isr31, irq0 .. irq15 pushes as its number.
stub(v) == IF v < IRQ0 THEN [kind |-> "exception", number |-> v]
           ELSE [kind |-> "irq", number |-> v - IRQ0]

\* Mutant: all gates are trap gates.
FlagInStub_trap(kind) == flag

\* An interrupt gate clears the interrupt flag, a trap gate leaves it.
FlagInStub(kind) == IF kind = "irq" THEN FALSE ELSE flag

\* Mutant: the stubs do not begin with cli.
FlagAfterCli_missing == flag

FlagAfterCli == FALSE

\* Mutants: liballoc_lock only returns 0; liballoc_unlock too.
liballoc_lock_empty == flag

liballoc_lock   == FALSE
liballoc_unlock == TRUE

\* Fully nested mode: a line in service holds back its own requests and those
\* of lower priority, on its controller and through the cascade.
HeldBack(l) ==
  IF l < 8 THEN \E m \in isr : m <= l
  ELSE \E m \in isr : m <= CASCADE \/ (8 <= m /\ m <= l)

Requesting == {l \in irr \ imr : ~HeldBack(l) /\ (l >= 8 => CASCADE \notin imr)}

\* The slave's lines take the priority of line 2.
Before(l, m) ==
  LET rank(k) == IF k < 8 THEN <<k, 0>> ELSE <<CASCADE, k>>
  IN  \/ rank(l)[1] < rank(m)[1]
      \/ rank(l)[1] = rank(m)[1] /\ rank(l)[2] <= rank(m)[2]

\* The unspecific end of interrupt: the line of highest priority in service.
Ended(lines) == {m \in lines : \A k \in lines : m <= k}

\* Mutants: EOI goes to the slave from line 9 on only; no EOI goes to the
\* master for a line of the slave.
ToSlave_from_nine(l)  == l > 8
ToMaster_or_slave(l)  == l < 8

ToSlave(l)  == l >= 8
ToMaster(l) == TRUE

-----------------------------------------------------------------------------
Init ==
  /\ pc = "isr_install" /\ flag = FALSE /\ stack = <<>>
  /\ idt = [v \in 0 .. 255 |-> "none"] /\ idtr = FALSE
  /\ irq_handlers = {}
  /\ offsets = [master |-> 8, slave |-> 112]       \* as the BIOS leaves them
  /\ irr = {} /\ isr = {} /\ imr = Masked
  /\ masks = [a1 |-> {}, a2 |-> {}]
  /\ reenabled = FALSE /\ spurious = FALSE
  /\ raises = 0 /\ heapCalls = 0 /\ exceptions = 0

Running(at) == pc = at /\ stack = <<>>

-----------------------------------------------------------------------------
(* idt_initialize, with isr_install and pic_remap.                         *)

ExceptionGates ==
  /\ Running("isr_install")
  /\ idt' = [v \in 0 .. 255 |-> IF v < IRQ0 THEN "gate" ELSE idt[v]]
  /\ masks' = [a1 |-> Master(imr), a2 |-> Slave(imr)]
  /\ pc' = "icw"
  /\ UNCHANGED <<flag, stack, idtr, irq_handlers, pics, history, counters>>

\* Mutant: the offsets of the two controllers are exchanged.
RemapOffsets_exchanged == [master |-> IRQ8, slave |-> IRQ0]

RemapOffsets == [master |-> IRQ0, slave |-> IRQ8]

\* ICW1 resets a controller: it forgets its requests and its masks.
Remap ==
  /\ Running("icw")
  /\ offsets' = RemapOffsets
  /\ irr' = {} /\ isr' = {} /\ imr' = {}
  /\ pc' = "restore"
  /\ UNCHANGED <<flag, stack, tables, history, counters>>

\* Mutant: the slave is given the masks of the master and the other way round.
RestoredMasks_exchanged ==
  {m - 8 : m \in masks.a2} \cup {m + 8 : m \in masks.a1}

RestoredMasks == masks.a1 \cup masks.a2

RestoreMasks ==
  /\ Running("restore")
  /\ imr' = RestoredMasks
  /\ idt' = [v \in 0 .. 255 |-> IF v \in IRQ0 .. IRQ0 + 15 THEN "gate"
                                ELSE idt[v]]
  /\ pc' = "lidt"
  /\ UNCHANGED <<flag, stack, idtr, irq_handlers, masks, offsets, irr, isr,
                 history, counters>>

LoadIdt ==
  /\ Running("lidt")
  /\ idtr' = TRUE /\ pc' = "sti"
  /\ UNCHANGED <<flag, stack, idt, irq_handlers, masks, pics, history,
                 counters>>

EnableInterrupts ==
  /\ Running("sti")
  /\ flag' = TRUE /\ pc' = "run"
  /\ UNCHANGED <<stack, tables, pics, history, counters>>

-----------------------------------------------------------------------------
(* The thread after that: it registers handlers and calls the heap.        *)

register_irq_handler(l) ==
  /\ Running("run") /\ l \notin irq_handlers
  /\ irq_handlers' = irq_handlers \cup {l}
  /\ UNCHANGED <<thread, idt, idtr, masks, pics, history, counters>>

HeapCall ==
  /\ Running("run") /\ heapCalls < MaxCalls
  /\ pc' = "locked" /\ flag' = liballoc_lock
  /\ heapCalls' = heapCalls + 1
  /\ UNCHANGED <<stack, tables, pics, history, raises, exceptions>>

HeapReturn ==
  /\ Running("locked")
  /\ pc' = "run" /\ flag' = liballoc_unlock
  /\ UNCHANGED <<stack, tables, pics, history, counters>>

-----------------------------------------------------------------------------
(* The devices and the processor.                                          *)

Raise(l) ==
  /\ raises < MaxRaises
  /\ irr' = irr \cup {l}
  /\ raises' = raises + 1
  /\ UNCHANGED <<thread, tables, offsets, isr, imr, history, heapCalls,
                 exceptions>>

Vector(l) == IF l < 8 THEN offsets.master + l ELSE offsets.slave + l - 8

\* The stub the vector leads to starts, in a new frame; "from" is the line
\* that the controllers answered with, "real" that it was put in service.
Enter(l, real) ==
  LET v == Vector(l)
  IN  /\ stack' = Append(stack,
                    [kind |-> IF idtr /\ idt[v] = "gate" THEN stub(v).kind
                              ELSE "no gate",
                     irq_no |-> stub(v).number, from |-> l, at |-> "cli",
                     real |-> real, saved |-> flag])
      /\ flag' = FlagInStub(stub(v).kind)

Interrupt(l) ==
  /\ flag /\ l \in Requesting /\ \A m \in Requesting : Before(l, m)
  /\ irr' = irr \ {l}
  /\ isr' = isr \cup (IF l < 8 THEN {l} ELSE {CASCADE, l})
  /\ Enter(l, TRUE)
  /\ UNCHANGED <<pc, tables, offsets, imr, history, counters>>

\* The request is gone when the processor answers it: the controller names
\* its line of lowest priority and puts nothing in service.
Spurious(l) ==
  /\ flag /\ l \in Requesting /\ \A m \in Requesting : Before(l, m)
  /\ irr' = irr \ {l}
  /\ isr' = isr \cup (IF l < 8 THEN {} ELSE {CASCADE})
  /\ Enter(IF l < 8 THEN 7 ELSE 15, FALSE)
  /\ spurious' = TRUE
  /\ UNCHANGED <<pc, tables, offsets, imr, reenabled, counters>>

Exception ==
  /\ idtr /\ exceptions < MaxExceptions
  /\ exceptions' = exceptions + 1
  /\ stack' = Append(stack, [kind |-> "exception", irq_no |-> 0, from |-> 0,
                             at |-> "cli", real |-> FALSE, saved |-> flag])
  /\ flag' = FlagInStub("exception")
  /\ UNCHANGED <<pc, tables, pics, history, raises, heapCalls>>

-----------------------------------------------------------------------------
(* The stubs and irq_handler, in the innermost frame.                      *)

Depth == Len(stack)
Top   == stack[Depth]

InFrame(kind, at) == stack # <<>> /\ Top.kind = kind /\ Top.at = at
GoTo(at)          == stack' = [stack EXCEPT ![Depth].at = at]

Cli ==
  /\ stack # <<>> /\ Top.at = "cli"
  /\ flag' = FlagAfterCli
  /\ GoTo("handler")
  /\ UNCHANGED <<pc, tables, pics, history, counters>>

\* A handler that is not registered, or does not use the heap, changes nothing
\* here.  The last step of an exception is isr_handler, which does not return.
HandlerCall ==
  /\ InFrame("irq", "handler")
  /\ IF Top.irq_no \in irq_handlers
     THEN flag' = liballoc_lock /\ GoTo("locked")
     ELSE UNCHANGED flag /\ GoTo("slave")
  /\ UNCHANGED <<pc, tables, pics, history, counters>>

HandlerReturn ==
  /\ InFrame("irq", "locked")
  /\ flag' = liballoc_unlock /\ GoTo("slave")
  /\ reenabled' = TRUE
  /\ UNCHANGED <<pc, tables, pics, spurious, counters>>

EoiSlave ==
  /\ InFrame("irq", "slave")
  /\ isr' = IF ToSlave(Top.irq_no) THEN isr \ Ended(Slave(isr)) ELSE isr
  /\ GoTo("master")
  /\ UNCHANGED <<pc, flag, tables, offsets, irr, imr, history, counters>>

EoiMaster ==
  /\ InFrame("irq", "master")
  /\ isr' = IF ToMaster(Top.irq_no) THEN isr \ Ended(Master(isr)) ELSE isr
  /\ GoTo("iret")
  /\ UNCHANGED <<pc, flag, tables, offsets, irr, imr, history, counters>>

\* sti takes effect after the instruction that follows it, the iret, which
\* restores the flag of the code that was interrupted.
Iret ==
  /\ InFrame("irq", "iret")
  /\ flag' = Top.saved
  /\ stack' = SubSeq(stack, 1, Depth - 1)
  /\ UNCHANGED <<pc, tables, pics, history, counters>>

-----------------------------------------------------------------------------
Boot    == ExceptionGates \/ Remap \/ RestoreMasks \/ LoadIdt \/ EnableInterrupts
Handler == Cli \/ HandlerCall \/ HandlerReturn \/ EoiSlave \/ EoiMaster \/ Iret

Next ==
  \/ Boot
  \/ \E l \in HeapHandlers : register_irq_handler(l)
  \/ HeapCall
  \/ HeapReturn
  \/ \E l \in Lines : Raise(l) \/ Interrupt(l) \/ Spurious(l)
  \/ Exception
  \/ Handler

Spec == Init /\ [][Next]_vars

\* The processor keeps executing, and takes a request that stays.  Only the
\* thread's next call and the devices' next request are up to them.
FairSpec ==
  /\ Spec
  /\ WF_vars(Boot \/ HeapReturn \/ Handler)
  /\ WF_vars(\E l \in Lines : Interrupt(l) \/ Spurious(l))

-----------------------------------------------------------------------------
(* Properties.                                                             *)

\* Every interrupt reaches the stub of the line that caused it: none arrives
\* before its gate, the remapped controllers and the IDT are in place, and no
\* line of the slave is taken for one of the master; and pic_remap gives each
\* controller back the masks it had, which ICW1 clears.
RightStub ==
  /\ \A n \in DOMAIN stack :
       stack[n].kind \in {"irq", "exception"} /\ stack[n].irq_no = stack[n].from
  /\ pc \notin {"icw", "restore", "isr_install"} => imr = Masked

\* One context at a time is inside the heap, though cli is all its lock does
\* and liballoc_unlock enables interrupts whatever they were before.
HeapExclusive ==
  Cardinality({n \in DOMAIN stack : stack[n].at = "locked"})
    + (IF pc = "locked" THEN 1 ELSE 0) <= 1

IrqFrames == {n \in DOMAIN stack : stack[n].kind = "irq"}

\* What the frames on the stack still have to end at the controllers.
OwedBy(f) ==
  {l \in {f.from} : f.real /\ (f.from < 8 \/ f.at # "master")}
    \cup {l \in {CASCADE} : f.from >= 8}
Owed == UNION {OwedBy(stack[n]) : n \in {m \in IrqFrames : stack[m].at # "iret"}}

\* pic_eoi names no line, and still ends exactly the interrupt of its own
\* frame: also when handlers nest, and also after spurious interrupts, which
\* put nothing in service and get an EOI as well; not when both come together.
EoiEndsOwnLine == ~(reenabled /\ spurious) => isr = Owed

\* Once every handler has returned no line is left in service, so none is
\* held back for ever, wherever the EOIs went.
NothingLeftInService == IrqFrames = {} => isr = {}

\* As long as no handler uses the heap, handlers do not nest.
HandlersNestOnlyByUnlock == ~reenabled => Cardinality(IrqFrames) <= 1

\* Once an exception is being reported no handler runs any more and the thread
\* does not go on, so the report is not mixed with other output.
ReportUndisturbed ==
  [][(\E n \in DOMAIN stack \ IrqFrames : stack[n].at = "handler")
       => UNCHANGED <<pc, IrqFrames>>]_vars

\* A request of a line that is not masked is taken in the end, unless an
\* exception stops the kernel.
RequestsServed ==
  \A l \in Lines \ Masked :
    (pc = "run" /\ l \in irr) ~> (l \notin irr \/ exceptions > 0)
=============================================================================
