-------------------------- MODULE InterruptsProofs --------------------------
(***************************************************************************)
(* Proofs about the interrupts of Interrupts, for any set of devices, any  *)
(* masks, any handlers that use the heap, any number of requests, calls    *)
(* and exceptions, and any depth to which handlers nest.                   *)
(***************************************************************************)
EXTENDS Interrupts, FiniteSetTheorems, SequenceTheorems, TLAPS

-----------------------------------------------------------------------------
(* The invariant, in parts.                                                *)

BootStages == {"isr_install", "icw", "restore", "lidt", "sti"}
Statements == {"cli", "handler", "locked", "slave", "master", "iret"}

Frame == [kind : {"irq", "exception"}, irq_no : Int, from : Line,
          at : Statements, real : BOOLEAN, saved : BOOLEAN]

TypeOK ==
  /\ pc \in BootStages \cup {"run", "locked"}
  /\ flag \in BOOLEAN /\ reenabled \in BOOLEAN /\ spurious \in BOOLEAN
  /\ stack \in Seq(Frame)
  /\ idt \in [0 .. 255 -> {"none", "gate"}] /\ idtr \in BOOLEAN
  /\ irr \subseteq Lines /\ isr \subseteq Line

\* What idt_initialize has done when the thread is at each of its stages; before
\* lidt nothing can reach the processor, and before sti only an exception can.
BootOrder ==
  /\ idtr <=> pc \in {"sti", "run", "locked"}
  /\ ~idtr => stack = <<>>
  /\ pc \in BootStages => isr = {}
  /\ pc = "isr_install" => imr = Masked
  /\ pc # "isr_install" => \A v \in 0 .. IRQ0 - 1 : idt[v] = "gate"
  /\ pc \in {"icw", "restore"} =>
       masks = [a1 |-> Master(Masked), a2 |-> Slave(Masked)]
  /\ pc \in {"restore", "lidt", "sti", "run", "locked"} => offsets = RemapOffsets
  /\ pc \in {"lidt", "sti", "run", "locked"} =>
       imr = Masked /\ \A v \in IRQ0 .. IRQ0 + 15 : idt[v] = "gate"

\* A frame numbered by its stub is that of the line that caused it.
FramesSound ==
  \A n \in DOMAIN stack :
    /\ stack[n].irq_no = stack[n].from
    /\ stack[n].kind = "exception" => stack[n].at \in {"cli", "handler"}

\* While a frame is closed interrupts are disabled: from the gate or from cli to
\* liballoc_unlock, or for good if the handlers never call it.
Closed(f) ==
  \/ f.at \in {"handler", "locked"}
  \/ f.kind = "irq" /\ (f.at = "cli" \/ ~reenabled)

\* Only exceptions and NMIs interrupt a frame, or a thread, that is closed.
ClosedFrames ==
  /\ \A n \in DOMAIN stack :
       Closed(stack[n]) =>
         /\ flag = FALSE
         /\ \A m \in DOMAIN stack : n < m => stack[m].kind = "exception"
  /\ pc # "run" =>
       /\ flag = FALSE
       /\ \A m \in DOMAIN stack : stack[m].kind = "exception"

\* The line in service at the master for a frame.
MasterLine(f) == IF f.from < 8 THEN f.from ELSE CASCADE

\* Frames that still owe an EOI to the master, and to the slave.
MasterOwing == {n \in IrqFrames : stack[n].at # "iret"}
SlaveOwing  == {n \in MasterOwing : stack[n].from >= 8 /\ stack[n].at # "master"}

\* A handler is interrupted only by a line of higher priority, unless spurious
\* interrupts confuse the controllers, which end the line that is on top.
Nested ==
  ~(reenabled /\ spurious) =>
    /\ isr = Owed
    /\ \A n, m \in MasterOwing : n < m => MasterLine(stack[m]) < MasterLine(stack[n])
    /\ ~spurious => \A n \in IrqFrames : stack[n].real

\* Whatever the EOIs ended, there is one left for every line in service.
EnoughEois ==
  /\ Cardinality(Master(isr)) <= Cardinality(MasterOwing)
  /\ Cardinality(Slave(isr)) <= Cardinality(SlaveOwing)

IndInv ==
  TypeOK /\ BootOrder /\ FramesSound /\ ClosedFrames /\ Nested /\ EnoughEois

-----------------------------------------------------------------------------
(* Frames.                                                                 *)

LEMMA StackTop ==
  ASSUME TypeOK, stack # <<>>
  PROVE  /\ Depth \in Nat /\ Depth \in DOMAIN stack /\ DOMAIN stack = 1 .. Depth
         /\ Top = stack[Depth] /\ Top \in Frame
<1>1. stack \in Seq(Frame) /\ Depth = Len(stack) /\ Top = stack[Depth]
  BY DEF TypeOK, Depth, Top
<1>2. Len(stack) \in Nat /\ Len(stack) # 0 /\ DOMAIN stack = 1 .. Len(stack)
  BY <1>1, EmptySeq
<1>3. QED
  BY <1>1, <1>2

LEMMA PushFrame ==
  ASSUME TypeOK, NEW f \in Frame, stack' = Append(stack, f)
  PROVE  /\ stack' \in Seq(Frame) /\ Depth \in Nat
         /\ DOMAIN stack = 1 .. Depth /\ DOMAIN stack' = 1 .. Depth + 1
         /\ \A n \in DOMAIN stack : stack'[n] = stack[n]
         /\ stack'[Depth + 1] = f
<1>1. stack \in Seq(Frame) /\ Depth = Len(stack)
  BY DEF TypeOK, Depth
<1>2. stack' \in Seq(Frame) /\ Len(stack') = Depth + 1
      /\ (\A n \in 1 .. Depth : stack'[n] = stack[n]) /\ stack'[Depth + 1] = f
  BY <1>1, AppendProperties
<1>3. QED
  BY <1>1, <1>2

LEMMA MoveFrame ==
  ASSUME TypeOK, stack # <<>>, NEW s \in Statements, GoTo(s)
  PROVE  /\ stack' \in Seq(Frame) /\ DOMAIN stack' = DOMAIN stack /\ Depth' = Depth
         /\ stack'[Depth] = [Top EXCEPT !.at = s]
         /\ \A n \in DOMAIN stack : n # Depth => stack'[n] = stack[n]
<1> DEFINE f == [Top EXCEPT !.at = s]
<1>1. Depth \in 1 .. Len(stack) /\ stack \in Seq(Frame) /\ Top \in Frame
  BY StackTop DEF TypeOK, Depth
<1>2. f \in Frame
  BY <1>1 DEF Frame
<1>3. stack' = [stack EXCEPT ![Depth] = f]
  BY DEF GoTo, Top
<1>4. Depth' = Depth
  BY <1>1, <1>3 DEF Depth
<1>5. QED
  BY <1>1, <1>2, <1>3, <1>4

LEMMA PopFrame ==
  ASSUME TypeOK, stack # <<>>, stack' = SubSeq(stack, 1, Depth - 1)
  PROVE  /\ stack' \in Seq(Frame) /\ DOMAIN stack' = DOMAIN stack \ {Depth}
         /\ \A n \in DOMAIN stack' : stack'[n] = stack[n]
<1>1. stack \in Seq(Frame) /\ Depth \in Nat /\ Depth = Len(stack) /\ Depth > 0
  BY StackTop DEF TypeOK, Depth
<1>2. stack' \in Seq(Frame) /\ Len(stack') = Depth - 1
      /\ \A n \in 1 .. Depth - 1 : stack'[n] = stack[n]
  BY <1>1
<1>3. QED
  BY <1>1, <1>2

\* The frame of a line: once the thread runs, its vector leads to its stub.
EntryFrame(l, real) ==
  [kind |-> "irq", irq_no |-> l, from |-> l, at |-> "cli", real |-> real,
   saved |-> flag]

LEMMA Entered ==
  ASSUME TypeOK, BootOrder, pc = "run", NEW l \in Line, NEW real \in BOOLEAN,
         Enter(l, real)
  PROVE  /\ stack' = Append(stack, EntryFrame(l, real))
         /\ EntryFrame(l, real) \in Frame
         /\ flag' = FALSE
<1> DEFINE v == IRQ0 + l
<1>1. Vector(l) = v
  BY DEF Vector, BootOrder, RemapOffsets, Line, IRQ0, IRQ8
<1>2. idtr /\ idt[v] = "gate"
  BY DEF BootOrder, Line, IRQ0
<1>3. stub(v) = [kind |-> "irq", number |-> l]
  BY DEF stub, Line, IRQ0
<1>4. EntryFrame(l, real) \in Frame
  BY DEF EntryFrame, Frame, TypeOK, Statements, Line
<1>5. QED
  BY <1>1, <1>2, <1>3, <1>4 DEF Enter, EntryFrame, FlagInStub

\* An interrupt, real or not, comes to a thread and to frames that are not closed.
LEMMA Answered ==
  ASSUME IndInv, NEW l \in Lines, Interrupt(l) \/ Spurious(l)
  PROVE  /\ flag = TRUE /\ pc = "run" /\ pc' = pc
         /\ \A n \in DOMAIN stack : ~Closed(stack[n])
         /\ l \in Line \ {CASCADE} /\ ~HeldBack(l)
         /\ UNCHANGED <<tables, offsets, imr, reenabled>>
         /\ \E r \in BOOLEAN, m \in Line :
              /\ stack' = Append(stack, EntryFrame(m, r))
              /\ EntryFrame(m, r) \in Frame
         /\ flag' = FALSE
<1>1. flag = TRUE /\ pc' = pc /\ ~HeldBack(l) /\ UNCHANGED <<tables, offsets, imr, reenabled>>
  BY DEF Interrupt, Spurious, Requesting, history, IndInv, TypeOK
<1>2. l \in Line \ {CASCADE}
  BY LinesAssumption
<1>3. pc = "run" /\ \A n \in DOMAIN stack : ~Closed(stack[n])
  BY <1>1 DEF IndInv, ClosedFrames
<1>4. \E r \in BOOLEAN, m \in Line : Enter(m, r)
  <2>1. CASE Interrupt(l)
    BY <1>2, <2>1 DEF Interrupt
  <2>2. CASE Spurious(l)
    <3>1. 7 \in Line /\ 15 \in Line
      BY DEF Line
    <3>2. Enter(IF l < 8 THEN 7 ELSE 15, FALSE)
      BY <2>2 DEF Spurious
    <3>3. QED
      BY <3>1, <3>2
  <2>3. QED
    BY <2>1, <2>2
<1>5. QED
  BY <1>1, <1>2, <1>3, <1>4, Entered DEF IndInv

-----------------------------------------------------------------------------
(* Types, the boot, and which frames can be interrupted.                   *)

Sound == TypeOK /\ BootOrder /\ FramesSound /\ ClosedFrames

LEMMA SoundInit == Init => Sound
<1> SUFFICES ASSUME Init PROVE Sound
  OBVIOUS
<1>1. stack = <<>> /\ stack \in Seq(Frame) /\ DOMAIN stack = {}
  BY DEF Init
<1>2. TypeOK
  BY <1>1 DEF Init, TypeOK, BootStages
<1>3. BootOrder
  BY <1>1 DEF Init, BootOrder, BootStages
<1>4. FramesSound /\ ClosedFrames
  BY <1>1 DEF Init, FramesSound, ClosedFrames
<1>5. QED
  BY <1>2, <1>3, <1>4 DEF Sound

LEMMA SoundBoot == Sound /\ Boot => Sound'
<1> SUFFICES ASSUME Sound, Boot PROVE Sound'
  OBVIOUS
<1> USE DEF Sound
<1>1. stack = <<>> /\ stack' = stack /\ DOMAIN stack' = {}
  BY DEF Boot, ExceptionGates, Remap, RestoreMasks, LoadIdt, EnableInterrupts, Running
<1>2. CASE ExceptionGates
  <2>1. TypeOK'
    BY <1>1, <1>2 DEF ExceptionGates, TypeOK, BootStages, pics, history, Running
  <2>2. BootOrder'
    <3>1. /\ pc = "isr_install" /\ pc' = "icw"
          /\ masks' = [a1 |-> Master(imr), a2 |-> Slave(imr)]
          /\ UNCHANGED <<stack, idtr, imr, isr>>
      BY <1>2 DEF ExceptionGates, Running, pics
    <3>2. imr = Masked /\ isr = {} /\ ~idtr
      BY <1>1, <3>1 DEF BootOrder, BootStages
    <3>3. \A v \in 0 .. IRQ0 - 1 : idt'[v] = "gate"
      <4>1. idt' = [v \in 0 .. 255 |-> IF v < IRQ0 THEN "gate" ELSE idt[v]]
        BY <1>2 DEF ExceptionGates
      <4>2. QED
        BY <4>1 DEF IRQ0
    <3>4. masks' = [a1 |-> Master(Masked), a2 |-> Slave(Masked)]
      BY <3>1, <3>2
    <3>5. QED
      BY <1>1, <3>1, <3>2, <3>3, <3>4 DEF BootOrder, BootStages
  <2>3. FramesSound' /\ ClosedFrames'
    BY <1>1, <1>2 DEF ExceptionGates, Running, FramesSound, ClosedFrames
  <2>4. QED
    BY <2>1, <2>2, <2>3
<1>3. CASE Remap
  <2>1. TypeOK'
    BY <1>1, <1>3 DEF Remap, TypeOK, BootStages, tables, history, Running
  <2>2. BootOrder'
    BY <1>1, <1>3 DEF Remap, Running, TypeOK, BootOrder, BootStages, tables
  <2>3. FramesSound' /\ ClosedFrames'
    BY <1>1, <1>3 DEF Remap, Running, FramesSound, ClosedFrames
  <2>4. QED
    BY <2>1, <2>2, <2>3
<1>4. CASE RestoreMasks
  <2>1. TypeOK'
    BY <1>1, <1>4 DEF RestoreMasks, TypeOK, BootStages, history, Running
  <2>2. RestoredMasks = Masked
    <3>1. masks.a1 = Masked \cap 0 .. 7 /\ masks.a2 = Masked \cap 8 .. 15
      <4>1. masks = [a1 |-> Master(Masked), a2 |-> Slave(Masked)]
        BY <1>4 DEF RestoreMasks, Running, BootOrder
      <4>2. QED
        BY <4>1 DEF Master, Slave
    <3>2. \A l \in Masked : l \in 0 .. 7 \/ l \in 8 .. 15
      BY LinesAssumption DEF Line
    <3>3. QED
      BY <3>1, <3>2 DEF RestoredMasks
  <2>3. BootOrder'
    <3>1. /\ pc = "restore" /\ pc' = "lidt" /\ imr' = Masked
          /\ UNCHANGED <<stack, idtr, masks, offsets, isr>>
      BY <1>4, <2>2 DEF RestoreMasks, Running
    <3>2. isr' = {} /\ ~idtr' /\ stack' = <<>> /\ offsets' = RemapOffsets
      BY <1>1, <3>1 DEF BootOrder, BootStages
    <3>3. /\ \A v \in 0 .. IRQ0 - 1 : idt'[v] = "gate"
          /\ \A v \in IRQ0 .. IRQ0 + 15 : idt'[v] = "gate"
      <4>1. idt' = [v \in 0 .. 255 |-> IF v \in IRQ0 .. IRQ0 + 15 THEN "gate" ELSE idt[v]]
        BY <1>4 DEF RestoreMasks
      <4>2. \A v \in 0 .. IRQ0 - 1 : idt[v] = "gate"
        BY <1>1, <3>1 DEF BootOrder
      <4>3. QED
        BY <4>1, <4>2 DEF IRQ0
    <3>4. QED
      BY <3>1, <3>2, <3>3 DEF BootOrder, BootStages
  <2>4. FramesSound' /\ ClosedFrames'
    BY <1>1, <1>4 DEF RestoreMasks, Running, FramesSound, ClosedFrames
  <2>5. QED
    BY <2>1, <2>3, <2>4
<1>5. CASE LoadIdt
  <2>1. TypeOK'
    BY <1>1, <1>5 DEF LoadIdt, TypeOK, BootStages, pics, history, Running
  <2>2. BootOrder'
    BY <1>1, <1>5 DEF LoadIdt, Running, TypeOK, BootOrder, BootStages, pics
  <2>3. FramesSound' /\ ClosedFrames'
    BY <1>1, <1>5 DEF LoadIdt, Running, FramesSound, ClosedFrames
  <2>4. QED
    BY <2>1, <2>2, <2>3
<1>6. CASE EnableInterrupts
  <2>1. TypeOK'
    BY <1>1, <1>6 DEF EnableInterrupts, TypeOK, tables, pics, history
  <2>2. BootOrder'
    BY <1>1, <1>6 DEF EnableInterrupts, Running, TypeOK, BootOrder, BootStages, tables, pics
  <2>3. FramesSound' /\ ClosedFrames'
    BY <1>1, <1>6 DEF EnableInterrupts, FramesSound, ClosedFrames
  <2>4. QED
    BY <2>1, <2>2, <2>3
<1>7. QED
  BY <1>2, <1>3, <1>4, <1>5, <1>6 DEF Boot

\* The thread's own steps, and the devices'.
ThreadOrDevice ==
  \/ \E l \in HeapHandlers : register_irq_handler(l)
  \/ HeapCall
  \/ HeapReturn
  \/ \E l \in Lines : Raise(l)

LEMMA ThreadFrames ==
  ASSUME ThreadOrDevice
  PROVE  /\ UNCHANGED <<stack, idt, idtr, offsets, isr, imr, masks, history>>
         /\ flag' = flag \/ stack = <<>>
         /\ pc' = pc \/ (stack = <<>> /\ {pc, pc'} = {"run", "locked"})
         /\ pc' # "run" => pc' = pc \/ flag' = FALSE
BY DEF ThreadOrDevice, register_irq_handler, HeapCall, HeapReturn, Raise, Running,
   thread, tables, pics, liballoc_lock

LEMMA SoundThread == Sound /\ ThreadOrDevice => Sound'
<1> SUFFICES ASSUME Sound, ThreadOrDevice PROVE Sound'
  OBVIOUS
<1> USE DEF Sound
<1>1. /\ UNCHANGED <<stack, idt, idtr, offsets, isr, imr, masks, reenabled, spurious>>
      /\ flag' = flag \/ stack = <<>>
      /\ pc' = pc \/ (stack = <<>> /\ pc \in {"run", "locked"} /\ pc' \in {"run", "locked"})
      /\ pc' # "run" => pc' = pc \/ flag' = FALSE
  BY ThreadFrames DEF history
<1>2. irr' \subseteq Lines /\ flag' \in BOOLEAN
  BY DEF ThreadOrDevice, register_irq_handler, HeapCall, HeapReturn, Raise,
     thread, pics, TypeOK, liballoc_lock, liballoc_unlock
<1>3. flag' = flag \/ pc' # pc
  BY DEF ThreadOrDevice, register_irq_handler, HeapCall, HeapReturn, Raise,
     thread, Running
<1>4. TypeOK'
  BY <1>1, <1>2 DEF TypeOK
<1>5. BootOrder'
  BY <1>1 DEF BootOrder, BootStages
<1>6. FramesSound'
  BY <1>1 DEF FramesSound
<1>7. ClosedFrames'
  BY <1>1, <1>3 DEF ClosedFrames, Closed
<1>8. QED
  BY <1>4, <1>5, <1>6, <1>7

LEMMA SoundEntry ==
  ASSUME IndInv, NEW l \in Lines, Interrupt(l) \/ Spurious(l)
  PROVE  Sound'
<1> USE DEF IndInv
<1>1. /\ pc = "run" /\ pc' = pc /\ flag' = FALSE
      /\ \A n \in DOMAIN stack : ~Closed(stack[n])
      /\ UNCHANGED <<idt, idtr, masks, offsets, imr, reenabled>>
  BY Answered DEF tables
<1>2. PICK r \in BOOLEAN, m \in Line :
        stack' = Append(stack, EntryFrame(m, r)) /\ EntryFrame(m, r) \in Frame
  BY Answered
<1>3. /\ stack' \in Seq(Frame) /\ Depth \in Nat
      /\ DOMAIN stack = 1 .. Depth /\ DOMAIN stack' = 1 .. Depth + 1
      /\ \A n \in DOMAIN stack : stack'[n] = stack[n]
      /\ stack'[Depth + 1] = EntryFrame(m, r)
  BY <1>2, PushFrame
<1>4. TypeOK'
  <2>1. irr' \subseteq Lines /\ isr' \subseteq Line /\ spurious' \in BOOLEAN
    <3>1. l \in Line /\ CASCADE \in Line
      BY LinesAssumption DEF Line, CASCADE
    <3>2. QED
      BY <3>1 DEF Interrupt, Spurious, TypeOK, history
  <2>2. QED
    BY <1>1, <1>3, <2>1 DEF TypeOK
<1>5. BootOrder'
  BY <1>1 DEF BootOrder, BootStages
<1>6. FramesSound'
  BY <1>3 DEF FramesSound, EntryFrame
<1>7. ClosedFrames'
  <2>1. \A n \in DOMAIN stack : ~Closed(stack[n])'
    BY <1>1, <1>3 DEF Closed
  <2>2. QED
    BY <1>1, <1>3, <2>1 DEF ClosedFrames
<1>8. QED
  BY <1>4, <1>5, <1>6, <1>7 DEF Sound

LEMMA SoundException == Sound /\ Exception => Sound'
<1> SUFFICES ASSUME Sound, Exception PROVE Sound'
  OBVIOUS
<1> USE DEF Sound
<1> DEFINE f == [kind |-> "exception", irq_no |-> 0, from |-> 0, at |-> "cli",
                 real |-> FALSE, saved |-> flag]
<1>1. f \in Frame
  BY DEF TypeOK, Frame, Line, Statements
<1>2. /\ stack' = Append(stack, f) /\ flag' = flag /\ idtr
      /\ UNCHANGED <<pc, idt, idtr, masks, offsets, irr, isr, imr, reenabled, spurious>>
  BY DEF Exception, FlagInStub, tables, pics, history
<1>3. /\ stack' \in Seq(Frame) /\ Depth \in Nat
      /\ DOMAIN stack = 1 .. Depth /\ DOMAIN stack' = 1 .. Depth + 1
      /\ \A n \in DOMAIN stack : stack'[n] = stack[n]
      /\ stack'[Depth + 1] = f
  BY <1>1, <1>2, PushFrame
<1>4. TypeOK'
  BY <1>2, <1>3 DEF TypeOK
<1>5. BootOrder'
  BY <1>2 DEF BootOrder, BootStages
<1>6. FramesSound'
  BY <1>3 DEF FramesSound
<1>7. ClosedFrames'
  <2>1. ~Closed(f)'
    BY DEF Closed
  <2>2. \A n \in DOMAIN stack : Closed(stack[n])' => Closed(stack[n])
    BY <1>2, <1>3 DEF Closed
  <2>3. QED
    BY <1>2, <1>3, <2>1, <2>2 DEF ClosedFrames
<1>8. QED
  BY <1>4, <1>5, <1>6, <1>7

\* A step of the innermost frame that stays in it.
FrameStep ==
  Cli \/ HandlerCall \/ HandlerReturn \/ EoiSlave \/ EoiMaster

LEMMA Moved ==
  ASSUME TypeOK, FramesSound, FrameStep
  PROVE  /\ stack # <<>> /\ UNCHANGED <<pc, tables, offsets, irr, imr, spurious>>
         /\ reenabled' = reenabled \/ HandlerReturn
         /\ isr' = isr \/ EoiSlave \/ EoiMaster
         /\ isr' \subseteq isr
         /\ Top.at = "cli" \/ Top.kind = "irq"
         /\ \E s \in Statements :
              /\ GoTo(s)
              /\ Cli => s = "handler"
              /\ HandlerReturn => s = "slave"
              /\ EoiSlave => s = "master"
              /\ EoiMaster => s = "iret"
              /\ s # "cli" /\ (Top.kind = "exception" => Cli)
<1>1. stack # <<>> /\ Top.at \in Statements /\ Top.kind \in {"irq", "exception"}
  <2>1. stack # <<>>
    BY DEF FrameStep, Cli, HandlerCall, HandlerReturn, EoiSlave, EoiMaster, InFrame
  <2>2. QED
    BY <2>1, StackTop DEF Frame
<1>2. /\ UNCHANGED <<pc, tables, offsets, irr, imr, spurious>>
      /\ reenabled' = reenabled \/ HandlerReturn
      /\ isr' = isr \/ EoiSlave \/ EoiMaster
      /\ isr' \subseteq isr
      /\ Top.at = "cli" \/ Top.kind = "irq"
  BY <1>1 DEF FrameStep, Cli, HandlerCall, HandlerReturn, EoiSlave, EoiMaster,
     InFrame, pics, history
<1>3. \E s \in Statements :
        /\ GoTo(s)
        /\ Cli => s = "handler"
        /\ HandlerReturn => s = "slave"
        /\ EoiSlave => s = "master"
        /\ EoiMaster => s = "iret"
        /\ s # "cli" /\ (Top.kind = "exception" => Cli)
  BY <1>1 DEF FrameStep, Cli, HandlerCall, HandlerReturn, EoiSlave, EoiMaster,
     InFrame, Statements
<1>4. QED
  BY <1>1, <1>2, <1>3

LEMMA SoundFrameStep == Sound /\ FrameStep => Sound'
<1> SUFFICES ASSUME Sound, FrameStep PROVE Sound'
  OBVIOUS
<1> USE DEF Sound
<1>1. /\ stack # <<>>
      /\ UNCHANGED <<pc, idt, idtr, masks, offsets, irr, imr, spurious>>
      /\ reenabled' = reenabled \/ HandlerReturn
      /\ isr' \subseteq isr
      /\ Top.at = "cli" \/ Top.kind = "irq"
  BY Moved DEF tables
<1>2. PICK s \in Statements :
        /\ GoTo(s)
        /\ Cli => s = "handler"
        /\ HandlerReturn => s = "slave"
        /\ EoiSlave => s = "master"
        /\ EoiMaster => s = "iret"
        /\ s # "cli" /\ (Top.kind = "exception" => Cli)
  BY Moved
<1>3. /\ stack' \in Seq(Frame) /\ DOMAIN stack' = DOMAIN stack /\ Depth' = Depth
      /\ stack'[Depth] = [Top EXCEPT !.at = s]
      /\ \A n \in DOMAIN stack : n # Depth => stack'[n] = stack[n]
  BY <1>1, <1>2, MoveFrame
<1>4. /\ Depth \in Nat /\ Depth \in DOMAIN stack /\ DOMAIN stack = 1 .. Depth
      /\ Top = stack[Depth] /\ Top \in Frame
  BY <1>1, StackTop
<1>5. stack'[Depth].kind = Top.kind /\ stack'[Depth].at = s
      /\ stack'[Depth].irq_no = Top.irq_no /\ stack'[Depth].from = Top.from
  BY <1>3, <1>4 DEF Frame
<1>6. flag' \in BOOLEAN /\ reenabled' \in BOOLEAN
  BY DEF FrameStep, Cli, HandlerCall, HandlerReturn, EoiSlave, EoiMaster, TypeOK,
     FlagAfterCli, liballoc_lock, liballoc_unlock, history
<1>7. TypeOK'
  BY <1>1, <1>3, <1>6 DEF TypeOK
<1>8. BootOrder'
  BY <1>1 DEF BootOrder, BootStages
<1>9. FramesSound'
  BY <1>2, <1>3, <1>4, <1>5 DEF FramesSound, Frame
<1>10. ClosedFrames'
  \* Where cli and the lock leave the flag.
  <2>1. CASE Cli
    <3>1. flag' = FALSE /\ reenabled' = reenabled
      BY <2>1 DEF Cli, FlagAfterCli, history
    <3>2. \A n \in DOMAIN stack : n # Depth /\ Closed(stack[n])' => Closed(stack[n])
      BY <1>3, <3>1 DEF Closed
    <3>3. \A n \in DOMAIN stack : stack'[n].kind = stack[n].kind
      BY <1>3, <1>4, <1>5
    <3>4. QED
      BY <1>1, <1>3, <1>4, <3>1, <3>2, <3>3 DEF ClosedFrames
  <2>2. CASE ~Cli
    <3>1. Top.kind = "irq"
      BY <1>2, <1>4, <2>2 DEF Frame
    <3>2. pc = "run" /\ \A n \in DOMAIN stack : n # Depth => ~Closed(stack[n])
      BY <1>4, <3>1 DEF ClosedFrames
    <3>3. \A n \in DOMAIN stack : n # Depth => ~Closed(stack[n])'
      <4>1. reenabled => reenabled'
        BY <1>1 DEF HandlerReturn
      <4>2. QED
        BY <1>3, <3>2, <4>1 DEF Closed
    <3>4. Closed(stack[Depth])' => flag' = FALSE
      <4>1. HandlerReturn => s = "slave" /\ reenabled'
        BY <1>2 DEF HandlerReturn
      <4>2. ASSUME ~HandlerReturn, Closed(stack[Depth])'
            PROVE  flag' = FALSE
        <5>1. reenabled' = reenabled /\ Top.at # "cli"
          BY <1>1, <2>2, <4>2, <3>1 DEF FrameStep, HandlerCall, EoiSlave, EoiMaster, InFrame
        <5>2. CASE HandlerCall
          <6>1. Closed(stack[Depth])
            BY <1>4, <5>2 DEF Closed, HandlerCall, InFrame
          <6>2. flag = FALSE
            BY <1>4, <6>1 DEF ClosedFrames
          <6>3. QED
            BY <5>2, <6>2 DEF HandlerCall, liballoc_lock
        <5>3. CASE EoiSlave \/ EoiMaster
          <6>1. flag' = flag /\ s \in {"master", "iret"}
            BY <1>2, <5>3 DEF EoiSlave, EoiMaster
          <6>2. ~reenabled
            BY <1>3, <1>5, <4>2, <5>1, <6>1 DEF Closed
          <6>3. Closed(stack[Depth])
            BY <1>4, <3>1, <6>2 DEF Closed
          <6>4. QED
            BY <1>4, <6>1, <6>3 DEF ClosedFrames
        <5>4. QED
          BY <2>2, <4>2, <5>2, <5>3 DEF FrameStep
      <4>3. QED
        BY <1>3, <1>5, <4>1, <4>2 DEF Closed
    <3>5. QED
      BY <1>1, <1>3, <1>4, <3>2, <3>3, <3>4 DEF ClosedFrames
  <2>3. QED
    BY <2>1, <2>2
<1>11. QED
  BY <1>7, <1>8, <1>9, <1>10

\* iret leaves the innermost frame: no frame below it is closed.
LEMMA Left ==
  ASSUME Sound, Iret
  PROVE  /\ stack # <<>> /\ Top.kind = "irq" /\ Top.at = "iret"
         /\ stack' \in Seq(Frame) /\ DOMAIN stack' = DOMAIN stack \ {Depth}
         /\ \A n \in DOMAIN stack' : stack'[n] = stack[n]
         /\ pc = "run" /\ \A n \in DOMAIN stack' : ~Closed(stack[n])
         /\ UNCHANGED <<pc, tables, pics, history>> /\ flag' \in BOOLEAN
<1>1. stack # <<>> /\ Top.kind = "irq" /\ Top.at = "iret"
      /\ UNCHANGED <<pc, tables, pics, history>> /\ flag' = Top.saved
  BY DEF Iret, InFrame
<1>2. /\ stack' \in Seq(Frame) /\ DOMAIN stack' = DOMAIN stack \ {Depth}
      /\ \A n \in DOMAIN stack' : stack'[n] = stack[n]
  BY <1>1, PopFrame DEF Iret, Sound
<1>3. /\ Depth \in Nat /\ Depth \in DOMAIN stack /\ DOMAIN stack = 1 .. Depth
      /\ Top = stack[Depth] /\ Top \in Frame
  BY <1>1, StackTop DEF Sound
<1>4. pc = "run" /\ \A n \in DOMAIN stack' : ~Closed(stack[n])
  BY <1>1, <1>2, <1>3 DEF Sound, ClosedFrames
<1>5. QED
  BY <1>1, <1>2, <1>3, <1>4 DEF Frame

LEMMA SoundIret == Sound /\ Iret => Sound'
<1> SUFFICES ASSUME Sound, Iret PROVE Sound'
  OBVIOUS
<1>1. /\ stack' \in Seq(Frame) /\ DOMAIN stack' = DOMAIN stack \ {Depth}
      /\ \A n \in DOMAIN stack' : stack'[n] = stack[n]
      /\ pc = "run" /\ \A n \in DOMAIN stack' : ~Closed(stack[n])
      /\ UNCHANGED <<pc, idt, idtr, masks, offsets, irr, isr, imr, reenabled, spurious>>
      /\ flag' \in BOOLEAN
  BY Left DEF tables, pics, history
<1>2. TypeOK'
  BY <1>1 DEF Sound, TypeOK
<1>3. BootOrder'
  BY <1>1 DEF Sound, BootOrder, BootStages
<1>4. FramesSound'
  BY <1>1 DEF Sound, FramesSound
<1>5. ClosedFrames'
  BY <1>1 DEF ClosedFrames, Closed
<1>6. QED
  BY <1>2, <1>3, <1>4, <1>5 DEF Sound

\* Every step is one of these.
LEMMA Steps ==
  Next => \/ Boot \/ ThreadOrDevice \/ Exception \/ FrameStep \/ Iret
          \/ \E l \in Lines : Interrupt(l) \/ Spurious(l)
BY DEF Next, ThreadOrDevice, FrameStep, Handler

LEMMA SoundStep == IndInv /\ Next => Sound'
<1> SUFFICES ASSUME IndInv, Next PROVE Sound'
  OBVIOUS
<1>1. Sound
  BY DEF IndInv, Sound
<1>2. QED
  BY <1>1, Steps, SoundBoot, SoundThread, SoundException, SoundFrameStep, SoundIret,
     SoundEntry

-----------------------------------------------------------------------------
(* The lines in service.                                                   *)

LEMMA OwedLines ==
  ASSUME NEW l
  PROVE  l \in Owed <=> \E n \in MasterOwing : l \in OwedBy(stack[n])
BY DEF Owed, MasterOwing

LEMMA OwedByFrame ==
  ASSUME NEW f, NEW l
  PROVE  l \in OwedBy(f) <=>
           \/ l = f.from /\ f.real /\ (f.from < 8 \/ f.at # "master")
           \/ l = CASCADE /\ f.from >= 8
BY DEF OwedBy

\* A line with an EOI to come has the frame's own line at the master, or is the
\* line of the frame at the slave.
LEMMA OwedByCases ==
  ASSUME NEW f \in Frame, NEW l \in OwedBy(f)
  PROVE  /\ l \in Line
         /\ l < 8 => l = MasterLine(f)
         /\ l >= 8 => l = f.from /\ f.real /\ f.at # "master"
BY OwedByFrame DEF Frame, Line, MasterLine, CASCADE

LEMMA MasterLineOwed ==
  ASSUME NEW f \in Frame, f.real \/ f.from >= 8
  PROVE  MasterLine(f) \in OwedBy(f) /\ MasterLine(f) \in 0 .. 7
BY OwedByFrame DEF Frame, Line, MasterLine, CASCADE

\* The frames on the stack are finite in number.
LEMMA OwingFinite ==
  ASSUME TypeOK
  PROVE  /\ IsFiniteSet(MasterOwing) /\ Cardinality(MasterOwing) \in Nat
         /\ IsFiniteSet(SlaveOwing) /\ Cardinality(SlaveOwing) \in Nat
<1>1. DOMAIN stack = 1 .. Len(stack) /\ Len(stack) \in Nat
  BY DEF TypeOK
<1>2. IsFiniteSet(DOMAIN stack)
  BY <1>1, FS_Interval
<1>3. MasterOwing \subseteq DOMAIN stack /\ SlaveOwing \subseteq DOMAIN stack
  BY DEF MasterOwing, SlaveOwing, IrqFrames
<1>4. QED
  BY <1>2, <1>3, FS_Subset, FS_CardinalityType

LEMMA ServiceFinite ==
  ASSUME TypeOK
  PROVE  /\ IsFiniteSet(Master(isr)) /\ Cardinality(Master(isr)) \in Nat
         /\ IsFiniteSet(Slave(isr)) /\ Cardinality(Slave(isr)) \in Nat
<1>1. IsFiniteSet(Line)
  <2>1. 0 \in Int /\ 15 \in Int
    OBVIOUS
  <2>2. QED
    BY <2>1, FS_Interval DEF Line
<1>2. Master(isr) \subseteq Line /\ Slave(isr) \subseteq Line
  BY DEF TypeOK, Master, Slave
<1>3. QED
  BY <1>1, <1>2, FS_Subset, FS_CardinalityType

\* What each frame owes is unchanged, and so are the lines in service.
LEMMA SameOwing ==
  ASSUME IndInv,
         isr' = isr, reenabled => reenabled', spurious => spurious',
         IrqFrames' \subseteq IrqFrames,
         MasterOwing' = MasterOwing, SlaveOwing' = SlaveOwing,
         \A n \in IrqFrames' : stack'[n].real = stack[n].real,
         \A n \in MasterOwing :
            stack'[n].from = stack[n].from /\ OwedBy(stack[n])' = OwedBy(stack[n])
  PROVE  Nested' /\ EnoughEois'
<1>1. Owed' = Owed
  BY DEF Owed, MasterOwing
<1>2. Nested'
  BY <1>1 DEF IndInv, Nested, MasterLine
<1>3. EnoughEois'
  BY DEF IndInv, EnoughEois
<1>4. QED
  BY <1>2, <1>3

LEMMA NestedQuiet ==
  ASSUME IndInv, Boot \/ ThreadOrDevice
  PROVE  Nested' /\ EnoughEois'
<1>1. UNCHANGED <<stack, reenabled, spurious>>
  BY ThreadFrames DEF Boot, ExceptionGates, Remap, RestoreMasks, LoadIdt,
     EnableInterrupts, history
<1>2. isr' = isr
  <2>1. CASE Boot
    BY <2>1 DEF Boot, ExceptionGates, Remap, RestoreMasks, LoadIdt, EnableInterrupts,
       pics, Running, IndInv, BootOrder, BootStages
  <2>2. CASE ThreadOrDevice
    BY <2>2, ThreadFrames
  <2>3. QED
    BY <2>1, <2>2
<1>3. /\ IrqFrames' = IrqFrames /\ MasterOwing' = MasterOwing
      /\ SlaveOwing' = SlaveOwing
  BY <1>1 DEF IrqFrames, MasterOwing, SlaveOwing
<1>4. \A n : OwedBy(stack[n])' = OwedBy(stack[n])
  BY <1>1 DEF OwedBy
<1>5. QED
  BY <1>1, <1>2, <1>3, <1>4, SameOwing

LEMMA NestedException ==
  ASSUME IndInv, Exception
  PROVE  Nested' /\ EnoughEois'
<1> DEFINE f == [kind |-> "exception", irq_no |-> 0, from |-> 0, at |-> "cli",
                 real |-> FALSE, saved |-> flag]
<1>1. stack' = Append(stack, f) /\ f \in Frame
  BY DEF Exception, IndInv, TypeOK, Frame, Line, Statements
<1>2. /\ DOMAIN stack = 1 .. Depth /\ DOMAIN stack' = 1 .. Depth + 1 /\ Depth \in Nat
      /\ \A n \in DOMAIN stack : stack'[n] = stack[n]
      /\ stack'[Depth + 1].kind = "exception"
  BY <1>1, PushFrame DEF IndInv
<1>3. IrqFrames' = IrqFrames
  BY <1>2 DEF IrqFrames
<1>4. \A n \in IrqFrames : stack'[n] = stack[n] /\ OwedBy(stack[n])' = OwedBy(stack[n])
  BY <1>2 DEF IrqFrames, OwedBy
<1>5. MasterOwing' = MasterOwing /\ SlaveOwing' = SlaveOwing
  BY <1>3, <1>4 DEF MasterOwing, SlaveOwing
<1>6. UNCHANGED <<isr, reenabled, spurious>> /\ MasterOwing \subseteq IrqFrames
  BY DEF Exception, pics, history, MasterOwing
<1>7. QED
  BY <1>3, <1>4, <1>5, <1>6, SameOwing

LEMMA NestedIret ==
  ASSUME IndInv, Iret
  PROVE  Nested' /\ EnoughEois'
<1>1. Sound
  BY DEF IndInv, Sound
<1>2. /\ stack # <<>> /\ Top.at = "iret" /\ DOMAIN stack' = DOMAIN stack \ {Depth}
      /\ \A n \in DOMAIN stack' : stack'[n] = stack[n]
      /\ UNCHANGED <<isr, reenabled, spurious>>
  BY <1>1, Left DEF pics, history
<1>3. stack[Depth].at = "iret"
  BY <1>2 DEF Top
<1>4. IrqFrames' = IrqFrames \ {Depth}
  BY <1>2 DEF IrqFrames
<1>5. \A n \in IrqFrames' : stack'[n] = stack[n] /\ OwedBy(stack[n])' = OwedBy(stack[n])
  BY <1>2 DEF IrqFrames, OwedBy
<1>6. MasterOwing' = MasterOwing
  BY <1>3, <1>4, <1>5 DEF MasterOwing
<1>7. SlaveOwing' = SlaveOwing
  BY <1>3, <1>4, <1>5, <1>6 DEF SlaveOwing, MasterOwing
<1>8. MasterOwing \subseteq IrqFrames'
  BY <1>3, <1>4 DEF MasterOwing
<1>9. QED
  BY <1>2, <1>4, <1>5, <1>6, <1>7, <1>8, SameOwing

\* A step in the innermost frame, up to the first EOI and without it.
LEMMA NestedBeforeEoi ==
  ASSUME IndInv,
         Cli \/ HandlerCall \/ HandlerReturn \/ (EoiSlave /\ ~ToSlave(Top.irq_no))
  PROVE  Nested' /\ EnoughEois'
<1>1. /\ stack # <<>> /\ Top.at \in {"cli", "handler", "locked", "slave"}
      /\ isr' = isr /\ (reenabled => reenabled') /\ spurious' = spurious
      /\ \E s \in {"handler", "locked", "slave", "master"} :
           GoTo(s) /\ (s = "master" => Top.irq_no < 8)
  <2>1. stack # <<>>
    BY DEF Cli, HandlerCall, HandlerReturn, EoiSlave, InFrame
  <2>2. Top.irq_no \in Int
    BY <2>1, StackTop DEF IndInv, Frame
  <2>3. QED
    BY <2>1, <2>2 DEF Cli, HandlerCall, HandlerReturn, EoiSlave, InFrame, pics, history,
       ToSlave
<1>2. PICK s \in {"handler", "locked", "slave", "master"} :
        GoTo(s) /\ (s = "master" => Top.irq_no < 8)
  BY <1>1
<1>3. /\ Depth \in DOMAIN stack /\ Top = stack[Depth] /\ Top \in Frame
      /\ Top.irq_no = Top.from
  BY <1>1, StackTop DEF IndInv, FramesSound
<1>4. /\ DOMAIN stack' = DOMAIN stack /\ stack'[Depth] = [Top EXCEPT !.at = s]
      /\ \A n \in DOMAIN stack : n # Depth => stack'[n] = stack[n]
  BY <1>1, <1>2, MoveFrame DEF IndInv, Statements
<1>5. \A n \in DOMAIN stack :
        /\ stack'[n].kind = stack[n].kind /\ stack'[n].from = stack[n].from
        /\ stack'[n].real = stack[n].real
  BY <1>3, <1>4 DEF Frame
<1>6. /\ stack'[Depth].at = s /\ stack[Depth].at \in {"cli", "handler", "locked", "slave"}
      /\ s = "master" => stack[Depth].from < 8
  BY <1>1, <1>2, <1>3, <1>4 DEF Frame
<1>7. IrqFrames' = IrqFrames /\ IrqFrames \subseteq DOMAIN stack
  BY <1>4, <1>5 DEF IrqFrames
<1>8. MasterOwing' = MasterOwing
  BY <1>4, <1>6, <1>7 DEF MasterOwing
<1>9. SlaveOwing' = SlaveOwing
  <2>1. ASSUME NEW n \in MasterOwing
        PROVE  (stack'[n].from >= 8 /\ stack'[n].at # "master")
                 <=> (stack[n].from >= 8 /\ stack[n].at # "master")
    <3>1. n \in DOMAIN stack /\ stack[n] \in Frame
      BY <1>7 DEF MasterOwing, IndInv, TypeOK
    <3>2. stack[n].from \in Int
      BY <3>1 DEF Frame, Line
    <3>3. CASE n = Depth
      BY <1>5, <1>6, <3>1, <3>2, <3>3
    <3>4. CASE n # Depth
      BY <1>4, <3>1, <3>4
    <3>5. QED
      BY <3>3, <3>4
  <2>2. QED
    BY <1>8, <2>1 DEF SlaveOwing
<1>10. ASSUME NEW n \in MasterOwing
       PROVE  OwedBy(stack[n])' = OwedBy(stack[n])
  <2>1. n \in DOMAIN stack /\ stack[n].from \in Int
    <3>1. n \in DOMAIN stack /\ stack[n] \in Frame
      BY <1>7 DEF MasterOwing, IndInv, TypeOK
    <3>2. QED
      BY <3>1 DEF Frame, Line
  <2>2. (stack'[n].from < 8 \/ stack'[n].at # "master")
          <=> (stack[n].from < 8 \/ stack[n].at # "master")
    BY <1>4, <1>5, <1>6, <2>1
  <2>3. QED
    BY <1>5, <2>1, <2>2 DEF OwedBy
<1>11. QED
  BY <1>1, <1>5, <1>7, <1>8, <1>9, <1>10, SameOwing DEF MasterOwing

-----------------------------------------------------------------------------
(* Entering a frame.                                                       *)

LEMMA EntryOwing ==
  ASSUME IndInv, NEW l \in Line, NEW r \in BOOLEAN,
         stack' = Append(stack, EntryFrame(l, r))
  PROVE  /\ Depth \in Nat /\ Depth + 1 \notin DOMAIN stack
         /\ IrqFrames' = IrqFrames \cup {Depth + 1} /\ IrqFrames \subseteq 1 .. Depth
         /\ MasterOwing' = MasterOwing \cup {Depth + 1}
         /\ SlaveOwing' = IF l >= 8 THEN SlaveOwing \cup {Depth + 1} ELSE SlaveOwing
         /\ \A n \in IrqFrames : stack'[n] = stack[n]
         /\ stack'[Depth + 1] = EntryFrame(l, r) /\ EntryFrame(l, r) \in Frame
<1>1. EntryFrame(l, r) \in Frame
  BY DEF EntryFrame, Frame, IndInv, TypeOK, Statements, Line
<1>2. /\ DOMAIN stack = 1 .. Depth /\ DOMAIN stack' = 1 .. Depth + 1 /\ Depth \in Nat
      /\ \A n \in DOMAIN stack : stack'[n] = stack[n]
      /\ stack'[Depth + 1] = EntryFrame(l, r)
  BY <1>1, PushFrame DEF IndInv
<1>3. Depth + 1 \notin DOMAIN stack
  BY <1>2
<1>4. IrqFrames' = IrqFrames \cup {Depth + 1} /\ IrqFrames \subseteq DOMAIN stack
  BY <1>2 DEF IrqFrames, EntryFrame
<1>5. MasterOwing' = MasterOwing \cup {Depth + 1}
  BY <1>2, <1>3, <1>4 DEF MasterOwing, EntryFrame
<1>6. SlaveOwing' = IF l >= 8 THEN SlaveOwing \cup {Depth + 1} ELSE SlaveOwing
  <2>1. \A n \in MasterOwing : n # Depth + 1 /\ stack'[n] = stack[n]
    BY <1>2, <1>3, <1>4 DEF MasterOwing
  <2>2. /\ stack'[Depth + 1].from = l /\ stack'[Depth + 1].at # "master"
    BY <1>2 DEF EntryFrame
  <2>3. QED
    BY <1>5, <2>1, <2>2 DEF SlaveOwing
<1>7. QED
  BY <1>1, <1>2, <1>3, <1>4, <1>5, <1>6

\* As long as no handler has used the heap a frame is entered from the thread,
\* or from an exception that has not got to its cli.
LEMMA EntryAlone ==
  ASSUME IndInv, NEW l \in Lines, Interrupt(l) \/ Spurious(l), ~reenabled
  PROVE  IrqFrames = {} /\ MasterOwing = {} /\ isr = {}
<1>1. IrqFrames = {}
  BY Answered DEF Closed, IrqFrames
<1>2. MasterOwing = {}
  BY <1>1 DEF MasterOwing
<1>3. isr = {}
  BY <1>2, OwedLines DEF IndInv, Nested
<1>4. QED
  BY <1>1, <1>2, <1>3

LEMMA OwedAfterEntry ==
  ASSUME IndInv, NEW l \in Line, NEW r \in BOOLEAN,
         stack' = Append(stack, EntryFrame(l, r))
  PROVE  Owed' = Owed \cup (IF l < 8 THEN {k \in {l} : r} ELSE {k \in {l} : r} \cup {CASCADE})
<1>1. /\ MasterOwing' = MasterOwing \cup {Depth + 1}
      /\ \A n \in MasterOwing : stack'[n] = stack[n]
      /\ stack'[Depth + 1] = EntryFrame(l, r)
  BY EntryOwing DEF MasterOwing
<1>2. \A k : k \in Owed' <=> \E n \in MasterOwing' : k \in OwedBy(stack'[n])
  BY DEF Owed, MasterOwing, OwedBy
<1>3. \A k : k \in OwedBy(EntryFrame(l, r)) <=>
               k \in IF l < 8 THEN {j \in {l} : r} ELSE {j \in {l} : r} \cup {CASCADE}
  BY OwedByFrame DEF EntryFrame, Line
<1>4. QED
  BY <1>1, <1>2, <1>3, OwedLines

\* The line that interrupts has a higher priority than those it interrupts.
LEMMA EntryHigher ==
  ASSUME IndInv, NEW l \in Lines, Interrupt(l), ~spurious,
         NEW n \in MasterOwing
  PROVE  (IF l < 8 THEN l ELSE CASCADE) < MasterLine(stack[n])
<1> DEFINE f == stack[n]
<1>1. n \in IrqFrames /\ f \in Frame
  BY DEF MasterOwing, IrqFrames, IndInv, TypeOK
<1>2. f.real /\ isr = Owed
  BY <1>1 DEF IndInv, Nested
<1>3. MasterLine(f) \in isr /\ MasterLine(f) \in 0 .. 7
  BY <1>1, <1>2, MasterLineOwed, OwedLines
<1>4. ~HeldBack(l) /\ l \in Line
  BY Answered
<1>5. QED
  BY <1>3, <1>4 DEF HeldBack, Line, CASCADE

LEMMA NestedEntry ==
  ASSUME IndInv, NEW l \in Lines, Interrupt(l) \/ Spurious(l)
  PROVE  Nested'
<1>1. l \in Line
  BY LinesAssumption
<1>2. CASE Interrupt(l)
  <2>1. /\ stack' = Append(stack, EntryFrame(l, TRUE))
        /\ isr' = isr \cup (IF l < 8 THEN {l} ELSE {CASCADE, l})
        /\ UNCHANGED <<reenabled, spurious>>
    <3>1. pc = "run"
      BY Answered
    <3>2. QED
      BY <1>1, <1>2, <3>1, Entered DEF IndInv, Interrupt, history
  <2>2. SUFFICES ASSUME ~(reenabled /\ spurious)
                 PROVE  Nested'
    BY <2>1 DEF Nested
  <2>3. /\ Depth \in Nat /\ IrqFrames \subseteq 1 .. Depth
        /\ IrqFrames' = IrqFrames \cup {Depth + 1}
        /\ MasterOwing' = MasterOwing \cup {Depth + 1} /\ MasterOwing \subseteq IrqFrames
        /\ \A n \in IrqFrames : stack'[n] = stack[n]
        /\ stack'[Depth + 1] = EntryFrame(l, TRUE)
    BY <1>1, <2>1, EntryOwing DEF MasterOwing
  <2>4. isr' = Owed'
    BY <1>1, <2>1, <2>2, OwedAfterEntry DEF IndInv, Nested
  <2>5. \A n \in MasterOwing : MasterLine(EntryFrame(l, TRUE)) < MasterLine(stack[n])
    <3>1. CASE ~reenabled
      BY <1>2, <3>1, EntryAlone
    <3>2. CASE reenabled
      BY <1>2, <2>2, <3>2, EntryHigher DEF MasterLine, EntryFrame
    <3>3. QED
      BY <3>1, <3>2
  <2>6. \A n, m \in MasterOwing' :
          n < m => MasterLine(stack'[m]) < MasterLine(stack'[n])
    <3>1. \A n, m \in MasterOwing : n < m => MasterLine(stack[m]) < MasterLine(stack[n])
      BY <2>2 DEF IndInv, Nested
    <3>2. \A n \in MasterOwing : n < Depth + 1 /\ n \in Nat
      <4> TAKE n \in MasterOwing
      <4>1. n \in IrqFrames /\ IrqFrames \subseteq 1 .. Depth /\ Depth \in Nat
        BY <2>3
      <4>2. n \in 1 .. Depth
        BY <4>1
      <4>3. QED
        BY <4>1, <4>2
    <3>3. ASSUME NEW n \in MasterOwing', NEW m \in MasterOwing', n < m
          PROVE  MasterLine(stack'[m]) < MasterLine(stack'[n])
      <4>1. n \in MasterOwing
        <5>1. m \in MasterOwing \cup {Depth + 1} /\ n \in MasterOwing \cup {Depth + 1}
          BY <2>3
        <5>2. m \in Nat /\ m <= Depth + 1 /\ Depth \in Nat
          BY <2>3, <3>2, <5>1
        <5>3. n # Depth + 1
          BY <3>3, <5>2
        <5>4. QED
          BY <5>1, <5>3
      <4>2. stack'[n] = stack[n]
        BY <2>3, <4>1
      <4>3. CASE m = Depth + 1
        <5>1. stack'[m] = EntryFrame(l, TRUE)
          BY <2>3, <4>3
        <5>2. QED
          BY <2>5, <4>1, <4>2, <5>1
      <4>4. CASE m # Depth + 1
        <5>1. m \in MasterOwing /\ stack'[m] = stack[m]
          BY <2>3, <4>4
        <5>2. QED
          BY <3>1, <3>3, <4>1, <4>2, <5>1
      <4>5. QED
        BY <4>3, <4>4
    <3>4. QED
      BY <3>3
  <2>7. ~spurious => \A n \in IrqFrames' : stack'[n].real
    BY <2>3 DEF IndInv, Nested, EntryFrame
  <2>8. QED
    BY <2>1, <2>4, <2>6, <2>7 DEF Nested, MasterLine
<1>3. CASE Spurious(l)
  <2> DEFINE k == IF l < 8 THEN 7 ELSE 15
  <2>1. /\ stack' = Append(stack, EntryFrame(k, FALSE)) /\ k \in Line
        /\ isr' = isr \cup (IF l < 8 THEN {} ELSE {CASCADE})
        /\ reenabled' = reenabled /\ spurious'
    <3>1. pc = "run"
      BY Answered
    <3>2. k \in Line
      BY DEF Line
    <3>3. Enter(k, FALSE) /\ spurious' = TRUE /\ reenabled' = reenabled
          /\ isr' = isr \cup (IF l < 8 THEN {} ELSE {CASCADE})
      BY <1>3 DEF Spurious
    <3>4. QED
      BY <3>1, <3>2, <3>3, Entered DEF IndInv
  <2>2. SUFFICES ASSUME ~reenabled
                 PROVE  Nested'
    BY <2>1 DEF Nested
  <2>3. MasterOwing = {} /\ isr = {} /\ Owed = {}
    <3>1. IrqFrames = {} /\ MasterOwing = {} /\ isr = {}
      BY <1>3, <2>2, EntryAlone
    <3>2. QED
      BY <3>1, OwedLines
  <2>4. MasterOwing' = {Depth + 1} /\ Depth \in Nat
    BY <2>1, <2>3, EntryOwing
  <2>5. isr' = Owed'
    <3>1. Owed' = Owed \cup (IF k < 8 THEN {j \in {k} : FALSE}
                             ELSE {j \in {k} : FALSE} \cup {CASCADE})
      BY <2>1, OwedAfterEntry
    <3>2. k < 8 <=> l < 8
      OBVIOUS
    <3>3. {j \in {k} : FALSE} = {}
      OBVIOUS
    <3> HIDE DEF k
    <3>4. QED
      BY <2>1, <2>3, <3>1, <3>2, <3>3
  <2>6. \A n, m \in MasterOwing' : ~(n < m)
    BY <2>4
  <2>7. QED
    BY <2>1, <2>5, <2>6 DEF Nested
<1>4. QED
  BY <1>2, <1>3

\* Adding to both sets keeps the first no larger than the second.
LEMMA BothGrow ==
  ASSUME NEW A, NEW B, IsFiniteSet(A), IsFiniteSet(B),
         Cardinality(A) <= Cardinality(B), NEW a, NEW b, b \notin B
  PROVE  /\ Cardinality(A \cup {a}) <= Cardinality(B \cup {b})
         /\ Cardinality(A) <= Cardinality(B \cup {b})
<1>1. Cardinality(A) \in Nat /\ Cardinality(B) \in Nat
  BY FS_CardinalityType
<1>2. Cardinality(B \cup {b}) = Cardinality(B) + 1
  BY FS_AddElement
<1>3. Cardinality(A \cup {a}) = Cardinality(A) \/ Cardinality(A \cup {a}) = Cardinality(A) + 1
  BY FS_AddElement
<1>4. QED
  BY <1>1, <1>2, <1>3

LEMMA EoisEntry ==
  ASSUME IndInv, NEW l \in Lines, Interrupt(l) \/ Spurious(l)
  PROVE  EnoughEois'
<1>1. l \in Line /\ pc = "run"
  BY Answered
<1>2. PICK k \in Line, r \in BOOLEAN :
        /\ stack' = Append(stack, EntryFrame(k, r))
        /\ l < 8 <=> k < 8
        /\ \/ isr' = isr \cup (IF l < 8 THEN {l} ELSE {CASCADE, l})
           \/ isr' = isr \cup (IF l < 8 THEN {} ELSE {CASCADE})
  <2>1. CASE Interrupt(l)
    BY <1>1, <2>1, Entered DEF IndInv, Interrupt
  <2>2. CASE Spurious(l)
    <3>1. (IF l < 8 THEN 7 ELSE 15) \in Line /\ (l < 8 <=> (IF l < 8 THEN 7 ELSE 15) < 8)
      BY DEF Line
    <3>2. stack' = Append(stack, EntryFrame(IF l < 8 THEN 7 ELSE 15, FALSE))
      BY <1>1, <2>2, <3>1, Entered DEF IndInv, Spurious
    <3>3. QED
      BY <2>2, <3>1, <3>2 DEF Spurious
  <2>3. QED
    BY <2>1, <2>2
<1>3. /\ MasterOwing' = MasterOwing \cup {Depth + 1}
      /\ SlaveOwing' = IF k >= 8 THEN SlaveOwing \cup {Depth + 1} ELSE SlaveOwing
      /\ Depth + 1 \notin MasterOwing /\ Depth + 1 \notin SlaveOwing
  BY <1>2, EntryOwing DEF MasterOwing, SlaveOwing, IrqFrames
<1>4. /\ Cardinality(Master(isr)) <= Cardinality(MasterOwing)
      /\ Cardinality(Slave(isr)) <= Cardinality(SlaveOwing)
  BY DEF IndInv, EnoughEois
<1>5. /\ IsFiniteSet(MasterOwing) /\ IsFiniteSet(SlaveOwing)
      /\ IsFiniteSet(Master(isr)) /\ IsFiniteSet(Slave(isr))
  BY OwingFinite, ServiceFinite DEF IndInv
<1>6. \/ Master(isr') = Master(isr)
      \/ \E a : Master(isr') = Master(isr) \cup {a}
  <2>1. CASE l < 8
    <3>1. Master(isr') = Master(isr) \cup {l} \/ Master(isr') = Master(isr)
      BY <1>1, <1>2, <2>1 DEF Master, Line
    <3>2. QED
      BY <3>1
  <2>2. CASE ~(l < 8)
    <3>1. Master(isr') = Master(isr) \cup {CASCADE}
      BY <1>1, <1>2, <2>2 DEF Master, Line, CASCADE
    <3>2. QED
      BY <3>1
  <2>3. QED
    BY <2>1, <2>2
<1>7. Cardinality(Master(isr')) <= Cardinality(MasterOwing')
  BY <1>3, <1>4, <1>5, <1>6, BothGrow
<1>8. Cardinality(Slave(isr')) <= Cardinality(SlaveOwing')
  <2>1. CASE l < 8
    <3>1. Slave(isr') = Slave(isr) /\ SlaveOwing' = SlaveOwing
      BY <1>1, <1>2, <1>3, <2>1 DEF Slave, Line
    <3>2. QED
      BY <1>4, <3>1
  <2>2. CASE ~(l < 8)
    <3>1. SlaveOwing' = SlaveOwing \cup {Depth + 1}
      BY <1>1, <1>2, <1>3, <2>2 DEF Line
    <3>2. Slave(isr') = Slave(isr) \cup {l} \/ Slave(isr') = Slave(isr)
      BY <1>1, <1>2, <2>2 DEF Slave, Line, CASCADE
    <3>3. QED
      BY <1>3, <1>4, <1>5, <3>1, <3>2, BothGrow
  <2>3. QED
    BY <2>1, <2>2
<1>9. QED
  BY <1>7, <1>8 DEF EnoughEois, Master, Slave

-----------------------------------------------------------------------------
(* The ends of interrupts.                                                 *)

\* The line that an unspecific EOI ends, of the lines in service.
LEMMA HighestExists ==
  ASSUME NEW A, A \subseteq Line, A # {}
  PROVE  \E h \in A : \A k \in A : h <= k
<1> USE DEF Line
<1> SUFFICES ASSUME \A h \in A : \E k \in A : k < h
             PROVE  FALSE
  OBVIOUS
<1>1. A \cap 0 .. 7 = {}
  OBVIOUS
<1>2. A \cap 8 .. 15 = {}
  BY <1>1
<1>3. PICK h \in A : TRUE
  OBVIOUS
<1>4. h \in 0 .. 7 \/ h \in 8 .. 15
  OBVIOUS
<1>5. QED
  BY <1>1, <1>2, <1>4

LEMMA EndedHighest ==
  ASSUME NEW A, A \subseteq Line, NEW h \in A, \A k \in A : h <= k
  PROVE  Ended(A) = {h}
<1>1. h \in Ended(A)
  BY DEF Ended
<1>2. ASSUME NEW k \in Ended(A)
      PROVE  k = h
  <2>1. k \in A /\ k <= h /\ h <= k
    BY <1>2 DEF Ended
  <2>2. k \in Int /\ h \in Int
    BY <2>1 DEF Line
  <2>3. QED
    BY <2>1, <2>2
<1>3. QED
  BY <1>1, <1>2

LEMMA EndedNone == Ended({}) = {}
BY DEF Ended

\* An EOI leaves one line less, if there is one.
LEMMA BothShrink ==
  ASSUME NEW A, A \subseteq Line, IsFiniteSet(A), NEW B, IsFiniteSet(B),
         Cardinality(A) <= Cardinality(B), NEW b \in B
  PROVE  Cardinality(A \ Ended(A)) <= Cardinality(B \ {b})
<1>1. Cardinality(A) \in Nat /\ Cardinality(B) \in Nat
      /\ IsFiniteSet(B \ {b}) /\ Cardinality(B \ {b}) = Cardinality(B) - 1
      /\ Cardinality(B \ {b}) \in Nat
  BY FS_CardinalityType, FS_RemoveElement
<1>2. CASE A = {}
  BY <1>1, <1>2, FS_EmptySet
<1>3. CASE A # {}
  <2>1. PICK h \in A : \A k \in A : h <= k
    BY <1>3, HighestExists
  <2>2. A \ Ended(A) = A \ {h}
    BY <2>1, EndedHighest
  <2>3. Cardinality(A \ {h}) = Cardinality(A) - 1
    BY <2>1, FS_RemoveElement
  <2>4. QED
    BY <1>1, <2>2, <2>3
<1>4. QED
  BY <1>2, <1>3

\* The innermost frame at its first EOI, for a line of the slave.
LEMMA AtSlave ==
  ASSUME IndInv, EoiSlave, ToSlave(Top.irq_no)
  PROVE  /\ Depth \in IrqFrames /\ Depth \in SlaveOwing /\ Top = stack[Depth]
         /\ Top.from \in 8 .. 15 /\ Top.at = "slave" /\ Top \in Frame
         /\ IrqFrames' = IrqFrames /\ MasterOwing' = MasterOwing
         /\ SlaveOwing' = SlaveOwing \ {Depth}
         /\ \A n \in IrqFrames : n # Depth => n < Depth /\ stack'[n] = stack[n]
         /\ stack'[Depth] = [Top EXCEPT !.at = "master"]
         /\ isr' = isr \ Ended(Slave(isr))
         /\ UNCHANGED <<reenabled, spurious>>
<1>1. /\ stack # <<>> /\ Top.kind = "irq" /\ Top.at = "slave" /\ GoTo("master")
      /\ isr' = isr \ Ended(Slave(isr)) /\ UNCHANGED <<reenabled, spurious>>
  BY DEF EoiSlave, InFrame, history
<1>2. /\ Depth \in Nat /\ Depth \in DOMAIN stack /\ DOMAIN stack = 1 .. Depth
      /\ Top = stack[Depth] /\ Top \in Frame /\ Top.irq_no = Top.from
  BY <1>1, StackTop DEF IndInv, FramesSound
<1>3. Top.from \in 8 .. 15
  BY <1>2 DEF ToSlave, Frame, Line
<1>4. /\ DOMAIN stack' = DOMAIN stack
      /\ stack'[Depth] = [Top EXCEPT !.at = "master"]
      /\ \A n \in DOMAIN stack : n # Depth => stack'[n] = stack[n]
  BY <1>1, MoveFrame DEF IndInv, Statements
<1>5. stack'[Depth].kind = "irq" /\ stack'[Depth].at = "master"
      /\ stack'[Depth].from = Top.from
  BY <1>1, <1>2, <1>4 DEF Frame
<1>6. Depth \in IrqFrames /\ IrqFrames' = IrqFrames
  <2>1. \A n \in DOMAIN stack : stack'[n].kind = stack[n].kind
    BY <1>1, <1>2, <1>4, <1>5
  <2>2. QED
    BY <1>1, <1>2, <1>4, <2>1 DEF IrqFrames
<1>7. Depth \in MasterOwing /\ MasterOwing' = MasterOwing
  <2>1. stack[Depth].at # "iret" /\ stack'[Depth].at # "iret"
    BY <1>1, <1>2, <1>5
  <2>2. \A n \in IrqFrames : n # Depth => stack'[n] = stack[n]
    BY <1>4 DEF IrqFrames
  <2>3. QED
    BY <1>6, <2>1, <2>2 DEF MasterOwing
<1>8. Depth \in SlaveOwing /\ SlaveOwing' = SlaveOwing \ {Depth}
  <2>1. Depth \in SlaveOwing
    BY <1>1, <1>2, <1>3, <1>7 DEF SlaveOwing
  <2>2. \A n \in MasterOwing : n # Depth => stack'[n] = stack[n]
    BY <1>4 DEF MasterOwing, IrqFrames
  <2>3. QED
    BY <1>5, <1>7, <2>1, <2>2 DEF SlaveOwing
<1>9. \A n \in IrqFrames : n # Depth => n < Depth /\ stack'[n] = stack[n]
  BY <1>2, <1>4 DEF IrqFrames
<1>10. QED
  BY <1>1, <1>2, <1>3, <1>4, <1>6, <1>7, <1>8, <1>9

\* Of frames in the order of Nested no other one has a line at the slave.
LEMMA OnlySlave ==
  ASSUME IndInv, EoiSlave, ToSlave(Top.irq_no), ~(reenabled /\ spurious),
         NEW n \in MasterOwing, n # Depth
  PROVE  stack[n].from < 8 /\ stack[n] \in Frame
<1>1. n \in IrqFrames /\ n \in DOMAIN stack /\ stack[n] \in Frame
  BY DEF MasterOwing, IrqFrames, IndInv, TypeOK
<1>2. Depth \in MasterOwing /\ n < Depth /\ MasterLine(stack[Depth]) = CASCADE
  BY <1>1, AtSlave DEF SlaveOwing, MasterLine
<1>3. CASCADE < MasterLine(stack[n])
  BY <1>2 DEF IndInv, Nested
<1>4. QED
  BY <1>1, <1>3 DEF MasterLine, CASCADE, Frame, Line

LEMMA EoiAtSlave ==
  ASSUME IndInv, EoiSlave, ToSlave(Top.irq_no)
  PROVE  Nested' /\ EnoughEois'
<1>1. /\ Depth \in IrqFrames /\ Depth \in SlaveOwing /\ Top = stack[Depth]
      /\ Top.from \in 8 .. 15 /\ Top.at = "slave" /\ Top \in Frame
      /\ IrqFrames' = IrqFrames /\ MasterOwing' = MasterOwing
      /\ SlaveOwing' = SlaveOwing \ {Depth}
      /\ \A n \in IrqFrames : n # Depth => n < Depth /\ stack'[n] = stack[n]
      /\ stack'[Depth] = [Top EXCEPT !.at = "master"]
      /\ isr' = isr \ Ended(Slave(isr))
      /\ UNCHANGED <<reenabled, spurious>>
  BY AtSlave
<1>2. Slave(isr) \subseteq Line /\ Ended(Slave(isr)) \subseteq Slave(isr)
  BY DEF Slave, Line, Ended
<1>3. Slave(isr') = Slave(isr) \ Ended(Slave(isr)) /\ Master(isr') = Master(isr)
  BY <1>1, <1>2 DEF Slave, Master
<1>4. EnoughEois'
  <2>1. Cardinality(Slave(isr')) <= Cardinality(SlaveOwing')
    BY <1>1, <1>2, <1>3, BothShrink, OwingFinite, ServiceFinite DEF IndInv, EnoughEois
  <2>2. Cardinality(Master(isr')) <= Cardinality(MasterOwing')
    BY <1>1, <1>3 DEF IndInv, EnoughEois
  <2>3. QED
    BY <2>1, <2>2 DEF EnoughEois, Master, Slave
<1>5. \A n \in IrqFrames : /\ stack'[n].real = stack[n].real
                           /\ MasterLine(stack'[n]) = MasterLine(stack[n])
  BY <1>1 DEF Frame, MasterLine
<1>6. Nested'
  <2>1. SUFFICES ASSUME ~(reenabled /\ spurious)
                 PROVE  isr' = Owed'
    BY <1>1, <1>5 DEF IndInv, Nested, MasterOwing, MasterLine
  <2>2. isr = Owed
    BY <2>1 DEF IndInv, Nested
  <2>3. \A n \in MasterOwing : n # Depth => stack[n].from < 8 /\ stack[n] \in Frame
    BY <2>1, OnlySlave
  <2>4. \A l : l \in Owed' <=> \E n \in MasterOwing : l \in OwedBy(stack'[n])
    BY <1>1 DEF Owed, MasterOwing, OwedBy
  <2>5. Depth \in MasterOwing /\ stack'[Depth].from = Top.from
        /\ stack'[Depth].at = "master"
    BY <1>1 DEF SlaveOwing, Frame
  <2>6. \A n \in MasterOwing : n # Depth => stack'[n] = stack[n]
    BY <1>1 DEF MasterOwing
  <2>7. Slave(isr) = {l \in {Top.from} : Top.real}
    <3>1. ASSUME NEW l \in Slave(isr)
          PROVE  l = Top.from /\ Top.real
      <4>1. PICK n \in MasterOwing : l \in OwedBy(stack[n])
        BY <2>2, OwedLines DEF Slave
      <4>2. l >= 8 /\ l \in Int
        BY DEF Slave
      <4>3. n = Depth
        BY <2>3, <4>1, <4>2, OwedByCases
      <4>4. QED
        BY <1>1, <4>1, <4>2, <4>3, OwedByCases
    <3>2. ASSUME Top.real
          PROVE  Top.from \in Slave(isr)
      BY <1>1, <2>2, <2>5, <3>2, OwedLines, OwedByFrame DEF Slave
    <3>3. QED
      BY <3>1, <3>2
  <2>8. Ended(Slave(isr)) = Slave(isr)
    <3>1. \A h, k \in Slave(isr) : h = k /\ h \in Int
      BY <1>1, <2>7
    <3>2. QED
      BY <3>1 DEF Ended
  <2>9. ASSUME NEW l
        PROVE  l \in Owed' <=> l \in Owed /\ l \notin Slave(isr)
    <3>1. ASSUME NEW n \in MasterOwing, n # Depth, l \in OwedBy(stack[n])
          PROVE  l \in Line /\ l < 8
      <4>1. stack[n].from < 8 /\ stack[n] \in Frame
        BY <2>3, <3>1
      <4>2. l \in Line /\ (l >= 8 => l = stack[n].from)
        BY <3>1, <4>1, OwedByCases
      <4>3. QED
        BY <4>1, <4>2 DEF Line
    <3>2. l \in OwedBy(stack'[Depth]) <=> l = CASCADE
      <4>1. Top.from >= 8 /\ ~(Top.from < 8)
        BY <1>1
      <4>2. QED
        BY <2>5, <4>1, OwedByFrame
    <3>3. l \in OwedBy(stack[Depth]) <=> l = CASCADE \/ l \in Slave(isr)
      BY <1>1, <2>7, OwedByFrame
    <3>4. CASCADE \notin Slave(isr) /\ (l \in Slave(isr) => l >= 8)
      BY DEF Slave, CASCADE
    <3>5. QED
      BY <2>4, <2>5, <2>6, <3>1, <3>2, <3>3, <3>4, OwedLines DEF Line
  <2>10. QED
    BY <1>1, <2>2, <2>8, <2>9
<1>7. QED
  BY <1>4, <1>6

\* The innermost frame at its second EOI, which every frame has.
LEMMA AtMaster ==
  ASSUME IndInv, EoiMaster
  PROVE  /\ Depth \in MasterOwing /\ Top = stack[Depth] /\ Top.at = "master"
         /\ Top \in Frame
         /\ IrqFrames' = IrqFrames /\ MasterOwing' = MasterOwing \ {Depth}
         /\ SlaveOwing' = SlaveOwing
         /\ \A n \in IrqFrames : n # Depth => n < Depth /\ stack'[n] = stack[n]
         /\ stack'[Depth].real = Top.real
         /\ isr' = isr \ Ended(Master(isr))
         /\ UNCHANGED <<reenabled, spurious>>
<1>1. /\ stack # <<>> /\ Top.kind = "irq" /\ Top.at = "master" /\ GoTo("iret")
      /\ isr' = isr \ Ended(Master(isr)) /\ UNCHANGED <<reenabled, spurious>>
  BY DEF EoiMaster, InFrame, history, ToMaster
<1>2. /\ Depth \in Nat /\ Depth \in DOMAIN stack /\ DOMAIN stack = 1 .. Depth
      /\ Top = stack[Depth] /\ Top \in Frame
  BY <1>1, StackTop DEF IndInv
<1>3. /\ DOMAIN stack' = DOMAIN stack
      /\ stack'[Depth] = [Top EXCEPT !.at = "iret"]
      /\ \A n \in DOMAIN stack : n # Depth => stack'[n] = stack[n]
  BY <1>1, MoveFrame DEF IndInv, Statements
<1>4. stack'[Depth].kind = "irq" /\ stack'[Depth].at = "iret"
      /\ stack'[Depth].real = Top.real
  BY <1>1, <1>2, <1>3 DEF Frame
<1>5. Depth \in IrqFrames /\ IrqFrames' = IrqFrames
  <2>1. \A n \in DOMAIN stack : stack'[n].kind = stack[n].kind
    BY <1>1, <1>2, <1>3, <1>4
  <2>2. QED
    BY <1>1, <1>2, <1>3, <2>1 DEF IrqFrames
<1>6. \A n \in IrqFrames : n # Depth => n < Depth /\ stack'[n] = stack[n]
  BY <1>2, <1>3 DEF IrqFrames
<1>7. Depth \in MasterOwing /\ MasterOwing' = MasterOwing \ {Depth}
  BY <1>1, <1>2, <1>4, <1>5, <1>6 DEF MasterOwing
<1>8. SlaveOwing' = SlaveOwing
  <2>1. Depth \notin SlaveOwing
    BY <1>1, <1>2 DEF SlaveOwing
  <2>2. \A n \in MasterOwing : n # Depth => stack'[n] = stack[n]
    BY <1>6 DEF MasterOwing
  <2>3. QED
    BY <1>7, <2>1, <2>2 DEF SlaveOwing
<1>9. QED
  BY <1>1, <1>2, <1>4, <1>5, <1>6, <1>7, <1>8

\* Without the heap's unlock no frame is below another one.
LEMMA OnlyFrame ==
  ASSUME IndInv, ~reenabled, NEW n \in IrqFrames, NEW m \in IrqFrames
  PROVE  n = m
<1>1. /\ n \in DOMAIN stack /\ Closed(stack[n]) /\ stack[n].kind = "irq"
      /\ m \in DOMAIN stack /\ Closed(stack[m]) /\ stack[m].kind = "irq"
  BY DEF IrqFrames, Closed
<1>2. n \in Int /\ m \in Int
  <2>1. DOMAIN stack = 1 .. Len(stack)
    BY DEF IndInv, TypeOK
  <2>2. QED
    BY <1>1, <2>1
<1>3. ~(n < m) /\ ~(m < n)
  BY <1>1 DEF IndInv, ClosedFrames
<1>4. QED
  BY <1>2, <1>3

LEMMA EoiAtMaster ==
  ASSUME IndInv, EoiMaster
  PROVE  Nested' /\ EnoughEois'
<1>1. /\ Depth \in MasterOwing /\ Top = stack[Depth] /\ Top.at = "master"
      /\ Top \in Frame
      /\ IrqFrames' = IrqFrames /\ MasterOwing' = MasterOwing \ {Depth}
      /\ SlaveOwing' = SlaveOwing
      /\ \A n \in IrqFrames : n # Depth => n < Depth /\ stack'[n] = stack[n]
      /\ stack'[Depth].real = Top.real
      /\ isr' = isr \ Ended(Master(isr))
      /\ UNCHANGED <<reenabled, spurious>>
  BY AtMaster
<1>2. Master(isr) \subseteq Line /\ Ended(Master(isr)) \subseteq Master(isr)
  BY DEF Master, Line, Ended
<1>3. Master(isr') = Master(isr) \ Ended(Master(isr)) /\ Slave(isr') = Slave(isr)
  BY <1>1, <1>2 DEF Slave, Master
<1>4. EnoughEois'
  <2>1. Cardinality(Master(isr')) <= Cardinality(MasterOwing')
    BY <1>1, <1>2, <1>3, BothShrink, OwingFinite, ServiceFinite DEF IndInv, EnoughEois
  <2>2. Cardinality(Slave(isr')) <= Cardinality(SlaveOwing')
    BY <1>1, <1>3 DEF IndInv, EnoughEois
  <2>3. QED
    BY <2>1, <2>2 DEF EnoughEois, Master, Slave
<1>5. \A n \in MasterOwing' : n \in MasterOwing /\ n # Depth /\ n < Depth
                            /\ stack'[n] = stack[n] /\ stack[n] \in Frame
  <2> SUFFICES ASSUME NEW n \in MasterOwing'
               PROVE  /\ n \in MasterOwing /\ n # Depth /\ n < Depth
                      /\ stack'[n] = stack[n] /\ stack[n] \in Frame
    OBVIOUS
  <2>1. n \in MasterOwing /\ n # Depth
    BY <1>1
  <2>2. n \in IrqFrames /\ n \in DOMAIN stack
    BY <2>1 DEF MasterOwing, IrqFrames
  <2>3. stack[n] \in Frame
    BY <2>2 DEF IndInv, TypeOK
  <2>4. QED
    BY <1>1, <2>1, <2>2, <2>3
<1>6. \A n \in IrqFrames : stack'[n].real = stack[n].real
  BY <1>1
<1>7. Nested'
  <2>1. SUFFICES ASSUME ~(reenabled /\ spurious)
                 PROVE  isr' = Owed'
    BY <1>1, <1>5, <1>6 DEF IndInv, Nested, MasterLine
  <2>2. isr = Owed
    BY <2>1 DEF IndInv, Nested
  <2>3. \A l : l \in Owed' <=> \E n \in MasterOwing' : l \in OwedBy(stack[n])
    <3>1. \A l : l \in Owed' <=> \E n \in MasterOwing' : l \in OwedBy(stack'[n])
      BY DEF Owed, MasterOwing, OwedBy
    <3>2. QED
      BY <1>5, <3>1
  <2> DEFINE h == MasterLine(Top)
  <2>4. CASE Top.real \/ Top.from >= 8
    <3>1. h \in Master(isr) /\ h \in 0 .. 7
      BY <1>1, <2>2, <2>4, MasterLineOwed, OwedLines DEF Master
    <3>2. ASSUME NEW n \in MasterOwing', NEW l \in OwedBy(stack[n])
          PROVE  l \in Line /\ (l < 8 => h < l)
      <4>1. stack[n] \in Frame /\ n \in MasterOwing /\ n < Depth
        BY <1>5
      <4>2. h < MasterLine(stack[n])
        BY <1>1, <2>1, <4>1 DEF IndInv, Nested
      <4>3. QED
        BY <4>1, <4>2, OwedByCases
    <3>3. \A l : l \in OwedBy(Top) <=> l = h
      <4>1. Top.from \in Line
        BY <1>1 DEF Frame
      <4>2. QED
        BY <1>1, <2>4, <4>1, OwedByFrame DEF MasterLine, Line
    <3>4. \A l : l \in Owed <=> l = h \/ l \in Owed'
      BY <1>1, <2>3, <3>3, OwedLines
    <3>5. \A l \in Owed' : l \in Line /\ (l < 8 => h < l)
      BY <2>3, <3>2
    <3>6. \A k \in Master(isr) : h <= k
      BY <2>2, <3>1, <3>4, <3>5 DEF Master, Line
    <3>7. Ended(Master(isr)) = {h}
      BY <1>2, <3>1, <3>6, EndedHighest
    <3>8. h \notin Owed'
      BY <3>1, <3>5
    <3>9. QED
      BY <1>1, <2>2, <3>4, <3>7, <3>8
  <2>5. CASE ~(Top.real \/ Top.from >= 8)
    <3>1. Depth \in IrqFrames /\ ~stack[Depth].real
      BY <1>1, <2>5 DEF MasterOwing
    <3>2. ~reenabled
      BY <2>1, <3>1 DEF IndInv, Nested
    <3>3. MasterOwing' = {}
      BY <1>5, <3>1, <3>2, OnlyFrame DEF MasterOwing
    <3>4. \A l : l \notin OwedBy(Top)
      BY <2>5, OwedByFrame
    <3>5. Owed = {} /\ Owed' = {}
      BY <1>1, <2>3, <3>3, <3>4, OwedLines
    <3>6. QED
      BY <1>1, <2>2, <3>5
  <2>6. QED
    BY <2>4, <2>5
<1>8. QED
  BY <1>4, <1>7

-----------------------------------------------------------------------------
(* The invariant of the specification.                                     *)

LEMMA IndInit == Init => IndInv
<1> SUFFICES ASSUME Init PROVE IndInv
  OBVIOUS
<1>1. Sound
  BY SoundInit
<1>2. IrqFrames = {} /\ MasterOwing = {} /\ SlaveOwing = {}
  BY DEF Init, IrqFrames, MasterOwing, SlaveOwing
<1>3. Nested
  BY <1>2, OwedLines DEF Init, Nested
<1>4. Master(isr) = {} /\ Slave(isr) = {}
  BY DEF Init, Master, Slave
<1>5. EnoughEois
  BY <1>2, <1>4, FS_EmptySet DEF EnoughEois
<1>6. QED
  BY <1>1, <1>3, <1>5 DEF IndInv, Sound

LEMMA IndStep == IndInv /\ Next => IndInv'
<1> SUFFICES ASSUME IndInv, Next PROVE IndInv'
  OBVIOUS
<1>1. Sound'
  BY SoundStep
<1>2. Nested' /\ EnoughEois'
  BY Steps, NestedQuiet, NestedException, NestedIret, NestedBeforeEoi, EoiAtSlave,
     EoiAtMaster, NestedEntry, EoisEntry DEF FrameStep
<1>3. QED
  BY <1>1, <1>2 DEF IndInv, Sound

LEMMA IndStutter == IndInv /\ UNCHANGED vars => IndInv'
<1> SUFFICES ASSUME IndInv, UNCHANGED vars PROVE IndInv'
  OBVIOUS
<1>1. UNCHANGED <<pc, flag, stack, idt, idtr, masks, offsets, irr, isr, imr, reenabled,
                  spurious>>
  BY DEF vars, thread, tables, pics, history
<1>2. TypeOK' /\ BootOrder' /\ FramesSound'
  <2>1. TypeOK'
    BY <1>1 DEF IndInv, TypeOK
  <2>2. BootOrder'
    BY <1>1 DEF IndInv, BootOrder
  <2>3. FramesSound'
    BY <1>1 DEF IndInv, FramesSound
  <2>4. QED
    BY <2>1, <2>2, <2>3
<1>3. ClosedFrames'
  BY <1>1 DEF IndInv, ClosedFrames, Closed
<1>4. IrqFrames' = IrqFrames /\ MasterOwing' = MasterOwing /\ SlaveOwing' = SlaveOwing
  BY <1>1 DEF IrqFrames, MasterOwing, SlaveOwing
<1>5. \A n : OwedBy(stack[n])' = OwedBy(stack[n])
  BY <1>1 DEF OwedBy
<1>6. Nested' /\ EnoughEois'
  BY <1>1, <1>4, <1>5, SameOwing
<1>7. QED
  BY <1>2, <1>3, <1>6 DEF IndInv

\* The invariant behind all that follows: the order of the boot, which contexts
\* can be interrupted, and what the EOIs still have to end.
THEOREM SpecIndInv == Spec => []IndInv
BY IndInit, IndStep, IndStutter, PTL DEF Spec

-----------------------------------------------------------------------------
(* What follows from it.                                                   *)

\* Every interrupt, on any machine, reaches the stub of its own line, and the
\* masks of the firmware are back once pic_remap is over (isr.c:6-60,
\* pic.c:3-30).
THEOREM SpecRightStub == Spec => []RightStub
<1>1. IndInv => RightStub
  <2> SUFFICES ASSUME IndInv PROVE RightStub
    OBVIOUS
  <2>1. \A n \in DOMAIN stack : stack[n] \in Frame
    BY DEF IndInv, TypeOK
  <2>2. QED
    BY <2>1 DEF IndInv, TypeOK, BootOrder, BootStages, FramesSound, RightStub, Frame
<1>2. QED
  BY <1>1, SpecIndInv, PTL

\* One context at a time is in the heap, to whatever depth handlers nest, though
\* cli is all its lock does and its unlock enables interrupts (mvk.c:8-18).
THEOREM SpecHeapExclusive == Spec => []HeapExclusive
<1>1. IndInv => HeapExclusive
  <2> DEFINE L == {n \in DOMAIN stack : stack[n].at = "locked"}
  <2> SUFFICES ASSUME IndInv
               PROVE  Cardinality(L) + (IF pc = "locked" THEN 1 ELSE 0) <= 1
    BY DEF HeapExclusive
  <2>1. \A n \in L : n \in DOMAIN stack /\ Closed(stack[n]) /\ stack[n].kind = "irq"
                   /\ n \in Int
    <3>1. \A n \in DOMAIN stack : stack[n] \in Frame /\ n \in Int
      BY DEF IndInv, TypeOK
    <3>2. QED
      BY <3>1 DEF IndInv, FramesSound, Closed, Frame
  <2>2. \A n, m \in L : n = m
    <3>1. \A n, m \in L : ~(n < m)
      BY <2>1 DEF IndInv, ClosedFrames
    <3>2. QED
      BY <2>1, <3>1
  <2>3. L = {} \/ \E n : L = {n}
    BY <2>2
  <2>4. Cardinality(L) = 0 \/ Cardinality(L) = 1
    BY <2>3, FS_EmptySet, FS_Singleton
  <2>5. pc = "locked" => Cardinality(L) = 0
    <3>1. pc = "locked" => L = {}
      BY <2>1 DEF IndInv, ClosedFrames
    <3>2. QED
      BY <3>1, FS_EmptySet
  <2>6. QED
    BY <2>4, <2>5
<1>2. QED
  BY <1>1, SpecIndInv, PTL

\* Handlers nest only after a handler has called liballoc_unlock (israsm.S, mvk.c).
THEOREM SpecHandlersNestOnlyByUnlock == Spec => []HandlersNestOnlyByUnlock
<1>1. IndInv => HandlersNestOnlyByUnlock
  <2> SUFFICES ASSUME IndInv, ~reenabled
               PROVE  Cardinality(IrqFrames) <= 1
    BY DEF HandlersNestOnlyByUnlock
  <2>1. \A n, m \in IrqFrames : n = m
    BY OnlyFrame
  <2>2. IrqFrames = {} \/ \E n : IrqFrames = {n}
    BY <2>1
  <2>3. Cardinality(IrqFrames) = 0 \/ Cardinality(IrqFrames) = 1
    BY <2>2, FS_EmptySet, FS_Singleton
  <2>4. QED
    BY <2>3
<1>2. QED
  BY <1>1, SpecIndInv, PTL

\* The unspecific EOIs end the interrupt of the frame that sends them, through
\* the cascade and at any depth, unless nesting and spurious interrupts come
\* together (pic.h:18-24, isr.c:123-128).
THEOREM SpecEoiEndsOwnLine == Spec => []EoiEndsOwnLine
<1>1. IndInv => EoiEndsOwnLine
  BY DEF IndInv, Nested, EoiEndsOwnLine
<1>2. QED
  BY <1>1, SpecIndInv, PTL

\* When the last handler has returned nothing is left in service, also when the
\* EOIs of spurious interrupts ended other lines early.
THEOREM SpecNothingLeftInService == Spec => []NothingLeftInService
<1>1. IndInv => NothingLeftInService
  <2> SUFFICES ASSUME IndInv, IrqFrames = {}
               PROVE  isr = {}
    BY DEF NothingLeftInService
  <2>1. MasterOwing = {} /\ SlaveOwing = {}
    BY DEF MasterOwing, SlaveOwing
  <2>2. Cardinality(Master(isr)) = 0 /\ Cardinality(Slave(isr)) = 0
    BY <2>1, ServiceFinite, FS_EmptySet DEF IndInv, EnoughEois
  <2>3. Master(isr) = {} /\ Slave(isr) = {}
    BY <2>2, ServiceFinite, FS_EmptySet DEF IndInv
  <2>4. isr \subseteq Line
    BY DEF IndInv, TypeOK
  <2>5. QED
    BY <2>3, <2>4 DEF Master, Slave, Line
<1>2. QED
  BY <1>1, SpecIndInv, PTL

\* While an exception is reported no handler runs, none is entered or left and
\* the thread stands (israsm.S:6-38, isr.c:100-119).
THEOREM SpecReportUndisturbed == Spec => ReportUndisturbed
<1> DEFINE Reporting == \E n \in DOMAIN stack \ IrqFrames : stack[n].at = "handler"
<1>1. IndInv /\ [Next]_vars => (Reporting => UNCHANGED <<pc, IrqFrames>>)
  <2> SUFFICES ASSUME IndInv, [Next]_vars,
                      NEW n \in DOMAIN stack \ IrqFrames, stack[n].at = "handler"
               PROVE  UNCHANGED <<pc, IrqFrames>>
    OBVIOUS
  <2>1. /\ flag = FALSE /\ stack # <<>>
        /\ \A m \in DOMAIN stack : n < m => stack[m].kind = "exception"
    BY DEF IndInv, ClosedFrames, Closed
  <2>2. stack[n].kind = "exception"
    <3>1. stack[n] \in Frame
      BY DEF IndInv, TypeOK
    <3>2. stack[n].kind # "irq"
      BY DEF IrqFrames
    <3>3. QED
      BY <3>1, <3>2 DEF Frame
  <2>3. /\ Depth \in DOMAIN stack /\ DOMAIN stack = 1 .. Depth /\ Depth \in Nat
        /\ Top = stack[Depth]
    BY <2>1, StackTop DEF IndInv
  <2>4. Top.kind = "exception"
    BY <2>1, <2>2, <2>3
  <2>5. CASE UNCHANGED vars
    BY <2>5 DEF vars, thread, IrqFrames
  <2>6. CASE Boot
    BY <2>1, <2>6 DEF Boot, ExceptionGates, Remap, RestoreMasks, LoadIdt,
       EnableInterrupts, Running
  <2>7. CASE ThreadOrDevice
    BY <2>1, <2>7, ThreadFrames DEF IrqFrames
  <2>8. CASE Exception
    <3> DEFINE f == [kind |-> "exception", irq_no |-> 0, from |-> 0, at |-> "cli",
                     real |-> FALSE, saved |-> flag]
    <3>1. stack' = Append(stack, f) /\ f \in Frame /\ pc' = pc
      BY <2>8 DEF Exception, IndInv, TypeOK, Frame, Line, Statements
    <3>2. /\ DOMAIN stack' = 1 .. Depth + 1
          /\ \A m \in DOMAIN stack : stack'[m] = stack[m]
          /\ stack'[Depth + 1].kind = "exception"
      BY <3>1, PushFrame DEF IndInv
    <3>3. IrqFrames' = IrqFrames
      BY <2>3, <3>2 DEF IrqFrames
    <3>4. QED
      BY <3>1, <3>3
  <2>9. CASE FrameStep
    <3>1. Cli
      BY <2>4, <2>9 DEF FrameStep, HandlerCall, HandlerReturn, EoiSlave, EoiMaster, InFrame
    <3>2. /\ DOMAIN stack' = DOMAIN stack
          /\ stack'[Depth] = [Top EXCEPT !.at = "handler"]
          /\ \A m \in DOMAIN stack : m # Depth => stack'[m] = stack[m]
      BY <2>1, <3>1, MoveFrame DEF Cli, IndInv, Statements
    <3>3. stack'[Depth].kind = stack[Depth].kind
      BY <2>3, <3>2 DEF IndInv, TypeOK, Frame
    <3>4. IrqFrames' = IrqFrames
      BY <2>3, <3>2, <3>3 DEF IrqFrames
    <3>5. QED
      BY <3>1, <3>4 DEF Cli
  <2>10. CASE Iret
    BY <2>4, <2>10 DEF Iret, InFrame
  <2>11. CASE \E l \in Lines : Interrupt(l) \/ Spurious(l)
    BY <2>1, <2>11 DEF Interrupt, Spurious
  <2>12. QED
    BY <2>5, <2>6, <2>7, <2>8, <2>9, <2>10, <2>11, Steps
<1>2. QED
  BY <1>1, SpecIndInv, PTL DEF Spec, ReportUndisturbed
=============================================================================
