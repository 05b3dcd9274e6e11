------------------------------ MODULE PciProofs ------------------------------
(***************************************************************************)
(* Proofs about the scan of the PCI buses of Pci, for every machine whose  *)
(* firmware has numbered the buses and for every number of devices and     *)
(* functions: recursion is bounded, and the list is complete.              *)
(***************************************************************************)
EXTENDS Pci, SequenceTheorems, TLAPS

-----------------------------------------------------------------------------
(* The inductive invariant.  A bus whose scan is over has left no trace of *)
(* its own in the state; that it is over shows in its bridge, which is     *)
(* appended to the list right after it.  So the list is complete for the   *)
(* buses that are over (BusDone), and for a bus under way up to the        *)
(* function its frame is at (Before).                                      *)

Frame == [bus : Nat, device : 0 .. Devices, function : 0 .. Functions - 1,
          at : {"device", "function", "append"}]

TypeOK ==
  /\ machine \in Topologies
  /\ at \in {"header", "hosts", "last_bus", "done", "aborted"}
  /\ host \in Nat
  /\ stack \in Seq(Frame)
  /\ pci_connected_devices \in Seq(Nat \X Nat \X Nat)

\* The function that a call of check_bus is at.
Place(c)  == <<c.bus, c.device, c.function>>
Before(f, c) == \/ f[2] < c.device
                \/ f[2] = c.device /\ f[3] < c.function

Listed == {pci_connected_devices[n] : n \in DOMAIN pci_connected_devices}

\* Whatever a frame is at has been found; the calls below the top are in the
\* middle of a bridge, and the next one scans the bus behind it.
FramesSound ==
  /\ \A n \in DOMAIN stack :
       /\ stack[n].at = "device" => stack[n].function = 0
       /\ stack[n].at # "device" => Place(stack[n]) \in Found
       /\ n < Len(stack) =>
            /\ stack[n].at = "append"
            /\ machine.behind[Place(stack[n])] = stack[n + 1].bus

\* Bus numbers grow along the calls.
BusesGrow ==
  \A m, n \in DOMAIN stack : m < n => stack[m].bus < stack[n].bus

\* There is a host bridge, and it has one function.
Single == DOMAIN machine.behind # {} /\ <<0, 0>> \notin machine.multi

\* Then bus 0 is scanned, and otherwise nothing is found.
HostsSound ==
  /\ at \in {"header", "done"} => stack = <<>>
  /\ at \in {"header", "aborted"} \/ ~Single => pci_connected_devices = <<>>
  /\ at = "header"   => host = 0
  /\ at = "hosts"    => ~Single /\ (DOMAIN machine.behind = {} \/ (stack = <<>> /\ host = 0))
  /\ at = "last_bus" => Single /\ (stack # <<>> => stack[1].bus = 0)

\* The scan of the bus behind bridge g is over.
Over(g) ==
  g \in Listed \/ (stack # <<>> /\ Top.at = "append" /\ g = Here)

BusDone(bus) ==
  \/ bus = 0 /\ stack = <<>> /\ at \in {"last_bus", "done"}
  \/ \E g \in Found : machine.behind[g] = bus /\ Over(g)

Passed(f) == \E n \in DOMAIN stack : stack[n].bus = f[1] /\ Before(f, stack[n])

ListSound ==
  at # "aborted" /\ Single =>
    /\ \A f \in Listed : f \in Found /\ (Passed(f) \/ BusDone(f[1]))
    /\ \A f \in Found  : Passed(f) \/ BusDone(f[1]) => f \in Listed
    /\ \A n \in DOMAIN stack : ~BusDone(stack[n].bus)

\* The scan only gets to what can be reached.
OnlyReachable ==
  \A S \in SUBSET Found : Closed(S) =>
    /\ Listed \subseteq S
    /\ at = "last_bus" => \A n \in DOMAIN stack : BusKnown(S, stack[n].bus)

NoneTwice ==
  \A m, n \in DOMAIN pci_connected_devices :
    m # n => pci_connected_devices[m] # pci_connected_devices[n]

IndInv ==
  /\ TypeOK
  /\ FramesSound
  /\ BusesGrow
  /\ HostsSound
  /\ ListSound
  /\ OnlyReachable
  /\ NoneTwice

-----------------------------------------------------------------------------
(* The configuration space.                                                *)

LEMMA Numbers == Devices \in 1 .. 32 /\ Functions \in 1 .. 8
BY NumbersAssumption

\* What the firmware has numbered.
LEMMA Numbered ==
  ASSUME machine \in Topologies, NEW f \in DOMAIN machine.behind
  PROVE  /\ f = <<f[1], f[2], f[3]>> /\ f[1] \in 0 .. 255
         /\ f[2] \in 0 .. Devices - 1 /\ f[3] \in 0 .. Functions - 1
         /\ f[1] \in Nat /\ f[2] \in 0 .. 31 /\ f[3] \in 0 .. 7
         /\ machine.behind[f] = None \/ machine.behind[f] \in f[1] + 1 .. 255
         /\ machine.behind[f] \in Int
<1>1. f \in Bus \X (0 .. Devices - 1) \X (0 .. Functions - 1)
      /\ (machine.behind[f] = None \/ machine.behind[f] \in f[1] + 1 .. 255)
  BY TopologyAssumption
<1>2. f = <<f[1], f[2], f[3]>> /\ f[1] \in Bus /\ f[2] \in 0 .. Devices - 1
      /\ f[3] \in 0 .. Functions - 1
  BY <1>1
<1>3. QED
  BY <1>1, <1>2, Numbers DEF Bus, None

LEMMA OneBridge ==
  ASSUME machine \in Topologies,
         NEW f \in DOMAIN machine.behind, NEW g \in DOMAIN machine.behind,
         machine.behind[f] # None, machine.behind[f] = machine.behind[g]
  PROVE  f = g
BY TopologyAssumption

LEMMA HostBridge ==
  ASSUME machine \in Topologies, DOMAIN machine.behind # {}
  PROVE  <<0, 0, 0>> \in DOMAIN machine.behind
BY TopologyAssumption

LEMMA NotConnected ==
  ASSUME NEW f, f \notin DOMAIN machine.behind
  PROVE  ~Connected(f)
BY DEF Connected, pci_get_vendor, pci_config_read_word, Byte, WordAt

\* What the reads of words make of a header: the classes and numbers that are
\* in it, also those at odd offsets.
LEMMA HeaderRead ==
  ASSUME machine \in Topologies, NEW f \in DOMAIN machine.behind
  PROVE  /\ Connected(f)
         /\ IsBridge(f) <=> machine.behind[f] # None
         /\ machine.behind[f] # None => SecondaryBus(f) = machine.behind[f]
         /\ Line(f) = Header(f)
         /\ pci_get_header_type(f) >= 128 <=> <<f[1], f[2]>> \in machine.multi
<1> DEFINE bridge == machine.behind[f] # None
           multi  == <<f[1], f[2]>> \in machine.multi
<1>1. /\ f[1] \in 0 .. 255 /\ f[2] \in 0 .. 31 /\ f[3] \in 0 .. 7
      /\ machine.behind[f] \in Int
  BY Numbered
<1>2. /\ Byte(f, 0) = 134 /\ Byte(f, 1) = 128 /\ Byte(f, 2) = f[3]
      /\ Byte(f, 3) = f[2] + 16 /\ Byte(f, 8) = f[2] /\ Byte(f, 9) = f[3] + 1
  BY DEF Byte
<1>3. /\ Byte(f, 10) = (IF bridge THEN 4 ELSE 0)
      /\ Byte(f, 11) = (IF bridge THEN 6 ELSE 2)
      /\ Byte(f, 14) = (IF multi THEN 128 ELSE 0) + (IF bridge THEN 1 ELSE 0)
      /\ Byte(f, 15) = 0
      /\ Byte(f, 24) = f[1]
      /\ Byte(f, 25) = IF bridge THEN machine.behind[f] ELSE 0
  BY DEF Byte
<1>4. /\ WordAt(0) = 0 /\ WordAt(3) = 2 /\ WordAt(8) = 8 /\ WordAt(11) = 10
      /\ WordAt(15) = 14 /\ WordAt(24) = 24
  BY DEF WordAt
<1>5. /\ pci_get_vendor(f) = 134 + 256 * 128
      /\ pci_get_device(f) = Byte(f, 2) + 256 * Byte(f, 3)
  BY <1>2, <1>4 DEF pci_get_vendor, pci_get_device, pci_config_read_word
<1>6. pci_get_class(f) = Byte(f, 11) /\ pci_get_subclass(f) = Byte(f, 10)
  BY <1>3, <1>4 DEF pci_get_class, pci_get_subclass, pci_config_read_word
<1>7. pci_get_progif(f) = Byte(f, 9) /\ pci_get_revision(f) = Byte(f, 8)
  <2>1. pci_get_progif(f) = Byte(f, 9)
    BY <1>1, <1>2, <1>4 DEF pci_get_progif, pci_config_read_word
  <2>2. pci_get_revision(f) = Byte(f, 8)
    BY <1>1, <1>2, <1>4 DEF pci_get_revision, pci_config_read_word
  <2>3. QED
    BY <2>1, <2>2
<1>8. pci_get_header_type(f) = Byte(f, 14)
  BY <1>3, <1>4 DEF pci_get_header_type, pci_config_read_word
<1>9. bridge => pci_get_secondary_bus(f) = machine.behind[f]
  <2>1. pci_get_secondary_bus(f) = (Byte(f, 24) + 256 * Byte(f, 25)) \div 256
    BY <1>4 DEF pci_get_secondary_bus, pci_config_read_word
  <2>2. QED
    BY <1>1, <1>3, <2>1
<1>10. Line(f) = Header(f)
  BY <1>2, <1>5, <1>6, <1>7 DEF Line, Header
<1>11. QED
  BY <1>3, <1>5, <1>6, <1>8, <1>9, <1>10 DEF Connected, IsBridge, SecondaryBus

\* Whether a device has several functions is in the header of its first one.
LEMMA MultiRead ==
  ASSUME machine \in Topologies, NEW bus, NEW device,
         <<bus, device, 0>> \in DOMAIN machine.behind
  PROVE  MultiFunction(bus, device) <=> <<bus, device>> \in machine.multi
BY HeaderRead DEF MultiFunction

LEMMA FoundSound ==
  ASSUME machine \in Topologies, NEW f \in Found
  PROVE  /\ f \in DOMAIN machine.behind /\ f = <<f[1], f[2], f[3]>>
         /\ f[1] \in Nat /\ f[2] \in 0 .. Devices - 1 /\ f[3] \in 0 .. Functions - 1
         /\ <<f[1], f[2], 0>> \in DOMAIN machine.behind
         /\ f[3] = 0 \/ <<f[1], f[2]>> \in machine.multi
<1>1. f \in DOMAIN machine.behind /\ Reported(f)
  BY DEF Found
<1>2. QED
  BY <1>1, Numbered DEF Reported

-----------------------------------------------------------------------------
(* The stack of calls.                                                     *)

LEMMA StackTop ==
  ASSUME TypeOK, stack # <<>>
  PROVE  /\ Depth \in Nat \ {0} /\ Depth = Len(stack)
         /\ DOMAIN stack = 1 .. Depth /\ Depth \in DOMAIN stack
         /\ Top = stack[Depth] /\ Top \in Frame
         /\ Here = Place(Top)
         /\ \A n \in DOMAIN stack : stack[n] \in Frame /\ n \in Nat
<1>1. stack \in Seq(Frame)
  BY DEF TypeOK
<1>2. Depth \in Nat \ {0} /\ DOMAIN stack = 1 .. Depth /\ Depth = Len(stack)
  BY <1>1, EmptySeq DEF Depth
<1>3. Depth \in DOMAIN stack
  BY <1>2
<1>4. \A n \in DOMAIN stack : stack[n] \in Frame /\ n \in Nat
  BY <1>1, <1>2
<1>5. QED
  BY <1>2, <1>3, <1>4 DEF Top, Here, Place

\* A step of the call on top.
LEMMA TopStep ==
  ASSUME TypeOK, stack # <<>>, NEW c \in Frame, c.bus = Top.bus,
         stack' = [stack EXCEPT ![Depth] = c]
  PROVE  /\ stack' \in Seq(Frame) /\ stack' # <<>> /\ Depth' = Depth
         /\ Len(stack') = Len(stack) /\ DOMAIN stack' = DOMAIN stack
         /\ \A n \in DOMAIN stack : n # Depth => n < Depth /\ stack'[n] = stack[n]
         /\ stack'[Depth] = c /\ Top' = c /\ Here' = Place(c)
         /\ \A n \in DOMAIN stack : stack'[n].bus = stack[n].bus
<1>1. /\ Depth \in Nat \ {0} /\ DOMAIN stack = 1 .. Depth /\ Depth = Len(stack)
      /\ Top = stack[Depth] /\ stack \in Seq(Frame)
  BY StackTop DEF TypeOK
<1>2. /\ stack' \in Seq(Frame) /\ Len(stack') = Len(stack)
      /\ DOMAIN stack' = DOMAIN stack
      /\ \A n \in 1 .. Depth : stack'[n] = IF n = Depth THEN c ELSE stack[n]
  BY <1>1, ExceptSeq
<1>3. \A n \in DOMAIN stack : n # Depth => n < Depth
  BY <1>1
<1>4. Depth' = Depth /\ stack'[Depth] = c /\ stack' # <<>>
  BY <1>1, <1>2, EmptySeq DEF Depth
<1>5. Top' = c
  BY <1>4 DEF Top
<1>6. Here' = Place(c)
  BY <1>5 DEF Here, Place
<1>7. QED
  BY <1>1, <1>2, <1>3, <1>4, <1>5, <1>6

\* The call on top calls check_bus.
LEMMA PushStep ==
  ASSUME NEW s \in Seq(Frame), NEW c \in Frame, stack' = Append(s, c)
  PROVE  /\ stack' \in Seq(Frame) /\ stack' # <<>>
         /\ Len(stack') = Len(s) + 1 /\ Len(s) \in Nat
         /\ DOMAIN s = 1 .. Len(s) /\ DOMAIN stack' = 1 .. Len(s) + 1
         /\ \A n \in DOMAIN s : stack'[n] = s[n]
         /\ stack'[Len(s) + 1] = c /\ Top' = c
<1>1. /\ stack' \in Seq(Frame) /\ Len(stack') = Len(s) + 1 /\ Len(s) \in Nat
      /\ DOMAIN s = 1 .. Len(s) /\ DOMAIN stack' = 1 .. Len(s) + 1
      /\ \A n \in 1 .. Len(s) : stack'[n] = s[n]
      /\ stack'[Len(s) + 1] = c
  BY AppendProperties
<1>2. stack' # <<>>
  BY <1>1, EmptySeq
<1>3. Top' = c
  BY <1>1 DEF Top, Depth
<1>4. QED
  BY <1>1, <1>2, <1>3

\* The call on top returns.
LEMMA PopStep ==
  ASSUME TypeOK, stack # <<>>, stack' = SubSeq(stack, 1, Depth - 1)
  PROVE  /\ stack' \in Seq(Frame) /\ Len(stack') = Depth - 1
         /\ DOMAIN stack' = 1 .. Depth - 1
         /\ \A n \in DOMAIN stack' : n \in DOMAIN stack /\ n < Depth /\ n \in Nat
                                     /\ stack'[n] = stack[n]
         /\ stack' # <<>> => Depth > 1 /\ Depth - 1 \in DOMAIN stack
                             /\ Top' = stack[Depth - 1]
                             /\ Here' = Place(stack[Depth - 1])
         /\ stack' = <<>> => Depth = 1
<1>1. /\ Depth \in Nat \ {0} /\ DOMAIN stack = 1 .. Depth /\ Depth = Len(stack)
      /\ stack \in Seq(Frame)
  BY StackTop DEF TypeOK
<1>2. /\ stack' \in Seq(Frame) /\ Len(stack') = Depth - 1
      /\ \A n \in 1 .. Depth - 1 : stack'[n] = stack[n]
  BY <1>1, SubSeqProperties
<1>3. DOMAIN stack' = 1 .. Depth - 1
  BY <1>2
<1>4. \A n \in DOMAIN stack' : n \in DOMAIN stack /\ n < Depth /\ n \in Nat
                               /\ stack'[n] = stack[n]
  BY <1>1, <1>2, <1>3
<1>5. stack' = <<>> <=> Depth - 1 = 0
  BY <1>2, EmptySeq
<1>6. ASSUME stack' # <<>>
      PROVE  /\ Depth > 1 /\ Depth - 1 \in DOMAIN stack
             /\ Top' = stack[Depth - 1] /\ Here' = Place(stack[Depth - 1])
  <2>1. Depth > 1 /\ Depth - 1 \in DOMAIN stack' /\ Depth - 1 \in DOMAIN stack
    BY <1>1, <1>3, <1>5, <1>6
  <2>2. Top' = stack[Depth - 1]
    BY <1>2, <1>4, <2>1 DEF Top, Depth
  <2>3. QED
    BY <2>1, <2>2 DEF Here, Place
<1>7. QED
  BY <1>1, <1>2, <1>3, <1>4, <1>5, <1>6

-----------------------------------------------------------------------------
(* The invariant holds initially, and every action keeps it.               *)

LEMMA SameMachine ==
  ASSUME UNCHANGED machine
  PROVE  /\ Found' = Found /\ (Single' <=> Single)
         /\ \A S : Closed(S)' <=> Closed(S)
         /\ \A S, bus : BusKnown(S, bus)' <=> BusKnown(S, bus)
BY DEF Found, Reported, Single, Closed, BusKnown

LEMMA SameList ==
  ASSUME UNCHANGED pci_connected_devices
  PROVE  Listed' = Listed /\ (NoneTwice' <=> NoneTwice)
BY DEF Listed, NoneTwice

\* With a call under way a bus is done when its bridge shows it.
LEMMA BusDoneBridge ==
  ASSUME stack # <<>>, NEW bus
  PROVE  BusDone(bus) <=>
           \E g \in Found : machine.behind[g] = bus
                            /\ (g \in Listed \/ (Top.at = "append" /\ g = Here))
BY DEF BusDone, Over

LEMMA InitInv == Init => IndInv
<1> SUFFICES ASSUME Init PROVE IndInv
  OBVIOUS
<1>1. stack = <<>> /\ DOMAIN stack = {} /\ pci_connected_devices = <<>>
      /\ at = "header" /\ DOMAIN pci_connected_devices = {}
  BY DEF Init
<1>2. TypeOK
  BY <1>1 DEF Init, TypeOK
<1>3. Listed = {}
  BY <1>1 DEF Listed
<1>4. FramesSound /\ BusesGrow /\ NoneTwice
  BY <1>1 DEF FramesSound, BusesGrow, NoneTwice
<1>8. HostsSound
  BY <1>1 DEF HostsSound, Init
<1>5. ListSound
  BY <1>1, <1>3 DEF ListSound, Passed, BusDone, Over
<1>6. OnlyReachable
  BY <1>1, <1>3 DEF OnlyReachable
<1>7. QED
  BY <1>2, <1>4, <1>5, <1>6, <1>8 DEF IndInv

Started(bus) == <<BusFrame(bus)>>

LEMMA FirstFrame ==
  ASSUME NEW bus \in Nat
  PROVE  /\ BusFrame(bus) \in Frame
         /\ Started(bus) \in Seq(Frame) /\ DOMAIN Started(bus) = {1}
         /\ Started(bus)[1] = BusFrame(bus) /\ BusFrame(bus).bus = bus
         /\ Started(bus) # <<>> /\ Len(Started(bus)) = 1
<1>1. BusFrame(bus) \in Frame
  BY Numbers DEF BusFrame, Frame
<1>2. QED
  BY <1>1 DEF BusFrame, Started

\* A call of check_bus from scan_pci_buses.
LEMMA CallInv ==
  ASSUME IndInv, NEW bus \in Nat, stack = <<>>, stack' = Started(bus),
         at \in {"header", "hosts"}, at' \in {"hosts", "last_bus"},
         host' \in Nat, UNCHANGED <<machine, pci_connected_devices>>,
         at' = "last_bus" => Single /\ bus = 0,
         at' = "hosts" => ~Single /\ DOMAIN machine.behind = {}
  PROVE  IndInv'
<1> DEFINE c == BusFrame(bus)
<1>1. /\ c \in Frame /\ stack' \in Seq(Frame) /\ DOMAIN stack' = {1}
      /\ stack'[1] = c /\ c.bus = bus /\ stack' # <<>> /\ Len(stack') = 1
  BY FirstFrame
<1>2. c.at = "device" /\ c.function = 0 /\ c.device = 0
  BY DEF BusFrame
<1> HIDE DEF c
<1>15. \A n \in DOMAIN stack' : n = 1 /\ stack'[n] = c
  BY <1>1
<1>3. /\ pci_connected_devices = <<>> /\ pci_connected_devices' = <<>>
      /\ DOMAIN pci_connected_devices' = {} /\ Listed' = {}
  <2>1. pci_connected_devices = <<>>
    BY DEF IndInv, HostsSound
  <2>2. pci_connected_devices' = <<>> /\ DOMAIN pci_connected_devices' = {}
    BY <2>1
  <2>3. QED
    BY <2>1, <2>2 DEF Listed
<1>4. TypeOK'
  BY <1>1 DEF IndInv, TypeOK
<1>5. FramesSound' /\ BusesGrow'
  BY <1>1, <1>2, <1>15 DEF FramesSound, BusesGrow
<1>6. HostsSound'
  <2>1. Single' <=> Single
    BY SameMachine
  <2>2. stack'[1].bus = bus
    BY <1>1
  <2>3. QED
    BY <1>3, <2>1, <2>2 DEF HostsSound
<1>7. NoneTwice'
  BY <1>3 DEF NoneTwice
<1>8. Found' = Found
  BY SameMachine
<1>9. Top' = c
  BY <1>1 DEF Top, Depth
<1>10. \A b : ~BusDone(b)'
  BY <1>1, <1>2, <1>3, <1>9 DEF BusDone, Over
<1>11. \A f \in Found : ~Passed(f)'
  <2> SUFFICES ASSUME NEW f \in Found PROVE ~Before(f, c)
    BY <1>15 DEF Passed
  <2>1. f[2] \in Nat /\ f[3] \in Nat
    <3>1. machine \in Topologies
      BY DEF IndInv, TypeOK
    <3>2. f[2] \in 0 .. Devices - 1 /\ f[3] \in 0 .. Functions - 1
      BY <3>1, FoundSound
    <3>3. Devices - 1 \in Int /\ Functions - 1 \in Int
      BY Numbers
    <3>4. QED
      BY <3>2, <3>3
  <2>2. QED
    BY <1>2, <2>1 DEF Before
<1>12. ListSound'
  BY <1>1, <1>3, <1>8, <1>10, <1>11 DEF ListSound
<1>13. OnlyReachable'
  <2>1. at' = "last_bus" => \A n \in DOMAIN stack' : stack'[n].bus = 0
    BY <1>1, <1>15
  <2>2. QED
    BY <1>3, <2>1 DEF OnlyReachable, BusKnown
<1>14. QED
  BY <1>4, <1>5, <1>6, <1>7, <1>12, <1>13 DEF IndInv

LEMMA ScanHeaderInv ==
  ASSUME IndInv, ScanHeader
  PROVE  IndInv'
<1>1. machine \in Topologies /\ stack = <<>> /\ at = "header"
      /\ UNCHANGED <<machine, host, pci_connected_devices>> /\ host \in Nat
  BY DEF ScanHeader, IndInv, TypeOK, HostsSound
<1>2. MultiFunction(0, 0) <=> ~Single
  <2>1. CASE DOMAIN machine.behind = {}
    <3>1. pci_get_header_type(<<0, 0, 0>>) >= 128
      BY <2>1 DEF pci_get_header_type, pci_config_read_word, Byte, WordAt
    <3>2. QED
      BY <2>1, <3>1 DEF Single, MultiFunction
  <2>2. CASE DOMAIN machine.behind # {}
    BY <1>1, <2>2, HostBridge, MultiRead DEF Single
  <2>3. QED
    BY <2>1, <2>2
<1>3. CASE ~MultiFunction(0, 0)
  <2>1. at' = "last_bus" /\ stack' = Started(0)
    BY <1>3 DEF ScanHeader, Started
  <2>2. QED
    BY <1>1, <1>2, <1>3, <2>1, CallInv
<1>4. CASE MultiFunction(0, 0)
  <2>1. at' = "hosts" /\ stack' = <<>>
    BY <1>1, <1>4 DEF ScanHeader
  <2>2. pci_connected_devices = <<>> /\ DOMAIN stack' = {}
    BY <1>1, <2>1 DEF IndInv, HostsSound
  <2>3. Listed' = {}
    BY <1>1, <2>2 DEF Listed
  <2>4. TypeOK' /\ FramesSound' /\ BusesGrow' /\ NoneTwice'
    BY <1>1, <2>1, <2>2 DEF IndInv, TypeOK, FramesSound, BusesGrow, NoneTwice
  <2>8. Single' <=> Single
    BY <1>1, SameMachine
  <2>9. host = 0
    BY <1>1 DEF IndInv, HostsSound
  <2>5. HostsSound' /\ ListSound'
    BY <1>1, <1>2, <1>4, <2>1, <2>2, <2>8, <2>9 DEF HostsSound, ListSound
  <2>6. OnlyReachable'
    BY <2>1, <2>3 DEF OnlyReachable
  <2>7. QED
    BY <2>4, <2>5, <2>6 DEF IndInv
<1>5. QED
  BY <1>3, <1>4

LEMMA ScanHostInv ==
  ASSUME IndInv, ScanHost
  PROVE  IndInv'
<1>1. /\ machine \in Topologies /\ stack = <<>> /\ at = "hosts" /\ ~HostsEnd
      /\ stack' = Started(host) /\ host' = host + 1 /\ host \in Nat
      /\ UNCHANGED <<machine, at, pci_connected_devices>>
  BY DEF ScanHost, IndInv, TypeOK, Started
<1>2. ~Single /\ (DOMAIN machine.behind = {} \/ host = 0)
  BY <1>1 DEF IndInv, HostsSound
<1>3. DOMAIN machine.behind = {}
  <2>1. host = 0 /\ DOMAIN machine.behind # {} => HostsEnd
    BY <1>1, HostBridge, HeaderRead DEF HostsEnd
  <2>2. QED
    BY <1>1, <1>2, <2>1
<1>4. QED
  BY <1>1, <1>2, <1>3, CallInv

LEMMA ScanEndInv ==
  ASSUME IndInv, ScanEnd
  PROVE  IndInv'
<1>1. /\ stack = <<>> /\ at' = "done" /\ at \in {"last_bus", "hosts"}
      /\ UNCHANGED <<machine, host, stack, pci_connected_devices>>
  BY DEF ScanEnd
<1>2. Found' = Found /\ (Single' <=> Single) /\ \A S : Closed(S)' <=> Closed(S)
  BY <1>1, SameMachine
<1>3. Listed' = Listed /\ (NoneTwice' <=> NoneTwice)
  BY <1>1, SameList
<1>4. DOMAIN stack = {}
  BY <1>1
<1>5. TypeOK' /\ FramesSound' /\ BusesGrow'
  BY <1>1, <1>4 DEF IndInv, TypeOK, FramesSound, BusesGrow
<1>6. HostsSound'
  BY <1>1, <1>2 DEF IndInv, HostsSound
<1>7. ListSound'
  <2> SUFFICES ASSUME Single
               PROVE  ListSound'
    BY <1>2 DEF ListSound
  <2>1. at = "last_bus"
    BY <1>1 DEF IndInv, HostsSound
  <2>2. \A bus : BusDone(bus)' <=> BusDone(bus)
    BY <1>1, <1>2, <1>3, <2>1 DEF BusDone, Over
  <2>3. QED
    BY <1>1, <1>2, <1>3, <1>4, <2>1, <2>2 DEF IndInv, ListSound, Passed
<1>8. OnlyReachable'
  BY <1>1, <1>2, <1>3 DEF IndInv, OnlyReachable
<1>9. QED
  BY <1>3, <1>5, <1>6, <1>7, <1>8 DEF IndInv

\* A step of the call on top leaves the calls below as they are.
LEMMA StepFrames ==
  ASSUME TypeOK, FramesSound, BusesGrow, stack # <<>>, NEW c \in Frame,
         c.bus = Top.bus, stack' = [stack EXCEPT ![Depth] = c], UNCHANGED machine,
         c.at = "device" => c.function = 0,
         c.at # "device" => Place(c) \in Found
  PROVE  FramesSound' /\ BusesGrow'
<1>1. /\ stack' \in Seq(Frame) /\ stack' # <<>> /\ Depth' = Depth
      /\ Len(stack') = Len(stack) /\ DOMAIN stack' = DOMAIN stack
      /\ \A n \in DOMAIN stack : n # Depth => n < Depth /\ stack'[n] = stack[n]
      /\ stack'[Depth] = c /\ Top' = c /\ Here' = Place(c)
      /\ \A n \in DOMAIN stack : stack'[n].bus = stack[n].bus
  BY TopStep
<1>2. /\ Depth \in Nat \ {0} /\ Depth = Len(stack) /\ Depth \in DOMAIN stack
      /\ DOMAIN stack = 1 .. Depth /\ Top = stack[Depth]
      /\ \A n \in DOMAIN stack : stack[n] \in Frame /\ n \in Nat
  BY StackTop
<1>3. Found' = Found
  BY SameMachine
<1>6. FramesSound'
  <2> SUFFICES ASSUME NEW n \in DOMAIN stack
               PROVE  /\ stack'[n].at = "device" => stack'[n].function = 0
                      /\ stack'[n].at # "device" => Place(stack'[n]) \in Found
                      /\ n < Len(stack) =>
                           /\ stack'[n].at = "append"
                           /\ machine.behind[Place(stack'[n])] = stack'[n + 1].bus
    BY <1>1, <1>3 DEF FramesSound, Place
  <2>1. CASE n = Depth
    BY <1>1, <1>2, <2>1
  <2>2. CASE n # Depth
    <3>1. n < Depth /\ stack'[n] = stack[n] /\ n + 1 \in DOMAIN stack
      BY <1>1, <1>2, <2>2
    <3>2. stack'[n + 1].bus = stack[n + 1].bus
      BY <1>1, <3>1
    <3>3. QED
      BY <1>2, <3>1, <3>2 DEF FramesSound
  <2>3. QED
    BY <2>1, <2>2
<1>7. BusesGrow'
  BY <1>1 DEF BusesGrow
<1>8. QED
  BY <1>6, <1>7

\* A step of the call on top that appends nothing and passes nothing found.
LEMMA MoveInv ==
  ASSUME IndInv, stack # <<>>, NEW c \in Frame, c.bus = Top.bus,
         stack' = [stack EXCEPT ![Depth] = c],
         UNCHANGED <<machine, at, host, pci_connected_devices>>,
         Top.at # "append",
         c.at = "device" => c.function = 0,
         c.at # "device" => Place(c) \in Found,
         c.at = "append" => machine.behind[Place(c)] = None,
         \A f \in Found : f[1] = Top.bus => (Before(f, c) <=> Before(f, Top))
  PROVE  IndInv'
<1>1. /\ stack' \in Seq(Frame) /\ stack' # <<>> /\ Depth' = Depth
      /\ Len(stack') = Len(stack) /\ DOMAIN stack' = DOMAIN stack
      /\ \A n \in DOMAIN stack : n # Depth => n < Depth /\ stack'[n] = stack[n]
      /\ stack'[Depth] = c /\ Top' = c /\ Here' = Place(c)
      /\ \A n \in DOMAIN stack : stack'[n].bus = stack[n].bus
  BY TopStep DEF IndInv
<1>2. /\ Depth \in Nat \ {0} /\ Depth = Len(stack) /\ Depth \in DOMAIN stack
      /\ DOMAIN stack = 1 .. Depth /\ Top = stack[Depth]
      /\ \A n \in DOMAIN stack : stack[n] \in Frame /\ n \in Nat
  BY StackTop DEF IndInv
<1>3. Found' = Found /\ (Single' <=> Single)
      /\ (\A S : Closed(S)' <=> Closed(S))
      /\ (\A S, b : BusKnown(S, b)' <=> BusKnown(S, b))
  BY SameMachine
<1>4. Listed' = Listed /\ (NoneTwice' <=> NoneTwice)
  BY SameList
<1>5. TypeOK'
  BY <1>1 DEF IndInv, TypeOK
<1>6. FramesSound' /\ BusesGrow'
  BY StepFrames DEF IndInv
<1>8. HostsSound'
  <2>1. 1 \in DOMAIN stack
    BY <1>2
  <2>2. stack'[1].bus = stack[1].bus
    BY <1>1, <2>1
  <2>3. QED
    BY <1>1, <1>3, <2>2 DEF IndInv, HostsSound
<1>9. ListSound'
  <2>1. \A f \in Found : Passed(f)' <=> Passed(f)
    <3> TAKE f \in Found
    <3>1. Passed(f) <=> \/ \E n \in DOMAIN stack : n # Depth /\ stack[n].bus = f[1]
                                                   /\ Before(f, stack[n])
                        \/ Top.bus = f[1] /\ Before(f, Top)
      BY <1>2 DEF Passed
    <3>2. Passed(f)' <=> \E n \in DOMAIN stack : stack'[n].bus = f[1]
                                                /\ Before(f, stack'[n])
      BY <1>1 DEF Passed, Before
    <3>3. Passed(f)' <=> \/ \E n \in DOMAIN stack : n # Depth /\ stack[n].bus = f[1]
                                                    /\ Before(f, stack[n])
                         \/ Top.bus = f[1] /\ Before(f, c)
      BY <1>1, <1>2, <3>2
    <3>4. QED
      BY <3>1, <3>3
  <2>2. \A f \in Found : f[1] \in Nat
    BY FoundSound DEF IndInv, TypeOK
  <2>3. \A b \in Nat : BusDone(b)' <=> BusDone(b)
    <3> TAKE b \in Nat
    <3>1. BusDone(b) <=> \E g \in Found : machine.behind[g] = b /\ g \in Listed
      BY BusDoneBridge
    <3>2. BusDone(b)' <=> \E g \in Found : machine.behind[g] = b /\
                             (g \in Listed \/ (c.at = "append" /\ g = Place(c)))
      BY <1>1, <1>3, <1>4 DEF BusDone, Over
    <3>3. b # None
      BY DEF None
    <3>4. QED
      BY <3>1, <3>2, <3>3
  <2>4. \A n \in DOMAIN stack : stack[n].bus \in Nat
    BY <1>2 DEF Frame
  <2>5. QED
    BY <1>1, <1>3, <1>4, <2>1, <2>2, <2>3, <2>4 DEF IndInv, ListSound
<1>10. OnlyReachable'
  BY <1>1, <1>3, <1>4 DEF IndInv, OnlyReachable
<1>11. QED
  BY <1>4, <1>5, <1>6, <1>8, <1>9, <1>10 DEF IndInv

\* NextDevice, as a new frame on top.
LEMMA DeviceStep ==
  ASSUME TypeOK, stack # <<>>, Top.device <= LastDevice
  PROVE  LET c == [bus |-> Top.bus, device |-> Top.device + 1, function |-> 0,
                   at |-> "device"]
         IN  c \in Frame /\ NextDevice = [stack EXCEPT ![Depth] = c]
<1> DEFINE c == [bus |-> Top.bus, device |-> Top.device + 1, function |-> 0,
                 at |-> "device"]
<1>1. Top \in Frame /\ Top = stack[Depth] /\ Depth \in DOMAIN stack
      /\ stack \in Seq(Frame)
  BY StackTop DEF TypeOK
<1>2. Top.device + 1 \in 0 .. Devices
  <2>1. Top.device \in 0 .. Devices /\ Devices \in Int
    BY <1>1, Numbers DEF Frame
  <2>2. Top.device <= Devices - 1
    BY DEF LastDevice
  <2>3. QED
    BY <2>1, <2>2
<1>3. c \in Frame
  BY <1>1, <1>2, Numbers DEF Frame
<1>4. NextDevice = [stack EXCEPT ![Depth] = c]
  <2>1. Top = [bus |-> Top.bus, device |-> Top.device, function |-> Top.function,
               at |-> Top.at]
    BY <1>1 DEF Frame
  <2> DEFINE t == [bus |-> Top.bus, device |-> Top.device + 1, function |-> Top.function,
                   at |-> Top.at]
             u == [bus |-> Top.bus, device |-> Top.device + 1, function |-> 0,
                   at |-> Top.at]
  <2>5. [Top EXCEPT !.device = @ + 1] = t
    BY <2>1
  <2>6. [t EXCEPT !.function = 0] = u
    OBVIOUS
  <2>7. [u EXCEPT !.at = "device"] = c
    OBVIOUS
  <2>2. [Top EXCEPT !.device = @ + 1, !.function = 0, !.at = "device"] = c
    <3> HIDE DEF t, u, c
    <3>1. QED
      BY <2>5, <2>6, <2>7
  <2>3. NextDevice = [stack EXCEPT ![Depth] =
                        [Top EXCEPT !.device = @ + 1, !.function = 0, !.at = "device"]]
    BY <1>1 DEF NextDevice
  <2>4. QED
    BY <2>2, <2>3
<1>5. QED
  BY <1>3, <1>4

\* A new statement for the call on top, as a new frame on top.
LEMMA StatementStep ==
  ASSUME TypeOK, stack # <<>>, NEW a \in {"function", "append"}
  PROVE  LET c == [bus |-> Top.bus, device |-> Top.device, function |-> Top.function,
                   at |-> a]
         IN  c \in Frame /\ [stack EXCEPT ![Depth].at = a] = [stack EXCEPT ![Depth] = c]
<1> DEFINE c == [bus |-> Top.bus, device |-> Top.device, function |-> Top.function,
                 at |-> a]
<1>1. Top \in Frame /\ Top = stack[Depth] /\ Depth \in DOMAIN stack
      /\ stack \in Seq(Frame)
  BY StackTop DEF TypeOK
<1>2. c \in Frame
  BY <1>1 DEF Frame
<1>3. [stack EXCEPT ![Depth].at = a] = [stack EXCEPT ![Depth] = c]
  <2>1. Top = [bus |-> Top.bus, device |-> Top.device, function |-> Top.function,
               at |-> Top.at]
    BY <1>1 DEF Frame
  <2>2. [Top EXCEPT !.at = a] = c
    BY <2>1
  <2>3. [stack EXCEPT ![Depth].at = a] = [stack EXCEPT ![Depth] = [Top EXCEPT !.at = a]]
    BY <1>1
  <2>4. QED
    BY <2>2, <2>3
<1>4. QED
  BY <1>2, <1>3

LEMMA CheckDeviceInv ==
  ASSUME IndInv, CheckDevice
  PROVE  IndInv'
<1>1. /\ stack # <<>> /\ Top.at = "device" /\ Top.device <= LastDevice
      /\ UNCHANGED <<machine, at, host, pci_connected_devices>>
      /\ machine \in Topologies /\ TypeOK
  BY DEF CheckDevice, Scanning, IndInv, TypeOK
<1>2. /\ Top \in Frame /\ Here = Place(Top) /\ Top = stack[Depth]
      /\ Depth \in DOMAIN stack
  BY <1>1, StackTop
<1>3. Top.function = 0
  BY <1>1, <1>2 DEF IndInv, FramesSound
<1>4. Here = <<Top.bus, Top.device, 0>>
  BY <1>2, <1>3 DEF Place
<1>5. CASE Connected(Here)
  <2> DEFINE c == [bus |-> Top.bus, device |-> Top.device, function |-> Top.function,
                   at |-> "function"]
  <2>1. c \in Frame /\ stack' = [stack EXCEPT ![Depth] = c]
    BY <1>1, <1>5, StatementStep DEF CheckDevice
  <2>2. Place(c) = Here /\ Here \in DOMAIN machine.behind
    BY <1>2, <1>5, NotConnected DEF Place
  <2>3. Here[1] = Top.bus /\ Here[2] = Top.device /\ Here[3] = 0
    BY <1>4
  <2>4. Place(c) \in Found
    BY <1>4, <2>2, <2>3 DEF Found, Reported
  <2>5. \A f : Before(f, c) <=> Before(f, Top)
    BY DEF Before
  <2>6. c.bus = Top.bus /\ c.at = "function"
    OBVIOUS
  <2> HIDE DEF c
  <2>7. QED
    BY <1>1, <2>1, <2>4, <2>5, <2>6, MoveInv
<1>6. CASE ~Connected(Here)
  <2> DEFINE c == [bus |-> Top.bus, device |-> Top.device + 1, function |-> 0,
                   at |-> "device"]
  <2>1. c \in Frame /\ stack' = [stack EXCEPT ![Depth] = c]
    BY <1>1, <1>6, DeviceStep DEF CheckDevice, SkipDevice
  <2>2. Here \notin DOMAIN machine.behind
    BY <1>1, <1>6, HeaderRead
  <2>3. ASSUME NEW f \in Found, f[1] = Top.bus
        PROVE  Before(f, c) <=> Before(f, Top)
    <3>1. /\ <<f[1], f[2], 0>> \in DOMAIN machine.behind
          /\ f[2] \in 0 .. Devices - 1 /\ f[3] \in 0 .. Functions - 1
      BY <1>1, FoundSound
    <3>2. f[2] # Top.device
      BY <1>4, <2>2, <2>3, <3>1
    <3>3. Top.device \in Int /\ f[2] \in Int /\ f[3] >= 0 /\ f[3] \in Int
      BY <1>2, <3>1, Numbers DEF Frame
    <3>4. QED
      BY <1>3, <3>2, <3>3 DEF Before
  <2>4. c.bus = Top.bus /\ c.at = "device" /\ c.function = 0
    OBVIOUS
  <2> HIDE DEF c
  <2>5. QED
    BY <1>1, <2>1, <2>3, <2>4, MoveInv
<1>7. QED
  BY <1>5, <1>6

LEMMA RunOutInv ==
  ASSUME IndInv, RunOut
  PROVE  IndInv'
<1>1. /\ stack # <<>> /\ pci_connected_devices' = <<>> /\ at' = "aborted"
      /\ UNCHANGED <<machine, host, stack>>
  BY DEF RunOut, Scanning
<1>2. Found' = Found /\ (Single' <=> Single) /\ (\A S : Closed(S)' <=> Closed(S))
  BY <1>1, SameMachine
<1>3. DOMAIN pci_connected_devices' = {}
  BY <1>1
<1>4. Listed' = {} /\ NoneTwice'
  BY <1>3 DEF Listed, NoneTwice
<1>5. TypeOK'
  BY <1>1 DEF IndInv, TypeOK
<1>6. FramesSound' /\ BusesGrow'
  BY <1>1, <1>2 DEF IndInv, FramesSound, BusesGrow, Place
<1>7. HostsSound' /\ ListSound' /\ OnlyReachable'
  BY <1>1, <1>4 DEF HostsSound, ListSound, OnlyReachable
<1>8. QED
  BY <1>4, <1>5, <1>6, <1>7 DEF IndInv

\* A step of a bus scan is one of the scan of bus 0, or of nothing.
LEMMA ScanAt ==
  ASSUME IndInv, at # "aborted", stack # <<>>
  PROVE  \/ at = "last_bus" /\ Single
         \/ at = "hosts" /\ ~Single /\ DOMAIN machine.behind = {} /\ Found = {}
<1>1. at \in {"header", "hosts", "last_bus", "done"}
  BY DEF IndInv, TypeOK
<1>2. at # "header" /\ at # "done"
  BY DEF IndInv, HostsSound
<1>3. at = "hosts" => ~Single /\ DOMAIN machine.behind = {}
  BY DEF IndInv, HostsSound
<1>4. at = "last_bus" => Single
  BY DEF IndInv, HostsSound
<1>5. DOMAIN machine.behind = {} => Found = {}
  BY DEF Found
<1>6. QED
  BY <1>1, <1>2, <1>3, <1>4, <1>5

\* The function the scan is at is not in the list yet.
LEMMA HereNew ==
  ASSUME IndInv, at # "aborted", stack # <<>>, Top.at # "device"
  PROVE  /\ at = "last_bus" /\ Single
         /\ Here \in Found /\ Here \notin Listed
         /\ Here[1] = Top.bus /\ Here[2] = Top.device /\ Here[3] = Top.function
         /\ ~Passed(Here)
         /\ ~BusDone(Top.bus)
<1>1. /\ Depth \in DOMAIN stack /\ Top = stack[Depth] /\ Here = Place(Top)
      /\ Top \in Frame
      /\ \A n \in DOMAIN stack : stack[n] \in Frame /\ n \in Nat
  BY StackTop DEF IndInv
<1>2. Here \in Found
  BY <1>1 DEF IndInv, FramesSound
<1>3. at = "last_bus" /\ Single
  BY <1>2, ScanAt
<1>4. Here[1] = Top.bus /\ Here[2] = Top.device /\ Here[3] = Top.function
  BY <1>1 DEF Place
<1>5. \A n \in DOMAIN stack : stack[n].bus = Top.bus => n = Depth
  <2> SUFFICES ASSUME NEW n \in DOMAIN stack, stack[n].bus = Top.bus, n # Depth
               PROVE  FALSE
    OBVIOUS
  <2>1. n < Depth \/ Depth < n
    BY <1>1
  <2>2. stack[n].bus < stack[Depth].bus \/ stack[Depth].bus < stack[n].bus
    BY <1>1, <2>1 DEF IndInv, BusesGrow
  <2>3. stack[n].bus \in Nat
    BY <1>1 DEF Frame
  <2>4. QED
    BY <1>1, <2>2, <2>3
<1>6. ~Before(Here, Top)
  <2>1. Top.device \in 0 .. Devices /\ Top.function \in 0 .. Functions - 1
        /\ Devices \in Int /\ Functions - 1 \in Int
    BY <1>1, Numbers DEF Frame
  <2>2. Top.device \in Int /\ Top.function \in Int
    BY <2>1
  <2>3. QED
    BY <1>4, <2>2 DEF Before
<1>7. ~Passed(Here)
  BY <1>1, <1>4, <1>5, <1>6 DEF Passed
<1>8. ~BusDone(Top.bus)
  BY <1>1, <1>3 DEF IndInv, ListSound
<1>9. Here \notin Listed
  BY <1>3, <1>4, <1>7, <1>8 DEF IndInv, ListSound
<1>10. QED
  BY <1>2, <1>3, <1>4, <1>7, <1>8, <1>9

LEMMA LeastLeft ==
  ASSUME NEW S, S \subseteq 1 .. 7, S # {}
  PROVE  \E f \in S : \A g \in S : f <= g
<1>1. \A g \in S : g = 1 \/ g = 2 \/ g = 3 \/ g = 4 \/ g = 5 \/ g = 6 \/ g = 7
  OBVIOUS
<1>2. CASE 1 \in S
  BY <1>1, <1>2
<1>3. CASE 1 \notin S /\ 2 \in S
  BY <1>1, <1>3
<1>4. CASE 1 \notin S /\ 2 \notin S /\ 3 \in S
  BY <1>1, <1>4
<1>5. CASE 1 \notin S /\ 2 \notin S /\ 3 \notin S
  <2>1. \A g \in S : g = 4 \/ g = 5 \/ g = 6 \/ g = 7
    BY <1>1, <1>5
  <2>2. CASE 4 \in S
    BY <2>1, <2>2
  <2>3. CASE 4 \notin S /\ 5 \in S
    BY <2>1, <2>3
  <2>4. CASE 4 \notin S /\ 5 \notin S /\ 6 \in S
    BY <2>1, <2>4
  <2>5. CASE 4 \notin S /\ 5 \notin S /\ 6 \notin S
    <3>1. PICK f \in S : f = 7
      BY <2>1, <2>5
    <3>2. \A g \in S : g = 7
      BY <2>1, <2>5
    <3>3. \A g \in S : f <= g
      BY <3>1, <3>2
    <3>4. QED
      BY <3>3
  <2>6. QED
    BY <2>2, <2>3, <2>4, <2>5
<1>6. QED
  BY <1>2, <1>3, <1>4, <1>5

\* What FunctionsLeft is of the functions that are there.
LEMMA Left ==
  ASSUME TypeOK, stack # <<>>, Here \in Found
  PROVE  /\ FunctionsLeft \subseteq 1 .. 7 /\ FunctionsLeft \subseteq 0 .. Functions - 1
         /\ \A f \in FunctionsLeft : f > Top.function /\ <<Top.bus, Top.device, f>> \in Found
         /\ \A f \in Found : f[1] = Top.bus /\ f[2] = Top.device /\ f[3] > Top.function
                              => f[3] \in FunctionsLeft
         /\ Top.device \in 0 .. Devices - 1 /\ Top.function \in 0 .. Functions - 1
         /\ Top.bus \in Nat
<1>1. machine \in Topologies /\ Top \in Frame /\ Here = <<Top.bus, Top.device, Top.function>>
  BY StackTop DEF TypeOK, Place
<1>2. /\ Top.device \in 0 .. Devices - 1 /\ Top.function \in 0 .. Functions - 1
      /\ Top.bus \in Nat /\ <<Top.bus, Top.device, 0>> \in DOMAIN machine.behind
  BY <1>1, FoundSound
<1>3. Functions \in 1 .. 8 /\ Top.function \in Nat
  BY <1>2, Numbers
<1>4. FunctionsLeft \subseteq Top.function + 1 .. Functions - 1
  BY DEF FunctionsLeft
<1>5. FunctionsLeft \subseteq 1 .. 7 /\ FunctionsLeft \subseteq 0 .. Functions - 1
      /\ \A f \in FunctionsLeft : f > Top.function
  BY <1>3, <1>4
<1>6. MultiFunction(Top.bus, Top.device) <=> <<Top.bus, Top.device>> \in machine.multi
  BY <1>1, <1>2, MultiRead
<1>7. ASSUME NEW f \in FunctionsLeft
      PROVE  <<Top.bus, Top.device, f>> \in Found
  <2> DEFINE g == <<Top.bus, Top.device, f>>
  <2>1. <<Top.bus, Top.device>> \in machine.multi /\ Connected(g)
    BY <1>6 DEF FunctionsLeft
  <2>2. g \in DOMAIN machine.behind
    BY <2>1, NotConnected
  <2>3. g[1] = Top.bus /\ g[2] = Top.device
    OBVIOUS
  <2> HIDE DEF g
  <2>4. g \in Found
    BY <1>2, <2>1, <2>2, <2>3 DEF Found, Reported
  <2>5. QED
    BY <2>4 DEF g
<1>8. ASSUME NEW f \in Found, f[1] = Top.bus, f[2] = Top.device, f[3] > Top.function
      PROVE  f[3] \in FunctionsLeft
  <2>1. /\ f \in DOMAIN machine.behind /\ f = <<f[1], f[2], f[3]>>
        /\ f[3] \in 0 .. Functions - 1
        /\ f[3] = 0 \/ <<f[1], f[2]>> \in machine.multi
    BY <1>1, FoundSound
  <2>2. f[3] \in Top.function + 1 .. Functions - 1 /\ f[3] # 0
    BY <1>3, <1>8, <2>1
  <2>3. Connected(f) /\ f = <<Top.bus, Top.device, f[3]>>
    BY <1>1, <1>8, <2>1, HeaderRead
  <2>4. MultiFunction(Top.bus, Top.device)
    BY <1>6, <1>8, <2>1, <2>2
  <2>5. QED
    BY <2>2, <2>3, <2>4 DEF FunctionsLeft
<1>9. QED
  BY <1>2, <1>5, <1>7, <1>8

\* Where NextFunction goes: past the function that was appended and no other.
LEMMA FunctionStep ==
  ASSUME IndInv, stack # <<>>, Top.at = "append", Here \in Found
  PROVE  \E c \in Frame :
           /\ NextFunction = [stack EXCEPT ![Depth] = c]
           /\ c.bus = Top.bus /\ c.at \in {"device", "function"}
           /\ c.at = "device" => c.function = 0
           /\ c.at = "function" => Place(c) \in Found
           /\ \A f \in Found : f[1] = Top.bus =>
                (Before(f, c) <=> Before(f, Top) \/ f = Here)
<1>1. /\ TypeOK /\ Top \in Frame /\ Here = <<Top.bus, Top.device, Top.function>>
      /\ stack \in Seq(Frame) /\ Depth \in DOMAIN stack /\ Top = stack[Depth]
      /\ machine \in Topologies
  BY StackTop DEF IndInv, TypeOK, Place
<1>2. /\ FunctionsLeft \subseteq 1 .. 7 /\ FunctionsLeft \subseteq 0 .. Functions - 1
      /\ \A f \in FunctionsLeft : f > Top.function /\ <<Top.bus, Top.device, f>> \in Found
      /\ \A f \in Found : f[1] = Top.bus /\ f[2] = Top.device /\ f[3] > Top.function
                           => f[3] \in FunctionsLeft
      /\ Top.device \in 0 .. Devices - 1 /\ Top.function \in 0 .. Functions - 1
      /\ Top.bus \in Nat
  BY <1>1, Left
<1>3. Top.device \in Nat /\ Top.function \in Nat /\ Top.device <= LastDevice
  <2>1. Devices - 1 \in Int /\ Functions - 1 \in Int
    BY Numbers
  <2>2. QED
    BY <1>2, <2>1 DEF LastDevice
<1>4. ASSUME NEW f \in Found
      PROVE  /\ f[2] \in Nat /\ f[3] \in Nat /\ f = <<f[1], f[2], f[3]>>
             /\ f[1] = Top.bus =>
                  (f = Here <=> f[2] = Top.device /\ f[3] = Top.function)
  <2>1. f[2] \in 0 .. Devices - 1 /\ f[3] \in 0 .. Functions - 1 /\ f = <<f[1], f[2], f[3]>>
    BY <1>1, FoundSound
  <2>2. Devices - 1 \in Int /\ Functions - 1 \in Int
    BY Numbers
  <2>3. QED
    BY <1>1, <2>1, <2>2
<1>5. CASE FunctionsLeft = {}
  <2> DEFINE c == [bus |-> Top.bus, device |-> Top.device + 1, function |-> 0,
                   at |-> "device"]
  <2>1. c \in Frame /\ NextFunction = [stack EXCEPT ![Depth] = c]
    BY <1>1, <1>3, <1>5, DeviceStep DEF NextFunction
  <2>2. c.bus = Top.bus /\ c.at = "device" /\ c.device = Top.device + 1 /\ c.function = 0
    OBVIOUS
  <2> HIDE DEF c
  <2>3. ASSUME NEW f \in Found, f[1] = Top.bus
        PROVE  Before(f, c) <=> Before(f, Top) \/ f = Here
    <3>1. f[2] \in Nat /\ f[3] \in Nat
          /\ (f = Here <=> f[2] = Top.device /\ f[3] = Top.function)
      BY <1>4, <2>3
    <3>2. f[2] = Top.device => ~(f[3] > Top.function)
      BY <1>2, <1>5, <2>3
    <3>3. QED
      BY <1>3, <2>2, <3>1, <3>2 DEF Before
  <2>4. QED
    BY <2>1, <2>2, <2>3
<1>6. CASE FunctionsLeft # {}
  <2> DEFINE least(f) == f \in FunctionsLeft /\ \A g \in FunctionsLeft : f <= g
             m == CHOOSE f \in FunctionsLeft : \A g \in FunctionsLeft : f <= g
             c == [bus |-> Top.bus, device |-> Top.device, function |-> m,
                   at |-> "function"]
  <2>1. m \in FunctionsLeft /\ \A g \in FunctionsLeft : m <= g
    <3>1. \E f \in FunctionsLeft : \A g \in FunctionsLeft : f <= g
      BY <1>2, <1>6, LeastLeft
    <3>2. QED
      BY <3>1
  <2>2. NextFunction = [stack EXCEPT ![Depth].function = m, ![Depth].at = "function"]
    BY <1>6 DEF NextFunction
  <2> HIDE DEF m
  <2>3. m \in 0 .. Functions - 1 /\ m > Top.function /\ m \in 1 .. 7
    BY <1>2, <2>1
  <2>4. c \in Frame
    <3>1. Top.device \in 0 .. Devices
      BY <1>1 DEF Frame
    <3>2. QED
      BY <1>2, <2>3, <3>1 DEF Frame
  <2>5. NextFunction = [stack EXCEPT ![Depth] = c]
    <3> DEFINE u == [bus |-> Top.bus, device |-> Top.device, function |-> m,
                     at |-> Top.at]
    <3>1. Top = [bus |-> Top.bus, device |-> Top.device, function |-> Top.function,
                 at |-> Top.at]
      BY <1>1 DEF Frame
    <3>2. [Top EXCEPT !.function = m] = u
      BY <3>1
    <3>3. [u EXCEPT !.at = "function"] = c
      OBVIOUS
    <3>4. [Top EXCEPT !.function = m, !.at = "function"] = c
      <4> HIDE DEF u, c
      <4>1. QED
        BY <3>2, <3>3
    <3>5. NextFunction = [stack EXCEPT ![Depth] =
                            [Top EXCEPT !.function = m, !.at = "function"]]
      BY <1>1, <2>2
    <3>6. QED
      BY <3>4, <3>5
  <2>6. c.bus = Top.bus /\ c.at = "function" /\ c.device = Top.device /\ c.function = m
    OBVIOUS
  <2>7. Place(c) \in Found
    BY <1>2, <2>1 DEF Place
  <2> HIDE DEF c
  <2>8. ASSUME NEW f \in Found, f[1] = Top.bus
        PROVE  Before(f, c) <=> Before(f, Top) \/ f = Here
    <3>1. f[2] \in Nat /\ f[3] \in Nat
          /\ (f = Here <=> f[2] = Top.device /\ f[3] = Top.function)
      BY <1>4, <2>8
    <3>2. f[2] = Top.device /\ f[3] > Top.function => m <= f[3]
      BY <1>2, <2>1, <2>8
    <3>3. m \in Int /\ m > Top.function
      BY <2>3
    <3>4. QED
      BY <1>3, <2>6, <3>1, <3>2, <3>3 DEF Before
  <2>9. QED
    BY <2>4, <2>5, <2>6, <2>7, <2>8
<1>7. QED
  BY <1>5, <1>6

LEMMA AppendFunctionInv ==
  ASSUME IndInv, AppendFunction
  PROVE  IndInv'
<1>1. /\ stack # <<>> /\ Top.at = "append" /\ at # "aborted"
      /\ pci_connected_devices' = Append(pci_connected_devices, Here)
      /\ stack' = NextFunction /\ UNCHANGED <<machine, at, host>>
      /\ machine \in Topologies /\ TypeOK
  BY DEF AppendFunction, Scanning, IndInv, TypeOK
<1>2. /\ at = "last_bus" /\ Single /\ Here \in Found /\ Here \notin Listed
      /\ Here[1] = Top.bus /\ ~Passed(Here) /\ ~BusDone(Top.bus)
  BY <1>1, HereNew
<1>3. PICK c \in Frame :
        /\ stack' = [stack EXCEPT ![Depth] = c]
        /\ c.bus = Top.bus /\ c.at \in {"device", "function"}
        /\ c.at = "device" => c.function = 0
        /\ c.at = "function" => Place(c) \in Found
        /\ \A f \in Found : f[1] = Top.bus =>
             (Before(f, c) <=> Before(f, Top) \/ f = Here)
  BY <1>1, <1>2, FunctionStep
<1>4. /\ stack' \in Seq(Frame) /\ stack' # <<>> /\ Depth' = Depth
      /\ Len(stack') = Len(stack) /\ DOMAIN stack' = DOMAIN stack
      /\ \A n \in DOMAIN stack : n # Depth => n < Depth /\ stack'[n] = stack[n]
      /\ stack'[Depth] = c /\ Top' = c /\ Here' = Place(c)
      /\ \A n \in DOMAIN stack : stack'[n].bus = stack[n].bus
  BY <1>1, <1>3, TopStep
<1>5. /\ Depth \in Nat \ {0} /\ Depth = Len(stack) /\ Depth \in DOMAIN stack
      /\ DOMAIN stack = 1 .. Depth /\ Top = stack[Depth]
      /\ \A n \in DOMAIN stack : stack[n] \in Frame /\ n \in Nat
  BY <1>1, StackTop
<1>6. Found' = Found /\ (Single' <=> Single)
      /\ (\A S : Closed(S)' <=> Closed(S))
      /\ (\A S, b : BusKnown(S, b)' <=> BusKnown(S, b))
  BY <1>1, SameMachine
<1>7. Here \in Nat \X Nat \X Nat
  <2>1. Here = <<Here[1], Here[2], Here[3]>> /\ Here[1] \in Nat
        /\ Here[2] \in 0 .. Devices - 1 /\ Here[3] \in 0 .. Functions - 1
    BY <1>1, <1>2, FoundSound
  <2>2. Here[2] \in Nat /\ Here[3] \in Nat
    BY <2>1, Numbers
  <2>3. QED
    BY <2>1, <2>2
<1> DEFINE L == pci_connected_devices
<1>8. /\ L' \in Seq(Nat \X Nat \X Nat)
      /\ DOMAIN L = 1 .. Len(L) /\ DOMAIN L' = 1 .. Len(L) + 1 /\ Len(L) \in Nat
      /\ \A n \in DOMAIN L : L'[n] = L[n]
      /\ L'[Len(L) + 1] = Here
  <2> DEFINE H  == Here
             M  == L'
             S  == Nat \X Nat \X Nat
  <2>1. L \in Seq(S) /\ M = Append(L, H) /\ H \in S
    BY <1>1, <1>7 DEF TypeOK
  <2> HIDE DEF H, L, M, S
  <2>2. /\ M \in Seq(S)
        /\ DOMAIN L = 1 .. Len(L) /\ DOMAIN M = 1 .. Len(L) + 1 /\ Len(L) \in Nat
        /\ \A n \in DOMAIN L : M[n] = L[n]
        /\ M[Len(L) + 1] = H
    BY <2>1
  <2>3. QED
    BY <2>2 DEF H, M, S
<1> HIDE DEF L
<1>9. Listed = {L[n] : n \in DOMAIN L} /\ Listed' = {L'[n] : n \in DOMAIN L'}
  BY DEF Listed, L
<1>10. Listed' = Listed \cup {Here}
  <2>1. \A n \in DOMAIN L' : n \in DOMAIN L \/ n = Len(L) + 1
    BY <1>8
  <2>2. Len(L) + 1 \in DOMAIN L' /\ \A n \in DOMAIN L : n \in DOMAIN L'
    BY <1>8
  <2>3. Listed' \subseteq Listed \cup {Here}
    BY <1>8, <1>9, <2>1
  <2>4. Listed \subseteq Listed' /\ Here \in Listed'
    BY <1>8, <1>9, <2>2
  <2>5. QED
    BY <2>3, <2>4
<1>11. NoneTwice'
  <2>1. \A m, n \in DOMAIN L : m # n => L[m] # L[n]
    BY DEF IndInv, NoneTwice, L
  <2>2. \A n \in DOMAIN L : L[n] # Here
    BY <1>2, <1>9
  <2>3. \A m, n \in DOMAIN L' : m # n => L'[m] # L'[n]
    <3> SUFFICES ASSUME NEW m \in DOMAIN L', NEW n \in DOMAIN L', m # n
                 PROVE  L'[m] # L'[n]
      OBVIOUS
    <3>1. m \in DOMAIN L \/ m = Len(L) + 1
      BY <1>8
    <3>2. n \in DOMAIN L \/ n = Len(L) + 1
      BY <1>8
    <3>3. QED
      BY <1>8, <2>1, <2>2, <3>1, <3>2
  <2>4. QED
    BY <2>3 DEF NoneTwice, L
<1>12. TypeOK'
  BY <1>1, <1>4, <1>8 DEF TypeOK, L
<1>13. FramesSound' /\ BusesGrow'
  BY <1>1, <1>3, StepFrames DEF IndInv
<1>14. HostsSound'
  <2>1. 1 \in DOMAIN stack
    BY <1>5
  <2>2. stack'[1].bus = stack[1].bus
    BY <1>4, <2>1
  <2>3. at' = "last_bus" /\ Single'
    BY <1>1, <1>2, <1>6
  <2>4. stack[1].bus = 0
    BY <1>1, <1>2 DEF IndInv, HostsSound
  <2>5. QED
    BY <2>2, <2>3, <2>4 DEF HostsSound
<1>15. \A f \in Found : Passed(f)' <=> Passed(f) \/ f = Here
  <2> TAKE f \in Found
  <2>1. Passed(f) <=> \/ \E n \in DOMAIN stack : n # Depth /\ stack[n].bus = f[1]
                                                 /\ Before(f, stack[n])
                      \/ Top.bus = f[1] /\ Before(f, Top)
    BY <1>5 DEF Passed
  <2>2. Passed(f)' <=> \E n \in DOMAIN stack : stack'[n].bus = f[1]
                                              /\ Before(f, stack'[n])
    BY <1>4 DEF Passed, Before
  <2>3. Passed(f)' <=> \/ \E n \in DOMAIN stack : n # Depth /\ stack[n].bus = f[1]
                                                  /\ Before(f, stack[n])
                       \/ Top.bus = f[1] /\ Before(f, c)
    BY <1>3, <1>4, <1>5, <2>2
  <2>4. QED
    BY <1>2, <1>3, <2>1, <2>3
<1>16. \A b : BusDone(b)' <=> BusDone(b)
  <2> TAKE b
  <2>1. BusDone(b) <=> \E g \in Found : machine.behind[g] = b /\ (g \in Listed \/ g = Here)
    BY <1>1, BusDoneBridge
  <2>2. BusDone(b)' <=> \E g \in Found : machine.behind[g] = b /\ g \in Listed'
    BY <1>1, <1>3, <1>4, <1>6 DEF BusDone, Over
  <2>3. QED
    BY <1>10, <2>1, <2>2
<1>17. ListSound'
  <2>1. /\ \A f \in Listed : f \in Found /\ (Passed(f) \/ BusDone(f[1]))
        /\ \A f \in Found  : Passed(f) \/ BusDone(f[1]) => f \in Listed
        /\ \A n \in DOMAIN stack : ~BusDone(stack[n].bus)
    BY <1>1, <1>2 DEF IndInv, ListSound
  <2>2. \A f \in Listed' : f \in Found' /\ (Passed(f)' \/ BusDone(f[1])')
    BY <1>2, <1>6, <1>10, <1>15, <1>16, <2>1
  <2>3. \A f \in Found' : Passed(f)' \/ BusDone(f[1])' => f \in Listed'
    BY <1>6, <1>10, <1>15, <1>16, <2>1
  <2>4. (\A n \in DOMAIN stack : ~BusDone(stack[n].bus))'
    BY <1>4, <1>16, <2>1
  <2>5. QED
    BY <2>2, <2>3, <2>4 DEF ListSound
<1>18. OnlyReachable'
  <2> SUFFICES ASSUME NEW S \in SUBSET Found, Closed(S)
               PROVE  /\ Listed' \subseteq S
                      /\ \A n \in DOMAIN stack' : BusKnown(S, stack'[n].bus)
    BY <1>6 DEF OnlyReachable
  <2>1. Listed \subseteq S /\ \A n \in DOMAIN stack : BusKnown(S, stack[n].bus)
    BY <1>2 DEF IndInv, OnlyReachable
  <2>2. Here \in S
    BY <1>2, <1>5, <2>1 DEF Closed
  <2>3. QED
    BY <1>4, <1>10, <2>1, <2>2
<1>19. QED
  BY <1>11, <1>12, <1>13, <1>14, <1>17, <1>18 DEF IndInv

\* A bridge: the bus behind it is scanned before it is appended.
LEMMA DescendInv ==
  ASSUME IndInv, CheckFunction, IsBridge(Here)
  PROVE  IndInv'
<1>1. /\ stack # <<>> /\ Top.at = "function" /\ at # "aborted"
      /\ stack' = Descend([stack EXCEPT ![Depth].at = "append"])
      /\ UNCHANGED <<machine, at, host, pci_connected_devices>>
      /\ machine \in Topologies /\ TypeOK
  BY DEF CheckFunction, Scanning, IndInv, TypeOK
<1>2. /\ at = "last_bus" /\ Single /\ Here \in Found /\ Here \notin Listed
      /\ Here[1] = Top.bus
  BY <1>1, HereNew
<1>3. /\ Depth \in Nat \ {0} /\ Depth = Len(stack) /\ Depth \in DOMAIN stack
      /\ DOMAIN stack = 1 .. Depth /\ Top = stack[Depth] /\ Here = Place(Top)
      /\ stack \in Seq(Frame) /\ Top \in Frame
      /\ \A n \in DOMAIN stack : stack[n] \in Frame /\ n \in Nat
  BY <1>1, StackTop DEF TypeOK
<1>4. Found' = Found /\ (Single' <=> Single)
      /\ (\A S : Closed(S)' <=> Closed(S))
      /\ (\A S, b : BusKnown(S, b)' <=> BusKnown(S, b))
  BY <1>1, SameMachine
<1>5. Listed' = Listed /\ (NoneTwice' <=> NoneTwice)
  BY <1>1, SameList
<1> DEFINE bus == machine.behind[Here]
           t == [bus |-> Top.bus, device |-> Top.device, function |-> Top.function,
                 at |-> "append"]
           s == [stack EXCEPT ![Depth] = t]
           c == BusFrame(bus)
<1>6. SecondaryBus(Here) = bus /\ bus \in Nat /\ bus > Top.bus /\ bus # None
  <2>1. Here \in DOMAIN machine.behind
    BY <1>1, <1>2, FoundSound
  <2>2. bus # None
    BY <1>1, <2>1, HeaderRead
  <2>3. bus \in Here[1] + 1 .. 255 /\ Here[1] \in Nat
    BY <1>1, <2>1, <2>2, Numbered
  <2>4. SecondaryBus(Here) = bus
    BY <1>1, <2>1, <2>2, HeaderRead
  <2>5. bus \in Nat /\ bus > Top.bus
    BY <1>2, <2>3
  <2>6. QED
    BY <2>2, <2>4, <2>5
<1>7. c \in Frame /\ c.bus = bus /\ c.at = "device" /\ c.function = 0 /\ c.device = 0
  BY <1>6, FirstFrame DEF BusFrame
<1>8. t \in Frame /\ [stack EXCEPT ![Depth].at = "append"] = s
  BY <1>1, StatementStep
<1>9. t.bus = Top.bus /\ t.at = "append" /\ Place(t) = Here
      /\ \A f : Before(f, t) <=> Before(f, Top)
  BY <1>3 DEF Place, Before
<1>10. stack' = Append(s, c)
  BY <1>1, <1>6, <1>8 DEF Descend
<1> HIDE DEF bus, t, c
<1>11. /\ s \in Seq(Frame) /\ Len(s) = Depth
       /\ \A n \in 1 .. Depth : s[n] = IF n = Depth THEN t ELSE stack[n]
  BY <1>3, <1>8, ExceptSeq
<1> HIDE DEF s
<1>12. /\ stack' \in Seq(Frame) /\ stack' # <<>> /\ Len(stack') = Depth + 1
       /\ DOMAIN stack' = 1 .. Depth + 1
       /\ \A n \in 1 .. Depth : stack'[n] = s[n]
       /\ stack'[Depth + 1] = c /\ Top' = c
  BY <1>7, <1>10, <1>11, PushStep
<1>13. /\ \A n \in DOMAIN stack : n # Depth => n < Depth /\ stack'[n] = stack[n]
       /\ stack'[Depth] = t
       /\ \A n \in DOMAIN stack : stack'[n].bus = stack[n].bus /\ n \in DOMAIN stack'
       /\ \A n \in DOMAIN stack' : n \in DOMAIN stack \/ n = Depth + 1
  BY <1>3, <1>9, <1>11, <1>12
<1>14. TypeOK'
  BY <1>1, <1>12 DEF TypeOK
<1>15. FramesSound'
  <2> SUFFICES ASSUME NEW n \in DOMAIN stack'
               PROVE  /\ stack'[n].at = "device" => stack'[n].function = 0
                      /\ stack'[n].at # "device" => Place(stack'[n]) \in Found
                      /\ n < Len(stack') =>
                           /\ stack'[n].at = "append"
                           /\ machine.behind[Place(stack'[n])] = stack'[n + 1].bus
    BY <1>1, <1>4 DEF FramesSound, Place
  <2>1. CASE n = Depth + 1
    BY <1>7, <1>12, <2>1
  <2>2. CASE n = Depth
    BY <1>2, <1>7, <1>9, <1>12, <1>13, <2>2 DEF bus
  <2>3. CASE n \in DOMAIN stack /\ n # Depth
    <3>1. n < Depth /\ stack'[n] = stack[n] /\ n + 1 \in DOMAIN stack
      BY <1>3, <1>13, <2>3
    <3>2. stack'[n + 1].bus = stack[n + 1].bus
      BY <1>13, <3>1
    <3>3. QED
      BY <1>3, <2>3, <3>1, <3>2 DEF IndInv, FramesSound
  <2>4. QED
    BY <1>13, <2>1, <2>2, <2>3
<1>16. BusesGrow'
  <2> SUFFICES ASSUME NEW m \in DOMAIN stack', NEW n \in DOMAIN stack', m < n
               PROVE  stack'[m].bus < stack'[n].bus
    BY DEF BusesGrow
  <2>1. CASE n \in DOMAIN stack
    <3>1. m \in DOMAIN stack
      BY <1>3, <1>12, <2>1
    <3>2. QED
      BY <1>13, <2>1, <3>1 DEF IndInv, BusesGrow
  <2>2. CASE n = Depth + 1
    <3>1. m \in DOMAIN stack /\ (m = Depth \/ m < Depth)
      BY <1>3, <1>12, <2>2
    <3>2. stack[m].bus = Top.bus \/ stack[m].bus < Top.bus
      BY <1>3, <3>1 DEF IndInv, BusesGrow
    <3>3. stack[m].bus \in Nat /\ Top.bus \in Nat
      BY <1>3, <3>1 DEF Frame
    <3>4. QED
      BY <1>6, <1>7, <1>12, <1>13, <2>2, <3>1, <3>2, <3>3
  <2>3. QED
    BY <1>13, <2>1, <2>2
<1>17. HostsSound'
  <2>1. 1 \in DOMAIN stack
    BY <1>3
  <2>2. stack'[1].bus = stack[1].bus
    BY <1>13, <2>1
  <2>3. at' = "last_bus" /\ Single'
    BY <1>1, <1>2, <1>4
  <2>4. stack[1].bus = 0
    BY <1>1, <1>2 DEF IndInv, HostsSound
  <2>5. QED
    BY <2>2, <2>3, <2>4 DEF HostsSound
<1>18. \A f \in Found : Passed(f)' <=> Passed(f)
  <2> TAKE f \in Found
  <2>1. ~Before(f, c)
    <3>1. f[2] \in 0 .. Devices - 1 /\ f[3] \in 0 .. Functions - 1
      BY <1>1, FoundSound
    <3>2. f[2] \in Nat /\ f[3] \in Nat
      BY <3>1, Numbers
    <3>3. QED
      BY <1>7, <3>2 DEF Before
  <2>2. Passed(f)' <=> \E n \in DOMAIN stack' : stack'[n].bus = f[1]
                                               /\ Before(f, stack'[n])
    BY DEF Passed, Before
  <2>3. \A n \in DOMAIN stack : Before(f, stack'[n]) <=> Before(f, stack[n])
    BY <1>3, <1>9, <1>13
  <2>4. Passed(f)' <=> \E n \in DOMAIN stack : stack'[n].bus = f[1]
                                               /\ Before(f, stack'[n])
    BY <1>12, <1>13, <2>1, <2>2
  <2>5. QED
    BY <1>13, <2>3, <2>4 DEF Passed
<1>19. \A b : (BusDone(b)' <=> BusDone(b))
               /\ (BusDone(b) <=> \E g \in Found : machine.behind[g] = b /\ g \in Listed)
  <2> TAKE b
  <2>1. BusDone(b) <=> \E g \in Found : machine.behind[g] = b /\ g \in Listed
    BY <1>1, BusDoneBridge
  <2>2. BusDone(b)' <=> \E g \in Found : machine.behind[g] = b /\ g \in Listed
    BY <1>1, <1>4, <1>5, <1>7, <1>12 DEF BusDone, Over
  <2>3. QED
    BY <2>1, <2>2
<1>20. ~BusDone(bus)
  <2> SUFFICES ASSUME NEW g \in Found, machine.behind[g] = bus, g \in Listed
               PROVE  FALSE
    BY <1>19
  <2>1. g \in DOMAIN machine.behind /\ Here \in DOMAIN machine.behind
    BY <1>2 DEF Found
  <2>2. g = Here
    BY <1>1, <1>6, <2>1, OneBridge DEF bus
  <2>3. QED
    BY <1>2, <2>2
<1>21. ListSound'
  <2>1. /\ \A f \in Listed : f \in Found /\ (Passed(f) \/ BusDone(f[1]))
        /\ \A f \in Found  : Passed(f) \/ BusDone(f[1]) => f \in Listed
        /\ \A n \in DOMAIN stack : ~BusDone(stack[n].bus)
    BY <1>1, <1>2 DEF IndInv, ListSound
  <2>2. \A n \in DOMAIN stack' : ~BusDone(stack'[n].bus)
    BY <1>7, <1>12, <1>13, <1>20, <2>1
  <2>3. (\A n \in DOMAIN stack : ~BusDone(stack[n].bus))'
    BY <1>19, <2>2
  <2>4. (\A f \in Listed : f \in Found /\ (Passed(f) \/ BusDone(f[1])))'
    BY <1>4, <1>5, <1>18, <1>19, <2>1
  <2>5. (\A f \in Found  : Passed(f) \/ BusDone(f[1]) => f \in Listed)'
    BY <1>4, <1>5, <1>18, <1>19, <2>1
  <2>6. QED
    BY <2>3, <2>4, <2>5 DEF ListSound
<1>22. OnlyReachable'
  <2> SUFFICES ASSUME NEW S \in SUBSET Found, Closed(S)
               PROVE  /\ Listed \subseteq S
                      /\ \A n \in DOMAIN stack' : BusKnown(S, stack'[n].bus)
    BY <1>4, <1>5 DEF OnlyReachable
  <2>1. Listed \subseteq S /\ \A n \in DOMAIN stack : BusKnown(S, stack[n].bus)
    BY <1>2 DEF IndInv, OnlyReachable
  <2>2. Here \in S
    BY <1>2, <1>3, <2>1 DEF Closed
  <2>3. BusKnown(S, bus)
    BY <2>2 DEF BusKnown, bus
  <2>4. QED
    BY <1>7, <1>12, <1>13, <2>1, <2>3
<1>23. QED
  BY <1>5, <1>14, <1>15, <1>16, <1>17, <1>21, <1>22 DEF IndInv

LEMMA CheckFunctionInv ==
  ASSUME IndInv, CheckFunction
  PROVE  IndInv'
<1>1. CASE IsBridge(Here)
  BY <1>1, DescendInv
<1>2. CASE ~IsBridge(Here)
  <2>1. /\ stack # <<>> /\ Top.at = "function" /\ at # "aborted"
        /\ stack' = [stack EXCEPT ![Depth].at = "append"]
        /\ UNCHANGED <<machine, at, host, pci_connected_devices>>
        /\ machine \in Topologies /\ TypeOK
    BY <1>2 DEF CheckFunction, Scanning, IndInv, TypeOK
  <2>2. Here \in Found /\ Here = Place(Top)
    BY <2>1, HereNew, StackTop
  <2>3. machine.behind[Here] = None
    BY <1>2, <2>1, <2>2, FoundSound, HeaderRead
  <2> DEFINE c == [bus |-> Top.bus, device |-> Top.device, function |-> Top.function,
                   at |-> "append"]
  <2>4. c \in Frame /\ stack' = [stack EXCEPT ![Depth] = c]
    BY <2>1, StatementStep
  <2>5. Place(c) = Here /\ c.bus = Top.bus /\ c.at = "append"
        /\ \A f : Before(f, c) <=> Before(f, Top)
    BY <2>2 DEF Place, Before
  <2> HIDE DEF c
  <2>6. QED
    BY <2>1, <2>2, <2>3, <2>4, <2>5, MoveInv
<1>3. QED
  BY <1>1, <1>2

\* A bus is over: its bridge, which is appended next, stands for it.
LEMMA BusEndInv ==
  ASSUME IndInv, BusEnd
  PROVE  IndInv'
<1>1. /\ stack # <<>> /\ Top.at = "device" /\ at # "aborted" /\ Top.device > LastDevice
      /\ stack' = SubSeq(stack, 1, Depth - 1)
      /\ UNCHANGED <<machine, at, host, pci_connected_devices>>
      /\ machine \in Topologies /\ TypeOK
  BY DEF BusEnd, Scanning, IndInv, TypeOK
<1>2. /\ Depth \in Nat \ {0} /\ Depth = Len(stack) /\ Depth \in DOMAIN stack
      /\ DOMAIN stack = 1 .. Depth /\ Top = stack[Depth]
      /\ stack \in Seq(Frame) /\ Top \in Frame
      /\ \A n \in DOMAIN stack : stack[n] \in Frame /\ n \in Nat
  BY <1>1, StackTop DEF TypeOK
<1>3. /\ stack' \in Seq(Frame) /\ Len(stack') = Depth - 1
      /\ DOMAIN stack' = 1 .. Depth - 1
      /\ \A n \in DOMAIN stack' : n \in DOMAIN stack /\ n < Depth /\ n \in Nat
                                  /\ stack'[n] = stack[n]
      /\ stack' # <<>> => Depth > 1 /\ Depth - 1 \in DOMAIN stack
                          /\ Top' = stack[Depth - 1]
                          /\ Here' = Place(stack[Depth - 1])
      /\ stack' = <<>> => Depth = 1
  BY <1>1, PopStep
<1>4. \A n \in DOMAIN stack : n < Depth => n \in DOMAIN stack'
  BY <1>2, <1>3
<1>5. Found' = Found /\ (Single' <=> Single)
      /\ (\A S : Closed(S)' <=> Closed(S))
      /\ (\A S, b : BusKnown(S, b)' <=> BusKnown(S, b))
  BY <1>1, SameMachine
<1>6. Listed' = Listed /\ (NoneTwice' <=> NoneTwice)
  BY <1>1, SameList
<1>7. TypeOK'
  BY <1>1, <1>3 DEF TypeOK
<1>8. BusesGrow'
  BY <1>3 DEF IndInv, BusesGrow
<1>9. FramesSound'
  <2> SUFFICES ASSUME NEW n \in DOMAIN stack'
               PROVE  /\ stack'[n].at = "device" => stack'[n].function = 0
                      /\ stack'[n].at # "device" => Place(stack'[n]) \in Found
                      /\ n < Len(stack') =>
                           /\ stack'[n].at = "append"
                           /\ machine.behind[Place(stack'[n])] = stack'[n + 1].bus
    BY <1>1, <1>5 DEF FramesSound, Place
  <2>1. n \in DOMAIN stack /\ n < Len(stack) /\ stack'[n] = stack[n] /\ n \in Nat
    BY <1>2, <1>3
  <2>2. n < Len(stack') => stack'[n + 1] = stack[n + 1]
    BY <1>2, <1>3, <2>1
  <2>3. QED
    BY <2>1, <2>2 DEF IndInv, FramesSound
<1>10. stack' # <<>> => stack'[1] = stack[1]
  BY <1>2, <1>3
<1>11. HostsSound'
  BY <1>1, <1>5, <1>10, ScanAt DEF IndInv, HostsSound
<1>12. OnlyReachable'
  BY <1>1, <1>3, <1>5, <1>6 DEF IndInv, OnlyReachable
<1>13. ASSUME Single
       PROVE  ListSound'
  <2>1. at = "last_bus" /\ at' = "last_bus"
    BY <1>1, <1>13, ScanAt
  <2>2. /\ \A f \in Listed : f \in Found /\ (Passed(f) \/ BusDone(f[1]))
        /\ \A f \in Found  : Passed(f) \/ BusDone(f[1]) => f \in Listed
        /\ \A n \in DOMAIN stack : ~BusDone(stack[n].bus)
    BY <1>1, <1>13 DEF IndInv, ListSound
  <2>3. \A f \in Found : f[1] = Top.bus => f \in Listed
    <3> SUFFICES ASSUME NEW f \in Found, f[1] = Top.bus
                 PROVE  Before(f, Top)
      BY <1>2, <2>2 DEF Passed
    <3>4. f[2] \in 0 .. Devices - 1
      BY <1>1, FoundSound
    <3>1. f[2] \in 0 .. Devices - 1 /\ Top.device \in 0 .. Devices /\ Devices \in Int
      BY <1>2, <3>4, Numbers DEF Frame
    <3>2. f[2] < Top.device
      BY <1>1, <3>1 DEF LastDevice
    <3>3. QED
      BY <3>2 DEF Before
  <2>4. \A n \in DOMAIN stack' : stack'[n].bus # Top.bus
    <3> SUFFICES ASSUME NEW n \in DOMAIN stack' PROVE stack'[n].bus # Top.bus
      OBVIOUS
    <3>1. n \in DOMAIN stack /\ n < Depth /\ stack'[n] = stack[n]
      BY <1>3
    <3>2. stack[n].bus < Top.bus
      BY <1>2, <3>1 DEF IndInv, BusesGrow
    <3>3. stack[n].bus \in Nat /\ Top.bus \in Nat
      BY <1>2, <3>1 DEF Frame
    <3>4. QED
      BY <3>1, <3>2, <3>3
  <2>5. \A f \in Found : Passed(f)' <=> Passed(f) /\ f[1] # Top.bus
    <3> TAKE f \in Found
    <3>1. Passed(f)' <=> \E n \in DOMAIN stack' : stack'[n].bus = f[1]
                                                 /\ Before(f, stack'[n])
      BY DEF Passed, Before
    <3>2. Passed(f)' => Passed(f) /\ f[1] # Top.bus
      BY <1>3, <2>4, <3>1 DEF Passed
    <3>3. ASSUME Passed(f), f[1] # Top.bus
          PROVE  Passed(f)'
      <4>1. PICK n \in DOMAIN stack : stack[n].bus = f[1] /\ Before(f, stack[n])
        BY <3>3 DEF Passed
      <4>2. n # Depth
        BY <1>2, <3>3, <4>1
      <4>3. n < Depth
        BY <1>2, <4>1, <4>2
      <4>4. n \in DOMAIN stack' /\ stack'[n] = stack[n]
        BY <1>3, <1>4, <4>1, <4>3
      <4>5. QED
        BY <3>1, <4>1, <4>4
    <3>4. QED
      BY <3>2, <3>3
  <2>6. \A b : BusDone(b)' <=> BusDone(b) \/ b = Top.bus
    <3> TAKE b
    <3>1. BusDone(b) <=> \E g \in Found : machine.behind[g] = b /\ g \in Listed
      BY <1>1, BusDoneBridge
    <3>2. CASE stack' = <<>>
      <4>1. Top.bus = 0
        BY <1>1, <1>2, <1>3, <2>1, <3>2 DEF IndInv, HostsSound
      <4>2. BusDone(b)' <=> b = 0 \/ \E g \in Found : machine.behind[g] = b /\ g \in Listed
        BY <1>1, <1>5, <1>6, <2>1, <3>2 DEF BusDone, Over
      <4>3. QED
        BY <3>1, <4>1, <4>2
    <3>3. CASE stack' # <<>>
      <4> DEFINE p == stack[Depth - 1]
      <4>1. /\ Depth - 1 \in DOMAIN stack /\ Depth - 1 < Len(stack) /\ Depth - 1 + 1 = Depth
            /\ Top' = p /\ Here' = Place(p)
        BY <1>2, <1>3, <3>3
      <4>2. p.at = "append" /\ machine.behind[Place(p)] = Top.bus
        BY <1>2, <4>1 DEF IndInv, FramesSound
      <4>3. Place(p) \in Found
        BY <4>1, <4>2 DEF IndInv, FramesSound
      <4>4. BusDone(b)' <=> \E g \in Found : machine.behind[g] = b /\
                              (g \in Listed \/ g = Place(p))
        BY <1>1, <1>5, <1>6, <3>3, <4>1, <4>2 DEF BusDone, Over
      <4>5. QED
        BY <3>1, <4>2, <4>3, <4>4
    <3>4. QED
      BY <3>2, <3>3
  <2>7. \A n \in DOMAIN stack' : ~BusDone(stack'[n].bus)
    BY <1>3, <2>2
  <2>8. (\A n \in DOMAIN stack : ~BusDone(stack[n].bus))'
    BY <2>4, <2>6, <2>7
  <2>9. (\A f \in Listed : f \in Found /\ (Passed(f) \/ BusDone(f[1])))'
    BY <1>5, <1>6, <2>2, <2>5, <2>6
  <2>10. (\A f \in Found  : Passed(f) \/ BusDone(f[1]) => f \in Listed)'
    BY <1>5, <1>6, <2>2, <2>3, <2>5, <2>6
  <2>11. QED
    BY <2>8, <2>9, <2>10 DEF ListSound
<1>14. ListSound'
  BY <1>5, <1>13 DEF ListSound
<1>15. QED
  BY <1>6, <1>7, <1>8, <1>9, <1>11, <1>12, <1>14 DEF IndInv

LEMMA StutterInv ==
  ASSUME IndInv, UNCHANGED vars
  PROVE  IndInv'
<1>1. /\ UNCHANGED <<machine, at, host, stack, pci_connected_devices>>
  BY DEF vars
<1>2. UNCHANGED <<Found, Listed, Top, Here, Depth>> /\ (Single' <=> Single)
      /\ (\A S : Closed(S)' <=> Closed(S))
      /\ (\A S, b : BusKnown(S, b)' <=> BusKnown(S, b))
  BY <1>1, SameMachine, SameList DEF Top, Here, Depth
<1>3. TypeOK' /\ BusesGrow' /\ NoneTwice'
  BY <1>1 DEF IndInv, TypeOK, BusesGrow, NoneTwice
<1>4. FramesSound'
  BY <1>1, <1>2 DEF IndInv, FramesSound, Place
<1>5. HostsSound' /\ OnlyReachable'
  BY <1>1, <1>2 DEF IndInv, HostsSound, OnlyReachable
<1>6. \A b : BusDone(b)' <=> BusDone(b)
  BY <1>1, <1>2 DEF BusDone, Over
<1>7. \A f : Passed(f)' <=> Passed(f)
  BY <1>1 DEF Passed, Before
<1>8. ListSound'
  BY <1>1, <1>2, <1>6, <1>7 DEF IndInv, ListSound
<1>9. QED
  BY <1>3, <1>4, <1>5, <1>8 DEF IndInv

LEMMA NextInv == IndInv /\ [Next]_vars => IndInv'
<1> SUFFICES ASSUME IndInv, [Next]_vars
             PROVE  IndInv'
  OBVIOUS
<1>1. CASE ScanHeader
  BY <1>1, ScanHeaderInv
<1>2. CASE ScanHost
  BY <1>2, ScanHostInv
<1>3. CASE ScanEnd
  BY <1>3, ScanEndInv
<1>4. CASE CheckDevice
  BY <1>4, CheckDeviceInv
<1>5. CASE BusEnd
  BY <1>5, BusEndInv
<1>6. CASE CheckFunction
  BY <1>6, CheckFunctionInv
<1>7. CASE AppendFunction
  BY <1>7, AppendFunctionInv
<1>8. CASE RunOut
  BY <1>8, RunOutInv
<1>9. CASE UNCHANGED vars
  BY <1>9, StutterInv
<1>10. QED
  BY <1>1, <1>2, <1>3, <1>4, <1>5, <1>6, <1>7, <1>8, <1>9 DEF Next

-----------------------------------------------------------------------------
(* The theorems.                                                           *)

\* The inductive invariant of the scan, for every machine.
THEOREM SpecIndInv == Spec => []IndInv
BY InitInv, NextInv, PTL DEF Spec

\* check_bus never comes back to a bus whose scan is under way: its recursion
\* ends, and is not deeper than there are buses.
THEOREM SpecRecursionBounded == Spec => []RecursionBounded
<1>1. IndInv => RecursionBounded
  <2> SUFFICES ASSUME IndInv, NEW m \in DOMAIN stack, NEW n \in DOMAIN stack, m # n
               PROVE  stack[m].bus # stack[n].bus
    BY DEF RecursionBounded
  <2>1. stack \in Seq(Frame)
    BY DEF IndInv, TypeOK
  <2>2. m \in Nat /\ n \in Nat /\ stack[m] \in Frame /\ stack[n] \in Frame
    BY <2>1
  <2>3. stack[m].bus \in Nat /\ stack[n].bus \in Nat
    BY <2>2 DEF Frame
  <2>4. m < n \/ n < m
    BY <2>2
  <2>5. stack[m].bus < stack[n].bus \/ stack[n].bus < stack[m].bus
    BY <2>4 DEF IndInv, BusesGrow
  <2>6. QED
    BY <2>3, <2>5
<1>2. QED
  BY <1>1, SpecIndInv, PTL

\* When the scan is over the list is what can be reached from bus 0, whatever
\* the buses are connected like; and nothing is ever in it twice.
THEOREM SpecListComplete == Spec => []ListComplete
<1>1. IndInv => ListComplete
  <2> SUFFICES ASSUME IndInv, at = "done"
               PROVE  {Line(pci_connected_devices[n]) : n \in DOMAIN pci_connected_devices} =
                        IF <<0, 0>> \in machine.multi THEN {}
                        ELSE {Header(f) : f \in Reachable}
    BY DEF ListComplete, IndInv, NoneTwice
  <2>1. stack = <<>> /\ DOMAIN stack = {} /\ machine \in Topologies
    BY DEF IndInv, HostsSound, TypeOK
  <2>2. CASE ~Single
    <3>1. DOMAIN pci_connected_devices = {}
      BY <2>2 DEF IndInv, HostsSound
    <3>2. <<0, 0>> \notin machine.multi => Reachable = {}
      BY <2>2 DEF Single, Reachable, Found
    <3>3. QED
      BY <3>1, <3>2
  <2>3. CASE Single
    <3>1. /\ \A f \in Listed : f \in Found /\ (Passed(f) \/ BusDone(f[1]))
          /\ \A f \in Found  : Passed(f) \/ BusDone(f[1]) => f \in Listed
      BY <2>3 DEF IndInv, ListSound
    <3>2. \A b : BusDone(b) <=> BusKnown(Listed, b)
      BY <2>1, <3>1 DEF BusDone, Over, BusKnown
    <3>3. Listed \in SUBSET Found /\ Closed(Listed)
      BY <3>1, <3>2 DEF Closed
    <3>4. Reachable \subseteq Listed
      BY <3>3 DEF Reachable
    <3>5. Listed \subseteq Reachable
      BY <3>3 DEF IndInv, OnlyReachable, Reachable
    <3>6. \A f \in Listed : Line(f) = Header(f)
      BY <2>1, <3>3, FoundSound, HeaderRead
    <3>7. {Line(pci_connected_devices[n]) : n \in DOMAIN pci_connected_devices}
            = {Line(f) : f \in Listed}
      BY DEF Listed
    <3>8. <<0, 0>> \notin machine.multi
      BY <2>3 DEF Single
    <3>9. QED
      BY <3>4, <3>5, <3>6, <3>7, <3>8
  <2>4. QED
    BY <2>2, <2>3
<1>2. QED
  BY <1>1, SpecIndInv, PTL
=============================================================================
