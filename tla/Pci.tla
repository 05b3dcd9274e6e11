-------------------------------- MODULE Pci --------------------------------
(***************************************************************************)
(* pci_initialize of kernel/src/pci.c: the scan of the PCI buses, which    *)
(* follows each bridge to the bus behind it by recursion, and the list of  *)
(* functions it makes with realloc.  The frames of the recursion are the   *)
(* variable "stack": one for each bus whose scan is under way.             *)
(***************************************************************************)
EXTENDS Integers, Sequences

CONSTANTS
  Devices,      \* device numbers of a bus, 32 in the kernel
  Functions,    \* functions of a device, 8 in the kernel
  Topologies,   \* the machines: see Topology
  MayRunOut     \* whether realloc may return NULL

None == -1     \* no bus is behind the function

\* They are numbered with 8, 5 and 3 bits.
Bus == 0 .. 255
ASSUME NumbersAssumption == Devices \in 1 .. 32 /\ Functions \in 1 .. 8

\* behind: what is connected, with the bus behind it; multi: the devices whose
\* header type has bit 7.  The firmware has numbered the buses: each is behind
\* one bridge, of a bus with a lower number.  A machine with PCI has its host
\* bridge at 0:0.0.
ASSUME TopologyAssumption ==
  \A t \in Topologies :
    /\ DOMAIN t.behind \subseteq Bus \X (0 .. Devices - 1) \X (0 .. Functions - 1)
    /\ \A f \in DOMAIN t.behind :
         /\ t.behind[f] = None \/ t.behind[f] \in f[1] + 1 .. 255
         /\ \A g \in DOMAIN t.behind :
              f # g /\ t.behind[f] # None => t.behind[f] # t.behind[g]
    /\ DOMAIN t.behind = {} \/ <<0, 0, 0>> \in DOMAIN t.behind

VARIABLES
  machine,   \* the topology of this behaviour
  at,        \* the part of scan_pci_buses that is next
  host,      \* its loop variable
  stack,     \* the calls of check_bus that have not returned
  pci_connected_devices

vars == <<machine, at, host, stack, pci_connected_devices>>

-----------------------------------------------------------------------------
(* The configuration space, as bytes; what is not connected reads as ones. *)

\* A function's header by the PCI standard, as far as the kernel reads it: two
\* bytes each of vendor and device, then revision, prog-if, subclass, class,
\* header type, and the buses before and behind a bridge.
Byte(f, b) ==
  IF f \notin DOMAIN machine.behind THEN 255
  ELSE LET bridge == machine.behind[f] # None
           multi  == <<f[1], f[2]>> \in machine.multi
       IN  CASE b = 0  -> 134
             [] b = 1  -> 128
             [] b = 2  -> f[3]
             [] b = 3  -> f[2] + 16
             [] b = 8  -> f[2]
             [] b = 9  -> f[3] + 1
             [] b = 10 -> IF bridge THEN 4 ELSE 0
             [] b = 11 -> IF bridge THEN 6 ELSE 2
             [] b = 14 -> (IF multi THEN 128 ELSE 0) + (IF bridge THEN 1 ELSE 0)
             [] b = 24 -> f[1]
             [] b = 25 -> IF bridge THEN machine.behind[f] ELSE 0
             [] OTHER  -> 0

\* Mutant: bit 1 of the offset does not choose the word of the register.
WordAt_aligned(offset) == offset - (offset % 4)

\* The port takes the offset of a register of four bytes, and bit 1 chooses the
\* half of it; bit 0 is lost.
WordAt(offset) == offset - (offset % 2)

pci_config_read_word(f, offset) ==
  Byte(f, WordAt(offset)) + 256 * Byte(f, WordAt(offset) + 1)

pci_get_vendor(f)        == pci_config_read_word(f, 0)
pci_get_device(f)        == pci_config_read_word(f, 3)
pci_get_class(f)         == pci_config_read_word(f, 11) \div 256
pci_get_subclass(f)      == pci_config_read_word(f, 11) % 256
pci_get_progif(f)        == pci_config_read_word(f, 8) \div 256
pci_get_revision(f)      == pci_config_read_word(f, 8) % 256
pci_get_header_type(f)   == pci_config_read_word(f, 15) % 256
pci_get_secondary_bus(f) == pci_config_read_word(f, 24) \div 256

Connected(f) == pci_get_vendor(f) # 65535
IsBridge(f)  == pci_get_class(f) = 6 /\ pci_get_subclass(f) = 4
MultiFunction(bus, device) == pci_get_header_type(<<bus, device, 0>>) >= 128

-----------------------------------------------------------------------------
Init ==
  /\ machine \in Topologies
  /\ at = "header" /\ host = 0 /\ stack = <<>>
  /\ pci_connected_devices = <<>>

BusFrame(bus) == [bus |-> bus, device |-> 0, function |-> 0, at |-> "device"]

ScanHeader ==
  /\ at = "header"
  /\ IF MultiFunction(0, 0)
     THEN at' = "hosts" /\ UNCHANGED stack
     ELSE at' = "last_bus" /\ stack' = <<BusFrame(0)>>
  /\ UNCHANGED <<machine, host, pci_connected_devices>>

\* One bus for each function of 0:0, but the loop ends at the first function
\* that is connected.
HostsEnd == host = Functions \/ Connected(<<0, 0, host>>)

ScanHost ==
  /\ at = "hosts" /\ stack = <<>> /\ ~HostsEnd
  /\ stack' = <<BusFrame(host)>>
  /\ host' = host + 1
  /\ UNCHANGED <<machine, at, pci_connected_devices>>

ScanEnd ==
  /\ stack = <<>>
  /\ at = "last_bus" \/ (at = "hosts" /\ HostsEnd)
  /\ at' = "done"
  /\ UNCHANGED <<machine, host, stack, pci_connected_devices>>

-----------------------------------------------------------------------------
(* check_bus, check_device and check_function.                             *)

Depth == Len(stack)
Top   == stack[Depth]
Here  == <<Top.bus, Top.device, Top.function>>

Scanning(where) == at # "aborted" /\ stack # <<>> /\ Top.at = where

NextDevice ==
  [stack EXCEPT ![Depth].device = @ + 1, ![Depth].function = 0,
                ![Depth].at = "device"]

\* Mutant: a device that is not there is looked at again.
SkipDevice_again == stack

LastDevice == Devices - 1
SkipDevice == NextDevice

CheckDevice ==
  /\ Scanning("device") /\ Top.device <= LastDevice
  /\ stack' = IF Connected(Here)
              THEN [stack EXCEPT ![Depth].at = "function"] ELSE SkipDevice
  /\ UNCHANGED <<machine, at, host, pci_connected_devices>>

\* The scan of a bus returns to that of the bus its bridge is on.
BusEnd ==
  /\ Scanning("device") /\ Top.device > LastDevice
  /\ stack' = SubSeq(stack, 1, Depth - 1)
  /\ UNCHANGED <<machine, at, host, pci_connected_devices>>

\* Mutant: the bus behind a bridge is taken for its own.
SecondaryBus_own(f) == f[1]

SecondaryBus(f) == pci_get_secondary_bus(f)

Descend(calls) == Append(calls, BusFrame(SecondaryBus(Here)))

CheckFunction ==
  /\ Scanning("function")
  /\ LET calls == [stack EXCEPT ![Depth].at = "append"]
     IN  stack' = IF IsBridge(Here) THEN Descend(calls) ELSE calls
  /\ UNCHANGED <<machine, at, host, pci_connected_devices>>

\* Mutants: the functions of every device are looked at; the loop begins with
\* function 0 again.
FunctionsLeft_always == {f \in Top.function + 1 .. Functions - 1 :
                           Connected(<<Top.bus, Top.device, f>>)}
FunctionsLeft_again  == {f \in 0 .. Functions - 1 : Top.function = 0 /\
                           Connected(<<Top.bus, Top.device, f>>)}

\* The functions of the device that are still to be checked.
FunctionsLeft ==
  {f \in Top.function + 1 .. Functions - 1 :
     MultiFunction(Top.bus, Top.device) /\ Connected(<<Top.bus, Top.device, f>>)}

NextFunction ==
  IF FunctionsLeft = {} THEN NextDevice
  ELSE [stack EXCEPT ![Depth].function = CHOOSE f \in FunctionsLeft :
                                           \A g \in FunctionsLeft : f <= g,
                     ![Depth].at = "function"]

AppendFunction ==
  /\ Scanning("append")
  /\ pci_connected_devices' = Append(pci_connected_devices, Here)
  /\ stack' = NextFunction
  /\ UNCHANGED <<machine, at, host>>

\* realloc returns NULL: the pointer to the list is lost, the kernel stops.
RunOut ==
  /\ MayRunOut /\ Scanning("append")
  /\ pci_connected_devices' = <<>>
  /\ at' = "aborted"
  /\ UNCHANGED <<machine, host, stack>>

Next ==
  \/ ScanHeader \/ ScanHost \/ ScanEnd
  \/ CheckDevice \/ BusEnd \/ CheckFunction \/ AppendFunction \/ RunOut

Spec == Init /\ [][Next]_vars

\* The scan is a loop of the only thread: the processor goes on with it.
FairSpec == Spec /\ WF_vars(Next)

-----------------------------------------------------------------------------
(* Properties.                                                             *)

\* What kernel_main prints of a connected device.
Line(f) == <<f, pci_get_class(f), pci_get_subclass(f), pci_get_vendor(f),
             pci_get_device(f), pci_get_revision(f), pci_get_progif(f)>>

\* What it should print.
Header(f) == <<f, Byte(f, 11), Byte(f, 10), Byte(f, 0) + 256 * Byte(f, 1),
               Byte(f, 2) + 256 * Byte(f, 3), Byte(f, 8), Byte(f, 9)>>

\* Only multi-function devices have functions past 0, and only with function 0.
Reported(f) ==
  /\ <<f[1], f[2], 0>> \in DOMAIN machine.behind
  /\ f[3] = 0 \/ <<f[1], f[2]>> \in machine.multi

Found == {f \in DOMAIN machine.behind : Reported(f)}

\* S has with a bridge all that is on the bus behind it, and all of bus 0.
BusKnown(S, bus) == bus = 0 \/ \E g \in S : machine.behind[g] = bus
Closed(S)        == \A f \in Found : BusKnown(S, f[1]) => f \in S

\* What the scan can get to from bus 0: the least set like that.
Reachable == {f \in Found : \A S \in SUBSET Found : Closed(S) => f \in S}

\* What the kernel prints as the connected devices: all of them that can be
\* reached from bus 0, each once and as its registers say, in whatever order
\* recursion comes to it -- and none if the host bridge has several functions,
\* or there is none, for then the loop of scan_pci_buses ends or finds nothing.
ListComplete ==
  /\ \A m, n \in DOMAIN pci_connected_devices :
       m # n => pci_connected_devices[m] # pci_connected_devices[n]
  /\ at = "done" =>
       {Line(pci_connected_devices[n]) : n \in DOMAIN pci_connected_devices} =
         IF <<0, 0>> \in machine.multi THEN {} ELSE {Header(f) : f \in Reachable}

\* The recursion never comes back to a bus whose scan is under way, so it is
\* not deeper than there are buses.
RecursionBounded ==
  \A m, n \in DOMAIN stack : m # n => stack[m].bus # stack[n].bus

\* The scan ends.
ScanEnds == <>(at \in {"done", "aborted"})
=============================================================================
