---------------------------- MODULE AbstractHeap ----------------------------
(***************************************************************************)
(* What the heap promises its callers: the bytes of an allocation belong   *)
(* to its holder alone, and to the memory of the heap, until it is freed.  *)
(***************************************************************************)
EXTENDS Integers

CONSTANTS
  Memory,    \* last byte the heap can own
  Header,    \* bytes before an allocation that are the heap's own
  Requests   \* sizes the callers ask for

VARIABLE held   \* start of an allocation -> its bytes

Bytes(p, size) == p - Header .. p + size - 1

Init == held = [p \in {} |-> 0]

Allocate(p, size) ==
  /\ p \notin DOMAIN held
  /\ p - Header > 0 /\ p + size - 1 <= Memory
  /\ \A q \in DOMAIN held :
       p + size <= q - Header \/ q + held[q] <= p - Header
  /\ held' = [q \in DOMAIN held \cup {p} |-> IF q = p THEN size ELSE held[q]]

Release(p) == held' = [q \in DOMAIN held \ {p} |-> held[q]]

\* DOMAIN held' is where Allocate can have put p.
Next ==
  \/ \E p \in DOMAIN held', size \in Requests : Allocate(p, size)
  \/ \E p \in DOMAIN held : Release(p)

Spec == Init /\ [][Next]_held
=============================================================================
