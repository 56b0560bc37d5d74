------------------------------ MODULE RadioSlot ------------------------------
(***************************************************************************)
(* What the radio queue promises its callers, without its bookkeeping: one *)
(* slot; whoever finds it free takes it; who does not waits in line, may   *)
(* leave the line, and is otherwise served by priority, then by arrival.   *)
(* The slot is never free while somebody waits.  RadioQueue implements it. *)
(***************************************************************************)
EXTENDS Naturals

CONSTANTS Requests,   \* the requests that ever ask for the slot
          Priority    \* their priority; a smaller number is served first

VARIABLES holder,     \* the set of requests that own the slot
          line,       \* the requests that wait for it
          arrival     \* the place in the order of arrival each one was given

slotVars == <<holder, line, arrival>>

\* r is served before s.
Ahead(r, s) == \/ Priority[r] < Priority[s]
               \/ Priority[r] = Priority[s] /\ arrival[r] < arrival[s]

SlotInit == /\ holder = {}
            /\ line = {}
            /\ arrival = [r \in Requests |-> 0]

Take(r) == /\ holder = {}
           /\ line = {}
           /\ holder' = {r}
           /\ UNCHANGED <<line, arrival>>

Join(r) == /\ holder # {}
           /\ r \notin line
           /\ line' = line \cup {r}
           /\ arrival'[r] \in Nat
           /\ \A s \in line : arrival[s] < arrival'[r]
           /\ arrival' = [arrival EXCEPT ![r] = arrival'[r]]
           /\ UNCHANGED holder

Leave(S) == /\ S # {}
            /\ S \subseteq line
            /\ line' = line \ S
            /\ UNCHANGED <<holder, arrival>>

\* The owner is done; the slot goes to the first in line, or becomes free.
Pass == /\ holder # {}
        /\ \/ /\ line = {}
              /\ holder' = {}
              /\ UNCHANGED line
           \/ \E next \in line :
                 /\ \A s \in line \ {next} : Ahead(next, s)
                 /\ holder' = {next}
                 /\ line' = line \ {next}
        /\ UNCHANGED arrival

SlotNext == \/ \E r \in Requests : Take(r) \/ Join(r)
            \/ \E S \in SUBSET Requests : Leave(S)
            \/ Pass

SlotSpec == SlotInit /\ [][SlotNext]_slotVars
==============================================================================
