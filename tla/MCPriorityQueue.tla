--------------------------- MODULE MCPriorityQueue ---------------------------
(***************************************************************************)
(* PriorityQueue for TLC, and the refinement of PriorityService.           *)
(***************************************************************************)
EXTENDS PriorityQueue

\* Entries whose cycles never exceed their priority, two ids.
MCEntries == {e \in EntryType : e.cycles <= e.priority}

\* The active entries, as a bag.
Pending ==
  LET active == {queue[i].entry : i \in ActiveSlots}
  IN  [e \in active |-> Cardinality({i \in ActiveSlots : queue[i].entry = e})]

Service == INSTANCE PriorityService
             WITH pending <- Pending, offer <- output, taken <- delivered

\* While clients keep at most Size - 1 entries active, no entry is lost,
\* duplicated, served out of order, too often or too seldom.
ServesAsPromised == Service!Spec
=============================================================================
