-------------------------- MODULE StoreAndForward --------------------------
(***************************************************************************)
(* What the edge gateway promises about a payload once it is accepted      *)
(* (edge-gateway/buffer_manager.py, lines 6-18), with no mention of how:   *)
(* it is kept until it has reached the broker, unless the ring is full and *)
(* it is the oldest one kept.  Delivery may repeat and may come late.  A    *)
(* power loss may cost the youngest ones and bring back old ones.          *)
(***************************************************************************)
EXTENDS Naturals

CONSTANT Ids          \* the ids payloads are given, in increasing order

VARIABLES accepted,   \* ids of the payloads accepted so far
          kept,       \* ids still kept for delivery
          delivered,  \* ids that have reached the broker at least once
          evicted,    \* ids given up because the ring was full
          lost        \* ids that a power loss took

vars == <<accepted, kept, delivered, evicted, lost>>

Init ==
  /\ accepted = {}
  /\ kept = {}
  /\ delivered = {}
  /\ evicted = {}
  /\ lost = {}

\* A new payload, newer than all before it; the oldest ones may be given up.
Accept(i, Victims) ==
  /\ \A j \in accepted : j < i
  /\ accepted' = accepted \cup {i}
  /\ \A v \in Victims, k \in (kept \cup {i}) \ Victims : v < k
  /\ kept' = (kept \cup {i}) \ Victims
  /\ evicted' = evicted \cup Victims
  /\ UNCHANGED <<delivered, lost>>

\* A payload reaches the broker; even one already given up may still do so.
Deliver(i) ==
  /\ i \in accepted
  /\ delivered' = delivered \cup {i}
  /\ UNCHANGED <<accepted, kept, evicted, lost>>

\* Payloads that have been delivered are no longer kept.
Forget(Done) ==
  /\ Done \subseteq kept \cap delivered
  /\ kept' = kept \ Done
  /\ UNCHANGED <<accepted, delivered, evicted, lost>>

\* The power fails: of what is kept the youngest may be gone, and what was
\* delivered or given up may be kept again.
PowerFails(Gone, Back) ==
  /\ Gone \subseteq kept
  /\ Back \subseteq delivered \cup evicted
  /\ \A g \in Gone, k \in (kept \ Gone) \cup Back : k < g
  /\ kept' = (kept \ Gone) \cup Back
  /\ lost' = lost \cup Gone
  /\ UNCHANGED <<accepted, delivered, evicted>>

Next ==
  \/ \E i \in Ids : \E Victims \in SUBSET (kept \cup {i}) : Accept(i, Victims)
  \/ \E i \in accepted : Deliver(i)
  \/ \E Done \in SUBSET kept : Forget(Done)
  \/ \E Gone \in SUBSET kept : \E Back \in SUBSET (delivered \cup evicted) : PowerFails(Gone, Back)

Spec == Init /\ [][Next]_vars

=============================================================================
