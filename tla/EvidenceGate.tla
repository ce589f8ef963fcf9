----------------------------- MODULE EvidenceGate -----------------------------
(***************************************************************************)
(* judge of commissioning.py: how far the evidence behind a tag goes.      *)
(* A piece of evidence is a record                                         *)
(*   n      which reading it comes from                                    *)
(*   at     when the reading was taken, in units of MIN_GAP_S / MinGap     *)
(*   hmi    what the HMI showed                                            *)
(*   match  what the PLC held agreed with it within the tolerance          *)
(*   phase  "find" or "verify"                                             *)
(***************************************************************************)
EXTENDS Naturals

CONSTANTS MinGap,      \* MIN_GAP_S
          ConstantOk   \* the tag is a setpoint or text: its value may repeat

ASSUME GateConstants == MinGap \in Nat \ {0} /\ ConstantOk \in BOOLEAN

Confidence == {"confirmed", "probable", "unverified"}

Matching(ev) == {e \in ev : e.match}

\* Mutant: the readings that found the address count as proof.
Mutant_AllCount(ev) == Matching(ev)

\* Fresh readings that agree with the HMI.
Good(ev) == {e \in Matching(ev) : e.phase # "find"}

\* Two readings that together prove the address.
Prove(a, b) ==
  /\ b.at >= a.at + MinGap
  /\ ConstantOk \/ a.hmi # b.hmi

Confirmed(ev) == \E a, b \in Good(ev) : Prove(a, b)

judge(ev) ==
  IF Matching(ev) = {} THEN "unverified"
  ELSE IF Confirmed(ev) THEN "confirmed"
  ELSE "probable"

=============================================================================
