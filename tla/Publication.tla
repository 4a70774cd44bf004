---------------------------- MODULE Publication ----------------------------
(***************************************************************************)
(* What the announcement store promises, without transactions, schedules   *)
(* or clocks.  A revision collects approvals while it is open; they can be *)
(* taken back, all together.  It is sent at most once, it needs two people *)
(* when it is critical, and a decision is final.                           *)
(***************************************************************************)
EXTENDS Naturals

CONSTANTS
    Items,          \* every revision that can ever exist
    People          \* who can approve

Phases == {"absent", "open", "sent", "binned"}
Levels == {"critical", "other"}

VARIABLES
    phase,          \* where each revision stands
    level,          \* its severity, once it exists
    approvers       \* the people whose approval stands

vars == <<phase, level, approvers>>

Init ==
    /\ phase = [k \in Items |-> "absent"]
    /\ level = [k \in Items |-> "other"]
    /\ approvers = [k \in Items |-> {}]

Open(k, l) ==
    /\ phase[k] = "absent"
    /\ phase' = [phase EXCEPT ![k] = "open"]
    /\ level' = [level EXCEPT ![k] = l]
    /\ UNCHANGED approvers

Approve(k, p) ==
    /\ phase[k] = "open"
    /\ approvers' = [approvers EXCEPT ![k] = @ \cup {p}]
    /\ UNCHANGED <<phase, level>>

Revoke(k) ==
    /\ phase[k] = "open"
    /\ approvers' = [approvers EXCEPT ![k] = {}]
    /\ UNCHANGED <<phase, level>>

TwoPeople(S) == \E p, q \in S : p # q

\* A person sends the revision; sending is that person's approval.
SendAs(k, p) ==
    /\ phase[k] = "open"
    /\ approvers' = [approvers EXCEPT ![k] = @ \cup {p}]
    /\ level[k] = "critical" => TwoPeople(approvers'[k])
    /\ phase' = [phase EXCEPT ![k] = "sent"]
    /\ UNCHANGED level

\* A machine sends revisions together; it approves none of them.
SendApproved(K) ==
    /\ \A k \in K : phase[k] = "open" /\ (level[k] = "critical" => TwoPeople(approvers[k]))
    /\ phase' = [k \in Items |-> IF k \in K THEN "sent" ELSE phase[k]]
    /\ UNCHANGED <<level, approvers>>

Bin(k) ==
    /\ phase[k] = "open"
    /\ approvers[k] = {}
    /\ phase' = [phase EXCEPT ![k] = "binned"]
    /\ UNCHANGED <<level, approvers>>

Next ==
    \/ \E k \in Items :
          \/ \E l \in Levels : Open(k, l)
          \/ \E p \in People : Approve(k, p) \/ SendAs(k, p)
          \/ Revoke(k)
          \/ Bin(k)
    \/ \E K \in SUBSET Items : SendApproved(K)

Spec == Init /\ [][Next]_vars

============================================================================
