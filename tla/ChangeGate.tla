------------------------------ MODULE ChangeGate ------------------------------
(***************************************************************************)
(* What the change-approval gate promises, without messages, consumers or  *)
(* rules: people who may decide ask for a direction, the gate opens at     *)
(* most once, and an open gate settles for a direction that was asked for. *)
(* Only when two decisions raced may a settled gate be settled again, and  *)
(* then only the other way from an approval: a rejection is final.         *)
(***************************************************************************)
CONSTANT Directions   \* what can be asked: "approve", "reject"

VARIABLES
  gate,    \* "before", "open" or the direction it settled for
  asked,   \* what authorized people have asked for
  raced    \* two decisions were recorded

Init == gate = "before" /\ asked \subseteq Directions /\ raced = FALSE

Ask == asked \subseteq asked' /\ asked' \subseteq Directions /\ UNCHANGED <<gate, raced>>

Open == gate = "before" /\ gate' = "open" /\ UNCHANGED <<asked, raced>>

Settle(d) == gate = "open" /\ d \in asked /\ gate' = d /\ UNCHANGED <<asked, raced>>

Race == gate # "before" /\ raced' = TRUE /\ UNCHANGED <<gate, asked>>

Overrule ==
  /\ gate = "approve" /\ raced /\ "reject" \in asked
  /\ gate' = "reject" /\ UNCHANGED <<asked, raced>>

Next == Ask \/ Open \/ Race \/ Overrule \/ \E d \in Directions : Settle(d)

Spec == Init /\ [][Next]_<<gate, asked, raced>>
=============================================================================
