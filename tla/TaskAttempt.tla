----------------------------- MODULE TaskAttempt -----------------------------
(***************************************************************************)
(* What an attempt at a task promises, without rules, dispatches, handlers *)
(* or markers: the work is one thing that one party has at a time, and it  *)
(* is handed on by a fixed table until a pull request is open or a human   *)
(* has it.  The checkout changes in the developer's hands only, the branch *)
(* in delivery's only, and the work goes astray only by a mishap.  After   *)
(* mishaps of two kinds nothing is promised: anybody may have it.          *)
(***************************************************************************)
EXTENDS Integers

VARIABLES
  turn,      \* who has the work: a party, "nobody" or "anybody"
  outcome,   \* "open", "delivered" or "parked"
  checkout,  \* the commits made so far
  branch,    \* the delivery branch: its tip and its pull requests
  mishaps    \* actions lost and restarts so far

vars == <<turn, outcome, checkout, branch, mishaps>>

(* Who may hand the work to whom.                                          *)
Handovers ==
  {<<"developer", "floors">>,
   <<"floors", "developer">>,   <<"floors", "reviewer">>, <<"floors", "human">>,
   <<"reviewer", "developer">>, <<"reviewer", "verify">>, <<"reviewer", "human">>,
   <<"verify", "delivery">>,    <<"verify", "human">>,
   <<"delivery", "human">>}

Init ==
  /\ turn = "developer" /\ outcome = "open" /\ checkout = 0
  /\ branch = [tip |-> 0, prs |-> 0] /\ mishaps = 0

HandOn ==
  /\ UNCHANGED <<outcome, checkout, branch, mishaps>>
  /\ <<turn, turn'>> \in Handovers

Commit ==
  /\ checkout' = checkout + 1 /\ UNCHANGED <<outcome, branch, mishaps>>
  /\ turn = "developer" /\ turn' = turn

(* Delivery pushes a commit, and opens a pull request if there is none.    *)
Publish ==
  /\ UNCHANGED <<outcome, checkout, mishaps>>
  /\ \/ branch'.tip # branch.tip /\ branch' = [branch EXCEPT !.tip = branch'.tip]
     \/ branch.prs = 0 /\ branch' = [branch EXCEPT !.prs = 1]
  /\ turn = "delivery" /\ turn' = turn

Deliver ==
  /\ branch.prs = 1 /\ outcome' = "delivered" /\ UNCHANGED <<checkout, branch, mishaps>>
  /\ outcome = "open" /\ turn = "delivery" /\ turn' = "nobody"

Park ==
  /\ outcome' = "parked" /\ UNCHANGED <<checkout, branch, mishaps>>
  /\ outcome = "open" /\ turn = "human" /\ turn' = "nobody"

(* A mishap may lose the work, never hand it on; a second one may confuse. *)
Mishap ==
  /\ mishaps' = mishaps + 1 /\ UNCHANGED <<outcome, checkout, branch>>
  /\ turn' \in {turn, "nobody"} \/ (mishaps > 0 /\ turn' = "anybody")

Chaos == mishaps > 1 /\ turn = "anybody" /\ turn' = "anybody"

Next == HandOn \/ Commit \/ Publish \/ Deliver \/ Park \/ Mishap \/ Chaos

Spec == Init /\ [][Next]_vars
=============================================================================
