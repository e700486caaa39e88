---------------------------- MODULE DevLoopTurns ----------------------------
(***************************************************************************)
(* Whose turn it is in DevLoop: where the single baton of work can be, and *)
(* the loop of rules, dispatches and handlers shown as the plain sequence  *)
(* of turns that TaskAttempt describes.                                    *)
(***************************************************************************)
EXTENDS DevLoop

(* The rules by what they do.                                              *)
Cleaning  == {"06b", "06e"}
Routing   == {"06a", "06c", "06d", "06f", "06g"}
Reviewing == {"07a", "07b", "07c", "07d"}
Closing   == {"08a", "08b"}
Surrender == {"failed-loop", "failed-run"}

(***************************************************************************)
(* The baton.  A rule fires once for two reasons: RULE_STATE remembers     *)
(* that its conditions matched, and its first action leaves a mark that    *)
(* makes them false.  Forgetting RULE_STATE breaks the one, a failed       *)
(* action the other, so there are two arguments: when nothing was          *)
(* forgotten the baton passes to a firing when its rule matches; when no   *)
(* action failed it passes when the mark is written.                       *)

Worlds == {"remembered", "marked"}
World(w) == IF w = "remembered" THEN used.forgot = 0 ELSE used.lost = 0

(* None of these rules has matched on the entity.                          *)
Open(w, rules, e) == w = "marked" \/ \A r \in rules : <<r, e>> \notin matched

(* A firing holds the baton: once its rule has matched, or once its mark   *)
(* is written.                                                             *)
Carries(w, f) ==
  /\ f.rule \notin Cleaning
  /\ w = "remembered" \/ (f.rule \notin Surrender /\ f.todo # Does(f.rule))

(* Where the baton can be, and on what.                                    *)
Kinds == {"live", "trigger", "route", "review", "failed", "verdict", "failed-run",
          "carrier", "queue", "job"}

TriggerAt(w, l) == \/ Dispatch(l) /\ Open(w, {"04"}, l)
                   \/ FloorsTrigger(l) /\ Open(w, {"05"}, l)
RouteAt(w, l)  == loop[l].passed # "none" /\ ~Has(l, "routed") /\ Open(w, Routing, l)
ReviewAt(w, l) == /\ loop[l].role = "reviewer" /\ loop[l].pc \in {"mirrored", "ended"}
                  /\ ~Has(l, "routed") /\ Open(w, Reviewing, l)
FailedAt(w, l) == StationFailedLoop(l) /\ Open(w, {"failed-loop"}, l)
VerdictAt(w)   == /\ run.verify \in {"pass", "fail"} /\ "routed" \notin run.marks
                  /\ Open(w, Closing, Run)
FailedRunAt(w) == StationFailedRun /\ Open(w, {"failed-run"}, Run)

Places(w, k) ==
  CASE k = "live"    -> Live
    [] k = "trigger" -> {l \in Loops : TriggerAt(w, l)}
    [] k = "route"   -> {l \in Loops : RouteAt(w, l)}
    [] k = "review"  -> {l \in Loops : ReviewAt(w, l)}
    [] k = "failed"  -> {l \in Loops : FailedAt(w, l)}
    [] k = "verdict"    -> {e \in {Run} : VerdictAt(w)}
    [] k = "failed-run" -> {e \in {Run} : FailedRunAt(w)}
    [] k = "carrier" -> {f \in firing : Carries(w, f)}
    [] k = "queue"   -> Queued
    [] OTHER         -> Busy

-----------------------------------------------------------------------------
(* Whose turn the baton's place makes it.                                  *)

(* What the facts of a judged attempt call for (06a-06g), marked unclean   *)
(* yet or not.                                                             *)
RoutedTo(l) ==
  IF loop[l].passed = "true" /\ ~loop[l].rejected THEN "reviewer"
  ELSE IF loop[l].transient
       THEN IF loop[l].transients < TransientCap THEN "developer" ELSE "human"
       ELSE IF loop[l].attempts < Budget THEN "developer" ELSE "human"

(* What a review calls for (07a-07d).                                      *)
ReviewedTo(l) ==
  CASE loop[l].verdict = "approved" -> "verify"
    [] loop[l].verdict = "changes_requested" /\ loop[l].attempts < Budget -> "developer"
    [] OTHER -> "human"

(* Whom a firing will start; one that has parked the run has only to note  *)
(* that it did.                                                            *)
Starts(f) ==
  IF f.todo = <<"park-routed">> THEN "nobody"
  ELSE CASE f.rule \in {"04", "06c", "06f", "07b"} -> "developer"
         [] f.rule = "05"  -> "floors"
         [] f.rule = "06a" -> "reviewer"
         [] f.rule = "07a" -> "verify"
         [] f.rule = "08a" -> "delivery"
         [] OTHER -> "human"

Party(k, x) ==
  CASE k = "live"    -> loop[x].role
    [] k = "trigger" -> IF loop[x].role = "coordinator" THEN "developer" ELSE "floors"
    [] k = "route"   -> RoutedTo(x)
    [] k = "review"  -> ReviewedTo(x)
    [] k = "verdict" -> IF run.verify = "fail" THEN "human"
                        ELSE IF run.verdict = "approved" THEN "delivery" ELSE "nobody"
    [] k = "carrier" -> Starts(x)
    [] k \in {"queue", "job"} -> x
    [] OTHER -> "human"

(* Who has the work, by one argument; the marks tell until an action fails.*)
Hands(w)  == UNION {{Party(k, x) : x \in Places(w, k)} : k \in Kinds}
Holder(w) == LET hands == Hands(w) IN
             IF hands = {} THEN "nobody" ELSE CHOOSE p \in hands : TRUE

Outcome == IF run.parked THEN "parked" ELSE IF run.pr THEN "delivered" ELSE "open"
Turn    == IF ~OneKindOfFault THEN "anybody"
           ELSE IF Outcome # "open" THEN "nobody"
           ELSE IF used.lost = 0 THEN Holder("marked") ELSE Holder("remembered")

Attempt == INSTANCE TaskAttempt WITH turn <- Turn, outcome <- Outcome, checkout <- head,
                                     branch <- forge, mishaps <- Mishaps

(* Rules that fire one by one, dispatches, handlers, retries, markers and  *)
(* a rule engine that forgets make up a sequence of turns: the work goes   *)
(* from the developer to the floors, to a reviewer, to the clean room, to  *)
(* delivery, each only after the one before passed it on, back to a        *)
(* developer or out to a human otherwise, never in two hands, and out of   *)
(* all hands only by a mishap.  Nobody but the developer moves the         *)
(* checkout, nobody but delivery the branch.                               *)
WorkIsHandedOn == Attempt!Spec
=============================================================================
