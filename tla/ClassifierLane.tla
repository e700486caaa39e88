---------------------------- MODULE ClassifierLane ----------------------------
(***************************************************************************)
(* The natural-language half of the change-approval gate.                  *)
(*                                                                         *)
(* A comment that is not an exact command is bridged onto the run as a     *)
(* pending slot (bridgeNonCommand); rule conversation/02 dispatches one    *)
(* classifier loop for it; the loop's only tool, classify_intent, records  *)
(* what the comment meant; rule 04 retires the slot and re-arms the spawn; *)
(* rules 05 and 06 tell the human when no reading was produced.            *)
(*                                                                         *)
(* Every write of a rule action is a step of its own (the engine writes    *)
(* one KV revision per action), a rule's actions use the values its        *)
(* evaluation captured, and every handler is split at its graph reads and  *)
(* writes.  A message stands for its id, its author and its text.          *)
(*                                                                         *)
(* add_triple is set-valued: an entry that is there already is not added   *)
(* again.  So the spend ledger holds the messages classifiers were sent    *)
(* for, and its length is their number, not that of the turns paid.        *)
(***************************************************************************)
EXTENDS Integers, FiniteSets

CONSTANTS
  Messages,     \* comments on the run's thread that are not exact commands
  Permitted,    \* those whose author admission.Authorize admits
  Fresh,        \* those written after the watermark of the gate now open
  Loops,        \* identities of classifier loops
  NoMsg,        \* the absent fact
  Budget,       \* ClassifierAttemptBudget
  MaxRepeats,   \* bound: upsets (of all kinds) until which comments come again
  MaxFaults,    \* bound: upsets until which rule actions and mirror writes fail
  MaxLosses     \* bound: upsets until which the RULE_STATE bucket may be lost

ASSUME LaneAssumption ==
  /\ NoMsg \notin Messages
  /\ Permitted \subseteq Messages
  /\ Fresh \subseteq Messages
  /\ Budget \in Nat \ {0}
  /\ MaxRepeats \in Nat /\ MaxFaults \in Nat /\ MaxLosses \in Nat

VARIABLES
  phase,        \* agent.run.phase
  decision,     \* run.change.decision
  anchored,     \* agent.loop.run is on the run
  slot,         \* conversation.pending.{message-id,author,body}
  marker,       \* conversation.classifier.dispatched
  attempted,    \* conversation.classifier.attempted, the spend ledger
  budgetNoted,  \* conversation.budget.noted is on the run
  intent,       \* conversation.intent.{value,message-id,author}
  classified,   \* conversation.intent.classified, the ledger
  bridge,       \* per message: where its handler is
  spawn,        \* the firing of rule 02 in progress, with its snapshot
  budget,       \* the firing of rule 06 in progress
  loop,         \* per classifier loop: its tool call, terminal and release
  seen,         \* RULE_STATE: the run rules whose conditions already matched
  used          \* what the bounds above have been spent on

gateVars   == <<phase, decision, anchored>>
runVars    == <<slot, marker, attempted, budgetNoted>>
intentVars == <<intent, classified>>
ruleVars   == <<spawn, budget>>
vars == <<gateVars, runVars, intentVars, ruleVars, bridge, loop, seen, used>>

MsgOrNone  == Messages \cup {NoMsg}
Directives == {"approve", "reject"}
Readings   == Directives \cup {"none"}
Outcomes   == {"finished", "cancelled"}

EmptySlot == [id |-> NoMsg, author |-> NoMsg, body |-> NoMsg]
NoFiring  == [pc |-> "idle", id |-> NoMsg, body |-> NoMsg]
Unborn    == [pc |-> "unborn", prompt |-> NoMsg, id |-> NoMsg, author |-> NoMsg,
              ledger |-> {}, recorded |-> FALSE, outcome |-> "none",
              noted |-> FALSE, wiped |-> NoMsg]

ToolSteps    == {"bound", "ledger", "stamp", "mirror"}
ReleaseSteps == {"relBody", "relId", "relMarker"}
LoopSteps    == {"unborn", "running", "ended", "released"} \cup ToolSteps \cup ReleaseSteps

-----------------------------------------------------------------------------
(* The conditions of the two rules that fire on the run, and what the      *)
(* engine remembers of them: a rule fires when its conditions become true  *)
(* and not again until they have been false.                               *)

GateOpen == phase = "awaiting_approval" /\ decision = "none"
Spent    == Cardinality(attempted)

SpawnWhenUnmarked == GateOpen /\ slot.id # NoMsg /\ anchored /\ Spent <= Budget - 1

SpawnWhen == /\ GateOpen
             /\ slot.id # NoMsg
             /\ anchored
             /\ marker = NoMsg
             /\ Spent <= Budget - 1

BudgetWhenLate == /\ GateOpen /\ slot.id # NoMsg /\ Spent > Budget
                  /\ marker = NoMsg /\ ~budgetNoted

BudgetWhen == /\ GateOpen
              /\ slot.id # NoMsg
              /\ Spent >= Budget
              /\ marker = NoMsg
              /\ ~budgetNoted

RuleState == seen' = {r \in seen : \/ r = "spawn" /\ SpawnWhen'
                                   \/ r = "budget" /\ BudgetWhen'}

Upsets == used.repeats + used.faults + used.losses
Fault == Upsets < MaxFaults /\ used' = [used EXCEPT !.faults = @ + 1]
Repeat(m) ==
  /\ Upsets < MaxRepeats
  /\ used' = [used EXCEPT !.repeats = @ + 1, !.again = [used.again EXCEPT ![m] = used.again[m] + 1]]

Init ==
  /\ phase = "executing" /\ decision = "none" /\ anchored = FALSE
  /\ slot = EmptySlot /\ marker = NoMsg /\ attempted = {} /\ budgetNoted = FALSE
  /\ intent = [value |-> "", msg |-> NoMsg, author |-> NoMsg] /\ classified = {}
  /\ bridge = [m \in Messages |-> "queued"]
  /\ spawn = NoFiring /\ budget = NoFiring
  /\ loop = [l \in Loops |-> Unborn]
  /\ seen = {}
  /\ used = [repeats |-> 0, again |-> [m \in Messages |-> 0], faults |-> 0, losses |-> 0]

-----------------------------------------------------------------------------
(* The gate, as this lane sees it: it opens (run-lifecycle/01), gains the  *)
(* anchor (conversation/01), is decided by the approval adapter and is     *)
(* left (run-lifecycle/02 and 07).                                         *)

GateOpens ==
  /\ phase = "executing" /\ decision = "none"
  /\ phase' = "awaiting_approval"
  /\ UNCHANGED <<decision, anchored, runVars, intentVars, ruleVars, bridge, loop, used>>
  /\ RuleState

AnchorGatedRun ==
  /\ phase = "awaiting_approval" /\ ~anchored
  /\ anchored' = TRUE
  /\ UNCHANGED <<phase, decision, runVars, intentVars, ruleVars, bridge, loop, used>>
  /\ RuleState

\* Also a second decision written by a handler that had read the gate undecided.
GateDecided(d) ==
  /\ GateOpen \/ decision # "none"
  /\ decision' = d
  /\ UNCHANGED <<phase, anchored, runVars, intentVars, ruleVars, bridge, loop, used>>
  /\ RuleState

GateLeftNamedByDecision ==
  /\ phase = "awaiting_approval" /\ decision \in Directives
  /\ phase' = decision
  /\ UNCHANGED <<decision, anchored, runVars, intentVars, ruleVars, bridge, loop, used>>
  /\ RuleState

GateLeft ==
  /\ phase = "awaiting_approval" /\ decision \in Directives
  /\ phase' = IF decision = "approve" THEN "executing" ELSE "cancelled"
  /\ UNCHANGED <<decision, anchored, runVars, intentVars, ruleVars, bridge, loop, used>>
  /\ RuleState

-----------------------------------------------------------------------------
(* bridgeNonCommand: resolve and guard, read the ledger, replace the slot. *)
(* Its reads and its write are separate graph calls; a failed one is       *)
(* redelivered until the consumer gives up.                                *)

BridgeGuards(m) ==
  /\ bridge[m] = "queued"
  /\ bridge' = [bridge EXCEPT ![m] =
                  IF GateOpen /\ m \in Fresh /\ m \in Permitted THEN "ledger" ELSE "done"]
  /\ UNCHANGED <<gateVars, runVars, intentVars, ruleVars, loop, seen, used>>

BridgeLedger(m) ==
  /\ bridge[m] = "ledger"
  /\ bridge' = [bridge EXCEPT ![m] = IF m \in classified THEN "done" ELSE "stamp"]
  /\ UNCHANGED <<gateVars, runVars, intentVars, ruleVars, loop, seen, used>>

BridgeStamp(m) ==
  /\ bridge[m] = "stamp"
  /\ slot' = [id |-> m, author |-> m, body |-> m]
  /\ bridge' = [bridge EXCEPT ![m] = "done"]
  /\ UNCHANGED <<gateVars, marker, attempted, budgetNoted, intentVars, ruleVars, loop, used>>
  /\ RuleState

BridgeError(m) ==
  /\ bridge[m] # "done"
  /\ \E next \in {"queued", "done"} : bridge' = [bridge EXCEPT ![m] = next]
  /\ UNCHANGED <<gateVars, runVars, intentVars, ruleVars, loop, seen, used>>

(* A comment comes again: redelivered, or read again by a poller that has  *)
(* lost its cursor.                                                        *)
BridgeRepeat(m) ==
  /\ bridge[m] = "done" /\ Repeat(m)
  /\ bridge' = [bridge EXCEPT ![m] = "queued"]
  /\ UNCHANGED <<gateVars, runVars, intentVars, ruleVars, loop, seen>>

-----------------------------------------------------------------------------
(* conversation/02-spawn-classifier: evaluate, add the marker, add the     *)
(* message to the spend ledger, publish the agent.  A failed action is     *)
(* logged and the next one runs.                                           *)

SpawnEvaluate ==
  /\ SpawnWhen /\ "spawn" \notin seen /\ spawn.pc = "idle"
  /\ spawn' = [pc |-> "mark", id |-> slot.id, body |-> slot.body]
  /\ seen' = seen \cup {"spawn"}
  /\ UNCHANGED <<gateVars, runVars, intentVars, budget, bridge, loop, used>>

SpawnMark ==
  /\ spawn.pc = "mark"
  /\ \/ marker' = spawn.id /\ used' = used
     \/ marker' = marker /\ Fault
  /\ spawn' = [spawn EXCEPT !.pc = "count"]
  /\ UNCHANGED <<gateVars, slot, attempted, budgetNoted, intentVars, budget, bridge, loop>>
  /\ RuleState

SpawnCount ==
  /\ spawn.pc = "count"
  /\ \/ attempted' = attempted \cup {spawn.id} /\ used' = used
     \/ attempted' = attempted /\ Fault
  /\ spawn' = [spawn EXCEPT !.pc = "publish"]
  /\ UNCHANGED <<gateVars, slot, marker, budgetNoted, intentVars, budget, bridge, loop>>
  /\ RuleState

SpawnPublish(l) ==
  /\ spawn.pc = "publish" /\ loop[l].pc = "unborn"
  /\ \/ loop' = [loop EXCEPT ![l].pc = "running", ![l].prompt = spawn.body] /\ used' = used
     \/ loop' = loop /\ Fault
  /\ spawn' = NoFiring
  /\ UNCHANGED <<gateVars, runVars, intentVars, budget, bridge, seen>>

-----------------------------------------------------------------------------
(* classify_intent, one call at a time per loop.  A refused call returns   *)
(* its error to the model, which may call again or end.                    *)

ReadPending(l) ==
  /\ loop[l].pc = "running" /\ slot.id # NoMsg /\ slot.author # NoMsg
  /\ loop' = [loop EXCEPT ![l].pc = "bound", ![l].id = slot.id, ![l].author = slot.author]
  /\ UNCHANGED <<gateVars, runVars, intentVars, ruleVars, bridge, seen, used>>

ReadDispatchedUnbound(l) ==
  /\ loop[l].pc = "bound"
  /\ loop' = [loop EXCEPT ![l].pc = IF marker # NoMsg THEN "ledger" ELSE "running"]
  /\ UNCHANGED <<gateVars, runVars, intentVars, ruleVars, bridge, seen, used>>

ReadDispatched(l) ==
  /\ loop[l].pc = "bound"
  /\ loop' = [loop EXCEPT ![l].pc = IF marker = loop[l].id THEN "ledger" ELSE "running"]
  /\ UNCHANGED <<gateVars, runVars, intentVars, ruleVars, bridge, seen, used>>

ReadLedgerNotAtAll(l) ==
  /\ loop[l].pc = "ledger"
  /\ loop' = [loop EXCEPT ![l].pc = "stamp", ![l].ledger = {loop[l].id}]
  /\ UNCHANGED <<gateVars, runVars, intentVars, ruleVars, bridge, seen, used>>

ReadLedger(l) ==
  /\ loop[l].pc = "ledger"
  /\ loop' = [loop EXCEPT ![l].pc = "stamp", ![l].ledger = classified \cup {loop[l].id}]
  /\ UNCHANGED <<gateVars, runVars, intentVars, ruleVars, bridge, seen, used>>

StampIntent(l, v) ==
  /\ loop[l].pc = "stamp"
  /\ intent' = [value |-> v, msg |-> loop[l].id, author |-> loop[l].author]
  /\ classified' = loop[l].ledger
  /\ loop' = [loop EXCEPT ![l].pc = "mirror"]
  /\ UNCHANGED <<gateVars, runVars, ruleVars, bridge, seen, used>>

MirrorRecorded(l) ==
  /\ loop[l].pc = "mirror"
  /\ \/ /\ loop' = [loop EXCEPT ![l].pc = "ended", ![l].recorded = TRUE,
                                ![l].outcome = "finished"]
        /\ used' = used
     \/ loop' = [loop EXCEPT ![l].pc = "running"] /\ Fault
  /\ UNCHANGED <<gateVars, runVars, intentVars, ruleVars, bridge, seen>>

EndLoop(l, o) ==
  /\ loop[l].pc = "running"
  /\ loop' = [loop EXCEPT ![l].pc = "ended", ![l].outcome = o]
  /\ UNCHANGED <<gateVars, runVars, intentVars, ruleVars, bridge, seen, used>>

-----------------------------------------------------------------------------
(* conversation/04-classifier-terminal-release: author, body, message-id,  *)
(* marker, in that order, each its own revision.                           *)

Remove(l, from, to, rest) ==
  /\ loop[l].pc = from
  /\ \/ /\ slot' = rest
        /\ loop' = [loop EXCEPT ![l].pc = to,
                                ![l].wiped = IF rest.id = NoMsg THEN slot.id ELSE @]
        /\ used' = used
     \/ slot' = slot /\ loop' = [loop EXCEPT ![l].pc = to] /\ Fault
  /\ UNCHANGED <<gateVars, marker, attempted, budgetNoted, intentVars, ruleVars, bridge>>
  /\ RuleState

ReleaseAuthor(l) == Remove(l, "ended", "relBody", [slot EXCEPT !.author = NoMsg])
ReleaseBody(l)   == Remove(l, "relBody", "relId", [slot EXCEPT !.body = NoMsg])
ReleaseId(l)     == Remove(l, "relId", "relMarker", [slot EXCEPT !.id = NoMsg])

ReleaseMarkerIfRecorded(l) ==
  /\ loop[l].pc = "relMarker" /\ loop[l].recorded
  /\ marker' = NoMsg /\ used' = used
  /\ loop' = [loop EXCEPT ![l].pc = "released"]
  /\ UNCHANGED <<gateVars, slot, attempted, budgetNoted, intentVars, ruleVars, bridge>>
  /\ RuleState

ReleaseMarkerAndSpend(l) ==
  /\ loop[l].pc = "relMarker"
  /\ marker' = NoMsg /\ attempted' = {} /\ used' = used
  /\ loop' = [loop EXCEPT ![l].pc = "released"]
  /\ UNCHANGED <<gateVars, slot, budgetNoted, intentVars, ruleVars, bridge>>
  /\ RuleState

ReleaseMarker(l) ==
  /\ loop[l].pc = "relMarker"
  /\ \/ marker' = NoMsg /\ used' = used
     \/ marker' = marker /\ Fault
  /\ loop' = [loop EXCEPT ![l].pc = "released"]
  /\ UNCHANGED <<gateVars, slot, attempted, budgetNoted, intentVars, ruleVars, bridge>>
  /\ RuleState

(* conversation/05-classifier-fault-note, on the same terminal.            *)
FaultNote(l) ==
  /\ loop[l].outcome = "finished" /\ ~loop[l].recorded /\ ~loop[l].noted
  /\ loop' = [loop EXCEPT ![l].noted = TRUE]
  /\ UNCHANGED <<gateVars, runVars, intentVars, ruleVars, bridge, seen, used>>

-----------------------------------------------------------------------------
(* conversation/06-classifier-budget-exhausted: evaluate, add the once     *)
(* marker, publish the note.                                               *)

BudgetEvaluate ==
  /\ BudgetWhen /\ "budget" \notin seen /\ budget.pc = "idle"
  /\ budget' = [pc |-> "mark", id |-> slot.id, body |-> NoMsg]
  /\ seen' = seen \cup {"budget"}
  /\ UNCHANGED <<gateVars, runVars, intentVars, spawn, bridge, loop, used>>

BudgetMark ==
  /\ budget.pc = "mark"
  /\ \/ budgetNoted' = TRUE /\ used' = used
     \/ budgetNoted' = budgetNoted /\ Fault
  /\ budget' = [budget EXCEPT !.pc = "publish"]
  /\ UNCHANGED <<gateVars, slot, marker, attempted, intentVars, spawn, bridge, loop>>
  /\ RuleState

BudgetPublish ==
  /\ budget.pc = "publish"
  /\ budget' = NoFiring
  /\ UNCHANGED <<gateVars, runVars, intentVars, spawn, bridge, loop, seen, used>>

-----------------------------------------------------------------------------
(* The engine restarts without its RULE_STATE bucket: firings in progress  *)
(* are gone, every rule forgets what it had matched, and the terminal      *)
(* rules match every ended loop again.                                     *)
LoseRuleState ==
  /\ Upsets < MaxLosses
  /\ used' = [used EXCEPT !.losses = @ + 1]
  /\ seen' = {} /\ spawn' = NoFiring /\ budget' = NoFiring
  /\ loop' = [l \in Loops |->
                IF loop[l].pc \in ReleaseSteps \cup {"released"}
                THEN [loop[l] EXCEPT !.pc = "ended", !.noted = FALSE]
                ELSE loop[l]]
  /\ UNCHANGED <<gateVars, runVars, intentVars, bridge>>

-----------------------------------------------------------------------------
GateNext   == GateOpens \/ AnchorGatedRun \/ GateLeft \/ \E d \in Directives : GateDecided(d)
BridgeNext == \E m \in Messages : \/ BridgeGuards(m) \/ BridgeLedger(m) \/ BridgeStamp(m)
                                  \/ BridgeError(m) \/ BridgeRepeat(m)
SpawnNext  == SpawnEvaluate \/ SpawnMark \/ SpawnCount \/ \E l \in Loops : SpawnPublish(l)
ToolNext(l) == \/ ReadPending(l) \/ ReadDispatched(l) \/ ReadLedger(l)
               \/ \E v \in Readings : StampIntent(l, v)
               \/ MirrorRecorded(l)
EndNext(l) == \E o \in Outcomes : EndLoop(l, o)
ReleaseNextIdFirst(l) == \/ Remove(l, "ended", "relBody", [slot EXCEPT !.id = NoMsg])
                         \/ Remove(l, "relBody", "relId", [slot EXCEPT !.author = NoMsg])
                         \/ Remove(l, "relId", "relMarker", [slot EXCEPT !.body = NoMsg])
                         \/ ReleaseMarker(l)
ReleaseNext(l) == ReleaseAuthor(l) \/ ReleaseBody(l) \/ ReleaseId(l) \/ ReleaseMarker(l)
BudgetNext == BudgetEvaluate \/ BudgetMark \/ BudgetPublish

Next == \/ GateNext \/ BridgeNext \/ SpawnNext \/ BudgetNext \/ LoseRuleState
        \/ \E l \in Loops : ToolNext(l) \/ EndNext(l) \/ ReleaseNext(l) \/ FaultNote(l)

Spec == Init /\ [][Next]_vars

(* The engine evaluates every revision and runs every action of a rule it  *)
(* fired; a tool call returns; a loop ends, because the framework caps its *)
(* iterations (strong, since a refused call interrupts the wait).          *)
Fairness ==
  /\ WF_vars(AnchorGatedRun) /\ WF_vars(SpawnNext) /\ WF_vars(BudgetNext)
  /\ \A l \in Loops : /\ WF_vars(ToolNext(l)) /\ SF_vars(EndNext(l))
                      /\ WF_vars(ReleaseNext(l)) /\ WF_vars(FaultNote(l))

FairSpec == Spec /\ Fairness

-----------------------------------------------------------------------------
(* Properties.                                                             *)

Usage == [repeats : Nat, again : [Messages -> Nat], faults : Nat, losses : Nat]
LoopState == [pc : LoopSteps, prompt : MsgOrNone, id : MsgOrNone, author : MsgOrNone,
              ledger : SUBSET MsgOrNone, recorded : BOOLEAN,
              outcome : Outcomes \cup {"none"}, noted : BOOLEAN, wiped : MsgOrNone]

TypeOK ==
  /\ phase \in {"executing", "awaiting_approval", "cancelled"}
  /\ decision \in Directives \cup {"none"}
  /\ anchored \in BOOLEAN /\ budgetNoted \in BOOLEAN
  /\ slot \in [id : MsgOrNone, author : MsgOrNone, body : MsgOrNone]
  /\ marker \in MsgOrNone
  /\ attempted \subseteq MsgOrNone
  /\ intent \in [value : Readings \cup {""}, msg : MsgOrNone, author : MsgOrNone]
  /\ classified \subseteq MsgOrNone
  /\ bridge \in [Messages -> {"queued", "ledger", "stamp", "done"}]
  /\ spawn \in [pc : {"idle", "mark", "count", "publish"}, id : MsgOrNone, body : MsgOrNone]
  /\ budget \in [pc : {"idle", "mark", "publish"}, id : MsgOrNone, body : MsgOrNone]
  /\ loop \in [Loops -> LoopState]
  /\ seen \subseteq {"spawn", "budget"}
  /\ used \in Usage

(* No rule action has failed and RULE_STATE was never lost.                *)
Faultless == used.faults = 0 /\ used.losses = 0

Spawning == spawn.pc \in {"count", "publish"}
Live(l)  == loop[l].pc \notin {"unborn", "released"}
Tooling(l) == loop[l].pc \in {"ledger", "stamp", "mirror"}

(* The serialization classify_intent's ledger depends on: the marker keeps *)
(* a second classifier from being dispatched until the release of the      *)
(* first has removed it, whatever the bridge writes in between.            *)
OneClassifierInFlight ==
  Faultless =>
    /\ \A k, l \in Loops : Live(k) /\ Live(l) => k = l
    /\ spawn.pc # "idle" => \A l \in Loops : ~Live(l)

(* What the spend ledger bounds.  The gate reads no more than Budget       *)
(* comments: each is in the ledger before its classifier is published, and *)
(* the ledger is never cleared.  And it pays for each of them once, plus   *)
(* once for every time the comment came again: one that was released       *)
(* unclassified is dispatched anew and the ledger, a set, does not grow.   *)
(* The exhaustion note is only ever prompted by a message that was         *)
(* refused: when rule 06 fires no classifier is in flight or on its way.   *)
Paid(m) == {l \in Loops : loop[l].pc # "unborn" /\ loop[l].prompt = m}
SpendWithinBudget ==
  Faultless =>
    /\ Spent <= Budget
    /\ \A l \in Loops : loop[l].pc # "unborn" => loop[l].prompt \in attempted
    /\ \A m \in Messages : Cardinality(Paid(m)) <= 1 + used.again[m]
    /\ budget.pc # "idle" => spawn.pc = "idle" /\ \A l \in Loops : ~Live(l)

(* The release order keeps a torn slot from being dispatched: whenever the *)
(* spawn rule can fire, the slot holds one message's id, author and text.  *)
DispatchableSlotIsWhole ==
  Faultless /\ marker = NoMsg /\ slot.id # NoMsg =>
    slot.author = slot.id /\ slot.body = slot.id

(* The read-once binding: although the slot is latest-wins, the identity a *)
(* classifier binds is that of the message whose text it was asked to      *)
(* judge.  And whatever fails, the author a reading cites passed           *)
(* authorization when the bridge stamped the slot, and wrote for this      *)
(* gate.                                                                   *)
JudgedIsAttributed ==
  /\ Faultless => \A l \in Loops : Tooling(l) => /\ loop[l].prompt = loop[l].id
                                                 /\ loop[l].author = loop[l].id
  /\ intent.author # NoMsg => intent.author \in Permitted /\ intent.msg \in Fresh

(* The classified ledger is replaced whole by each stamp and yet loses no  *)
(* id, because only one classifier reads and replaces it at a time.        *)
LedgerOnlyGrows == [][Faultless' => classified \subseteq classified']_vars

(* A message removed from the slot without having been classified is       *)
(* surfaced: the classifier whose release removed it recorded nothing, so  *)
(* its terminal draws the fault note.                                      *)
LossIsSurfaced ==
  \A l \in Loops : loop[l].wiped \notin classified \cup {NoMsg} => ~loop[l].recorded

(* The lane never closes for good: a marker is eventually released.        *)
LaneReopens == (marker # NoMsg) ~> (marker = NoMsg)

(* A pending message at an open gate is not left lying: it is classified,  *)
(* moved out of the slot, or the exhaustion note has been prompted.        *)
PendingNeverStuck ==
  \A m \in Messages :
    (GateOpen /\ slot.id = m) ~> (~GateOpen \/ slot.id # m \/ budgetNoted)
=============================================================================
