----------------------------- MODULE RunKickoff -----------------------------
(***************************************************************************)
(* From an admitted issue to its first developer.                          *)
(*                                                                         *)
(* The wake of an issue is a front-door coordinator loop.  Its decision    *)
(* mints the run and wakes a routing coordinator, which sends an author to *)
(* write the change; the validation station has it judged; a human decides *)
(* at the gate; the projection station freezes the tasks, the provision    *)
(* station proves a sandbox, and a last coordinator starts development.    *)
(* DevLoop takes over there.  Rules, stations and loops behave as in       *)
(* DevLoop; GateDecision shows how the gate is decided.                    *)
(***************************************************************************)
EXTENDS Integers, Sequences, FiniteSets

CONSTANTS
  RouteActions,   \* what a routing coordinator may decide; no allowlist binds it
  HandleAttempts, \* maxHandleAttempts
  MaxLoops,       \* bound: loops spawned for the issue
  MaxFaults       \* bound: failing tool calls and handler attempts, failed rule
                  \* actions, dropped dispatches, undecided loops, restarts

Actions == {"issue_intake", "create_change", "dev_from_task", "ask_human"}

ASSUME KickoffAssumption ==
  /\ RouteActions \subseteq Actions /\ RouteActions # {} /\ HandleAttempts \in Nat \ {0}
  /\ MaxLoops \in Nat \ {0} /\ MaxFaults \in Nat

Loops    == 1..MaxLoops
Run      == 0
Stations == {"validation", "projection", "provision"}
Coordinators == {"front", "route", "author", "dev"}

VARIABLES
  run,      \* the facts on the run entity; documents and revisions count up
  loop,     \* per loop entity: kind, execution, decision and marks
  checkout, \* the process's checkouts of the run so far, and its warm sandbox
  firing,   \* rule firings with actions still to run
  matched,  \* RULE_STATE
  queue,    \* per station: dispatches not taken yet
  job,      \* per station: the dispatch its handler works on
  judged,   \* the oracle's verdicts so far; it is deterministic
  torn,     \* history: a document replaced between two reads of one handler
  used      \* what the bounds above have been spent on

vars == <<run, loop, checkout, firing, matched, queue, job, judged, torn, used>>

Unborn == [kind |-> "none", pc |-> "unborn", decision |-> "none", marks |-> {}]
Spawned(kind, bound) == [kind |-> kind, pc |-> "working", decision |-> "none",
                         marks |-> IF bound THEN {"anchored"} ELSE {}]
NoJob == [on |-> Run, pc |-> "idle", attempt |-> 0, doc |-> 0, ok |-> FALSE]

Has(l, mark) == mark \in loop[l].marks
Decided(l, a) == loop[l].kind \in Coordinators /\ loop[l].decision = a

-----------------------------------------------------------------------------
(* Conditions of the rules.                                                *)

(* coordinator/01 to 04, on a coordinator loop.                            *)
MintAgain(l) == Decided(l, "issue_intake")
Mint(l)      == Decided(l, "issue_intake") /\ ~Has(l, "anchored")
SpawnAuthor(l)    == Decided(l, "create_change")
ValidateAuthored(l) == Has(l, "authored")
StampRef(l) == Decided(l, "issue_intake") /\ Has(l, "anchored") /\ ~Has(l, "stamped")

(* agent-run/01, run-lifecycle/03 and 06, dev-from-task/04.                *)
HandOff(l)   == Has(l, "spawned") /\ Has(l, "anchored")
AskHuman(l)  == Decided(l, "ask_human") /\ Has(l, "anchored")
StationFailedLoop(l) == Has(l, "failed") /\ Has(l, "anchored") /\ ~Has(l, "park-routed")
Develop(l)   == Decided(l, "dev_from_task") /\ Has(l, "anchored") /\ ~Has(l, "dispatched")

(* agent-run/02 and the rules of the gate, on the run.                     *)
Execute == run.handoff /\ run.phase = "dispatched" /\ ~run.parked
Offer   == /\ run.phase = "executing" /\ run.validated # 0
           /\ run.decision = "none" /\ ~run.parked
Resume  == run.phase = "awaiting_approval" /\ run.decision = "approve" /\ ~run.parked
Cancel  == run.phase = "awaiting_approval" /\ run.decision = "reject" /\ ~run.parked
AnchorGated == run.phase = "awaiting_approval" /\ ~run.anchor

(* dev-from-task/01 to 03, sandbox/01 and 02, run-lifecycle/05.            *)
Approved == run.phase = "executing" /\ run.decision = "approve" /\ ~run.parked
Marked(mark) == mark \in run.marks
AnchorResumed == Approved /\ ~run.anchor
Project   == Approved /\ run.anchor /\ ~Marked("projected")
Provision == Approved /\ run.anchor /\ run.spec # 0 /\ ~Marked("provisioned")
KickOffOnMarker == /\ Approved /\ run.anchor /\ run.spec # 0 /\ Marked("provisioned")
                   /\ ~Marked("kicked-off")
KickOff   == /\ Approved /\ run.anchor /\ run.spec # 0 /\ run.sandbox = "ready"
             /\ ~Marked("kicked-off")
SandboxBlockedUndecided ==
  run.phase = "executing" /\ run.sandbox = "blocked" /\ run.decision = "none" /\ ~run.parked
SandboxBlocked   == run.phase = "executing" /\ run.sandbox = "blocked" /\ ~run.parked
StationFailedRun == Marked("failed") /\ ~run.parked /\ ~Marked("park-routed")

LoopRules == {"mint", "author", "validate", "stamp-ref", "hand-off", "ask", "failed-loop",
              "develop"}
RunRules  == {"execute", "offer", "resume", "cancel", "anchor-gated", "anchor-resumed",
              "project", "provision", "kick-off", "blocked", "failed-run"}
RuleOn    == (LoopRules \X Loops) \cup (RunRules \X {Run})

When(r, e) ==
  IF e = Run
  THEN CASE r = "execute" -> Execute  [] r = "offer" -> Offer    [] r = "resume" -> Resume
         [] r = "cancel" -> Cancel    [] r = "anchor-gated" -> AnchorGated
         [] r = "anchor-resumed" -> AnchorResumed                [] r = "project" -> Project
         [] r = "provision" -> Provision                         [] r = "kick-off" -> KickOff
         [] r = "blocked" -> SandboxBlocked                      [] OTHER -> StationFailedRun
  ELSE CASE r = "mint" -> Mint(e)     [] r = "author" -> SpawnAuthor(e)
         [] r = "validate" -> ValidateAuthored(e)                [] r = "stamp-ref" -> StampRef(e)
         [] r = "hand-off" -> HandOff(e)                         [] r = "ask" -> AskHuman(e)
         [] r = "develop" -> Develop(e)                          [] OTHER -> StationFailedLoop(e)

(* Their actions, in the order the engine runs them.  The four steps of    *)
(* "mint" are one publish_agent with run_scope new.                        *)
StampRefFirst    == <<"ref", "stamped">>

Does(r) ==
  CASE r = "mint" -> <<"mint", "anchored", "route", "spawned">>
    [] r = "author" -> <<"author">>
    [] r = "validate" -> <<"validation">>
    [] r = "stamp-ref" -> StampRefFirst
    [] r = "hand-off" -> <<"handoff">>
    [] r = "develop" -> <<"dispatched", "attempt", "developer">>
    [] r \in {"execute", "resume"} -> <<"executing">>
    [] r = "offer" -> <<"awaiting_approval">>
    [] r = "cancel" -> <<"cancelled">>
    [] r \in {"anchor-gated", "anchor-resumed"} -> <<"anchor">>
    [] r = "project" -> <<"projected", "projection">>
    [] r = "provision" -> <<"provisioned", "provision">>
    [] r = "kick-off" -> <<"kicked-off", "dev">>
    [] r \in {"ask", "blocked"} -> <<"park">>
    [] OTHER -> <<"park", "park-routed">>

Marks == {"anchored", "spawned", "stamped", "dispatched", "projected", "provisioned",
          "kicked-off", "park-routed"}
Phases == {"executing", "awaiting_approval", "cancelled"}
Kinds  == {"route", "author", "dev", "developer"}
Edges  == {<<"dispatched", "executing">>, <<"executing", "awaiting_approval">>,
           <<"awaiting_approval", "executing">>, <<"awaiting_approval", "cancelled">>,
           <<"executing", "cancelled">>}

RuleState == matched' = {m \in matched : When(m[1], m[2])'}

Fault == used.errors + used.lost + used.restarts < MaxFaults
Lose  == Fault /\ used' = [used EXCEPT !.lost = @ + 1]
Error == Fault /\ used' = [used EXCEPT !.errors = @ + 1]

Init ==
  /\ run = [phase |-> "none", handoff |-> FALSE, anchor |-> FALSE, refs |-> {}, doc |-> 0,
            validated |-> 0, decision |-> "none", parked |-> FALSE, spec |-> 0,
            sandbox |-> "none", attempts |-> {}, marks |-> {}]
  /\ loop = [l \in Loops |-> IF l = 1 THEN Spawned("front", FALSE) ELSE Unborn]
  /\ checkout = [made |-> 0, warm |-> FALSE]
  /\ firing = {} /\ matched = {}
  /\ queue = [s \in Stations |-> <<>>] /\ job = [s \in Stations |-> NoJob]
  /\ judged = {} /\ torn = FALSE
  /\ used = [errors |-> 0, lost |-> 0, restarts |-> 0, forgot |-> 0]

-----------------------------------------------------------------------------
(* The rule engine.                                                        *)

Fire(r, e) ==
  /\ <<r, e>> \notin matched /\ When(r, e)
  /\ matched' = matched \cup {<<r, e>>}
  /\ firing' = firing \cup {[rule |-> r, on |-> e, todo |-> Does(r)]}
  /\ UNCHANGED <<run, loop, checkout, queue, job, judged, torn, used>>

Advance(f) == firing' = (firing \ {f}) \cup
                (IF Len(f.todo) > 1 THEN {[f EXCEPT !.todo = Tail(@)]} ELSE {})

(* add_triple of a marker on the firing entity.                            *)
AddMark(f) ==
  /\ Head(f.todo) \in Marks
  /\ IF f.on = Run
     THEN run' = [run EXCEPT !.marks = @ \cup {Head(f.todo)}] /\ loop' = loop
     ELSE loop' = [loop EXCEPT ![f.on].marks = @ \cup {Head(f.todo)}] /\ run' = run
  /\ Advance(f)
  /\ UNCHANGED <<checkout, queue, job, judged, torn, used>>
  /\ RuleState

(* A fact added to the run.  The front-door loop's task is the issue's     *)
(* reference; every other loop's task is an id of the engine.              *)
AddToRun(f) ==
  /\ \/ Head(f.todo) = "ref"
        /\ run' = [run EXCEPT !.refs = @ \cup {IF loop[f.on].kind = "front"
                                               THEN "issue" ELSE "task"}]
     \/ Head(f.todo) = "attempt" /\ run' = [run EXCEPT !.attempts = @ \cup {f.on}]
     \/ Head(f.todo) = "handoff" /\ run' = [run EXCEPT !.handoff = TRUE]
     \/ Head(f.todo) = "anchor" /\ run' = [run EXCEPT !.anchor = TRUE]
     \/ Head(f.todo) = "park" /\ run' = [run EXCEPT !.parked = TRUE]
  /\ Advance(f)
  /\ UNCHANGED <<loop, checkout, queue, job, judged, torn, used>>
  /\ RuleState

(* The mint, and lifecycle_transition along the workflow's edges.          *)
MovePhase(f) ==
  /\ \/ /\ Head(f.todo) = "mint"
        /\ run' = [run EXCEPT !.phase = IF @ = "none" THEN "dispatched" ELSE @]
     \/ /\ Head(f.todo) \in Phases
        /\ run' = [run EXCEPT !.phase = IF <<@, Head(f.todo)>> \in Edges THEN Head(f.todo) ELSE @]
  /\ Advance(f)
  /\ UNCHANGED <<loop, checkout, queue, job, judged, torn, used>>
  /\ RuleState

(* publish_agent: the next unused loop is born, bound to the run the       *)
(* firing entity is anchored to.                                           *)
SpawnLoop(f) ==
  /\ Head(f.todo) \in Kinds
  /\ \E l \in Loops :
       /\ loop[l].pc = "unborn" /\ \A k \in 1..(l - 1) : loop[k].pc # "unborn"
       /\ loop' = [loop EXCEPT ![l] = Spawned(Head(f.todo), f.on = Run \/ Has(f.on, "anchored"))]
  /\ Advance(f)
  /\ UNCHANGED <<run, checkout, queue, job, judged, torn, used>>
  /\ RuleState

(* publish on core NATS.                                                   *)
PublishDispatch(f) ==
  /\ Head(f.todo) \in Stations
  /\ queue' = [queue EXCEPT ![Head(f.todo)] = Append(@, f.on)]
  /\ Advance(f)
  /\ UNCHANGED <<run, loop, checkout, matched, job, judged, torn, used>>

(* A failed action is logged; the remaining actions run.  What is left of  *)
(* a failed mint is part of the same action.                               *)
LoseAction(f) ==
  /\ Lose
  /\ IF f.rule = "mint" THEN firing' = firing \ {f} ELSE Advance(f)
  /\ UNCHANGED <<run, loop, checkout, matched, queue, job, judged, torn>>

Act(f) == AddMark(f) \/ AddToRun(f) \/ MovePhase(f) \/ SpawnLoop(f) \/ PublishDispatch(f)

-----------------------------------------------------------------------------
(* The loops and the human.                                                *)

(* decide, within the loop's action_allowlist.                             *)
Choices(kind) == CASE kind = "front" -> Actions
                   [] kind = "route" -> RouteActions
                   [] kind = "dev" -> {"dev_from_task", "ask_human"}
                   [] OTHER -> {}

Decide(l, a) ==
  /\ loop[l].pc = "working" /\ a \in Choices(loop[l].kind)
  /\ loop' = [loop EXCEPT ![l].pc = "ended", ![l].decision = a]
  /\ UNCHANGED <<run, checkout, firing, queue, job, judged, torn, used>>
  /\ RuleState

(* A loop runs into its cap or a provider fault.                           *)
EndUndecided(l) ==
  /\ loop[l].pc \in {"working", "writing"} /\ loop[l].kind \in Coordinators
  /\ Lose
  /\ loop' = [loop EXCEPT ![l].pc = "ended"]
  /\ UNCHANGED <<run, checkout, firing, queue, job, judged, torn>>
  /\ RuleState

(* create_change replaces document, slug and revision in one write, then   *)
(* marks its loop, which that stops.  All authors use the run's one slug.  *)
ReadingTwice == \/ job["validation"].pc = "read"
                \/ job["projection"].pc = "bound"

WriteChange(l) ==
  /\ loop[l].kind = "author" /\ loop[l].pc = "working" /\ Has(l, "anchored")
  /\ run' = [run EXCEPT !.doc = @ + 1]
  /\ torn' = (torn \/ ReadingTwice)
  /\ loop' = [loop EXCEPT ![l].pc = "writing"]
  /\ UNCHANGED <<checkout, firing, queue, job, judged, used>>
  /\ RuleState

(* A failed mark returns to the model, which must author again.            *)
MarkAuthored(l) ==
  /\ loop[l].pc = "writing"
  /\ \/ /\ loop' = [loop EXCEPT ![l].pc = "ended", ![l].marks = @ \cup {"authored"}]
        /\ used' = used
     \/ loop' = [loop EXCEPT ![l].pc = "working"] /\ Error
  /\ UNCHANGED <<run, checkout, firing, queue, job, judged, torn>>
  /\ RuleState

DecideGate(d) ==
  /\ run.phase = "awaiting_approval" /\ run.decision = "none"
  /\ run' = [run EXCEPT !.decision = d]
  /\ UNCHANGED <<loop, checkout, firing, queue, job, judged, torn, used>>
  /\ RuleState

-----------------------------------------------------------------------------
(* The stations.  Every handler takes, retries and gives up alike.         *)

Take(s) ==
  /\ job[s].pc = "idle" /\ queue[s] # <<>>
  /\ queue' = [queue EXCEPT ![s] = Tail(@)]
  /\ job' = [job EXCEPT ![s] = [NoJob EXCEPT !.on = Head(queue[s]), !.pc = "start",
                                             !.attempt = 1]]
  /\ UNCHANGED <<run, loop, checkout, firing, matched, judged, torn, used>>

Failing(s) ==
  LET j == job[s] IN
  [job EXCEPT ![s] = IF j.attempt < HandleAttempts
                     THEN [j EXCEPT !.pc = "start", !.attempt = j.attempt + 1]
                     ELSE [j EXCEPT !.pc = "failed"]]

HandleError(s) ==
  /\ job[s].pc \notin {"idle", "failed"}
  /\ Error
  /\ job' = Failing(s)
  /\ UNCHANGED <<run, loop, checkout, firing, matched, queue, judged, torn>>

StampDispatchFailed(s) ==
  /\ job[s].pc = "failed"
  /\ IF job[s].on = Run
     THEN run' = [run EXCEPT !.marks = @ \cup {"failed"}] /\ loop' = loop
     ELSE loop' = [loop EXCEPT ![job[s].on].marks = @ \cup {"failed"}] /\ run' = run
  /\ job' = [job EXCEPT ![s] = NoJob]
  /\ UNCHANGED <<checkout, firing, queue, judged, torn, used>>
  /\ RuleState

DropDispatch(s) ==
  /\ job[s].pc # "idle"
  /\ Lose
  /\ job' = [job EXCEPT ![s] = NoJob]
  /\ UNCHANGED <<run, loop, checkout, firing, matched, queue, judged, torn>>

Work(s, next) ==
  /\ job' = [job EXCEPT ![s] = next]
  /\ UNCHANGED <<run, loop, checkout, firing, matched, queue, judged, torn, used>>

(* Validate: hydrate the document, read its revision, have the oracle      *)
(* judge; stamp the revision it passed, or clear the stamp.                *)
ReadDocument ==
  LET j == job["validation"] IN
  j.pc = "start" /\ Work("validation", [j EXCEPT !.pc = "read", !.doc = run.doc])

Judge(ok) ==
  LET j == job["validation"] IN
  /\ j.pc = "read" /\ <<j.doc, ~ok>> \notin judged
  /\ job' = [job EXCEPT !["validation"] = [j EXCEPT !.pc = "judged", !.doc = run.doc, !.ok = ok]]
  /\ judged' = judged \cup {<<j.doc, ok>>}
  /\ UNCHANGED <<run, loop, checkout, firing, matched, queue, torn, used>>

StampValidated ==
  LET j == job["validation"] IN
  /\ j.pc = "judged"
  /\ run' = [run EXCEPT !.validated = IF j.ok THEN j.doc ELSE 0]
  /\ job' = [job EXCEPT !["validation"] = NoJob]
  /\ UNCHANGED <<loop, checkout, firing, queue, judged, torn, used>>
  /\ RuleState

(* Project: refuse a second projection; bind to the validated revision;    *)
(* read the document; freeze its tasks.  Refusals are retried like faults. *)
ReadValidated ==
  LET j == job["projection"] IN
  /\ j.pc = "start"
  /\ IF run.spec # 0
     THEN /\ job' = Failing("projection")
          /\ UNCHANGED <<run, loop, checkout, firing, matched, queue, judged, torn, used>>
     ELSE Work("projection", [j EXCEPT !.pc = "checking", !.doc = run.validated])

BindPresent ==
  LET j == job["projection"] IN
  /\ j.pc = "checking"
  /\ job' = IF j.doc # 0 THEN [job EXCEPT !["projection"].pc = "bound"]
                         ELSE Failing("projection")
  /\ UNCHANGED <<run, loop, checkout, firing, matched, queue, judged, torn, used>>

BindRevision ==
  LET j == job["projection"] IN
  /\ j.pc = "checking"
  /\ job' = IF j.doc # 0 /\ j.doc = run.doc THEN [job EXCEPT !["projection"].pc = "bound"]
                                            ELSE Failing("projection")
  /\ UNCHANGED <<run, loop, checkout, firing, matched, queue, judged, torn, used>>

ReadTasks(sound) ==
  LET j == job["projection"] IN
  /\ j.pc = "bound"
  /\ job' = IF sound
            THEN [job EXCEPT !["projection"] = [j EXCEPT !.pc = "sound", !.doc = run.doc]]
            ELSE Failing("projection")
  /\ UNCHANGED <<run, loop, checkout, firing, matched, queue, judged, torn, used>>

StampSpec ==
  LET j == job["projection"] IN
  /\ j.pc = "sound"
  /\ run' = [run EXCEPT !.spec = j.doc]
  /\ job' = [job EXCEPT !["projection"] = NoJob]
  /\ UNCHANGED <<loop, checkout, firing, queue, judged, torn, used>>
  /\ RuleState

(* Provision: leave a ready run alone, unless its readiness cannot be      *)
(* read; materialize a fresh checkout; prove it cold and stand it up warm; *)
(* stamp ready.  A step that says no is recorded as a block.               *)
Materialize ==
  LET j == job["provision"] IN
  /\ j.pc = "start"
  /\ \/ /\ run.sandbox = "ready"
        /\ job' = [job EXCEPT !["provision"] = NoJob]
        /\ UNCHANGED <<checkout, used>>
     \/ /\ IF run.sandbox = "ready" THEN Error ELSE used' = used
        /\ \/ /\ job' = [job EXCEPT !["provision"].pc = "materialized"]
              /\ checkout' = [checkout EXCEPT !.made = @ + 1]
           \/ /\ job' = [job EXCEPT !["provision"].pc = "blocked"]
              /\ checkout' = checkout
  /\ UNCHANGED <<run, loop, firing, matched, queue, judged, torn>>

ProveCold(ok) ==
  /\ job["provision"].pc = "materialized"
  /\ job' = [job EXCEPT !["provision"].pc = IF ok THEN "warm" ELSE "blocked"]
  /\ checkout' = [checkout EXCEPT !.warm = @ \/ ok]
  /\ UNCHANGED <<run, loop, firing, matched, queue, judged, torn, used>>

StampSandboxReason ==
  /\ job["provision"].pc \in {"warm", "blocked"}
  /\ run' = [run EXCEPT !.sandbox = job["provision"].pc]
  /\ job' = [job EXCEPT !["provision"] = NoJob]
  /\ UNCHANGED <<loop, checkout, firing, queue, judged, torn, used>>
  /\ RuleState

StampSandbox ==
  /\ job["provision"].pc \in {"warm", "blocked"}
  /\ run' = [run EXCEPT !.sandbox = IF job["provision"].pc = "warm" THEN "ready" ELSE "blocked"]
  /\ job' = [job EXCEPT !["provision"] = NoJob]
  /\ UNCHANGED <<loop, checkout, firing, queue, judged, torn, used>>
  /\ RuleState

(* A restart loses what is in memory: dispatches, rule actions, checkouts  *)
(* and sandboxes; RULE_STATE may be gone too.                              *)
Restart ==
  /\ Fault
  /\ firing' = {}
  /\ queue' = [s \in Stations |-> <<>>] /\ job' = [s \in Stations |-> NoJob]
  /\ checkout' = [checkout EXCEPT !.warm = FALSE]
  /\ \/ matched' = matched /\ used' = [used EXCEPT !.restarts = @ + 1]
     \/ matched' = {} /\ used' = [used EXCEPT !.restarts = @ + 1, !.forgot = @ + 1]
  /\ UNCHANGED <<run, loop, judged, torn>>

-----------------------------------------------------------------------------
EngineNext == (\E re \in RuleOn : Fire(re[1], re[2])) \/ \E f \in firing : Act(f)
LoopNext(l) == (\E a \in Actions : Decide(l, a)) \/ WriteChange(l) \/ MarkAuthored(l)
StationNext(s) ==
  \/ Take(s) \/ StampDispatchFailed(s)
  \/ s = "validation" /\ (ReadDocument \/ (\E b \in BOOLEAN : Judge(b)) \/ StampValidated)
  \/ s = "projection" /\ (ReadValidated \/ BindRevision \/ (\E b \in BOOLEAN : ReadTasks(b))
                            \/ StampSpec)
  \/ s = "provision" /\ (Materialize \/ (\E b \in BOOLEAN : ProveCold(b)) \/ StampSandbox)

Next == \/ EngineNext \/ (\E f \in firing : LoseAction(f)) \/ Restart
        \/ \E l \in Loops : LoopNext(l) \/ EndUndecided(l)
        \/ \E d \in {"approve", "reject"} : DecideGate(d)
        \/ \E s \in Stations : StationNext(s) \/ HandleError(s) \/ DropDispatch(s)

Spec == Init /\ [][Next]_vars

-----------------------------------------------------------------------------
(* Properties.                                                             *)

AllMarks == Marks \cup {"authored", "failed"}
Steps == Marks \cup Phases \cup Kinds \cup Stations
           \cup {"mint", "ref", "attempt", "handoff", "anchor", "park"}

RunState == [phase : {"none", "dispatched"} \cup Phases, handoff : BOOLEAN, anchor : BOOLEAN,
             refs : SUBSET {"issue", "task"}, doc : Nat, validated : Nat,
             decision : {"none", "approve", "reject"}, parked : BOOLEAN, spec : Nat,
             sandbox : {"none", "ready", "blocked"}, attempts : SUBSET Loops,
             marks : SUBSET AllMarks]
LoopState == [kind : Kinds \cup {"front", "none"},
              pc : {"unborn", "working", "writing", "ended"},
              decision : Actions \cup {"none"}, marks : SUBSET AllMarks]
Firing    == [rule : LoopRules \cup RunRules, on : Loops \cup {Run}, todo : Seq(Steps) \ {<<>>}]
JobState  == [on : Loops \cup {Run}, attempt : Nat, doc : Nat, ok : BOOLEAN,
              pc : {"idle", "start", "read", "judged", "checking", "bound", "sound",
                    "materialized", "warm", "blocked", "failed"}]
Usage     == [errors : Nat, lost : Nat, restarts : Nat, forgot : Nat]

TypeOK ==
  /\ run \in RunState /\ loop \in [Loops -> LoopState]
  /\ checkout \in [made : Nat, warm : BOOLEAN]
  /\ firing \subseteq Firing /\ \A f \in firing : <<f.rule, f.on>> \in RuleOn
  /\ matched \subseteq RuleOn
  /\ queue \in [Stations -> Seq(Loops \cup {Run})] /\ job \in [Stations -> JobState]
  /\ judged \subseteq Nat \X BOOLEAN /\ torn \in BOOLEAN
  /\ used \in Usage

(* Actions failed, or RULE_STATE was lost, but not both.                   *)
OneKindOfFault == used.lost = 0 \/ used.forgot = 0

Count(kind) == Cardinality({l \in Loops : loop[l].kind = kind})

(* The issue is worked on once: the guards and markers of the mint, the    *)
(* kick-off and the dispatch hold against either kind of fault, so there   *)
(* is one routing coordinator, one kick-off and one first developer.       *)
WorkedOnce == OneKindOfFault => \A k \in {"route", "dev", "developer"} : Count(k) <= 1

(* What is frozen into task.spec has been passed by the oracle, also when  *)
(* a lost RULE_STATE brings a second author, unless that author replaced   *)
(* the document between two reads of one handler.                          *)
FrozenIsValidated == run.spec # 0 /\ ~torn => <<run.spec, TRUE>> \in judged

(* Development starts on an approved run with frozen tasks and, as long    *)
(* as the process lives, a warm sandbox.                                   *)
DevelopmentIsCleared ==
  Count("dev") + Count("developer") > 0 =>
    /\ run.decision = "approve" /\ run.spec # 0
    /\ checkout.warm \/ used.restarts > 0

(* The change-approval gate by itself: no developer starts on a run whose  *)
(* change nobody approved.                                                 *)
DevelopmentNeedsApproval == Count("developer") > 0 => run.decision = "approve"

(* The checkout is never replaced under a developer, whatever is started   *)
(* again: a re-materialization would discard the patches made so far.      *)
CheckoutKept ==
  [][OneKindOfFault /\ Count("dev") > 0 => checkout'.made = checkout.made]_vars

(* Nothing is on its way: no rule, loop, dispatch or handler can take a    *)
(* step, and only a human or a fault can change the run.                   *)
AtWork(l) == \/ loop[l].pc = "writing"
             \/ /\ loop[l].pc = "working"
                /\ Choices(loop[l].kind) # {} \/ (loop[l].kind = "author" /\ Has(l, "anchored"))

Quiet == /\ firing = {} /\ \A re \in RuleOn : When(re[1], re[2]) => re \in matched
         /\ \A s \in Stations : queue[s] = <<>> /\ job[s].pc = "idle"
         /\ \A l \in Loops : ~AtWork(l)

(* The arc has no dead end: without lost actions and restarts, a run comes *)
(* to rest only at its open gate, cancelled, parked, with its developer,   *)
(* with a change the oracle refused, or misrouted back to intake.  And it  *)
(* has the reference of its issue, by which comments find it, also when    *)
(* the process dies between the two actions that stamp the reference and   *)
(* the engine forgets what it fired.                                       *)
Interrupted == used.lost > 0 \/ used.restarts > 0
Refused     == <<run.doc, FALSE>> \in judged
Misrouted   == \E l \in Loops : loop[l].kind = "route" /\ loop[l].decision = "issue_intake"

QuietHasReason ==
  Quiet /\ run.phase # "none" =>
    /\ \/ Interrupted
       \/ run.phase = "awaiting_approval" /\ run.decision = "none"
       \/ run.phase = "cancelled" \/ run.parked \/ Count("developer") > 0
       \/ Refused \/ Misrouted
    /\ used.lost = 0 /\ used.restarts = used.forgot => "issue" \in run.refs
=============================================================================
