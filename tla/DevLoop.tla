------------------------------- MODULE DevLoop -------------------------------
(***************************************************************************)
(* From an approved change to a pull request: the dev-from-task loop.      *)
(*                                                                         *)
(* A developer loop patches, commits and measures the run's checkout; the  *)
(* floors station judges the attempt when the loop ends; rules 06a-06g     *)
(* route it to a reviewer, to another developer or to a human; a review is *)
(* routed by 07a-07d; the verify station proves the checkout in a clean    *)
(* room; the delivery station pushes the recorded commit.  Work passes     *)
(* from one to the next as a single baton: a live loop, a queued dispatch, *)
(* a handler at work, or a rule firing that will start one of these.       *)
(*                                                                         *)
(* Rules are fired by the engine when their conditions become true; each   *)
(* of their actions is a write of its own and may fail.  Stations take     *)
(* dispatches off core NATS, at most once, and retry a failing handler.    *)
(* Notices to the human (park-post) change no state and are left out.      *)
(***************************************************************************)
EXTENDS Integers, Sequences, FiniteSets

CONSTANTS
  Budget,         \* task.spec.budget, clamped to [1,5] by the projection
  TransientCap,   \* retries of a provider fault (2 in rules 06f and 06g)
  HandleAttempts, \* maxHandleAttempts
  MaxLoops,       \* bound: loops spawned for the run
  MaxPatches,     \* bound: commits made by apply_patch
  MaxErrors,      \* bound: troubles until which tool calls and handlers fail
  MaxMishaps      \* bound: troubles until which rule actions and dispatches are
                  \* lost and the process restarts

ASSUME LoopAssumption ==
  /\ Budget \in 1..5 /\ TransientCap \in Nat /\ HandleAttempts \in Nat \ {0}
  /\ MaxLoops \in Nat \ {0} /\ MaxPatches \in Nat
  /\ MaxErrors \in Nat /\ MaxMishaps \in Nat

Loops    == 1..MaxLoops
Run      == 0
Stations == {"floors", "verify", "delivery"}

VARIABLES
  head,     \* HEAD of the run's checkout; 0 is the base, commits count up
  run,      \* the facts on the run entity
  forge,    \* the delivery branch's tip and the number of pull requests
  loop,     \* per loop entity: role, execution and facts
  firing,   \* rule firings with actions still to run
  matched,  \* RULE_STATE: the rules whose conditions already matched
  queue,    \* per station: dispatches not taken yet
  job,      \* per station: the dispatch its handler works on
  proof,    \* history: the trees measured green and proved clean
  used      \* what the bounds above have been spent on

vars == <<head, run, forge, loop, firing, matched, queue, job, proof, used>>

Unborn == [role |-> "none", pc |-> "unborn", transient |-> FALSE, marks |-> {},
           passed |-> "none", rejected |-> FALSE, attempts |-> 0, transients |-> 0,
           verdict |-> "none", tree |-> 0, green |-> FALSE]
Spawned(role) == [Unborn EXCEPT !.role = role, !.pc = "working"]
NoJob == [on |-> Run, pc |-> "idle", attempt |-> 0, tree |-> 0]

Has(l, mark) == mark \in loop[l].marks

-----------------------------------------------------------------------------
(* Conditions of the rules, in the order of their files.                   *)

(* dev-from-task/04: the coordinator decided to develop.                   *)
Dispatch(l) == loop[l].role = "coordinator" /\ ~Has(l, "dispatched")
(* 05: a developer loop has an outcome.                                    *)
FloorsTrigger(l) ==
  loop[l].role = "developer" /\ loop[l].pc = "ended" /\ ~Has(l, "dispatched")

RouteAdvanceAnyFloor(l) == loop[l].passed = "true" /\ ~Has(l, "routed")
(* 06a, 06b and 06e: measured green and not rejected, or unclean.          *)
RouteAdvance(l) == loop[l].passed = "true" /\ ~loop[l].rejected /\ ~Has(l, "routed")
RouteNotClean(l) == loop[l].passed = "false" /\ ~Has(l, "unclean")
RouteNotCleanFloor(l) == loop[l].rejected /\ ~Has(l, "unclean")

Unrouted(l, transient) ==
  Has(l, "unclean") /\ loop[l].transient = transient /\ ~Has(l, "routed")

RouteRetryOneMore(l) == Unrouted(l, FALSE) /\ loop[l].attempts <= Budget
(* 06c and 06d: retry within the budget, else escalate.                    *)
RouteRetry(l) == Unrouted(l, FALSE) /\ loop[l].attempts < Budget
RouteEscalateLate(l) == Unrouted(l, FALSE) /\ loop[l].attempts > Budget
RouteEscalate(l) == Unrouted(l, FALSE) /\ loop[l].attempts >= Budget
(* 06f and 06g: the same for an attempt a provider fault ended.            *)
RouteTransientRetry(l) == Unrouted(l, TRUE) /\ loop[l].transients < TransientCap
RouteTransientPark(l)  == Unrouted(l, TRUE) /\ loop[l].transients >= TransientCap

(* 07a-07d: the review's verdict, or a review that ended without one.      *)
ReviewApproved(l) == loop[l].verdict = "approved" /\ ~Has(l, "routed")
ReviewRetry(l) == /\ loop[l].verdict = "changes_requested"
                  /\ loop[l].attempts < Budget /\ ~Has(l, "routed")
ReviewPark(l)  == /\ loop[l].verdict = "changes_requested"
                  /\ loop[l].attempts >= Budget /\ ~Has(l, "routed")
ReviewNoVerdict(l) == /\ loop[l].role = "reviewer" /\ loop[l].pc = "ended"
                      /\ loop[l].verdict = "none" /\ ~Has(l, "routed")

(* run-lifecycle/06: a station gave up on this loop.                       *)
StationFailedLoop(l) == Has(l, "failed") /\ ~Has(l, "park-routed")

(* On the run, 08a, 08b and run-lifecycle/05.                              *)
DeliverRun ==
  run.verify = "pass" /\ run.verdict = "approved" /\ "routed" \notin run.marks
ParkRun == run.verify = "fail" /\ "routed" \notin run.marks
StationFailedRun == /\ "failed" \in run.marks /\ ~run.parked /\ ~run.pr
                    /\ "park-routed" \notin run.marks

LoopRules == {"04", "05", "06a", "06b", "06c", "06d", "06e", "06f", "06g",
              "07a", "07b", "07c", "07d", "failed-loop"}
RunRules  == {"08a", "08b", "failed-run"}
RuleOn    == (LoopRules \X Loops) \cup (RunRules \X {Run})

When(r, e) ==
  IF e = Run
  THEN CASE r = "08a" -> DeliverRun [] r = "08b" -> ParkRun [] OTHER -> StationFailedRun
  ELSE CASE r = "04" -> Dispatch(e)          [] r = "05" -> FloorsTrigger(e)
         [] r = "06a" -> RouteAdvance(e)     [] r = "06b" -> RouteNotClean(e)
         [] r = "06c" -> RouteRetry(e)       [] r = "06d" -> RouteEscalate(e)
         [] r = "06e" -> RouteNotCleanFloor(e)
         [] r = "06f" -> RouteTransientRetry(e)
         [] r = "06g" -> RouteTransientPark(e)
         [] r = "07a" -> ReviewApproved(e)   [] r = "07b" -> ReviewRetry(e)
         [] r = "07c" -> ReviewPark(e)       [] r = "07d" -> ReviewNoVerdict(e)
         [] OTHER -> StationFailedLoop(e)

(* Their actions, in the order the engine runs them.                       *)
NotClean == <<"unclean">>

Does(r) ==
  CASE r = "04" -> <<"dispatched", "attempt", "developer">>
    [] r = "05" -> <<"dispatched", "floors">>
    [] r = "06a" -> <<"routed", "reviewer">>
    [] r \in {"06b", "06e"} -> NotClean
    [] r \in {"06c", "07b"} -> <<"routed", "attempt", "developer">>
    [] r = "06f" -> <<"routed", "transient", "developer">>
    [] r \in {"06d", "06g", "07c", "07d", "08b"} -> <<"routed", "park">>
    [] r = "07a" -> <<"routed", "verify">>
    [] r = "08a" -> <<"routed", "delivery">>
    [] OTHER -> <<"park", "park-routed">>

Marks == {"dispatched", "routed", "unclean", "park-routed"}
Roles == {"developer", "reviewer"}

RuleState == matched' = {m \in matched : When(m[1], m[2])'}

Mishaps == used.lost + used.restarts
Troubles == used.errors + Mishaps
Lose  == Troubles < MaxMishaps /\ used' = [used EXCEPT !.lost = @ + 1]
Error == Troubles < MaxErrors /\ used' = [used EXCEPT !.errors = @ + 1]

(* The coordinator's loop 1 has just decided dev_from_task.                *)
Init ==
  /\ head = 0
  /\ run = [recorded |-> 0, green |-> FALSE, measured |-> 0, verdict |-> "none",
            verify |-> "none", attempts |-> 0, transients |-> 0, pr |-> FALSE,
            parked |-> FALSE, marks |-> {}]
  /\ forge = [tip |-> 0, prs |-> 0]
  /\ loop = [l \in Loops |-> IF l = 1 THEN [Unborn EXCEPT !.role = "coordinator", !.pc = "ended"]
                                      ELSE Unborn]
  /\ firing = {} /\ matched = {}
  /\ queue = [s \in Stations |-> <<>>] /\ job = [s \in Stations |-> NoJob]
  /\ proof = [green |-> 0, clean |-> 0]
  /\ used = [errors |-> 0, lost |-> 0, unrecorded |-> 0, restarts |-> 0, forgot |-> 0]

-----------------------------------------------------------------------------
(* The rule engine.                                                        *)

Fire(r, e) ==
  /\ <<r, e>> \notin matched /\ When(r, e)
  /\ matched' = matched \cup {<<r, e>>}
  /\ firing' = firing \cup {[rule |-> r, on |-> e, todo |-> Does(r)]}
  /\ UNCHANGED <<head, run, forge, loop, queue, job, proof, used>>

Advance(f) == firing' = (firing \ {f}) \cup
                (IF Len(f.todo) > 1 THEN {[f EXCEPT !.todo = Tail(@)]} ELSE {})

(* add_triple of a marker on the firing entity.                            *)
AddMark(f) ==
  /\ Head(f.todo) \in Marks
  /\ IF f.on = Run
     THEN run' = [run EXCEPT !.marks = @ \cup {Head(f.todo)}] /\ loop' = loop
     ELSE loop' = [loop EXCEPT ![f.on].marks = @ \cup {Head(f.todo)}] /\ run' = run
  /\ Advance(f)
  /\ UNCHANGED <<head, forge, queue, job, proof, used>>
  /\ RuleState

(* add_triple on the run: task.attempt, task.transient, run.awaiting.human.*)
AddToRun(f) ==
  /\ \/ Head(f.todo) = "attempt" /\ run' = [run EXCEPT !.attempts = @ + 1]
     \/ Head(f.todo) = "transient" /\ run' = [run EXCEPT !.transients = @ + 1]
     \/ Head(f.todo) = "park" /\ run' = [run EXCEPT !.parked = TRUE]
  /\ Advance(f)
  /\ UNCHANGED <<head, forge, loop, queue, job, proof, used>>
  /\ RuleState

(* publish_agent: the next unused loop is born.                            *)
SpawnLoop(f) ==
  /\ Head(f.todo) \in Roles
  /\ \E l \in Loops :
       /\ loop[l].pc = "unborn" /\ \A k \in 1..(l - 1) : loop[k].pc # "unborn"
       /\ loop' = [loop EXCEPT ![l] = Spawned(Head(f.todo))]
  /\ Advance(f)
  /\ UNCHANGED <<head, run, forge, queue, job, proof, used>>
  /\ RuleState

(* publish on core NATS.                                                   *)
PublishDispatch(f) ==
  /\ Head(f.todo) \in Stations
  /\ queue' = [queue EXCEPT ![Head(f.todo)] = Append(@, f.on)]
  /\ Advance(f)
  /\ UNCHANGED <<head, run, forge, loop, matched, job, proof, used>>

(* A failed action is logged; the remaining ones run.                      *)
LoseAction(f) ==
  /\ Lose /\ Advance(f)
  /\ UNCHANGED <<head, run, forge, loop, matched, queue, job, proof>>

Act(f) == AddMark(f) \/ AddToRun(f) \/ SpawnLoop(f) \/ PublishDispatch(f)

-----------------------------------------------------------------------------
(* The developer's tools; calls of one loop are serialized.  A patch that  *)
(* is refused leaves the checkout as it was.                               *)

(* apply_patch commits, then stamps attempt.commit.sha; no other role has  *)
(* the tool.                                                               *)
ApplyPatchAnyRole(l) ==
  /\ loop[l].pc = "working" /\ head < MaxPatches
  /\ head' = head + 1
  /\ loop' = [loop EXCEPT ![l].pc = "stamping", ![l].tree = head + 1]
  /\ UNCHANGED <<run, forge, firing, matched, queue, job, proof, used>>
ApplyPatch(l) ==
  /\ loop[l].role = "developer" /\ loop[l].pc = "working" /\ head < MaxPatches
  /\ head' = head + 1
  /\ loop' = [loop EXCEPT ![l].pc = "stamping", ![l].tree = head + 1]
  /\ UNCHANGED <<run, forge, firing, matched, queue, job, proof, used>>

RecordCommit(l) ==
  /\ loop[l].pc = "stamping"
  /\ \/ run' = [run EXCEPT !.recorded = loop[l].tree] /\ used' = used
     \/ /\ Troubles < MaxErrors /\ run' = run
        /\ used' = [used EXCEPT !.errors = @ + 1, !.unrecorded = @ + 1]
  /\ loop' = [loop EXCEPT ![l].pc = "working", ![l].tree = 0]
  /\ UNCHANGED <<head, forge, firing, matched, queue, job, proof>>

(* measure_task runs the test command, then reads attempt.commit.sha and   *)
(* stamps the result bound to it.                                          *)
Measure(l, green) ==
  /\ loop[l].role = "developer" /\ loop[l].pc = "working"
  /\ loop' = [loop EXCEPT ![l].pc = "measuring", ![l].tree = head, ![l].green = green]
  /\ UNCHANGED <<head, run, forge, firing, matched, queue, job, proof, used>>

RecordMeasurement(l) ==
  /\ loop[l].pc = "measuring"
  /\ \/ /\ run' = [run EXCEPT !.green = loop[l].green, !.measured = run.recorded]
        /\ proof' = IF loop[l].green THEN [proof EXCEPT !.green = loop[l].tree] ELSE proof
        /\ used' = used
     \/ run' = run /\ proof' = proof /\ Error
  /\ loop' = [loop EXCEPT ![l].pc = "working", ![l].tree = 0, ![l].green = FALSE]
  /\ UNCHANGED <<head, forge, firing, matched, queue, job>>

(* A loop ends: by its model, its iteration cap, or a provider fault (the  *)
(* terminal reason the floors station reads off a developer's loop).       *)
EndLoop(l, transient) ==
  /\ loop[l].pc \in {"working", "mirrored"}
  /\ transient => loop[l].role = "developer"
  /\ loop' = [loop EXCEPT ![l].pc = "ended", ![l].transient = transient]
  /\ UNCHANGED <<head, run, forge, firing, queue, job, proof, used>>
  /\ RuleState

-----------------------------------------------------------------------------
(* submit_review: the verdict goes to the run first, then, with the run's  *)
(* attempts, to the review loop, which that stops.  An error returns to    *)
(* the model, which may submit again, differently, or end.                 *)

Verdict(approved) == IF approved THEN "approved" ELSE "changes_requested"

SubmitReview(l, findings) ==
  /\ loop[l].role = "reviewer" /\ loop[l].pc = "working"
  /\ \/ /\ run' = [run EXCEPT !.verdict = Verdict(run.green /\ ~findings)]
        /\ loop' = [loop EXCEPT ![l].pc = "mirroring", ![l].green = run.green /\ ~findings]
        /\ used' = used
     \/ run' = run /\ loop' = loop /\ Error
  /\ UNCHANGED <<head, forge, firing, queue, job, proof>>
  /\ RuleState

VerdictMirror(l) ==
  [loop[l] EXCEPT !.pc = "mirrored", !.green = FALSE,
                  !.verdict = Verdict(loop[l].green), !.attempts = run.attempts]

MirrorVerdict(l) ==
  /\ loop[l].pc = "mirroring"
  /\ \/ /\ run.attempts > 0
        /\ loop' = [loop EXCEPT ![l] = VerdictMirror(l)]
        /\ used' = used
     \/ /\ loop' = [loop EXCEPT ![l].pc = "working", ![l].green = FALSE]
        /\ IF run.attempts = 0 THEN used' = used ELSE Error
  /\ UNCHANGED <<head, run, forge, firing, queue, job, proof>>
  /\ RuleState

-----------------------------------------------------------------------------
(* Stations: one handler at a time takes a dispatch, tries it up to        *)
(* HandleAttempts times, and stamps station.dispatch.failed on the firing  *)
(* entity when they are used up.                                           *)

Take(s) ==
  /\ job[s].pc = "idle" /\ queue[s] # <<>>
  /\ queue' = [queue EXCEPT ![s] = Tail(@)]
  /\ job' = [job EXCEPT ![s] = [on |-> Head(queue[s]), pc |-> "start", attempt |-> 1, tree |-> 0]]
  /\ UNCHANGED <<head, run, forge, loop, firing, matched, proof, used>>

Failing(s) ==
  LET j == job[s] IN
  [job EXCEPT ![s] = IF j.attempt < HandleAttempts
                     THEN [j EXCEPT !.pc = "start", !.attempt = j.attempt + 1, !.tree = 0]
                     ELSE [j EXCEPT !.pc = "failed"]]

HandleError(s) ==
  /\ job[s].pc \notin {"idle", "failed"}
  /\ Error
  /\ job' = Failing(s)
  /\ UNCHANGED <<head, run, forge, loop, firing, matched, queue, proof>>

StampDispatchFailed(s) ==
  /\ job[s].pc = "failed"
  /\ IF job[s].on = Run
     THEN run' = [run EXCEPT !.marks = @ \cup {"failed"}] /\ loop' = loop
     ELSE loop' = [loop EXCEPT ![job[s].on].marks = @ \cup {"failed"}] /\ run' = run
  /\ job' = [job EXCEPT ![s] = NoJob]
  /\ UNCHANGED <<head, forge, firing, queue, proof, used>>
  /\ RuleState

(* A handler that panics stamps nothing, nor does a stamp that fails.      *)
DropDispatch(s) ==
  /\ job[s].pc # "idle"
  /\ Lose
  /\ job' = [job EXCEPT ![s] = NoJob]
  /\ UNCHANGED <<head, run, forge, loop, firing, matched, queue, proof>>

(* RunFloors: evaluate the attempt, then mirror the measurement, the floor *)
(* verdict, the run's spend and the loop's terminal in one write.  A       *)
(* measurement counts only if it was bound to the commit now recorded.     *)
MeasuredPassedUnbound == run.green
MeasuredPassed == run.green /\ run.recorded # 0 /\ run.measured = run.recorded

RouteMirror(l, rejected) ==
  [loop[l] EXCEPT !.passed = IF MeasuredPassed THEN "true" ELSE "false", !.rejected = rejected,
                  !.attempts = run.attempts, !.transients = run.transients]

RunFloors(rejected) ==
  LET s == "floors"  l == job["floors"].on IN
  /\ job[s].pc = "start"
  /\ \/ /\ run.attempts > 0
        /\ loop' = [loop EXCEPT ![l] = RouteMirror(l, rejected)]
        /\ job' = [job EXCEPT ![s] = NoJob]
     \/ run.attempts = 0 /\ loop' = loop /\ job' = Failing(s)
  /\ UNCHANGED <<head, run, forge, firing, queue, proof, used>>
  /\ RuleState

(* RunVerify clones HEAD and stamps what the clean room decided; a retry   *)
(* outcome is stamped too, and fails the handler.                          *)
CloneForVerify ==
  /\ job["verify"].pc = "start"
  /\ job' = [job EXCEPT !["verify"].pc = "cloned", !["verify"].tree = head]
  /\ UNCHANGED <<head, run, forge, loop, firing, matched, queue, proof, used>>

StampVerify(outcome) ==
  LET s == "verify" IN
  /\ job[s].pc = "cloned"
  /\ run' = [run EXCEPT !.verify = outcome]
  /\ proof' = IF outcome = "pass" THEN [proof EXCEPT !.clean = job[s].tree] ELSE proof
  /\ IF outcome = "retry" THEN job' = Failing(s) /\ Error
     ELSE job' = [job EXCEPT ![s] = NoJob] /\ used' = used
  /\ UNCHANGED <<head, forge, loop, firing, queue>>
  /\ RuleState

(* Deliver: a delivered run is left alone; push the recorded commit, adopt *)
(* or create the pull request, stamp delivery.pr.ref.                      *)
Push ==
  LET s == "delivery" IN
  /\ job[s].pc = "start"
  /\ \/ run.pr /\ forge' = forge /\ job' = [job EXCEPT ![s] = NoJob]
     \/ /\ ~run.pr /\ run.recorded # 0
        /\ forge' = [forge EXCEPT !.tip = run.recorded]
        /\ job' = [job EXCEPT ![s].pc = "pushed"]
     \/ ~run.pr /\ run.recorded = 0 /\ forge' = forge /\ job' = Failing(s)
  /\ UNCHANGED <<head, run, loop, firing, matched, queue, proof, used>>

OpenPR ==
  /\ job["delivery"].pc = "pushed"
  /\ forge' = [forge EXCEPT !.prs = IF @ = 0 THEN 1 ELSE @]
  /\ job' = [job EXCEPT !["delivery"].pc = "opened"]
  /\ UNCHANGED <<head, run, loop, firing, matched, queue, proof, used>>

StampPR ==
  /\ job["delivery"].pc = "opened"
  /\ run' = [run EXCEPT !.pr = TRUE]
  /\ job' = [job EXCEPT !["delivery"] = NoJob]
  /\ UNCHANGED <<head, forge, loop, firing, queue, proof, used>>
  /\ RuleState

(* The process restarts: dispatches not finished and rule actions not run  *)
(* are gone, and RULE_STATE may be gone with them.                         *)
Restart ==
  /\ Troubles < MaxMishaps
  /\ firing' = {}
  /\ queue' = [s \in Stations |-> <<>>] /\ job' = [s \in Stations |-> NoJob]
  /\ \/ matched' = matched /\ used' = [used EXCEPT !.restarts = @ + 1]
     \/ matched' = {} /\ used' = [used EXCEPT !.restarts = @ + 1, !.forgot = @ + 1]
  /\ UNCHANGED <<head, run, forge, loop, proof>>

-----------------------------------------------------------------------------
EngineNext == (\E re \in RuleOn : Fire(re[1], re[2])) \/ \E f \in firing : Act(f)
ToolNext(l) == \/ ApplyPatch(l) \/ RecordCommit(l) \/ RecordMeasurement(l) \/ MirrorVerdict(l)
               \/ \E b \in BOOLEAN : Measure(l, b) \/ SubmitReview(l, b)
EndNext(l) == \E t \in BOOLEAN : EndLoop(l, t)
StationNext(s) ==
  \/ Take(s) \/ StampDispatchFailed(s)
  \/ s = "floors" /\ \E b \in BOOLEAN : RunFloors(b)
  \/ s = "verify" /\ (CloneForVerify \/ \E o \in {"pass", "fail", "retry"} : StampVerify(o))
  \/ s = "delivery" /\ (Push \/ OpenPR \/ StampPR)

Next == \/ EngineNext \/ (\E f \in firing : LoseAction(f)) \/ Restart
        \/ \E l \in Loops : ToolNext(l) \/ EndNext(l)
        \/ \E s \in Stations : StationNext(s) \/ HandleError(s) \/ DropDispatch(s)

Spec == Init /\ [][Next]_vars

(* The engine evaluates and acts; a handler works; a tool call returns; a  *)
(* loop ends, because the framework caps its iterations.                   *)
Fairness ==
  /\ WF_vars(EngineNext)
  /\ \A s \in Stations : WF_vars(StationNext(s))
  /\ \A l \in Loops : WF_vars(RecordCommit(l) \/ RecordMeasurement(l) \/ MirrorVerdict(l))
                      /\ SF_vars(EndNext(l))

FairSpec == Spec /\ Fairness

-----------------------------------------------------------------------------
(* Properties.                                                             *)

LoopFacts == [role : Roles \cup {"coordinator", "none"},
              pc : {"unborn", "working", "stamping", "measuring", "mirroring", "mirrored", "ended"},
              transient : BOOLEAN, marks : SUBSET (Marks \cup {"failed"}),
              passed : {"none", "true", "false"}, rejected : BOOLEAN,
              attempts : Nat, transients : Nat,
              verdict : {"none", "approved", "changes_requested"}, tree : Nat, green : BOOLEAN]
RunFacts == [recorded : Nat, green : BOOLEAN, measured : Nat,
             verdict : {"none", "approved", "changes_requested"},
             verify : {"none", "pass", "fail", "retry"}, attempts : Nat, transients : Nat,
             pr : BOOLEAN, parked : BOOLEAN, marks : SUBSET (Marks \cup {"failed"})]
Steps    == Marks \cup Roles \cup Stations \cup {"attempt", "transient", "park"}
Firing   == [rule : LoopRules \cup RunRules, on : Loops \cup {Run}, todo : Seq(Steps) \ {<<>>}]
JobFacts == [on : Loops \cup {Run}, tree : Nat, attempt : Nat,
             pc : {"idle", "start", "failed", "cloned", "pushed", "opened"}]
Usage    == [errors : Nat, lost : Nat, unrecorded : Nat, restarts : Nat, forgot : Nat]

TypeOK ==
  /\ head \in Nat
  /\ run \in RunFacts
  /\ forge \in [tip : Nat, prs : Nat]
  /\ loop \in [Loops -> LoopFacts]
  /\ firing \subseteq Firing /\ \A f \in firing : <<f.rule, f.on>> \in RuleOn
  /\ matched \subseteq RuleOn
  /\ queue \in [Stations -> Seq(Loops \cup {Run})] /\ job \in [Stations -> JobFacts]
  /\ proof \in [green : Nat, clean : Nat]
  /\ used \in Usage

(* Actions failed, or RULE_STATE was lost, but not both.                   *)
OneKindOfFault == used.lost = 0 \/ used.forgot = 0

Passing == {f \in firing : \E i \in 1..Len(f.todo) : f.todo[i] \in Roles \cup Stations}
Live    == {l \in Loops : loop[l].pc \in {"working", "stamping", "measuring", "mirroring"}}
Busy    == {s \in Stations : job[s].pc # "idle"}
Queued  == {s \in Stations : queue[s] # <<>>}

Batons == Cardinality(Passing) + Cardinality(Live) + Cardinality(Busy)
            + Len(queue["floors"]) + Len(queue["verify"]) + Len(queue["delivery"])

(* The routing table is exclusive, and its markers hold against either     *)
(* kind of fault: no attempt is ever handed to two workers, so nothing     *)
(* edits the one checkout, or judges it, while another does.  A parked run *)
(* waits for its human: nothing is working on it, nothing will start to,   *)
(* and it has not been delivered.                                          *)
OneBaton ==
  OneKindOfFault => Batons <= 1 /\ (run.parked => Batons = 0 /\ ~run.pr)

(* No more developers are paid for than the budget and the provider-fault  *)
(* allowance, one more for each append to the ledgers that failed.         *)
Developers == {l \in Loops : loop[l].role = "developer"}
SpendWithinBudget ==
  OneKindOfFault => Cardinality(Developers) <= Budget + TransientCap + used.lost

(* When every commit was recorded, the pull request carries the very tree  *)
(* that was measured green and proved in the clean room.                   *)
DeliveredIsProven ==
  OneKindOfFault /\ used.unrecorded = 0 /\ forge.tip # 0 =>
    forge.tip = proof.green /\ forge.tip = proof.clean

(* The same for every run that opens a pull request, as delivery claims.   *)
DeliveredIsVerified == forge.prs > 0 => forge.tip = proof.clean

(* The route table is complete: unless a rule action or a dispatch was     *)
(* lost, each run ends in a pull request or with its human.                *)
RunConcludes == <>(run.pr \/ run.parked \/ used.lost > 0 \/ used.restarts > 0)
=============================================================================
