---------------------------- MODULE DevLoopBaton ----------------------------
(***************************************************************************)
(* Proofs about DevLoop, for any budget, any number of loops and any       *)
(* faults: the work is a single baton.                                     *)
(***************************************************************************)
EXTENDS DevLoopShape

(* The baton is nowhere but here.                                          *)
Sole(w, k, x) == \A j \in Kinds : \A y \in Places(w, j) : j = k /\ y = x
One(w) == \A k \in Kinds : \A x \in Places(w, k) : Sole(w, k, x)
Nobody(w) == \A k \in Kinds : Places(w, k) = {}

(* The place a rule takes the baton from.                                  *)
Origin(r) == CASE r \in {"04", "05"} -> "trigger"
               [] r \in Routing -> "route"
               [] r \in Reviewing -> "review"
               [] r \in Closing -> "verdict"
               [] r = "failed-loop" -> "failed"
               [] OTHER -> "failed-run"

(* After the clean room's verdict there is only delivery and parking.      *)
LatePlace(k, x) == \/ k \in {"verdict", "failed-run"}
                   \/ k = "carrier" /\ x.rule \in RunRules
                   \/ k \in {"queue", "job"} /\ x = "delivery"
Late(w) == run.verify \in {"pass", "fail"} =>
             \A k \in Kinds : \A x \in Places(w, k) : LatePlace(k, x)

(* On a parked run only a second report of failure is left; on a delivered *)
(* run nothing is.                                                         *)
ParkedPlace(k, x) == k = "failed" \/ (k = "carrier" /\ x.rule \in Surrender)
ParkedIdle(w) == run.parked =>
                   /\ ~run.pr
                   /\ \A k \in Kinds : \A x \in Places(w, k) : ParkedPlace(k, x)
Baton(w) == One(w) /\ Late(w) /\ ParkedIdle(w) /\ (run.pr => Nobody(w))

(* The floors judge a loop once, and not-clean is what they said.          *)
Unclean(l) == loop[l].passed = "false" \/ loop[l].rejected
Unjudged(w) ==
  /\ \A l \in Places(w, "trigger") : loop[l].passed = "none"
  /\ \A f \in Places(w, "carrier") : f.rule = "05" => loop[f.on].passed = "none"
  /\ queue["floors"] # <<>> => loop[Head(queue["floors"])].passed = "none"
  /\ job["floors"].pc # "idle" => loop[job["floors"].on].passed = "none"
Judged == /\ \A f \in firing : f.rule \in Cleaning => Unclean(f.on)
          /\ \A l \in Loops : Has(l, "unclean") => Unclean(l)

(* A rule whose mark is still to be written has matched.                   *)
Pending(f) == f.todo = Does(f.rule) \/ f.rule \in Surrender
Moot(f)    == f.rule = "failed-run" /\ run.parked
Waiting(f) == Pending(f) /\ f.rule \notin Cleaning /\ ~Moot(f)
Remembered ==
  /\ \A f \in firing : Waiting(f) => <<f.rule, f.on>> \in matched
  /\ \A f, g \in firing : Pending(f) /\ Pending(g) /\ f.rule = g.rule /\ f.on = g.on => f = g

Short == \A s \in Stations : Len(queue[s]) <= 1

Relay(w) == Baton(w) /\ Short /\ Unjudged(w) /\ Judged /\ (w = "marked" => Remembered)
BatonInv(w) == World(w) => Relay(w)
-----------------------------------------------------------------------------
(* The places, before and after a step.                                    *)

LoopKinds == {"live", "trigger", "route", "review", "failed"}
RunKinds  == {"verdict", "failed-run"}

LEMMA At ==
  ASSUME NEW w, NEW x
  PROVE  /\ x \in Places(w, "live") <=> x \in Live
         /\ x \in Places(w, "trigger") <=> x \in Loops /\ TriggerAt(w, x)
         /\ x \in Places(w, "route") <=> x \in Loops /\ RouteAt(w, x)
         /\ x \in Places(w, "review") <=> x \in Loops /\ ReviewAt(w, x)
         /\ x \in Places(w, "failed") <=> x \in Loops /\ FailedAt(w, x)
         /\ x \in Places(w, "verdict") <=> x = Run /\ VerdictAt(w)
         /\ x \in Places(w, "failed-run") <=> x = Run /\ FailedRunAt(w)
         /\ x \in Places(w, "carrier") <=> x \in firing /\ Carries(w, x)
         /\ x \in Places(w, "queue") <=> x \in Stations /\ queue[x] # <<>>
         /\ x \in Places(w, "job") <=> x \in Stations /\ job[x].pc # "idle"
  BY DEF Places, Queued, Busy

LEMMA AtNext ==
  ASSUME NEW w, NEW x
  PROVE  /\ x \in Places(w, "live")' <=> x \in Live'
         /\ x \in Places(w, "trigger")' <=> x \in Loops /\ TriggerAt(w, x)'
         /\ x \in Places(w, "route")' <=> x \in Loops /\ RouteAt(w, x)'
         /\ x \in Places(w, "review")' <=> x \in Loops /\ ReviewAt(w, x)'
         /\ x \in Places(w, "failed")' <=> x \in Loops /\ FailedAt(w, x)'
         /\ x \in Places(w, "verdict")' <=> x = Run /\ VerdictAt(w)'
         /\ x \in Places(w, "failed-run")' <=> x = Run /\ FailedRunAt(w)'
         /\ x \in Places(w, "carrier")' <=> x \in firing' /\ Carries(w, x)
         /\ x \in Places(w, "queue")' <=> x \in Stations /\ queue'[x] # <<>>
         /\ x \in Places(w, "job")' <=> x \in Stations /\ job'[x].pc # "idle"
  BY DEF Places, Queued, Busy, Carries

LEMMA KindsAre == Kinds = LoopKinds \cup RunKinds \cup {"carrier", "queue", "job"}
  BY DEF Kinds, LoopKinds, RunKinds

LEMMA InLoops ==
  ASSUME NEW w, NEW k \in LoopKinds
  PROVE  Places(w, k) \subseteq Loops /\ Places(w, k)' \subseteq Loops
  BY At, AtNext DEF LoopKinds, Live

LEMMA InRun ==
  ASSUME NEW w, NEW k \in RunKinds
  PROVE  Places(w, k) \subseteq {Run} /\ Places(w, k)' \subseteq {Run}
  BY At, AtNext DEF RunKinds

(* What the engine does to RULE_STATE in a step that runs no rule.         *)
EngineFrame == RuleState \/ matched' = matched

LEMMA OpenFrame ==
  ASSUME Shape, EngineFrame, NEW w
  PROVE  /\ \A l \in Loops : SameLoop(l) =>
              \A R \in SUBSET LoopRules : Open(w, R, l)' <=> Open(w, R, l)
         /\ SameRun => \A R \in SUBSET RunRules : Open(w, R, Run)' <=> Open(w, R, Run)
<1>1. /\ \A l \in Loops : SameLoop(l) =>
              \A r \in LoopRules : <<r, l>> \in matched' <=> <<r, l>> \in matched
      /\ SameRun => \A r \in RunRules : <<r, Run>> \in matched' <=> <<r, Run>> \in matched
  BY ShapeParts, SameMatched DEF EngineFrame
<1> QED BY <1>1 DEF Open

(* A loop whose facts stay keeps its places.                               *)
LEMMA LoopFrame ==
  ASSUME Shape, EngineFrame, NEW w, NEW l \in Loops, SameLoop(l)
  PROVE  /\ \A k \in {"trigger", "route", "failed"} :
              l \in Places(w, k)' <=> l \in Places(w, k)
         /\ loop'[l].pc = loop[l].pc => \A k \in LoopKinds : l \in Places(w, k)' <=> l \in Places(w, k)
<1>1. \A R \in SUBSET LoopRules : Open(w, R, l)' <=> Open(w, R, l)
  BY OpenFrame
<1>2. {"04"} \in SUBSET LoopRules /\ {"05"} \in SUBSET LoopRules
      /\ {"failed-loop"} \in SUBSET LoopRules
      /\ Routing \in SUBSET LoopRules /\ Reviewing \in SUBSET LoopRules
  BY DEF LoopRules, Routing, Reviewing
<1>3. TriggerAt(w, l)' <=> TriggerAt(w, l)
  <2>1. Open(w, {"04"}, l)' <=> Open(w, {"04"}, l)
    BY <1>1, <1>2
  <2>2. Open(w, {"05"}, l)' <=> Open(w, {"05"}, l)
    BY <1>1, <1>2
  <2>3. (Dispatch(l)' <=> Dispatch(l)) /\ (FloorsTrigger(l)' <=> FloorsTrigger(l))
    BY DEF SameLoop, Dispatch, FloorsTrigger, Has
  <2> QED BY <2>1, <2>2, <2>3 DEF TriggerAt
<1>4. RouteAt(w, l)' <=> RouteAt(w, l)
  BY <1>1, <1>2 DEF RouteAt, SameLoop, Has
<1>5. FailedAt(w, l)' <=> FailedAt(w, l)
  <2>1. Open(w, {"failed-loop"}, l)' <=> Open(w, {"failed-loop"}, l)
    BY <1>1, <1>2
  <2> QED BY <2>1 DEF FailedAt, StationFailedLoop, SameLoop, Has
<1>6. ASSUME loop'[l].pc = loop[l].pc
      PROVE  (ReviewAt(w, l)' <=> ReviewAt(w, l)) /\ (l \in Live' <=> l \in Live)
  BY <1>1, <1>2, <1>6 DEF ReviewAt, SameLoop, Has, Live
<1>7. \A k \in {"trigger", "route", "failed"} : l \in Places(w, k)' <=> l \in Places(w, k)
  BY <1>3, <1>4, <1>5, At, AtNext
<1> QED BY <1>6, <1>7, At, AtNext DEF LoopKinds

LEMMA OtherLoops ==
  ASSUME Shape, EngineFrame, NEW w, NEW l \in Loops, OnlyLoop(l)
  PROVE  \A k \in LoopKinds : \A x \in Places(w, k)' : x # l => x \in Places(w, k)
<1> SUFFICES ASSUME NEW k \in LoopKinds, NEW x \in Places(w, k)', x # l
             PROVE  x \in Places(w, k)
  OBVIOUS
<1>1. x \in Loops
  BY InLoops
<1>2. SameLoop(x) /\ loop'[x].pc = loop[x].pc
  BY <1>1 DEF OnlyLoop, SameLoop
<1> QED BY <1>1, <1>2, LoopFrame

LEMMA AllLoops ==
  ASSUME Shape, EngineFrame, NEW w, loop' = loop
  PROVE  \A k \in LoopKinds : Places(w, k)' \subseteq Places(w, k)
<1> SUFFICES ASSUME NEW k \in LoopKinds, NEW x \in Places(w, k)'
             PROVE  x \in Places(w, k)
  OBVIOUS
<1>1. x \in Loops
  BY InLoops
<1>2. SameLoop(x) /\ loop'[x].pc = loop[x].pc
  BY <1>1 DEF SameLoop
<1> QED BY <1>1, <1>2, LoopFrame

LEMMA RunFrame ==
  ASSUME Shape, EngineFrame, NEW w, SameRun
  PROVE  \A k \in RunKinds : Places(w, k)' \subseteq Places(w, k)
<1>1. Closing \in SUBSET RunRules /\ {"failed-run"} \in SUBSET RunRules
  BY DEF Closing, RunRules
<1>2. \A R \in SUBSET RunRules : Open(w, R, Run)' <=> Open(w, R, Run)
  BY OpenFrame
<1>3. VerdictAt(w)' <=> VerdictAt(w)
  BY <1>1, <1>2 DEF VerdictAt, SameRun
<1>4. FailedRunAt(w)' <=> FailedRunAt(w)
  <2>1. Open(w, {"failed-run"}, Run)' <=> Open(w, {"failed-run"}, Run)
    BY <1>1, <1>2
  <2> QED BY <2>1 DEF FailedRunAt, StationFailedRun, SameRun
<1> QED BY <1>3, <1>4, At, AtNext DEF RunKinds

LEMMA CarrierFrame ==
  ASSUME NEW w
  PROVE  firing' \subseteq firing => Places(w, "carrier")' \subseteq Places(w, "carrier")
  BY At, AtNext

LEMMA QueueFrame ==
  ASSUME NEW w
  PROVE  queue' = queue => Places(w, "queue")' \subseteq Places(w, "queue")
  BY At, AtNext

LEMMA JobFrame ==
  ASSUME NEW w
  PROVE  /\ job' = job => Places(w, "job")' \subseteq Places(w, "job")
         /\ \A s \in Stations : Holds(s) =>
              \A x \in Places(w, "job")' : x # s => x \in Places(w, "job")
         /\ \A s \in Stations : PutsDown(s) =>
              Places(w, "job")' \subseteq Places(w, "job") \ {s}
  BY At, AtNext DEF Holds, PutsDown, OnlyJob, NoJob

(* A mark takes places away; a station's failure may add one.              *)
LEMMA MarkPlaces ==
  ASSUME Shape, RuleState, NEW w, NEW e \in Loops \cup {Run}, NEW m \in Marks \cup {"failed"},
         AddsMark(e, m)
  PROVE  /\ \A k \in {"live", "trigger", "route", "review", "verdict"} :
              Places(w, k)' \subseteq Places(w, k)
         /\ \A k \in {"failed", "failed-run"} : \A x \in Places(w, k)' :
              x \in Places(w, k) \/ (m = "failed" /\ x = e)
         /\ e = Run => Places(w, "failed")' \subseteq Places(w, "failed")
         /\ e # Run => Places(w, "failed-run")' \subseteq Places(w, "failed-run")
<1>0. Typed /\ EngineFrame /\ MatchedHolds
  BY ShapeParts DEF EngineFrame
<1>1. \A r, d : <<r, d>> \in matched /\ When(r, d)' => <<r, d>> \in matched'
  BY DEF RuleState
<1>2. \A r, d : <<r, d>> \in matched => When(r, d)
  BY <1>0 DEF MatchedHolds
<1>3. CASE e = Run
  <2>1. /\ loop' = loop /\ run'.marks = run.marks \cup {m}
        /\ UNCHANGED <<run.verdict, run.verify, run.pr, run.parked>>
    BY <1>0, <1>3, MarkEffect
  <2>2. \A k \in LoopKinds : Places(w, k)' \subseteq Places(w, k)
    BY <1>0, <2>1, AllLoops
  <2>3. VerdictAt(w)' => VerdictAt(w)
    <3> SUFFICES ASSUME VerdictAt(w)' PROVE VerdictAt(w)
      OBVIOUS
    <3>1. run.verify \in {"pass", "fail"} /\ "routed" \notin run.marks /\ "routed" \notin run'.marks
          /\ run'.verify = run.verify
      BY <2>1 DEF VerdictAt
    <3>2. \A r \in Closing : <<r, Run>> \in matched => <<r, Run>> \in matched'
      BY <1>1, <1>2, <2>1, <3>1, WhenRun DEF Closing, DeliverRun, ParkRun
    <3> QED BY <3>1, <3>2 DEF VerdictAt, Open
  <2>4. m # "failed" => (FailedRunAt(w)' => FailedRunAt(w))
    <3> SUFFICES ASSUME m # "failed", FailedRunAt(w)' PROVE FailedRunAt(w)
      OBVIOUS
    <3>1. StationFailedRun /\ StationFailedRun'
      BY <2>1 DEF FailedRunAt, StationFailedRun
    <3>2. <<"failed-run", Run>> \in matched => <<"failed-run", Run>> \in matched'
      BY <1>1, <3>1, WhenRun
    <3> QED BY <3>1, <3>2 DEF FailedRunAt, Open
  <2> QED BY <1>3, <2>2, <2>3, <2>4, At, AtNext DEF LoopKinds
<1>4. CASE e # Run
  <2>1. /\ run' = run /\ e \in Loops /\ loop'[e].marks = loop[e].marks \cup {m} /\ OnlyLoop(e)
        /\ UNCHANGED <<loop[e].role, loop[e].pc, loop[e].transient, loop[e].passed,
                       loop[e].rejected, loop[e].attempts, loop[e].transients, loop[e].verdict>>
    BY <1>0, <1>4, MarkEffect DEF OnlyLoop
  <2>2. \A k \in LoopKinds : \A x \in Places(w, k)' : x # e => x \in Places(w, k)
    BY <1>0, <2>1, OtherLoops
  <2>3. \A k \in RunKinds : Places(w, k)' \subseteq Places(w, k)
    BY <1>0, <2>1, RunFrame DEF SameRun
  <2>4. e \in Live' => e \in Live
    BY <2>1 DEF Live
  <2>5. TriggerAt(w, e)' => TriggerAt(w, e)
    <3>1. CASE Dispatch(e)' /\ Open(w, {"04"}, e)'
      <4>1. Dispatch(e)
        BY <2>1, <3>1 DEF Dispatch, Has
      <4>2. <<"04", e>> \in matched => <<"04", e>> \in matched'
        BY <1>1, <2>1, <3>1, WhenLoopNext
      <4> QED BY <3>1, <4>1, <4>2 DEF TriggerAt, Open
    <3>2. CASE FloorsTrigger(e)' /\ Open(w, {"05"}, e)'
      <4>1. FloorsTrigger(e)
        BY <2>1, <3>2 DEF FloorsTrigger, Has
      <4>2. <<"05", e>> \in matched => <<"05", e>> \in matched'
        BY <1>1, <2>1, <3>2, WhenLoopNext
      <4> QED BY <3>2, <4>1, <4>2 DEF TriggerAt, Open
    <3> QED BY <3>1, <3>2 DEF TriggerAt
  <2>6. RouteAt(w, e)' => RouteAt(w, e)
    <3> SUFFICES ASSUME RouteAt(w, e)' PROVE RouteAt(w, e)
      OBVIOUS
    <3>1. loop[e].passed # "none" /\ ~Has(e, "routed") /\ ~Has(e, "routed")'
      BY <2>1 DEF RouteAt, Has
    <3>2. ASSUME NEW r \in Routing, <<r, e>> \in matched PROVE When(r, e)'
      <4>1. When(r, e)
        BY <1>2, <3>2
      <4> QED BY <2>1, <3>1, <4>1, WhenLoop, WhenLoopNext DEF Routing, RouteAdvance, RouteRetry,
              RouteEscalate, RouteTransientRetry, RouteTransientPark, Unrouted, Has
    <3>3. \A r \in Routing : <<r, e>> \in matched => <<r, e>> \in matched'
      BY <1>1, <3>2
    <3> QED BY <3>1, <3>3 DEF RouteAt, Open
  <2>7. ReviewAt(w, e)' => ReviewAt(w, e)
    <3> SUFFICES ASSUME ReviewAt(w, e)' PROVE ReviewAt(w, e)
      OBVIOUS
    <3>1. /\ loop[e].role = "reviewer" /\ loop[e].pc \in {"mirrored", "ended"}
          /\ ~Has(e, "routed") /\ ~Has(e, "routed")'
      BY <2>1 DEF ReviewAt, Has
    <3>2. ASSUME NEW r \in Reviewing, <<r, e>> \in matched PROVE When(r, e)'
      <4>1. When(r, e)
        BY <1>2, <3>2
      <4> QED BY <2>1, <3>1, <4>1, WhenLoop, WhenLoopNext
              DEF Reviewing, ReviewApproved, ReviewRetry, ReviewPark, ReviewNoVerdict, Has
    <3>3. \A r \in Reviewing : <<r, e>> \in matched => <<r, e>> \in matched'
      BY <1>1, <3>2
    <3> QED BY <3>1, <3>3 DEF ReviewAt, Open
  <2>8. m # "failed" => (FailedAt(w, e)' => FailedAt(w, e))
    <3> SUFFICES ASSUME m # "failed", FailedAt(w, e)' PROVE FailedAt(w, e)
      OBVIOUS
    <3>1. StationFailedLoop(e) /\ StationFailedLoop(e)'
      BY <2>1 DEF FailedAt, StationFailedLoop, Has
    <3>2. <<"failed-loop", e>> \in matched => <<"failed-loop", e>> \in matched'
      BY <1>1, <2>1, <3>1, WhenLoopNext
    <3> QED BY <3>1, <3>2 DEF FailedAt, Open
  <2>9. \A k \in {"live", "trigger", "route", "review"} : e \in Places(w, k)' => e \in Places(w, k)
    BY <2>1, <2>4, <2>5, <2>6, <2>7, At, AtNext
  <2>10. m # "failed" => (e \in Places(w, "failed")' => e \in Places(w, "failed"))
    BY <2>1, <2>8, At, AtNext
  <2> QED BY <1>4, <2>2, <2>3, <2>9, <2>10 DEF LoopKinds, RunKinds
<1> QED BY <1>3, <1>4

-----------------------------------------------------------------------------
(* The baton stays where it is or goes away; the baton passes.             *)

LEMMA Stays ==
  ASSUME NEW w, Baton(w),
         \A k \in Kinds : Places(w, k)' \subseteq Places(w, k),
         run'.verify = run.verify \/ run'.verify \notin {"pass", "fail"},
         run'.parked = run.parked, run'.pr = run.pr
  PROVE  Baton(w)'
<1>1. One(w)'
  BY DEF Baton, One, Sole
<1>2. Late(w)' /\ ParkedIdle(w)' /\ (run'.pr => Nobody(w)')
  BY DEF Baton, Late, ParkedIdle, Nobody, LatePlace, ParkedPlace
<1> QED BY <1>1, <1>2 DEF Baton

LEMMA Alone ==
  ASSUME NEW w, Baton(w), NEW j \in Kinds, NEW a \in Places(w, j)
  PROVE  /\ \A i \in Kinds : \A x \in Places(w, i) : i = j /\ x = a
         /\ ~run.pr
         /\ run.verify \in {"pass", "fail"} => LatePlace(j, a)
         /\ run.parked => ParkedPlace(j, a)
  BY DEF Baton, One, Sole, Late, ParkedIdle, Nobody

LEMMA Passes ==
  ASSUME NEW w, Baton(w), NEW j \in Kinds, NEW a \in Places(w, j),
         NEW k \in Kinds, NEW b,
         \A i \in Kinds : \A x \in Places(w, i)' : (i = k /\ x = b) \/ (x \in Places(w, i) /\ ~(i = j /\ x = a)),
         run'.verify = run.verify \/ run'.verify \notin {"pass", "fail"},
         run'.parked = run.parked, run'.pr = run.pr,
         run.verify \in {"pass", "fail"} /\ LatePlace(j, a) => LatePlace(k, b),
         run.parked /\ ParkedPlace(j, a) => ParkedPlace(k, b)
  PROVE  Baton(w)' /\ \A i \in Kinds : \A x \in Places(w, i)' : i = k /\ x = b
<1>1. /\ \A i \in Kinds : \A x \in Places(w, i) : i = j /\ x = a
      /\ ~run.pr
      /\ run.verify \in {"pass", "fail"} => LatePlace(j, a)
      /\ run.parked => ParkedPlace(j, a)
  BY Alone
<1>2. \A i \in Kinds : \A x \in Places(w, i)' : i = k /\ x = b
  BY <1>1
<1>3. One(w)'
  BY <1>2 DEF One, Sole
<1>4. Late(w)'
  BY <1>1, <1>2 DEF Late, LatePlace
<1>5. ParkedIdle(w)'
  BY <1>1, <1>2 DEF ParkedIdle, ParkedPlace
<1> QED BY <1>1, <1>2, <1>3, <1>4, <1>5 DEF Baton

-----------------------------------------------------------------------------
(* The place each rule takes the baton from.                               *)
LEMMA Origins ==
  /\ \A r \in {"04", "05"} : Origin(r) = "trigger"
  /\ \A r \in Routing : Origin(r) = "route"
  /\ \A r \in Reviewing : Origin(r) = "review"
  /\ \A r \in Closing : Origin(r) = "verdict"
  /\ Origin("failed-loop") = "failed" /\ Origin("failed-run") = "failed-run"
<1>1. \A r \in {"04", "05"} : Origin(r) = "trigger"
  BY DEF Origin, Routing, Reviewing, Closing
<1>2. \A r \in Routing : Origin(r) = "route"
  BY DEF Origin, Routing, Reviewing, Closing
<1>3. \A r \in Reviewing : Origin(r) = "review"
  BY DEF Origin, Routing, Reviewing, Closing
<1>4. \A r \in Closing : Origin(r) = "verdict"
  BY DEF Origin, Routing, Reviewing, Closing
<1>5. Origin("failed-loop") = "failed"
  BY DEF Origin, Routing, Reviewing, Closing
<1>6. Origin("failed-run") = "failed-run"
  BY DEF Origin, Routing, Reviewing, Closing
<1> QED BY <1>1, <1>2, <1>3, <1>4, <1>5, <1>6

(* The rules of a loop, by the place.                                      *)
LEMMA RuleGroups ==
  /\ \A r \in LoopRules \ Cleaning :
       r \in {"04", "05"} \/ r \in Routing \/ r \in Reviewing \/ r = "failed-loop"
  /\ \A r \in RunRules : r \in Closing \/ r = "failed-run"
  /\ {"04", "05", "failed-loop"} \cup Routing \cup Reviewing \subseteq LoopRules \ Cleaning
  /\ Closing \cup {"failed-run"} \subseteq RunRules /\ RunRules \cap Cleaning = {}
  BY DEF LoopRules, RunRules, Cleaning, Routing, Reviewing, Closing

-----------------------------------------------------------------------------
(* The routing table is exclusive: of the rules that take the baton from   *)
(* one place at most one can match.                                        *)

LEMMA Exclusive ==
  ASSUME Shape, NEW l \in Loops,
         NEW q \in LoopRules \ Cleaning, NEW r \in LoopRules \ Cleaning,
         When(q, l), When(r, l), Origin(q) = Origin(r), Has(l, "unclean") => Unclean(l)
  PROVE  q = r
<1>0. /\ run \in RunFacts /\ loop[l] \in LoopFacts
      /\ loop[l].attempts \in Nat /\ loop[l].transients \in Nat
      /\ Budget \in Nat /\ TransientCap \in Nat
  BY ShapeParts, TypeParts, LoopAssumption DEF LoopFacts
<1>1. CASE q \in {"04", "05"}
  <2>1. r \in {"04", "05"}
    BY <1>1, Origins, RuleGroups
  <2> QED BY <1>1, <2>1, WhenLoop DEF Dispatch, FloorsTrigger
<1>2. CASE q \in Routing
  <2>1. r \in Routing
    BY <1>2, Origins, RuleGroups
  <2>2. When("06a", l) => ~Has(l, "unclean")
    BY WhenLoop DEF RouteAdvance, Unclean
  <2>3. /\ When("06c", l) => Has(l, "unclean") /\ loop[l].transient = FALSE /\ loop[l].attempts < Budget
        /\ When("06d", l) => Has(l, "unclean") /\ loop[l].transient = FALSE /\ ~(loop[l].attempts < Budget)
    <3>1. loop[l].attempts >= Budget => ~(loop[l].attempts < Budget)
      BY <1>0
    <3> QED BY <3>1, WhenLoop DEF RouteRetry, RouteEscalate, Unrouted
  <2>4. /\ When("06f", l) => Has(l, "unclean") /\ loop[l].transient = TRUE /\ loop[l].transients < TransientCap
        /\ When("06g", l) => Has(l, "unclean") /\ loop[l].transient = TRUE /\ ~(loop[l].transients < TransientCap)
    <3>1. loop[l].transients >= TransientCap => ~(loop[l].transients < TransientCap)
      BY <1>0
    <3> QED BY <3>1, WhenLoop DEF RouteTransientRetry, RouteTransientPark, Unrouted
  <2> QED BY <1>2, <2>1, <2>2, <2>3, <2>4 DEF Routing
<1>3. CASE q \in Reviewing
  <2>1. r \in Reviewing
    BY <1>3, Origins, RuleGroups
  <2>2. /\ When("07a", l) => loop[l].verdict = "approved"
        /\ When("07b", l) => loop[l].verdict = "changes_requested" /\ loop[l].attempts < Budget
        /\ When("07c", l) => loop[l].verdict = "changes_requested" /\ ~(loop[l].attempts < Budget)
        /\ When("07d", l) => loop[l].verdict = "none"
    BY <1>0, WhenLoop DEF ReviewApproved, ReviewRetry, ReviewPark, ReviewNoVerdict
  <2> QED BY <1>3, <2>1, <2>2 DEF Reviewing
<1>4. CASE q = "failed-loop"
  BY <1>4, Origins, RuleGroups
<1> QED BY <1>1, <1>2, <1>3, <1>4, RuleGroups

LEMMA ExclusiveRun ==
  ASSUME NEW q \in RunRules, NEW r \in RunRules, When(q, Run), When(r, Run), Origin(q) = Origin(r)
  PROVE  q = r
<1>1. ~(When("08a", Run) /\ When("08b", Run))
  BY WhenRun DEF DeliverRun, ParkRun
<1>2. Origin("08a") = "verdict" /\ Origin("08b") = "verdict" /\ Origin("failed-run") = "failed-run"
  BY Origins DEF Closing
<1> QED BY <1>1, <1>2 DEF RunRules

(* A rule that can fire takes the baton from its place.                    *)
LEMMA OriginKinds ==
  /\ \A r \in LoopRules \ Cleaning : Origin(r) \in LoopKinds \ {"live"}
  /\ \A r \in RunRules : Origin(r) \in RunKinds
  BY DEF Origin, LoopRules, RunRules, Cleaning, Routing, Reviewing, Closing, LoopKinds, RunKinds

LEMMA FireOrigin ==
  ASSUME Shape, Judged, NEW w, NEW r, NEW e, <<r, e>> \in RuleOn, When(r, e), r \notin Cleaning,
         w = "marked" \/ <<r, e>> \notin matched
  PROVE  Origin(r) \in Kinds /\ e \in Places(w, Origin(r))
<1>0. MatchedHolds /\ (\A l \in Loops : LoopShape(l)) /\ Origin(r) \in Kinds
  BY ShapeParts, RuleOnFacts, OriginKinds, KindsAre
<1>1. ASSUME NEW R, r \in R,
             \A q \in R : Origin(q) = Origin(r) /\ q \notin Cleaning /\ <<q, e>> \in RuleOn
      PROVE  Open(w, R, e)
  <2>1. CASE w = "marked"
    BY <2>1 DEF Open
  <2>2. CASE w # "marked"
    <3>1. ASSUME NEW q \in R, <<q, e>> \in matched PROVE FALSE
      <4>1. When(q, e) /\ <<q, e>> \in RuleOn /\ q \notin Cleaning /\ Origin(q) = Origin(r)
        BY <1>0, <1>1, <3>1 DEF MatchedHolds
      <4>2. q = r
        <5>1. CASE e = Run
          BY <4>1, <5>1, RuleOnFacts, ExclusiveRun, LoopAssumption DEF Loops, Run, LoopRules, RunRules
        <5>2. CASE e # Run
          <6>1. e \in Loops /\ q \in LoopRules \ Cleaning /\ r \in LoopRules \ Cleaning
            BY <4>1, <5>2, RuleOnFacts
          <6> QED BY <4>1, <6>1, Exclusive DEF Judged
        <5> QED BY <5>1, <5>2
      <4> QED BY <2>2, <3>1, <4>2
    <3> QED BY <3>1 DEF Open
  <2> QED BY <2>1, <2>2
<1>2. CASE e # Run
  <2>1. e \in Loops /\ r \in LoopRules \ Cleaning
    BY <1>2, RuleOnFacts
  <2>2. \A q \in LoopRules : <<q, e>> \in RuleOn
    BY <2>1 DEF RuleOn
  <2>3. CASE r \in {"04", "05"}
    <3>1. {"04"} \subseteq LoopRules /\ {"05"} \subseteq LoopRules /\ "04" \notin Cleaning /\ "05" \notin Cleaning
      BY DEF LoopRules, Cleaning
    <3>2. Open(w, {r}, e)
      BY <1>1, <2>1, <2>2
    <3>3. TriggerAt(w, e) /\ Origin(r) = "trigger"
      <4>1. CASE r = "04"
        BY <2>1, <3>2, <4>1, WhenLoop, Origins DEF TriggerAt
      <4>2. CASE r = "05"
        BY <2>1, <3>2, <4>2, WhenLoop, Origins DEF TriggerAt
      <4> QED BY <2>3, <4>1, <4>2
    <3> QED BY <1>0, <2>1, <3>3, At
  <2>4. CASE r \in Routing
    <3>1. \A q \in Routing : Origin(q) = Origin(r) /\ q \notin Cleaning /\ q \in LoopRules
      BY <2>4, Origins, RuleGroups
    <3>2. Open(w, Routing, e)
      BY <1>1, <2>2, <2>4, <3>1
    <3>3. loop[e].passed # "none" /\ ~Has(e, "routed")
      <4>1. Has(e, "unclean") => Unclean(e)
        BY <2>1 DEF Judged
      <4>2. Unclean(e) => loop[e].passed # "none"
        BY <1>0, <2>1 DEF Unclean, LoopShape
      <4> QED BY <2>1, <2>4, <4>1, <4>2, WhenLoop DEF Routing, RouteAdvance, RouteRetry, RouteEscalate,
              RouteTransientRetry, RouteTransientPark, Unrouted
    <3>4. Origin(r) = "route"
      BY <2>4, Origins
    <3> QED BY <1>0, <2>1, <3>2, <3>3, <3>4, At DEF RouteAt
  <2>5. CASE r \in Reviewing
    <3>1. \A q \in Reviewing : Origin(q) = Origin(r) /\ q \notin Cleaning /\ q \in LoopRules
      BY <2>5, Origins, RuleGroups
    <3>2. Open(w, Reviewing, e)
      BY <1>1, <2>2, <2>5, <3>1
    <3>3. /\ loop[e].role = "reviewer" /\ loop[e].pc \in {"mirrored", "ended"}
          /\ ~Has(e, "routed")
      BY <1>0, <2>1, <2>5, WhenLoop DEF LoopShape, Reviewing, ReviewApproved, ReviewRetry,
         ReviewPark, ReviewNoVerdict
    <3>4. Origin(r) = "review"
      BY <2>5, Origins
    <3> QED BY <1>0, <2>1, <3>2, <3>3, <3>4, At DEF ReviewAt
  <2>6. CASE r = "failed-loop"
    <3>1. Open(w, {r}, e)
      BY <1>1, <2>1, <2>2
    <3>2. FailedAt(w, e) /\ Origin(r) = "failed"
      BY <2>1, <2>6, <3>1, WhenLoop, Origins DEF FailedAt
    <3> QED BY <1>0, <2>1, <3>2, At
  <2> QED BY <2>1, <2>3, <2>4, <2>5, <2>6 DEF LoopRules, Cleaning, Routing, Reviewing
<1>3. CASE e = Run
  <2>1. r \in RunRules
    BY <1>3, RuleOnFacts, LoopAssumption DEF Loops, Run
  <2>2. \A q \in RunRules : <<q, e>> \in RuleOn /\ q \notin Cleaning
    BY <1>3 DEF RuleOn, RunRules, Cleaning
  <2>3. CASE r \in Closing
    <3>1. \A q \in Closing : Origin(q) = Origin(r) /\ q \in RunRules
      BY <2>3, Origins, RuleGroups
    <3>2. Open(w, Closing, e)
      BY <1>1, <2>2, <2>3, <3>1
    <3>3. VerdictAt(w) /\ Origin(r) = "verdict"
      BY <1>3, <2>3, <3>2, WhenRun, Origins DEF Closing, DeliverRun, ParkRun, VerdictAt
    <3> QED BY <1>0, <1>3, <3>3, At
  <2>4. CASE r = "failed-run"
    <3>1. Open(w, {r}, e)
      BY <1>1, <2>1, <2>2
    <3>2. FailedRunAt(w) /\ Origin(r) = "failed-run"
      BY <1>3, <2>4, <3>1, WhenRun, Origins DEF FailedRunAt
    <3> QED BY <1>0, <1>3, <3>2, At
  <2> QED BY <2>1, <2>3, <2>4 DEF RunRules, Closing
<1> QED BY <1>2, <1>3

-----------------------------------------------------------------------------
(* Frames: places that a step which leaves some facts alone cannot add to. *)

LEMMA FactsFrame ==
  ASSUME NEW w, loop' = loop, run' = run, w = "marked" \/ matched \subseteq matched'
  PROVE  \A k \in LoopKinds \cup RunKinds : Places(w, k)' \subseteq Places(w, k)
<1>1. \A R, e : Open(w, R, e)' => Open(w, R, e)
  BY DEF Open
<1>2. \A l \in Loops : /\ TriggerAt(w, l)' => TriggerAt(w, l)
                       /\ RouteAt(w, l)' => RouteAt(w, l)
                       /\ ReviewAt(w, l)' => ReviewAt(w, l)
                       /\ FailedAt(w, l)' => FailedAt(w, l)
  BY <1>1 DEF TriggerAt, RouteAt, ReviewAt, FailedAt, Dispatch, FloorsTrigger, StationFailedLoop, Has
<1>3. Live' = Live
  BY DEF Live
<1>4. (VerdictAt(w)' => VerdictAt(w)) /\ (FailedRunAt(w)' => FailedRunAt(w))
  BY <1>1 DEF VerdictAt, FailedRunAt, StationFailedRun
<1> QED BY <1>2, <1>3, <1>4, At, AtNext DEF LoopKinds, RunKinds

LEMMA Remains ==
  ASSUME EngineFrame, NEW r, NEW e, <<r, e>> \in matched, When(r, e)'
  PROVE  <<r, e>> \in matched'
  BY DEF EngineFrame, RuleState

LEMMA VerdictFrame ==
  ASSUME Shape, EngineFrame, NEW w,
         UNCHANGED <<run.verify, run.verdict, run.marks>>
  PROVE  Places(w, "verdict")' \subseteq Places(w, "verdict")
<1> SUFFICES ASSUME VerdictAt(w)' PROVE VerdictAt(w)
  BY At, AtNext
<1>1. \A r \in Closing : <<r, Run>> \in matched => <<r, Run>> \in matched'
  <2> SUFFICES ASSUME NEW r \in Closing, <<r, Run>> \in matched PROVE <<r, Run>> \in matched'
    OBVIOUS
  <2>1. When(r, Run)
    BY ShapeParts DEF MatchedHolds
  <2>2. When(r, Run)'
    BY <2>1, WhenRun DEF Closing, DeliverRun, ParkRun
  <2> QED BY <2>2, Remains
<1> QED BY <1>1 DEF VerdictAt, Open

LEMMA FailedRunFrame ==
  ASSUME Shape, EngineFrame, NEW w, UNCHANGED <<run.marks, run.pr, run.parked>>
  PROVE  Places(w, "failed-run")' \subseteq Places(w, "failed-run")
<1> SUFFICES ASSUME FailedRunAt(w)' PROVE FailedRunAt(w)
  BY At, AtNext
<1>1. StationFailedRun /\ StationFailedRun'
  BY DEF FailedRunAt, StationFailedRun
<1>2. <<"failed-run", Run>> \in matched => <<"failed-run", Run>> \in matched'
  BY <1>1, WhenRun, Remains
<1> QED BY <1>1, <1>2 DEF FailedRunAt, Open

LEMMA FailedFrame ==
  ASSUME Shape, EngineFrame, NEW w, NEW l \in Loops, loop'[l].marks = loop[l].marks
  PROVE  l \in Places(w, "failed")' => l \in Places(w, "failed")
<1> SUFFICES ASSUME FailedAt(w, l)' PROVE FailedAt(w, l)
  BY At, AtNext
<1>1. StationFailedLoop(l) /\ StationFailedLoop(l)'
  BY DEF FailedAt, StationFailedLoop, Has
<1>2. <<"failed-loop", l>> \in matched => <<"failed-loop", l>> \in matched'
  BY <1>1, WhenLoopNext, Remains
<1> QED BY <1>1, <1>2 DEF FailedAt, Open

LEMMA TriggerFrame ==
  ASSUME Shape, EngineFrame, NEW w, NEW l \in Loops,
         UNCHANGED <<loop[l].role, loop[l].pc, loop[l].marks>>
  PROVE  l \in Places(w, "trigger")' => l \in Places(w, "trigger")
<1> SUFFICES ASSUME TriggerAt(w, l)' PROVE TriggerAt(w, l)
  BY At, AtNext
<1>1. Dispatch(l)' => /\ Dispatch(l)
                      /\ <<"04", l>> \in matched => <<"04", l>> \in matched'
  BY WhenLoopNext, Remains DEF Dispatch, Has
<1>2. FloorsTrigger(l)' => /\ FloorsTrigger(l)
                           /\ <<"05", l>> \in matched => <<"05", l>> \in matched'
  BY WhenLoopNext, Remains DEF FloorsTrigger, Has
<1> QED BY <1>1, <1>2 DEF TriggerAt, Open

(* The baton is all there is, and where the step leaves it it may be.      *)
LEMMA Sits ==
  ASSUME NEW w, NEW k \in Kinds, NEW b,
         \A i \in Kinds : \A x \in Places(w, i)' : i = k /\ x = b,
         run'.verify \in {"pass", "fail"} /\ b \in Places(w, k)' => LatePlace(k, b),
         run'.parked => ~run'.pr /\ (b \in Places(w, k)' => ParkedPlace(k, b)),
         run'.pr => Nobody(w)'
  PROVE  Baton(w)'
<1>1. One(w)'
  BY DEF One, Sole
<1>2. Late(w)' /\ ParkedIdle(w)'
  BY DEF Late, LatePlace, ParkedIdle, ParkedPlace
<1> QED BY <1>1, <1>2 DEF Baton

-----------------------------------------------------------------------------
(* The engine passes the baton.                                            *)

(* What a firing does next says which rule it is of.                       *)
LEMMA NextStep ==
  ASSUME Typed, NEW f \in firing
  PROVE  /\ f.todo # Does(f.rule) => f.rule \notin Cleaning
         /\ Head(f.todo) \in Marks /\ f.rule \notin Surrender =>
              f.todo = Does(f.rule) /\ Head(f.todo) = Guard(f.rule)
         /\ Head(f.todo) \in Marks /\ f.rule \in Surrender => f.todo = <<"park-routed">>
         /\ Head(f.todo) \in Roles \cup Stations \cup {"attempt", "transient"} =>
              f.todo # Does(f.rule) /\ f.rule \notin Surrender
         /\ Head(f.todo) \in Roles => f.rule \in {"04", "06a", "06c", "06f", "07b"}
         /\ Head(f.todo) \in Stations => /\ f.rule \in {"05", "07a", "08a"}
                                         /\ f.rule = "05" => Head(f.todo) = "floors"
                                         /\ f.rule = "07a" => Head(f.todo) = "verify"
                                         /\ f.rule = "08a" => Head(f.todo) = "delivery"
         /\ Head(f.todo) \in Roles \cup Stations => ~(Len(f.todo) > 1)
         /\ Head(f.todo) = "park" => f.rule \in Surrender \/ (f.todo # Does(f.rule) /\ ~(Len(f.todo) > 1))
         /\ f.rule \in Cleaning => f.todo = Does(f.rule) /\ ~(Len(f.todo) > 1)
         /\ Head(f.todo) \in Marks \cup Roles \cup Stations \cup {"attempt", "transient", "park"}
<1>1. Rest(f.rule, f.todo) /\ f.rule \in LoopRules \cup RunRules
  BY FiringFacts
<1>2. CASE f.rule \notin Cleaning \cup Surrender /\ f.todo = Does(f.rule)
  <2>1. Head(f.todo) = Guard(f.rule) /\ Guard(f.rule) \in {"dispatched", "routed"}
    BY <1>1, <1>2, Tuples DEF Rest, Guard
  <2>2. Head(f.todo) \in Marks /\ Head(f.todo) \notin Roles \cup Stations \cup {"attempt", "transient", "park"}
    BY <2>1 DEF Marks, Roles, Stations
  <2> QED BY <1>2, <2>1, <2>2
<1>3. CASE f.rule \in Cleaning
  <2>1. f.todo = <<"unclean">> /\ Does(f.rule) = <<"unclean">> /\ f.rule \notin Surrender
    BY <1>1, <1>3, Tuples, Table DEF Rest, Cleaning, Surrender
  <2>2. Head(f.todo) = "unclean" /\ Guard(f.rule) = "unclean" /\ ~(Len(f.todo) > 1)
    BY <2>1, <1>3, Tuples DEF Guard, Cleaning
  <2> QED BY <1>3, <2>1, <2>2 DEF Marks, Roles, Stations
<1>4. CASE f.rule \in Surrender
  <2>1. f.todo \in {<<"park", "park-routed">>, <<"park-routed">>} /\ f.rule \notin Cleaning
    BY <1>1, <1>4, Tuples DEF Rest, Cleaning, Surrender
  <2> QED BY <1>4, <2>1, Tuples DEF Marks, Roles, Stations
<1>5. CASE f.rule \notin Cleaning \cup Surrender /\ f.todo # Does(f.rule)
  <2>1. CASE f.todo = <<"attempt", "developer">> /\ f.rule \in {"04", "06c", "07b"}
    BY <1>5, <2>1, Tuples DEF Marks, Roles, Stations
  <2>2. CASE f.todo = <<"transient", "developer">> /\ f.rule = "06f"
    BY <1>5, <2>2, Tuples DEF Marks, Roles, Stations
  <2>3. CASE f.todo = <<"developer">> /\ f.rule \in {"04", "06c", "07b", "06f"}
    BY <1>5, <2>3, Tuples DEF Marks, Roles, Stations
  <2>4. CASE f.todo = <<"reviewer">> /\ f.rule = "06a"
    BY <1>5, <2>4, Tuples DEF Marks, Roles, Stations
  <2>5. CASE f.todo = <<"floors">> /\ f.rule = "05"
    BY <1>5, <2>5, Tuples DEF Marks, Roles, Stations
  <2>6. CASE f.todo = <<"verify">> /\ f.rule = "07a"
    BY <1>5, <2>6, Tuples DEF Marks, Roles, Stations
  <2>7. CASE f.todo = <<"delivery">> /\ f.rule = "08a"
    BY <1>5, <2>7, Tuples DEF Marks, Roles, Stations
  <2>8. CASE f.todo = <<"park">> /\ f.rule \in {"06d", "06g", "07c", "07d", "08b"}
    BY <1>5, <2>8, Tuples DEF Marks, Roles, Stations
  <2> QED BY <1>1, <1>5, <2>1, <2>2, <2>3, <2>4, <2>5, <2>6, <2>7, <2>8 DEF Rest
<1> QED BY <1>2, <1>3, <1>4, <1>5

(* Who still carries the baton when a firing has done its next action.     *)
LEMMA CarriersAfter ==
  ASSUME Shape, NEW f \in firing, Advance(f), NEW w
  PROVE  /\ \A x \in Places(w, "carrier")' :
              \/ x = Rested(f) /\ Len(f.todo) > 1 /\ Carries(w, x)
              \/ x \in Places(w, "carrier") /\ x # f
         /\ Rested(f).rule = f.rule /\ Rested(f).on = f.on
         /\ f.rule \in Cleaning \/ ~(Len(f.todo) > 1) =>
              \A x \in Places(w, "carrier")' : x \in Places(w, "carrier") /\ x # f
<1>1. Typed
  BY ShapeParts
<1>2. /\ firing' = (firing \ {f}) \cup (IF Len(f.todo) > 1 THEN {Rested(f)} ELSE {})
      /\ Rested(f).rule = f.rule /\ Rested(f).on = f.on /\ Rested(f) # f
  BY <1>1, AdvanceFacts
<1>3. \A x \in Places(w, "carrier")' :
        \/ x = Rested(f) /\ Len(f.todo) > 1 /\ Carries(w, x)
        \/ x \in Places(w, "carrier") /\ x # f
  BY <1>2, At, AtNext
<1>4. f.rule \in Cleaning => ~(Len(f.todo) > 1)
  BY <1>1, NextStep
<1> QED BY <1>2, <1>3, <1>4

LEMMA FireBaton ==
  ASSUME Shape, Judged, NEW w \in Worlds, Baton(w), NEW r, NEW e, <<r, e>> \in RuleOn, Fire(r, e)
  PROVE  Baton(w)'
<1> DEFINE f == [rule |-> r, on |-> e, todo |-> Does(r)]
<1>1. /\ <<r, e>> \notin matched /\ When(r, e) /\ matched' = matched \cup {<<r, e>>}
      /\ firing' = firing \cup {f} /\ UNCHANGED <<run, loop, queue, job>>
  BY DEF Fire
<1>2. \A k \in Kinds \ {"carrier"} : Places(w, k)' \subseteq Places(w, k)
  BY <1>1, FactsFrame, QueueFrame, JobFrame, KindsAre
<1>3. CASE r \in Cleaning \/ w = "marked"
  <2>1. ~Carries(w, f)
    BY <1>3 DEF Carries, Worlds
  <2>2. Places(w, "carrier")' \subseteq Places(w, "carrier")
    BY <1>1, <2>1, At, AtNext
  <2> QED BY <1>1, <1>2, <2>2, Stays
<1>4. CASE r \notin Cleaning /\ w # "marked"
  <2>1. Origin(r) \in Kinds /\ e \in Places(w, Origin(r))
    BY <1>1, <1>4, FireOrigin
  <2>2. Origin(r) # "carrier" /\ e \notin Places(w, Origin(r))'
    <3>1. <<r, e>> \in matched' /\ r \in LoopRules \cup RunRules /\ e \in Loops \cup {Run}
          /\ (r \in LoopRules => e \in Loops) /\ (r \in RunRules => e = Run)
      BY <1>1, RuleOnFacts
    <3>2. \A R : r \in R => ~Open(w, R, e)'
      BY <1>4, <3>1 DEF Open
    <3>3. CASE r \in {"04", "05"}
      <4>1. Origin(r) = "trigger" /\ e \in Loops
        BY <3>1, <3>3, Origins, RuleGroups
      <4>2. r = "04" => Dispatch(e)
        BY <1>1, <4>1, WhenLoop
      <4>3. r = "05" => FloorsTrigger(e)
        BY <1>1, <4>1, WhenLoop
      <4>4. ~TriggerAt(w, e)'
        <5>1. r = "04" => ~FloorsTrigger(e)' /\ ~Open(w, {"04"}, e)'
          BY <1>1, <3>2, <4>2 DEF Dispatch, FloorsTrigger
        <5>2. r = "05" => ~Dispatch(e)' /\ ~Open(w, {"05"}, e)'
          BY <1>1, <3>2, <4>3 DEF Dispatch, FloorsTrigger
        <5> QED BY <3>3, <5>1, <5>2 DEF TriggerAt
      <4> QED BY <4>1, <4>4, AtNext
    <3>4. CASE r \in Routing
      BY <3>2, <3>4, Origins, AtNext DEF RouteAt
    <3>5. CASE r \in Reviewing
      BY <3>2, <3>5, Origins, AtNext DEF ReviewAt
    <3>6. CASE r = "failed-loop"
      <4>1. ~Open(w, {"failed-loop"}, e)'
        BY <3>2, <3>6
      <4> QED BY <3>6, <4>1, Origins, AtNext DEF FailedAt
    <3>7. CASE r \in Closing
      <4>1. e = Run
        BY <3>1, <3>7, RuleGroups
      <4>2. ~Open(w, Closing, Run)'
        BY <3>2, <3>7, <4>1
      <4> QED BY <3>7, <4>2, Origins, AtNext DEF VerdictAt
    <3>8. CASE r = "failed-run"
      <4>1. e = Run
        BY <3>1, <3>8, RuleGroups
      <4>2. ~Open(w, {"failed-run"}, Run)'
        BY <3>2, <3>8, <4>1
      <4> QED BY <3>8, <4>2, Origins, AtNext DEF FailedRunAt
    <3> QED BY <1>4, <3>1, <3>3, <3>4, <3>5, <3>6, <3>7, <3>8, RuleGroups
  <2>3. \A x \in Places(w, "carrier")' : x = f \/ x \in Places(w, "carrier")
    BY <1>1, At, AtNext
  <2>4. \A i \in Kinds : \A x \in Places(w, i)' :
          (i = "carrier" /\ x = f) \/ (x \in Places(w, i) /\ ~(i = Origin(r) /\ x = e))
    BY <1>2, <2>2, <2>3
  <2>5. LatePlace(Origin(r), e) => LatePlace("carrier", f)
    <3>1. Origin(r) \in {"verdict", "failed-run"} => r \in RunRules
      BY <1>1, <1>4, RuleOnFacts, OriginKinds DEF LoopKinds
    <3>2. Origin(r) \notin {"carrier", "queue", "job"}
      BY <1>1, <1>4, RuleOnFacts, OriginKinds DEF LoopKinds, RunKinds
    <3> QED BY <3>1, <3>2 DEF LatePlace
  <2>6. ParkedPlace(Origin(r), e) => ParkedPlace("carrier", f)
    <3>1. Origin(r) = "failed" => r = "failed-loop"
      BY <1>1, <1>4, RuleOnFacts, RuleGroups, Origins
    <3> QED BY <2>2, <3>1 DEF ParkedPlace, Surrender
  <2>7. "carrier" \in Kinds
    BY DEF Kinds
  <2> HIDE DEF f
  <2> QED BY <1>1, <2>1, <2>4, <2>5, <2>6, <2>7, Passes
<1> QED BY <1>3, <1>4

LEMMA MarkBaton ==
  ASSUME Shape, Judged, NEW w \in Worlds, Baton(w), w = "marked" => Remembered,
         NEW f \in firing, AddMark(f)
  PROVE  Baton(w)'
<1> DEFINE e == f.on  m == Head(f.todo)
<1>1. /\ m \in Marks /\ AddsMark(e, m) /\ Advance(f) /\ RuleState
      /\ UNCHANGED <<queue, job>>
  BY DEF AddMark, AddsMark
<1>2. Typed /\ e \in Loops \cup {Run} /\ <<f.rule, e>> \in RuleOn
  BY ShapeParts, FiringFacts
<1>3. m # "failed"
  BY <1>1 DEF Marks
<1>4. UNCHANGED <<run.verify, run.parked, run.pr>>
  BY <1>1, <1>2, MarkEffect
<1>5. \A k \in Kinds \ {"carrier"} : Places(w, k)' \subseteq Places(w, k)
  <2> HIDE DEF e, m
  <2>1. \A k \in LoopKinds \cup RunKinds : Places(w, k)' \subseteq Places(w, k)
    BY <1>1, <1>2, <1>3, MarkPlaces DEF LoopKinds, RunKinds
  <2> QED BY <1>1, <2>1, QueueFrame, JobFrame, KindsAre
<1>6. "carrier" \in Kinds
  BY DEF Kinds
<1>7. CASE f.rule \in Cleaning
  <2>1. Places(w, "carrier")' \subseteq Places(w, "carrier")
    BY <1>1, <1>7, CarriersAfter
  <2> QED BY <1>4, <1>5, <2>1, Stays
<1>8. CASE f.rule \notin Cleaning /\ w # "marked"
  <2>1. f \in Places(w, "carrier")
    BY <1>8, At DEF Carries, Worlds
  <2>2. \A i \in Kinds : \A x \in Places(w, i)' :
          (i = "carrier" /\ x = Rested(f)) \/ (x \in Places(w, i) /\ ~(i = "carrier" /\ x = f))
    BY <1>1, <1>5, CarriersAfter
  <2>3. (LatePlace("carrier", f) => LatePlace("carrier", Rested(f)))
        /\ (ParkedPlace("carrier", f) => ParkedPlace("carrier", Rested(f)))
    BY <1>1, CarriersAfter DEF LatePlace, ParkedPlace
  <2> QED BY <1>4, <1>6, <2>1, <2>2, <2>3, Passes
<1>9. CASE f.rule \in Surrender /\ w = "marked"
  <2>1. ~Carries(w, Rested(f))
    BY <1>1, <1>9, CarriersAfter DEF Carries
  <2>2. Places(w, "carrier")' \subseteq Places(w, "carrier")
    BY <1>1, <2>1, CarriersAfter
  <2> QED BY <1>4, <1>5, <2>2, Stays
<1>10. CASE f.rule \notin Cleaning \cup Surrender /\ w = "marked"
  <2>1. f.todo = Does(f.rule) /\ m = Guard(f.rule)
    BY <1>1, <1>2, <1>10, NextStep
  <2>2. <<f.rule, e>> \in matched
    BY <1>10, <2>1 DEF Remembered, Waiting, Pending, Moot, Surrender
  <2>3. When(f.rule, e)
    BY <2>2, ShapeParts DEF MatchedHolds
  <2>4. Origin(f.rule) \in Kinds /\ e \in Places(w, Origin(f.rule))
    BY <1>2, <1>10, <2>3, FireOrigin
  <2>5. Origin(f.rule) # "carrier" /\ e \notin Places(w, Origin(f.rule))'
    <3>1. /\ e # Run => loop'[e].marks = loop[e].marks \cup {m}
          /\ e = Run => run'.marks = run.marks \cup {m}
      BY <1>1, <1>2, MarkEffect
    <3>2. /\ f.rule \in LoopRules \cup RunRules
          /\ f.rule \in LoopRules => e \in Loops /\ e # Run
          /\ f.rule \in RunRules => e = Run
      BY <1>2, RuleOnFacts, LoopAssumption DEF Loops, Run
    <3>3. CASE f.rule \in {"04", "05"}
      <4>1. m = "dispatched" /\ Origin(f.rule) = "trigger" /\ e # Run
        BY <2>1, <3>2, <3>3, Origins, RuleGroups DEF Guard, Cleaning, Surrender
      <4>2. ~TriggerAt(w, e)'
        BY <3>1, <4>1 DEF TriggerAt, Dispatch, FloorsTrigger, Has
      <4> QED BY <4>1, <4>2, AtNext
    <3>4. CASE f.rule \in Routing
      <4>1. m = "routed" /\ Origin(f.rule) = "route" /\ e # Run
        BY <2>1, <3>2, <3>4, Origins, RuleGroups DEF Guard, Routing, Cleaning, Surrender
      <4>2. ~RouteAt(w, e)'
        BY <3>1, <4>1 DEF RouteAt, Has
      <4> QED BY <4>1, <4>2, AtNext
    <3>5. CASE f.rule \in Reviewing
      <4>1. m = "routed" /\ Origin(f.rule) = "review" /\ e # Run
        BY <2>1, <3>2, <3>5, Origins, RuleGroups DEF Guard, Reviewing, Cleaning, Surrender
      <4>2. ~ReviewAt(w, e)'
        BY <3>1, <4>1 DEF ReviewAt, Has
      <4> QED BY <4>1, <4>2, AtNext
    <3>6. CASE f.rule \in Closing
      <4>1. m = "routed" /\ Origin(f.rule) = "verdict" /\ e = Run
        BY <2>1, <3>2, <3>6, Origins, RuleGroups DEF Guard, Closing, Cleaning, Surrender
      <4>2. ~VerdictAt(w)'
        BY <3>1, <4>1 DEF VerdictAt
      <4> QED BY <4>1, <4>2, AtNext
    <3> QED BY <1>10, <3>2, <3>3, <3>4, <3>5, <3>6, RuleGroups DEF Surrender
  <2>6. \A i \in Kinds : \A x \in Places(w, i)' :
          (i = "carrier" /\ x = Rested(f)) \/ (x \in Places(w, i) /\ ~(i = Origin(f.rule) /\ x = e))
    BY <1>1, <1>5, <2>5, CarriersAfter
  <2>7. LatePlace(Origin(f.rule), e) => LatePlace("carrier", Rested(f))
    <3>1. Origin(f.rule) \in {"verdict", "failed-run"} => f.rule \in RunRules
      BY <1>2, <1>10, RuleOnFacts, OriginKinds DEF LoopKinds
    <3>2. Origin(f.rule) \notin {"carrier", "queue", "job"}
      BY <1>2, <1>10, RuleOnFacts, OriginKinds DEF LoopKinds, RunKinds
    <3> QED BY <1>1, <3>1, <3>2, CarriersAfter DEF LatePlace
  <2>8. ~ParkedPlace(Origin(f.rule), e)
    <3>1. Origin(f.rule) # "failed"
      BY <1>2, <1>10, RuleOnFacts, RuleGroups, Origins DEF Surrender
    <3> QED BY <2>5, <3>1 DEF ParkedPlace
  <2> HIDE DEF e, m
  <2> QED BY <1>4, <1>6, <2>4, <2>6, <2>7, <2>8, Passes
<1> QED BY <1>7, <1>8, <1>9, <1>10

LEMMA LedgerBaton ==
  ASSUME Shape, Judged, NEW w \in Worlds, Baton(w), w = "marked" => Remembered,
         NEW f \in firing, AddToRun(f)
  PROVE  Baton(w)'
<1>1. /\ Advance(f) /\ RuleState /\ UNCHANGED <<loop, queue, job>>
      /\ UNCHANGED <<run.verdict, run.verify, run.marks, run.pr>>
  BY ShapeParts, AddToRunEffect
<1>2. Typed /\ EngineFrame /\ <<f.rule, f.on>> \in RuleOn
  BY <1>1, ShapeParts, FiringFacts DEF EngineFrame
<1>3. \A k \in Kinds \ {"carrier", "failed-run"} : Places(w, k)' \subseteq Places(w, k)
  <2>1. \A k \in LoopKinds : Places(w, k)' \subseteq Places(w, k)
    BY <1>1, <1>2, AllLoops
  <2>2. Places(w, "verdict")' \subseteq Places(w, "verdict")
    BY <1>1, <1>2, VerdictFrame
  <2> QED BY <1>1, <2>1, <2>2, QueueFrame, JobFrame, KindsAre DEF RunKinds
<1>4. \A x : x \in Places(w, "failed-run")' => ~run'.parked
  BY At, AtNext DEF FailedRunAt, StationFailedRun
<1>5. "carrier" \in Kinds /\ "failed" \in Kinds /\ "failed-run" \in Kinds
  BY DEF Kinds
<1>6. CASE run'.parked = run.parked
  <2>1. Places(w, "failed-run")' \subseteq Places(w, "failed-run")
    BY <1>1, <1>2, <1>6, FailedRunFrame
  <2>2. CASE Carries(w, f) /\ f.rule \notin Cleaning
    <3>1. f \in Places(w, "carrier")
      BY <2>2, At
    <3>2. \A i \in Kinds : \A x \in Places(w, i)' :
            (i = "carrier" /\ x = Rested(f)) \/ (x \in Places(w, i) /\ ~(i = "carrier" /\ x = f))
      BY <1>1, <1>3, <2>1, CarriersAfter
    <3>3. (LatePlace("carrier", f) => LatePlace("carrier", Rested(f)))
          /\ (ParkedPlace("carrier", f) => ParkedPlace("carrier", Rested(f)))
      BY <1>1, CarriersAfter DEF LatePlace, ParkedPlace
    <3> QED BY <1>1, <1>5, <1>6, <3>1, <3>2, <3>3, Passes
  <2>3. CASE ~Carries(w, f)
    <3>1. ~(Len(f.todo) > 1) \/ ~Carries(w, Rested(f))
      <4>1. f.rule \in Cleaning => ~(Len(f.todo) > 1)
        BY <1>2, NextStep
      <4>2. Head(f.todo) \in {"attempt", "transient", "park"}
        BY DEF AddToRun
      <4>3. f.todo = Does(f.rule) => f.rule \in Cleaning \cup Surrender
        <5>1. f.todo = Does(f.rule) /\ f.rule \notin Cleaning \cup Surrender => Head(f.todo) \in Marks
          <6>1. Rest(f.rule, f.todo)
            BY <1>2, FiringFacts
          <6> QED BY <6>1 DEF Rest, Guard, Marks
        <5> QED BY <4>2, <5>1 DEF Marks
      <4> QED BY <1>1, <2>3, <4>1, <4>3, CarriersAfter DEF Carries
    <3>2. Places(w, "carrier")' \subseteq Places(w, "carrier")
      BY <1>1, <3>1, CarriersAfter
    <3> QED BY <1>1, <1>3, <1>6, <2>1, <3>2, Stays
  <2> QED BY <2>2, <2>3 DEF Carries
<1>7. CASE run'.parked # run.parked
  <2>1. Head(f.todo) = "park" /\ run'.parked /\ ~run.parked
    <3>1. Head(f.todo) = "park" /\ run'.parked = TRUE
      BY <1>2, <1>7, AddToRunEffect
    <3>2. run.parked \in BOOLEAN
      BY <1>2, TypeParts DEF RunFacts
    <3> QED BY <1>7, <3>1, <3>2
  <2>2. \A x : x \notin Places(w, "failed-run")'
    BY <1>4, <2>1
  <2>3. CASE f.rule \notin Surrender
    <3>1. f.todo # Does(f.rule) /\ ~(Len(f.todo) > 1) /\ f.rule \notin Cleaning
      BY <1>2, <2>1, <2>3, NextStep
    <3>2. f \in Places(w, "carrier")
      BY <2>3, <3>1, At DEF Carries, Worlds
    <3>3. /\ \A i \in Kinds : \A x \in Places(w, i) : i = "carrier" /\ x = f
          /\ ~run.pr
      BY <1>5, <3>2, Alone
    <3>4. \A i \in Kinds : \A x \in Places(w, i)' : FALSE
      BY <1>1, <1>3, <2>2, <3>1, <3>3, CarriersAfter
    <3> QED BY <1>1, <1>5, <3>3, <3>4, Sits
  <2>4. CASE f.rule \in Surrender /\ w # "marked"
    <3>1. f \in Places(w, "carrier")
      BY <2>4, At DEF Carries, Worlds, Surrender, Cleaning
    <3>2. /\ \A i \in Kinds : \A x \in Places(w, i) : i = "carrier" /\ x = f
          /\ ~run.pr
          /\ run.verify \in {"pass", "fail"} => LatePlace("carrier", f)
      BY <1>5, <3>1, Alone
    <3>3. \A i \in Kinds : \A x \in Places(w, i)' : i = "carrier" /\ x = Rested(f)
      BY <1>1, <1>3, <2>2, <3>2, CarriersAfter
    <3>4. (LatePlace("carrier", f) => LatePlace("carrier", Rested(f)))
          /\ ParkedPlace("carrier", Rested(f))
      BY <1>1, <2>4, CarriersAfter DEF LatePlace, ParkedPlace
    <3> QED BY <1>1, <1>5, <3>2, <3>3, <3>4, Sits
  <2>5. CASE f.rule \in Surrender /\ w = "marked"
    <3>1. <<f.rule, f.on>> \in matched
      BY <2>1, <2>5 DEF Remembered, Waiting, Pending, Moot, Surrender, Cleaning
    <3>2. When(f.rule, f.on)
      BY <3>1, ShapeParts DEF MatchedHolds
    <3>3. Origin(f.rule) \in Kinds /\ f.on \in Places(w, Origin(f.rule))
      BY <1>2, <2>5, <3>2, FireOrigin DEF Surrender, Cleaning
    <3>4. Origin(f.rule) \in {"failed", "failed-run"}
      BY <2>5, Origins DEF Surrender
    <3>5. /\ \A i \in Kinds : \A x \in Places(w, i) : i = Origin(f.rule) /\ x = f.on
          /\ ~run.pr
          /\ run.verify \in {"pass", "fail"} => LatePlace(Origin(f.rule), f.on)
      BY <3>3, Alone
    <3>6. ~Carries(w, Rested(f))
      BY <1>1, <2>5, CarriersAfter DEF Carries
    <3>7. Places(w, "carrier")' \subseteq Places(w, "carrier")
      BY <1>1, <3>6, CarriersAfter
    <3>8. \A i \in Kinds : \A x \in Places(w, i)' :
            i = Origin(f.rule) /\ x = f.on /\ i # "failed-run"
      BY <1>3, <2>2, <3>4, <3>5, <3>7
    <3>9. f.on \in Places(w, Origin(f.rule))' => Origin(f.rule) = "failed"
      BY <3>3, <3>4, <3>8
    <3>10. ParkedPlace("failed", f.on)
      BY DEF ParkedPlace
    <3> QED BY <1>1, <3>3, <3>5, <3>8, <3>9, <3>10, Sits
  <2> QED BY <2>3, <2>4, <2>5
<1> QED BY <1>6, <1>7

LEMMA SpawnBaton ==
  ASSUME Shape, NEW w \in Worlds, Baton(w), NEW f \in firing, SpawnLoop(f)
  PROVE  /\ Baton(w)' /\ f \in Places(w, "carrier")
         /\ \E l \in Loops : \A i \in Kinds : \A x \in Places(w, i)' : i = "live" /\ x = l
<1>0. Typed /\ "carrier" \in Kinds /\ "live" \in Kinds
  BY ShapeParts DEF Kinds
<1>1. /\ Advance(f) /\ RuleState /\ UNCHANGED <<run, queue, job>> /\ Head(f.todo) \in Roles
  BY <1>0, SpawnEffect
<1>2. PICK l \in Loops :
        /\ OnlyLoop(l) /\ loop[l].pc = "unborn"
        /\ loop'[l].role = Head(f.todo) /\ loop'[l].pc = "working"
        /\ loop'[l].passed = "none" /\ ~loop'[l].rejected /\ loop'[l].verdict = "none"
        /\ loop'[l].marks = {}
  BY <1>0, SpawnEffect
<1>3. EngineFrame /\ SameRun
  BY <1>1 DEF EngineFrame, SameRun
<1>4. /\ f.rule \in {"04", "06a", "06c", "06f", "07b"} /\ ~(Len(f.todo) > 1)
      /\ f.todo # Does(f.rule) /\ f.rule \notin Cleaning \cup Surrender
  BY <1>0, <1>1, NextStep
<1>5. f \in Places(w, "carrier")
  BY <1>4, At DEF Carries, Worlds
<1>6. \A k \in {"trigger", "route", "review", "failed"} : l \notin Places(w, k)'
  <2>1. ~TriggerAt(w, l)'
    BY <1>1, <1>2 DEF TriggerAt, Dispatch, FloorsTrigger, Roles
  <2>2. ~RouteAt(w, l)' /\ ~ReviewAt(w, l)' /\ ~FailedAt(w, l)'
    BY <1>2 DEF RouteAt, ReviewAt, FailedAt, StationFailedLoop, Has
  <2> QED BY <2>1, <2>2, AtNext
<1>7. \A k \in LoopKinds : \A x \in Places(w, k)' : (k = "live" /\ x = l) \/ x \in Places(w, k)
  BY <1>2, <1>3, <1>6, OtherLoops DEF LoopKinds
<1>8. \A k \in RunKinds : Places(w, k)' \subseteq Places(w, k)
  BY <1>3, RunFrame
<1>9. \A x \in Places(w, "carrier")' : x \in Places(w, "carrier") /\ x # f
  BY <1>1, <1>4, CarriersAfter
<1>10. \A i \in Kinds : \A x \in Places(w, i)' :
        (i = "live" /\ x = l) \/ (x \in Places(w, i) /\ ~(i = "carrier" /\ x = f))
  <2>1. "carrier" \notin LoopKinds \cup RunKinds
    BY DEF LoopKinds, RunKinds
  <2> QED BY <1>1, <1>7, <1>8, <1>9, <2>1, QueueFrame, JobFrame, KindsAre
<1>11. ~LatePlace("carrier", f) /\ ~ParkedPlace("carrier", f)
  BY <1>4 DEF LatePlace, ParkedPlace, RunRules
<1>12. Baton(w)' /\ \A i \in Kinds : \A x \in Places(w, i)' : i = "live" /\ x = l
  BY <1>0, <1>1, <1>5, <1>10, <1>11, Passes
<1> QED BY <1>5, <1>12

LEMMA PublishBaton ==
  ASSUME Shape, NEW w \in Worlds, Baton(w), NEW f \in firing, PublishDispatch(f)
  PROVE  /\ Baton(w)' /\ f \in Places(w, "carrier")
         /\ \A i \in Kinds : \A x \in Places(w, i)' : i = "queue" /\ x = Head(f.todo)
<1>0. Typed /\ "carrier" \in Kinds /\ "queue" \in Kinds
  BY ShapeParts DEF Kinds
<1>1. /\ Advance(f) /\ UNCHANGED <<run, loop, matched, job>> /\ Head(f.todo) \in Stations
      /\ \A s \in Stations : s # Head(f.todo) => queue'[s] = queue[s]
  BY <1>0, PublishEffect
<1>4. /\ f.rule \in {"05", "07a", "08a"} /\ (f.rule = "08a" => Head(f.todo) = "delivery")
      /\ ~(Len(f.todo) > 1)
      /\ f.todo # Does(f.rule) /\ f.rule \notin Cleaning \cup Surrender
  BY <1>0, <1>1, NextStep
<1>5. f \in Places(w, "carrier")
  BY <1>4, At DEF Carries, Worlds
<1>7. \A k \in LoopKinds \cup RunKinds : Places(w, k)' \subseteq Places(w, k)
  BY <1>1, FactsFrame
<1>8. \A x \in Places(w, "queue")' : x = Head(f.todo) \/ x \in Places(w, "queue")
  BY <1>1, At, AtNext
<1>9. \A x \in Places(w, "carrier")' : x \in Places(w, "carrier") /\ x # f
  BY <1>1, <1>4, CarriersAfter
<1>10. \A i \in Kinds : \A x \in Places(w, i)' :
        (i = "queue" /\ x = Head(f.todo)) \/ (x \in Places(w, i) /\ ~(i = "carrier" /\ x = f))
  <2>1. "carrier" \notin LoopKinds \cup RunKinds
    BY DEF LoopKinds, RunKinds
  <2> QED BY <1>1, <1>7, <1>8, <1>9, <2>1, JobFrame, KindsAre
<1>11. /\ LatePlace("carrier", f) => LatePlace("queue", Head(f.todo))
       /\ ~ParkedPlace("carrier", f)
  BY <1>4 DEF LatePlace, ParkedPlace, RunRules
<1> QED BY <1>0, <1>1, <1>5, <1>10, <1>11, Passes

LEMMA LoseBaton ==
  ASSUME Shape, Baton("remembered"), NEW f \in firing, LoseAction(f)
  PROVE  Baton("remembered")'
<1> DEFINE w == "remembered"
<1>0. "carrier" \in Kinds /\ Advance(f) /\ UNCHANGED <<run, loop, matched, queue, job>>
  BY DEF Kinds, LoseAction
<1>1. \A k \in Kinds \ {"carrier"} : Places(w, k)' \subseteq Places(w, k)
  BY <1>0, FactsFrame, QueueFrame, JobFrame, KindsAre
<1>2. CASE f.rule \in Cleaning
  <2>1. Places(w, "carrier")' \subseteq Places(w, "carrier")
    BY <1>0, <1>2, CarriersAfter
  <2> QED BY <1>0, <1>1, <2>1, Stays
<1>3. CASE f.rule \notin Cleaning
  <2>1. f \in Places(w, "carrier")
    BY <1>3, At DEF Carries
  <2>2. \A i \in Kinds : \A x \in Places(w, i)' :
          (i = "carrier" /\ x = Rested(f)) \/ (x \in Places(w, i) /\ ~(i = "carrier" /\ x = f))
    BY <1>0, <1>1, CarriersAfter
  <2>3. (LatePlace("carrier", f) => LatePlace("carrier", Rested(f)))
        /\ (ParkedPlace("carrier", f) => ParkedPlace("carrier", Rested(f)))
    BY <1>0, CarriersAfter DEF LatePlace, ParkedPlace
  <2> QED BY <1>0, <2>1, <2>2, <2>3, Passes
<1> QED BY <1>2, <1>3

-----------------------------------------------------------------------------
(* The loops pass the baton.                                               *)

LEMMA PatchBaton ==
  ASSUME Shape, NEW w \in Worlds, Baton(w), NEW l \in Loops, Patching(l)
  PROVE  Baton(w)' /\ (\A k \in Kinds : Places(w, k)' \subseteq Places(w, k)) /\ l \in Live
<1>1. Typed /\ LoopShape(l)
  BY ShapeParts
<1>2. /\ OnlyLoop(l) /\ SameLoop(l) /\ SameRun /\ loop[l].role = "developer"
      /\ loop[l].pc \in {"working", "stamping", "measuring"}
      /\ loop'[l].pc \in {"working", "stamping", "measuring"}
      /\ UNCHANGED <<firing, matched, queue, job>>
  BY <1>1, PatchingEffect
<1>3. EngineFrame
  BY <1>2 DEF EngineFrame
<1>4. l \in Live /\ ~ReviewAt(w, l)'
  BY <1>2 DEF Live, ReviewAt, SameLoop
<1>5. \A k \in LoopKinds : Places(w, k)' \subseteq Places(w, k)
  <2>1. \A k \in LoopKinds : l \in Places(w, k)' => l \in Places(w, k)
    <3>1. \A k \in {"trigger", "route", "failed"} : l \in Places(w, k)' <=> l \in Places(w, k)
      BY <1>2, <1>3, LoopFrame
    <3> QED BY <1>4, <3>1, At, AtNext DEF LoopKinds
  <2>2. \A k \in LoopKinds : \A x \in Places(w, k)' : x # l => x \in Places(w, k)
    BY <1>2, <1>3, OtherLoops
  <2> QED BY <2>1, <2>2
<1>6. \A k \in Kinds : Places(w, k)' \subseteq Places(w, k)
  BY <1>2, <1>3, <1>5, RunFrame, CarrierFrame, QueueFrame, JobFrame, KindsAre
<1>7. Baton(w)'
  BY <1>2, <1>6, Stays DEF SameRun
<1> QED BY <1>4, <1>6, <1>7

LEMMA SubmitBaton ==
  ASSUME Shape, NEW w \in Worlds, Baton(w), NEW l \in Loops, NEW b \in BOOLEAN, SubmitReview(l, b)
  PROVE  Baton(w)' /\ (\A k \in Kinds : Places(w, k)' \subseteq Places(w, k)) /\ l \in Live
<1>1. Typed /\ LoopShape(l) /\ "live" \in Kinds
  BY ShapeParts DEF Kinds
<1>2. /\ OnlyLoop(l) /\ SameLoop(l) /\ loop[l].role = "reviewer" /\ loop[l].pc = "working"
      /\ loop'[l].pc \in {"working", "mirroring"}
      /\ UNCHANGED <<firing, queue, job>> /\ RuleState
      /\ UNCHANGED <<run.verify, run.pr, run.parked, run.marks>>
  BY <1>1, SubmitEffect
<1>3. EngineFrame
  BY <1>2 DEF EngineFrame
<1>4. l \in Live /\ ~ReviewAt(w, l)'
  BY <1>2 DEF Live, ReviewAt, SameLoop
<1>5. \A k \in LoopKinds : Places(w, k)' \subseteq Places(w, k)
  <2>1. \A k \in LoopKinds : l \in Places(w, k)' => l \in Places(w, k)
    <3>1. \A k \in {"trigger", "route", "failed"} : l \in Places(w, k)' <=> l \in Places(w, k)
      BY <1>2, <1>3, LoopFrame
    <3> QED BY <1>4, <3>1, At, AtNext DEF LoopKinds
  <2>2. \A k \in LoopKinds : \A x \in Places(w, k)' : x # l => x \in Places(w, k)
    BY <1>2, <1>3, OtherLoops
  <2> QED BY <2>1, <2>2
<1>6. \A x : x \notin Places(w, "verdict")'
  <2>1. l \in Places(w, "live") /\ ~LatePlace("live", l)
    BY <1>4, At DEF LatePlace
  <2>2. run.verify \notin {"pass", "fail"}
    BY <1>1, <2>1, Alone
  <2> QED BY <1>2, <2>2, AtNext DEF VerdictAt
<1>7. Places(w, "failed-run")' \subseteq Places(w, "failed-run")
  BY <1>2, <1>3, FailedRunFrame
<1>8. \A k \in Kinds : Places(w, k)' \subseteq Places(w, k)
  BY <1>2, <1>5, <1>6, <1>7, CarrierFrame, QueueFrame, JobFrame, KindsAre DEF RunKinds
<1>9. Baton(w)'
  BY <1>2, <1>8, Stays
<1> QED BY <1>4, <1>8, <1>9

LEMMA MirrorBaton ==
  ASSUME Shape, NEW w \in Worlds, Baton(w), NEW l \in Loops, MirrorVerdict(l)
  PROVE  /\ Baton(w)' /\ l \in Live
         /\ \A i \in Kinds : \A x \in Places(w, i)' : x = l /\ i \in {"live", "review"}
<1>1. Typed /\ LoopShape(l) /\ "live" \in Kinds /\ "review" \in Kinds
  BY ShapeParts DEF Kinds
<1>2. /\ OnlyLoop(l) /\ loop[l].pc = "mirroring"
      /\ UNCHANGED <<run, firing, queue, job>> /\ RuleState
      /\ UNCHANGED <<loop[l].role, loop[l].transient, loop[l].marks, loop[l].passed,
                     loop[l].rejected, loop[l].transients>>
      /\ \/ loop'[l].pc = "mirrored"
         \/ SameLoop(l) /\ loop'[l].pc = "working"
  BY <1>1, MirrorEffect
<1>3. EngineFrame /\ SameRun
  BY <1>2 DEF EngineFrame, SameRun
<1>4. l \in Places(w, "live") /\ loop[l].role = "reviewer" /\ loop[l].passed = "none"
  BY <1>1, <1>2, At DEF Live, LoopShape
<1>5. /\ \A i \in Kinds : \A x \in Places(w, i) : i = "live" /\ x = l
      /\ run.verify \in {"pass", "fail"} => LatePlace("live", l)
      /\ run.parked => ParkedPlace("live", l)
  BY <1>1, <1>4, Alone
<1>6. \A k \in {"trigger", "route"} : l \notin Places(w, k)'
  BY <1>2, <1>4, AtNext DEF TriggerAt, Dispatch, FloorsTrigger, RouteAt
<1>7. l \in Places(w, "failed")' => l \in Places(w, "failed")
  BY <1>2, <1>3, FailedFrame
<1>8. l \notin Places(w, "failed")'
  BY <1>5, <1>7 DEF Kinds
<1>9. \A i \in LoopKinds : \A x \in Places(w, i)' : x = l /\ i \in {"live", "review"}
  <2>1. \A i \in LoopKinds : \A x \in Places(w, i)' : x # l => x \in Places(w, i)
    BY <1>2, <1>3, OtherLoops
  <2> QED BY <1>5, <1>6, <1>8, <2>1, KindsAre DEF LoopKinds
<1>10. \A i \in Kinds \ LoopKinds : \A x \in Places(w, i)' : x \in Places(w, i)
  BY <1>2, <1>3, RunFrame, CarrierFrame, QueueFrame, JobFrame, KindsAre
<1>11. \A i \in Kinds : \A x \in Places(w, i)' : x = l /\ i \in {"live", "review"}
  BY <1>5, <1>9, <1>10, KindsAre DEF LoopKinds
<1>12. ~(l \in Places(w, "live")' /\ l \in Places(w, "review")')
  BY AtNext DEF Live, ReviewAt
<1>13. ~run.pr
  BY <1>1, <1>4, Alone
<1>14. ~LatePlace("live", l) /\ ~ParkedPlace("live", l)
  BY DEF LatePlace, ParkedPlace
<1>15. Baton(w)'
  <2>1. CASE l \in Places(w, "live")'
    <3>1. \A i \in Kinds : \A x \in Places(w, i)' : i = "live" /\ x = l
      BY <1>11, <1>12, <2>1
    <3> QED BY <1>1, <1>2, <1>5, <1>13, <1>14, <3>1, Sits
  <2>2. CASE l \notin Places(w, "live")'
    <3>1. \A i \in Kinds : \A x \in Places(w, i)' : i = "review" /\ x = l
      BY <1>11, <2>2
    <3> QED BY <1>1, <1>2, <1>5, <1>13, <1>14, <3>1, Sits
  <2> QED BY <2>1, <2>2
<1> QED BY <1>4, <1>11, <1>15, At

LEMMA EndBaton ==
  ASSUME Shape, NEW w \in Worlds, Baton(w), NEW l \in Loops, NEW t \in BOOLEAN, EndLoop(l, t)
  PROVE  /\ Baton(w)'
         /\ loop[l].pc = "working" => \A i \in Kinds : \A x \in Places(w, i)' :
              /\ x = l
              /\ i = IF loop[l].role = "developer" THEN "trigger" ELSE "review"
         /\ loop[l].pc = "mirrored" => \A i \in Kinds : Places(w, i)' \subseteq Places(w, i)
<1>1. Typed /\ LoopShape(l) /\ "live" \in Kinds /\ "review" \in Kinds /\ "trigger" \in Kinds
  BY ShapeParts DEF Kinds
<1>2. /\ OnlyLoop(l) /\ loop[l].pc \in {"working", "mirrored"} /\ loop'[l].pc = "ended"
      /\ UNCHANGED <<run, firing, queue, job>> /\ RuleState
      /\ UNCHANGED <<loop[l].role, loop[l].marks, loop[l].passed, loop[l].verdict,
                     loop[l].attempts>>
  BY <1>1, EndEffect
<1>3. EngineFrame /\ SameRun /\ loop[l].role \in Roles /\ loop[l].passed = "none"
  BY <1>1, <1>2 DEF EngineFrame, SameRun, LoopShape
<1>4. \A i \in Kinds \ LoopKinds : \A x \in Places(w, i)' : x \in Places(w, i)
  BY <1>2, <1>3, RunFrame, CarrierFrame, QueueFrame, JobFrame, KindsAre
<1>5. \A k \in LoopKinds : \A x \in Places(w, k)' : x # l => x \in Places(w, k)
  BY <1>2, <1>3, OtherLoops
<1>6. l \in Places(w, "failed")' => l \in Places(w, "failed")
  BY <1>2, <1>3, FailedFrame
<1>7. /\ l \notin Places(w, "live")' /\ l \notin Places(w, "route")'
      /\ loop[l].role # "developer" => l \notin Places(w, "trigger")'
      /\ loop[l].role = "developer" => l \notin Places(w, "review")'
  BY <1>2, <1>3, AtNext DEF Live, RouteAt, ReviewAt, TriggerAt, Dispatch, FloorsTrigger, Roles
<1>8. CASE loop[l].pc = "working"
  <2>1. l \in Places(w, "live")
    BY <1>8, At DEF Live
  <2>2. PICK k \in Kinds : k = IF loop[l].role = "developer" THEN "trigger" ELSE "review"
    BY <1>1
  <2>3. \A i \in LoopKinds : \A x \in Places(w, i)' :
          (i = k /\ x = l) \/ (x \in Places(w, i) /\ ~(i = "live" /\ x = l))
    BY <1>5, <1>6, <1>7, <2>2 DEF LoopKinds
  <2>4. \A i \in Kinds : \A x \in Places(w, i)' :
          (i = k /\ x = l) \/ (x \in Places(w, i) /\ ~(i = "live" /\ x = l))
    BY <1>4, <2>3 DEF LoopKinds
  <2>5. ~LatePlace("live", l) /\ ~ParkedPlace("live", l)
    BY DEF LatePlace, ParkedPlace
  <2>6. Baton(w)' /\ \A i \in Kinds : \A x \in Places(w, i)' : i = k /\ x = l
    BY <1>1, <1>2, <2>1, <2>4, <2>5, Passes
  <2> QED BY <1>8, <2>2, <2>6
<1>9. CASE loop[l].pc = "mirrored"
  <2>1. loop[l].role = "reviewer" /\ loop[l].verdict # "none"
    BY <1>1, <1>9 DEF LoopShape
  <2>2. l \in Places(w, "review")' => l \in Places(w, "review")
    <3> SUFFICES ASSUME ReviewAt(w, l)' PROVE ReviewAt(w, l)
      BY At, AtNext
    <3>1. ASSUME NEW r \in Reviewing, <<r, l>> \in matched PROVE <<r, l>> \in matched'
      <4>1. When(r, l)
        BY <3>1, ShapeParts DEF MatchedHolds
      <4>2. When(r, l)'
        BY <1>2, <2>1, <4>1, WhenLoop, WhenLoopNext
           DEF Reviewing, ReviewApproved, ReviewRetry, ReviewPark, ReviewNoVerdict, Has
      <4> QED BY <1>3, <3>1, <4>2, Remains
    <3> QED BY <1>2, <1>9, <2>1, <3>1 DEF ReviewAt, Has, Open
  <2>3. \A i \in LoopKinds : Places(w, i)' \subseteq Places(w, i)
    BY <1>5, <1>6, <1>7, <2>1, <2>2 DEF LoopKinds
  <2>4. \A i \in Kinds : Places(w, i)' \subseteq Places(w, i)
    BY <1>4, <2>3
  <2> QED BY <1>2, <1>9, <2>4, Stays
<1> QED BY <1>2, <1>8, <1>9

-----------------------------------------------------------------------------
(* The stations pass the baton.                                            *)

LEMMA OneLong ==
  ASSUME NEW S, NEW q \in Seq(S), q # <<>>, Len(q) <= 1
  PROVE  Tail(q) = <<>>
  OBVIOUS

LEMMA TakeBaton ==
  ASSUME Shape, Short, NEW w \in Worlds, Baton(w), NEW s \in Stations, Take(s)
  PROVE  /\ Baton(w)' /\ s \in Places(w, "queue") /\ queue'[s] = <<>>
         /\ \A i \in Kinds : \A x \in Places(w, i)' : i = "job" /\ x = s
<1>1. Typed /\ "queue" \in Kinds /\ "job" \in Kinds
  BY ShapeParts DEF Kinds
<1>2. /\ UNCHANGED <<run, loop, firing, matched>>
      /\ queue[s] # <<>> /\ queue'[s] = Tail(queue[s]) /\ OnlyJob(s)
      /\ \A t \in Stations : t # s => queue'[t] = queue[t]
  BY <1>1, TakeEffect
<1>3. queue'[s] = <<>>
  <2>1. queue[s] \in Seq(Loops \cup {Run}) /\ Len(queue[s]) <= 1
    BY <1>1, TypeParts DEF Short
  <2> QED BY <1>2, <2>1, OneLong
<1>4. s \in Places(w, "queue")
  BY <1>2, At
<1>5. \A k \in LoopKinds \cup RunKinds : Places(w, k)' \subseteq Places(w, k)
  BY <1>2, FactsFrame
<1>6. \A x \in Places(w, "queue")' : x \in Places(w, "queue") /\ x # s
  BY <1>2, <1>3, At, AtNext
<1>7. \A x \in Places(w, "job")' : x = s \/ x \in Places(w, "job")
  BY <1>2, At, AtNext DEF OnlyJob
<1>8. \A i \in Kinds : \A x \in Places(w, i)' :
        (i = "job" /\ x = s) \/ (x \in Places(w, i) /\ ~(i = "queue" /\ x = s))
  <2>1. "queue" \notin LoopKinds \cup RunKinds
    BY DEF LoopKinds, RunKinds
  <2> QED BY <1>2, <1>5, <1>6, <1>7, <2>1, CarrierFrame, KindsAre
<1>9. /\ LatePlace("queue", s) => LatePlace("job", s)
      /\ ~ParkedPlace("queue", s)
  BY DEF LatePlace, ParkedPlace
<1>10. run'.verify = run.verify /\ run'.parked = run.parked /\ run'.pr = run.pr
  BY <1>2
<1>11. Baton(w)' /\ \A i \in Kinds : \A x \in Places(w, i)' : i = "job" /\ x = s
  BY <1>1, <1>4, <1>8, <1>9, <1>10, Passes
<1> QED BY <1>3, <1>4, <1>11

LEMMA StampFailedBaton ==
  ASSUME Shape, NEW w \in Worlds, Baton(w), NEW s \in Stations, StampDispatchFailed(s)
  PROVE  /\ Baton(w)' /\ s \in Places(w, "job")
         /\ \A i \in Kinds : \A x \in Places(w, i)' : i \in {"failed", "failed-run"}
<1>1. Typed /\ "failed" \in Kinds /\ "failed-run" \in Kinds /\ "job" \in Kinds
  BY ShapeParts DEF Kinds
<1>2. PICK e : e = job[s].on
  OBVIOUS
<1>3. /\ AddsMark(e, "failed") /\ e \in Loops \cup {Run}
      /\ job[s].pc = "failed" /\ PutsDown(s) /\ RuleState
      /\ UNCHANGED <<firing, queue>>
  BY <1>1, <1>2, StampFailedEffect
<1>4. UNCHANGED <<run.verify, run.parked, run.pr>>
  BY <1>1, <1>3, MarkEffect
<1>5. s \in Places(w, "job")
  BY <1>3, At
<1>6. PICK k \in Kinds : k = IF e = Run THEN "failed-run" ELSE "failed"
  BY <1>1
<1>7. /\ \A i \in {"live", "trigger", "route", "review", "verdict"} : Places(w, i)' \subseteq Places(w, i)
      /\ \A i \in {"failed", "failed-run"} : \A x \in Places(w, i)' : x \in Places(w, i) \/ x = e
      /\ e = Run => Places(w, "failed")' \subseteq Places(w, "failed")
      /\ e # Run => Places(w, "failed-run")' \subseteq Places(w, "failed-run")
  BY <1>3, MarkPlaces
<1>8. \A i \in LoopKinds \cup RunKinds : \A x \in Places(w, i)' : (i = k /\ x = e) \/ x \in Places(w, i)
  BY <1>6, <1>7 DEF LoopKinds, RunKinds
<1>9. Places(w, "job")' \subseteq Places(w, "job") \ {s}
  BY <1>3, JobFrame
<1>10. \A i \in Kinds : \A x \in Places(w, i)' :
         (i = k /\ x = e) \/ (x \in Places(w, i) /\ ~(i = "job" /\ x = s))
  <2>1. "job" \notin LoopKinds \cup RunKinds
    BY DEF LoopKinds, RunKinds
  <2> QED BY <1>3, <1>8, <1>9, <2>1, CarrierFrame, QueueFrame, KindsAre
<1>11. LatePlace("job", s) => LatePlace(k, e)
  <2>1. s = "delivery" => e = Run
    BY <1>2, <1>3, ShapeParts DEF Addressed, Concern
  <2> QED BY <1>6, <2>1 DEF LatePlace
<1>12. ~ParkedPlace("job", s)
  BY DEF ParkedPlace
<1>13. Baton(w)' /\ \A i \in Kinds : \A x \in Places(w, i)' : i = k /\ x = e
  BY <1>1, <1>4, <1>5, <1>10, <1>11, <1>12, Passes
<1> QED BY <1>5, <1>6, <1>13

LEMMA HandlingBaton ==
  ASSUME Shape, NEW w \in Worlds, Baton(w), NEW s \in Stations, Handling(s)
  PROVE  /\ Baton(w)' /\ s \in Places(w, "job")
         /\ \A i \in Kinds : Places(w, i)' \subseteq Places(w, i)
<1>1. Typed
  BY ShapeParts
<1>2. /\ job[s].pc # "idle" /\ (Holds(s) \/ PutsDown(s))
      /\ UNCHANGED <<loop, firing, queue>>
      /\ UNCHANGED <<run.verdict, run.pr, run.parked, run.marks>>
      /\ run'.verify = run.verify \/ run'.verify = "retry"
      /\ (matched' = matched /\ SameRun) \/ RuleState
  BY <1>1, HandlingEffect
<1>3. EngineFrame
  BY <1>2 DEF EngineFrame
<1>4. s \in Places(w, "job")
  BY <1>2, At
<1>5. Places(w, "job")' \subseteq Places(w, "job")
  BY <1>2, <1>4, JobFrame
<1>6. Places(w, "verdict")' \subseteq Places(w, "verdict")
  <2>1. CASE run'.verify = run.verify
    BY <1>2, <1>3, <2>1, VerdictFrame
  <2>2. CASE run'.verify = "retry"
    BY <2>2, At, AtNext DEF VerdictAt
  <2> QED BY <1>2, <2>1, <2>2
<1>7. Places(w, "failed-run")' \subseteq Places(w, "failed-run")
  BY <1>2, <1>3, FailedRunFrame
<1>8. \A k \in LoopKinds : Places(w, k)' \subseteq Places(w, k)
  BY <1>2, <1>3, AllLoops
<1>9. \A i \in Kinds : Places(w, i)' \subseteq Places(w, i)
  BY <1>2, <1>5, <1>6, <1>7, <1>8, CarrierFrame, QueueFrame, KindsAre DEF RunKinds
<1>10. run'.verify = run.verify \/ run'.verify \notin {"pass", "fail"}
  BY <1>2
<1> QED BY <1>2, <1>4, <1>9, <1>10, Stays

LEMMA FloorsBaton ==
  ASSUME Shape, NEW w \in Worlds, Baton(w), NEW b \in BOOLEAN, RunFloors(b)
  PROVE  /\ Baton(w)' /\ "floors" \in Places(w, "job") /\ job["floors"].on \in Finished
         /\ \A i \in Kinds : \A x \in Places(w, i)' :
              \/ i = "route" /\ x = job["floors"].on
              \/ loop' = loop /\ i = "job" /\ x = "floors"
<1>1. /\ Typed /\ "job" \in Kinds /\ "route" \in Kinds /\ "floors" \in Stations
      /\ job["floors"].pc = "start"
  BY ShapeParts DEF Kinds, Stations, RunFloors
<1>2. "floors" \in Places(w, "job") /\ job["floors"].on \in Finished
  BY <1>1, ShapeParts, At DEF Addressed, Concern
<1>3. PICK l \in Loops : l = job["floors"].on
  BY <1>2 DEF Finished
<1>4. /\ RuleState /\ UNCHANGED <<run, firing, queue>>
      /\ \/ /\ OnlyLoop(l) /\ PutsDown("floors")
            /\ UNCHANGED <<loop[l].role, loop[l].pc, loop[l].marks>>
         \/ loop' = loop /\ Holds("floors")
  BY <1>1, <1>3, FloorsEffect
<1>5. EngineFrame /\ SameRun
  BY <1>4 DEF EngineFrame, SameRun
<1>6. \A i \in RunKinds : Places(w, i)' \subseteq Places(w, i)
  BY <1>5, RunFrame
<1>7. \A i \in Kinds : \A x \in Places(w, i) : i = "job" /\ x = "floors"
  BY <1>1, <1>2, Alone
<1>8. CASE OnlyLoop(l) /\ PutsDown("floors") /\ UNCHANGED <<loop[l].role, loop[l].pc, loop[l].marks>>
  <2>1. \A i \in LoopKinds : \A x \in Places(w, i)' : x # l => x \in Places(w, i)
    BY <1>5, <1>8, OtherLoops
  <2>2. (l \in Places(w, "failed")' => l \in Places(w, "failed"))
        /\ (l \in Places(w, "trigger")' => l \in Places(w, "trigger"))
    BY <1>5, <1>8, FailedFrame, TriggerFrame
  <2>3. l \notin Places(w, "live")' /\ l \notin Places(w, "review")'
    BY <1>2, <1>3, <1>8, AtNext DEF Finished, Live, ReviewAt
  <2>4. \A i \in LoopKinds : \A x \in Places(w, i)' : (i = "route" /\ x = l) \/ x \in Places(w, i)
    BY <2>1, <2>2, <2>3 DEF LoopKinds
  <2>5. Places(w, "job")' \subseteq Places(w, "job") \ {"floors"}
    BY <1>1, <1>8, JobFrame
  <2>6. \A i \in Kinds : \A x \in Places(w, i)' :
          (i = "route" /\ x = l) \/ (x \in Places(w, i) /\ ~(i = "job" /\ x = "floors"))
    BY <1>4, <1>6, <2>4, <2>5, CarrierFrame, QueueFrame, KindsAre DEF LoopKinds, RunKinds
  <2>7. ~LatePlace("job", "floors") /\ ~ParkedPlace("job", "floors")
    BY DEF LatePlace, ParkedPlace
  <2>8. Baton(w)' /\ \A i \in Kinds : \A x \in Places(w, i)' : i = "route" /\ x = l
    BY <1>1, <1>2, <1>4, <2>6, <2>7, Passes
  <2> QED BY <1>2, <1>3, <2>8
<1>9. CASE loop' = loop /\ Holds("floors")
  <2>1. \A i \in LoopKinds : Places(w, i)' \subseteq Places(w, i)
    BY <1>5, <1>9, AllLoops
  <2>2. Places(w, "job")' \subseteq Places(w, "job")
    BY <1>1, <1>2, <1>9, JobFrame
  <2>3. \A i \in Kinds : Places(w, i)' \subseteq Places(w, i)
    BY <1>4, <1>6, <2>1, <2>2, CarrierFrame, QueueFrame, KindsAre
  <2>4. Baton(w)'
    BY <1>4, <2>3, Stays
  <2> QED BY <1>2, <1>7, <1>9, <2>3, <2>4
<1> QED BY <1>4, <1>8, <1>9

LEMMA DecideBaton ==
  ASSUME Shape, NEW w \in Worlds, Baton(w), NEW o \in {"pass", "fail"}, StampVerify(o)
  PROVE  /\ Baton(w)' /\ "verify" \in Places(w, "job")
         /\ \A i \in Kinds : \A x \in Places(w, i)' : i = "verdict" /\ x = Run
<1>1. Typed /\ "job" \in Kinds /\ "verdict" \in Kinds /\ "verify" \in Stations
  BY ShapeParts DEF Kinds, Stations
<1>2. /\ job["verify"].pc = "cloned" /\ PutsDown("verify") /\ RuleState
      /\ UNCHANGED <<loop, firing, queue>> /\ run'.verify = o
      /\ UNCHANGED <<run.pr, run.parked, run.marks>>
  BY <1>1, DecideEffect
<1>3. EngineFrame
  BY <1>2 DEF EngineFrame
<1>4. "verify" \in Places(w, "job")
  BY <1>1, <1>2, At
<1>5. /\ \A i \in Kinds : \A x \in Places(w, i) : i = "job" /\ x = "verify"
      /\ ~run.pr
      /\ run.parked => ParkedPlace("job", "verify")
  BY <1>1, <1>4, Alone
<1>6. \A k \in LoopKinds : Places(w, k)' \subseteq Places(w, k)
  BY <1>2, <1>3, AllLoops
<1>7. Places(w, "failed-run")' \subseteq Places(w, "failed-run")
  BY <1>2, <1>3, FailedRunFrame
<1>8. Places(w, "job")' \subseteq Places(w, "job") \ {"verify"}
  BY <1>1, <1>2, JobFrame
<1>9. \A x \in Places(w, "verdict")' : x = Run
  BY AtNext
<1>10. \A i \in Kinds : \A x \in Places(w, i)' : i = "verdict" /\ x = Run
  BY <1>2, <1>5, <1>6, <1>7, <1>8, <1>9, CarrierFrame, QueueFrame, KindsAre DEF RunKinds, LoopKinds
<1>11. LatePlace("verdict", Run) /\ ~ParkedPlace("job", "verify")
  BY DEF LatePlace, ParkedPlace
<1> QED BY <1>1, <1>2, <1>4, <1>5, <1>10, <1>11, Sits

LEMMA DeliverBaton ==
  ASSUME Shape, NEW w \in Worlds, Baton(w), StampPR
  PROVE  Baton(w)' /\ "delivery" \in Places(w, "job") /\ Nobody(w)'
<1>1. Typed /\ "job" \in Kinds /\ "delivery" \in Stations
  BY ShapeParts DEF Kinds, Stations
<1>2. /\ job["delivery"].pc = "opened" /\ PutsDown("delivery") /\ RuleState
      /\ UNCHANGED <<loop, firing, queue>> /\ run'.pr = TRUE
      /\ UNCHANGED <<run.verify, run.verdict, run.parked, run.marks>>
  BY <1>1, StampPREffect
<1>3. EngineFrame
  BY <1>2 DEF EngineFrame
<1>4. "delivery" \in Places(w, "job")
  BY <1>1, <1>2, At
<1>5. /\ \A i \in Kinds : \A x \in Places(w, i) : i = "job" /\ x = "delivery"
      /\ run.parked => ParkedPlace("job", "delivery")
  BY <1>1, <1>4, Alone
<1>6. \A k \in LoopKinds : Places(w, k)' \subseteq Places(w, k)
  BY <1>2, <1>3, AllLoops
<1>7. \A x : x \notin Places(w, "failed-run")'
  BY <1>2, AtNext DEF FailedRunAt, StationFailedRun
<1>8. Places(w, "job")' \subseteq Places(w, "job") \ {"delivery"}
  BY <1>1, <1>2, JobFrame
<1>9. Places(w, "verdict")' \subseteq Places(w, "verdict")
  BY <1>2, <1>3, VerdictFrame
<1>10. \A i \in Kinds : \A x \in Places(w, i)' : FALSE
  BY <1>2, <1>5, <1>6, <1>7, <1>8, <1>9, CarrierFrame, QueueFrame, KindsAre DEF RunKinds, LoopKinds
<1>11. ~ParkedPlace("job", "delivery")
  BY DEF ParkedPlace
<1>12. Nobody(w)'
  BY <1>10 DEF Nobody
<1> QED BY <1>1, <1>2, <1>4, <1>5, <1>10, <1>11, <1>12, Sits

LEMMA RestartBaton ==
  ASSUME Shape, NEW w \in Worlds, Baton(w), Restart, World(w)'
  PROVE  Baton(w)' /\ \A i \in Kinds : Places(w, i)' \subseteq Places(w, i)
<1>1. /\ firing' = {} /\ queue' = [s \in Stations |-> <<>>] /\ job' = [s \in Stations |-> NoJob]
      /\ UNCHANGED <<run, loop>>
  BY DEF Restart
<1>2. w = "marked" \/ matched' = matched
  <2>1. CASE matched' = {} /\ used'.forgot = used.forgot + 1
    <3>1. used.forgot \in Nat
      BY ShapeParts, TypeParts DEF Usage
    <3> QED BY <2>1, <3>1 DEF World, Worlds
  <2>2. matched' = matched \/ (matched' = {} /\ used'.forgot = used.forgot + 1)
    BY ShapeParts, TypeParts DEF Restart, Usage
  <2> QED BY <2>1, <2>2
<1>3. \A k \in LoopKinds \cup RunKinds : Places(w, k)' \subseteq Places(w, k)
  BY <1>1, <1>2, FactsFrame
<1>4. \A k \in {"carrier", "queue", "job"} : Places(w, k)' \subseteq Places(w, k)
  BY <1>1, AtNext DEF NoJob
<1>5. \A i \in Kinds : Places(w, i)' \subseteq Places(w, i)
  BY <1>3, <1>4, KindsAre
<1> QED BY <1>1, <1>5, Stays

-----------------------------------------------------------------------------
(* What the baton's passing keeps true of the rest.                        *)

(* Two firings that wait for their marks are one.                          *)
LEMMA WaitingPlace ==
  ASSUME Shape, Judged, NEW w, Remembered, w = "marked", NEW f \in firing, Waiting(f)
  PROVE  /\ Origin(f.rule) \in Kinds /\ f.on \in Places(w, Origin(f.rule))
         /\ When(f.rule, f.on)
<1>1. <<f.rule, f.on>> \in matched /\ <<f.rule, f.on>> \in RuleOn
  BY ShapeParts, FiringFacts DEF Remembered
<1>2. When(f.rule, f.on)
  BY <1>1, ShapeParts DEF MatchedHolds
<1> QED BY <1>1, <1>2, FireOrigin DEF Waiting

LEMMA OriginNotHeld ==
  ASSUME Typed, NEW f \in firing, f.rule \notin Cleaning
  PROVE  Origin(f.rule) \notin {"live", "carrier", "queue", "job"}
  BY FiringFacts, RuleOnFacts, OriginKinds DEF LoopKinds, RunKinds

LEMMA NoneWaiting ==
  ASSUME Shape, Judged, NEW w, w = "marked", Remembered, Baton(w),
         NEW k \in {"live", "carrier", "queue", "job"}, NEW x \in Places(w, k)
  PROVE  \A f \in firing : ~Waiting(f)
<1> SUFFICES ASSUME NEW f \in firing, Waiting(f) PROVE FALSE
  OBVIOUS
<1>1. Origin(f.rule) \in Kinds /\ f.on \in Places(w, Origin(f.rule))
  BY WaitingPlace
<1>2. k \in Kinds
  BY DEF Kinds
<1>3. Origin(f.rule) = k
  BY <1>1, <1>2, Alone
<1> QED BY <1>3, ShapeParts, OriginNotHeld DEF Waiting

LEMMA OneWaiting ==
  ASSUME Shape, Judged, NEW w, w = "marked", Remembered, Baton(w),
         NEW f \in firing, Waiting(f), NEW g \in firing, Waiting(g)
  PROVE  f = g
<1>1. /\ Origin(f.rule) \in Kinds /\ f.on \in Places(w, Origin(f.rule)) /\ When(f.rule, f.on)
      /\ Origin(g.rule) \in Kinds /\ g.on \in Places(w, Origin(g.rule)) /\ When(g.rule, g.on)
  BY WaitingPlace
<1>2. Origin(f.rule) = Origin(g.rule) /\ f.on = g.on
  BY <1>1, Alone
<1>3. /\ f.rule \in LoopRules \cup RunRules /\ g.rule \in LoopRules \cup RunRules
      /\ f.rule \in LoopRules => f.on \in Loops
      /\ f.rule \in RunRules => f.on = Run
      /\ g.rule \in LoopRules => g.on \in Loops
      /\ g.rule \in RunRules => g.on = Run
      /\ f.rule \notin Cleaning /\ g.rule \notin Cleaning
  BY ShapeParts, FiringFacts DEF Waiting
<1>4. Run \notin Loops
  BY LoopAssumption DEF Loops, Run
<1>5. f.rule = g.rule
  <2>1. CASE f.rule \in LoopRules
    <3>1. g.rule \in LoopRules
      BY <1>2, <1>3, <1>4, <2>1
    <3> QED BY <1>1, <1>2, <1>3, <2>1, <3>1, Exclusive DEF Judged
  <2>2. CASE f.rule \in RunRules
    <3>1. g.rule \in RunRules /\ f.on = Run /\ g.on = Run
      BY <1>2, <1>3, <1>4, <2>2
    <3> QED BY <1>1, <1>2, <2>2, <3>1, ExclusiveRun
  <2> QED BY <1>3, <2>1, <2>2
<1> QED BY <1>2, <1>5 DEF Remembered, Waiting

LEMMA RememberedIdle ==
  ASSUME Remembered, \A f \in firing : ~Waiting(f),
         firing' \subseteq firing, run'.parked = run.parked
  PROVE  Remembered'
  BY DEF Remembered, Waiting, Pending, Moot

LEMMA RememberedKept ==
  ASSUME Remembered, matched' = matched,
         firing' \subseteq firing, run'.parked = run.parked
  PROVE  Remembered'
  BY DEF Remembered, Waiting, Pending, Moot

(* A mark makes only its own rules' conditions false.                      *)
LEMMA MarkWhen ==
  ASSUME Shape, NEW e \in Loops \cup {Run}, NEW m \in Marks, AddsMark(e, m),
         NEW r, NEW d, <<r, d>> \in RuleOn, r \notin Cleaning, When(r, d), ~(d = e /\ m = Guard(r))
  PROVE  When(r, d)'
<1>1. Typed /\ (r \in LoopRules => d \in Loops) /\ (r \in RunRules => d = Run)
      /\ r \in LoopRules \cup RunRules
  BY ShapeParts, RuleOnFacts
<1>2. Run \notin Loops
  BY LoopAssumption DEF Loops, Run
<1>3. CASE r \in LoopRules /\ d # e
  <2>1. SameLoop(d)
    BY <1>1, <1>3, MarkEffect DEF SameLoop
  <2> QED BY <1>1, <1>3, <2>1, SameWhen
<1>4. CASE r \in LoopRules /\ d = e
  <2>1. e \in Loops /\ e # Run
    BY <1>1, <1>2, <1>4
  <2>2. /\ loop'[e].marks = loop[e].marks \cup {m}
        /\ UNCHANGED <<loop[e].role, loop[e].pc, loop[e].transient, loop[e].passed,
                       loop[e].rejected, loop[e].attempts, loop[e].transients, loop[e].verdict>>
    BY <1>1, <2>1, MarkEffect
  <2>3. m # Guard(r)
    BY <1>4
  <2>4. CASE r \in {"04", "05"}
    <3>1. m # "dispatched"
      BY <2>3, <2>4 DEF Guard, Cleaning, Surrender
    <3> QED BY <1>4, <2>1, <2>2, <2>4, <3>1, WhenLoop, WhenLoopNext DEF Dispatch, FloorsTrigger, Has
  <2>5. CASE r \in Routing
    <3>1. m # "routed"
      BY <2>3, <2>5 DEF Guard, Routing, Cleaning, Surrender
    <3>2. CASE r = "06a"
      BY <1>4, <2>1, <2>2, <3>1, <3>2, WhenLoop, WhenLoopNext DEF RouteAdvance, Has
    <3>3. CASE r = "06c"
      BY <1>4, <2>1, <2>2, <3>1, <3>3, WhenLoop, WhenLoopNext DEF RouteRetry, Unrouted, Has
    <3>4. CASE r = "06d"
      BY <1>4, <2>1, <2>2, <3>1, <3>4, WhenLoop, WhenLoopNext DEF RouteEscalate, Unrouted, Has
    <3>5. CASE r = "06f"
      BY <1>4, <2>1, <2>2, <3>1, <3>5, WhenLoop, WhenLoopNext DEF RouteTransientRetry, Unrouted, Has
    <3>6. CASE r = "06g"
      BY <1>4, <2>1, <2>2, <3>1, <3>6, WhenLoop, WhenLoopNext DEF RouteTransientPark, Unrouted, Has
    <3> QED BY <2>5, <3>2, <3>3, <3>4, <3>5, <3>6 DEF Routing
  <2>6. CASE r \in Reviewing
    <3>1. m # "routed"
      BY <2>3, <2>6 DEF Guard, Reviewing, Cleaning, Surrender
    <3> QED BY <1>4, <2>1, <2>2, <2>6, <3>1, WhenLoop, WhenLoopNext
            DEF Reviewing, ReviewApproved, ReviewRetry, ReviewPark, ReviewNoVerdict, Has
  <2>7. CASE r = "failed-loop"
    <3>1. m # "park-routed"
      BY <2>3, <2>7 DEF Guard, Cleaning, Surrender
    <3> QED BY <1>4, <2>1, <2>2, <2>7, <3>1, WhenLoop, WhenLoopNext DEF StationFailedLoop, Has
  <2> QED BY <1>4, <2>4, <2>5, <2>6, <2>7, RuleGroups
<1>5. CASE r \in RunRules /\ d # e
  <2>1. run' = run
    BY <1>1, <1>5, MarkEffect
  <2> QED BY <1>1, <1>5, <2>1, SameWhenRun DEF SameRun
<1>6. CASE r \in RunRules /\ d = e
  <2>1. /\ run'.marks = run.marks \cup {m} /\ d = Run
        /\ UNCHANGED <<run.verify, run.verdict, run.pr, run.parked>>
    BY <1>1, <1>6, MarkEffect
  <2>2. m # Guard(r)
    BY <1>6
  <2>3. CASE r \in Closing
    <3>1. m # "routed"
      BY <2>2, <2>3 DEF Guard, Closing, Cleaning, Surrender
    <3> QED BY <2>1, <2>3, <3>1, WhenRun DEF Closing, DeliverRun, ParkRun
  <2>4. CASE r = "failed-run"
    <3>1. m # "park-routed"
      BY <2>2, <2>4 DEF Guard, Cleaning, Surrender
    <3> QED BY <2>1, <2>4, <3>1, WhenRun DEF StationFailedRun
  <2> QED BY <1>6, <2>3, <2>4, RuleGroups
<1> QED BY <1>1, <1>3, <1>4, <1>5, <1>6

-----------------------------------------------------------------------------
LEMMA ShortStays ==
  ASSUME Short, \A s \in Stations : queue'[s] = queue[s] \/ queue'[s] = <<>>
  PROVE  Short'
  BY Tuples DEF Short

LEMMA UnjudgedStays ==
  ASSUME Shape, NEW w, Unjudged(w),
         \A l \in Loops : loop'[l].passed = loop[l].passed,
         Places(w, "trigger")' \subseteq Places(w, "trigger"),
         \A f \in Places(w, "carrier")' : f.rule = "05" =>
           \E g \in Places(w, "carrier") : g.rule = "05" /\ g.on = f.on,
         queue'["floors"] = queue["floors"] \/ queue'["floors"] = <<>>,
         job'["floors"].pc # "idle" => job["floors"].pc # "idle" /\ job'["floors"].on = job["floors"].on
  PROVE  Unjudged(w)'
<1>0. Typed /\ "floors" \in Stations
  BY ShapeParts DEF Stations
<1>1. \A l \in Places(w, "trigger")' : loop'[l].passed = "none"
  <2>1. \A l \in Places(w, "trigger")' : l \in Loops
    BY AtNext
  <2> QED BY <2>1 DEF Unjudged
<1>2. \A f \in Places(w, "carrier")' : f.rule = "05" => loop'[f.on].passed = "none"
  <2> SUFFICES ASSUME NEW f \in Places(w, "carrier")', f.rule = "05" PROVE loop'[f.on].passed = "none"
    OBVIOUS
  <2>1. PICK g \in Places(w, "carrier") : g.rule = "05" /\ g.on = f.on
    OBVIOUS
  <2>2. g \in firing
    BY At
  <2>3. g.on \in Loops
    BY <1>0, <2>1, <2>2, FiringFacts DEF LoopRules
  <2> QED BY <2>1, <2>3 DEF Unjudged
<1>3. queue'["floors"] # <<>> => loop'[Head(queue'["floors"])].passed = "none"
  <2> SUFFICES ASSUME queue'["floors"] # <<>> PROVE loop'[Head(queue["floors"])].passed = "none"
    OBVIOUS
  <2>1. queue["floors"] # <<>> /\ queue["floors"] \in Seq(Finished)
    BY <1>0, ShapeParts DEF Addressed, Concern
  <2>2. Head(queue["floors"]) \in Finished
    BY <2>1
  <2>3. Head(queue["floors"]) \in Loops
    BY <2>2 DEF Finished
  <2> QED BY <2>1, <2>3 DEF Unjudged
<1>4. job'["floors"].pc # "idle" => loop'[job'["floors"].on].passed = "none"
  <2> SUFFICES ASSUME job'["floors"].pc # "idle" PROVE loop'[job["floors"].on].passed = "none"
    OBVIOUS
  <2>1. job["floors"].on \in Finished
    BY <1>0, ShapeParts DEF Addressed, Concern
  <2>2. job["floors"].on \in Loops
    BY <2>1 DEF Finished
  <2> QED BY <2>2 DEF Unjudged
<1> QED BY <1>1, <1>2, <1>3, <1>4 DEF Unjudged

LEMMA JudgedStays ==
  ASSUME Shape, Judged, \A l \in Loops : Unclean(l) => Unclean(l)',
         \A l \in Loops : Has(l, "unclean")' => Has(l, "unclean") \/ Unclean(l)',
         \A f \in firing' : f.rule \in Cleaning =>
           \E g \in firing : g.rule = f.rule /\ g.on = f.on
  PROVE  Judged'
<1>1. \A l \in Loops : Has(l, "unclean")' => Unclean(l)'
  BY DEF Judged
<1>2. ASSUME NEW f \in firing', f.rule \in Cleaning PROVE Unclean(f.on)'
  <2>1. PICK g \in firing : g.rule = f.rule /\ g.on = f.on
    BY <1>2
  <2>2. g.on \in Loops
    BY <1>2, <2>1, ShapeParts, FiringFacts DEF Cleaning, LoopRules
  <2> QED BY <1>2, <2>1, <2>2 DEF Judged
<1> QED BY <1>1, <1>2 DEF Judged

-----------------------------------------------------------------------------
(* The invariant, action by action.                                        *)

LEMMA RelayParts ==
  ASSUME NEW w, Relay(w)
  PROVE  Baton(w) /\ Short /\ Unjudged(w) /\ Judged /\ (w = "marked" => Remembered)
  BY DEF Relay

LEMMA Advanced ==
  ASSUME Shape, NEW f \in firing, Advance(f), NEW w \in Worlds
  PROVE  /\ \A x \in firing' : \E g \in firing : g.rule = x.rule /\ g.on = x.on
         /\ \A x \in firing' : (x \in firing /\ x # f) \/ (x = Rested(f) /\ Len(f.todo) > 1)
         /\ w # "marked" \/ (f.rule \notin Surrender /\ f.todo # Does(f.rule)) =>
              \A x \in Places(w, "carrier")' : x.rule = "05" =>
                \E g \in Places(w, "carrier") : g.rule = "05" /\ g.on = x.on
<1>1. Typed
  BY ShapeParts
<1>2. /\ firing' = (firing \ {f}) \cup (IF Len(f.todo) > 1 THEN {Rested(f)} ELSE {})
      /\ Rested(f).rule = f.rule /\ Rested(f).on = f.on
  BY <1>1, AdvanceFacts
<1>3. \A x \in firing' : (x \in firing /\ x # f) \/ (x = Rested(f) /\ Len(f.todo) > 1)
  BY <1>2
<1>4. ASSUME w # "marked" \/ (f.rule \notin Surrender /\ f.todo # Does(f.rule)),
             NEW x \in Places(w, "carrier")', x.rule = "05"
      PROVE  \E g \in Places(w, "carrier") : g.rule = "05" /\ g.on = x.on
  <2>1. x \in firing' /\ Carries(w, x)
    BY <1>4, AtNext
  <2>2. CASE x \in firing
    BY <1>4, <2>1, <2>2, At
  <2>3. CASE x = Rested(f)
    <3>1. f.rule = "05" /\ f.on = x.on
      BY <1>2, <1>4, <2>3
    <3>2. Carries(w, f)
      BY <1>4, <2>1, <3>1 DEF Carries, Worlds, Cleaning
    <3> QED BY <3>1, <3>2, At
  <2> QED BY <1>3, <2>1, <2>2, <2>3
<1> QED BY <1>2, <1>3, <1>4

LEMMA FireRelay ==
  ASSUME Shape, NEW w \in Worlds, Relay(w), NEW r, NEW e, <<r, e>> \in RuleOn, Fire(r, e)
  PROVE  Relay(w)'
<1>0. Baton(w) /\ Short /\ Unjudged(w) /\ Judged /\ (w = "marked" => Remembered)
  BY RelayParts
<1> DEFINE f == [rule |-> r, on |-> e, todo |-> Does(r)]
<1>1. /\ <<r, e>> \notin matched /\ When(r, e) /\ matched' = matched \cup {<<r, e>>}
      /\ firing' = firing \cup {f} /\ UNCHANGED <<run, loop, queue, job>>
  BY DEF Fire
<1>2. (r \in LoopRules => e \in Loops) /\ (r \in RunRules => e = Run)
  BY RuleOnFacts
<1>3. Baton(w)'
  BY <1>0, FireBaton
<1>4. Short'
  BY <1>0, <1>1, ShortStays
<1>5. Judged'
  <2>1. r \in Cleaning => Unclean(e)'
    <3>1. r \in Cleaning => e \in Loops
      BY <1>2 DEF Cleaning, LoopRules
    <3> QED BY <1>1, <3>1, WhenLoop DEF Cleaning, RouteNotClean, RouteNotCleanFloor, Unclean
  <2>2. \A l \in Loops : Has(l, "unclean")' => Unclean(l)'
    BY <1>0, <1>1 DEF Judged, Has, Unclean
  <2>3. \A g \in firing : g.rule \in Cleaning => Unclean(g.on)'
    BY <1>0, <1>1 DEF Judged, Unclean
  <2> QED BY <1>1, <2>1, <2>2, <2>3 DEF Judged
<1>6. Unjudged(w)'
  <2>1. Places(w, "trigger")' \subseteq Places(w, "trigger")
    BY <1>1, FactsFrame DEF LoopKinds
  <2>2. r = "05" => loop[e].passed = "none"
    <3>1. ASSUME r = "05" PROVE e \in Places(w, "trigger")
      BY <1>0, <1>1, <3>1, FireOrigin, Origins DEF Cleaning
    <3> QED BY <1>0, <3>1 DEF Unjudged
  <2>3. \A x \in Places(w, "carrier")' : x = f \/ x \in Places(w, "carrier")
    BY <1>1, At, AtNext
  <2> QED BY <1>0, <1>1, <2>1, <2>2, <2>3 DEF Unjudged
<1>7. ASSUME w = "marked" PROVE Remembered'
  <2>1. \A g \in firing' : Waiting(g)' => <<g.rule, g.on>> \in matched'
    BY <1>0, <1>1, <1>7 DEF Remembered, Waiting, Pending, Moot
  <2>2. ASSUME NEW g \in firing, Pending(g), g.rule = r, g.on = e PROVE g = f
    <3>1. CASE r \in Cleaning
      <4>1. g \in Firing /\ g.todo = Does(r)
        BY <2>2, <3>1, ShapeParts, FiringFacts, NextStep
      <4> QED BY <2>2, <4>1 DEF Firing
    <3>2. CASE r \notin Cleaning
      <4>1. Moot(g)
        BY <1>0, <1>1, <1>7, <2>2, <3>2 DEF Remembered, Waiting
      <4>2. r = "failed-run" /\ e = Run /\ run.parked
        BY <1>2, <2>2, <4>1 DEF Moot, RunRules
      <4> QED BY <1>1, <4>2, WhenRun DEF StationFailedRun
    <3> QED BY <3>1, <3>2
  <2>3. \A g, h \in firing' : Pending(g) /\ Pending(h) /\ g.rule = h.rule /\ g.on = h.on => g = h
    <3>1. f.rule = r /\ f.on = e
      OBVIOUS
    <3> HIDE DEF f
    <3> QED BY <1>0, <1>1, <1>7, <2>2, <3>1 DEF Remembered
  <2> QED BY <2>1, <2>3 DEF Remembered, Pending
<1> QED BY <1>3, <1>4, <1>5, <1>6, <1>7 DEF Relay

LEMMA MarkRelay ==
  ASSUME Shape, NEW w \in Worlds, Relay(w), NEW f \in firing, AddMark(f)
  PROVE  Relay(w)'
<1>0. Baton(w) /\ Short /\ Unjudged(w) /\ Judged /\ (w = "marked" => Remembered)
  BY RelayParts
<1>1. PICK e, m : e = f.on /\ m = Head(f.todo)
  OBVIOUS
<1>2. /\ m \in Marks /\ AddsMark(e, m) /\ Advance(f) /\ RuleState
      /\ UNCHANGED <<queue, job>>
  BY <1>1 DEF AddMark, AddsMark
<1>3. Typed /\ e \in Loops \cup {Run} /\ <<f.rule, e>> \in RuleOn
  BY <1>1, ShapeParts, FiringFacts
<1>4. /\ e = Run => loop' = loop
      /\ e # Run => loop'[e].marks = loop[e].marks \cup {m}
      /\ run'.parked = run.parked
      /\ \A k \in Loops : /\ k # e => loop'[k] = loop[k]
                          /\ UNCHANGED <<loop[k].passed, loop[k].rejected>>
  BY <1>2, <1>3, MarkEffect
<1>5. Baton(w)'
  BY <1>0, MarkBaton
<1>6. Short'
  BY <1>0, <1>2, ShortStays
<1>7. Judged'
  <2>1. \A l \in Loops : Unclean(l) => Unclean(l)'
    BY <1>4 DEF Unclean
  <2>2. m = "unclean" => f.rule \in Cleaning
    <3>1. f.rule \in Cleaning \/ m \in {"dispatched", "routed", "park-routed"}
      BY <1>1, <1>2, <1>3, NextStep, Tuples DEF Guard
    <3> QED BY <3>1
  <2>3. m = "unclean" => Unclean(e)
    BY <1>0, <1>1, <2>2 DEF Judged
  <2>4. \A l \in Loops : Has(l, "unclean")' => Has(l, "unclean") \/ Unclean(l)'
    BY <1>3, <1>4, <2>1, <2>3 DEF Has
  <2>5. \A x \in firing' : \E g \in firing : g.rule = x.rule /\ g.on = x.on
    BY <1>2, Advanced
  <2> QED BY <1>0, <2>1, <2>4, <2>5, JudgedStays
<1>8. Unjudged(w)'
  <2>1. Places(w, "trigger")' \subseteq Places(w, "trigger")
    BY <1>2, <1>3, MarkPlaces
  <2>2. CASE w # "marked"
    <3>1. \A x \in Places(w, "carrier")' : x.rule = "05" =>
            \E g \in Places(w, "carrier") : g.rule = "05" /\ g.on = x.on
      BY <1>2, <2>2, Advanced
    <3> QED BY <1>0, <1>2, <1>4, <2>1, <3>1, UnjudgedStays
  <2>3. CASE w = "marked"
    <3>1. f.rule = "05" => loop[f.on].passed = "none" /\ f.on \in Loops
      <4> SUFFICES ASSUME f.rule = "05" PROVE loop[f.on].passed = "none" /\ f.on \in Loops
        OBVIOUS
      <4>1. Waiting(f)
        BY <1>1, <1>2, <1>3, NextStep DEF Waiting, Pending, Moot, Cleaning, Surrender
      <4>2. f.on \in Places(w, "trigger")
        BY <1>0, <2>3, <4>1, WaitingPlace, Origins
      <4> QED BY <1>0, <4>2, At DEF Unjudged
    <3>2. \A x \in Places(w, "carrier")' : x = Rested(f) \/ x \in Places(w, "carrier")
      BY <1>2, CarriersAfter
    <3>3. Rested(f).rule = f.rule /\ Rested(f).on = f.on
      BY <1>2, CarriersAfter
    <3>4. \A x \in Places(w, "carrier") : x.rule = "05" => loop'[x.on].passed = "none"
      <4> SUFFICES ASSUME NEW x \in Places(w, "carrier"), x.rule = "05"
                   PROVE  loop'[x.on].passed = "none"
        OBVIOUS
      <4>1. x.on \in Loops
        BY <1>3, At, FiringFacts DEF LoopRules
      <4> QED BY <1>0, <1>4, <4>1 DEF Unjudged
    <3>5. \A x \in Places(w, "carrier")' : x.rule = "05" => loop'[x.on].passed = "none"
      BY <1>4, <3>1, <3>2, <3>3, <3>4
    <3>6. /\ \A l \in Places(w, "trigger")' : loop'[l].passed = "none"
          /\ queue'["floors"] # <<>> => loop'[Head(queue'["floors"])].passed = "none"
          /\ job'["floors"].pc # "idle" => loop'[job'["floors"].on].passed = "none"
      <4>1. \A l \in Places(w, "trigger")' : loop'[l].passed = "none"
        BY <1>0, <1>4, <2>1, AtNext DEF Unjudged
      <4>2. "floors" \in Stations
        BY DEF Stations
      <4>3. queue["floors"] # <<>> => Head(queue["floors"]) \in Loops
        <5> SUFFICES ASSUME queue["floors"] # <<>> PROVE Head(queue["floors"]) \in Loops
          OBVIOUS
        <5>1. queue["floors"] \in Seq(Finished)
          BY <4>2, ShapeParts DEF Addressed, Concern
        <5>2. Head(queue["floors"]) \in Finished
          BY <5>1
        <5> QED BY <5>2 DEF Finished
      <4>4. job["floors"].pc # "idle" => job["floors"].on \in Loops
        BY <4>2, ShapeParts DEF Addressed, Concern, Finished
      <4> QED BY <1>0, <1>2, <1>4, <4>1, <4>3, <4>4 DEF Unjudged
    <3> QED BY <3>5, <3>6 DEF Unjudged
  <2> QED BY <2>2, <2>3
<1>9. ASSUME w = "marked" PROVE Remembered'
  <2>1. \A x \in firing' : (x \in firing /\ x # f) \/ (x = Rested(f) /\ Len(f.todo) > 1)
    BY <1>2, Advanced
  <2>2. \A x \in firing' : (x \in firing /\ x # f) \/ ~Pending(x)
    <3>1. f.rule \in Surrender \cup Cleaning => ~(Len(f.todo) > 1)
      BY <1>1, <1>2, <1>3, NextStep, Tuples
    <3>2. f.rule \notin Surrender \cup Cleaning => f.todo = Does(f.rule)
      BY <1>1, <1>2, <1>3, NextStep
    <3>3. Rested(f).rule = f.rule /\ Rested(f).todo # f.todo
      BY <1>2, <1>3, AdvanceFacts
    <3> QED BY <2>1, <3>1, <3>2, <3>3 DEF Pending
  <2>3. ASSUME NEW x \in firing', Waiting(x)' PROVE <<x.rule, x.on>> \in matched'
    <3>1. x \in firing /\ x # f /\ Waiting(x)
      BY <1>4, <2>2, <2>3 DEF Waiting, Pending, Moot
    <3>2. <<x.rule, x.on>> \in matched /\ <<x.rule, x.on>> \in RuleOn /\ When(x.rule, x.on)
      BY <1>0, <1>3, <1>9, <3>1, WaitingPlace, FiringFacts DEF Remembered
    <3>3. ~Waiting(f)
      BY <1>0, <1>9, <3>1, OneWaiting
    <3>4. Pending(f)
      BY <1>1, <1>2, <1>3, NextStep DEF Pending
    <3>5. ~(x.on = e /\ m = Guard(x.rule))
      <4>1. CASE f.rule \in Cleaning
        <5>1. m = "unclean"
          BY <1>1, <1>2, <1>3, <4>1, NextStep, Table, Tuples
        <5>2. Guard(x.rule) # "unclean"
          BY <3>1 DEF Waiting, Guard
        <5> QED BY <5>1, <5>2
      <4>2. CASE Moot(f)
        <5>1. m = "park-routed" /\ e = Run
          BY <1>1, <1>2, <1>3, <4>2, NextStep, Tuples, FiringFacts DEF Moot, Surrender, RunRules
        <5>2. Guard(x.rule) = "park-routed" => x.rule \in Surrender
          BY DEF Guard
        <5>3. x.rule # "failed-run"
          BY <3>1, <4>2 DEF Waiting, Moot
        <5>4. x.rule = "failed-loop" => x.on # Run
          <6>1. x.rule = "failed-loop" => x.on \in Loops
            BY <1>3, <3>1, FiringFacts DEF LoopRules
          <6>2. Run \notin Loops
            BY LoopAssumption DEF Loops, Run
          <6> QED BY <6>1, <6>2
        <5> QED BY <5>1, <5>2, <5>3, <5>4 DEF Surrender
      <4> QED BY <3>3, <3>4, <4>1, <4>2 DEF Waiting
    <3>6. When(x.rule, x.on)'
      BY <1>2, <1>3, <3>1, <3>2, <3>5, MarkWhen DEF Waiting
    <3> QED BY <1>2, <3>2, <3>6, Remains DEF EngineFrame
  <2>4. \A x, y \in firing' : Pending(x) /\ Pending(y) /\ x.rule = y.rule /\ x.on = y.on => x = y
    BY <1>0, <1>9, <2>2 DEF Remembered
  <2> QED BY <2>3, <2>4 DEF Remembered, Pending
<1> QED BY <1>5, <1>6, <1>7, <1>8, <1>9 DEF Relay

LEMMA LedgerRelay ==
  ASSUME Shape, NEW w \in Worlds, Relay(w), NEW f \in firing, AddToRun(f)
  PROVE  Relay(w)'
<1>0. Baton(w) /\ Short /\ Unjudged(w) /\ Judged /\ (w = "marked" => Remembered)
  BY RelayParts
<1>1. /\ Advance(f) /\ RuleState /\ UNCHANGED <<loop, queue, job>>
      /\ UNCHANGED <<run.verdict, run.verify, run.marks, run.pr>>
      /\ \/ Head(f.todo) \in {"attempt", "transient"} /\ run'.parked = run.parked
         \/ Head(f.todo) = "park" /\ run'.parked = TRUE
  BY ShapeParts, AddToRunEffect
<1>2. Typed /\ EngineFrame /\ <<f.rule, f.on>> \in RuleOn
  BY <1>1, ShapeParts, FiringFacts DEF EngineFrame
<1>3. Baton(w)'
  BY <1>0, LedgerBaton
<1>4. Short'
  BY <1>0, <1>1, ShortStays
<1>5. \A x \in firing' : \E g \in firing : g.rule = x.rule /\ g.on = x.on
  BY <1>1, Advanced
<1>6. Judged'
  BY <1>0, <1>1, <1>5, JudgedStays DEF Unclean, Has
<1>7. Unjudged(w)'
  <2>1. Places(w, "trigger")' \subseteq Places(w, "trigger")
    BY <1>1, <1>2, AllLoops DEF LoopKinds
  <2>2. \A x \in Places(w, "carrier")' : x.rule = "05" =>
          \E g \in Places(w, "carrier") : g.rule = "05" /\ g.on = x.on
    <3>1. CASE f.rule \notin Surrender
      <4>1. f.todo # Does(f.rule)
        BY <1>1, <1>2, <3>1, NextStep
      <4> QED BY <1>1, <3>1, <4>1, Advanced
    <3>2. CASE f.rule \in Surrender
      <4>1. Rested(f).rule # "05"
        BY <1>1, <3>2, CarriersAfter DEF Surrender
      <4> QED BY <1>1, <4>1, CarriersAfter
    <3> QED BY <3>1, <3>2
  <2> QED BY <1>0, <1>1, <2>1, <2>2, UnjudgedStays
<1>8. ASSUME w = "marked" PROVE Remembered'
  <2>0. Rested(f).rule = f.rule /\ Rested(f).on = f.on
    BY <1>1, CarriersAfter
  <2>1. \A x \in firing' : (x \in firing /\ x # f) \/ (x = Rested(f) /\ Len(f.todo) > 1)
    BY <1>1, Advanced
  <2>2. \A x \in firing' : Pending(x) => (x \in firing /\ x # f) \/ (x = Rested(f) /\ Pending(f))
    <3>1. CASE f.rule \in Surrender
      BY <2>1, <3>1 DEF Pending
    <3>2. CASE f.rule \notin Surrender
      <4>1. f.todo # Does(f.rule)
        BY <1>1, <1>2, <3>2, NextStep
      <4>2. Len(f.todo) > 1 => Tail(f.todo) # Does(f.rule)
        BY <1>2, FiringFacts, TailLeft
      <4>3. Rested(f).todo = Tail(f.todo)
        BY <1>1, <1>2, AdvanceFacts
      <4> QED BY <2>0, <2>1, <3>2, <4>2, <4>3 DEF Pending
    <3> QED BY <3>1, <3>2
  <2>3. ASSUME NEW x \in firing', Waiting(x)' PROVE <<x.rule, x.on>> \in matched'
    <3>1. PICK g \in firing : g.rule = x.rule /\ g.on = x.on /\ Pending(g)
      BY <2>0, <2>2, <2>3 DEF Waiting, Pending
    <3>2. x.rule \notin Cleaning /\ ~(x.rule = "failed-run" /\ run'.parked)
      BY <2>3 DEF Waiting, Moot
    <3>3. run.parked => run'.parked
      BY <1>1
    <3>4. Waiting(g)
      BY <3>1, <3>2, <3>3 DEF Waiting, Moot
    <3>5. <<x.rule, x.on>> \in matched /\ When(x.rule, x.on)
      BY <1>0, <1>8, <3>1, <3>4, WaitingPlace DEF Remembered
    <3>6. /\ x.rule \in LoopRules \cup RunRules
          /\ x.rule \in LoopRules => x.on \in Loops
          /\ x.rule \in RunRules => x.on = Run
      BY <1>2, <3>1, FiringFacts
    <3>7. When(x.rule, x.on)'
      <4>1. CASE x.rule \in LoopRules
        BY <1>1, <3>5, <3>6, <4>1, SameWhen DEF SameLoop
      <4>2. CASE x.rule \in Closing
        <5>1. x.on = Run
          BY <3>6, <4>2, RuleGroups
        <5> QED BY <1>1, <3>5, <4>2, <5>1, WhenRun DEF Closing, DeliverRun, ParkRun
      <4>3. CASE x.rule = "failed-run"
        <5>1. x.on = Run
          BY <3>6, <4>3, RuleGroups
        <5> QED BY <1>1, <3>2, <3>5, <4>3, <5>1, WhenRun DEF StationFailedRun
      <4> QED BY <3>6, <4>1, <4>2, <4>3, RuleGroups
    <3> QED BY <1>2, <3>5, <3>7, Remains
  <2>4. \A x, y \in firing' : Pending(x) /\ Pending(y) /\ x.rule = y.rule /\ x.on = y.on => x = y
    BY <1>0, <1>8, <2>0, <2>2 DEF Remembered
  <2> QED BY <2>3, <2>4 DEF Remembered, Pending
<1> QED BY <1>3, <1>4, <1>6, <1>7, <1>8 DEF Relay

LEMMA SpawnRelay ==
  ASSUME Shape, NEW w \in Worlds, Relay(w), NEW f \in firing, SpawnLoop(f)
  PROVE  Relay(w)'
<1>0. Baton(w) /\ Short /\ Unjudged(w) /\ Judged /\ (w = "marked" => Remembered) /\ Typed
  BY RelayParts, ShapeParts
<1>1. /\ Advance(f) /\ RuleState /\ UNCHANGED <<run, queue, job>> /\ Head(f.todo) \in Roles
  BY <1>0, SpawnEffect
<1>2. PICK l \in Loops :
        /\ OnlyLoop(l) /\ loop[l].pc = "unborn"
        /\ loop'[l].passed = "none" /\ ~loop'[l].rejected /\ loop'[l].marks = {}
  BY <1>0, SpawnEffect
<1>3. Baton(w)' /\ f \in Places(w, "carrier")
      /\ \A i \in Kinds : \A x \in Places(w, i)' : i = "live"
  BY <1>0, SpawnBaton
<1>4. Short'
  BY <1>0, <1>1, ShortStays
<1>5. Judged'
  <2>1. ~Unclean(l)
    BY <1>2, ShapeParts DEF Unclean, LoopShape
  <2>2. \A k \in Loops : Unclean(k) => Unclean(k)'
    BY <1>2, <2>1 DEF Unclean, OnlyLoop
  <2>3. \A k \in Loops : Has(k, "unclean")' => Has(k, "unclean")
    BY <1>2 DEF Has, OnlyLoop
  <2>4. \A x \in firing' : \E g \in firing : g.rule = x.rule /\ g.on = x.on
    BY <1>1, Advanced
  <2> QED BY <1>0, <2>2, <2>3, <2>4, JudgedStays
<1>6. Unjudged(w)'
  <2>1. \A x : x \notin Places(w, "trigger")' /\ x \notin Places(w, "carrier")'
               /\ x \notin Places(w, "queue")' /\ x \notin Places(w, "job")'
    BY <1>3 DEF Kinds
  <2>2. queue'["floors"] = <<>> /\ job'["floors"].pc = "idle"
    BY <2>1, AtNext DEF Stations
  <2> QED BY <2>1, <2>2 DEF Unjudged
<1>7. ASSUME w = "marked" PROVE Remembered'
  <2>1. \A g \in firing : ~Waiting(g)
    BY <1>0, <1>3, <1>7, NoneWaiting
  <2>2. firing' \subseteq firing
    BY <1>0, <1>1, Advanced, NextStep
  <2> QED BY <1>0, <1>1, <1>7, <2>1, <2>2, RememberedIdle
<1> QED BY <1>3, <1>4, <1>5, <1>6, <1>7 DEF Relay

LEMMA AppendOne ==
  (\A x : Append(<<>>, x) = <<x>>) /\ Len(<<>>) = 0
  OBVIOUS

LEMMA PublishRelay ==
  ASSUME Shape, NEW w \in Worlds, Relay(w), NEW f \in firing, PublishDispatch(f)
  PROVE  Relay(w)'
<1>0. /\ Baton(w) /\ Short /\ Unjudged(w) /\ Judged /\ (w = "marked" => Remembered) /\ Typed
      /\ "carrier" \in Kinds /\ "queue" \in Kinds
  BY RelayParts, ShapeParts DEF Kinds
<1>1. /\ Advance(f) /\ UNCHANGED <<run, loop, matched, job>> /\ Head(f.todo) \in Stations
      /\ \A s \in Stations : s # Head(f.todo) => queue'[s] = queue[s]
      /\ queue'[Head(f.todo)] = Append(queue[Head(f.todo)], f.on)
  BY <1>0, PublishEffect
<1>2. /\ Baton(w)' /\ f \in Places(w, "carrier")
      /\ \A i \in Kinds : \A x \in Places(w, i)' : i = "queue" /\ x = Head(f.todo)
  BY <1>0, PublishBaton
<1>3. \A s \in Stations : queue[s] = <<>>
  <2>1. \A x : x \notin Places(w, "queue")
    BY <1>0, <1>2, Alone
  <2> QED BY <2>1, At
<1>4. queue'[Head(f.todo)] = <<f.on>>
  BY <1>1, <1>3, AppendOne
<1>5. Short'
  <2>1. \A s \in Stations : queue'[s] = <<>> \/ queue'[s] = <<f.on>>
    BY <1>1, <1>3, <1>4
  <2>2. Len(<<f.on>>) = 1 /\ Len(<<>>) = 0
    BY Tuples, AppendOne
  <2>3. \A s \in Stations : Len(queue'[s]) = 0 \/ Len(queue'[s]) = 1
    BY <2>1, <2>2
  <2>4. \A n : n = 0 \/ n = 1 => n <= 1
    OBVIOUS
  <2> QED BY <2>3, <2>4 DEF Short
<1>6. Judged'
  <2>1. \A x \in firing' : \E g \in firing : g.rule = x.rule /\ g.on = x.on
    BY <1>1, Advanced
  <2> QED BY <1>0, <1>1, <2>1, JudgedStays DEF Unclean, Has
<1>7. Unjudged(w)'
  <2>1. \A x : x \notin Places(w, "trigger")' /\ x \notin Places(w, "carrier")'
               /\ x \notin Places(w, "job")'
    BY <1>2 DEF Kinds
  <2>2. job'["floors"].pc = "idle"
    BY <2>1, AtNext DEF Stations
  <2>3. queue'["floors"] # <<>> => loop'[Head(queue'["floors"])].passed = "none"
    <3> SUFFICES ASSUME queue'["floors"] # <<>> PROVE loop'[Head(queue'["floors"])].passed = "none"
      OBVIOUS
    <3>1. Head(f.todo) = "floors"
      BY <1>1, <1>3 DEF Stations
    <3>2. f.rule = "05"
      BY <1>0, <1>1, <3>1, NextStep
    <3>3. Head(queue'["floors"]) = f.on
      BY <1>4, <3>1, Tuples
    <3> QED BY <1>0, <1>1, <1>2, <3>2, <3>3 DEF Unjudged
  <2> QED BY <2>1, <2>2, <2>3 DEF Unjudged
<1>8. ASSUME w = "marked" PROVE Remembered'
  <2>1. firing' \subseteq firing
    BY <1>0, <1>1, Advanced, NextStep
  <2> QED BY <1>0, <1>1, <1>8, <2>1, RememberedKept
<1> QED BY <1>2, <1>5, <1>6, <1>7, <1>8 DEF Relay

LEMMA LoseRelay ==
  ASSUME Shape, Relay("remembered"), NEW f \in firing, LoseAction(f)
  PROVE  Relay("remembered")'
<1>0. Baton("remembered") /\ Short /\ Unjudged("remembered") /\ Judged /\ "remembered" \in Worlds
  BY RelayParts DEF Worlds
<1>1. Advance(f) /\ UNCHANGED <<run, loop, matched, queue, job>>
  BY DEF LoseAction
<1>2. Baton("remembered")'
  BY <1>0, LoseBaton
<1>3. Short'
  BY <1>0, <1>1, ShortStays
<1>4. Judged'
  <2>1. \A x \in firing' : \E g \in firing : g.rule = x.rule /\ g.on = x.on
    BY <1>0, <1>1, Advanced
  <2> QED BY <1>0, <1>1, <2>1, JudgedStays DEF Unclean, Has
<1>5. Unjudged("remembered")'
  <2>1. Places("remembered", "trigger")' \subseteq Places("remembered", "trigger")
    BY <1>1, FactsFrame DEF LoopKinds
  <2>2. \A x \in Places("remembered", "carrier")' : x.rule = "05" =>
          \E g \in Places("remembered", "carrier") : g.rule = "05" /\ g.on = x.on
    BY <1>0, <1>1, Advanced
  <2> QED BY <1>0, <1>1, <2>1, <2>2, UnjudgedStays
<1> QED BY <1>2, <1>3, <1>4, <1>5 DEF Relay

LEMMA PatchRelay ==
  ASSUME Shape, NEW w \in Worlds, Relay(w), NEW l \in Loops, Patching(l)
  PROVE  Relay(w)'
<1>0. Baton(w) /\ Short /\ Unjudged(w) /\ Judged /\ (w = "marked" => Remembered) /\ Typed
      /\ LoopShape(l)
  BY RelayParts, ShapeParts
<1>1. OnlyLoop(l) /\ SameLoop(l) /\ SameRun /\ UNCHANGED <<firing, matched, queue, job>>
  BY <1>0, PatchingEffect
<1>2. Baton(w)' /\ \A k \in Kinds : Places(w, k)' \subseteq Places(w, k)
  BY <1>0, PatchBaton
<1>3. \A k \in Loops : UNCHANGED <<loop[k].passed, loop[k].rejected, loop[k].marks>>
  BY <1>1 DEF OnlyLoop, SameLoop
<1>4. Short'
  BY <1>0, <1>1, ShortStays
<1>5. Judged'
  BY <1>0, <1>1, <1>3, JudgedStays DEF Unclean, Has
<1>6. Unjudged(w)'
  BY <1>0, <1>1, <1>2, <1>3, UnjudgedStays DEF Kinds
<1>7. ASSUME w = "marked" PROVE Remembered'
  BY <1>0, <1>1, <1>7, RememberedKept DEF SameRun
<1> QED BY <1>2, <1>4, <1>5, <1>6, <1>7 DEF Relay

LEMMA SubmitRelay ==
  ASSUME Shape, NEW w \in Worlds, Relay(w), NEW l \in Loops, NEW b \in BOOLEAN, SubmitReview(l, b)
  PROVE  Relay(w)'
<1>0. Baton(w) /\ Short /\ Unjudged(w) /\ Judged /\ (w = "marked" => Remembered) /\ Typed
  BY RelayParts, ShapeParts
<1>1. /\ OnlyLoop(l) /\ SameLoop(l) /\ UNCHANGED <<firing, queue, job>>
      /\ run'.parked = run.parked
  BY <1>0, SubmitEffect
<1>2. Baton(w)' /\ (\A k \in Kinds : Places(w, k)' \subseteq Places(w, k)) /\ l \in Places(w, "live")
  BY <1>0, SubmitBaton, At
<1>3. \A k \in Loops : UNCHANGED <<loop[k].passed, loop[k].rejected, loop[k].marks>>
  BY <1>1 DEF OnlyLoop, SameLoop
<1>4. Short'
  BY <1>0, <1>1, ShortStays
<1>5. Judged'
  BY <1>0, <1>1, <1>3, JudgedStays DEF Unclean, Has
<1>6. Unjudged(w)'
  BY <1>0, <1>1, <1>2, <1>3, UnjudgedStays DEF Kinds
<1>7. ASSUME w = "marked" PROVE Remembered'
  BY <1>0, <1>1, <1>2, <1>7, NoneWaiting, RememberedIdle
<1> QED BY <1>2, <1>4, <1>5, <1>6, <1>7 DEF Relay

LEMMA MirrorRelay ==
  ASSUME Shape, NEW w \in Worlds, Relay(w), NEW l \in Loops, MirrorVerdict(l)
  PROVE  Relay(w)'
<1>0. Baton(w) /\ Short /\ Unjudged(w) /\ Judged /\ (w = "marked" => Remembered) /\ Typed
  BY RelayParts, ShapeParts
<1>1. /\ OnlyLoop(l) /\ UNCHANGED <<run, firing, queue, job>>
      /\ UNCHANGED <<loop[l].passed, loop[l].rejected, loop[l].marks>>
  BY <1>0, MirrorEffect
<1>2. /\ Baton(w)' /\ l \in Places(w, "live")
      /\ \A i \in Kinds : \A x \in Places(w, i)' : i \in {"live", "review"}
  BY <1>0, MirrorBaton, At
<1>3. \A k \in Loops : UNCHANGED <<loop[k].passed, loop[k].rejected, loop[k].marks>>
  BY <1>1 DEF OnlyLoop
<1>4. Short'
  BY <1>0, <1>1, ShortStays
<1>5. Judged'
  BY <1>0, <1>1, <1>3, JudgedStays DEF Unclean, Has
<1>6. Unjudged(w)'
  <2>1. \A x : x \notin Places(w, "trigger")' /\ x \notin Places(w, "carrier")'
    BY <1>2 DEF Kinds
  <2> QED BY <1>0, <1>1, <1>3, <2>1, UnjudgedStays
<1>7. ASSUME w = "marked" PROVE Remembered'
  BY <1>0, <1>1, <1>2, <1>7, NoneWaiting, RememberedIdle
<1> QED BY <1>2, <1>4, <1>5, <1>6, <1>7 DEF Relay

LEMMA EndRelay ==
  ASSUME Shape, NEW w \in Worlds, Relay(w), NEW l \in Loops, NEW t \in BOOLEAN, EndLoop(l, t)
  PROVE  Relay(w)'
<1>0. Baton(w) /\ Short /\ Unjudged(w) /\ Judged /\ (w = "marked" => Remembered) /\ Typed
      /\ LoopShape(l)
  BY RelayParts, ShapeParts
<1>1. /\ OnlyLoop(l) /\ UNCHANGED <<run, firing, queue, job>> /\ RuleState
      /\ loop[l].pc \in {"working", "mirrored"} /\ loop'[l].pc = "ended"
      /\ UNCHANGED <<loop[l].role, loop[l].passed, loop[l].rejected, loop[l].marks,
                     loop[l].verdict, loop[l].attempts>>
  BY <1>0, EndEffect
<1>2. /\ Baton(w)'
      /\ loop[l].pc = "working" => \A i \in Kinds : \A x \in Places(w, i)' :
           x = l /\ i = IF loop[l].role = "developer" THEN "trigger" ELSE "review"
      /\ loop[l].pc = "mirrored" => \A i \in Kinds : Places(w, i)' \subseteq Places(w, i)
  BY <1>0, EndBaton
<1>3. /\ \A k \in Loops : UNCHANGED <<loop[k].passed, loop[k].rejected, loop[k].marks>>
      /\ loop[l].passed = "none" /\ ~loop[l].rejected
  BY <1>0, <1>1 DEF OnlyLoop, LoopShape
<1>4. Short'
  BY <1>0, <1>1, ShortStays
<1>5. Judged'
  BY <1>0, <1>1, <1>3, JudgedStays DEF Unclean, Has
<1>6. Unjudged(w)'
  <2>1. CASE loop[l].pc = "mirrored"
    BY <1>0, <1>1, <1>2, <1>3, <2>1, UnjudgedStays DEF Kinds
  <2>2. CASE loop[l].pc = "working"
    <3>1. /\ \A x : x \notin Places(w, "carrier")' /\ x \notin Places(w, "queue")'
                    /\ x \notin Places(w, "job")'
          /\ \A x \in Places(w, "trigger")' : x = l
      BY <1>2, <2>2 DEF Kinds
    <3>2. queue'["floors"] = <<>> /\ job'["floors"].pc = "idle"
      BY <3>1, AtNext DEF Stations
    <3> QED BY <1>1, <1>3, <3>1, <3>2 DEF Unjudged
  <2> QED BY <1>1, <2>1, <2>2
<1>7. ASSUME w = "marked" PROVE Remembered'
  <2>1. CASE loop[l].pc = "working"
    <3>1. l \in Places(w, "live")
      BY <2>1, At DEF Live
    <3> QED BY <1>0, <1>1, <1>7, <3>1, NoneWaiting, RememberedIdle
  <2>2. CASE loop[l].pc = "mirrored"
    <3>1. loop[l].role = "reviewer" /\ loop[l].verdict # "none" /\ ~Has(l, "unclean")
      BY <1>0, <1>3, <2>2 DEF LoopShape, Judged, Unclean
    <3>2. ASSUME NEW r \in LoopRules \ Cleaning, When(r, l) PROVE When(r, l)'
      <4>1. r \notin {"04", "05"}
        BY <3>1, <3>2, WhenLoop DEF Dispatch, FloorsTrigger
      <4>2. r \notin Routing
        BY <1>3, <3>1, <3>2, WhenLoop DEF Routing, RouteAdvance, RouteRetry, RouteEscalate,
           RouteTransientRetry, RouteTransientPark, Unrouted
      <4>3. CASE r \in Reviewing
        BY <1>1, <3>1, <3>2, <4>3, WhenLoop, WhenLoopNext
           DEF Reviewing, ReviewApproved, ReviewRetry, ReviewPark, ReviewNoVerdict, Has
      <4>4. CASE r = "failed-loop"
        BY <1>1, <3>2, <4>4, WhenLoop, WhenLoopNext DEF StationFailedLoop, Has
      <4> QED BY <3>2, <4>1, <4>2, <4>3, <4>4, RuleGroups
    <3>3. ASSUME NEW g \in firing, Waiting(g) PROVE <<g.rule, g.on>> \in matched'
      <4>1. /\ <<g.rule, g.on>> \in matched /\ When(g.rule, g.on)
            /\ g.rule \in LoopRules \cup RunRules /\ g.rule \notin Cleaning
            /\ g.rule \in LoopRules => g.on \in Loops
            /\ g.rule \in RunRules => g.on = Run
        BY <1>0, <1>7, <3>3, WaitingPlace, FiringFacts DEF Remembered, Waiting
      <4>2. When(g.rule, g.on)'
        <5>1. CASE g.rule \in LoopRules /\ g.on = l
          BY <3>2, <4>1, <5>1
        <5>2. CASE g.rule \in LoopRules /\ g.on # l
          <6>1. SameLoop(g.on)
            BY <1>1, <4>1, <5>2 DEF OnlyLoop, SameLoop
          <6> QED BY <4>1, <5>2, <6>1, SameWhen
        <5>3. CASE g.rule \in RunRules
          BY <1>1, <4>1, <5>3, SameWhenRun DEF SameRun
        <5> QED BY <4>1, <5>1, <5>2, <5>3
      <4> QED BY <1>1, <4>1, <4>2, Remains DEF EngineFrame
    <3> QED BY <1>0, <1>1, <1>7, <3>3 DEF Remembered, Waiting, Pending, Moot
  <2> QED BY <1>1, <2>1, <2>2
<1> QED BY <1>2, <1>4, <1>5, <1>6, <1>7 DEF Relay

LEMMA TakeRelay ==
  ASSUME Shape, NEW w \in Worlds, Relay(w), NEW s \in Stations, Take(s)
  PROVE  Relay(w)'
<1>0. Baton(w) /\ Short /\ Unjudged(w) /\ Judged /\ (w = "marked" => Remembered) /\ Typed
  BY RelayParts, ShapeParts
<1>1. /\ UNCHANGED <<run, loop, firing, matched>>
      /\ queue[s] # <<>> /\ job'[s].on = Head(queue[s]) /\ OnlyJob(s)
      /\ \A u \in Stations : u # s => queue'[u] = queue[u]
  BY <1>0, TakeEffect
<1>2. /\ Baton(w)' /\ queue'[s] = <<>>
      /\ \A i \in Kinds : \A x \in Places(w, i)' : i = "job" /\ x = s
  BY <1>0, TakeBaton
<1>4. Short'
  BY <1>0, <1>1, <1>2, ShortStays
<1>5. Judged'
  BY <1>0, <1>1, JudgedStays DEF Unclean, Has
<1>6. Unjudged(w)'
  <2>1. \A x : x \notin Places(w, "carrier")' /\ x \notin Places(w, "trigger")'
               /\ x \notin Places(w, "queue")'
    BY <1>2 DEF Kinds
  <2>2. queue'["floors"] = <<>>
    BY <2>1, AtNext DEF Stations
  <2>3. job'["floors"].pc # "idle" => s = "floors"
    <3>1. job'["floors"].pc # "idle" => "floors" \in Places(w, "job")'
      BY AtNext DEF Stations
    <3> QED BY <1>2, <3>1 DEF Kinds
  <2> QED BY <1>0, <1>1, <2>1, <2>2, <2>3 DEF Unjudged
<1>7. ASSUME w = "marked" PROVE Remembered'
  BY <1>0, <1>1, <1>7, RememberedKept
<1> QED BY <1>2, <1>4, <1>5, <1>6, <1>7 DEF Relay

LEMMA StampFailedRelay ==
  ASSUME Shape, NEW w \in Worlds, Relay(w), NEW s \in Stations, StampDispatchFailed(s)
  PROVE  Relay(w)'
<1>0. Baton(w) /\ Short /\ Unjudged(w) /\ Judged /\ (w = "marked" => Remembered) /\ Typed
  BY RelayParts, ShapeParts
<1>1. PICK e : e = job[s].on
  OBVIOUS
<1>2. /\ AddsMark(e, "failed") /\ e \in Loops \cup {Run}
      /\ PutsDown(s) /\ UNCHANGED <<firing, queue>>
  BY <1>0, <1>1, StampFailedEffect
<1>3. /\ run'.parked = run.parked
      /\ \A k \in Loops : /\ UNCHANGED <<loop[k].passed, loop[k].rejected>>
                          /\ k # e => loop'[k] = loop[k]
      /\ e # Run => loop'[e].marks = loop[e].marks \cup {"failed"}
      /\ e = Run => loop' = loop
  BY <1>0, <1>2, MarkEffect
<1>4. /\ Baton(w)' /\ s \in Places(w, "job")
      /\ \A i \in Kinds : \A x \in Places(w, i)' : i \in {"failed", "failed-run"}
  BY <1>0, StampFailedBaton
<1>5. Short'
  BY <1>0, <1>2, ShortStays
<1>6. Judged'
  <2>1. \A l \in Loops : Has(l, "unclean")' => Has(l, "unclean")
    BY <1>3 DEF Has
  <2> QED BY <1>0, <1>2, <1>3, <2>1, JudgedStays DEF Unclean
<1>7. Unjudged(w)'
  <2>1. \A x : x \notin Places(w, "carrier")' /\ x \notin Places(w, "trigger")'
               /\ x \notin Places(w, "queue")' /\ x \notin Places(w, "job")'
    BY <1>4 DEF Kinds
  <2>2. queue'["floors"] = <<>> /\ job'["floors"].pc = "idle"
    BY <2>1, AtNext DEF Stations
  <2> QED BY <2>1, <2>2 DEF Unjudged
<1>8. ASSUME w = "marked" PROVE Remembered'
  BY <1>0, <1>2, <1>3, <1>4, <1>8, NoneWaiting, RememberedIdle
<1> QED BY <1>4, <1>5, <1>6, <1>7, <1>8 DEF Relay

LEMMA HandlingRelay ==
  ASSUME Shape, NEW w \in Worlds, Relay(w), NEW s \in Stations, Handling(s)
  PROVE  Relay(w)'
<1>0. Baton(w) /\ Short /\ Unjudged(w) /\ Judged /\ (w = "marked" => Remembered) /\ Typed
  BY RelayParts, ShapeParts
<1>1. /\ job[s].pc # "idle" /\ (Holds(s) \/ PutsDown(s))
      /\ UNCHANGED <<loop, firing, queue>> /\ run'.parked = run.parked
  BY <1>0, HandlingEffect
<1>2. /\ Baton(w)' /\ s \in Places(w, "job")
      /\ \A i \in Kinds : Places(w, i)' \subseteq Places(w, i)
  BY <1>0, HandlingBaton
<1>3. Short'
  BY <1>0, <1>1, ShortStays
<1>4. Judged'
  BY <1>0, <1>1, JudgedStays DEF Unclean, Has
<1>5. job'["floors"].pc # "idle" => job["floors"].pc # "idle" /\ job'["floors"].on = job["floors"].on
  BY <1>1 DEF Holds, PutsDown, OnlyJob, NoJob, Stations
<1>6. Unjudged(w)'
  BY <1>0, <1>1, <1>2, <1>5, UnjudgedStays DEF Kinds
<1>7. ASSUME w = "marked" PROVE Remembered'
  BY <1>0, <1>1, <1>2, <1>7, NoneWaiting, RememberedIdle
<1> QED BY <1>2, <1>3, <1>4, <1>6, <1>7 DEF Relay

LEMMA FloorsRelay ==
  ASSUME Shape, NEW w \in Worlds, Relay(w), NEW b \in BOOLEAN, RunFloors(b)
  PROVE  Relay(w)'
<1>0. Baton(w) /\ Short /\ Unjudged(w) /\ Judged /\ (w = "marked" => Remembered) /\ Typed
  BY RelayParts, ShapeParts
<1>1. /\ Baton(w)' /\ "floors" \in Places(w, "job") /\ job["floors"].on \in Finished
      /\ \A i \in Kinds : \A x \in Places(w, i)' :
           \/ i = "route" /\ x = job["floors"].on
           \/ loop' = loop /\ i = "job" /\ x = "floors"
  BY <1>0, FloorsBaton
<1>2. PICK l \in Loops : l = job["floors"].on
  BY <1>1 DEF Finished
<1>3. /\ job["floors"].pc = "start" /\ UNCHANGED <<run, firing, queue>>
      /\ \/ OnlyLoop(l) /\ PutsDown("floors") /\ loop'[l].marks = loop[l].marks
         \/ loop' = loop /\ Holds("floors")
  BY <1>0, <1>2, FloorsEffect
<1>4. Short'
  BY <1>0, <1>3, ShortStays
<1>5. ~Unclean(l)
  BY <1>0, <1>2, <1>3, ShapeParts DEF Unjudged, Unclean, LoopShape
<1>6. Judged'
  <2>1. \A k \in Loops : Unclean(k) => Unclean(k)'
    BY <1>3, <1>5 DEF Unclean, OnlyLoop
  <2>2. \A k \in Loops : Has(k, "unclean")' => Has(k, "unclean")
    BY <1>3 DEF Has, OnlyLoop
  <2> QED BY <1>0, <1>3, <2>1, <2>2, JudgedStays
<1>7. Unjudged(w)'
  <2>1. \A x : x \notin Places(w, "carrier")' /\ x \notin Places(w, "trigger")'
               /\ x \notin Places(w, "queue")'
    BY <1>1 DEF Kinds
  <2>2. queue'["floors"] = <<>>
    BY <2>1, AtNext DEF Stations
  <2>3. CASE PutsDown("floors")
    BY <2>1, <2>2, <2>3 DEF Unjudged, PutsDown, NoJob
  <2>4. CASE loop' = loop /\ Holds("floors")
    BY <1>0, <1>3, <2>1, <2>2, <2>4 DEF Unjudged, Holds
  <2> QED BY <1>3, <2>3, <2>4
<1>8. ASSUME w = "marked" PROVE Remembered'
  BY <1>0, <1>1, <1>3, <1>8, NoneWaiting, RememberedIdle
<1> QED BY <1>1, <1>4, <1>6, <1>7, <1>8 DEF Relay

LEMMA DecideRelay ==
  ASSUME Shape, NEW w \in Worlds, Relay(w), NEW o \in {"pass", "fail"}, StampVerify(o)
  PROVE  Relay(w)'
<1>0. Baton(w) /\ Short /\ Unjudged(w) /\ Judged /\ (w = "marked" => Remembered) /\ Typed
  BY RelayParts, ShapeParts
<1>1. UNCHANGED <<loop, firing, queue>> /\ run'.parked = run.parked
  BY <1>0, DecideEffect
<1>2. /\ Baton(w)' /\ "verify" \in Places(w, "job")
      /\ \A i \in Kinds : \A x \in Places(w, i)' : i = "verdict"
  BY <1>0, DecideBaton
<1>3. Short'
  BY <1>0, <1>1, ShortStays
<1>4. Judged'
  BY <1>0, <1>1, JudgedStays DEF Unclean, Has
<1>5. Unjudged(w)'
  <2>1. \A x : x \notin Places(w, "carrier")' /\ x \notin Places(w, "trigger")'
               /\ x \notin Places(w, "queue")' /\ x \notin Places(w, "job")'
    BY <1>2 DEF Kinds
  <2>2. queue'["floors"] = <<>> /\ job'["floors"].pc = "idle"
    BY <2>1, AtNext DEF Stations
  <2> QED BY <2>1, <2>2 DEF Unjudged
<1>6. ASSUME w = "marked" PROVE Remembered'
  BY <1>0, <1>1, <1>2, <1>6, NoneWaiting, RememberedIdle
<1> QED BY <1>2, <1>3, <1>4, <1>5, <1>6 DEF Relay

LEMMA DeliverRelay ==
  ASSUME Shape, NEW w \in Worlds, Relay(w), StampPR
  PROVE  Relay(w)'
<1>0. Baton(w) /\ Short /\ Unjudged(w) /\ Judged /\ (w = "marked" => Remembered) /\ Typed
  BY RelayParts, ShapeParts
<1>1. UNCHANGED <<loop, firing, queue>> /\ run'.parked = run.parked
  BY <1>0, StampPREffect
<1>2. Baton(w)' /\ "delivery" \in Places(w, "job") /\ Nobody(w)'
  BY <1>0, DeliverBaton
<1>3. Short'
  BY <1>0, <1>1, ShortStays
<1>4. Judged'
  BY <1>0, <1>1, JudgedStays DEF Unclean, Has
<1>5. Unjudged(w)'
  <2>1. \A x : x \notin Places(w, "carrier")' /\ x \notin Places(w, "trigger")'
               /\ x \notin Places(w, "queue")' /\ x \notin Places(w, "job")'
    BY <1>2 DEF Kinds, Nobody
  <2>2. queue'["floors"] = <<>> /\ job'["floors"].pc = "idle"
    BY <2>1, AtNext DEF Stations
  <2> QED BY <2>1, <2>2 DEF Unjudged
<1>6. ASSUME w = "marked" PROVE Remembered'
  BY <1>0, <1>1, <1>2, <1>6, NoneWaiting, RememberedIdle
<1> QED BY <1>2, <1>3, <1>4, <1>5, <1>6 DEF Relay

LEMMA RestartRelay ==
  ASSUME Shape, NEW w \in Worlds, Relay(w), Restart, World(w)'
  PROVE  Relay(w)'
<1>0. Baton(w) /\ Short /\ Unjudged(w) /\ Judged
  BY RelayParts
<1>1. /\ firing' = {} /\ queue' = [s \in Stations |-> <<>>] /\ job' = [s \in Stations |-> NoJob]
      /\ UNCHANGED <<run, loop>>
  BY DEF Restart
<1>2. Baton(w)' /\ \A i \in Kinds : Places(w, i)' \subseteq Places(w, i)
  BY <1>0, RestartBaton
<1>3. Short'
  BY <1>0, <1>1, ShortStays
<1>4. Judged'
  BY <1>0, <1>1, JudgedStays DEF Unclean, Has
<1>5. \A x : x \notin Places(w, "carrier")'
  BY <1>1, AtNext
<1>6. Unjudged(w)'
  BY <1>0, <1>1, <1>2, <1>5, UnjudgedStays DEF Kinds, Stations, NoJob
<1>7. Remembered'
  BY <1>1 DEF Remembered
<1> QED BY <1>2, <1>3, <1>4, <1>6, <1>7 DEF Relay

-----------------------------------------------------------------------------
(* Every step is one of these.                                             *)
LEMMA Moves ==
  ASSUME Next
  PROVE  \/ \E r, e : <<r, e>> \in RuleOn /\ Fire(r, e)
         \/ \E f \in firing : \/ AddMark(f) \/ AddToRun(f) \/ SpawnLoop(f)
                              \/ PublishDispatch(f) \/ LoseAction(f)
         \/ \E l \in Loops : Patching(l) \/ MirrorVerdict(l)
         \/ \E l \in Loops : \E b \in BOOLEAN : SubmitReview(l, b) \/ EndLoop(l, b)
         \/ \E s \in Stations : Take(s) \/ StampDispatchFailed(s) \/ Handling(s)
         \/ \E b \in BOOLEAN : RunFloors(b)
         \/ \E o \in {"pass", "fail"} : StampVerify(o)
         \/ StampPR \/ Restart
<1>1. CASE EngineNext
  <2>1. CASE \E re \in RuleOn : Fire(re[1], re[2])
    <3>1. PICK re \in RuleOn : Fire(re[1], re[2])
      BY <2>1
    <3>2. re = <<re[1], re[2]>>
      BY DEF RuleOn
    <3> QED BY <3>1, <3>2
  <2>2. CASE \E f \in firing : Act(f)
    BY <2>2 DEF Act
  <2> QED BY <1>1, <2>1, <2>2 DEF EngineNext
<1>2. CASE \E l \in Loops : ToolNext(l) \/ EndNext(l)
  BY <1>2 DEF ToolNext, EndNext, Patching
<1>3. CASE \E s \in Stations : StationNext(s) \/ HandleError(s) \/ DropDispatch(s)
  <2>1. PICK s \in Stations : StationNext(s) \/ HandleError(s) \/ DropDispatch(s)
    BY <1>3
  <2> QED BY <2>1, StationCases
<1> QED BY <1>1, <1>2, <1>3 DEF Next

(* Nothing is unlost or unforgotten.                                       *)
LEMMA UsedGrows ==
  ASSUME Shape, Next
  PROVE  used.lost <= used'.lost /\ used.forgot <= used'.forgot
<1>0. Typed /\ used \in Usage /\ used.lost \in Nat /\ used.forgot \in Nat
  BY ShapeParts, TypeParts DEF Usage
<1>1. used.lost <= used.lost /\ used.forgot <= used.forgot
  BY <1>0
<1>2. ASSUME used'.lost = used.lost, used'.forgot = used.forgot
      PROVE  used.lost <= used'.lost /\ used.forgot <= used'.forgot
  BY <1>1, <1>2
<1>3. CASE \E r, e : <<r, e>> \in RuleOn /\ Fire(r, e)
  BY <1>2, <1>3 DEF Fire
<1>4. CASE \E f \in firing : AddMark(f) \/ AddToRun(f) \/ SpawnLoop(f) \/ PublishDispatch(f)
  BY <1>2, <1>4 DEF AddMark, AddToRun, SpawnLoop, PublishDispatch
<1>5. CASE \E f \in firing : LoseAction(f)
  BY <1>0, <1>5 DEF LoseAction, Lose, Usage
<1>6. CASE \E l \in Loops : Patching(l)
  <2>1. PICK l \in Loops : Patching(l)
    BY <1>6
  <2>2. LoopShape(l)
    BY ShapeParts
  <2> QED BY <1>0, <1>2, <2>1, <2>2, PatchingEffect
<1>7. CASE \E l \in Loops : MirrorVerdict(l)
  BY <1>0, <1>2, <1>7, MirrorEffect
<1>8. CASE \E l \in Loops : \E b \in BOOLEAN : SubmitReview(l, b)
  BY <1>0, <1>2, <1>8, SubmitEffect
<1>9. CASE \E l \in Loops : \E b \in BOOLEAN : EndLoop(l, b)
  BY <1>2, <1>9 DEF EndLoop
<1>10. CASE \E s \in Stations : Take(s) \/ StampDispatchFailed(s)
  BY <1>2, <1>10 DEF Take, StampDispatchFailed
<1>11. CASE \E s \in Stations : Handling(s)
  <2>1. PICK s \in Stations : Handling(s)
    BY <1>11
  <2>2. used'.lost >= used.lost /\ used'.forgot = used.forgot
    BY <1>0, <2>1, HandlingEffect
  <2> QED BY <1>0, <2>2
<1>12. CASE \/ \E b \in BOOLEAN : RunFloors(b)
            \/ StampPR
  BY <1>2, <1>12 DEF RunFloors, StampPR
<1>13. CASE \E o \in {"pass", "fail"} : StampVerify(o)
  BY <1>0, <1>2, <1>13, DecideEffect
<1>14. CASE Restart
  <2>1. CASE used' = [used EXCEPT !.restarts = @ + 1]
    BY <1>0, <1>2, <2>1 DEF Usage
  <2>2. CASE used' = [used EXCEPT !.restarts = @ + 1, !.forgot = @ + 1]
    <3>1. used'.lost = used.lost /\ used'.forgot = used.forgot + 1
      BY <1>0, <2>2 DEF Usage
    <3> QED BY <1>0, <3>1
  <2> QED BY <1>14, <2>1, <2>2 DEF Restart
<1> QED BY <1>3, <1>4, <1>5, <1>6, <1>7, <1>8, <1>9, <1>10, <1>11, <1>12, <1>13, <1>14, Moves

LEMMA WorldStep ==
  ASSUME Shape, Next, NEW w \in Worlds, World(w)'
  PROVE  World(w)
<1>1. used.lost <= used'.lost /\ used.forgot <= used'.forgot
  BY UsedGrows
<1>2. used.lost \in Nat /\ used.forgot \in Nat
  BY ShapeParts, TypeParts DEF Usage
<1> QED BY <1>1, <1>2 DEF World

LEMMA LostIsUnmarked ==
  ASSUME Shape, NEW f \in firing, LoseAction(f), NEW w \in Worlds, World(w)'
  PROVE  w = "remembered"
<1>1. used \in Usage /\ used.lost \in Nat
  BY ShapeParts, TypeParts DEF Usage
<1>2. used'.lost = used.lost + 1
  BY <1>1 DEF LoseAction, Lose, Usage
<1> QED BY <1>1, <1>2 DEF World, Worlds

LEMMA StepRelay ==
  ASSUME Shape, [Next]_vars, NEW w \in Worlds, BatonInv(w)
  PROVE  BatonInv(w)'
<1> SUFFICES ASSUME World(w)' PROVE Relay(w)'
  BY DEF BatonInv
<1>1. CASE UNCHANGED vars
  <2>1. World(w)
    BY <1>1 DEF World, vars
  <2>2. Relay(w)
    BY <2>1 DEF BatonInv
  <2>3. UNCHANGED <<run, loop, firing, matched, queue, job>>
    BY <1>1 DEF vars
  <2>4. \A k \in Kinds : Places(w, k)' \subseteq Places(w, k)
    BY <2>3, FactsFrame, CarrierFrame, QueueFrame, JobFrame, KindsAre
  <2>5. Baton(w)'
    BY <2>2, <2>3, <2>4, RelayParts, Stays
  <2>6. Short' /\ Judged' /\ Unjudged(w)'
    BY <2>2, <2>3, <2>4, RelayParts, ShortStays, JudgedStays, UnjudgedStays DEF Kinds, Unclean, Has
  <2>7. w = "marked" => Remembered'
    BY <2>2, <2>3, RelayParts, RememberedKept
  <2> QED BY <2>5, <2>6, <2>7 DEF Relay
<1>2. CASE Next
  <2>0. Relay(w)
    BY <1>2, WorldStep DEF BatonInv
  <2>1. CASE \E r, e : <<r, e>> \in RuleOn /\ Fire(r, e)
    BY <2>0, <2>1, FireRelay
  <2>2. CASE \E f \in firing : AddMark(f) \/ AddToRun(f) \/ SpawnLoop(f) \/ PublishDispatch(f)
    BY <2>0, <2>2, MarkRelay, LedgerRelay, SpawnRelay, PublishRelay
  <2>3. CASE \E f \in firing : LoseAction(f)
    <3>1. PICK f \in firing : LoseAction(f)
      BY <2>3
    <3>2. w = "remembered"
      BY <3>1, LostIsUnmarked
    <3> QED BY <2>0, <3>1, <3>2, LoseRelay
  <2>4. CASE \E l \in Loops : Patching(l) \/ MirrorVerdict(l)
    BY <2>0, <2>4, PatchRelay, MirrorRelay
  <2>5. CASE \E l \in Loops : \E b \in BOOLEAN : SubmitReview(l, b) \/ EndLoop(l, b)
    BY <2>0, <2>5, SubmitRelay, EndRelay
  <2>6. CASE \E s \in Stations : Take(s) \/ StampDispatchFailed(s) \/ Handling(s)
    BY <2>0, <2>6, TakeRelay, StampFailedRelay, HandlingRelay
  <2>7. CASE \E b \in BOOLEAN : RunFloors(b)
    BY <2>0, <2>7, FloorsRelay
  <2>8. CASE \E o \in {"pass", "fail"} : StampVerify(o)
    BY <2>0, <2>8, DecideRelay
  <2>9. CASE StampPR \/ Restart
    BY <2>0, <2>9, DeliverRelay, RestartRelay
  <2> QED BY <1>2, <2>1, <2>2, <2>3, <2>4, <2>5, <2>6, <2>7, <2>8, <2>9, Moves
<1> QED BY <1>1, <1>2

LEMMA InitRelay ==
  ASSUME Init, NEW w \in Worlds
  PROVE  Relay(w)
<1>1. /\ firing = {} /\ matched = {} /\ queue = [s \in Stations |-> <<>>]
      /\ job = [s \in Stations |-> NoJob] /\ ~run.parked /\ ~run.pr /\ run.verify = "none"
      /\ run.marks = {} /\ 1 \in Loops
      /\ \A l \in Loops : /\ loop[l].marks = {} /\ loop[l].passed = "none" /\ ~loop[l].rejected
                          /\ loop[l].pc \in {"unborn", "ended"}
                          /\ loop[l].role \in {"coordinator", "none"}
                          /\ loop[l].role = "coordinator" => l = 1
  BY LoopAssumption DEF Init, Unborn, Loops
<1>2. \A i \in Kinds : \A x \in Places(w, i) : i = "trigger" /\ x = 1
  <2>1. \A x : /\ x \notin Places(w, "carrier") /\ x \notin Places(w, "queue")
               /\ x \notin Places(w, "job") /\ x \notin Places(w, "verdict")
               /\ x \notin Places(w, "failed-run")
    BY <1>1, At DEF NoJob, VerdictAt, FailedRunAt, StationFailedRun
  <2>2. \A x : /\ x \notin Places(w, "live") /\ x \notin Places(w, "route")
               /\ x \notin Places(w, "review") /\ x \notin Places(w, "failed")
    <3>1. Live = {}
      BY <1>1 DEF Live
    <3>2. \A l \in Loops : ~RouteAt(w, l) /\ ~ReviewAt(w, l) /\ ~FailedAt(w, l)
      BY <1>1 DEF RouteAt, ReviewAt, FailedAt, StationFailedLoop, Has
    <3> QED BY <3>1, <3>2, At
  <2>3. \A x \in Places(w, "trigger") : x = 1
    <3>1. \A l \in Loops : TriggerAt(w, l) => l = 1
      BY <1>1 DEF TriggerAt, Dispatch, FloorsTrigger
    <3> QED BY <3>1, At
  <2> QED BY <2>1, <2>2, <2>3 DEF Kinds
<1>3. Baton(w)
  BY <1>1, <1>2 DEF Baton, One, Sole, Late, ParkedIdle
<1>4. Short
  BY <1>1, AppendOne DEF Short
<1>5. Judged /\ Remembered
  BY <1>1 DEF Judged, Remembered, Has
<1>6. Unjudged(w)
  <2>1. \A l \in Places(w, "trigger") : loop[l].passed = "none"
    BY <1>1, <1>2 DEF Kinds
  <2>2. \A f : f \notin Places(w, "carrier")
    BY <1>1, At
  <2>3. queue["floors"] = <<>> /\ job["floors"].pc = "idle"
    BY <1>1 DEF Stations, NoJob
  <2> QED BY <2>1, <2>2, <2>3 DEF Unjudged
<1> QED BY <1>3, <1>4, <1>5, <1>6 DEF Relay

(* The inductive invariant of the baton, in both worlds.                   *)
LEMMA BatonAlways == Spec => [](Shape /\ \A w \in Worlds : BatonInv(w))
<1> DEFINE I == Shape /\ \A w \in Worlds : BatonInv(w)
<1>1. Init => I
  BY InitShape, InitRelay DEF BatonInv
<1>2. I /\ [Next]_vars => I'
  <2> SUFFICES ASSUME I, [Next]_vars PROVE I'
    OBVIOUS
  <2>1. Shape'
    BY StepShape
  <2>2. \A w \in Worlds : BatonInv(w)'
    BY StepRelay
  <2> QED BY <2>1, <2>2 DEF Worlds
<1> QED BY <1>1, <1>2, PTL DEF Spec

-----------------------------------------------------------------------------
(* From the invariant to the property.                                     *)

LEMMA PassingRules ==
  ASSUME Typed, NEW f \in Passing
  PROVE  f \in firing /\ f.rule \notin Cleaning \cup Surrender
<1>1. f \in firing /\ \E i \in 1..Len(f.todo) : f.todo[i] \in Roles \cup Stations
  BY DEF Passing
<1>2. PICK i \in 1..Len(f.todo) : f.todo[i] \in Roles \cup Stations
  BY <1>1
<1>3. Rest(f.rule, f.todo)
  BY <1>1, FiringFacts
<1>4. f.rule \in Cleaning => f.todo = <<"unclean">>
  BY <1>3 DEF Rest, Cleaning, Surrender
<1>5. f.rule \in Surrender => f.todo = <<"park", "park-routed">> \/ f.todo = <<"park-routed">>
  BY <1>3 DEF Rest, Cleaning, Surrender
<1>6. f.todo # <<"unclean">>
  BY <1>2 DEF Roles, Stations
<1>7. f.todo # <<"park-routed">>
  BY <1>2 DEF Roles, Stations
<1>8. f.todo # <<"park", "park-routed">>
  <2> SUFFICES ASSUME f.todo = <<"park", "park-routed">> PROVE FALSE
    OBVIOUS
  <2>1. i \in 1..2
    BY <1>2, Tuples
  <2>2. f.todo[i] \in {"park", "park-routed"}
    BY <2>1
  <2> QED BY <1>2, <2>2 DEF Roles, Stations
<1> QED BY <1>1, <1>4, <1>5, <1>6, <1>7, <1>8

LEMMA PassingPlace ==
  ASSUME Shape, NEW w \in Worlds, Relay(w), NEW f \in Passing
  PROVE  f \in Places(w, "carrier") \/ (w = "marked" /\ Waiting(f))
<1>1. f \in firing /\ f.rule \notin Cleaning \cup Surrender
  BY ShapeParts, PassingRules
<1> QED BY <1>1, At DEF Carries, Waiting, Pending, Moot, Surrender, Worlds

LEMMA RelayOneBaton ==
  ASSUME Shape, NEW w \in Worlds, Relay(w)
  PROVE  Batons <= 1 /\ (run.parked => Batons = 0 /\ ~run.pr)
<1>0. Baton(w) /\ Short /\ Judged /\ (w = "marked" => Remembered) /\ Typed
      /\ "live" \in Kinds /\ "carrier" \in Kinds /\ "queue" \in Kinds /\ "job" \in Kinds
  BY RelayParts, ShapeParts DEF Kinds
<1>1. Cardinality({}) = 0 /\ \A x : Cardinality({x}) = 1
  BY FS_EmptySet, FS_Singleton
<1>2. /\ \A x : x \in Live <=> x \in Places(w, "live")
      /\ \A x : x \in Busy <=> x \in Places(w, "job")
      /\ \A x \in Stations : queue[x] # <<>> <=> x \in Places(w, "queue")
  BY At DEF Busy
<1>3. /\ \A s \in Stations : Len(queue[s]) \in Nat /\ (queue[s] = <<>> => Len(queue[s]) = 0)
                             /\ Len(queue[s]) <= 1
      /\ "floors" \in Stations /\ "verify" \in Stations /\ "delivery" \in Stations
  <2>1. \A s \in Stations : queue[s] \in Seq(Loops \cup {Run})
    BY <1>0, TypeParts
  <2>2. \A s \in Stations : Len(queue[s]) \in Nat
    BY <2>1
  <2> QED BY <1>0, <2>2, AppendOne DEF Short, Stations
<1>4. ASSUME NEW f \in Passing, f \notin Places(w, "carrier")
      PROVE  w = "marked" /\ Waiting(f) /\ f \in firing
  BY <1>0, <1>4, PassingPlace, PassingRules
<1>5. ASSUME NEW k \in {"live", "carrier", "queue", "job"}, NEW a \in Places(w, k)
      PROVE  Batons <= 1
  <2>1. k \in Kinds /\ \A i \in Kinds : \A x \in Places(w, i) : i = k /\ x = a
    BY <1>0, <1>5, Alone
  <2>2. \A f \in Passing : f \in Places(w, "carrier")
    BY <1>0, <1>4, <1>5, NoneWaiting
  <2>3. /\ k # "live" => Live = {}
        /\ k = "live" => Live = {a}
    BY <1>0, <1>2, <1>5, <2>1
  <2>4. /\ k # "job" => Busy = {}
        /\ k = "job" => Busy = {a}
    BY <1>0, <1>2, <1>5, <2>1
  <2>5. /\ k # "carrier" => Passing = {}
        /\ k = "carrier" => Passing = {} \/ Passing = {a}
    BY <1>0, <2>1, <2>2
  <2>6. \A s \in Stations : k # "queue" \/ s # a => Len(queue[s]) = 0
    BY <1>0, <1>2, <1>3, <2>1
  <2>7. /\ Cardinality(Live) = IF k = "live" THEN 1 ELSE 0
        /\ Cardinality(Busy) = IF k = "job" THEN 1 ELSE 0
        /\ Cardinality(Passing) = 0 \/ (k = "carrier" /\ Cardinality(Passing) = 1)
    BY <1>1, <2>3, <2>4, <2>5
  <2>8. CASE k = "queue"
    <3>1. a \in Stations
      BY <1>5, <2>8, At
    <3>2. Cardinality(Live) = 0 /\ Cardinality(Busy) = 0 /\ Cardinality(Passing) = 0
      BY <2>7, <2>8
    <3>n. PICK n \in Nat : n = Len(queue[a]) /\ n <= 1
      BY <1>3, <3>1
    <3>3. CASE a = "floors"
      <4>1. Len(queue["verify"]) = 0 /\ Len(queue["delivery"]) = 0
        BY <1>3, <2>6, <3>3
      <4> QED BY <3>2, <3>n, <3>3, <4>1 DEF Batons
    <3>4. CASE a = "verify"
      <4>1. Len(queue["floors"]) = 0 /\ Len(queue["delivery"]) = 0
        BY <1>3, <2>6, <3>4
      <4> QED BY <3>2, <3>n, <3>4, <4>1 DEF Batons
    <3>5. CASE a = "delivery"
      <4>1. Len(queue["floors"]) = 0 /\ Len(queue["verify"]) = 0
        BY <1>3, <2>6, <3>5
      <4> QED BY <3>2, <3>n, <3>5, <4>1 DEF Batons
    <3> QED BY <3>1, <3>3, <3>4, <3>5 DEF Stations
  <2>9. CASE k # "queue"
    <3>1. Len(queue["floors"]) = 0 /\ Len(queue["verify"]) = 0 /\ Len(queue["delivery"]) = 0
      BY <1>3, <2>6, <2>9
    <3> QED BY <2>7, <3>1 DEF Batons
  <2> QED BY <2>8, <2>9
<1>6. ASSUME \A k \in {"live", "queue", "job"} : \A x : x \notin Places(w, k),
             Cardinality(Passing) \in {0, 1}
      PROVE  Batons = Cardinality(Passing)
  <2>1. Live = {} /\ Busy = {}
    BY <1>2, <1>6
  <2>2. Len(queue["floors"]) = 0 /\ Len(queue["verify"]) = 0 /\ Len(queue["delivery"]) = 0
    BY <1>2, <1>3, <1>6
  <2>3. Cardinality(Live) = 0 /\ Cardinality(Busy) = 0
    BY <1>1, <2>1
  <2> QED BY <1>6, <2>2, <2>3 DEF Batons
<1>7. Batons <= 1
  <2>1. CASE \A k \in {"live", "carrier", "queue", "job"} : \A x : x \notin Places(w, k)
    <3>1. \A f \in Passing : w = "marked" /\ Waiting(f) /\ f \in firing
      BY <1>4, <2>1
    <3>2. \A f, g \in Passing : f = g
      BY <1>0, <3>1, OneWaiting
    <3>3. Passing = {} \/ \E f : Passing = {f}
      BY <3>2
    <3>4. Cardinality(Passing) = 0 \/ Cardinality(Passing) = 1
      BY <1>1, <3>3
    <3>5. Batons = Cardinality(Passing)
      BY <1>6, <2>1, <3>4
    <3> QED BY <3>4, <3>5
  <2> QED BY <1>5, <2>1
<1>8. ASSUME run.parked PROVE Batons = 0 /\ ~run.pr
  <2>1. ~run.pr /\ \A k \in Kinds : \A x \in Places(w, k) : ParkedPlace(k, x)
    BY <1>0, <1>8 DEF Baton, ParkedIdle
  <2>2. \A k \in {"live", "queue", "job"} : \A x : x \notin Places(w, k)
    BY <1>0, <2>1 DEF ParkedPlace
  <2>3. ASSUME NEW f \in Passing PROVE FALSE
    <3>1. f \in firing /\ f.rule \notin Cleaning \cup Surrender
      BY <1>0, PassingRules
    <3>2. f \notin Places(w, "carrier")
      BY <1>0, <2>1, <3>1 DEF ParkedPlace
    <3>3. w = "marked" /\ Waiting(f)
      BY <1>4, <3>2
    <3>4. Origin(f.rule) \in Kinds /\ f.on \in Places(w, Origin(f.rule))
      BY <1>0, <3>1, <3>3, WaitingPlace
    <3>5. Origin(f.rule) = "failed"
      BY <1>0, <2>1, <3>1, <3>4, OriginNotHeld DEF ParkedPlace
    <3>6. f.rule = "failed-loop"
      BY <1>0, <3>1, <3>5, FiringFacts, Origins, RuleGroups
    <3> QED BY <3>1, <3>6 DEF Surrender
  <2>4. Passing = {}
    BY <2>3
  <2>5. Cardinality(Passing) = 0
    BY <1>1, <2>4
  <2> QED BY <1>6, <2>1, <2>2, <2>5
<1> QED BY <1>7, <1>8

(* Under faults of one kind, however many, and for any budget, the work is *)
(* in one place at most: no two of a live loop, a queued dispatch, a busy  *)
(* handler and a firing that will start one of these.  On a parked run     *)
(* there is none, and it was not delivered.                                *)
THEOREM OneBatonHolds == Spec => []OneBaton
<1>1. Shape /\ (\A w \in Worlds : BatonInv(w)) => OneBaton
  <2> SUFFICES ASSUME Shape, \A w \in Worlds : BatonInv(w), OneKindOfFault
               PROVE  Batons <= 1 /\ (run.parked => Batons = 0 /\ ~run.pr)
    BY DEF OneBaton
  <2>1. World("remembered") \/ World("marked")
    BY DEF OneKindOfFault, World
  <2>2. PICK w \in Worlds : World(w)
    BY <2>1 DEF Worlds
  <2>3. Relay(w)
    BY <2>2 DEF BatonInv
  <2> QED BY <2>3, RelayOneBaton
<1> QED BY <1>1, BatonAlways, PTL

=============================================================================
