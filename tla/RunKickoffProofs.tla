--------------------------- MODULE RunKickoffProofs ---------------------------
(***************************************************************************)
(* Proofs about RunKickoff, for any number of loops and faults: the type   *)
(* invariant, that the tasks frozen for development were passed by the     *)
(* oracle, that development starts only on a cleared run, that the issue   *)
(* is worked on once, and that a run comes to rest only for a reason.      *)
(***************************************************************************)
EXTENDS RunKickoff, FiniteSetTheorems, SequenceTheorems, TLAPS

(* A firing holds what is left of its rule's actions.  Which rule an       *)
(* action can belong to is what the proofs need to know of it.             *)
StepsOf(r) == {s \in Steps : /\ s \in {"anchored", "route", "spawned"} => r = "mint"
                             /\ s = "author" => r = "author"
                             /\ s \in {"dispatched", "attempt", "developer"} => r = "develop"
                             /\ s = "awaiting_approval" => r = "offer"
                             /\ s = "cancelled" => r = "cancel"
                             /\ s \in {"provisioned", "provision"} => r = "provision"
                             /\ s \in {"kicked-off", "dev"} => r = "kick-off"}

Owned == \A f \in firing : f.todo \in Seq(StepsOf(f.rule))

Typed == TypeOK /\ Owned

LEMMA DoesOwned ==
  \A r \in LoopRules \cup RunRules : Does(r) \in Seq(StepsOf(r)) \ {<<>>}
<1> SUFFICES ASSUME NEW r \in LoopRules \cup RunRules
             PROVE  Does(r) \in Seq(StepsOf(r)) \ {<<>>}
  OBVIOUS
<1> USE DEF Does, StepsOf, Steps, Marks, Phases, Kinds, Stations
<1>1. CASE r = "mint"
  BY <1>1
<1>2. CASE r = "author"
  BY <1>2
<1>3. CASE r = "validate"
  BY <1>3
<1>4. CASE r = "stamp-ref"
  BY <1>4 DEF StampRefFirst
<1>5. CASE r = "hand-off"
  BY <1>5
<1>6. CASE r = "develop"
  BY <1>6
<1>7. CASE r \in {"execute", "resume"}
  BY <1>7
<1>8. CASE r = "offer"
  BY <1>8
<1>9. CASE r = "cancel"
  BY <1>9
<1>10. CASE r \in {"anchor-gated", "anchor-resumed"}
  BY <1>10
<1>11. CASE r = "project"
  BY <1>11
<1>12. CASE r = "provision"
  BY <1>12
<1>13. CASE r = "kick-off"
  BY <1>13
<1>14. CASE r \in {"ask", "blocked"}
  BY <1>14
<1>15. CASE r \in {"failed-loop", "failed-run"}
  BY <1>15
<1> QED
  BY <1>1, <1>2, <1>3, <1>4, <1>5, <1>6, <1>7, <1>8, <1>9, <1>10, <1>11, <1>12, <1>13, <1>14,
     <1>15 DEF LoopRules, RunRules

LEMMA StepsOfSteps == \A r : StepsOf(r) \subseteq Steps
  BY DEF StepsOf

LEMMA TailLeft ==
  ASSUME NEW S, NEW s \in Seq(S), s # <<>>
  PROVE  Tail(s) \in Seq(S) /\ (Len(s) > 1 => Tail(s) # <<>>)
<1>1. Tail(s) \in Seq(S) /\ Len(Tail(s)) = Len(s) - 1
  BY HeadTailProperties
<1>2. Len(s) \in Nat
  BY LenProperties
<1>3. ASSUME Len(s) > 1 PROVE Tail(s) # <<>>
  <2>1. Len(Tail(s)) # 0
    BY <1>1, <1>2, <1>3
  <2> QED BY <1>1, <2>1, EmptySeq
<1> QED BY <1>1, <1>3

LEMMA RuleStateType == matched \subseteq RuleOn /\ RuleState => matched' \subseteq RuleOn
  BY DEF RuleState

(* Which entity a rule can be on.                                          *)
LEMMA RuleOnFacts ==
  \A r, e : <<r, e>> \in RuleOn =>
    /\ r \in LoopRules \cup RunRules /\ e \in Loops \cup {Run}
    /\ r \in LoopRules => e \in Loops
    /\ r \in RunRules => e = Run
  BY DEF RuleOn, LoopRules, RunRules

LEMMA InitTyped == Init => Typed
<1> SUFFICES ASSUME Init PROVE Typed
  OBVIOUS
<1>1. Unborn \in LoopState /\ Spawned("front", FALSE) \in LoopState
  BY DEF Unborn, Spawned, LoopState, AllMarks
<1>2. loop \in [Loops -> LoopState]
  BY <1>1 DEF Init
<1>3. run \in RunState
  BY DEF Init, RunState
<1>4. NoJob \in JobState
  BY DEF NoJob, JobState
<1>5. queue \in [Stations -> Seq(Loops \cup {Run})] /\ job \in [Stations -> JobState]
  BY <1>4 DEF Init
<1>6. checkout \in [made : Nat, warm : BOOLEAN] /\ used \in Usage
  BY DEF Init, Usage
<1>7. firing = {} /\ matched = {} /\ judged = {} /\ torn = FALSE
  BY DEF Init
<1> QED BY <1>2, <1>3, <1>5, <1>6, <1>7 DEF Typed, TypeOK, Owned

-----------------------------------------------------------------------------
(* The rule engine.                                                        *)

LEMMA FiringFacts ==
  ASSUME Typed, NEW f \in firing
  PROVE  /\ f \in Firing /\ f.todo \in Seq(StepsOf(f.rule)) /\ f.todo # <<>>
         /\ <<f.rule, f.on>> \in RuleOn
         /\ Head(f.todo) \in StepsOf(f.rule) /\ Head(f.todo) \in Steps
<1>1. f \in Firing /\ <<f.rule, f.on>> \in RuleOn /\ f.todo \in Seq(StepsOf(f.rule))
  BY DEF Typed, TypeOK, Owned
<1>2. f.todo # <<>>
  BY <1>1 DEF Firing
<1>3. Head(f.todo) \in StepsOf(f.rule)
  BY <1>1, <1>2, HeadTailProperties
<1> QED BY <1>1, <1>2, <1>3, StepsOfSteps

(* What is left of a firing stays its rule's.                              *)
LEMMA AdvanceTyped ==
  ASSUME Typed, NEW f \in firing, Advance(f)
  PROVE  /\ firing' \subseteq Firing
         /\ \A g \in firing' : <<g.rule, g.on>> \in RuleOn /\ g.todo \in Seq(StepsOf(g.rule))
         /\ \A g \in firing' : \E h \in firing : g.rule = h.rule /\ g.on = h.on
<1> DEFINE g == [f EXCEPT !.todo = Tail(@)]
<1>1. f \in Firing /\ f.todo \in Seq(StepsOf(f.rule)) /\ f.todo # <<>>
      /\ <<f.rule, f.on>> \in RuleOn
  BY FiringFacts
<1>2. Tail(f.todo) \in Seq(StepsOf(f.rule)) 
  BY <1>1, TailLeft
<1>3. g.rule = f.rule /\ g.on = f.on /\ g.todo = Tail(f.todo)
  BY <1>1 DEF Firing
<1>4. ASSUME Len(f.todo) > 1 PROVE g \in Firing
  <2>1. Tail(f.todo) # <<>>
    BY <1>1, <1>4, TailLeft
  <2>2. Tail(f.todo) \in Seq(Steps)
    BY <1>2, StepsOfSteps, SeqMonotonic
  <2> QED BY <1>1, <2>1, <2>2 DEF Firing
<1>5. \A h \in firing' : h \in firing \/ (h = g /\ Len(f.todo) > 1)
  BY DEF Advance
<1>6. g.todo \in Seq(StepsOf(g.rule)) /\ <<g.rule, g.on>> \in RuleOn
  BY <1>1, <1>2, <1>3
<1>7. firing \subseteq Firing
      /\ \A h \in firing : <<h.rule, h.on>> \in RuleOn /\ h.todo \in Seq(StepsOf(h.rule))
  BY DEF Typed, TypeOK, Owned
<1> HIDE DEF g
<1> QED BY <1>3, <1>4, <1>5, <1>6, <1>7

LEMMA FireTyped ==
  ASSUME Typed, NEW re \in RuleOn, Fire(re[1], re[2])
  PROVE  Typed'
<1>1. PICK r, e : re = <<r, e>> /\ r \in LoopRules \cup RunRules /\ e \in Loops \cup {Run}
  BY DEF RuleOn
<1>2. <<r, e>> \in RuleOn /\ Fire(r, e)
  BY <1>1
<1> DEFINE f == [rule |-> r, on |-> e, todo |-> Does(r)]
<1>3. Does(r) \in Seq(StepsOf(r)) /\ Does(r) # <<>> /\ Does(r) \in Seq(Steps)
  BY <1>1, DoesOwned, StepsOfSteps, SeqMonotonic
<1>4. f \in Firing /\ <<f.rule, f.on>> \in RuleOn /\ f.todo \in Seq(StepsOf(f.rule))
  BY <1>1, <1>2, <1>3 DEF Firing
<1>5. firing' = firing \cup {f} /\ matched' = matched \cup {<<r, e>>}
      /\ UNCHANGED <<run, loop, checkout, queue, job, judged, torn, used>>
  BY <1>2 DEF Fire
<1> HIDE DEF f
<1> QED BY <1>2, <1>4, <1>5 DEF Typed, TypeOK, Owned

(* The frame of an action of a firing.                                     *)
LEMMA ActTyped ==
  ASSUME Typed, NEW f \in firing, Advance(f),
         run' \in RunState, loop' \in [Loops -> LoopState], matched' \subseteq RuleOn,
         queue' \in [Stations -> Seq(Loops \cup {Run})], used' \in Usage,
         UNCHANGED <<checkout, job, judged, torn>>
  PROVE  Typed'
<1>1. /\ firing' \subseteq Firing
      /\ \A g \in firing' : <<g.rule, g.on>> \in RuleOn /\ g.todo \in Seq(StepsOf(g.rule))
  BY AdvanceTyped
<1> QED BY <1>1 DEF Typed, TypeOK, Owned

LEMMA MarksType ==
  /\ \A m \in AllMarks : run \in RunState => [run EXCEPT !.marks = @ \cup {m}] \in RunState
  /\ \A m \in AllMarks, l \in Loops : loop \in [Loops -> LoopState] =>
       [loop EXCEPT ![l].marks = @ \cup {m}] \in [Loops -> LoopState]
<1>1. ASSUME NEW m \in AllMarks, run \in RunState
      PROVE  [run EXCEPT !.marks = @ \cup {m}] \in RunState
  BY <1>1 DEF RunState
<1>2. ASSUME NEW m \in AllMarks, NEW l \in Loops, loop \in [Loops -> LoopState]
      PROVE  [loop EXCEPT ![l].marks = @ \cup {m}] \in [Loops -> LoopState]
  <2>1. loop[l] \in LoopState
    BY <1>2
  <2>2. [loop[l] EXCEPT !.marks = @ \cup {m}] \in LoopState
    BY <2>1 DEF LoopState
  <2> QED BY <1>2, <2>2
<1> QED BY <1>1, <1>2

LEMMA EngineTyped ==
  ASSUME Typed, NEW f \in firing, Act(f) \/ LoseAction(f)
  PROVE  Typed'
<1>0. /\ run \in RunState /\ loop \in [Loops -> LoopState] /\ matched \subseteq RuleOn
      /\ queue \in [Stations -> Seq(Loops \cup {Run})] /\ used \in Usage
  BY DEF Typed, TypeOK
<1>1. /\ f \in Firing /\ <<f.rule, f.on>> \in RuleOn /\ Head(f.todo) \in StepsOf(f.rule)
      /\ f.on \in Loops \cup {Run}
  BY FiringFacts, RuleOnFacts
<1>2. CASE AddMark(f)
  <2>1. Head(f.todo) \in AllMarks
    BY <1>2 DEF AddMark, AllMarks
  <2>2. run' \in RunState /\ loop' \in [Loops -> LoopState]
    <3>1. CASE f.on = Run
      <4>1. /\ run' = [run EXCEPT !.marks = run.marks \cup {Head(f.todo)}]
            /\ loop' = loop
        BY <1>2, <3>1 DEF AddMark
      <4> QED BY <1>0, <2>1, <4>1, MarksType
    <3>2. CASE f.on # Run
      <4>1. /\ loop' = [loop EXCEPT ![f.on].marks = loop[f.on].marks \cup {Head(f.todo)}]
            /\ run' = run /\ f.on \in Loops
        BY <1>1, <1>2, <3>2 DEF AddMark
      <4> QED BY <1>0, <2>1, <4>1, MarksType
    <3> QED BY <3>1, <3>2
  <2>3. matched' \subseteq RuleOn
    BY <1>0, <1>2, RuleStateType DEF AddMark
  <2> QED BY <1>0, <1>2, <2>2, <2>3, ActTyped DEF AddMark
<1>3. CASE AddToRun(f)
  <2>1. Head(f.todo) = "attempt" => f.on \in Loops
    <3>1. Head(f.todo) = "attempt" => f.rule = "develop"
      BY <1>1 DEF StepsOf
    <3> QED BY <1>1, <3>1, RuleOnFacts DEF LoopRules
  <2>2. run' \in RunState
    <3>1. CASE Head(f.todo) = "ref"
               /\ run' = [run EXCEPT !.refs = @ \cup {IF loop[f.on].kind = "front"
                                                      THEN "issue" ELSE "task"}]
      <4>1. (IF loop[f.on].kind = "front" THEN "issue" ELSE "task") \in {"issue", "task"}
        OBVIOUS
      <4>2. \A t \in {"issue", "task"} : [run EXCEPT !.refs = @ \cup {t}] \in RunState
        BY <1>0 DEF RunState
      <4> QED BY <3>1, <4>1, <4>2
    <3>2. CASE Head(f.todo) = "attempt" /\ run' = [run EXCEPT !.attempts = @ \cup {f.on}]
      BY <1>0, <2>1, <3>2 DEF RunState
    <3>3. CASE run' = [run EXCEPT !.handoff = TRUE] \/ run' = [run EXCEPT !.anchor = TRUE]
               \/ run' = [run EXCEPT !.parked = TRUE]
      BY <1>0, <3>3 DEF RunState
    <3> QED BY <1>3, <3>1, <3>2, <3>3 DEF AddToRun
  <2>3. matched' \subseteq RuleOn
    BY <1>0, <1>3, RuleStateType DEF AddToRun
  <2> QED BY <1>0, <1>3, <2>2, <2>3, ActTyped DEF AddToRun
<1>4. CASE MovePhase(f)
  <2>1. \E p \in {"none", "dispatched"} \cup Phases : run' = [run EXCEPT !.phase = p]
    <3>1. run.phase \in {"none", "dispatched"} \cup Phases
      BY <1>0 DEF RunState
    <3> QED BY <1>4, <3>1 DEF MovePhase
  <2>2. run' \in RunState
    BY <1>0, <2>1 DEF RunState
  <2>3. matched' \subseteq RuleOn
    BY <1>0, <1>4, RuleStateType DEF MovePhase
  <2> QED BY <1>0, <1>4, <2>2, <2>3, ActTyped DEF MovePhase
<1>5. CASE SpawnLoop(f)
  <2>1. PICK l \in Loops, b \in BOOLEAN : loop' = [loop EXCEPT ![l] = Spawned(Head(f.todo), b)]
    BY <1>5 DEF SpawnLoop, Has
  <2>2. Spawned(Head(f.todo), b) \in LoopState
    BY <1>5 DEF SpawnLoop, Spawned, LoopState, AllMarks, Marks
  <2>3. loop' \in [Loops -> LoopState]
    BY <1>0, <2>1, <2>2
  <2>4. matched' \subseteq RuleOn
    BY <1>0, <1>5, RuleStateType DEF SpawnLoop
  <2> QED BY <1>0, <1>5, <2>3, <2>4, ActTyped DEF SpawnLoop
<1>6. CASE PublishDispatch(f)
  <2>1. Append(queue[Head(f.todo)], f.on) \in Seq(Loops \cup {Run})
    BY <1>0, <1>1, <1>6, AppendProperties DEF PublishDispatch
  <2>2. queue' \in [Stations -> Seq(Loops \cup {Run})]
    BY <1>0, <1>6, <2>1 DEF PublishDispatch
  <2> QED BY <1>0, <1>6, <2>2, ActTyped DEF PublishDispatch
<1>7. CASE LoseAction(f)
  <2>1. used' \in Usage /\ UNCHANGED <<run, loop, checkout, matched, queue, job, judged, torn>>
    BY <1>0, <1>7 DEF LoseAction, Lose, Usage
  <2>2. CASE Advance(f)
    BY <1>0, <2>1, <2>2, ActTyped
  <2>3. CASE firing' = firing \ {f}
    BY <2>1, <2>3 DEF Typed, TypeOK, Owned
  <2> QED BY <1>7, <2>2, <2>3 DEF LoseAction
<1> QED BY <1>2, <1>3, <1>4, <1>5, <1>6, <1>7 DEF Act

-----------------------------------------------------------------------------
(* Loops, the human and the stations leave the firings alone.              *)

LEMMA FrameTyped ==
  ASSUME Typed, firing' = firing, run' \in RunState, loop' \in [Loops -> LoopState],
         checkout' \in [made : Nat, warm : BOOLEAN], matched' \subseteq RuleOn,
         queue' \in [Stations -> Seq(Loops \cup {Run})], job' \in [Stations -> JobState],
         judged' \subseteq Nat \X BOOLEAN, torn' \in BOOLEAN, used' \in Usage
  PROVE  Typed'
  BY DEF Typed, TypeOK, Owned

LEMMA UsageType == used \in Usage /\ (Error \/ Lose) => used' \in Usage
<1> SUFFICES ASSUME used \in Usage, Error \/ Lose PROVE used' \in Usage
  OBVIOUS
<1>1. used.errors + 1 \in Nat /\ used.lost + 1 \in Nat
  BY DEF Usage
<1>2. CASE Error
  BY <1>1, <1>2 DEF Error, Usage
<1>3. CASE Lose
  BY <1>1, <1>3 DEF Lose, Usage
<1> QED BY <1>2, <1>3

LEMMA LoopTyped ==
  ASSUME Typed, NEW l \in Loops, LoopNext(l) \/ EndUndecided(l)
  PROVE  Typed'
<1>0. /\ run \in RunState /\ loop \in [Loops -> LoopState] /\ loop[l] \in LoopState
      /\ checkout \in [made : Nat, warm : BOOLEAN] /\ matched \subseteq RuleOn
      /\ queue \in [Stations -> Seq(Loops \cup {Run})] /\ job \in [Stations -> JobState]
      /\ judged \subseteq Nat \X BOOLEAN /\ torn \in BOOLEAN /\ used \in Usage
  BY DEF Typed, TypeOK
<1>1. ASSUME NEW r \in LoopState, loop' = [loop EXCEPT ![l] = r]
      PROVE  loop' \in [Loops -> LoopState]
  BY <1>0, <1>1
<1>3. ASSUME NEW a \in Actions, Decide(l, a) PROVE Typed'
  <2>1. [loop[l] EXCEPT !.pc = "ended", !.decision = a] \in LoopState
    BY <1>0 DEF LoopState
  <2>2. loop' = [loop EXCEPT ![l] = [loop[l] EXCEPT !.pc = "ended", !.decision = a]]
    BY <1>0, <1>3 DEF Decide
  <2>3. loop' \in [Loops -> LoopState]
    BY <1>1, <2>1, <2>2
  <2>4. matched' \subseteq RuleOn
    BY <1>0, <1>3, RuleStateType DEF Decide
  <2> QED BY <1>0, <1>3, <2>3, <2>4, FrameTyped DEF Decide
<1>4. CASE WriteChange(l)
  <2>1. [loop[l] EXCEPT !.pc = "writing"] \in LoopState
    BY <1>0 DEF LoopState
  <2>2. loop' = [loop EXCEPT ![l] = [loop[l] EXCEPT !.pc = "writing"]]
    BY <1>0, <1>4 DEF WriteChange
  <2>3. loop' \in [Loops -> LoopState]
    BY <1>1, <2>1, <2>2
  <2>4. run' \in RunState
    <3>1. run.doc + 1 \in Nat
      BY <1>0 DEF RunState
    <3> QED BY <1>0, <1>4, <3>1 DEF WriteChange, RunState
  <2>5. matched' \subseteq RuleOn /\ torn' \in BOOLEAN
    BY <1>0, <1>4, RuleStateType DEF WriteChange
  <2> QED BY <1>0, <1>4, <2>3, <2>4, <2>5, FrameTyped DEF WriteChange
<1>5. CASE MarkAuthored(l)
  <2>1. /\ [loop[l] EXCEPT !.pc = "ended", !.marks = @ \cup {"authored"}] \in LoopState
        /\ [loop[l] EXCEPT !.pc = "working"] \in LoopState
    BY <1>0 DEF LoopState, AllMarks
  <2>2. \/ loop' = [loop EXCEPT ![l] = [loop[l] EXCEPT !.pc = "ended",
                                                       !.marks = @ \cup {"authored"}]]
        \/ loop' = [loop EXCEPT ![l] = [loop[l] EXCEPT !.pc = "working"]]
    BY <1>0, <1>5 DEF MarkAuthored
  <2>3. loop' \in [Loops -> LoopState]
    BY <1>1, <2>1, <2>2
  <2>4. matched' \subseteq RuleOn /\ used' \in Usage
    BY <1>0, <1>5, RuleStateType, UsageType DEF MarkAuthored
  <2> QED BY <1>0, <1>5, <2>3, <2>4, FrameTyped DEF MarkAuthored
<1>6. CASE EndUndecided(l)
  <2>1. [loop[l] EXCEPT !.pc = "ended"] \in LoopState
    BY <1>0 DEF LoopState
  <2>2. loop' = [loop EXCEPT ![l] = [loop[l] EXCEPT !.pc = "ended"]]
    BY <1>0, <1>6 DEF EndUndecided
  <2>3. loop' \in [Loops -> LoopState]
    BY <1>1, <2>1, <2>2
  <2>4. matched' \subseteq RuleOn /\ used' \in Usage
    BY <1>0, <1>6, RuleStateType, UsageType DEF EndUndecided
  <2> QED BY <1>0, <1>6, <2>3, <2>4, FrameTyped DEF EndUndecided
<1> QED BY <1>3, <1>4, <1>5, <1>6 DEF LoopNext

LEMMA DecideGateTyped ==
  ASSUME Typed, NEW d \in {"approve", "reject"}, DecideGate(d) PROVE Typed'
<1>1. matched \subseteq RuleOn /\ run \in RunState
  BY DEF Typed, TypeOK
<1>2. matched' \subseteq RuleOn
  BY <1>1, RuleStateType DEF DecideGate
<1>3. run' \in RunState
  BY <1>1 DEF DecideGate, RunState
<1> QED BY <1>2, <1>3, FrameTyped DEF DecideGate, Typed, TypeOK

LEMMA JobFacts ==
  ASSUME Typed, NEW s \in Stations
  PROVE  /\ NoJob \in JobState /\ job[s] \in JobState /\ Failing(s) \in [Stations -> JobState]
         /\ \A j \in JobState : [job EXCEPT ![s] = j] \in [Stations -> JobState]
<1>1. job \in [Stations -> JobState] /\ job[s] \in JobState
  BY DEF Typed, TypeOK
<1>2. job[s].attempt + 1 \in Nat
  BY <1>1 DEF JobState
<1>3. /\ [job[s] EXCEPT !.pc = "start", !.attempt = @ + 1] \in JobState
      /\ [job[s] EXCEPT !.pc = "failed"] \in JobState
  BY <1>1, <1>2 DEF JobState
<1>4. Failing(s) \in [Stations -> JobState]
  <2>1. CASE job[s].attempt < HandleAttempts
    BY <1>1, <1>3, <2>1 DEF Failing
  <2>2. CASE ~(job[s].attempt < HandleAttempts)
    BY <1>1, <1>3, <2>2 DEF Failing
  <2> QED BY <2>1, <2>2
<1>5. NoJob \in JobState
  BY DEF NoJob, JobState
<1> QED BY <1>1, <1>4, <1>5

LEMMA StationTyped ==
  ASSUME Typed, NEW s \in Stations,
         Take(s) \/ StampDispatchFailed(s) \/ HandleError(s) \/ DropDispatch(s)
  PROVE  Typed'
<1>0. /\ run \in RunState /\ loop \in [Loops -> LoopState]
      /\ checkout \in [made : Nat, warm : BOOLEAN] /\ matched \subseteq RuleOn
      /\ queue \in [Stations -> Seq(Loops \cup {Run})] /\ job \in [Stations -> JobState]
      /\ judged \subseteq Nat \X BOOLEAN /\ torn \in BOOLEAN /\ used \in Usage
  BY DEF Typed, TypeOK
<1>1. CASE Take(s)
  <2>1. queue[s] \in Seq(Loops \cup {Run}) /\ queue[s] # <<>>
    BY <1>0, <1>1 DEF Take
  <2>2. Head(queue[s]) \in Loops \cup {Run} /\ Tail(queue[s]) \in Seq(Loops \cup {Run})
    BY <2>1, HeadTailProperties
  <2>3. [NoJob EXCEPT !.on = Head(queue[s]), !.pc = "start", !.attempt = 1] \in JobState
    BY <2>2 DEF NoJob, JobState
  <2>4. job' \in [Stations -> JobState]
    BY <1>1, <2>3, JobFacts DEF Take
  <2>5. queue' \in [Stations -> Seq(Loops \cup {Run})]
    BY <1>0, <1>1, <2>2 DEF Take
  <2> QED BY <1>0, <1>1, <2>4, <2>5, FrameTyped DEF Take
<1>2. CASE StampDispatchFailed(s)
  <2>1. run' \in RunState /\ loop' \in [Loops -> LoopState]
    <3>0. "failed" \in AllMarks
      BY DEF AllMarks
    <3>1. CASE job[s].on = Run
      <4>1. run' = [run EXCEPT !.marks = run.marks \cup {"failed"}] /\ loop' = loop
        BY <1>2, <3>1 DEF StampDispatchFailed
      <4> QED BY <1>0, <3>0, <4>1, MarksType
    <3>2. CASE job[s].on # Run
      <4>1. job[s].on \in Loops
        BY <3>2, JobFacts DEF JobState
      <4>2. /\ loop' = [loop EXCEPT ![job[s].on].marks = loop[job[s].on].marks \cup {"failed"}]
            /\ run' = run
        BY <1>2, <3>2 DEF StampDispatchFailed
      <4> QED BY <1>0, <3>0, <4>1, <4>2, MarksType
    <3> QED BY <3>1, <3>2
  <2>2. job' \in [Stations -> JobState]
    BY <1>2, JobFacts DEF StampDispatchFailed
  <2>3. matched' \subseteq RuleOn
    BY <1>0, <1>2, RuleStateType DEF StampDispatchFailed
  <2> QED BY <1>0, <1>2, <2>1, <2>2, <2>3, FrameTyped DEF StampDispatchFailed
<1>3. CASE HandleError(s)
  <2>1. job' \in [Stations -> JobState]
    BY <1>3, JobFacts DEF HandleError
  <2>2. used' \in Usage
    BY <1>0, <1>3, UsageType DEF HandleError
  <2> QED BY <1>0, <1>3, <2>1, <2>2, FrameTyped DEF HandleError
<1>4. CASE DropDispatch(s)
  <2>1. job' \in [Stations -> JobState]
    BY <1>4, JobFacts DEF DropDispatch
  <2>2. used' \in Usage
    BY <1>0, <1>4, UsageType DEF DropDispatch
  <2> QED BY <1>0, <1>4, <2>1, <2>2, FrameTyped DEF DropDispatch
<1> QED BY <1>1, <1>2, <1>3, <1>4

ValidationNext == ReadDocument \/ (\E b \in BOOLEAN : Judge(b)) \/ StampValidated
ProjectionNext == \/ ReadValidated \/ BindRevision \/ (\E b \in BOOLEAN : ReadTasks(b))
                  \/ StampSpec
ProvisionNext  == Materialize \/ (\E b \in BOOLEAN : ProveCold(b)) \/ StampSandbox

LEMMA WorkTyped ==
  ASSUME Typed, NEW s \in Stations, NEW j \in JobState, Work(s, j)
  PROVE  Typed'
<1>1. job' \in [Stations -> JobState]
  BY JobFacts DEF Work
<1> QED BY <1>1, FrameTyped DEF Work, Typed, TypeOK

LEMMA ValidationTyped == Typed /\ ValidationNext => Typed'
<1> SUFFICES ASSUME Typed, ValidationNext PROVE Typed'
  OBVIOUS
<1> DEFINE j == job["validation"]
<1>0. /\ "validation" \in Stations /\ j \in JobState /\ run \in RunState
      /\ matched \subseteq RuleOn /\ run.doc \in Nat /\ judged \subseteq Nat \X BOOLEAN
  BY DEF Stations, Typed, TypeOK, RunState
<1>1. CASE ReadDocument
  <2>1. [j EXCEPT !.pc = "read", !.doc = run.doc] \in JobState
    BY <1>0 DEF JobState
  <2> QED BY <1>0, <1>1, <2>1, WorkTyped DEF ReadDocument
<1>2. ASSUME NEW ok \in BOOLEAN, Judge(ok) PROVE Typed'
  <2>1. [j EXCEPT !.pc = "judged", !.doc = run.doc, !.ok = ok] \in JobState
    BY <1>0 DEF JobState
  <2>2. job' \in [Stations -> JobState]
    BY <1>0, <1>2, <2>1, JobFacts DEF Judge
  <2>3. judged' \subseteq Nat \X BOOLEAN
    <3>1. <<j.doc, ok>> \in Nat \X BOOLEAN
      BY <1>0 DEF JobState
    <3> QED BY <1>0, <1>2, <3>1 DEF Judge
  <2> QED BY <1>2, <2>2, <2>3, FrameTyped DEF Judge, Typed, TypeOK
<1>3. CASE StampValidated
  <2>1. run' \in RunState
    <3>1. (IF j.ok THEN j.doc ELSE 0) \in Nat
      BY <1>0 DEF JobState
    <3> QED BY <1>0, <1>3, <3>1 DEF StampValidated, RunState
  <2>2. job' \in [Stations -> JobState]
    BY <1>0, <1>3, JobFacts DEF StampValidated
  <2>3. matched' \subseteq RuleOn
    BY <1>0, <1>3, RuleStateType DEF StampValidated
  <2> QED BY <1>3, <2>1, <2>2, <2>3, FrameTyped DEF StampValidated, Typed, TypeOK
<1> QED BY <1>1, <1>2, <1>3 DEF ValidationNext

LEMMA ProjectionTyped == Typed /\ ProjectionNext => Typed'
<1> SUFFICES ASSUME Typed, ProjectionNext PROVE Typed'
  OBVIOUS
<1> DEFINE j == job["projection"]
<1>0. /\ "projection" \in Stations /\ j \in JobState /\ run \in RunState
      /\ matched \subseteq RuleOn /\ job \in [Stations -> JobState]
      /\ run.doc \in Nat /\ run.validated \in Nat
  BY DEF Stations, Typed, TypeOK, RunState
<1>1. /\ [j EXCEPT !.pc = "checking", !.doc = run.validated] \in JobState
      /\ [j EXCEPT !.pc = "bound"] \in JobState
      /\ [j EXCEPT !.pc = "sound", !.doc = run.doc] \in JobState
  BY <1>0 DEF JobState
<1>2. /\ Failing("projection") \in [Stations -> JobState]
      /\ [job EXCEPT !["projection"].pc = "bound"] \in [Stations -> JobState]
      /\ [job EXCEPT !["projection"] = [j EXCEPT !.pc = "sound", !.doc = run.doc]]
           \in [Stations -> JobState]
  BY <1>0, <1>1, JobFacts
<1>3. CASE ReadValidated
  <2>1. CASE Work("projection", [j EXCEPT !.pc = "checking", !.doc = run.validated])
    BY <1>0, <1>1, <2>1, WorkTyped
  <2>2. CASE job' = Failing("projection")
             /\ UNCHANGED <<run, loop, checkout, firing, matched, queue, judged, torn, used>>
    BY <1>2, <2>2, FrameTyped DEF Typed, TypeOK
  <2> QED BY <1>3, <2>1, <2>2 DEF ReadValidated
<1>4. CASE BindRevision
  <2>1. job' \in [Stations -> JobState]
    BY <1>2, <1>4 DEF BindRevision
  <2> QED BY <1>4, <2>1, FrameTyped DEF BindRevision, Typed, TypeOK
<1>5. ASSUME NEW b \in BOOLEAN, ReadTasks(b) PROVE Typed'
  <2>1. job' \in [Stations -> JobState]
    BY <1>2, <1>5 DEF ReadTasks
  <2> QED BY <1>5, <2>1, FrameTyped DEF ReadTasks, Typed, TypeOK
<1>6. CASE StampSpec
  <2>1. run' \in RunState
    <3>1. j.doc \in Nat
      BY <1>0 DEF JobState
    <3> QED BY <1>0, <1>6, <3>1 DEF StampSpec, RunState
  <2>2. job' \in [Stations -> JobState]
    BY <1>0, <1>6, JobFacts DEF StampSpec
  <2>3. matched' \subseteq RuleOn
    BY <1>0, <1>6, RuleStateType DEF StampSpec
  <2> QED BY <1>6, <2>1, <2>2, <2>3, FrameTyped DEF StampSpec, Typed, TypeOK
<1> QED BY <1>3, <1>4, <1>5, <1>6 DEF ProjectionNext

LEMMA ProvisionTyped == Typed /\ ProvisionNext => Typed'
<1> SUFFICES ASSUME Typed, ProvisionNext PROVE Typed'
  OBVIOUS
<1> DEFINE j == job["provision"]
<1>0. /\ "provision" \in Stations /\ j \in JobState /\ run \in RunState
      /\ matched \subseteq RuleOn /\ job \in [Stations -> JobState]
      /\ checkout \in [made : Nat, warm : BOOLEAN] /\ used \in Usage
  BY DEF Stations, Typed, TypeOK
<1>1. \A pc \in {"materialized", "warm", "blocked"} :
        [job EXCEPT !["provision"].pc = pc] \in [Stations -> JobState]
  <2>1. \A pc \in {"materialized", "warm", "blocked"} : [j EXCEPT !.pc = pc] \in JobState
    BY <1>0 DEF JobState
  <2> QED BY <1>0, <2>1
<1>2. CASE Materialize
  <2>1. job' \in [Stations -> JobState]
    BY <1>0, <1>1, <1>2, JobFacts DEF Materialize
  <2>2. checkout' \in [made : Nat, warm : BOOLEAN]
    <3>1. checkout.made + 1 \in Nat
      BY <1>0
    <3>2. checkout' = checkout \/ checkout' = [checkout EXCEPT !.made = checkout.made + 1]
      BY <1>2 DEF Materialize
    <3> QED BY <1>0, <3>1, <3>2
  <2>3. used' \in Usage
    BY <1>0, <1>2, UsageType DEF Materialize
  <2> QED BY <1>2, <2>1, <2>2, <2>3, FrameTyped DEF Materialize, Typed, TypeOK
<1>3. ASSUME NEW ok \in BOOLEAN, ProveCold(ok) PROVE Typed'
  <2>1. job' \in [Stations -> JobState]
    BY <1>1, <1>3 DEF ProveCold
  <2>2. checkout' \in [made : Nat, warm : BOOLEAN]
    BY <1>0, <1>3 DEF ProveCold
  <2> QED BY <1>3, <2>1, <2>2, FrameTyped DEF ProveCold, Typed, TypeOK
<1>4. CASE StampSandbox
  <2>1. run' \in RunState
    <3>1. \A b \in {"ready", "blocked"} : [run EXCEPT !.sandbox = b] \in RunState
      BY <1>0 DEF RunState
    <3> QED BY <1>4, <3>1 DEF StampSandbox
  <2>2. job' \in [Stations -> JobState]
    BY <1>0, <1>4, JobFacts DEF StampSandbox
  <2>3. matched' \subseteq RuleOn
    BY <1>0, <1>4, RuleStateType DEF StampSandbox
  <2> QED BY <1>4, <2>1, <2>2, <2>3, FrameTyped DEF StampSandbox, Typed, TypeOK
<1> QED BY <1>2, <1>3, <1>4 DEF ProvisionNext

LEMMA RestartTyped == Typed /\ Restart => Typed'
<1> SUFFICES ASSUME Typed, Restart PROVE Typed'
  OBVIOUS
<1>1. used' \in Usage
  <2>1. used \in Usage /\ used.restarts + 1 \in Nat /\ used.forgot + 1 \in Nat
    BY DEF Typed, TypeOK, Usage
  <2> QED BY <2>1 DEF Restart, Usage
<1>2. queue' \in [Stations -> Seq(Loops \cup {Run})] /\ job' \in [Stations -> JobState]
  <2>1. NoJob \in JobState
    BY DEF NoJob, JobState
  <2> QED BY <2>1 DEF Restart
<1>3. checkout' \in [made : Nat, warm : BOOLEAN]
  BY DEF Restart, Typed, TypeOK
<1>4. matched' \subseteq RuleOn /\ firing' = {}
  BY DEF Restart, Typed, TypeOK
<1> QED BY <1>1, <1>2, <1>3, <1>4 DEF Restart, Typed, TypeOK, Owned

LEMMA StepTyped == Typed /\ [Next]_vars => Typed'
<1> SUFFICES ASSUME Typed, [Next]_vars PROVE Typed'
  OBVIOUS
<1>1. CASE UNCHANGED vars
  BY <1>1 DEF Typed, TypeOK, Owned, vars
<1>2. ASSUME NEW s \in Stations, StationNext(s) \/ HandleError(s) \/ DropDispatch(s)
      PROVE  Typed'
  BY <1>2, StationTyped, ValidationTyped, ProjectionTyped, ProvisionTyped
  DEF StationNext, ValidationNext, ProjectionNext, ProvisionNext
<1> QED
  BY <1>1, <1>2, FireTyped, EngineTyped, LoopTyped, DecideGateTyped, RestartTyped
  DEF Next, EngineNext

(* Every reachable state on the way to development is well-typed.          *)
THEOREM KickoffTypeCorrect == Spec => []TypeOK
<1>1. Spec => []Typed
  BY InitTyped, StepTyped, PTL DEF Spec
<1>2. Typed => TypeOK
  BY DEF Typed
<1> QED BY <1>1, <1>2, PTL

-----------------------------------------------------------------------------
(* What the oracle passed.  The revision a handler carries was vouched for *)
(* by the oracle, and while a handler is between its two reads of the run  *)
(* the document is still the one it read first: an author who replaces it  *)
(* there makes the behaviour torn.                                         *)

Vouched(n) == torn \/ <<n, TRUE>> \in judged

StampsVouched == /\ run.validated # 0 => Vouched(run.validated)
                 /\ run.spec # 0 => Vouched(run.spec)

ValidationVouched ==
  LET j == job["validation"] IN
  /\ j.pc = "read" /\ ~torn => j.doc = run.doc
  /\ j.pc = "judged" /\ j.ok => Vouched(j.doc)

ProjectionVouched ==
  LET j == job["projection"] IN
  /\ j.pc = "checking" /\ j.doc # 0 => Vouched(j.doc)
  /\ j.pc = "bound" /\ ~torn => j.doc = run.doc
  /\ j.pc \in {"bound", "sound"} => Vouched(j.doc)

FrozenInv == StampsVouched /\ ValidationVouched /\ ProjectionVouched

Resting == {"idle", "start", "failed"}

LEMMA FrozenFrame ==
  ASSUME FrozenInv, run'.doc = run.doc, run'.validated = run.validated, run'.spec = run.spec,
         judged \subseteq judged', torn' = torn,
         \A s \in Stations : job'[s] = job[s] \/ job'[s].pc \in Resting
  PROVE  FrozenInv'
<1>1. "validation" \in Stations /\ "projection" \in Stations
  BY DEF Stations
<1>2. StampsVouched'
  BY DEF FrozenInv, StampsVouched, Vouched
<1>3. ValidationVouched'
  BY <1>1 DEF FrozenInv, ValidationVouched, Vouched, Resting
<1>4. ProjectionVouched'
  BY <1>1 DEF FrozenInv, ProjectionVouched, Vouched, Resting
<1> QED BY <1>2, <1>3, <1>4 DEF FrozenInv

(* What the rules and the model's decisions leave alone.                   *)
LEMMA EngineFrame ==
  ASSUME Typed, \/ EngineNext \/ \E f \in firing : LoseAction(f)
                \/ \E l \in Loops, a \in Actions : Decide(l, a)
                \/ \E l \in Loops : MarkAuthored(l) \/ EndUndecided(l)
  PROVE  /\ run'.doc = run.doc /\ run'.validated = run.validated /\ run'.spec = run.spec
         /\ run'.decision = run.decision /\ run'.sandbox = run.sandbox
         /\ UNCHANGED <<checkout, job, judged, torn>> /\ used'.restarts = used.restarts
<1>0. run \in RunState /\ used \in Usage
  BY DEF Typed, TypeOK
<1>1. \/ run' = run \/ \E v : \/ run' = [run EXCEPT !.marks = v] \/ run' = [run EXCEPT !.refs = v]
                              \/ run' = [run EXCEPT !.attempts = v]
                              \/ run' = [run EXCEPT !.handoff = v]
                              \/ run' = [run EXCEPT !.anchor = v]
                              \/ run' = [run EXCEPT !.parked = v]
                              \/ run' = [run EXCEPT !.phase = v]
  <2>1. ASSUME NEW f \in firing, Act(f) PROVE <1>1!:
    <3>1. CASE AddMark(f)
      BY <3>1 DEF AddMark
    <3>2. CASE AddToRun(f)
      BY <3>2 DEF AddToRun
    <3>3. CASE MovePhase(f)
      BY <3>3 DEF MovePhase
    <3>4. CASE SpawnLoop(f) \/ PublishDispatch(f)
      BY <3>4 DEF SpawnLoop, PublishDispatch
    <3> QED BY <2>1, <3>1, <3>2, <3>3, <3>4 DEF Act
  <2>2. CASE \/ \E re \in RuleOn : Fire(re[1], re[2])
             \/ \E f \in firing : LoseAction(f)
             \/ \E l \in Loops, a \in Actions : Decide(l, a)
             \/ \E l \in Loops : MarkAuthored(l) \/ EndUndecided(l)
    BY <2>2 DEF Fire, LoseAction, Decide, MarkAuthored, EndUndecided
  <2> QED BY <2>1, <2>2 DEF EngineNext
<1>2. /\ run'.doc = run.doc /\ run'.validated = run.validated /\ run'.spec = run.spec
      /\ run'.decision = run.decision /\ run'.sandbox = run.sandbox
  BY <1>0, <1>1 DEF RunState
<1>3. UNCHANGED <<checkout, job, judged, torn>>
  BY DEF EngineNext, Act, Fire, AddMark, AddToRun, MovePhase, SpawnLoop, PublishDispatch,
         LoseAction, Decide, MarkAuthored, EndUndecided
<1>4. used' = used \/ (\E n : used' = [used EXCEPT !.lost = n] \/ used' = [used EXCEPT !.errors = n])
  BY DEF EngineNext, Act, Fire, AddMark, AddToRun, MovePhase, SpawnLoop, PublishDispatch,
         LoseAction, Decide, MarkAuthored, EndUndecided, Lose, Error
<1>5. used'.restarts = used.restarts
  BY <1>0, <1>4 DEF Usage
<1> QED BY <1>2, <1>3, <1>5

(* A handler that takes, fails or is dropped carries no revision.          *)
LEMMA StationFrame ==
  ASSUME Typed, NEW s \in Stations,
         Take(s) \/ StampDispatchFailed(s) \/ HandleError(s) \/ DropDispatch(s)
  PROVE  /\ run'.doc = run.doc /\ run'.validated = run.validated /\ run'.spec = run.spec
         /\ run'.decision = run.decision /\ run'.sandbox = run.sandbox
         /\ UNCHANGED <<checkout, firing, judged, torn>> /\ used'.restarts = used.restarts
         /\ \A t \in Stations : job'[t] = job[t] \/ job'[t].pc \in Resting
<1>0. run \in RunState /\ used \in Usage /\ job \in [Stations -> JobState] /\ job[s] \in JobState
  BY DEF Typed, TypeOK
<1>1. run' = run \/ \E v : run' = [run EXCEPT !.marks = v]
  BY DEF Take, StampDispatchFailed, HandleError, DropDispatch
<1>2. used' = used \/ (\E n : used' = [used EXCEPT !.lost = n] \/ used' = [used EXCEPT !.errors = n])
  BY DEF Take, StampDispatchFailed, HandleError, DropDispatch, Lose, Error
<1>3. NoJob.pc = "idle" /\ [NoJob EXCEPT !.on = Head(queue[s]), !.pc = "start", !.attempt = 1].pc
                             = "start"
  BY DEF NoJob
<1>4. Failing(s)[s].pc \in {"start", "failed"} /\ \A t \in Stations \ {s} : Failing(s)[t] = job[t]
  <2>1. CASE job[s].attempt < HandleAttempts
    BY <1>0, <2>1 DEF Failing, JobState
  <2>2. CASE ~(job[s].attempt < HandleAttempts)
    BY <1>0, <2>2 DEF Failing, JobState
  <2> QED BY <2>1, <2>2
<1>5. \A t \in Stations : job'[t] = job[t] \/ job'[t].pc \in Resting
  BY <1>0, <1>3, <1>4 DEF Take, StampDispatchFailed, HandleError, DropDispatch, Resting
<1>6. UNCHANGED <<checkout, firing, judged, torn>>
  BY DEF Take, StampDispatchFailed, HandleError, DropDispatch
<1> QED BY <1>0, <1>1, <1>2, <1>5, <1>6 DEF RunState, Usage

LEMMA InitFrozen == Init => FrozenInv
<1> SUFFICES ASSUME Init PROVE FrozenInv
  OBVIOUS
<1>1. run.validated = 0 /\ run.spec = 0
  BY DEF Init
<1>2. job["validation"].pc = "idle" /\ job["projection"].pc = "idle"
  BY DEF Init, NoJob, Stations
<1> QED
  BY <1>1, <1>2 DEF FrozenInv, StampsVouched, ValidationVouched, ProjectionVouched

LEMMA VouchedStays ==
  ASSUME torn => torn', judged \subseteq judged'
  PROVE  \A n : Vouched(n) => Vouched(n)'
  BY DEF Vouched

(* A new document is either outside every handler's two reads or torn.     *)
LEMMA WriteFrozen ==
  ASSUME Typed, FrozenInv, NEW l \in Loops, WriteChange(l) PROVE FrozenInv'
<1>1. /\ run' = [run EXCEPT !.doc = run.doc + 1] /\ UNCHANGED <<job, judged>>
      /\ torn' = (torn \/ ReadingTwice)
  BY DEF WriteChange
<1>2. run'.validated = run.validated /\ run'.spec = run.spec
  BY <1>1 DEF Typed, TypeOK, RunState
<1>3. (torn => torn') /\ (ReadingTwice => torn')
  BY <1>1
<1>4. \A n : Vouched(n) => Vouched(n)'
  BY <1>1, <1>3, VouchedStays
<1>5. StampsVouched'
  BY <1>2, <1>4 DEF FrozenInv, StampsVouched
<1>6. ValidationVouched' /\ ProjectionVouched'
  BY <1>1, <1>3, <1>4 DEF FrozenInv, ValidationVouched, ProjectionVouched, ReadingTwice
<1> QED BY <1>5, <1>6 DEF FrozenInv

LEMMA ValidationFrozen ==
  ASSUME Typed, FrozenInv, ValidationNext PROVE FrozenInv'
<1> DEFINE j == job["validation"]
           k == job'["validation"]
<1>0. /\ job \in [Stations -> JobState] /\ j \in JobState /\ run \in RunState
      /\ "validation" \in Stations /\ "projection" \in Stations /\ torn \in BOOLEAN
  BY DEF Typed, TypeOK, Stations
<1>1. CASE ReadDocument
  <2>1. /\ job' = [job EXCEPT !["validation"] = [j EXCEPT !.pc = "read", !.doc = run.doc]]
        /\ UNCHANGED <<run, judged, torn>>
    BY <1>1 DEF ReadDocument, Work
  <2>2. k.pc = "read" /\ k.doc = run.doc /\ job'["projection"] = job["projection"]
    BY <1>0, <2>1 DEF JobState
  <2> QED BY <2>1, <2>2 DEF FrozenInv, StampsVouched, ValidationVouched, ProjectionVouched, Vouched
<1>2. ASSUME NEW ok \in BOOLEAN, Judge(ok) PROVE FrozenInv'
  <2>1. /\ j.pc = "read" /\ judged' = judged \cup {<<j.doc, ok>>} /\ UNCHANGED <<run, torn>>
        /\ job' = [job EXCEPT !["validation"] = [j EXCEPT !.pc = "judged", !.doc = run.doc,
                                                          !.ok = ok]]
    BY <1>2 DEF Judge
  <2>2. /\ k.pc = "judged" /\ k.doc = run.doc /\ k.ok = ok
        /\ job'["projection"] = job["projection"]
    BY <1>0, <2>1 DEF JobState
  <2>3. ~torn => j.doc = run.doc
    BY <2>1 DEF FrozenInv, ValidationVouched
  <2>4. ValidationVouched'
    <3>1. k.ok => Vouched(j.doc)'
      <4>1. CASE torn
        BY <2>1, <4>1 DEF Vouched
      <4>2. CASE ~torn /\ ok = TRUE
        BY <2>1, <2>2, <2>3, <4>2 DEF Vouched
      <4> QED BY <2>2, <4>1, <4>2
    <3> QED BY <2>2, <3>1 DEF ValidationVouched
  <2>5. \A n : Vouched(n) => Vouched(n)'
    BY <2>1, VouchedStays
  <2> QED BY <2>1, <2>2, <2>4, <2>5 DEF FrozenInv, StampsVouched, ProjectionVouched
<1>3. CASE StampValidated
  <2>1. /\ j.pc = "judged" /\ run' = [run EXCEPT !.validated = IF j.ok THEN j.doc ELSE 0]
        /\ job' = [job EXCEPT !["validation"] = NoJob] /\ UNCHANGED <<judged, torn>>
    BY <1>3 DEF StampValidated
  <2>2. k.pc = "idle" /\ job'["projection"] = job["projection"]
    BY <1>0, <2>1 DEF NoJob
  <2>3. /\ run'.doc = run.doc /\ run'.spec = run.spec
        /\ run'.validated = IF j.ok THEN j.doc ELSE 0
    BY <1>0, <2>1 DEF RunState
  <2>4. run'.validated # 0 => Vouched(run'.validated)
    BY <2>1, <2>3 DEF FrozenInv, ValidationVouched
  <2> QED BY <2>1, <2>2, <2>3, <2>4
          DEF FrozenInv, StampsVouched, ValidationVouched, ProjectionVouched, Vouched
<1> QED BY <1>1, <1>2, <1>3 DEF ValidationNext

(* A refused projection is retried or given up: nothing is carried on.     *)
LEMMA FailingRests ==
  ASSUME Typed, NEW s \in Stations
  PROVE  \A t \in Stations : Failing(s)[t] = job[t] \/ Failing(s)[t].pc \in Resting
<1>0. job \in [Stations -> JobState] /\ job[s] \in JobState
  BY DEF Typed, TypeOK
<1>1. CASE job[s].attempt < HandleAttempts
  BY <1>0, <1>1 DEF Failing, JobState, Resting
<1>2. CASE ~(job[s].attempt < HandleAttempts)
  BY <1>0, <1>2 DEF Failing, JobState, Resting
<1> QED BY <1>1, <1>2

LEMMA ProjectionFrozen ==
  ASSUME Typed, FrozenInv, ProjectionNext PROVE FrozenInv'
<1> DEFINE j == job["projection"]
           k == job'["projection"]
<1>0. /\ job \in [Stations -> JobState] /\ j \in JobState /\ run \in RunState
      /\ "validation" \in Stations /\ "projection" \in Stations /\ torn \in BOOLEAN
  BY DEF Typed, TypeOK, Stations
<1>1. CASE job' = Failing("projection") /\ UNCHANGED <<run, judged, torn>>
  BY <1>0, <1>1, FailingRests, FrozenFrame
<1>2. CASE ReadValidated /\ run.spec = 0
  <2>1. /\ job' = [job EXCEPT !["projection"] = [j EXCEPT !.pc = "checking", !.doc = run.validated]]
        /\ UNCHANGED <<run, judged, torn>>
    BY <1>2 DEF ReadValidated, Work
  <2>2. k.pc = "checking" /\ k.doc = run.validated /\ job'["validation"] = job["validation"]
    BY <1>0, <2>1 DEF JobState
  <2>3. \A n : Vouched(n) => Vouched(n)'
    BY <2>1, VouchedStays
  <2>4. ProjectionVouched'
    BY <2>1, <2>2, <2>3 DEF FrozenInv, StampsVouched, ProjectionVouched
  <2> QED BY <2>1, <2>2, <2>3, <2>4 DEF FrozenInv, StampsVouched, ValidationVouched
<1>3. CASE BindRevision /\ j.doc # 0 /\ j.doc = run.doc
  <2>1. /\ j.pc = "checking" /\ job' = [job EXCEPT !["projection"].pc = "bound"]
        /\ UNCHANGED <<run, judged, torn>>
    BY <1>3 DEF BindRevision
  <2>2. k.pc = "bound" /\ k.doc = j.doc /\ job'["validation"] = job["validation"]
    BY <1>0, <2>1 DEF JobState
  <2>3. \A n : Vouched(n) => Vouched(n)'
    BY <2>1, VouchedStays
  <2>4. ProjectionVouched'
    BY <1>3, <2>1, <2>2, <2>3 DEF FrozenInv, ProjectionVouched
  <2> QED BY <2>1, <2>2, <2>3, <2>4 DEF FrozenInv, StampsVouched, ValidationVouched
<1>4. CASE ReadTasks(TRUE)
  <2>1. /\ j.pc = "bound" /\ UNCHANGED <<run, judged, torn>>
        /\ job' = [job EXCEPT !["projection"] = [j EXCEPT !.pc = "sound", !.doc = run.doc]]
    BY <1>4 DEF ReadTasks
  <2>2. k.pc = "sound" /\ k.doc = run.doc /\ job'["validation"] = job["validation"]
    BY <1>0, <2>1 DEF JobState
  <2>3. \A n : Vouched(n) => Vouched(n)'
    BY <2>1, VouchedStays
  <2>4. Vouched(j.doc)'
    <3>1. CASE torn
      BY <2>1, <3>1 DEF Vouched
    <3>2. CASE ~torn
      BY <2>1, <2>2, <2>3, <3>2 DEF FrozenInv, ProjectionVouched
    <3> QED BY <3>1, <3>2
  <2> QED BY <2>1, <2>2, <2>3, <2>4
          DEF FrozenInv, StampsVouched, ValidationVouched, ProjectionVouched
<1>5. CASE StampSpec
  <2>1. /\ j.pc = "sound" /\ run' = [run EXCEPT !.spec = j.doc]
        /\ job' = [job EXCEPT !["projection"] = NoJob] /\ UNCHANGED <<judged, torn>>
    BY <1>5 DEF StampSpec
  <2>2. k.pc = "idle" /\ job'["validation"] = job["validation"]
    BY <1>0, <2>1 DEF NoJob
  <2>3. run'.doc = run.doc /\ run'.validated = run.validated /\ run'.spec = j.doc
    BY <1>0, <2>1 DEF RunState
  <2>4. Vouched(run'.spec)
    BY <2>1, <2>3 DEF FrozenInv, ProjectionVouched
  <2> QED BY <2>1, <2>2, <2>3, <2>4
          DEF FrozenInv, StampsVouched, ValidationVouched, ProjectionVouched, Vouched
<1>6. ReadValidated => <1>1!1 \/ run.spec = 0
  BY DEF ReadValidated
<1>7. BindRevision => <1>1!1 \/ (j.doc # 0 /\ j.doc = run.doc)
  BY DEF BindRevision
<1>8. ReadTasks(FALSE) => <1>1!1
  BY DEF ReadTasks
<1> QED BY <1>1, <1>2, <1>3, <1>4, <1>5, <1>6, <1>7, <1>8 DEF ProjectionNext

LEMMA ProvisionFrame ==
  ASSUME Typed, ProvisionNext
  PROVE  /\ run'.doc = run.doc /\ run'.validated = run.validated /\ run'.spec = run.spec
         /\ run'.decision = run.decision
         /\ UNCHANGED <<loop, firing, judged, torn>> /\ used'.restarts = used.restarts
         /\ \A t \in Stations \ {"provision"} : job'[t] = job[t]
<1>0. run \in RunState /\ used \in Usage /\ job \in [Stations -> JobState]
  BY DEF Typed, TypeOK
<1>1. UNCHANGED <<loop, firing, judged, torn>>
  BY DEF ProvisionNext, Materialize, ProveCold, StampSandbox
<1>2. run' = run \/ \E v : run' = [run EXCEPT !.sandbox = v]
  BY DEF ProvisionNext, Materialize, ProveCold, StampSandbox
<1>3. used' = used \/ \E n : used' = [used EXCEPT !.errors = n]
  BY DEF ProvisionNext, Materialize, ProveCold, StampSandbox, Error
<1>4. \A t \in Stations \ {"provision"} : job'[t] = job[t]
  <2>1. CASE Materialize
    BY <1>0, <2>1 DEF Materialize
  <2>2. CASE \E b \in BOOLEAN : ProveCold(b)
    BY <1>0, <2>2 DEF ProveCold
  <2>3. CASE StampSandbox
    BY <1>0, <2>3 DEF StampSandbox
  <2> QED BY <2>1, <2>2, <2>3 DEF ProvisionNext
<1> QED BY <1>0, <1>1, <1>2, <1>3, <1>4 DEF RunState, Usage

LEMMA StepFrozen == Typed /\ FrozenInv /\ [Next]_vars => FrozenInv'
<1> SUFFICES ASSUME Typed, FrozenInv, [Next]_vars PROVE FrozenInv'
  OBVIOUS
<1>1. CASE UNCHANGED vars
  BY <1>1, FrozenFrame DEF vars
<1>2. CASE \/ EngineNext \/ \E f \in firing : LoseAction(f)
           \/ \E l \in Loops, a \in Actions : Decide(l, a)
           \/ \E l \in Loops : MarkAuthored(l) \/ EndUndecided(l)
  BY <1>2, EngineFrame, FrozenFrame
<1>3. ASSUME NEW l \in Loops, WriteChange(l) PROVE FrozenInv'
  BY <1>3, WriteFrozen
<1>4. ASSUME NEW d \in {"approve", "reject"}, DecideGate(d) PROVE FrozenInv'
  <2>1. run' = [run EXCEPT !.decision = d] /\ UNCHANGED <<job, judged, torn>>
    BY <1>4 DEF DecideGate
  <2>2. run'.doc = run.doc /\ run'.validated = run.validated /\ run'.spec = run.spec
    BY <2>1 DEF Typed, TypeOK, RunState
  <2> QED BY <2>1, <2>2, FrozenFrame
<1>5. CASE Restart
  <2>1. \A s \in Stations : job'[s].pc \in Resting
    BY <1>5 DEF Restart, NoJob, Resting
  <2> QED BY <1>5, <2>1, FrozenFrame DEF Restart
<1>6. ASSUME NEW s \in Stations,
             Take(s) \/ StampDispatchFailed(s) \/ HandleError(s) \/ DropDispatch(s)
      PROVE  FrozenInv'
  BY <1>6, StationFrame, FrozenFrame
<1>7. CASE ValidationNext \/ ProjectionNext
  BY <1>7, ValidationFrozen, ProjectionFrozen
<1>8. CASE ProvisionNext
  <2>1. job'["validation"] = job["validation"] /\ job'["projection"] = job["projection"]
    BY <1>8, ProvisionFrame DEF Stations
  <2> QED BY <1>8, <2>1, ProvisionFrame
          DEF FrozenInv, StampsVouched, ValidationVouched, ProjectionVouched, Vouched
<1>9. ASSUME NEW s \in Stations, StationNext(s)
      PROVE  \/ Take(s) \/ StampDispatchFailed(s) \/ ValidationNext \/ ProjectionNext
             \/ ProvisionNext
  BY <1>9 DEF StationNext, ValidationNext, ProjectionNext, ProvisionNext
<1> QED BY <1>1, <1>2, <1>3, <1>4, <1>5, <1>6, <1>7, <1>8, <1>9 DEF Next, LoopNext

(* What developers work from has been passed by the oracle, whatever is    *)
(* retried, lost or started again.                                         *)
THEOREM FrozenWasValidated == Spec => []FrozenIsValidated
<1>1. Spec => []Typed
  BY InitTyped, StepTyped, PTL DEF Spec
<1>2. Spec => []FrozenInv
  BY <1>1, InitFrozen, StepFrozen, PTL DEF Spec
<1>3. FrozenInv => FrozenIsValidated
  BY DEF FrozenInv, StampsVouched, Vouched, FrozenIsValidated
<1> QED BY <1>2, <1>3, PTL

-----------------------------------------------------------------------------
(* What lets development start.  A loop decides once, and only what its    *)
(* kind may; a front-door loop is anchored only by the mint it decided;    *)
(* so an anchored loop that decides dev_from_task is the one that the      *)
(* kick-off spawned, and the kick-off fires on a cleared run, which stays  *)
(* cleared: neither the decision nor the frozen revision is ever undone.   *)

Choosing == \A l \in Loops :
  /\ loop[l].decision # "none" =>
       loop[l].pc = "ended" /\ loop[l].decision \in Choices(loop[l].kind)
  /\ loop[l].kind = "front" /\ Has(l, "anchored") => loop[l].decision = "issue_intake"

Minting == \A f \in firing : f.rule = "mint" => Decided(f.on, "issue_intake")

Alive == checkout.warm \/ used.restarts > 0
Readiness == /\ run.sandbox = "ready" => Alive
             /\ job["provision"].pc = "warm" => Alive
Bound == /\ job["projection"].pc = "bound" => run.doc # 0
         /\ job["projection"].pc = "sound" => job["projection"].doc # 0

Cleared == run.decision = "approve" /\ run.spec # 0 /\ Alive

Developing == \/ \E l \in Loops : loop[l].kind \in {"dev", "developer"}
              \/ \E f \in firing : f.rule \in {"kick-off", "develop"}

ClearedInv == /\ Choosing /\ Minting /\ Readiness /\ Bound
              /\ Developing => Cleared

LEMMA InitCleared == Init => ClearedInv
<1> SUFFICES ASSUME Init PROVE ClearedInv
  OBVIOUS
<1>1. \A l \in Loops : loop[l].decision = "none" /\ loop[l].kind \in {"front", "none"}
                       /\ loop[l].marks = {}
  BY DEF Init, Spawned, Unborn
<1>2. firing = {} /\ run.sandbox = "none"
  BY DEF Init
<1>3. job["provision"].pc = "idle" /\ job["projection"].pc = "idle"
  BY DEF Init, NoJob, Stations
<1> QED
  BY <1>1, <1>2, <1>3 DEF ClearedInv, Choosing, Minting, Readiness, Bound, Developing, Has

(* Steps that only mark, end or leave loops.                               *)
LEMMA LoopsKept ==
  ASSUME Typed, ClearedInv,
         \A l \in Loops : /\ loop'[l].kind = loop[l].kind
                          /\ loop'[l].decision = loop[l].decision
                          /\ loop[l].decision # "none" => loop'[l].pc = loop[l].pc
                          /\ loop[l].kind = "front" /\ Has(l, "anchored")'
                               => loop[l].decision = "issue_intake",
         \A g \in firing' : \E h \in firing : g.rule = h.rule /\ g.on = h.on
  PROVE  Choosing' /\ Minting' /\ (Developing' => Developing)
<1>1. Choosing'
  BY DEF ClearedInv, Choosing
<1>2. Minting'
  <2>1. SUFFICES ASSUME NEW g \in firing', g.rule = "mint" PROVE Decided(g.on, "issue_intake")'
    BY DEF Minting
  <2>2. PICK h \in firing : g.rule = h.rule /\ g.on = h.on
    OBVIOUS
  <2>3. Decided(g.on, "issue_intake")
    BY <2>1, <2>2 DEF ClearedInv, Minting
  <2>4. g.on \in Loops
    <3>1. <<h.rule, h.on>> \in RuleOn
      BY DEF Typed, TypeOK
    <3> QED BY <2>1, <2>2, <3>1, RuleOnFacts DEF LoopRules
  <2> QED BY <2>3, <2>4 DEF Decided
<1>3. Developing' => Developing
  BY DEF Developing
<1> QED BY <1>1, <1>2, <1>3

(* A cleared run stays cleared.                                            *)
LEMMA StaysCleared ==
  ASSUME Typed, ClearedInv, Choosing', Minting', Readiness', Bound', Developing' => Cleared,
         run'.decision = run.decision \/ run.decision = "none",
         run'.spec = run.spec \/ run'.spec # 0, Alive => Alive'
  PROVE  ClearedInv'
  BY DEF ClearedInv, Cleared

LEMMA RunKept ==
  ASSUME Typed, ClearedInv,
         run'.doc = run.doc, run'.spec = run.spec, run'.decision = run.decision,
         run'.sandbox = run.sandbox, checkout' = checkout, used'.restarts = used.restarts,
         \A t \in Stations : job'[t] = job[t] \/ job'[t].pc \in Resting
  PROVE  Readiness' /\ Bound' /\ (Alive => Alive') /\ (Cleared => Cleared')
<1>1. "provision" \in Stations /\ "projection" \in Stations
  BY DEF Stations
<1> QED BY <1>1 DEF ClearedInv, Readiness, Bound, Alive, Cleared, Resting

LEMMA FireCleared ==
  ASSUME "dev_from_task" \notin RouteActions, Typed, ClearedInv,
         NEW re \in RuleOn, Fire(re[1], re[2])
  PROVE  ClearedInv'
<1>1. PICK r, e : re = <<r, e>> /\ <<r, e>> \in RuleOn
  BY DEF RuleOn
<1>2. /\ Fire(r, e) /\ When(r, e) /\ r \in LoopRules \cup RunRules
      /\ r \in LoopRules => e \in Loops
      /\ r \in RunRules => e = Run
  BY <1>1, RuleOnFacts DEF Fire
<1> DEFINE f == [rule |-> r, on |-> e, todo |-> Does(r)]
<1>3. /\ firing' = firing \cup {f} /\ f.rule = r /\ f.on = e
      /\ UNCHANGED <<run, loop, checkout, queue, job, judged, torn, used>>
  BY <1>2 DEF Fire
<1>4. Loops \cap {Run} = {}
  BY KickoffAssumption DEF Loops, Run
<1>5. Minting'
  <2>1. r = "mint" => Decided(e, "issue_intake")
    <3>1. ASSUME r = "mint" PROVE Mint(e)
      <4>1. e \in Loops /\ e # Run
        BY <1>2, <1>4, <3>1 DEF LoopRules
      <4> QED BY <1>2, <3>1, <4>1 DEF When
    <3> QED BY <3>1 DEF Mint
  <2>2. \A g \in firing' : g \in firing \/ (g.rule = r /\ g.on = e)
    BY <1>3
  <2> QED BY <1>3, <2>1, <2>2 DEF ClearedInv, Minting, Decided
<1>6. r = "kick-off" => Cleared
  <2>1. SUFFICES ASSUME r = "kick-off" PROVE Cleared
    OBVIOUS
  <2>2. e = Run
    BY <1>2, <2>1 DEF RunRules
  <2>3. KickOff
    BY <1>2, <2>1, <2>2 DEF When
  <2> QED BY <2>3 DEF KickOff, Approved, Cleared, ClearedInv, Readiness
<1>7. r = "develop" => Cleared
  <2>1. SUFFICES ASSUME r = "develop" PROVE Cleared
    OBVIOUS
  <2>2. e \in Loops /\ e # Run
    BY <1>2, <1>4, <2>1 DEF LoopRules
  <2>3. Develop(e)
    BY <1>2, <2>1, <2>2 DEF When
  <2>4. /\ loop[e].kind \in Coordinators /\ loop[e].decision = "dev_from_task"
        /\ Has(e, "anchored")
    BY <2>3 DEF Develop, Decided
  <2>5. "dev_from_task" \in Choices(loop[e].kind) /\ loop[e].kind # "front"
    BY <2>2, <2>4 DEF ClearedInv, Choosing
  <2>6. loop[e].kind = "dev"
    BY <2>4, <2>5 DEF Choices, Coordinators
  <2> QED BY <2>2, <2>6 DEF ClearedInv, Developing
<1>8. Developing' => Cleared
  <2>1. CASE \E l \in Loops : loop'[l].kind \in {"dev", "developer"}
    BY <1>3, <2>1 DEF ClearedInv, Developing
  <2>2. ASSUME NEW g \in firing', g.rule \in {"kick-off", "develop"} PROVE Cleared
    <3>1. CASE g \in firing
      BY <2>2, <3>1 DEF ClearedInv, Developing
    <3>2. CASE g = f
      BY <1>3, <1>6, <1>7, <2>2, <3>2
    <3> QED BY <1>3, <3>1, <3>2
  <2> QED BY <2>1, <2>2 DEF Developing
<1> HIDE DEF f
<1>9. Choosing' /\ Readiness' /\ Bound' /\ (Alive => Alive')
  BY <1>3 DEF ClearedInv, Choosing, Readiness, Bound, Alive, Has
<1> QED BY <1>3, <1>5, <1>8, <1>9, StaysCleared

(* A frame for steps that keep the loops, the run and the sandbox.         *)
LEMMA KeptCleared ==
  ASSUME Typed, ClearedInv,
         \A l \in Loops : /\ loop'[l].kind = loop[l].kind
                          /\ loop'[l].decision = loop[l].decision
                          /\ loop[l].decision # "none" => loop'[l].pc = loop[l].pc
                          /\ loop[l].kind = "front" /\ Has(l, "anchored")'
                               => loop[l].decision = "issue_intake",
         \A g \in firing' : \E h \in firing : g.rule = h.rule /\ g.on = h.on,
         run'.doc = run.doc, run'.spec = run.spec, run'.decision = run.decision,
         run'.sandbox = run.sandbox, checkout' = checkout, used'.restarts = used.restarts,
         \A t \in Stations : job'[t] = job[t] \/ job'[t].pc \in Resting
  PROVE  ClearedInv'
<1>1. Choosing' /\ Minting' /\ (Developing' => Developing)
  BY LoopsKept
<1>2. Readiness' /\ Bound' /\ (Alive => Alive') /\ (Cleared => Cleared')
  BY RunKept
<1> QED BY <1>1, <1>2 DEF ClearedInv

LEMMA SpawnCleared ==
  ASSUME Typed, ClearedInv, NEW f \in firing, SpawnLoop(f) PROVE ClearedInv'
<1>0. loop \in [Loops -> LoopState] /\ Head(f.todo) \in StepsOf(f.rule)
  BY FiringFacts DEF Typed, TypeOK
<1>1. PICK l \in Loops, b \in BOOLEAN :
        loop[l].pc = "unborn" /\ loop' = [loop EXCEPT ![l] = Spawned(Head(f.todo), b)]
  BY DEF SpawnLoop, Has
<1>2. /\ loop'[l].kind = Head(f.todo) /\ loop'[l].decision = "none"
      /\ Head(f.todo) \in Kinds /\ Head(f.todo) # "front"
      /\ \A k \in Loops : k # l => loop'[k] = loop[k]
  BY <1>0, <1>1 DEF SpawnLoop, Spawned, Kinds
<1>3. loop[l].decision = "none"
  BY <1>1 DEF ClearedInv, Choosing
<1>4. Advance(f) /\ UNCHANGED <<run, checkout, job, used>>
  BY DEF SpawnLoop
<1>5. \A g \in firing' : \E h \in firing : g.rule = h.rule /\ g.on = h.on
  BY <1>4, AdvanceTyped
<1>6. Choosing'
  <2>1. SUFFICES ASSUME NEW k \in Loops
                 PROVE  /\ loop'[k].decision # "none" => loop'[k].pc = "ended" /\
                             loop'[k].decision \in Choices(loop'[k].kind)
                        /\ loop'[k].kind = "front" /\ Has(k, "anchored")' =>
                             loop'[k].decision = "issue_intake"
    BY DEF Choosing
  <2>2. CASE k = l
    BY <1>2, <2>2
  <2>3. CASE k # l
    BY <1>2, <2>3 DEF ClearedInv, Choosing, Has
  <2> QED BY <2>2, <2>3
<1>7. Minting'
  <2>1. SUFFICES ASSUME NEW g \in firing', g.rule = "mint" PROVE Decided(g.on, "issue_intake")'
    BY DEF Minting
  <2>2. PICK h \in firing : g.rule = h.rule /\ g.on = h.on
    BY <1>5
  <2>3. Decided(g.on, "issue_intake") /\ g.on \in Loops
    <3>1. <<h.rule, h.on>> \in RuleOn
      BY DEF Typed, TypeOK
    <3> QED BY <2>1, <2>2, <3>1, RuleOnFacts DEF LoopRules, ClearedInv, Minting
  <2>4. g.on # l
    BY <1>3, <2>3 DEF Decided
  <2> QED BY <1>2, <2>3, <2>4 DEF Decided
<1>8. Developing' => Cleared
  <2>1. ASSUME NEW k \in Loops, loop'[k].kind \in {"dev", "developer"} PROVE Cleared
    <3>1. CASE k = l
      <4>1. f.rule \in {"kick-off", "develop"}
        BY <1>0, <1>2, <2>1, <3>1 DEF StepsOf
      <4> QED BY <4>1 DEF ClearedInv, Developing
    <3>2. CASE k # l
      BY <1>2, <2>1, <3>2 DEF ClearedInv, Developing
    <3> QED BY <3>1, <3>2
  <2>2. ASSUME NEW g \in firing', g.rule \in {"kick-off", "develop"} PROVE Cleared
    BY <1>5, <2>2 DEF ClearedInv, Developing
  <2> QED BY <2>1, <2>2 DEF Developing
<1>9. Readiness' /\ Bound' /\ (Alive => Alive')
  BY <1>4 DEF ClearedInv, Readiness, Bound, Alive
<1> QED BY <1>4, <1>6, <1>7, <1>8, <1>9, StaysCleared

LEMMA MarkKeeps ==
  ASSUME Typed, ClearedInv, NEW l \in Loops, NEW m,
         m = "anchored" => Decided(l, "issue_intake"),
         loop' = [loop EXCEPT ![l].marks = @ \cup {m}]
  PROVE  \A k \in Loops : /\ loop'[k].kind = loop[k].kind
                          /\ loop'[k].decision = loop[k].decision
                          /\ loop[k].decision # "none" => loop'[k].pc = loop[k].pc
                          /\ loop[k].kind = "front" /\ Has(k, "anchored")'
                               => loop[k].decision = "issue_intake"
<1>1. loop \in [Loops -> LoopState] /\ loop[l] \in LoopState
  BY DEF Typed, TypeOK
<1>2. \A k \in Loops : k # l => loop'[k] = loop[k]
  BY <1>1
<1>3. /\ loop'[l].kind = loop[l].kind /\ loop'[l].decision = loop[l].decision
      /\ loop'[l].pc = loop[l].pc /\ loop'[l].marks = loop[l].marks \cup {m}
  BY <1>1 DEF LoopState
<1>4. loop[l].kind = "front" /\ Has(l, "anchored")' => loop[l].decision = "issue_intake"
  BY <1>3 DEF Has, Decided, ClearedInv, Choosing
<1>5. \A k \in Loops : k # l /\ loop[k].kind = "front" /\ Has(k, "anchored")'
                         => loop[k].decision = "issue_intake"
  BY <1>2 DEF Has, ClearedInv, Choosing
<1> QED BY <1>2, <1>3, <1>4, <1>5

LEMMA ActCleared ==
  ASSUME Typed, ClearedInv, NEW f \in firing, Act(f) \/ LoseAction(f) PROVE ClearedInv'
<1>1. CASE SpawnLoop(f)
  BY <1>1, SpawnCleared
<1>2. CASE ~SpawnLoop(f)
  <2>1. /\ run'.doc = run.doc /\ run'.spec = run.spec /\ run'.decision = run.decision
        /\ run'.sandbox = run.sandbox /\ UNCHANGED <<checkout, job>>
        /\ used'.restarts = used.restarts
    BY EngineFrame DEF EngineNext
  <2>2. \A g \in firing' : \E h \in firing : g.rule = h.rule /\ g.on = h.on
    <3>1. CASE Advance(f)
      BY <3>1, AdvanceTyped
    <3>2. CASE firing' = firing \ {f}
      BY <3>2
    <3> QED BY <3>1, <3>2 DEF Act, AddMark, AddToRun, MovePhase, SpawnLoop, PublishDispatch,
                              LoseAction
  <2>3. CASE loop' = loop
    BY <2>1, <2>2, <2>3, KeptCleared DEF ClearedInv, Choosing, Has
  <2>4. CASE loop' # loop
    <3>1. AddMark(f) /\ f.on # Run
      BY <1>2, <2>4 DEF Act, AddMark, AddToRun, MovePhase, PublishDispatch, LoseAction
    <3>2. f.on \in Loops /\ Head(f.todo) \in StepsOf(f.rule)
      BY <3>1, FiringFacts, RuleOnFacts
    <3>3. Head(f.todo) = "anchored" => Decided(f.on, "issue_intake")
      BY <3>2 DEF StepsOf, ClearedInv, Minting
    <3>4. loop' = [loop EXCEPT ![f.on].marks = loop[f.on].marks \cup {Head(f.todo)}]
      BY <3>1 DEF AddMark
    <3>5. \A k \in Loops : /\ loop'[k].kind = loop[k].kind
                           /\ loop'[k].decision = loop[k].decision
                           /\ loop[k].decision # "none" => loop'[k].pc = loop[k].pc
                           /\ loop[k].kind = "front" /\ Has(k, "anchored")'
                                => loop[k].decision = "issue_intake"
      BY <3>2, <3>3, <3>4, MarkKeeps
    <3> QED BY <2>1, <2>2, <3>5, KeptCleared
  <2> QED BY <2>3, <2>4
<1> QED BY <1>1, <1>2

LEMMA DecideCleared ==
  ASSUME Typed, ClearedInv, NEW l \in Loops, NEW a \in Actions, Decide(l, a) PROVE ClearedInv'
<1>0. loop \in [Loops -> LoopState] /\ loop[l] \in LoopState
  BY DEF Typed, TypeOK
<1>1. /\ loop[l].pc = "working" /\ a \in Choices(loop[l].kind) /\ firing' = firing
      /\ \A k \in Loops : k # l => loop'[k] = loop[k]
      /\ loop'[l].kind = loop[l].kind /\ loop'[l].marks = loop[l].marks
      /\ loop'[l].decision = a /\ loop'[l].pc = "ended"
  BY <1>0 DEF Decide, LoopState
<1>2. loop[l].decision = "none"
  BY <1>1 DEF ClearedInv, Choosing
<1>3. Choosing'
  <2>1. loop[l].kind = "front" => ~Has(l, "anchored")
    BY <1>2 DEF ClearedInv, Choosing
  <2>2. loop[l].kind = "front" => ~Has(l, "anchored")'
    BY <1>1, <2>1 DEF Has
  <2>3. SUFFICES ASSUME NEW k \in Loops
                 PROVE  /\ loop'[k].decision # "none" => loop'[k].pc = "ended" /\
                             loop'[k].decision \in Choices(loop'[k].kind)
                        /\ loop'[k].kind = "front" /\ Has(k, "anchored")' =>
                             loop'[k].decision = "issue_intake"
    BY DEF Choosing
  <2>4. CASE k = l
    BY <1>1, <2>2, <2>4
  <2>5. CASE k # l
    BY <1>1, <2>5 DEF ClearedInv, Choosing, Has
  <2> QED BY <2>4, <2>5
<1>4. Minting'
  <2>1. SUFFICES ASSUME NEW g \in firing, g.rule = "mint" PROVE Decided(g.on, "issue_intake")'
    BY <1>1 DEF Minting
  <2>2. Decided(g.on, "issue_intake") /\ g.on \in Loops
    <3>1. <<g.rule, g.on>> \in RuleOn
      BY DEF Typed, TypeOK
    <3> QED BY <2>1, <3>1, RuleOnFacts DEF LoopRules, ClearedInv, Minting
  <2>3. g.on # l
    BY <1>2, <2>2 DEF Decided
  <2> QED BY <1>1, <2>2, <2>3 DEF Decided
<1>5. Developing' => Developing
  BY <1>1 DEF Developing
<1>6. Readiness' /\ Bound' /\ (Alive => Alive') /\ (Cleared => Cleared')
  BY EngineFrame, RunKept
<1> QED BY <1>3, <1>4, <1>5, <1>6 DEF ClearedInv

(* Authoring, and loops that end undecided.                                *)
LEMMA EndKeeps ==
  ASSUME Typed, ClearedInv, NEW l \in Loops,
         WriteChange(l) \/ MarkAuthored(l) \/ EndUndecided(l)
  PROVE  \A k \in Loops : /\ loop'[k].kind = loop[k].kind
                          /\ loop'[k].decision = loop[k].decision
                          /\ loop[k].decision # "none" => loop'[k].pc = loop[k].pc
                          /\ loop[k].kind = "front" /\ Has(k, "anchored")'
                               => loop[k].decision = "issue_intake"
<1>0. loop \in [Loops -> LoopState] /\ loop[l] \in LoopState
  BY DEF Typed, TypeOK
<1>1. loop[l].pc # "ended"
  BY DEF WriteChange, MarkAuthored, EndUndecided
<1>2. loop[l].decision = "none"
  BY <1>1 DEF ClearedInv, Choosing
<1>3. \/ \E pc : loop' = [loop EXCEPT ![l].pc = pc]
      \/ loop' = [loop EXCEPT ![l].pc = "ended", ![l].marks = @ \cup {"authored"}]
  BY DEF WriteChange, MarkAuthored, EndUndecided
<1>4. /\ \A k \in Loops : k # l => loop'[k] = loop[k]
      /\ loop'[l].kind = loop[l].kind /\ loop'[l].decision = loop[l].decision
      /\ loop'[l].marks \in {loop[l].marks, loop[l].marks \cup {"authored"}}
  BY <1>0, <1>3 DEF LoopState
<1>5. ASSUME NEW k \in Loops, loop[k].kind = "front", Has(k, "anchored")'
      PROVE  loop[k].decision = "issue_intake"
  <2>1. Has(k, "anchored")
    BY <1>4, <1>5 DEF Has
  <2> QED BY <1>5, <2>1 DEF ClearedInv, Choosing
<1> QED BY <1>2, <1>4, <1>5

LEMMA EndCleared ==
  ASSUME Typed, ClearedInv, NEW l \in Loops, MarkAuthored(l) \/ EndUndecided(l)
  PROVE  ClearedInv'
<1>1. /\ run'.doc = run.doc /\ run'.spec = run.spec /\ run'.decision = run.decision
      /\ run'.sandbox = run.sandbox /\ UNCHANGED <<checkout, job>>
      /\ used'.restarts = used.restarts
  BY EngineFrame
<1>2. firing' = firing
  BY DEF MarkAuthored, EndUndecided
<1> QED BY <1>1, <1>2, EndKeeps, KeptCleared

LEMMA WriteCleared ==
  ASSUME Typed, ClearedInv, NEW l \in Loops, WriteChange(l) PROVE ClearedInv'
<1>1. Choosing' /\ Minting' /\ (Developing' => Developing)
  BY EndKeeps, LoopsKept DEF WriteChange
<1>2. /\ run' = [run EXCEPT !.doc = run.doc + 1] /\ UNCHANGED <<checkout, job, used>>
      /\ run \in RunState
  BY DEF WriteChange, Typed, TypeOK
<1>3. /\ run'.doc = run.doc + 1 /\ run'.spec = run.spec /\ run'.decision = run.decision
      /\ run'.sandbox = run.sandbox /\ run.doc \in Nat
  BY <1>2 DEF RunState
<1>4. run'.doc # 0
  BY <1>3
<1> QED BY <1>1, <1>2, <1>3, <1>4 DEF ClearedInv, Readiness, Bound, Alive, Cleared

LEMMA DecideGateCleared ==
  ASSUME Typed, ClearedInv, NEW d \in {"approve", "reject"}, DecideGate(d) PROVE ClearedInv'
<1>1. /\ run' = [run EXCEPT !.decision = d] /\ UNCHANGED <<loop, checkout, firing, job, used>>
      /\ run.decision = "none" /\ run \in RunState
  BY DEF DecideGate, Typed, TypeOK
<1>2. run'.doc = run.doc /\ run'.spec = run.spec /\ run'.sandbox = run.sandbox
  BY <1>1 DEF RunState
<1>3. ~Developing'
  BY <1>1 DEF ClearedInv, Developing, Cleared
<1> QED BY <1>1, <1>2, <1>3
        DEF ClearedInv, Choosing, Has, Minting, Decided, Readiness, Bound, Alive

LEMMA StationCleared ==
  ASSUME Typed, ClearedInv, NEW s \in Stations,
         Take(s) \/ StampDispatchFailed(s) \/ HandleError(s) \/ DropDispatch(s)
  PROVE  ClearedInv'
<1>1. /\ run'.doc = run.doc /\ run'.spec = run.spec /\ run'.decision = run.decision
      /\ run'.sandbox = run.sandbox /\ UNCHANGED <<checkout, firing>>
      /\ used'.restarts = used.restarts
      /\ \A t \in Stations : job'[t] = job[t] \/ job'[t].pc \in Resting
  BY StationFrame
<1>2. CASE loop' = loop
  BY <1>1, <1>2, KeptCleared DEF ClearedInv, Choosing, Has
<1>3. CASE loop' # loop
  <2>1. /\ job[s].on # Run
        /\ loop' = [loop EXCEPT ![job[s].on].marks = loop[job[s].on].marks \cup {"failed"}]
    BY <1>3 DEF Take, StampDispatchFailed, HandleError, DropDispatch
  <2>2. job[s].on \in Loops
    BY <2>1, JobFacts DEF JobState
  <2>3. \A k \in Loops : /\ loop'[k].kind = loop[k].kind
                         /\ loop'[k].decision = loop[k].decision
                         /\ loop[k].decision # "none" => loop'[k].pc = loop[k].pc
                         /\ loop[k].kind = "front" /\ Has(k, "anchored")'
                              => loop[k].decision = "issue_intake"
    <3>1. "failed" = "anchored" => Decided(job[s].on, "issue_intake")
      OBVIOUS
    <3> QED BY <2>1, <2>2, <3>1, MarkKeeps
  <2> QED BY <1>1, <2>3, KeptCleared
<1> QED BY <1>2, <1>3

LEMMA HandlersCleared ==
  ASSUME Typed, ClearedInv, ValidationNext \/ ProjectionNext \/ ProvisionNext
  PROVE  ClearedInv'
<1>0. /\ run \in RunState /\ job \in [Stations -> JobState] /\ checkout \in [made : Nat, warm : BOOLEAN]
      /\ "validation" \in Stations /\ "projection" \in Stations /\ "provision" \in Stations
      /\ job["projection"] \in JobState
  BY DEF Typed, TypeOK, Stations
<1>1. UNCHANGED <<loop, firing>> /\ used'.restarts = used.restarts
  <2>1. CASE ValidationNext
    BY <2>1 DEF ValidationNext, ReadDocument, Work, Judge, StampValidated
  <2>2. CASE ProjectionNext
    BY <2>2 DEF ProjectionNext, ReadValidated, Work, BindRevision, ReadTasks, StampSpec
  <2>3. CASE ProvisionNext
    BY <2>3, ProvisionFrame
  <2> QED BY <2>1, <2>2, <2>3
<1>2. Choosing' /\ Minting' /\ (Developing' => Developing)
  BY <1>1 DEF ClearedInv, Choosing, Has, Minting, Decided, Developing
<1>3. CASE ValidationNext
  <2>1. checkout' = checkout /\ \A t \in Stations \ {"validation"} : job'[t] = job[t]
    BY <1>0, <1>3 DEF ValidationNext, ReadDocument, Work, Judge, StampValidated
  <2>2. run' = run \/ \E v : run' = [run EXCEPT !.validated = v]
    BY <1>3 DEF ValidationNext, ReadDocument, Work, Judge, StampValidated
  <2>3. /\ run'.doc = run.doc /\ run'.spec = run.spec /\ run'.decision = run.decision
        /\ run'.sandbox = run.sandbox
    BY <1>0, <2>2 DEF RunState
  <2> QED BY <1>0, <1>1, <1>2, <2>1, <2>3 DEF ClearedInv, Readiness, Bound, Alive, Cleared
<1>4. CASE ProjectionNext
  <2>1. checkout' = checkout /\ run'.doc = run.doc /\ run'.decision = run.decision
        /\ run'.sandbox = run.sandbox
    BY <1>0, <1>4 DEF ProjectionNext, ReadValidated, Work, BindRevision, ReadTasks, StampSpec,
                      RunState
  <2>2. job'["provision"] = job["provision"]
    BY <1>0, <1>4 DEF ProjectionNext, ReadValidated, Work, BindRevision, ReadTasks, StampSpec,
                      Failing
  <2>3. Bound'
    <3>1. CASE job' = Failing("projection") /\ run' = run
      BY <1>0, <3>1, FailingRests DEF ClearedInv, Bound, Resting
    <3>2. CASE ReadValidated /\ run.spec = 0
      <4>1. job' = [job EXCEPT !["projection"] =
                      [job["projection"] EXCEPT !.pc = "checking", !.doc = run.validated]]
        BY <3>2 DEF ReadValidated, Work
      <4>2. job'["projection"].pc = "checking"
        BY <1>0, <4>1 DEF JobState
      <4> QED BY <4>2 DEF Bound
    <3>3. CASE BindRevision /\ job["projection"].doc # 0 /\ job["projection"].doc = run.doc
      <4>1. job'["projection"].pc = "bound"
        BY <1>0, <3>3 DEF BindRevision, JobState
      <4> QED BY <2>1, <3>3, <4>1 DEF Bound
    <3>4. CASE ReadTasks(TRUE)
      <4>1. /\ job'["projection"].pc = "sound" /\ job'["projection"].doc = run.doc
            /\ job["projection"].pc = "bound"
        BY <1>0, <3>4 DEF ReadTasks, JobState
      <4> QED BY <4>1 DEF ClearedInv, Bound
    <3>5. CASE StampSpec
      <4>1. job'["projection"].pc = "idle"
        BY <1>0, <3>5 DEF StampSpec, NoJob
      <4> QED BY <4>1 DEF Bound
    <3>6. ReadValidated => run.spec = 0 \/ (job' = Failing("projection") /\ run' = run)
      BY DEF ReadValidated
    <3>7. BindRevision => \/ job["projection"].doc # 0 /\ job["projection"].doc = run.doc
                          \/ job' = Failing("projection") /\ run' = run
      BY DEF BindRevision
    <3>8. ReadTasks(FALSE) => job' = Failing("projection") /\ run' = run
      BY DEF ReadTasks
    <3> QED BY <1>4, <3>1, <3>2, <3>3, <3>4, <3>5, <3>6, <3>7, <3>8 DEF ProjectionNext
  <2>4. run'.spec = run.spec \/ run'.spec # 0
    <3>1. CASE StampSpec
      BY <1>0, <3>1 DEF StampSpec, RunState, ClearedInv, Bound
    <3>2. CASE ~StampSpec
      BY <1>4, <3>2 DEF ProjectionNext, ReadValidated, Work, BindRevision, ReadTasks
    <3> QED BY <3>1, <3>2
  <2> QED BY <1>1, <1>2, <2>1, <2>2, <2>3, <2>4 DEF ClearedInv, Readiness, Alive, Cleared
<1>5. CASE ProvisionNext
  <2>1. /\ run'.doc = run.doc /\ run'.spec = run.spec /\ run'.decision = run.decision
        /\ job'["projection"] = job["projection"]
    BY <1>0, <1>5, ProvisionFrame DEF Stations
  <2>2. Alive => Alive'
    BY <1>0, <1>1, <1>5 DEF ProvisionNext, Materialize, ProveCold, StampSandbox, Alive
  <2>3. Readiness'
    <3>1. CASE Materialize
      <4>1. run' = run /\ job'["provision"].pc \in {"idle", "materialized", "blocked"}
        BY <1>0, <3>1 DEF Materialize, NoJob, JobState
      <4> QED BY <2>2, <4>1 DEF ClearedInv, Readiness
    <3>2. ASSUME NEW ok \in BOOLEAN, ProveCold(ok) PROVE Readiness'
      <4>1. run' = run
        BY <3>2 DEF ProveCold
      <4>2. CASE ok = TRUE
        <5>1. checkout'.warm
          BY <1>0, <3>2, <4>2 DEF ProveCold
        <5> QED BY <5>1 DEF Readiness, Alive
      <4>3. CASE ok = FALSE
        <5>1. job'["provision"].pc = "blocked"
          BY <1>0, <3>2, <4>3 DEF ProveCold, JobState
        <5> QED BY <2>2, <4>1, <5>1 DEF ClearedInv, Readiness
      <4> QED BY <4>2, <4>3
    <3>3. CASE StampSandbox
      <4>1. /\ run'.sandbox = "ready" => job["provision"].pc = "warm"
            /\ job'["provision"].pc = "idle"
        BY <1>0, <3>3 DEF StampSandbox, NoJob, RunState
      <4> QED BY <2>2, <4>1 DEF ClearedInv, Readiness
    <3> QED BY <1>5, <3>1, <3>2, <3>3 DEF ProvisionNext
  <2> QED BY <1>2, <2>1, <2>2, <2>3 DEF ClearedInv, Bound, Cleared
<1> QED BY <1>3, <1>4, <1>5

LEMMA RestartCleared == Typed /\ ClearedInv /\ Restart => ClearedInv'
<1> SUFFICES ASSUME Typed, ClearedInv, Restart PROVE ClearedInv'
  OBVIOUS
<1>1. used'.restarts > 0
  <2>1. used \in Usage /\ used.restarts \in Nat
    BY DEF Typed, TypeOK, Usage
  <2>2. used'.restarts = used.restarts + 1
    BY <2>1 DEF Restart, Usage
  <2> QED BY <2>1, <2>2
<1>2. \A s \in Stations : job'[s].pc = "idle"
  BY DEF Restart, NoJob
<1>3. UNCHANGED <<run, loop>> /\ firing' = {}
  BY DEF Restart
<1>4. Developing' => Developing
  BY <1>3 DEF Developing
<1> QED BY <1>1, <1>2, <1>3, <1>4
        DEF ClearedInv, Choosing, Has, Minting, Readiness, Bound, Alive, Cleared, Stations

LEMMA StepCleared ==
  ASSUME "dev_from_task" \notin RouteActions
  PROVE  Typed /\ ClearedInv /\ [Next]_vars => ClearedInv'
<1> SUFFICES ASSUME Typed, ClearedInv, [Next]_vars PROVE ClearedInv'
  OBVIOUS
<1>1. CASE UNCHANGED vars
  BY <1>1 DEF vars, ClearedInv, Choosing, Has, Minting, Decided, Readiness, Bound, Alive,
              Developing, Cleared
<1>2. ASSUME NEW re \in RuleOn, Fire(re[1], re[2]) PROVE ClearedInv'
  BY <1>2, FireCleared
<1>3. ASSUME NEW f \in firing, Act(f) \/ LoseAction(f) PROVE ClearedInv'
  BY <1>3, ActCleared
<1>4. ASSUME NEW l \in Loops, LoopNext(l) \/ EndUndecided(l) PROVE ClearedInv'
  BY <1>4, DecideCleared, WriteCleared, EndCleared DEF LoopNext
<1>5. ASSUME NEW s \in Stations, StationNext(s) \/ HandleError(s) \/ DropDispatch(s)
      PROVE  ClearedInv'
  BY <1>5, StationCleared, HandlersCleared
  DEF StationNext, ValidationNext, ProjectionNext, ProvisionNext
<1> QED BY <1>1, <1>2, <1>3, <1>4, <1>5, DecideGateCleared, RestartCleared DEF Next, EngineNext

(* As long as no routing coordinator decides development, neither a        *)
(* development coordinator nor a developer is started unless the run was   *)
(* approved, its tasks frozen and its sandbox proved.                      *)
THEOREM DevelopmentStartsCleared ==
  ASSUME "dev_from_task" \notin RouteActions PROVE Spec => []DevelopmentIsCleared
<1>1. Spec => []Typed
  BY InitTyped, StepTyped, PTL DEF Spec
<1>2. Spec => []ClearedInv
  BY <1>1, InitCleared, StepCleared, PTL DEF Spec
<1>3. ClearedInv => DevelopmentIsCleared
  <2>1. SUFFICES ASSUME ClearedInv, ~Developing, Count("dev") + Count("developer") > 0 PROVE FALSE
    BY DEF ClearedInv, Cleared, Alive, DevelopmentIsCleared
  <2>2. \A k \in {"dev", "developer"} : Count(k) = 0
    <3>1. SUFFICES ASSUME NEW k \in {"dev", "developer"} PROVE Count(k) = 0
      OBVIOUS
    <3>2. {l \in Loops : loop[l].kind = k} = {}
      BY <2>1 DEF Developing
    <3> QED BY <3>2, FS_EmptySet DEF Count
  <2> QED BY <2>1, <2>2
<1> QED BY <1>2, <1>3, PTL

-----------------------------------------------------------------------------
(* One of everything.  Four rules must act once: the mint, the provision,  *)
(* the kick-off and the dispatch of the developer.  Each writes a mark     *)
(* before it makes what it is for.                                         *)

OneShot == {"mint", "provision", "kick-off", "develop"}

Mark(r) == CASE r = "mint" -> "anchored" [] r = "provision" -> "provisioned"
             [] r = "kick-off" -> "kicked-off" [] OTHER -> "dispatched"
Product(r) == CASE r = "mint" -> "route" [] r = "provision" -> "provision"
                [] r = "kick-off" -> "dev" [] OTHER -> "developer"

(* What can be left of their actions before and after the mark.            *)
Early(r) == CASE r = "mint" -> {<<"mint", "anchored", "route", "spawned">>,
                                <<"anchored", "route", "spawned">>}
              [] r = "provision" -> {<<"provisioned", "provision">>}
              [] r = "kick-off" -> {<<"kicked-off", "dev">>}
              [] OTHER -> {<<"dispatched", "attempt", "developer">>}
Past(r) == CASE r = "mint" -> {<<"route", "spawned">>, <<"spawned">>}
             [] r = "provision" -> {<<"provision">>}
             [] r = "kick-off" -> {<<"dev">>}
             [] OTHER -> {<<"attempt", "developer">>, <<"developer">>}
Owing(t) == t # <<"spawned">>

LEMMA StagesBegin == \A r \in OneShot : Does(r) \in Early(r)
<1>1. Does("mint") \in Early("mint")
  BY DEF Does, Early
<1>2. Does("provision") \in Early("provision")
  BY DEF Does, Early
<1>3. Does("kick-off") \in Early("kick-off")
  BY DEF Does, Early
<1>4. Does("develop") \in Early("develop")
  BY DEF Does, Early
<1> QED BY <1>1, <1>2, <1>3, <1>4 DEF OneShot

(* The mark comes before the product.                                      *)
LEMMA EarlyStage ==
  ASSUME NEW r \in OneShot, NEW t \in Early(r)
  PROVE  /\ Head(t) # Product(r) /\ Len(t) > 1 /\ t \notin Past(r) /\ Owing(t)
         /\ Tail(t) \in Early(r) \cup Past(r)
         /\ Tail(t) \in Past(r) => Head(t) = Mark(r)
<1>1. CASE r = "mint"
  <2>1. CASE t = <<"mint", "anchored", "route", "spawned">>
    <3>1. Tail(t) = <<"anchored", "route", "spawned">> /\ Head(t) = "mint" /\ Len(t) = 4
      BY <2>1
    <3>2. /\ <<"anchored", "route", "spawned">> # <<"spawned">>
          /\ <<"anchored", "route", "spawned">> # <<"route", "spawned">>
          /\ t # <<"spawned">> /\ t # <<"route", "spawned">>
      BY <2>1
    <3> QED BY <1>1, <3>1, <3>2 DEF Early, Past, Mark, Product, Owing
  <2>2. CASE t = <<"anchored", "route", "spawned">>
    <3>1. Tail(t) = <<"route", "spawned">> /\ Head(t) = "anchored" /\ Len(t) = 3
      BY <2>2
    <3>2. t # <<"spawned">> /\ t # <<"route", "spawned">>
      BY <2>2
    <3> QED BY <1>1, <3>1, <3>2 DEF Early, Past, Mark, Product, Owing
  <2> QED BY <1>1, <2>1, <2>2 DEF Early
<1>2. CASE r = "provision"
  <2>1. t = <<"provisioned", "provision">>
    BY <1>2 DEF Early
  <2>2. Tail(t) = <<"provision">> /\ Head(t) = "provisioned" /\ Len(t) = 2
    BY <2>1
  <2>3. t # <<"spawned">> /\ t # <<"provision">>
    BY <2>1
  <2> QED BY <1>2, <2>2, <2>3 DEF Early, Past, Mark, Product, Owing
<1>3. CASE r = "kick-off"
  <2>1. t = <<"kicked-off", "dev">>
    BY <1>3 DEF Early
  <2>2. Tail(t) = <<"dev">> /\ Head(t) = "kicked-off" /\ Len(t) = 2
    BY <2>1
  <2>3. t # <<"spawned">> /\ t # <<"dev">>
    BY <2>1
  <2> QED BY <1>3, <2>2, <2>3 DEF Early, Past, Mark, Product, Owing
<1>4. CASE r = "develop"
  <2>1. t = <<"dispatched", "attempt", "developer">>
    BY <1>4 DEF Early
  <2>2. Tail(t) = <<"attempt", "developer">> /\ Head(t) = "dispatched" /\ Len(t) = 3
    BY <2>1
  <2>3. t # <<"spawned">> /\ t # <<"developer">> /\ t # <<"attempt", "developer">>
    BY <2>1
  <2> QED BY <1>4, <2>2, <2>3 DEF Early, Past, Mark, Product, Owing
<1> QED BY <1>1, <1>2, <1>3, <1>4 DEF OneShot

LEMMA PastStage ==
  ASSUME NEW r \in OneShot, NEW t \in Past(r)
  PROVE  /\ Head(t) # Mark(r)
         /\ Len(t) > 1 => Tail(t) \in Past(r) \ Early(r)
         /\ Head(t) = Product(r) /\ Len(t) > 1 => ~Owing(Tail(t))
         /\ Owing(t) /\ Head(t) # Product(r) => Owing(Tail(t))
         /\ ~Owing(t) => ~(Len(t) > 1)
         /\ ~Owing(t) => r = "mint" /\ Head(t) # Product(r)
<1>0. Len(<<"spawned">>) = 1 /\ Head(<<"spawned">>) = "spawned" /\ ~(1 > 1)
  OBVIOUS
<1>1. CASE t = <<"route", "spawned">> /\ r = "mint"
  <2>1. Tail(t) = <<"spawned">> /\ Head(t) = "route" /\ Len(t) = 2 /\ t # <<"spawned">>
    BY <1>1
  <2>2. /\ <<"spawned">> # <<"anchored", "route", "spawned">>
        /\ <<"spawned">> # <<"mint", "anchored", "route", "spawned">>
    OBVIOUS
  <2> QED BY <1>1, <2>1, <2>2 DEF Past, Early, Mark, Product, Owing
<1>2. CASE t = <<"spawned">> /\ r = "mint"
  BY <1>0, <1>2 DEF Past, Mark, Product, Owing
<1>3. CASE t = <<"provision">> /\ r = "provision"
  <2>1. Head(t) = "provision" /\ Len(t) = 1 /\ t # <<"spawned">>
    BY <1>3
  <2> QED BY <1>0, <1>3, <2>1 DEF Mark, Product, Owing
<1>4. CASE t = <<"dev">> /\ r = "kick-off"
  <2>1. Head(t) = "dev" /\ Len(t) = 1 /\ t # <<"spawned">>
    BY <1>4
  <2> QED BY <1>0, <1>4, <2>1 DEF Mark, Product, Owing
<1>5. CASE t = <<"attempt", "developer">> /\ r = "develop"
  <2>1. Tail(t) = <<"developer">> /\ Head(t) = "attempt" /\ Len(t) = 2 /\ t # <<"spawned">>
    BY <1>5
  <2>2. /\ <<"developer">> # <<"dispatched", "attempt", "developer">>
        /\ <<"developer">> # <<"spawned">>
    OBVIOUS
  <2> QED BY <1>5, <2>1, <2>2 DEF Past, Early, Mark, Product, Owing
<1>6. CASE t = <<"developer">> /\ r = "develop"
  <2>1. Head(t) = "developer" /\ Len(t) = 1 /\ t # <<"spawned">>
    BY <1>6
  <2> QED BY <1>0, <1>6, <2>1 DEF Mark, Product, Owing
<1> QED BY <1>1, <1>2, <1>3, <1>4, <1>5, <1>6 DEF Past, OneShot

-----------------------------------------------------------------------------
(* Where loops come from: the front door is the first loop, a routing      *)
(* coordinator is born of its mint and anchored, and a change in the graph *)
(* was written for a routing coordinator that asked for it.  An offer is   *)
(* pending only before the gate, so an approved run stays in execution.    *)

Wrote == \E l \in Loops : loop[l].kind = "route" /\ loop[l].decision = "create_change"

LoopFacts(l) ==
  /\ loop[l].pc = "unborn" => loop[l].kind = "none"
  /\ loop[l].kind = "front" <=> l = 1
  /\ loop[l].decision # "none" => /\ loop[l].pc = "ended"
                                  /\ loop[l].decision \in Choices(loop[l].kind)
  /\ l = 1 /\ Has(l, "anchored") => loop[l].decision = "issue_intake"
  /\ loop[l].kind = "route" => Has(l, "anchored")
  /\ loop[l].kind = "author" /\ Has(l, "anchored") => Wrote

RuleFacts(f) ==
  /\ f.rule \in OneShot => f.todo \in Early(f.rule) \cup Past(f.rule)
  /\ f.rule = "mint" => /\ f.on = 1 /\ loop[1].decision = "issue_intake"
                        /\ f.todo \in Past("mint") => Has(1, "anchored")
  /\ f.rule = "author" => Decided(f.on, "create_change")
  /\ f.rule = "offer" => /\ run.phase = "executing" /\ run.decision = "none"
                         /\ f.todo = <<"awaiting_approval">>
  /\ f.rule = "cancel" => run.decision = "reject"

DocFacts ==
  /\ run.doc # 0 => Wrote
  /\ run.spec # 0 => run.doc # 0
  /\ job["projection"].pc \in {"bound", "sound"} => run.doc # 0
  /\ job["projection"].pc = "sound" => job["projection"].doc # 0

MatchedHolds == \A m \in matched : When(m[1], m[2])

Lineage == /\ \A l \in Loops : LoopFacts(l)
           /\ \A f \in firing : RuleFacts(f)
           /\ DocFacts /\ MatchedHolds

(* The steps of a loop.                                                    *)
Same(l) == /\ loop'[l].kind = loop[l].kind /\ loop'[l].decision = loop[l].decision
           /\ loop[l].marks \subseteq loop'[l].marks
           /\ "anchored" \in loop'[l].marks =>
                Has(l, "anchored") \/ \E f \in firing : f.rule = "mint" /\ f.on = l
           /\ loop[l].decision # "none" => loop'[l].pc = loop[l].pc
           /\ loop'[l].pc = "unborn" => loop[l].pc = "unborn"
Decides(l) == /\ loop[l].decision = "none" /\ loop'[l].decision \in Choices(loop[l].kind)
              /\ loop'[l].kind = loop[l].kind /\ loop'[l].marks = loop[l].marks
              /\ loop'[l].pc = "ended"
BornOf(l, f) == /\ SpawnLoop(f) /\ loop[l].kind = "none"
                /\ loop'[l] = Spawned(Head(f.todo), f.on = Run \/ Has(f.on, "anchored"))

LEMMA LoopSteps ==
  ASSUME Typed, Lineage, [Next]_vars, NEW l \in Loops
  PROVE  Same(l) \/ Decides(l) \/ \E f \in firing : BornOf(l, f)
<1>0. /\ loop \in [Loops -> LoopState] /\ loop[l] \in LoopState /\ LoopFacts(l)
  BY DEF Typed, TypeOK, Lineage
<1>1. ASSUME loop' = loop PROVE Same(l)
  BY <1>0, <1>1 DEF Same, Has
<1>2. ASSUME NEW k \in Loops, NEW m, loop' = [loop EXCEPT ![k].marks = @ \cup {m}],
             m = "anchored" => \E f \in firing : f.rule = "mint" /\ f.on = k
      PROVE  Same(l)
  <2>1. CASE k = l
    <3>1. /\ loop'[l].kind = loop[l].kind /\ loop'[l].decision = loop[l].decision
          /\ loop'[l].pc = loop[l].pc /\ loop'[l].marks = loop[l].marks \cup {m}
      BY <1>0, <1>2, <2>1 DEF LoopState
    <3> QED BY <1>2, <2>1, <3>1 DEF Same, Has
  <2>2. CASE k # l
    <3>1. loop'[l] = loop[l]
      BY <1>0, <1>2, <2>2
    <3> QED BY <3>1 DEF Same, Has
  <2> QED BY <2>1, <2>2
<1>3. ASSUME NEW f \in firing, AddMark(f) PROVE Same(l)
  <2>0. /\ Head(f.todo) \in StepsOf(f.rule) /\ f.on \in Loops \cup {Run}
    BY FiringFacts, RuleOnFacts
  <2>1. Head(f.todo) = "anchored" => f.rule = "mint"
    BY <2>0 DEF StepsOf
  <2>2. CASE f.on = Run
    <3>1. loop' = loop
      BY <1>3, <2>2 DEF AddMark
    <3> QED BY <1>0, <3>1 DEF Same, Has
  <2>3. CASE f.on # Run
    <3>1. f.on \in Loops /\ loop' = [loop EXCEPT ![f.on].marks = @ \cup {Head(f.todo)}]
      BY <1>3, <2>0, <2>3 DEF AddMark
    <3>2. Head(f.todo) = "anchored" => \E g \in firing : g.rule = "mint" /\ g.on = f.on
      BY <2>1
    <3>3. PICK m : m = Head(f.todo)
      OBVIOUS
    <3>4. /\ loop' = [loop EXCEPT ![f.on].marks = @ \cup {m}]
          /\ m = "anchored" => \E g \in firing : g.rule = "mint" /\ g.on = f.on
      BY <3>1, <3>2, <3>3
    <3> HIDE <3>2, <3>3
    <3> QED BY <1>2, <3>1, <3>4
  <2> QED BY <2>2, <2>3
<1>4. ASSUME NEW f \in firing, SpawnLoop(f) PROVE Same(l) \/ BornOf(l, f)
  <2>1. PICK k \in Loops : /\ loop[k].pc = "unborn"
                           /\ loop' = [loop EXCEPT ![k] =
                                Spawned(Head(f.todo), f.on = Run \/ Has(f.on, "anchored"))]
    BY <1>4 DEF SpawnLoop
  <2>2. CASE k = l
    BY <1>0, <1>4, <2>1, <2>2 DEF BornOf, LoopFacts
  <2>3. CASE k # l
    <3>1. loop'[l] = loop[l]
      BY <1>0, <2>1, <2>3
    <3> QED BY <3>1 DEF Same, Has
  <2> QED BY <2>2, <2>3
<1>5. ASSUME NEW k \in Loops, NEW a, Decide(k, a) PROVE Same(l) \/ Decides(l)
  <2>1. CASE k = l
    <3>1. /\ loop[l].pc = "working" /\ a \in Choices(loop[l].kind)
          /\ loop'[l].kind = loop[l].kind /\ loop'[l].marks = loop[l].marks
          /\ loop'[l].pc = "ended" /\ loop'[l].decision = a
      BY <1>0, <1>5, <2>1 DEF Decide, LoopState
    <3>2. loop[l].decision = "none"
      BY <1>0, <3>1 DEF LoopFacts
    <3> QED BY <3>1, <3>2 DEF Decides
  <2>2. CASE k # l
    <3>1. loop'[l] = loop[l]
      BY <1>0, <1>5, <2>2 DEF Decide
    <3> QED BY <3>1 DEF Same, Has
  <2> QED BY <2>1, <2>2
<1>6. ASSUME NEW k \in Loops, WriteChange(k) \/ MarkAuthored(k) \/ EndUndecided(k)
      PROVE  Same(l)
  <2>1. CASE k = l
    <3>1. loop[l].pc \in {"working", "writing"}
      BY <1>6, <2>1 DEF WriteChange, MarkAuthored, EndUndecided
    <3>2. loop[l].decision = "none"
      BY <1>0, <3>1 DEF LoopFacts
    <3>3. \/ \E pc \in {"ended", "writing", "working"} : loop' = [loop EXCEPT ![l].pc = pc]
          \/ loop' = [loop EXCEPT ![l].pc = "ended", ![l].marks = @ \cup {"authored"}]
      BY <1>6, <2>1 DEF WriteChange, MarkAuthored, EndUndecided
    <3>4. /\ loop'[l].kind = loop[l].kind /\ loop'[l].decision = loop[l].decision
          /\ loop'[l].marks \in {loop[l].marks, loop[l].marks \cup {"authored"}}
          /\ loop'[l].pc # "unborn"
      BY <1>0, <3>3 DEF LoopState
    <3> QED BY <3>2, <3>4 DEF Same, Has
  <2>2. CASE k # l
    <3>1. loop'[l] = loop[l]
      BY <1>0, <1>6, <2>2 DEF WriteChange, MarkAuthored, EndUndecided
    <3> QED BY <3>1 DEF Same, Has
  <2> QED BY <2>1, <2>2
<1>7. ASSUME NEW s \in Stations, StampDispatchFailed(s) PROVE Same(l)
  <2>1. CASE job[s].on = Run
    <3>1. loop' = loop
      BY <1>7, <2>1 DEF StampDispatchFailed
    <3> QED BY <1>0, <3>1 DEF Same, Has
  <2>2. CASE job[s].on # Run
    <3>1. job[s].on \in Loops
      BY <2>2, JobFacts DEF JobState
    <3>2. loop' = [loop EXCEPT ![job[s].on].marks = @ \cup {"failed"}]
      BY <1>7, <2>2 DEF StampDispatchFailed
    <3> QED BY <1>2, <3>1, <3>2
  <2> QED BY <2>1, <2>2
<1>8. ASSUME NEW f \in firing, Act(f) \/ LoseAction(f)
      PROVE  Same(l) \/ BornOf(l, f)
  <2>1. AddMark(f) \/ SpawnLoop(f) \/ loop' = loop
    BY <1>8 DEF Act, AddToRun, MovePhase, PublishDispatch, LoseAction
  <2> QED BY <1>1, <1>3, <1>4, <2>1
<1>9. ASSUME NEW s \in Stations, StationNext(s) \/ HandleError(s) \/ DropDispatch(s)
      PROVE  loop' = loop \/ StampDispatchFailed(s)
  BY <1>9 DEF StationNext, HandleError, DropDispatch, Take, ReadDocument, Work, Judge,
              StampValidated, ReadValidated, BindRevision, ReadTasks, StampSpec, Materialize,
              ProveCold, StampSandbox
<1>10. ASSUME \/ Restart \/ (\E re \in RuleOn : Fire(re[1], re[2])) \/ UNCHANGED vars
              \/ \E d \in {"approve", "reject"} : DecideGate(d)
       PROVE  loop' = loop
  BY <1>10 DEF Restart, Fire, vars, DecideGate
<1> QED BY <1>1, <1>5, <1>6, <1>7, <1>8, <1>9, <1>10 DEF Next, EngineNext, LoopNext

(* The steps of the run.                                                   *)
RunGrows ==
  /\ run.marks \subseteq run'.marks
  /\ run.parked => run'.parked
  /\ run.anchor => run'.anchor
  /\ run.doc # 0 => run'.doc # 0
  /\ run'.doc # 0 => run.doc # 0 \/ \E l \in Loops : WriteChange(l)
  /\ run.spec # 0 => run'.spec # 0
  /\ run'.spec # 0 => run.spec # 0 \/ StampSpec
  /\ run.decision # "none" => run'.decision = run.decision
  /\ run.decision # run'.decision => run.phase = "awaiting_approval"
  /\ run.sandbox # run'.sandbox => StampSandbox
  /\ run.phase = "executing" /\ run'.phase # "executing" =>
       \E f \in firing : \/ f.rule = "cancel"
                         \/ f.rule = "offer" /\ firing' = firing \ {f}

LEMMA PhaseLeft ==
  ASSUME Typed, Lineage, NEW f \in firing, MovePhase(f),
         run.phase = "executing", run'.phase # "executing"
  PROVE  f.rule \in {"offer", "cancel"} /\ (f.rule = "offer" => firing' = firing \ {f})
<1>0. run \in RunState /\ Head(f.todo) \in StepsOf(f.rule) /\ RuleFacts(f)
  BY FiringFacts DEF Typed, TypeOK, Lineage
<1>1. Head(f.todo) \in {"awaiting_approval", "cancelled"}
  BY <1>0 DEF MovePhase, RunState, Phases, Edges
<1>2. f.rule \in {"offer", "cancel"}
  BY <1>0, <1>1 DEF StepsOf
<1>3. ASSUME f.rule = "offer" PROVE firing' = firing \ {f}
  <2>1. f.todo = <<"awaiting_approval">>
    BY <1>0, <1>3 DEF RuleFacts
  <2>2. ~(Len(f.todo) > 1)
    BY <2>1
  <2> QED BY <2>2 DEF MovePhase, Advance
<1> QED BY <1>2, <1>3

LEMMA RunSteps ==
  ASSUME Typed, Lineage, [Next]_vars PROVE RunGrows
<1>0. run \in RunState /\ job["projection"] \in JobState /\ DocFacts
  BY DEF Typed, TypeOK, Lineage, Stations
<1>1. ASSUME run' = run PROVE RunGrows
  BY <1>1 DEF RunGrows
<1>2. ASSUME NEW m, run' = [run EXCEPT !.marks = @ \cup {m}] PROVE RunGrows
  BY <1>0, <1>2 DEF RunGrows, RunState
<1>3. ASSUME NEW f \in firing, Act(f) \/ LoseAction(f) PROVE RunGrows
  <2>1. CASE AddMark(f)
    <3>1. run' = run \/ \E m : run' = [run EXCEPT !.marks = @ \cup {m}]
      BY <2>1 DEF AddMark
    <3> QED BY <1>1, <1>2, <3>1
  <2>2. CASE AddToRun(f)
    <3>1. \/ \E v : run' = [run EXCEPT !.refs = v] \/ run' = [run EXCEPT !.attempts = v]
          \/ run' = [run EXCEPT !.handoff = TRUE] \/ run' = [run EXCEPT !.anchor = TRUE]
          \/ run' = [run EXCEPT !.parked = TRUE]
      BY <2>2 DEF AddToRun
    <3> QED BY <1>0, <3>1 DEF RunGrows, RunState
  <2>3. CASE MovePhase(f)
    <3>1. \E p : run' = [run EXCEPT !.phase = p]
      BY <2>3 DEF MovePhase
    <3>2. run.phase = "executing" /\ run'.phase # "executing" =>
            f.rule = "cancel" \/ (f.rule = "offer" /\ firing' = firing \ {f})
      BY <2>3, PhaseLeft
    <3> QED BY <1>0, <3>1, <3>2 DEF RunGrows, RunState
  <2>4. CASE SpawnLoop(f) \/ PublishDispatch(f) \/ LoseAction(f)
    BY <1>1, <2>4 DEF SpawnLoop, PublishDispatch, LoseAction
  <2> QED BY <1>3, <2>1, <2>2, <2>3, <2>4 DEF Act
<1>4. ASSUME NEW l \in Loops, LoopNext(l) \/ EndUndecided(l) PROVE RunGrows
  <2>1. CASE WriteChange(l)
    <3>1. run'.doc = run.doc + 1 /\ run.doc \in Nat
      BY <1>0, <2>1 DEF WriteChange, RunState
    <3>2. run'.doc # 0
      BY <3>1
    <3>3. \E v : run' = [run EXCEPT !.doc = v]
      BY <2>1 DEF WriteChange
    <3> QED BY <1>0, <2>1, <3>2, <3>3 DEF RunGrows, RunState
  <2>2. CASE run' = run
    BY <1>1, <2>2
  <2> QED BY <1>4, <2>1, <2>2 DEF LoopNext, Decide, MarkAuthored, EndUndecided
<1>5. ASSUME NEW d \in {"approve", "reject"}, DecideGate(d) PROVE RunGrows
  <2>1. run' = [run EXCEPT !.decision = d] /\ run.phase = "awaiting_approval"
        /\ run.decision = "none"
    BY <1>5 DEF DecideGate
  <2> QED BY <1>0, <2>1 DEF RunGrows, RunState
<1>6. ASSUME NEW s \in Stations, StationNext(s) \/ HandleError(s) \/ DropDispatch(s)
      PROVE  RunGrows
  <2>1. CASE StampDispatchFailed(s)
    <3>1. run' = run \/ run' = [run EXCEPT !.marks = @ \cup {"failed"}]
      BY <2>1 DEF StampDispatchFailed
    <3> QED BY <1>1, <1>2, <3>1
  <2>2. CASE StampValidated
    <3>1. \E v : run' = [run EXCEPT !.validated = v]
      BY <2>2 DEF StampValidated
    <3> QED BY <1>0, <3>1 DEF RunGrows, RunState
  <2>3. CASE StampSpec
    <3>1. run' = [run EXCEPT !.spec = job["projection"].doc] /\ job["projection"].doc # 0
      BY <1>0, <2>3 DEF StampSpec, DocFacts
    <3> QED BY <1>0, <2>3, <3>1 DEF RunGrows, RunState
  <2>4. CASE StampSandbox
    <3>1. \E v : run' = [run EXCEPT !.sandbox = v]
      BY <2>4 DEF StampSandbox
    <3> QED BY <1>0, <2>4, <3>1 DEF RunGrows, RunState
  <2>5. CASE run' = run
    BY <1>1, <2>5
  <2> QED BY <1>6, <2>1, <2>2, <2>3, <2>4, <2>5
          DEF StationNext, HandleError, DropDispatch, Take, ReadDocument, Work, Judge,
              ReadValidated, BindRevision, ReadTasks, Materialize, ProveCold
<1>7. ASSUME Restart \/ (\E re \in RuleOn : Fire(re[1], re[2])) \/ UNCHANGED vars
      PROVE  RunGrows
  BY <1>1, <1>7 DEF Restart, Fire, vars
<1> QED BY <1>3, <1>4, <1>5, <1>6, <1>7 DEF Next, EngineNext

(* The steps of the engine: a firing is left alone, begun, or carried on.  *)
Begun(g)  == \E re \in RuleOn : /\ Fire(re[1], re[2])
                                /\ g = [rule |-> re[1], on |-> re[2], todo |-> Does(re[1])]
Onward(f, g) == /\ Act(f) \/ (LoseAction(f) /\ f.rule # "mint")
                /\ f.todo # <<>> /\ Len(f.todo) > 1
                /\ g.rule = f.rule /\ g.on = f.on /\ g.todo = Tail(f.todo)

LEMMA EngineSteps ==
  ASSUME Typed, [Next]_vars, NEW g \in firing'
  PROVE  g \in firing \/ Begun(g) \/ \E f \in firing : Onward(f, g)
<1>1. ASSUME NEW re \in RuleOn, Fire(re[1], re[2]) PROVE g \in firing \/ Begun(g)
  BY <1>1 DEF Fire, Begun
<1>2. ASSUME NEW f \in firing, Act(f) \/ LoseAction(f) PROVE g \in firing \/ Onward(f, g)
  <2>0. f \in Firing /\ f.todo # <<>>
    BY FiringFacts
  <2>1. CASE firing' = firing \ {f}
    BY <2>1
  <2>2. CASE Advance(f) /\ (Act(f) \/ (LoseAction(f) /\ f.rule # "mint"))
    <3>1. g \in firing \/ (Len(f.todo) > 1 /\ g = [f EXCEPT !.todo = Tail(@)])
      BY <2>2 DEF Advance
    <3>2. CASE Len(f.todo) > 1 /\ g = [f EXCEPT !.todo = Tail(@)]
      <4>1. g.rule = f.rule /\ g.on = f.on /\ g.todo = Tail(f.todo)
        BY <2>0, <3>2 DEF Firing
      <4> QED BY <2>0, <2>2, <3>2, <4>1 DEF Onward
    <3> QED BY <3>1, <3>2
  <2> QED BY <1>2, <2>1, <2>2 DEF Act, AddMark, AddToRun, MovePhase, SpawnLoop, PublishDispatch,
                                LoseAction
<1>3. CASE \/ Restart \/ UNCHANGED vars
           \/ \E l \in Loops : LoopNext(l) \/ EndUndecided(l)
           \/ \E d \in {"approve", "reject"} : DecideGate(d)
  <2>1. firing' \subseteq firing
    BY <1>3 DEF Restart, vars, LoopNext, Decide, WriteChange, MarkAuthored, EndUndecided,
                DecideGate
  <2> QED BY <2>1
<1>4. CASE \E s \in Stations : StationNext(s) \/ HandleError(s) \/ DropDispatch(s)
  <2>1. firing' = firing
    BY <1>4 DEF StationNext, HandleError, DropDispatch, Take, StampDispatchFailed, ReadDocument,
                Work, Judge, StampValidated, ReadValidated, BindRevision, ReadTasks, StampSpec,
                Materialize, ProveCold, StampSandbox
  <2> QED BY <2>1
<1> QED BY <1>1, <1>2, <1>3, <1>4 DEF Next, EngineNext

LEMMA WhenFrame ==
  ASSUME UNCHANGED <<run, loop>> PROVE \A r, e : When(r, e) => When(r, e)'
  BY DEF When, Execute, Offer, Resume, Cancel, AnchorGated, AnchorResumed, Project, Provision,
         KickOff, SandboxBlocked, StationFailedRun, Approved, Marked, Mint, SpawnAuthor,
         ValidateAuthored, StampRef, HandOff, AskHuman, Develop, StationFailedLoop, Decided, Has

(* What the engine remembers: nothing that no longer holds.                *)
LEMMA Memory ==
  ASSUME [Next]_vars
  PROVE  \/ RuleState
         \/ UNCHANGED <<run, loop>> /\ (matched' = matched \/ Restart)
         \/ \E re \in RuleOn : Fire(re[1], re[2])
<1>1. ASSUME NEW f \in firing, Act(f) \/ LoseAction(f)
      PROVE  RuleState \/ (UNCHANGED <<run, loop>> /\ matched' = matched)
  BY <1>1 DEF Act, AddMark, AddToRun, MovePhase, SpawnLoop, PublishDispatch, LoseAction
<1>2. ASSUME NEW s \in Stations, StationNext(s) \/ HandleError(s) \/ DropDispatch(s)
      PROVE  RuleState \/ (UNCHANGED <<run, loop>> /\ matched' = matched)
  BY <1>2 DEF StationNext, HandleError, DropDispatch, Take, StampDispatchFailed, ReadDocument,
              Work, Judge, StampValidated, ReadValidated, BindRevision, ReadTasks, StampSpec,
              Materialize, ProveCold, StampSandbox
<1>3. ASSUME \/ \E l \in Loops : LoopNext(l) \/ EndUndecided(l)
             \/ \E d \in {"approve", "reject"} : DecideGate(d)
      PROVE  RuleState
  BY <1>3 DEF LoopNext, Decide, WriteChange, MarkAuthored, EndUndecided, DecideGate
<1>4. ASSUME Restart \/ UNCHANGED vars
      PROVE  UNCHANGED <<run, loop>> /\ (matched' = matched \/ Restart)
  BY <1>4 DEF Restart, vars
<1> QED BY <1>1, <1>2, <1>3, <1>4 DEF Next, EngineNext

LEMMA MatchedHoldsStep ==
  ASSUME Typed, Lineage, [Next]_vars PROVE MatchedHolds'
<1>1. CASE RuleState
  BY <1>1 DEF RuleState, MatchedHolds
<1>2. CASE UNCHANGED <<run, loop>> /\ matched' \subseteq matched
  BY <1>2, WhenFrame DEF Lineage, MatchedHolds
<1>3. ASSUME NEW re \in RuleOn, Fire(re[1], re[2]) PROVE MatchedHolds'
  <2>0. PICK r, e : re = <<r, e>>
    BY DEF RuleOn
  <2>1. UNCHANGED <<run, loop>> /\ matched' = matched \cup {<<r, e>>} /\ When(r, e)
    BY <1>3, <2>0 DEF Fire
  <2> QED BY <2>1, WhenFrame DEF Lineage, MatchedHolds
<1>4. Restart => matched' \subseteq matched
  BY DEF Restart
<1> QED BY <1>1, <1>2, <1>3, <1>4, Memory

LEMMA WroteStays ==
  ASSUME Typed, Lineage, [Next]_vars, Wrote PROVE Wrote'
<1>1. PICK l \in Loops : loop[l].kind = "route" /\ loop[l].decision = "create_change"
  BY DEF Wrote
<1>2. Same(l)
  BY <1>1, LoopSteps DEF Decides, BornOf
<1> QED BY <1>1, <1>2 DEF Wrote, Same

(* An action is one of a kind.                                             *)
LEMMA ActKinds ==
  ASSUME NEW f \in firing, Act(f)
  PROVE  /\ Head(f.todo) \in Marks => AddMark(f)
         /\ Head(f.todo) \in Kinds => SpawnLoop(f)
         /\ Head(f.todo) \in Stations => PublishDispatch(f)
         /\ Head(f.todo) \notin Marks => ~AddMark(f)
         /\ Head(f.todo) \notin Kinds => ~SpawnLoop(f)
         /\ Head(f.todo) \notin Stations => ~PublishDispatch(f)
  BY DEF Act, AddMark, AddToRun, MovePhase, SpawnLoop, PublishDispatch, Marks, Kinds, Stations,
         Phases

LEMMA BirthFacts ==
  ASSUME Typed, Lineage, NEW f \in firing, SpawnLoop(f)
  PROVE  /\ Head(f.todo) = "route" => Has(1, "anchored") /\ f.on = 1
         /\ Head(f.todo) = "author" /\ (f.on = Run \/ Has(f.on, "anchored")) => Wrote
<1>0. /\ Head(f.todo) \in StepsOf(f.rule) /\ <<f.rule, f.on>> \in RuleOn /\ RuleFacts(f)
      /\ f.todo # <<>>
  BY FiringFacts DEF Lineage
<1>1. ASSUME Head(f.todo) = "route" PROVE Has(1, "anchored") /\ f.on = 1
  <2>1. f.rule = "mint"
    BY <1>0, <1>1 DEF StepsOf
  <2>2. f.todo \in Past("mint")
    BY <1>0, <1>1, <2>1, EarlyStage DEF RuleFacts, OneShot, Product
  <2> QED BY <1>0, <2>1, <2>2 DEF RuleFacts
<1>2. ASSUME Head(f.todo) = "author", f.on = Run \/ Has(f.on, "anchored") PROVE Wrote
  <2>1. f.rule = "author"
    BY <1>0, <1>2 DEF StepsOf
  <2>2. f.on \in Loops /\ f.on # Run /\ Decided(f.on, "create_change")
    BY <1>0, <2>1, RuleOnFacts DEF LoopRules, RuleFacts, Loops, Run
  <2>3. LoopFacts(f.on) /\ loop[f.on].kind \in Coordinators
        /\ loop[f.on].decision = "create_change"
    BY <2>2 DEF Lineage, Decided
  <2>4. loop[f.on].kind # "front"
    BY <1>2, <2>2, <2>3 DEF LoopFacts
  <2>5. loop[f.on].decision \in Choices(loop[f.on].kind)
    BY <2>3 DEF LoopFacts
  <2>6. loop[f.on].kind = "route"
    BY <2>3, <2>4, <2>5 DEF Choices, Coordinators
  <2> QED BY <2>2, <2>3, <2>6 DEF Wrote
<1> QED BY <1>1, <1>2

LEMMA LoopFactsStep ==
  ASSUME Typed, Lineage, [Next]_vars, NEW l \in Loops PROVE LoopFacts(l)'
<1>0. LoopFacts(l) /\ loop[l] \in LoopState
  BY DEF Lineage, Typed, TypeOK
<1>1. CASE Same(l)
  <2>1. Has(l, "anchored") => Has(l, "anchored")'
    BY <1>1 DEF Same, Has
  <2>2. Has(l, "anchored")' => Has(l, "anchored") \/ (l = 1 /\ loop[1].decision = "issue_intake")
    BY <1>1 DEF Same, Has, Lineage, RuleFacts
  <2>3. loop[l].kind = "author" => l # 1
    BY <1>0 DEF LoopFacts
  <2> QED BY <1>0, <1>1, <2>1, <2>2, <2>3, WroteStays DEF LoopFacts, Same
<1>2. CASE Decides(l)
  <2>1. Has(l, "anchored")' <=> Has(l, "anchored")
    BY <1>2 DEF Decides, Has
  <2> QED BY <1>0, <1>2, <2>1, WroteStays DEF LoopFacts, Decides
<1>3. ASSUME NEW f \in firing, BornOf(l, f) PROVE LoopFacts(l)'
  <2>1. Head(f.todo) \in Kinds /\ SpawnLoop(f) /\ l # 1
    BY <1>0, <1>3 DEF BornOf, SpawnLoop, LoopFacts
  <2>2. /\ loop'[l].kind = Head(f.todo) /\ loop'[l].pc = "working"
        /\ loop'[l].decision = "none"
        /\ Has(l, "anchored")' <=> f.on = Run \/ Has(f.on, "anchored")
    BY <1>3 DEF BornOf, Spawned, Has
  <2> QED BY <2>1, <2>2, BirthFacts, WroteStays DEF LoopFacts, Kinds
<1> QED BY <1>1, <1>2, <1>3, LoopSteps

LEMMA DecidedStays ==
  ASSUME Typed, Lineage, [Next]_vars, NEW l \in Loops, loop[l].decision # "none"
  PROVE  Same(l) /\ \A a : Decided(l, a) => Decided(l, a)'
<1>1. Same(l)
  <2>1. LoopFacts(l)
    BY DEF Lineage
  <2>2. loop[l].kind # "none"
    BY <2>1 DEF LoopFacts, Choices
  <2> QED BY <2>2, LoopSteps DEF Decides, BornOf
<1> QED BY <1>1 DEF Same, Decided

LEMMA FirstLoop == 1 \in Loops /\ 1 # Run
  BY KickoffAssumption DEF Loops, Run

(* A firing is told by its rule, its entity and what is left.              *)
LEMMA SameFiring ==
  ASSUME Typed, NEW f \in firing, NEW g \in firing, f.rule = g.rule, f.on = g.on, f.todo = g.todo
  PROVE  f = g
<1>1. f \in Firing /\ g \in Firing
  BY FiringFacts
<1> QED BY <1>1 DEF Firing

LEMMA RuleFactsKept ==
  ASSUME Typed, Lineage, [Next]_vars, NEW g \in firing, g \in firing' PROVE RuleFacts(g)'
<1>0. RuleFacts(g) /\ <<g.rule, g.on>> \in RuleOn /\ RunGrows /\ 1 \in Loops
  BY FiringFacts, RunSteps, FirstLoop DEF Lineage
<1>1. ASSUME g.rule = "mint"
      PROVE  /\ loop'[1].decision = "issue_intake"
             /\ g.todo \in Past("mint") => Has(1, "anchored")'
  <2>1. loop[1].decision = "issue_intake"
    BY <1>0, <1>1 DEF RuleFacts
  <2>2. Same(1)
    BY <1>0, <2>1, DecidedStays
  <2> QED BY <1>0, <1>1, <2>2 DEF RuleFacts, Same, Has
<1>2. ASSUME g.rule = "author" PROVE Decided(g.on, "create_change")'
  <2>1. g.on \in Loops /\ Decided(g.on, "create_change")
    BY <1>0, <1>2, RuleOnFacts DEF RuleFacts, LoopRules
  <2> QED BY <2>1, DecidedStays DEF Decided
<1>3. ASSUME g.rule = "offer" PROVE run'.phase = "executing" /\ run'.decision = "none"
  <2>1. run.phase = "executing" /\ run.decision = "none" /\ g.on = Run
    BY <1>0, <1>3, RuleOnFacts DEF RuleFacts, RunRules
  <2>2. run'.decision = "none"
    BY <1>0, <2>1 DEF RunGrows
  <2>3. ASSUME run'.phase # "executing" PROVE FALSE
    <3>1. PICK f \in firing : \/ f.rule = "cancel"
                              \/ f.rule = "offer" /\ firing' = firing \ {f}
      BY <1>0, <2>1, <2>3 DEF RunGrows
    <3>2. RuleFacts(f) /\ <<f.rule, f.on>> \in RuleOn
      BY FiringFacts DEF Lineage
    <3>3. f.rule = "offer" /\ firing' = firing \ {f}
      BY <2>1, <3>1, <3>2 DEF RuleFacts
    <3>4. f.on = g.on /\ f.todo = g.todo
      BY <1>0, <1>3, <2>1, <3>2, <3>3, RuleOnFacts DEF RuleFacts, RunRules
    <3>5. f = g
      BY <1>3, <3>3, <3>4, SameFiring
    <3> QED BY <3>3, <3>5
  <2> QED BY <2>2, <2>3
<1>4. g.rule = "cancel" => run'.decision = "reject"
  BY <1>0 DEF RuleFacts, RunGrows
<1> QED BY <1>0, <1>1, <1>2, <1>3, <1>4 DEF RuleFacts

LEMMA RuleFactsBegun ==
  ASSUME Typed, Lineage, NEW g, Begun(g) PROVE RuleFacts(g)'
<1>1. PICK r, e : /\ <<r, e>> \in RuleOn /\ Fire(r, e)
                  /\ g = [rule |-> r, on |-> e, todo |-> Does(r)]
  BY DEF Begun, RuleOn
<1>2. g.rule = r /\ g.on = e /\ g.todo = Does(r) /\ When(r, e) /\ UNCHANGED <<run, loop>>
  BY <1>1 DEF Fire
<1>3. /\ r \in LoopRules => e \in Loops /\ e # Run
      /\ r \in RunRules => e = Run
  BY <1>1, RuleOnFacts DEF Loops, Run
<1>4. r \in OneShot => g.todo \in Early(r)
  BY <1>2, StagesBegin
<1>5. ASSUME r = "mint" PROVE e = 1 /\ loop[1].decision = "issue_intake" /\ g.todo \notin Past("mint")
  <2>1. e \in Loops /\ Mint(e)
    BY <1>2, <1>3, <1>5 DEF LoopRules, When
  <2>2. LoopFacts(e) /\ loop[e].kind \in Coordinators /\ loop[e].decision = "issue_intake"
        /\ ~Has(e, "anchored")
    BY <2>1 DEF Mint, Decided, Lineage
  <2>3. loop[e].kind = "front"
    BY <2>2 DEF LoopFacts, Choices, Coordinators
  <2>4. g.todo \notin Past("mint")
    BY <1>4, <1>5, EarlyStage DEF OneShot
  <2> QED BY <2>2, <2>3, <2>4 DEF LoopFacts
<1>6. ASSUME r = "author" PROVE Decided(e, "create_change")
  BY <1>2, <1>3, <1>6 DEF LoopRules, When, SpawnAuthor
<1>7. ASSUME r = "offer" PROVE run.phase = "executing" /\ run.decision = "none"
                               /\ g.todo = <<"awaiting_approval">>
  <2>1. Does(r) = <<"awaiting_approval">>
    BY <1>7 DEF Does
  <2> QED BY <1>2, <1>3, <1>7, <2>1 DEF RunRules, When, Offer
<1>8. ASSUME r = "cancel" PROVE run.decision = "reject"
  BY <1>2, <1>3, <1>8 DEF RunRules, When, Cancel
<1> QED BY <1>2, <1>4, <1>5, <1>6, <1>7, <1>8 DEF RuleFacts, Has, Decided

LEMMA RuleFactsOnward ==
  ASSUME Typed, Lineage, [Next]_vars, NEW f \in firing, NEW g, Onward(f, g) PROVE RuleFacts(g)'
<1>0. /\ RuleFacts(f) /\ <<f.rule, f.on>> \in RuleOn /\ RunGrows /\ 1 \in Loops /\ 1 # Run
      /\ g.rule = f.rule /\ g.on = f.on /\ g.todo = Tail(f.todo) /\ Len(f.todo) > 1
  BY FiringFacts, RunSteps, FirstLoop DEF Lineage, Onward
<1>1. f.rule \in OneShot => g.todo \in Early(g.rule) \cup Past(g.rule)
  BY <1>0, EarlyStage, PastStage DEF RuleFacts
<1>2. ASSUME f.rule = "mint"
      PROVE  /\ loop'[1].decision = "issue_intake"
             /\ g.todo \in Past("mint") => Has(1, "anchored")'
  <2>1. loop[1].decision = "issue_intake" /\ f.on = 1
    BY <1>0, <1>2 DEF RuleFacts
  <2>2. Same(1)
    BY <1>0, <2>1, DecidedStays
  <2>3. CASE f.todo \in Past("mint")
    BY <1>0, <1>2, <2>2, <2>3 DEF RuleFacts, Same, Has
  <2>4. CASE f.todo \in Early("mint") /\ g.todo \in Past("mint")
    <3>1. Head(f.todo) = "anchored" /\ Act(f)
      BY <1>0, <1>2, <2>4, EarlyStage DEF OneShot, Mark, Onward
    <3>2. AddMark(f) /\ loop[1] \in LoopState /\ loop \in [Loops -> LoopState]
      BY <1>0, <3>1, ActKinds DEF Marks, Typed, TypeOK
    <3>3. loop' = [loop EXCEPT ![1].marks = loop[1].marks \cup {"anchored"}]
      BY <1>0, <2>1, <3>1, <3>2 DEF AddMark
    <3>4. Has(1, "anchored")'
      BY <1>0, <3>2, <3>3 DEF Has, LoopState
    <3> QED BY <2>1, <2>2, <3>4 DEF Same
  <2> QED BY <1>0, <1>2, <2>1, <2>2, <2>3, <2>4 DEF RuleFacts, OneShot, Same
<1>3. ASSUME f.rule = "author" PROVE Decided(f.on, "create_change")'
  <2>1. f.on \in Loops /\ Decided(f.on, "create_change")
    BY <1>0, <1>3, RuleOnFacts DEF RuleFacts, LoopRules
  <2> QED BY <2>1, DecidedStays DEF Decided
<1>4. f.rule # "offer"
  <2>1. f.rule = "offer" => f.todo = <<"awaiting_approval">>
    BY <1>0 DEF RuleFacts
  <2>2. ~(Len(<<"awaiting_approval">>) > 1)
    OBVIOUS
  <2> QED BY <1>0, <2>1, <2>2
<1>5. f.rule = "cancel" => run'.decision = "reject"
  BY <1>0 DEF RuleFacts, RunGrows
<1> QED BY <1>0, <1>1, <1>2, <1>3, <1>4, <1>5 DEF RuleFacts

LEMMA RuleFactsStep ==
  ASSUME Typed, Lineage, [Next]_vars PROVE \A g \in firing' : RuleFacts(g)'
  BY EngineSteps, RuleFactsKept, RuleFactsBegun, RuleFactsOnward

(* The steps of a handler on its station.                                  *)
LEMMA JobSteps ==
  ASSUME Typed, [Next]_vars, NEW s \in Stations, job'[s] # job[s]
  PROVE  \/ job'[s].pc \in Resting
         \/ s = "validation" /\ ValidationNext
         \/ s = "projection" /\ ProjectionNext
         \/ s = "provision" /\ ProvisionNext
<1>0. job \in [Stations -> JobState]
  BY DEF Typed, TypeOK
<1>1. CASE job' = job
  BY <1>1
<1>2. CASE Restart
  BY <1>2 DEF Restart, NoJob, Resting
<1>3. ASSUME NEW t \in Stations,
             Take(t) \/ StampDispatchFailed(t) \/ HandleError(t) \/ DropDispatch(t)
      PROVE  job'[s].pc \in Resting
  BY <1>3, StationFrame
<1>4. CASE ValidationNext
  <2>1. \A t \in Stations \ {"validation"} : job'[t] = job[t]
    BY <1>0, <1>4 DEF ValidationNext, ReadDocument, Work, Judge, StampValidated
  <2> QED BY <1>4, <2>1
<1>5. CASE ProjectionNext
  <2>1. \A t \in Stations \ {"projection"} : job'[t] = job[t]
    BY <1>0, <1>5 DEF ProjectionNext, ReadValidated, Work, BindRevision, ReadTasks, StampSpec,
                      Failing
  <2> QED BY <1>5, <2>1
<1>6. CASE ProvisionNext
  BY <1>6, ProvisionFrame
<1>7. CASE \/ EngineNext \/ (\E f \in firing : LoseAction(f)) \/ UNCHANGED vars
           \/ (\E l \in Loops : LoopNext(l) \/ EndUndecided(l))
           \/ (\E d \in {"approve", "reject"} : DecideGate(d))
  BY <1>1, <1>7 DEF EngineNext, Fire, Act, AddMark, AddToRun, MovePhase, SpawnLoop,
                    PublishDispatch, LoseAction, vars, LoopNext, Decide, WriteChange,
                    MarkAuthored, EndUndecided, DecideGate
<1> QED BY <1>2, <1>3, <1>4, <1>5, <1>6, <1>7
        DEF Next, StationNext, ValidationNext, ProjectionNext, ProvisionNext

LEMMA ProjectionSteps ==
  ASSUME Typed, DocFacts, ProjectionNext
  PROVE  LET k == job'["projection"] IN
         /\ k.pc \in {"bound", "sound"} => run'.doc # 0
         /\ k.pc = "sound" => k.doc # 0
<1> DEFINE j == job["projection"]
           k == job'["projection"]
<1>0. "projection" \in Stations /\ job \in [Stations -> JobState] /\ j \in JobState
  BY DEF Typed, TypeOK, Stations
<1>1. CASE job' = Failing("projection")
  <2>1. k.pc \in {"start", "failed"}
    BY <1>0, <1>1 DEF Failing, JobState
  <2> QED BY <2>1
<1>2. CASE ReadValidated /\ run.spec = 0
  <2>1. k.pc = "checking"
    BY <1>0, <1>2 DEF ReadValidated, Work, JobState
  <2> QED BY <2>1
<1>3. CASE BindRevision /\ j.doc # 0 /\ j.doc = run.doc
  <2>1. k.pc = "bound" /\ run' = run
    BY <1>0, <1>3 DEF BindRevision, JobState
  <2> QED BY <1>3, <2>1
<1>4. CASE ReadTasks(TRUE)
  <2>1. k.pc = "sound" /\ k.doc = run.doc /\ j.pc = "bound" /\ run' = run
    BY <1>0, <1>4 DEF ReadTasks, JobState
  <2> QED BY <2>1 DEF DocFacts
<1>5. CASE StampSpec
  <2>1. k.pc = "idle"
    BY <1>0, <1>5 DEF StampSpec, NoJob
  <2> QED BY <2>1
<1>6. ReadValidated => run.spec = 0 \/ job' = Failing("projection")
  BY DEF ReadValidated
<1>7. BindRevision => (j.doc # 0 /\ j.doc = run.doc) \/ job' = Failing("projection")
  BY DEF BindRevision
<1>8. ReadTasks(FALSE) => job' = Failing("projection")
  BY DEF ReadTasks
<1> QED BY <1>1, <1>2, <1>3, <1>4, <1>5, <1>6, <1>7, <1>8 DEF ProjectionNext

LEMMA DocFactsStep ==
  ASSUME Typed, Lineage, [Next]_vars PROVE DocFacts'
<1>0. DocFacts /\ RunGrows /\ "projection" \in Stations
  BY RunSteps DEF Lineage, Stations
<1>1. run'.doc # 0 => Wrote'
  <2>1. ASSUME NEW l \in Loops, WriteChange(l) PROVE Wrote
    BY <2>1 DEF WriteChange, Lineage, LoopFacts
  <2> QED BY <1>0, <2>1, WroteStays DEF RunGrows, DocFacts
<1>2. run'.spec # 0 => run'.doc # 0
  <2>1. StampSpec => run.doc # 0
    BY <1>0 DEF StampSpec, DocFacts
  <2> QED BY <1>0, <2>1 DEF RunGrows, DocFacts
<1>3. /\ job'["projection"].pc \in {"bound", "sound"} => run'.doc # 0
      /\ job'["projection"].pc = "sound" => job'["projection"].doc # 0
  <2>1. CASE job'["projection"] = job["projection"]
    BY <1>0, <2>1 DEF RunGrows, DocFacts
  <2>2. CASE job'["projection"].pc \in Resting
    BY <2>2 DEF Resting
  <2>3. CASE ProjectionNext
    BY <1>0, <2>3, ProjectionSteps
  <2> QED BY <1>0, <2>1, <2>2, <2>3, JobSteps
<1> QED BY <1>1, <1>2, <1>3 DEF DocFacts

LEMMA StepLineage == Typed /\ Lineage /\ [Next]_vars => Lineage'
  BY LoopFactsStep, RuleFactsStep, DocFactsStep, MatchedHoldsStep DEF Lineage

LEMMA InitLineage == Init => Lineage
<1> SUFFICES ASSUME Init PROVE Lineage
  OBVIOUS
<1>1. ASSUME NEW l \in Loops PROVE LoopFacts(l)
  <2>1. CASE l = 1
    <3>1. loop[l] = Spawned("front", FALSE)
      BY <2>1 DEF Init
    <3> QED BY <2>1, <3>1 DEF Spawned, LoopFacts, Has
  <2>2. CASE l # 1
    <3>1. loop[l] = Unborn
      BY <2>2 DEF Init
    <3> QED BY <2>2, <3>1 DEF Unborn, LoopFacts, Has
  <2> QED BY <2>1, <2>2
<1>2. DocFacts
  BY DEF Init, DocFacts, NoJob, Stations
<1>3. firing = {} /\ matched = {}
  BY DEF Init
<1> QED BY <1>1, <1>2, <1>3 DEF Lineage, MatchedHolds

-----------------------------------------------------------------------------
(* Two things keep a rule from acting twice: the engine remembers that it  *)
(* matched, and its mark makes its condition false, as parking the run     *)
(* does.  Each kind of fault breaks one of them, so there are two worlds:  *)
(* nothing was forgotten, or no action failed.                             *)

Worlds == {"remembered", "marked"}
World(w) == IF w = "remembered" THEN used.forgot = 0 ELSE used.lost = 0

MarkedOn(r, e) == IF e = Run THEN Marked(Mark(r)) ELSE Has(e, Mark(r))
Shut(r, e) == MarkedOn(r, e) \/ (e = Run /\ run.parked)
Held(r, e) == Shut(r, e) \/ <<r, e>> \in matched
Firm(w, r, e) == Shut(r, e) \/ (w = "remembered" /\ <<r, e>> \in matched)

(* Where each of the four rules can match.                                 *)
At(r) == CASE r = "mint" -> {1}
           [] r = "develop" -> {l \in Loops : Decided(l, "dev_from_task") /\ Has(l, "anchored")}
           [] OTHER -> {Run}

(* What each has made: a loop, or a sandbox on its way or there.           *)
Born(k) == \E l \in Loops : loop[l].kind = k
Queued  == queue["provision"] # <<>>
Busy    == job["provision"].pc # "idle"
Stamped == run.sandbox # "none"
Made(r) == CASE r = "mint" -> Born("route") [] r = "kick-off" -> Born("dev")
             [] r = "develop" -> Born("developer") [] OTHER -> Queued \/ Busy \/ Stamped

(* A firing of theirs is held against a second, for good once its mark is  *)
(* past, and what it still owes is not there yet.                          *)
Guarded(w) ==
  \A f \in firing : f.rule \in OneShot =>
    /\ Held(f.rule, f.on) /\ f.on \in At(f.rule)
    /\ f.todo \in Past(f.rule) => Firm(w, f.rule, f.on)
    /\ Owing(f.todo) => ~Made(f.rule)
Alone == \A f, g \in firing : f.rule = g.rule /\ f.rule \in OneShot => f = g
Backed(w) == \A r \in OneShot : Made(r) => \E e \in At(r) : Firm(w, r, e)
Single == \A k, l \in Loops : loop[k].kind = loop[l].kind
                              /\ loop[l].kind \in {"route", "dev", "developer"} => k = l
OneSandbox == /\ Len(queue["provision"]) <= 1
              /\ ~(Queued /\ Busy) /\ ~(Queued /\ Stamped) /\ ~(Busy /\ Stamped)
Prepared == Born("dev") \/ (\E f \in firing : f.rule = "kick-off") =>
              run.spec # 0 /\ run.sandbox = "ready"

Once(w) == Guarded(w) /\ Alone /\ Backed(w) /\ Single /\ OneSandbox /\ Prepared
OnceInv(w) == World(w) => Once(w)

(* Each rule has one place: the coordinator that may start development is  *)
(* the router or the one the kick-off spawned, and there is no kick-off    *)
(* unless the router asked for a change instead.                           *)
LEMMA OnePlace ==
  ASSUME Typed, Lineage, Single, Prepared, NEW r \in OneShot, NEW d \in At(r), NEW e \in At(r)
  PROVE  d = e
<1>1. CASE r # "develop"
  BY <1>1 DEF At, OneShot
<1>2. CASE r = "develop"
  <2>1. \A l \in At("develop") : /\ l \in Loops /\ loop[l].kind \in {"route", "dev"}
                                 /\ loop[l].decision = "dev_from_task"
    <3>1. SUFFICES ASSUME NEW l \in Loops, Decided(l, "dev_from_task"), Has(l, "anchored")
                   PROVE  loop[l].kind \in {"route", "dev"}
      BY DEF At, Decided
    <3>2. /\ LoopFacts(l) /\ loop[l].kind \in Coordinators
          /\ loop[l].decision = "dev_from_task" 
      BY <3>1 DEF Lineage, Decided
    <3>3. loop[l].kind # "front" /\ loop[l].decision \in Choices(loop[l].kind)
      BY <3>1, <3>2 DEF LoopFacts
    <3> QED BY <3>2, <3>3 DEF Choices, Coordinators
  <2>2. ASSUME NEW k \in At("develop"), NEW l \in At("develop"),
               loop[k].kind = "route", loop[l].kind = "dev"
        PROVE  FALSE
    <3>1. Wrote
      BY <2>1, <2>2 DEF Prepared, Born, Lineage, DocFacts
    <3>2. PICK m \in Loops : loop[m].kind = "route" /\ loop[m].decision = "create_change"
      BY <3>1 DEF Wrote
    <3>3. m = k
      BY <2>1, <2>2, <3>2 DEF Single
    <3> QED BY <2>1, <2>2, <3>2, <3>3
  <2>3. d \in At("develop") /\ e \in At("develop")
    BY <1>2
  <2> QED BY <2>1, <2>2, <2>3 DEF Single
<1> QED BY <1>1, <1>2

-----------------------------------------------------------------------------
(* What stays.                                                             *)

LEMMA ReadyStays ==
  ASSUME Typed, Lineage, OneSandbox, [Next]_vars, run.sandbox = "ready"
  PROVE  run'.sandbox = "ready"
<1>1. ~StampSandbox
  BY DEF OneSandbox, Busy, Stamped, StampSandbox
<1> QED BY <1>1, RunSteps DEF RunGrows

LEMMA PlaceStays ==
  ASSUME Typed, Lineage, [Next]_vars, NEW r \in OneShot, NEW e \in At(r)
  PROVE  e \in At(r)' /\ (Shut(r, e) => Shut(r, e)')
<1>0. RunGrows /\ 1 \in Loops /\ 1 # Run /\ \A l \in Loops : l # Run
  BY RunSteps, FirstLoop DEF Loops, Run
<1>1. CASE r \in {"provision", "kick-off"}
  <2>1. e = Run /\ e \in At(r)'
    BY <1>1 DEF At
  <2> QED BY <1>0, <2>1 DEF Shut, MarkedOn, Marked, RunGrows
<1>2. CASE r = "mint"
  <2>1. e = 1 /\ e \in At(r)' /\ LoopFacts(1)
    BY <1>0, <1>2 DEF At, Lineage
  <2>2. loop[1].kind = "front"
    BY <2>1 DEF LoopFacts
  <2>3. loop[1].marks \subseteq loop'[1].marks
    BY <1>0, <2>2, LoopSteps DEF Same, Decides, BornOf
  <2> QED BY <1>0, <2>1, <2>3 DEF Shut, MarkedOn, Has
<1>3. CASE r = "develop"
  <2>1. e \in Loops /\ Decided(e, "dev_from_task") /\ Has(e, "anchored")
    BY <1>3 DEF At
  <2>2. Same(e) /\ Decided(e, "dev_from_task")'
    BY <2>1, DecidedStays DEF Decided
  <2>3. loop[e].marks \subseteq loop'[e].marks
    BY <2>2 DEF Same
  <2>4. Has(e, "anchored")'
    BY <2>1, <2>3 DEF Has
  <2>5. e \in At(r)'
    BY <1>3, <2>1, <2>2, <2>4 DEF At
  <2> QED BY <1>0, <2>1, <2>3, <2>5 DEF Shut, MarkedOn, Has
<1> QED BY <1>1, <1>2, <1>3 DEF OneShot

(* An approved run stays in execution.                                     *)
LEMMA ApprovalStays ==
  ASSUME Typed, Lineage, [Next]_vars, run.phase = "executing", run.decision = "approve"
  PROVE  run'.phase = "executing" /\ run'.decision = "approve"
<1>1. RunGrows
  BY RunSteps
<1>2. \A f \in firing : f.rule \notin {"offer", "cancel"}
  BY DEF Lineage, RuleFacts
<1> QED BY <1>1, <1>2 DEF RunGrows

LEMMA ConditionStays ==
  ASSUME Typed, Lineage, OneSandbox, [Next]_vars, NEW r \in OneShot, NEW e \in At(r), When(r, e)
  PROVE  When(r, e)' \/ Shut(r, e)'
<1>0. RunGrows /\ 1 \in Loops /\ 1 # Run /\ \A l \in Loops : l # Run
  BY RunSteps, FirstLoop DEF Loops, Run
<1>1. CASE r = "mint"
  <2>1. e = 1 /\ Decided(1, "issue_intake")
    BY <1>0, <1>1 DEF At, When, Mint
  <2>2. Decided(1, "issue_intake")'
    BY <1>0, <2>1, DecidedStays DEF Decided
  <2> QED BY <1>0, <1>1, <2>1, <2>2 DEF When, Mint, Shut, MarkedOn, Mark, Has
<1>2. CASE r = "develop"
  <2>1. e \in Loops /\ Decided(e, "dev_from_task") /\ Has(e, "anchored")
    BY <1>2 DEF At
  <2>2. e \in At(r)'
    BY PlaceStays
  <2>3. Decided(e, "dev_from_task")' /\ Has(e, "anchored")'
    BY <1>2, <2>2 DEF At
  <2> QED BY <1>0, <1>2, <2>1, <2>3 DEF When, Develop, Shut, MarkedOn, Mark, Has
<1>3. CASE r \in {"provision", "kick-off"}
  <2>1. e = Run /\ Approved /\ run.anchor /\ run.spec # 0
    BY <1>3 DEF At, When, Provision, KickOff
  <2>2. /\ run'.phase = "executing" /\ run'.decision = "approve" /\ run'.anchor
        /\ run'.spec # 0
    BY <1>0, <2>1, ApprovalStays DEF Approved, RunGrows
  <2>3. CASE r = "provision"
    BY <2>1, <2>2, <2>3 DEF When, Provision, Approved, Shut, MarkedOn, Mark, Marked
  <2>4. CASE r = "kick-off"
    <3>1. run.sandbox = "ready"
      BY <2>1, <2>4 DEF When, KickOff
    <3>2. run'.sandbox = "ready"
      BY <3>1, ReadyStays
    <3> QED BY <2>1, <2>2, <2>4, <3>2 DEF When, KickOff, Approved, Shut, MarkedOn, Mark, Marked
  <2> QED BY <1>3, <2>3, <2>4
<1> QED BY <1>1, <1>2, <1>3 DEF OneShot

LEMMA MatchedStays ==
  ASSUME Typed, Lineage, OneSandbox, [Next]_vars, ~Restart,
         NEW r \in OneShot, NEW e \in At(r), <<r, e>> \in matched
  PROVE  <<r, e>> \in matched' \/ Shut(r, e)'
<1>1. When(r, e)
  BY DEF Lineage, MatchedHolds
<1>2. When(r, e)' \/ Shut(r, e)'
  BY <1>1, ConditionStays
<1>3. CASE RuleState
  BY <1>2, <1>3 DEF RuleState
<1>4. ASSUME NEW re \in RuleOn, Fire(re[1], re[2]) PROVE <<r, e>> \in matched'
  BY <1>4 DEF Fire
<1> QED BY <1>3, <1>4, Memory

(* Faults are not undone.                                                  *)
LEMMA UsedGrows ==
  ASSUME Typed, [Next]_vars
  PROVE  /\ used'.forgot = 0 => used.forgot = 0
         /\ used'.lost = 0 => used.lost = 0
         /\ (\E f \in firing : LoseAction(f)) => used'.lost # 0
<1>0. used \in Usage /\ used.forgot \in Nat /\ used.lost \in Nat
  BY DEF Typed, TypeOK, Usage
<1>1. used.forgot + 1 # 0 /\ used.lost + 1 # 0
  BY <1>0
<1>2. Lose => used'.lost = used.lost + 1 /\ used'.forgot = used.forgot
  BY <1>0 DEF Lose, Usage
<1>3. Error => used'.lost = used.lost /\ used'.forgot = used.forgot
  BY <1>0 DEF Error, Usage
<1>4. Restart => /\ used'.lost = used.lost
                 /\ used'.forgot = used.forgot \/ used'.forgot = used.forgot + 1
  BY <1>0 DEF Restart, Usage
<1>5. used' = used \/ Lose \/ Error \/ Restart
  <2>1. ASSUME NEW s \in Stations, StationNext(s) \/ HandleError(s) \/ DropDispatch(s)
        PROVE  used' = used \/ Lose \/ Error
    BY <2>1 DEF StationNext, HandleError, DropDispatch, Take, StampDispatchFailed, ReadDocument,
                Work, Judge, StampValidated, ReadValidated, BindRevision, ReadTasks, StampSpec,
                Materialize, ProveCold, StampSandbox
  <2>2. ASSUME NEW l \in Loops, LoopNext(l) \/ EndUndecided(l) PROVE used' = used \/ Lose \/ Error
    BY <2>2 DEF LoopNext, Decide, WriteChange, MarkAuthored, EndUndecided
  <2>3. ASSUME NEW f \in firing, Act(f) \/ LoseAction(f) PROVE used' = used \/ Lose
    BY <2>3 DEF Act, AddMark, AddToRun, MovePhase, SpawnLoop, PublishDispatch, LoseAction
  <2>4. ASSUME \/ (\E re \in RuleOn : Fire(re[1], re[2])) \/ UNCHANGED vars
               \/ \E d \in {"approve", "reject"} : DecideGate(d)
        PROVE  used' = used
    BY <2>4 DEF Fire, vars, DecideGate
  <2> QED BY <2>1, <2>2, <2>3, <2>4 DEF Next, EngineNext
<1>6. (\E f \in firing : LoseAction(f)) => Lose
  BY DEF LoseAction
<1> QED BY <1>1, <1>2, <1>3, <1>4, <1>5, <1>6

LEMMA WorldsLast ==
  ASSUME Typed, [Next]_vars, NEW w \in Worlds, World(w)'
  PROVE  World(w) /\ ((\E f \in firing : LoseAction(f)) => w = "remembered")
  BY UsedGrows DEF World, Worlds

LEMMA HeldStays ==
  ASSUME Typed, Lineage, OneSandbox, [Next]_vars, ~Restart,
         NEW r \in OneShot, NEW e \in At(r), Held(r, e)
  PROVE  Held(r, e)'
  BY MatchedStays, PlaceStays DEF Held

LEMMA FirmStays ==
  ASSUME Typed, Lineage, OneSandbox, [Next]_vars, NEW w \in Worlds, World(w)',
         NEW r \in OneShot, NEW e \in At(r), Firm(w, r, e)
  PROVE  Firm(w, r, e)'
<1>1. CASE ~Restart
  BY <1>1, MatchedStays, PlaceStays DEF Firm
<1>2. CASE Restart
  <2>1. w = "remembered" => matched' = matched
    <3>1. used \in Usage /\ used.forgot \in Nat
      BY DEF Typed, TypeOK, Usage
    <3>2. used.forgot + 1 # 0
      BY <3>1
    <3>3. matched' = matched \/ used'.forgot = used.forgot + 1
      BY <1>2, <3>1 DEF Restart, Usage
    <3> QED BY <3>2, <3>3 DEF World
  <2> QED BY <2>1, PlaceStays DEF Firm
<1> QED BY <1>1, <1>2

-----------------------------------------------------------------------------
(* How the sandbox comes about: dispatched, taken, stamped.                *)
Dispatching(f) == PublishDispatch(f) /\ Head(f.todo) = "provision"

SandboxKept == /\ queue'["provision"] = queue["provision"] /\ run'.sandbox = run.sandbox
               /\ Busy' => Busy
SandboxGone == /\ queue'["provision"] = <<>> /\ ~Busy' /\ run'.sandbox = run.sandbox
SandboxTaken == /\ Queued /\ queue'["provision"] = Tail(queue["provision"])
                /\ run'.sandbox = run.sandbox
SandboxStamped == /\ Busy /\ ~Busy' /\ queue'["provision"] = queue["provision"]
SandboxSent == /\ \E f \in firing : Dispatching(f)
               /\ \E e : queue'["provision"] = Append(queue["provision"], e)
               /\ run'.sandbox = run.sandbox /\ (Busy' => Busy)

LEMMA SandboxSteps ==
  ASSUME Typed, [Next]_vars
  PROVE  SandboxKept \/ SandboxGone \/ SandboxTaken \/ SandboxStamped \/ SandboxSent
<1> DEFINE p == "provision"
<1>0. /\ p \in Stations /\ run \in RunState /\ job \in [Stations -> JobState]
      /\ queue \in [Stations -> Seq(Loops \cup {Run})] /\ job[p] \in JobState
  BY DEF Typed, TypeOK, Stations
<1>1. ASSUME \/ EngineNext \/ (\E f \in firing : LoseAction(f))
             \/ (\E l \in Loops : LoopNext(l) \/ EndUndecided(l))
             \/ (\E d \in {"approve", "reject"} : DecideGate(d)) \/ UNCHANGED vars
      PROVE  SandboxKept \/ SandboxSent
  <2>1. job' = job
    BY <1>1 DEF EngineNext, Fire, Act, AddMark, AddToRun, MovePhase, SpawnLoop, PublishDispatch,
                LoseAction, LoopNext, Decide, WriteChange, MarkAuthored, EndUndecided,
                DecideGate, vars
  <2>2. run'.sandbox = run.sandbox
    <3>1. \/ EngineNext \/ (\E f \in firing : LoseAction(f))
          \/ (\E l \in Loops, a \in Actions : Decide(l, a))
          \/ (\E l \in Loops : MarkAuthored(l) \/ EndUndecided(l))
          \/ (\E l \in Loops : WriteChange(l))
          \/ (\E d \in {"approve", "reject"} : DecideGate(d)) \/ UNCHANGED vars
      BY <1>1 DEF LoopNext
    <3>2. ASSUME NEW l \in Loops, WriteChange(l) PROVE run'.sandbox = run.sandbox
      BY <1>0, <3>2 DEF WriteChange, RunState
    <3>3. ASSUME NEW d \in {"approve", "reject"}, DecideGate(d) PROVE run'.sandbox = run.sandbox
      BY <1>0, <3>3 DEF DecideGate, RunState
    <3> QED BY <3>1, <3>2, <3>3, EngineFrame DEF vars
  <2>3. CASE \E f \in firing : PublishDispatch(f)
    <3>1. PICK f \in firing : PublishDispatch(f)
      BY <2>3
    <3>2. CASE Head(f.todo) = p
      <4>1. queue'[p] = Append(queue[p], f.on)
        BY <1>0, <3>1, <3>2 DEF PublishDispatch
      <4> QED BY <2>1, <2>2, <3>1, <3>2, <4>1 DEF SandboxSent, Dispatching, Busy
    <3>3. CASE Head(f.todo) # p
      <4>1. queue'[p] = queue[p]
        BY <1>0, <3>1, <3>3 DEF PublishDispatch
      <4> QED BY <2>1, <2>2, <4>1 DEF SandboxKept, Busy
    <3> QED BY <3>2, <3>3
  <2>4. CASE ~\E f \in firing : PublishDispatch(f)
    <3>1. queue' = queue
      BY <1>1, <2>4 DEF EngineNext, Fire, Act, AddMark, AddToRun, MovePhase, SpawnLoop,
                LoseAction, LoopNext, Decide, WriteChange, MarkAuthored, EndUndecided,
                DecideGate, vars
    <3> QED BY <2>1, <2>2, <3>1 DEF SandboxKept, Busy
  <2> QED BY <2>3, <2>4
<1>2. CASE Restart
  <2>1. queue'[p] = <<>> /\ job'[p].pc = "idle" /\ run' = run
    BY <1>0, <1>2 DEF Restart, NoJob
  <2> QED BY <2>1 DEF SandboxGone, Busy
<1>3. ASSUME NEW s \in Stations,
             Take(s) \/ StampDispatchFailed(s) \/ HandleError(s) \/ DropDispatch(s)
      PROVE  SandboxKept \/ SandboxTaken
  <2>1. run'.sandbox = run.sandbox
    BY <1>3, StationFrame
  <2>2. CASE s # p
    <3>1. queue'[p] = queue[p] /\ job'[p] = job[p]
      BY <1>0, <1>3, <2>2 DEF Take, StampDispatchFailed, HandleError, DropDispatch, Failing
    <3> QED BY <2>1, <3>1 DEF SandboxKept, Busy
  <2>3. CASE s = p /\ Take(s)
    <3>1. queue[p] # <<>> /\ queue'[p] = Tail(queue[p])
      BY <1>0, <2>3 DEF Take
    <3> QED BY <2>1, <3>1 DEF SandboxTaken, Queued
  <2>4. CASE s = p /\ ~Take(s)
    <3>1. queue'[p] = queue[p] /\ job[p].pc # "idle"
      BY <1>3, <2>4 DEF StampDispatchFailed, HandleError, DropDispatch
    <3> QED BY <2>1, <3>1 DEF SandboxKept, Busy
  <2> QED BY <2>2, <2>3, <2>4
<1>4. CASE ValidationNext \/ ProjectionNext
  <2>1. queue' = queue /\ job'[p] = job[p]
    BY <1>0, <1>4 DEF ValidationNext, ReadDocument, Work, Judge, StampValidated, ProjectionNext,
                      ReadValidated, BindRevision, ReadTasks, StampSpec, Failing
  <2>2. \/ run' = run \/ \E v : run' = [run EXCEPT !.validated = v] \/ run' = [run EXCEPT !.spec = v]
    BY <1>4 DEF ValidationNext, ReadDocument, Work, Judge, StampValidated, ProjectionNext,
                      ReadValidated, BindRevision, ReadTasks, StampSpec
  <2>3. run'.sandbox = run.sandbox
    BY <1>0, <2>2 DEF RunState
  <2> QED BY <2>1, <2>3 DEF SandboxKept, Busy
<1>5. CASE Materialize \/ \E b \in BOOLEAN : ProveCold(b)
  <2>1. queue' = queue /\ run' = run /\ job[p].pc # "idle"
    BY <1>5 DEF Materialize, ProveCold
  <2> QED BY <2>1 DEF SandboxKept, Busy
<1>6. CASE StampSandbox
  <2>1. queue' = queue /\ job[p].pc # "idle" /\ job'[p].pc = "idle"
    BY <1>0, <1>6 DEF StampSandbox, NoJob
  <2> QED BY <2>1 DEF SandboxStamped, Busy
<1>7. ASSUME NEW s \in Stations, StationNext(s) \/ HandleError(s) \/ DropDispatch(s)
      PROVE  \/ Take(s) \/ StampDispatchFailed(s) \/ HandleError(s) \/ DropDispatch(s)
             \/ ValidationNext \/ ProjectionNext
             \/ Materialize \/ (\E b \in BOOLEAN : ProveCold(b)) \/ StampSandbox
  BY <1>7 DEF StationNext, ValidationNext, ProjectionNext
<1> QED BY <1>1, <1>2, <1>3, <1>4, <1>5, <1>6, <1>7 DEF Next, EngineNext

-----------------------------------------------------------------------------
(* What one of the rules has made was made by a firing of it.              *)
Making(f) == Act(f) /\ Head(f.todo) = Product(f.rule)

LEMMA MakerRule ==
  ASSUME Typed, NEW f \in firing, NEW r \in OneShot, Head(f.todo) = Product(r)
  PROVE  f.rule = r
<1>1. Head(f.todo) \in StepsOf(f.rule)
  BY FiringFacts
<1> QED BY <1>1 DEF StepsOf, Product, OneShot

LEMMA MadeBy ==
  ASSUME Typed, Lineage, [Next]_vars, NEW r \in OneShot, Made(r)', ~Made(r)
  PROVE  \E f \in firing : f.rule = r /\ Making(f)
<1>1. ASSUME NEW k, k \in {"route", "dev", "developer"}, Born(k)', ~Born(k), k = Product(r)
      PROVE  \E f \in firing : f.rule = r /\ Making(f)
  <2>1. PICK l \in Loops : loop'[l].kind = k
    BY <1>1 DEF Born
  <2>2. PICK f \in firing : BornOf(l, f)
    BY <1>1, <2>1, LoopSteps DEF Born, Same, Decides
  <2>3. Head(f.todo) = k /\ Act(f)
    BY <2>1, <2>2 DEF BornOf, Spawned, Act
  <2>4. f.rule = r
    BY <1>1, <2>3, MakerRule
  <2> QED BY <1>1, <2>3, <2>4 DEF Making
<1>2. CASE r = "provision"
  <2>1. ~Queued /\ ~Busy /\ ~Stamped /\ (Queued' \/ Busy' \/ Stamped')
    BY <1>2 DEF Made
  <2>2. SandboxSent
    BY <2>1, SandboxSteps DEF SandboxKept, SandboxGone, SandboxTaken, SandboxStamped, Queued, Stamped
  <2>3. PICK f \in firing : PublishDispatch(f) /\ Head(f.todo) = "provision"
    BY <2>2 DEF SandboxSent, Dispatching
  <2>4. f.rule = r
    BY <1>2, <2>3, MakerRule DEF Product
  <2> QED BY <1>2, <2>3, <2>4 DEF Making, Act, Product
<1> QED BY <1>1, <1>2 DEF Made, Product, OneShot

LEMMA Makers ==
  ASSUME Typed, Lineage, NEW w, Guarded(w), NEW f \in firing, f.rule \in OneShot,
         Head(f.todo) = Product(f.rule)
  PROVE  ~Made(f.rule) /\ Firm(w, f.rule, f.on) /\ f.on \in At(f.rule)
<1>1. f.todo \in Past(f.rule)
  BY EarlyStage DEF Lineage, RuleFacts
<1>2. Owing(f.todo)
  BY <1>1, PastStage
<1> QED BY <1>1, <1>2 DEF Guarded

(* The actions of a firing do not outlive it.                              *)
LEMMA Successor ==
  ASSUME Typed, Alone, NEW f \in firing, f.rule \in OneShot, Act(f) \/ LoseAction(f),
         NEW g \in firing', g.rule = f.rule
  PROVE  Onward(f, g)
<1>0. f \in Firing /\ f.todo # <<>>
  BY FiringFacts
<1>1. g \notin firing \ {f}
  BY DEF Alone
<1>2. CASE firing' = firing \ {f}
  BY <1>1, <1>2
<1>3. CASE Advance(f) /\ (Act(f) \/ (LoseAction(f) /\ f.rule # "mint"))
  <2>1. Len(f.todo) > 1 /\ g = [f EXCEPT !.todo = Tail(@)]
    BY <1>1, <1>3 DEF Advance
  <2>2. g.rule = f.rule /\ g.on = f.on /\ g.todo = Tail(f.todo)
    BY <1>0, <2>1 DEF Firing
  <2> QED BY <1>0, <1>3, <2>1, <2>2 DEF Onward
<1> QED BY <1>2, <1>3 DEF Act, AddMark, AddToRun, MovePhase, SpawnLoop, PublishDispatch, LoseAction

LEMMA Delivered ==
  ASSUME Typed, Lineage, [Next]_vars, NEW w, Once(w), NEW g \in firing', g.rule \in OneShot,
         Owing(g.todo), Made(g.rule)'
  PROVE  Made(g.rule)
<1> SUFFICES ASSUME ~Made(g.rule) PROVE FALSE
  OBVIOUS
<1>1. PICK f \in firing : f.rule = g.rule /\ Making(f)
  BY MadeBy
<1>2. Onward(f, g)
  BY <1>1, Successor DEF Once, Making
<1>3. f.todo \in Past(f.rule)
  BY <1>1, EarlyStage DEF Making, Lineage, RuleFacts
<1>4. ~Owing(Tail(f.todo))
  BY <1>1, <1>2, <1>3, PastStage DEF Making, Onward
<1> QED BY <1>2, <1>4 DEF Onward

-----------------------------------------------------------------------------
(* The parts of the invariant, step by step.                               *)

(* A rule that fires has made nothing yet and is nowhere else at work.     *)
LEMMA FiresOnce ==
  ASSUME Typed, Lineage, NEW w \in Worlds, Once(w), NEW r \in OneShot, NEW e,
         <<r, e>> \in RuleOn, Fire(r, e)
  PROVE  e \in At(r) /\ ~Made(r) /\ \A f \in firing : f.rule # r
<1>0. /\ <<r, e>> \notin matched /\ When(r, e)
      /\ r \in LoopRules => e \in Loops /\ e # Run
      /\ r \in RunRules => e = Run
  BY RuleOnFacts DEF Fire, Loops, Run
<1>1. e \in At(r) /\ ~Shut(r, e)
  <2>1. CASE r = "mint"
    <3>1. e \in Loops /\ Mint(e) /\ e # Run
      BY <1>0, <2>1 DEF LoopRules, When
    <3>2. LoopFacts(e) /\ loop[e].kind \in Coordinators /\ loop[e].decision = "issue_intake"
          /\ ~Has(e, "anchored")
      BY <3>1 DEF Mint, Decided, Lineage
    <3>3. loop[e].kind = "front"
      BY <3>2 DEF LoopFacts, Choices, Coordinators
    <3> QED BY <2>1, <3>1, <3>2, <3>3 DEF LoopFacts, At, Shut, MarkedOn, Mark
  <2>2. CASE r = "develop"
    BY <1>0, <2>2 DEF LoopRules, When, Develop, At, Shut, MarkedOn, Mark
  <2>3. CASE r = "provision"
    BY <1>0, <2>3 DEF RunRules, When, Provision, Approved, At, Shut, MarkedOn, Mark
  <2>4. CASE r = "kick-off"
    BY <1>0, <2>4 DEF RunRules, When, KickOff, Approved, At, Shut, MarkedOn, Mark
  <2> QED BY <2>1, <2>2, <2>3, <2>4 DEF OneShot
<1>2. ~Held(r, e) /\ ~Firm(w, r, e)
  BY <1>0, <1>1 DEF Held, Firm
<1>3. \A d \in At(r) : d = e
  BY <1>1, OnePlace DEF Once
<1>4. ~Made(r)
  BY <1>2, <1>3 DEF Once, Backed
<1>5. \A f \in firing : f.rule # r
  BY <1>2, <1>3 DEF Once, Guarded
<1> QED BY <1>1, <1>4, <1>5

LEMMA BackedStep ==
  ASSUME Typed, Lineage, [Next]_vars, NEW w \in Worlds, World(w)', Once(w)
  PROVE  Backed(w)'
<1>1. SUFFICES ASSUME NEW r \in OneShot, Made(r)' PROVE \E e \in At(r)' : Firm(w, r, e)'
  BY DEF Backed
<1>2. \E e \in At(r) : Firm(w, r, e)
  <2>1. CASE Made(r)
    BY <2>1 DEF Once, Backed
  <2>2. CASE ~Made(r)
    BY <1>1, <2>2, MadeBy, Makers DEF Once, Making
  <2> QED BY <2>1, <2>2
<1> QED BY <1>2, FirmStays, PlaceStays DEF Once

LEMMA SandboxStep ==
  ASSUME Typed, Lineage, [Next]_vars, NEW w, Once(w) PROVE OneSandbox'
<1>0. /\ OneSandbox /\ queue["provision"] \in Seq(Loops \cup {Run})
  BY DEF Once, Typed, TypeOK, Stations
<1>1. CASE SandboxKept
  BY <1>0, <1>1 DEF SandboxKept, OneSandbox, Queued, Stamped
<1>2. CASE SandboxGone
  <2>1. Len(<<>>) <= 1
    OBVIOUS
  <2> QED BY <1>2, <2>1 DEF SandboxGone, OneSandbox, Queued
<1>3. CASE SandboxTaken
  <2>1. queue["provision"] # <<>> /\ Len(queue["provision"]) <= 1 /\ ~Stamped
    BY <1>0, <1>3 DEF SandboxTaken, OneSandbox, Queued
  <2>2. /\ Tail(queue["provision"]) \in Seq(Loops \cup {Run})
        /\ Len(Tail(queue["provision"])) = Len(queue["provision"]) - 1
    BY <1>0, <2>1, HeadTailProperties
  <2>3. PICK n \in Nat, m \in Nat : /\ n = Len(queue["provision"])
                                   /\ m = Len(Tail(queue["provision"]))
    BY <1>0, <2>2, LenProperties
  <2>4. m = n - 1 /\ n <= 1
    BY <2>1, <2>2, <2>3
  <2>5. m = 0 /\ m <= 1
    BY <2>4
  <2>6. Tail(queue["provision"]) = <<>> /\ Len(Tail(queue["provision"])) <= 1
    BY <2>2, <2>3, <2>5, EmptySeq
  <2> QED BY <1>3, <2>1, <2>6 DEF SandboxTaken, OneSandbox, Queued, Stamped
<1>4. CASE SandboxStamped
  BY <1>0, <1>4 DEF SandboxStamped, OneSandbox, Queued
<1>5. CASE SandboxSent
  <2>1. PICK f \in firing : PublishDispatch(f) /\ Head(f.todo) = "provision"
    BY <1>5 DEF SandboxSent, Dispatching
  <2>2. f.rule = "provision"
    BY <2>1, MakerRule DEF OneShot, Product
  <2>3. ~Made("provision")
    BY <2>1, <2>2, Makers DEF Once, OneShot, Product
  <2>4. ~Queued /\ ~Busy /\ ~Stamped
    BY <2>3 DEF Made
  <2>5. PICK e : queue'["provision"] = Append(<<>>, e)
    BY <1>5, <2>4 DEF SandboxSent, Queued
  <2>6. Len(queue'["provision"]) <= 1
    BY <2>5
  <2> QED BY <1>5, <2>4, <2>6 DEF SandboxSent, OneSandbox, Stamped
<1> QED BY <1>1, <1>2, <1>3, <1>4, <1>5, SandboxSteps

(* A spawn makes one loop.                                                 *)
LEMMA OneBirth ==
  ASSUME Typed, Lineage, NEW f \in firing, NEW g \in firing, NEW k \in Loops, NEW l \in Loops,
         BornOf(k, f), BornOf(l, g)
  PROVE  k = l
<1>1. loop \in [Loops -> LoopState]
  BY DEF Typed, TypeOK
<1>2. PICK m \in Loops : \E v : loop' = [loop EXCEPT ![m] = v]
  BY DEF BornOf, SpawnLoop
<1>3. /\ loop[k].kind = "none" /\ loop'[k].kind # "none"
      /\ loop[l].kind = "none" /\ loop'[l].kind # "none"
  BY DEF BornOf, SpawnLoop, Spawned, Kinds
<1> QED BY <1>1, <1>2, <1>3

LEMMA BirthNew ==
  ASSUME Typed, Lineage, NEW w, Guarded(w), NEW f \in firing, NEW l \in Loops, BornOf(l, f),
         loop'[l].kind \in {"route", "dev", "developer"}
  PROVE  ~Born(loop'[l].kind)
<1>1. loop'[l].kind = Head(f.todo)
  BY DEF BornOf, Spawned
<1>2. PICK r \in {"mint", "kick-off", "develop"} : Head(f.todo) = Product(r)
  BY <1>1 DEF Product
<1>3. f.rule = r /\ ~Made(r)
  BY <1>2, MakerRule, Makers DEF OneShot
<1> QED BY <1>1, <1>2, <1>3 DEF Made, Product

LEMMA SingleStep ==
  ASSUME Typed, Lineage, [Next]_vars, NEW w, Once(w) PROVE Single'
<1>1. SUFFICES ASSUME NEW k \in Loops, NEW l \in Loops, loop'[k].kind = loop'[l].kind,
                      loop'[l].kind \in {"route", "dev", "developer"}
               PROVE  k = l
  BY DEF Single
<1>2. \A m \in Loops : loop'[m].kind = loop[m].kind \/ \E f \in firing : BornOf(m, f)
  BY LoopSteps DEF Same, Decides
<1>3. CASE loop'[k].kind = loop[k].kind /\ loop'[l].kind = loop[l].kind
  BY <1>1, <1>3 DEF Once, Single
<1>4. ASSUME NEW f \in firing, BornOf(k, f), loop'[l].kind = loop[l].kind PROVE FALSE
  <2>1. ~Born(loop'[k].kind)
    BY <1>1, <1>4, BirthNew DEF Once
  <2> QED BY <1>1, <1>4, <2>1 DEF Born
<1>5. ASSUME NEW f \in firing, BornOf(l, f), loop'[k].kind = loop[k].kind PROVE FALSE
  <2>1. ~Born(loop'[l].kind)
    BY <1>1, <1>5, BirthNew DEF Once
  <2> QED BY <1>1, <1>5, <2>1 DEF Born
<1> QED BY <1>2, <1>3, <1>4, <1>5, OneBirth

LEMMA PreparedStep ==
  ASSUME Typed, Lineage, [Next]_vars, NEW w, Once(w) PROVE Prepared'
<1>0. RunGrows /\ OneSandbox /\ Prepared
  BY RunSteps DEF Once
<1>1. ASSUME run.spec # 0, run.sandbox = "ready" PROVE run'.spec # 0 /\ run'.sandbox = "ready"
  BY <1>0, <1>1, ReadyStays DEF RunGrows
<1>2. ASSUME Born("dev")' PROVE run.spec # 0 /\ run.sandbox = "ready"
  <2>1. CASE Born("dev")
    BY <1>0, <2>1 DEF Prepared
  <2>2. CASE ~Born("dev")
    <3>1. Made("kick-off")' /\ ~Made("kick-off")
      BY <1>2, <2>2 DEF Made
    <3>2. \E f \in firing : f.rule = "kick-off"
      BY <3>1, MadeBy DEF OneShot
    <3> QED BY <1>0, <3>2 DEF Prepared
  <2> QED BY <2>1, <2>2
<1>3. ASSUME NEW g \in firing', g.rule = "kick-off" PROVE run'.spec # 0 /\ run'.sandbox = "ready"
  <2>1. CASE g \in firing
    BY <1>0, <1>1, <1>3, <2>1 DEF Prepared
  <2>2. CASE \E f \in firing : Onward(f, g)
    BY <1>0, <1>1, <1>3, <2>2 DEF Prepared, Onward
  <2>3. CASE Begun(g)
    <3>1. PICK r, e : /\ <<r, e>> \in RuleOn /\ Fire(r, e)
                      /\ g = [rule |-> r, on |-> e, todo |-> Does(r)]
      BY <2>3 DEF Begun, RuleOn
    <3>2. r = "kick-off" /\ e = Run
      BY <1>3, <3>1, RuleOnFacts DEF RunRules
    <3> QED BY <3>1, <3>2 DEF Fire, When, KickOff
  <2> QED BY <2>1, <2>2, <2>3, EngineSteps
<1> QED BY <1>1, <1>2, <1>3 DEF Prepared

LEMMA AloneStep ==
  ASSUME Typed, Lineage, [Next]_vars, NEW w \in Worlds, Once(w) PROVE Alone'
<1>1. SUFFICES ASSUME NEW f \in firing', NEW g \in firing', f.rule = g.rule, f.rule \in OneShot
               PROVE  f = g
  BY DEF Alone
<1>2. Alone
  BY DEF Once
<1>3. ASSUME NEW h \in firing', h.rule = f.rule, Begun(h), h \notin firing
      PROVE  \A i \in firing' : i.rule = h.rule => i = h
  <2>1. PICK r, e : /\ <<r, e>> \in RuleOn /\ Fire(r, e)
                    /\ h = [rule |-> r, on |-> e, todo |-> Does(r)]
    BY <1>3 DEF Begun, RuleOn
  <2>2. r \in OneShot /\ firing' = firing \cup {h} /\ h.rule = r
    BY <1>1, <1>3, <2>1 DEF Fire
  <2>3. \A i \in firing : i.rule # r
    BY <2>1, <2>2, FiresOnce
  <2> QED BY <2>2, <2>3
<1>4. ASSUME NEW h \in firing, NEW k \in firing', Onward(h, k), h.rule = f.rule
      PROVE  \A i \in firing' : i.rule = h.rule => i = k
  <2>1. SUFFICES ASSUME NEW i \in firing', i.rule = h.rule PROVE i = k
    OBVIOUS
  <2>2. Act(h) \/ LoseAction(h)
    BY <1>4 DEF Onward
  <2>3. Onward(h, i) /\ h.rule \in OneShot
    BY <1>1, <1>2, <1>4, <2>1, <2>2, Successor
  <2>4. i.rule = k.rule /\ i.on = k.on /\ i.todo = k.todo
    BY <1>4, <2>3 DEF Onward
  <2>5. i \in Firing /\ k \in Firing
    <3>1. Typed'
      BY StepTyped
    <3> QED BY <3>1 DEF Typed, TypeOK
  <2> QED BY <2>4, <2>5 DEF Firing
<1>5. CASE f \in firing /\ g \in firing
  BY <1>1, <1>2, <1>5 DEF Alone
<1>6. CASE f \notin firing
  <2>1. CASE Begun(f)
    BY <1>1, <1>3, <1>6, <2>1
  <2>2. CASE \E h \in firing : Onward(h, f)
    <3>1. PICK h \in firing : Onward(h, f)
      BY <2>2
    <3>2. h.rule = f.rule
      BY <3>1 DEF Onward
    <3> QED BY <1>1, <1>4, <3>1, <3>2
  <2> QED BY <1>6, <2>1, <2>2, EngineSteps
<1>7. CASE g \notin firing
  <2>1. CASE Begun(g)
    BY <1>1, <1>3, <1>7, <2>1
  <2>2. CASE \E h \in firing : Onward(h, g)
    <3>1. PICK h \in firing : Onward(h, g)
      BY <2>2
    <3>2. h.rule = f.rule
      BY <1>1, <3>1 DEF Onward
    <3> QED BY <1>1, <1>4, <3>1, <3>2
  <2> QED BY <1>7, <2>1, <2>2, EngineSteps
<1> QED BY <1>5, <1>6, <1>7

(* The mark of a firing is written where its rule looks for it.            *)
LEMMA MarkShuts ==
  ASSUME Typed, NEW f \in firing, f.rule \in OneShot, Act(f), Head(f.todo) = Mark(f.rule)
  PROVE  Shut(f.rule, f.on)'
<1>0. /\ <<f.rule, f.on>> \in RuleOn /\ f.on \in Loops \cup {Run} /\ run \in RunState
      /\ loop \in [Loops -> LoopState]
  BY FiringFacts, RuleOnFacts DEF Typed, TypeOK
<1>1. Mark(f.rule) \in Marks /\ AddMark(f)
  <2>1. Mark(f.rule) \in Marks
    BY DEF Mark, Marks
  <2> QED BY <2>1, ActKinds
<1>2. CASE f.on = Run
  <2>1. run' = [run EXCEPT !.marks = run.marks \cup {Mark(f.rule)}]
    BY <1>1, <1>2 DEF AddMark
  <2>2. Mark(f.rule) \in run'.marks
    BY <1>0, <2>1 DEF RunState
  <2> QED BY <1>2, <2>2 DEF Shut, MarkedOn, Marked
<1>3. CASE f.on # Run
  <2>1. /\ f.on \in Loops /\ loop[f.on] \in LoopState
        /\ loop' = [loop EXCEPT ![f.on].marks = loop[f.on].marks \cup {Mark(f.rule)}]
    BY <1>0, <1>1, <1>3 DEF AddMark
  <2>2. Mark(f.rule) \in loop'[f.on].marks
    BY <1>0, <2>1 DEF LoopState
  <2> QED BY <1>3, <2>2 DEF Shut, MarkedOn, Has
<1> QED BY <1>2, <1>3

LEMMA GuardedStep ==
  ASSUME Typed, Lineage, [Next]_vars, NEW w \in Worlds, World(w)', Once(w) PROVE Guarded(w)'
<1>1. SUFFICES ASSUME NEW g \in firing', g.rule \in OneShot
               PROVE  /\ Held(g.rule, g.on)' /\ g.on \in At(g.rule)'
                      /\ g.todo \in Past(g.rule) => Firm(w, g.rule, g.on)'
                      /\ Owing(g.todo) => ~Made(g.rule)'
  BY DEF Guarded
<1>2. Restart => firing' = {}
  BY DEF Restart
<1>3. ~Restart /\ OneSandbox
  BY <1>1, <1>2 DEF Once
<1>4. CASE g \in firing
  <2>1. /\ Held(g.rule, g.on) /\ g.on \in At(g.rule)
        /\ g.todo \in Past(g.rule) => Firm(w, g.rule, g.on)
        /\ Owing(g.todo) => ~Made(g.rule)
    BY <1>1, <1>4 DEF Once, Guarded
  <2>2. Held(g.rule, g.on)' /\ g.on \in At(g.rule)'
    BY <1>1, <1>3, <2>1, HeldStays, PlaceStays
  <2>3. g.todo \in Past(g.rule) => Firm(w, g.rule, g.on)'
    BY <1>1, <1>3, <2>1, FirmStays
  <2>4. Owing(g.todo) => ~Made(g.rule)'
    BY <1>1, <2>1, Delivered
  <2> QED BY <2>2, <2>3, <2>4
<1>5. ASSUME NEW f \in firing, Onward(f, g)
      PROVE  /\ Held(g.rule, g.on)' /\ g.on \in At(g.rule)'
             /\ g.todo \in Past(g.rule) => Firm(w, g.rule, g.on)'
             /\ Owing(g.todo) => ~Made(g.rule)'
  <2>0. /\ g.rule = f.rule /\ g.on = f.on /\ g.todo = Tail(f.todo) /\ Len(f.todo) > 1
        /\ f.todo \in Early(f.rule) \cup Past(f.rule) /\ f.rule \in OneShot
    BY <1>1, <1>5 DEF Onward, Lineage, RuleFacts
  <2>1. /\ Held(f.rule, f.on) /\ f.on \in At(f.rule)
        /\ f.todo \in Past(f.rule) => Firm(w, f.rule, f.on)
        /\ Owing(f.todo) => ~Made(f.rule)
    BY <2>0 DEF Once, Guarded
  <2>2. Held(f.rule, f.on)' /\ f.on \in At(f.rule)'
    BY <1>3, <2>0, <2>1, HeldStays, PlaceStays
  <2>3. ASSUME Tail(f.todo) \in Past(f.rule) PROVE Firm(w, f.rule, f.on)'
    <3>1. CASE f.todo \in Past(f.rule)
      BY <1>3, <2>0, <2>1, <3>1, FirmStays
    <3>2. CASE f.todo \in Early(f.rule) /\ Act(f)
      <4>1. Head(f.todo) = Mark(f.rule)
        BY <2>0, <2>3, <3>2, EarlyStage
      <4> QED BY <2>0, <3>2, <4>1, MarkShuts DEF Firm
    <3>3. CASE LoseAction(f)
      <4>1. w = "remembered"
        BY <3>3, WorldsLast
      <4> QED BY <2>2, <4>1 DEF Held, Firm
    <3> QED BY <1>5, <2>0, <3>1, <3>2, <3>3 DEF Onward
  <2>4. Owing(g.todo) => ~Made(g.rule)'
    <3>1. Owing(f.todo)
      BY <2>0, EarlyStage, PastStage
    <3> QED BY <1>1, <2>0, <2>1, <3>1, Delivered
  <2> QED BY <2>0, <2>2, <2>3, <2>4
<1>6. CASE Begun(g)
  <2>1. PICK r, e : /\ <<r, e>> \in RuleOn /\ Fire(r, e)
                    /\ g = [rule |-> r, on |-> e, todo |-> Does(r)]
    BY <1>6 DEF Begun, RuleOn
  <2>2. g.rule = r /\ g.on = e /\ g.todo = Does(r) /\ r \in OneShot
    BY <1>1, <2>1
  <2>3. e \in At(r) /\ ~Made(r)
    BY <2>1, <2>2, FiresOnce
  <2>4. e \in At(r)' /\ Held(r, e)'
    BY <2>1, <2>2, <2>3, PlaceStays DEF Fire, Held
  <2>5. g.todo \notin Past(r)
    BY <2>2, StagesBegin, EarlyStage
  <2>6. Owing(g.todo) => ~Made(r)'
    BY <1>1, <2>2, <2>3, Delivered
  <2> QED BY <2>2, <2>4, <2>5, <2>6
<1> QED BY <1>4, <1>5, <1>6, EngineSteps

LEMMA StepOnce ==
  ASSUME NEW w \in Worlds PROVE Typed /\ Lineage /\ OnceInv(w) /\ [Next]_vars => OnceInv(w)'
<1> SUFFICES ASSUME Typed, Lineage, OnceInv(w), [Next]_vars, World(w)' PROVE Once(w)'
  BY DEF OnceInv
<1>1. Once(w)
  BY WorldsLast DEF OnceInv
<1> QED BY <1>1, GuardedStep, AloneStep, BackedStep, SingleStep, SandboxStep, PreparedStep
        DEF Once

LEMMA InitOnce == ASSUME NEW w \in Worlds PROVE Init => OnceInv(w)
<1> SUFFICES ASSUME Init PROVE Once(w)
  BY DEF OnceInv
<1>1. firing = {} /\ queue["provision"] = <<>> /\ job["provision"].pc = "idle"
      /\ run.sandbox = "none"
  BY DEF Init, NoJob, Stations
<1>2. \A l \in Loops : loop[l].kind \in {"front", "none"}
  <2>1. \A l \in Loops : loop[l] = Spawned("front", FALSE) \/ loop[l] = Unborn
    BY DEF Init
  <2> QED BY <2>1 DEF Spawned, Unborn
<1>3. \A r \in OneShot : ~Made(r)
  BY <1>1, <1>2 DEF Made, Born, Queued, Busy, Stamped
<1>4. OneSandbox
  <2>1. Len(<<>>) <= 1
    OBVIOUS
  <2> QED BY <1>1, <2>1 DEF OneSandbox, Queued, Busy, Stamped
<1>5. Single /\ ~Born("dev")
  BY <1>2 DEF Single, Born
<1> QED BY <1>1, <1>3, <1>4, <1>5 DEF Once, Guarded, Alone, Backed, Prepared

LEMMA AlwaysOnce == Spec => [](Typed /\ Lineage /\ OnceInv("remembered") /\ OnceInv("marked"))
<1>1. Spec => []Typed
  BY InitTyped, StepTyped, PTL DEF Spec
<1>2. Spec => []Lineage
  BY <1>1, InitLineage, StepLineage, PTL DEF Spec
<1>3. /\ Init => OnceInv("remembered") /\ OnceInv("marked")
      /\ Typed /\ Lineage /\ OnceInv("remembered") /\ [Next]_vars => OnceInv("remembered")'
      /\ Typed /\ Lineage /\ OnceInv("marked") /\ [Next]_vars => OnceInv("marked")'
  BY InitOnce, StepOnce DEF Worlds
<1> QED BY <1>1, <1>2, <1>3, PTL DEF Spec

LEMMA OnceHolds ==
  ASSUME OnceInv("remembered"), OnceInv("marked"), OneKindOfFault
  PROVE  Single /\ OneSandbox /\ Prepared
  BY DEF OnceInv, World, Once, OneKindOfFault

(* The issue is worked on once, whatever faults of one kind happen: there  *)
(* is one routing coordinator, one kick-off and one first developer, for   *)
(* any number of loops and whatever the router may decide.                 *)
THEOREM WorkIsDoneOnce == Spec => []WorkedOnce
<1>1. OnceInv("remembered") /\ OnceInv("marked") => WorkedOnce
  <2>1. SUFFICES ASSUME OnceInv("remembered"), OnceInv("marked"), OneKindOfFault,
                        NEW k \in {"route", "dev", "developer"}
                 PROVE  Count(k) <= 1
    BY DEF WorkedOnce
  <2>2. Single
    BY <2>1, OnceHolds
  <2> DEFINE S == {l \in Loops : loop[l].kind = k}
  <2>3. CASE S = {}
    <3>1. Cardinality(S) = 0
      BY <2>3, FS_EmptySet
    <3> QED BY <3>1 DEF Count
  <2>4. CASE S # {}
    <3>1. PICK l \in Loops : loop[l].kind = k
      BY <2>4
    <3>2. S = {l}
      BY <2>1, <2>2, <3>1 DEF Single
    <3>3. Cardinality(S) = 1
      BY <3>2, FS_Singleton
    <3> QED BY <3>3 DEF Count
  <2> QED BY <2>3, <2>4
<1> QED BY <1>1, AlwaysOnce, PTL

(* While a developer may be at work its checkout is not replaced, whatever *)
(* faults of one kind happen: no second provision is ever under way.       *)
THEOREM CheckoutStays == Spec => CheckoutKept
<1>1. /\ Typed /\ OnceInv("remembered") /\ OnceInv("marked") /\ [Next]_vars
      => (OneKindOfFault /\ Count("dev") > 0 => checkout'.made = checkout.made)
  <2>1. SUFFICES ASSUME Typed, OnceInv("remembered"), OnceInv("marked"), [Next]_vars,
                        OneKindOfFault, Count("dev") > 0
                 PROVE  checkout'.made = checkout.made
    OBVIOUS
  <2>2. OneSandbox /\ Prepared
    BY <2>1, OnceHolds
  <2>3. Born("dev")
    <3>1. ASSUME ~Born("dev") PROVE FALSE
      <4>1. {l \in Loops : loop[l].kind = "dev"} = {}
        BY <3>1 DEF Born
      <4>2. Count("dev") = 0
        BY <4>1, FS_EmptySet DEF Count
      <4> QED BY <2>1, <4>2
    <3> QED BY <3>1
  <2>4. ~Materialize
    BY <2>2, <2>3 DEF Prepared, OneSandbox, Busy, Stamped, Materialize
  <2>5. checkout \in [made : Nat, warm : BOOLEAN]
    BY <2>1 DEF Typed, TypeOK
  <2>6. checkout' = checkout \/ \E b : checkout' = [checkout EXCEPT !.warm = b]
    <3>1. ASSUME NEW s \in Stations, StationNext(s) \/ HandleError(s) \/ DropDispatch(s)
          PROVE  <2>6!:
      BY <2>4, <3>1 DEF StationNext, HandleError, DropDispatch, Take, StampDispatchFailed,
           ReadDocument, Work, Judge, StampValidated, ReadValidated, BindRevision, ReadTasks,
           StampSpec, ProveCold, StampSandbox
    <3>2. ASSUME NEW f \in firing, Act(f) \/ LoseAction(f) PROVE checkout' = checkout
      BY <3>2 DEF Act, AddMark, AddToRun, MovePhase, SpawnLoop, PublishDispatch, LoseAction
    <3>3. ASSUME NEW l \in Loops, LoopNext(l) \/ EndUndecided(l) PROVE checkout' = checkout
      BY <3>3 DEF LoopNext, Decide, WriteChange, MarkAuthored, EndUndecided
    <3>4. ASSUME \/ Restart \/ (\E re \in RuleOn : Fire(re[1], re[2])) \/ UNCHANGED vars
                 \/ \E d \in {"approve", "reject"} : DecideGate(d)
          PROVE  <2>6!:
      BY <3>4 DEF Restart, Fire, vars, DecideGate
    <3> QED BY <2>1, <3>1, <3>2, <3>3, <3>4 DEF Next, EngineNext
  <2> QED BY <2>5, <2>6
<1> QED BY <1>1, AlwaysOnce, PTL DEF Spec, CheckoutKept

-----------------------------------------------------------------------------
(* What comes to rest.  A rule that matched still has its firing, or what  *)
(* it is for is there, as long as no action was lost and a restart that    *)
(* empties the firings also makes the engine forget what it fired.         *)

Unlost   == used.lost = 0
Calm     == Unlost /\ used.restarts = 0
Replayed == Unlost /\ used.restarts = used.forgot

Due(r, e) == \E f \in firing : f.rule = r /\ f.on = e

(* What can be left of a rule's actions, and the last of them.             *)
Left(r) == CASE r \in OneShot -> Early(r) \cup Past(r)
             [] r = "project" -> {<<"projected", "projection">>, <<"projection">>}
             [] r = "stamp-ref" -> {<<"ref", "stamped">>, <<"stamped">>}
             [] r \in {"failed-loop", "failed-run"} -> {<<"park", "park-routed">>, <<"park-routed">>}
             [] OTHER -> {Does(r)}
Final(r) == CASE r = "mint" -> "spawned"           [] r = "develop" -> "developer"
              [] r = "provision" -> "provision"    [] r = "kick-off" -> "dev"
              [] r = "project" -> "projection"     [] r = "stamp-ref" -> "stamped"
              [] r \in {"failed-loop", "failed-run"} -> "park-routed"
              [] r = "author" -> "author"          [] r = "validate" -> "validation"
              [] r = "hand-off" -> "handoff"       [] r = "offer" -> "awaiting_approval"
              [] r = "cancel" -> "cancelled"       [] r \in {"ask", "blocked"} -> "park"
              [] r \in {"execute", "resume"} -> "executing"
              [] OTHER -> "anchor"

(* What a firing that is still to run has behind it.                       *)
Tracks(f) ==
  /\ f.todo \in Left(f.rule)
  /\ f.rule \in OneShot /\ f.todo \in Past(f.rule) => MarkedOn(f.rule, f.on)
  /\ f.todo = <<"projection">> => Marked("projected")
  /\ f.todo = <<"park-routed">> => run.parked
  /\ f.todo = <<"stamped">> /\ f.on = 1 => "issue" \in run.refs
  /\ f.todo = <<"spawned">> => Born("route")
  /\ f.rule = "execute" => run.phase = "dispatched"
  /\ f.rule = "resume" => run.decision = "approve"
  /\ f.rule = "validate" => Has(f.on, "authored")

RunTracks ==
  /\ run.phase # "none" => loop[1].decision = "issue_intake"
  /\ run.decision # "none" => run.phase \notin {"none", "dispatched"}
  /\ run.decision = "reject" => run.phase \in {"awaiting_approval", "cancelled"}
  /\ Marked("park-routed") => run.parked
  /\ Has(1, "stamped") => "issue" \in run.refs
  /\ Has(1, "spawned") => Born("route")

Author(l) == loop[l].kind = "author" /\ Has(l, "anchored")
LoopTracks(l) ==
  /\ Has(l, "park-routed") => run.parked
  /\ Has(l, "authored") => Author(l) /\ loop[l].pc = "ended" /\ run.doc # 0
  /\ loop[l].pc = "writing" => Author(l) /\ run.doc # 0
  /\ loop[l].kind = "dev" => Has(l, "anchored")
  /\ loop[l].pc = "ended" => loop[l].decision # "none" \/ Has(l, "authored")

(* A dispatch is about the entity its rule fired on.                       *)
About(s) == IF s = "validation" THEN {l \in Loops : Has(l, "authored")} ELSE {Run}
StationTracks ==
  \A s \in Stations : /\ queue[s] \in Seq(About(s))
                      /\ job[s].pc # "idle" => job[s].on \in About(s)

Orderly == /\ \A f \in firing : Tracks(f)
           /\ RunTracks /\ StationTracks
           /\ \A l \in Loops : LoopTracks(l)

(* The rules whose condition outlasts their firing.                        *)
Slow == {"author", "validate", "hand-off", "ask"}
Recall == \A m \in matched : m[1] \notin Slow => Due(m[1], m[2])

(* One author writes the change, so the document judged is the document.   *)
Written == \E l \in Loops : Author(l)
AuthorOnce ==
  /\ \A f \in firing : f.rule = "author" /\ Has(f.on, "anchored") =>
       <<"author", f.on>> \in matched /\ ~Written
  /\ Written => \E e \in Loops : Has(e, "anchored") /\ <<"author", e>> \in matched
  /\ \A k, l \in Loops : Author(k) /\ Author(l) => k = l

Settled ==
  LET j == job["validation"] IN
  /\ j.pc \in {"read", "judged"} => j.doc = run.doc
  /\ j.pc = "judged" => <<run.doc, j.ok>> \in judged

(* What the rules are for, and when it must be there or on its way.        *)
UnderWay(s) == queue[s] # <<>> \/ job[s].pc # "idle"
Lasting == {"mint", "develop", "kick-off", "provision", "project"} \cup Slow
Started(r, e) ==
  /\ <<r, e>> \in RuleOn
  /\ CASE r = "mint" -> e = 1 /\ Has(e, "anchored")
       [] r \in {"develop", "kick-off", "provision"} -> MarkedOn(r, e)
       [] r = "project" -> Marked("projected")
       [] r = "author" -> <<r, e>> \in matched /\ Has(e, "anchored")
       [] OTHER -> <<r, e>> \in matched
Outcome(r, e) ==
  CASE r = "mint" -> Has(e, "spawned")
    [] r = "develop" -> Born("developer")
    [] r = "kick-off" -> Born("dev")
    [] r = "provision" -> UnderWay("provision") \/ run.sandbox # "none" \/ Marked("failed")
    [] r = "project" -> UnderWay("projection") \/ run.spec # 0 \/ Marked("failed")
    [] r = "author" -> Written
    [] r = "validate" -> UnderWay("validation") \/ Has(e, "failed") \/ run.validated # 0 \/ Refused
    [] r = "hand-off" -> run.handoff
    [] OTHER -> run.parked
Carried == \A r \in Lasting, e \in Loops \cup {Run} :
             Started(r, e) => Due(r, e) \/ Outcome(r, e)

RestInv ==
  /\ Unlost => Orderly
  /\ used.forgot <= used.restarts
  /\ Replayed => Recall
  /\ Calm => AuthorOnce /\ Settled /\ Carried

LEMMA Tuples ==
  /\ \A a : Head(<<a>>) = a /\ ~(Len(<<a>>) > 1)
  /\ \A a, b : Head(<<a, b>>) = a /\ Tail(<<a, b>>) = <<b>> /\ Len(<<a, b>>) > 1
  /\ \A a, b, c : /\ Head(<<a, b, c>>) = a /\ Tail(<<a, b, c>>) = <<b, c>>
                  /\ Len(<<a, b, c>>) > 1
  /\ \A a, b, c, d : /\ Head(<<a, b, c, d>>) = a /\ Tail(<<a, b, c, d>>) = <<b, c, d>>
                     /\ Len(<<a, b, c, d>>) > 1
  OBVIOUS

(* Where in its rule's actions a firing is, told by the next action.       *)
Placed(r, t) ==
  /\ Len(t) > 1 => Tail(t) \in Left(r)
  /\ ~(Len(t) > 1) => Head(t) = Final(r)
  /\ Len(t) > 1 /\ Tail(t) = <<"projection">> => Head(t) = "projected"
  /\ Len(t) > 1 /\ Tail(t) = <<"park-routed">> => Head(t) = "park"
  /\ Len(t) > 1 /\ Tail(t) = <<"stamped">> => Head(t) = "ref"
  /\ Len(t) > 1 /\ Tail(t) = <<"spawned">> => Head(t) = "route"
  /\ Head(t) \in {"spawned", "stamped", "park-routed"} => t = <<Head(t)>>
  /\ Head(t) = "projected" => r = "project" /\ Len(t) > 1
  /\ Head(t) = "projection" => r = "project" /\ t = <<"projection">>
  /\ Head(t) = "validation" => r = "validate"
  /\ Head(t) = "executing" => r \in {"execute", "resume"}
  /\ Head(t) = "mint" => r = "mint"
  /\ Head(t) = "stamped" => r = "stamp-ref"
  /\ r \in {"execute", "resume", "author", "validate"} => t = <<Final(r)>>

LEMMA OneShotPlaced == ASSUME NEW r \in OneShot, NEW t \in Left(r) PROVE Placed(r, t)
<1> USE Tuples
<1>1. t \in Early(r) \cup Past(r)
  BY DEF Left, OneShot
<1>2. CASE t = <<"mint", "anchored", "route", "spawned">> /\ r = "mint"
  <2>1. Head(t) = "mint" /\ Tail(t) = <<"anchored", "route", "spawned">> /\ Len(t) > 1
    BY <1>2
  <2> QED BY <1>2, <2>1 DEF Placed, Left, OneShot, Early
<1>3. CASE t = <<"anchored", "route", "spawned">> /\ r = "mint"
  <2>1. Head(t) = "anchored" /\ Tail(t) = <<"route", "spawned">> /\ Len(t) > 1
    BY <1>3
  <2> QED BY <1>3, <2>1 DEF Placed, Left, OneShot, Past
<1>4. CASE t = <<"route", "spawned">> /\ r = "mint"
  <2>1. Head(t) = "route" /\ Tail(t) = <<"spawned">> /\ Len(t) > 1
    BY <1>4
  <2> QED BY <1>4, <2>1 DEF Placed, Left, OneShot, Past
<1>5. CASE t = <<"spawned">> /\ r = "mint"
  <2>1. Head(t) = "spawned" /\ ~(Len(t) > 1)
    BY <1>5
  <2> QED BY <1>5, <2>1 DEF Placed, Final
<1>6. CASE t = <<"provisioned", "provision">> /\ r = "provision"
  <2>1. Head(t) = "provisioned" /\ Tail(t) = <<"provision">> /\ Len(t) > 1
    BY <1>6
  <2> QED BY <1>6, <2>1 DEF Placed, Left, OneShot, Past
<1>7. CASE t = <<"provision">> /\ r = "provision"
  <2>1. Head(t) = "provision" /\ ~(Len(t) > 1)
    BY <1>7
  <2> QED BY <1>7, <2>1 DEF Placed, Final
<1>8. CASE t = <<"kicked-off", "dev">> /\ r = "kick-off"
  <2>1. Head(t) = "kicked-off" /\ Tail(t) = <<"dev">> /\ Len(t) > 1
    BY <1>8
  <2> QED BY <1>8, <2>1 DEF Placed, Left, OneShot, Past
<1>9. CASE t = <<"dev">> /\ r = "kick-off"
  <2>1. Head(t) = "dev" /\ ~(Len(t) > 1)
    BY <1>9
  <2> QED BY <1>9, <2>1 DEF Placed, Final
<1>10. CASE t = <<"dispatched", "attempt", "developer">> /\ r = "develop"
  <2>1. Head(t) = "dispatched" /\ Tail(t) = <<"attempt", "developer">> /\ Len(t) > 1
    BY <1>10
  <2> QED BY <1>10, <2>1 DEF Placed, Left, OneShot, Past
<1>11. CASE t = <<"attempt", "developer">> /\ r = "develop"
  <2>1. Head(t) = "attempt" /\ Tail(t) = <<"developer">> /\ Len(t) > 1
    BY <1>11
  <2> QED BY <1>11, <2>1 DEF Placed, Left, OneShot, Past
<1>12. CASE t = <<"developer">> /\ r = "develop"
  <2>1. Head(t) = "developer" /\ ~(Len(t) > 1)
    BY <1>12
  <2> QED BY <1>12, <2>1 DEF Placed, Final
<1> QED BY <1>1, <1>2, <1>3, <1>4, <1>5, <1>6, <1>7, <1>8, <1>9, <1>10, <1>11, <1>12
        DEF Early, Past, OneShot

LEMMA OthersPlaced ==
  ASSUME NEW r \in (LoopRules \cup RunRules) \ OneShot, NEW t \in Left(r) PROVE Placed(r, t)
<1> USE Tuples DEF OneShot
<1>1. CASE r = "project"
  <2>1. CASE t = <<"projected", "projection">>
    <3>1. Head(t) = "projected" /\ Tail(t) = <<"projection">> /\ Len(t) > 1
      BY <2>1
    <3> QED BY <1>1, <3>1 DEF Placed, Left
  <2>2. CASE t = <<"projection">>
    <3>1. Head(t) = "projection" /\ ~(Len(t) > 1)
      BY <2>2
    <3> QED BY <1>1, <2>2, <3>1 DEF Placed, Final
  <2> QED BY <1>1, <2>1, <2>2 DEF Left
<1>2. CASE r = "stamp-ref"
  <2>1. CASE t = <<"ref", "stamped">>
    <3>1. Head(t) = "ref" /\ Tail(t) = <<"stamped">> /\ Len(t) > 1
      BY <2>1
    <3> QED BY <1>2, <3>1 DEF Placed, Left
  <2>2. CASE t = <<"stamped">>
    <3>1. Head(t) = "stamped" /\ ~(Len(t) > 1)
      BY <2>2
    <3> QED BY <1>2, <2>2, <3>1 DEF Placed, Final
  <2> QED BY <1>2, <2>1, <2>2 DEF Left
<1>3. CASE r \in {"failed-loop", "failed-run"}
  <2>1. CASE t = <<"park", "park-routed">>
    <3>1. Head(t) = "park" /\ Tail(t) = <<"park-routed">> /\ Len(t) > 1
      BY <2>1
    <3> QED BY <1>3, <3>1 DEF Placed, Left
  <2>2. CASE t = <<"park-routed">>
    <3>1. Head(t) = "park-routed" /\ ~(Len(t) > 1)
      BY <2>2
    <3> QED BY <1>3, <2>2, <3>1 DEF Placed, Final
  <2> QED BY <1>3, <2>1, <2>2 DEF Left
<1>4. CASE r \notin {"project", "stamp-ref", "failed-loop", "failed-run"}
  <2>1. t = Does(r)
    BY <1>4 DEF Left
  <2>2. t = <<Final(r)>> /\ (r = "validate" <=> Final(r) = "validation")
        /\ (r \in {"execute", "resume"} <=> Final(r) = "executing")
        /\ Final(r) \notin {"spawned", "stamped", "park-routed", "projected", "projection", "mint"}
    BY <1>4, <2>1 DEF Does, Final, LoopRules, RunRules
  <2>3. Head(t) = Final(r) /\ ~(Len(t) > 1)
    BY <2>2
  <2> QED BY <1>4, <2>2, <2>3 DEF Placed
<1> QED BY <1>1, <1>2, <1>3, <1>4

LEMMA StagePlaced ==
  ASSUME Typed, NEW f \in firing, Tracks(f) PROVE Placed(f.rule, f.todo)
<1>1. f.rule \in LoopRules \cup RunRules /\ f.todo \in Left(f.rule)
  BY FiringFacts, RuleOnFacts DEF Tracks
<1> QED BY <1>1, OneShotPlaced, OthersPlaced

(* A rule that fires has all of its actions before it.                     *)
LEMMA DoesLeft ==
  ASSUME NEW r \in LoopRules \cup RunRules
  PROVE  /\ Does(r) \in Left(r) /\ (r \in OneShot => Does(r) \notin Past(r))
         /\ Does(r) \notin {<<"projection">>, <<"park-routed">>, <<"stamped">>, <<"spawned">>}
<1>1. CASE r \in OneShot
  <2>1. Does(r) \in Early(r) /\ Does(r) \notin Past(r) /\ Head(Does(r)) # Product(r)
    BY <1>1, StagesBegin, EarlyStage
  <2>2. Len(Does(r)) > 1
    BY <1>1, <2>1, EarlyStage
  <2> QED BY <1>1, <2>1, <2>2, Tuples DEF Left, OneShot
<1>2. CASE r = "project"
  <2>1. Does(r) = <<"projected", "projection">>
    BY <1>2 DEF Does
  <2> QED BY <1>2, <2>1, Tuples DEF Left, OneShot
<1>3. CASE r = "stamp-ref"
  <2>1. Does(r) = <<"ref", "stamped">>
    BY <1>3 DEF Does, StampRefFirst
  <2> QED BY <1>3, <2>1, Tuples DEF Left, OneShot
<1>4. CASE r \in {"failed-loop", "failed-run"}
  <2>1. Does(r) = <<"park", "park-routed">>
    BY <1>4 DEF Does
  <2> QED BY <1>4, <2>1, Tuples DEF Left, OneShot
<1>5. CASE r \notin OneShot \cup {"project", "stamp-ref", "failed-loop", "failed-run"}
  <2>1. Does(r) \in Left(r)
    BY <1>5 DEF Left
  <2>2. Does(r) = <<Final(r)>>
        /\ Final(r) \notin {"spawned", "stamped", "park-routed", "projection"}
    BY <1>5 DEF Does, Final, LoopRules, RunRules, OneShot
  <2> QED BY <1>5, <2>1, <2>2
<1> QED BY <1>1, <1>2, <1>3, <1>4, <1>5

-----------------------------------------------------------------------------
(* The steps without a loss.                                               *)

LEMMA LossCounts == ASSUME Typed, [Next]_vars, Unlost' PROVE Unlost /\ ~Lose
<1>1. used \in Usage /\ used.lost \in Nat
  BY DEF Typed, TypeOK, Usage
<1>2. Lose => used'.lost = used.lost + 1
  BY <1>1 DEF Lose, Usage
<1>3. used.lost + 1 # 0
  BY <1>1
<1> QED BY <1>2, <1>3, UsedGrows DEF Unlost

LEMMA LosslessSteps ==
  ASSUME Typed, [Next]_vars, Unlost'
  PROVE  \/ UNCHANGED vars \/ Restart
         \/ \E re \in RuleOn : Fire(re[1], re[2])
         \/ \E f \in firing : Act(f)
         \/ \E l \in Loops : (\E a \in Actions : Decide(l, a)) \/ WriteChange(l) \/ MarkAuthored(l)
         \/ \E d \in {"approve", "reject"} : DecideGate(d)
         \/ \E s \in Stations : Take(s) \/ StampDispatchFailed(s) \/ HandleError(s)
         \/ ValidationNext \/ ProjectionNext \/ ProvisionNext
<1>1. ~Lose
  BY LossCounts
<1>2. \A f \in firing : ~LoseAction(f)
  BY <1>1 DEF LoseAction
<1>3. \A l \in Loops : ~EndUndecided(l)
  BY <1>1 DEF EndUndecided
<1>4. \A s \in Stations : ~DropDispatch(s)
  BY <1>1 DEF DropDispatch
<1> QED BY <1>2, <1>3, <1>4 DEF Next, EngineNext, LoopNext, StationNext, ValidationNext,
           ProjectionNext, ProvisionNext

(* What the handlers do to the run and to the loops.                       *)
LEMMA HandlerFrame ==
  ASSUME Typed, ValidationNext \/ ProjectionNext \/ ProvisionNext
  PROVE  /\ loop' = loop /\ firing' = firing /\ queue' = queue
         /\ \/ run' = run
            \/ StampValidated /\ \E v : run' = [run EXCEPT !.validated = v]
            \/ StampSpec /\ \E v : run' = [run EXCEPT !.spec = v]
            \/ StampSandbox /\ \E v : run' = [run EXCEPT !.sandbox = v]
  BY DEF ValidationNext, ReadDocument, Judge, StampValidated, ProjectionNext, ReadValidated,
         BindRevision, ReadTasks, StampSpec, ProvisionNext, Materialize, ProveCold,
         StampSandbox, Work

LEMMA RunMoves ==
  ASSUME Typed, [Next]_vars, Unlost'
  PROVE  /\ run.refs \subseteq run'.refs /\ (run.handoff => run'.handoff)
         /\ run'.doc # run.doc => \E l \in Loops : WriteChange(l)
         /\ run'.validated # run.validated => StampValidated
         /\ run'.phase = run.phase
              \/ (run'.decision = run.decision /\ \E f \in firing : MovePhase(f))
         /\ \A m : Marked(m)' => \/ Marked(m) \/ m = "failed"
                                 \/ \E f \in firing : AddMark(f) /\ f.on = Run /\ Head(f.todo) = m
<1> DEFINE Goal == 
         /\ run.refs \subseteq run'.refs /\ (run.handoff => run'.handoff)
         /\ run'.doc # run.doc => \E l \in Loops : WriteChange(l)
         /\ run'.validated # run.validated => StampValidated
         /\ run'.phase = run.phase
              \/ (run'.decision = run.decision /\ \E f \in firing : MovePhase(f))
         /\ \A m : Marked(m)' => \/ Marked(m) \/ m = "failed"
                                 \/ \E f \in firing : AddMark(f) /\ f.on = Run /\ Head(f.todo) = m
<1> SUFFICES Goal
  OBVIOUS
<1>0. run \in RunState
  BY DEF Typed, TypeOK
<1>1. CASE run' = run
  BY <1>1 DEF Marked
<1>2. ASSUME NEW f \in firing, Act(f) PROVE Goal
  <2>1. CASE AddMark(f)
    <3>1. CASE f.on = Run
      <4>1. run' = [run EXCEPT !.marks = run.marks \cup {Head(f.todo)}]
        BY <2>1, <3>1 DEF AddMark
      <4>2. /\ run'.marks = run.marks \cup {Head(f.todo)} /\ run'.refs = run.refs
            /\ run'.handoff = run.handoff /\ run'.doc = run.doc
            /\ run'.validated = run.validated /\ run'.phase = run.phase
        BY <1>0, <4>1 DEF RunState
      <4> QED BY <2>1, <3>1, <4>2 DEF Marked
    <3>2. CASE f.on # Run
      BY <1>1, <2>1, <3>2 DEF AddMark
    <3> QED BY <3>1, <3>2
  <2>2. CASE AddToRun(f)
    <3>1. \/ \E v : run' = [run EXCEPT !.refs = run.refs \cup {v}]
          \/ \E v : run' = [run EXCEPT !.attempts = v]
          \/ run' = [run EXCEPT !.handoff = TRUE] \/ run' = [run EXCEPT !.anchor = TRUE]
          \/ run' = [run EXCEPT !.parked = TRUE]
      BY <2>2 DEF AddToRun
    <3>2. /\ run'.marks = run.marks /\ run.refs \subseteq run'.refs
          /\ run.handoff => run'.handoff
          /\ run'.doc = run.doc /\ run'.validated = run.validated /\ run'.phase = run.phase
      BY <1>0, <3>1 DEF RunState
    <3> QED BY <3>2 DEF Marked
  <2>3. CASE MovePhase(f)
    <3>1. \E p : run' = [run EXCEPT !.phase = p]
      BY <2>3 DEF MovePhase
    <3>2. /\ run'.marks = run.marks /\ run'.refs = run.refs /\ run'.handoff = run.handoff
          /\ run'.doc = run.doc /\ run'.validated = run.validated
          /\ run'.decision = run.decision
      BY <1>0, <3>1 DEF RunState
    <3> QED BY <2>3, <3>2 DEF Marked
  <2>4. CASE SpawnLoop(f) \/ PublishDispatch(f)
    BY <1>1, <2>4 DEF SpawnLoop, PublishDispatch
  <2> QED BY <1>2, <2>1, <2>2, <2>3, <2>4 DEF Act
<1>3. ASSUME NEW l \in Loops,
             (\E a \in Actions : Decide(l, a)) \/ WriteChange(l) \/ MarkAuthored(l)
      PROVE  Goal
  <2>1. CASE WriteChange(l)
    <3>1. \E v : run' = [run EXCEPT !.doc = v]
      BY <2>1 DEF WriteChange
    <3>2. /\ run'.marks = run.marks /\ run'.refs = run.refs /\ run'.handoff = run.handoff
          /\ run'.validated = run.validated /\ run'.phase = run.phase
      BY <1>0, <3>1 DEF RunState
    <3> QED BY <2>1, <3>2 DEF Marked
  <2>2. CASE (\E a \in Actions : Decide(l, a)) \/ MarkAuthored(l)
    BY <1>1, <2>2 DEF Decide, MarkAuthored
  <2> QED BY <1>3, <2>1, <2>2
<1>4. ASSUME NEW d \in {"approve", "reject"}, DecideGate(d) PROVE Goal
  <2>1. run' = [run EXCEPT !.decision = d]
    BY <1>4 DEF DecideGate
  <2>2. /\ run'.marks = run.marks /\ run'.refs = run.refs /\ run'.handoff = run.handoff
        /\ run'.doc = run.doc /\ run'.validated = run.validated /\ run'.phase = run.phase
    BY <1>0, <2>1 DEF RunState
  <2> QED BY <2>2 DEF Marked
<1>5. ASSUME NEW s \in Stations, Take(s) \/ StampDispatchFailed(s) \/ HandleError(s)
      PROVE  Goal
  <2>1. run' = run \/ run' = [run EXCEPT !.marks = run.marks \cup {"failed"}]
    BY <1>5 DEF Take, StampDispatchFailed, HandleError
  <2>2. /\ run'.marks \subseteq run.marks \cup {"failed"} /\ run'.refs = run.refs
        /\ run'.handoff = run.handoff /\ run'.doc = run.doc /\ run'.validated = run.validated
        /\ run'.phase = run.phase
    BY <1>0, <2>1 DEF RunState
  <2> QED BY <2>2 DEF Marked
<1>6. CASE ValidationNext \/ ProjectionNext \/ ProvisionNext
  <2>1. CASE run' = run
    BY <1>1, <2>1
  <2>2. CASE StampValidated /\ \E v : run' = [run EXCEPT !.validated = v]
    <3>1. /\ run'.marks = run.marks /\ run'.refs = run.refs /\ run'.handoff = run.handoff
          /\ run'.doc = run.doc /\ run'.phase = run.phase
      BY <1>0, <2>2 DEF RunState
    <3> QED BY <2>2, <3>1 DEF Marked
  <2>3. CASE \E v : run' = [run EXCEPT !.spec = v] \/ run' = [run EXCEPT !.sandbox = v]
    <3>1. /\ run'.marks = run.marks /\ run'.refs = run.refs /\ run'.handoff = run.handoff
          /\ run'.doc = run.doc /\ run'.validated = run.validated /\ run'.phase = run.phase
      BY <1>0, <2>3 DEF RunState
    <3> QED BY <3>1 DEF Marked
  <2> QED BY <1>6, <2>1, <2>2, <2>3, HandlerFrame
<1>7. CASE UNCHANGED vars \/ Restart \/ \E re \in RuleOn : Fire(re[1], re[2])
  <2>1. run' = run
    BY <1>7 DEF vars, Restart, Fire
  <2> QED BY <1>1, <2>1
<1> HIDE DEF Goal
<1>8. CASE \E f \in firing : Act(f)
  BY <1>2, <1>8
<1>9. CASE \E l \in Loops : (\E a \in Actions : Decide(l, a)) \/ WriteChange(l) \/ MarkAuthored(l)
  BY <1>3, <1>9
<1>10. CASE \E d \in {"approve", "reject"} : DecideGate(d)
  BY <1>4, <1>10
<1>11. CASE \E s \in Stations : Take(s) \/ StampDispatchFailed(s) \/ HandleError(s)
  BY <1>5, <1>11
<1> QED BY <1>6, <1>7, <1>8, <1>9, <1>10, <1>11, LosslessSteps

LEMMA LoopMoves ==
  ASSUME Typed, Lineage, [Next]_vars, Unlost', NEW l \in Loops
  PROVE  /\ \A m : Has(l, m)' => \/ Has(l, m) \/ m = "failed"
                                 \/ \E f \in firing : AddMark(f) /\ f.on = l /\ Head(f.todo) = m
                                 \/ m = "authored" /\ MarkAuthored(l) /\ loop'[l].pc = "ended"
                                 \/ m = "anchored" /\ \E f \in firing : BornOf(l, f)
         /\ \/ loop'[l].pc = loop[l].pc
            \/ loop[l].pc = "unborn" /\ loop'[l].pc = "working"
            \/ loop'[l].pc = "ended" /\ loop[l].pc = "working" /\ loop'[l].decision # "none"
            \/ WriteChange(l) /\ loop'[l].pc = "writing"
            \/ loop[l].pc = "writing" /\ loop'[l].pc = "ended" /\ Has(l, "authored")'
            \/ loop[l].pc = "writing" /\ loop'[l].pc = "working"
<1> DEFINE Gained(m) == \/ Has(l, m) \/ m = "failed"
                        \/ \E f \in firing : AddMark(f) /\ f.on = l /\ Head(f.todo) = m
                        \/ m = "authored" /\ MarkAuthored(l) /\ loop'[l].pc = "ended"
                        \/ m = "anchored" /\ \E f \in firing : BornOf(l, f)
           Moved == \/ loop'[l].pc = loop[l].pc
                    \/ loop[l].pc = "unborn" /\ loop'[l].pc = "working"
                    \/ loop'[l].pc = "ended" /\ loop[l].pc = "working" /\ loop'[l].decision # "none"
                    \/ WriteChange(l) /\ loop'[l].pc = "writing"
                    \/ loop[l].pc = "writing" /\ loop'[l].pc = "ended" /\ Has(l, "authored")'
                    \/ loop[l].pc = "writing" /\ loop'[l].pc = "working"
           Goal == (\A m : Has(l, m)' => Gained(m)) /\ Moved
<1> SUFFICES Goal
  OBVIOUS
<1>0. loop \in [Loops -> LoopState] /\ loop[l] \in LoopState /\ LoopFacts(l)
  BY DEF Typed, TypeOK, Lineage
<1>1. CASE loop'[l] = loop[l]
  BY <1>1 DEF Has
<1>2. ASSUME NEW f \in firing, AddMark(f) PROVE Goal
  <2>1. CASE f.on = l /\ f.on # Run
    <3>1. /\ loop'[l].marks = loop[l].marks \cup {Head(f.todo)} /\ loop'[l].pc = loop[l].pc
      BY <1>0, <1>2, <2>1 DEF AddMark, LoopState
    <3> QED BY <1>2, <2>1, <3>1 DEF Has
  <2>2. CASE f.on # l \/ f.on = Run
    <3>1. loop'[l] = loop[l]
      BY <1>0, <1>2, <2>2 DEF AddMark
    <3> QED BY <1>1, <3>1
  <2> QED BY <2>1, <2>2
<1>3. ASSUME NEW f \in firing, SpawnLoop(f) PROVE Goal
  <2>1. PICK k \in Loops : /\ loop[k].pc = "unborn"
                           /\ loop' = [loop EXCEPT ![k] =
                                Spawned(Head(f.todo), f.on = Run \/ Has(f.on, "anchored"))]
    BY <1>3 DEF SpawnLoop
  <2>2. CASE k = l
    <3>1. loop'[l] = Spawned(Head(f.todo), f.on = Run \/ Has(f.on, "anchored"))
      BY <1>0, <2>1, <2>2
    <3>2. loop'[l].pc = "working" /\ loop'[l].marks \subseteq {"anchored"}
      BY <3>1 DEF Spawned
    <3>3. BornOf(l, f)
      BY <1>0, <1>3, <2>1, <2>2, <3>1 DEF BornOf, LoopFacts
    <3> QED BY <2>1, <2>2, <3>2, <3>3 DEF Has
  <2>3. CASE k # l
    <3>1. loop'[l] = loop[l]
      BY <1>0, <2>1, <2>3
    <3> QED BY <1>1, <3>1
  <2> QED BY <2>2, <2>3
<1>4. ASSUME NEW k \in Loops, NEW a \in Actions, Decide(k, a) PROVE Goal
  <2>1. CASE k = l
    <3>1. /\ loop'[l].marks = loop[l].marks /\ loop'[l].pc = "ended" /\ loop[l].pc = "working"
          /\ loop'[l].decision = a
      BY <1>0, <1>4, <2>1 DEF Decide, LoopState
    <3>2. a # "none"
      BY DEF Actions
    <3> QED BY <3>1, <3>2 DEF Has
  <2>2. CASE k # l
    <3>1. loop'[l] = loop[l]
      BY <1>0, <1>4, <2>2 DEF Decide
    <3> QED BY <1>1, <3>1
  <2> QED BY <2>1, <2>2
<1>5. ASSUME NEW k \in Loops, WriteChange(k) PROVE Goal
  <2>1. CASE k = l
    <3>1. loop'[l].marks = loop[l].marks /\ loop'[l].pc = "writing"
      BY <1>0, <1>5, <2>1 DEF WriteChange, LoopState
    <3> QED BY <1>5, <2>1, <3>1 DEF Has
  <2>2. CASE k # l
    <3>1. loop'[l] = loop[l]
      BY <1>0, <1>5, <2>2 DEF WriteChange
    <3> QED BY <1>1, <3>1
  <2> QED BY <2>1, <2>2
<1>6. ASSUME NEW k \in Loops, MarkAuthored(k) PROVE Goal
  <2>1. CASE k = l
    <3>1. loop[l].pc = "writing"
          /\ \/ loop' = [loop EXCEPT ![l].pc = "ended", ![l].marks = @ \cup {"authored"}]
             \/ loop' = [loop EXCEPT ![l].pc = "working"]
      BY <1>6, <2>1 DEF MarkAuthored
    <3>2. \/ loop'[l].pc = "ended" /\ loop'[l].marks = loop[l].marks \cup {"authored"}
          \/ loop'[l].pc = "working" /\ loop'[l].marks = loop[l].marks
      BY <1>0, <3>1 DEF LoopState
    <3> QED BY <1>6, <2>1, <3>1, <3>2 DEF Has
  <2>2. CASE k # l
    <3>1. loop'[l] = loop[l]
      BY <1>0, <1>6, <2>2 DEF MarkAuthored
    <3> QED BY <1>1, <3>1
  <2> QED BY <2>1, <2>2
<1>7. ASSUME NEW s \in Stations, Take(s) \/ StampDispatchFailed(s) \/ HandleError(s)
      PROVE  Goal
  <2>1. \/ loop' = loop
        \/ loop' = [loop EXCEPT ![job[s].on].marks = loop[job[s].on].marks \cup {"failed"}]
    BY <1>7 DEF Take, StampDispatchFailed, HandleError
  <2>2. loop'[l].pc = loop[l].pc /\ loop'[l].marks \subseteq loop[l].marks \cup {"failed"}
    <3>1. CASE loop' = [loop EXCEPT ![job[s].on].marks = loop[job[s].on].marks \cup {"failed"}]
      <4>1. CASE job[s].on = l
        BY <1>0, <3>1, <4>1 DEF LoopState
      <4>2. CASE job[s].on # l
        BY <1>0, <3>1, <4>2
      <4> QED BY <4>1, <4>2
    <3> QED BY <2>1, <3>1
  <2> QED BY <2>2 DEF Has
<1>8. ASSUME NEW f \in firing, Act(f) PROVE Goal
  <2>1. CASE AddToRun(f) \/ MovePhase(f) \/ PublishDispatch(f)
    <3>1. loop' = loop
      BY <2>1 DEF AddToRun, MovePhase, PublishDispatch
    <3> QED BY <1>1, <3>1
  <2> QED BY <1>2, <1>3, <1>8, <2>1 DEF Act
<1>9. CASE \/ UNCHANGED vars \/ Restart \/ (\E re \in RuleOn : Fire(re[1], re[2]))
           \/ (\E d \in {"approve", "reject"} : DecideGate(d))
           \/ ValidationNext \/ ProjectionNext \/ ProvisionNext
  <2>1. loop' = loop
    BY <1>9, HandlerFrame DEF vars, Restart, Fire, DecideGate
  <2> QED BY <1>1, <2>1
<1> HIDE DEF Goal
<1>10. CASE \E f \in firing : Act(f)
  BY <1>8, <1>10
<1>11. CASE \E k \in Loops : (\E a \in Actions : Decide(k, a)) \/ WriteChange(k) \/ MarkAuthored(k)
  BY <1>4, <1>5, <1>6, <1>11
<1>12. CASE \E s \in Stations : Take(s) \/ StampDispatchFailed(s) \/ HandleError(s)
  BY <1>7, <1>12
<1> QED BY <1>9, <1>10, <1>11, <1>12, LosslessSteps

(* What is born stays.                                                     *)
LEMMA Lives ==
  ASSUME Typed, Lineage, [Next]_vars, NEW l \in Loops, loop[l].kind # "none"
  PROVE  loop'[l].kind = loop[l].kind /\ \A m : Has(l, m) => Has(l, m)'
  BY LoopSteps DEF Same, Decides, BornOf, Has

LEMMA BornStays ==
  ASSUME Typed, Lineage, [Next]_vars, NEW k, k # "none", Born(k) PROVE Born(k)'
  BY Lives DEF Born

LEMMA AuthorStays ==
  ASSUME Typed, Lineage, [Next]_vars, NEW l \in Loops, Author(l) PROVE Author(l)'
  BY Lives DEF Author

(* The steps of the engine, for a rule on its entity.                      *)
LEMMA ActAdvances == ASSUME NEW f \in firing, Act(f) PROVE Advance(f)
  BY DEF Act, AddMark, AddToRun, MovePhase, SpawnLoop, PublishDispatch

LEMMA DueOnward ==
  ASSUME Typed, NEW f \in firing, Act(f), Len(f.todo) > 1 PROVE Due(f.rule, f.on)'
<1> DEFINE g == [f EXCEPT !.todo = Tail(f.todo)]
<1>1. f \in Firing /\ g \in firing'
  BY FiringFacts, ActAdvances DEF Advance
<1>2. g.rule = f.rule /\ g.on = f.on
  BY <1>1 DEF Firing
<1> QED BY <1>1, <1>2 DEF Due

LEMMA DueBegun == ASSUME NEW r, NEW e, Fire(r, e) PROVE Due(r, e)'
<1> DEFINE g == [rule |-> r, on |-> e, todo |-> Does(r)]
<1>1. g \in firing' /\ g.rule = r /\ g.on = e
  BY DEF Fire
<1> QED BY <1>1 DEF Due

Finishes(f) == Act(f) /\ ~(Len(f.todo) > 1)

LEMMA DueStays ==
  ASSUME Typed, [Next]_vars, Unlost', ~Restart, NEW r, NEW e, Due(r, e)
  PROVE  Due(r, e)' \/ \E f \in firing : f.rule = r /\ f.on = e /\ Finishes(f)
<1>1. PICK g \in firing : g.rule = r /\ g.on = e
  BY DEF Due
<1>2. CASE g \in firing'
  BY <1>1, <1>2 DEF Due
<1>3. ASSUME NEW f \in firing, Act(f), g \notin firing' PROVE f = g
  BY <1>3, ActAdvances DEF Advance
<1>4. CASE Act(g)
  BY <1>1, <1>4, DueOnward DEF Finishes
<1>5. CASE ~\E f \in firing : Act(f)
  <2>1. firing \subseteq firing'
    <3>1. CASE ValidationNext \/ ProjectionNext \/ ProvisionNext
      BY <3>1, HandlerFrame
    <3>2. CASE \/ UNCHANGED vars \/ (\E re \in RuleOn : Fire(re[1], re[2]))
               \/ (\E d \in {"approve", "reject"} : DecideGate(d))
               \/ \E l \in Loops : (\E a \in Actions : Decide(l, a)) \/ WriteChange(l)
                                   \/ MarkAuthored(l)
               \/ \E s \in Stations : Take(s) \/ StampDispatchFailed(s) \/ HandleError(s)
      BY <3>2 DEF vars, Fire, DecideGate, Decide, WriteChange, MarkAuthored, Take,
                  StampDispatchFailed, HandleError
    <3> QED BY <1>5, <3>1, <3>2, LosslessSteps
  <2> QED BY <1>1, <2>1 DEF Due
<1> QED BY <1>2, <1>3, <1>4, <1>5

LEMMA OnwardActs ==
  ASSUME Typed, [Next]_vars, Unlost', NEW f \in firing, NEW g, Onward(f, g) PROVE Act(f)
  BY LossCounts DEF Onward, LoseAction

(* The moves of the phase.                                                 *)
LEMMA PhaseMoves ==
  ASSUME Typed, Lineage, Orderly, NEW f \in firing, MovePhase(f)
  PROVE  \/ run'.phase = run.phase
         \/ f.rule = "mint" /\ run.phase = "none" /\ run'.phase = "dispatched"
         \/ /\ f.rule = "execute" /\ firing' = firing \ {f}
            /\ run.phase = "dispatched" /\ run'.phase = "executing"
         \/ run.phase = "executing" /\ run'.phase = "awaiting_approval"
         \/ f.rule = "resume" /\ run.phase = "awaiting_approval" /\ run'.phase = "executing"
         \/ run.phase \in {"awaiting_approval", "executing"} /\ run'.phase = "cancelled"
<1>0. run \in RunState /\ Placed(f.rule, f.todo) /\ Tracks(f)
  BY StagePlaced DEF Typed, TypeOK, Orderly
<1>1. CASE Head(f.todo) = "mint"
  <2>1. run'.phase = IF run.phase = "none" THEN "dispatched" ELSE run.phase
    BY <1>0, <1>1 DEF MovePhase, RunState, Phases
  <2> QED BY <1>0, <1>1, <2>1 DEF Placed
<1>2. CASE Head(f.todo) \in Phases
  <2>1. run'.phase = IF <<run.phase, Head(f.todo)>> \in Edges THEN Head(f.todo) ELSE run.phase
    BY <1>0, <1>2 DEF MovePhase, RunState, Phases
  <2>2. CASE Head(f.todo) = "executing"
    <3>1. f.rule \in {"execute", "resume"} /\ f.todo = <<"executing">>
      BY <1>0, <2>2 DEF Placed, Final
    <3>2. firing' = firing \ {f}
      BY <3>1, Tuples DEF MovePhase, Advance
    <3>3. /\ f.rule = "execute" => run.phase = "dispatched"
          /\ f.rule = "resume" => run.phase # "dispatched"
      BY <1>0 DEF Tracks, Orderly, RunTracks
    <3> QED BY <2>1, <2>2, <3>1, <3>2, <3>3 DEF Edges
  <2>3. CASE Head(f.todo) \in {"awaiting_approval", "cancelled"}
    BY <2>1, <2>3 DEF Edges
  <2> QED BY <1>2, <2>2, <2>3 DEF Phases
<1> QED BY <1>1, <1>2 DEF MovePhase

(* A firing keeps what it has behind it.                                   *)
LEMMA MarkedStays ==
  ASSUME Typed, Lineage, Once("marked"), [Next]_vars, NEW f \in firing, f.rule \in OneShot,
         MarkedOn(f.rule, f.on)
  PROVE  MarkedOn(f.rule, f.on)'
<1>1. f.on \in At(f.rule) /\ RunGrows
  BY RunSteps DEF Once, Guarded
<1>2. CASE f.on = Run
  BY <1>1, <1>2 DEF MarkedOn, Marked, RunGrows
<1>3. CASE f.on # Run
  <2>1. f.on \in Loops /\ loop[f.on].kind # "none"
    <3>1. CASE f.rule = "mint"
      BY <1>1, <3>1, FirstLoop DEF At, Lineage, LoopFacts
    <3>2. CASE f.rule = "develop"
      BY <1>1, <3>2 DEF At, Decided, Coordinators
    <3>3. CASE f.rule \in {"provision", "kick-off"}
      BY <1>1, <1>3, <3>3 DEF At
    <3> QED BY <3>1, <3>2, <3>3 DEF OneShot
  <2> QED BY <1>3, <2>1, Lives DEF MarkedOn
<1> QED BY <1>2, <1>3

LEMMA TracksKept ==
  ASSUME Typed, Lineage, Once("marked"), Orderly, [Next]_vars, Unlost',
         NEW g \in firing, g \in firing'
  PROVE  Tracks(g)'
<1>0. Tracks(g) /\ RunGrows /\ <<g.rule, g.on>> \in RuleOn /\ g.todo # <<>>
  BY RunSteps, FiringFacts DEF Orderly
<1>1. g.rule \in OneShot /\ g.todo \in Past(g.rule) => MarkedOn(g.rule, g.on)'
  BY <1>0, MarkedStays DEF Tracks
<1>2. /\ g.todo = <<"projection">> => Marked("projected")'
      /\ g.todo = <<"park-routed">> => run'.parked
      /\ g.rule = "resume" => run'.decision = "approve"
  BY <1>0 DEF Tracks, RunGrows, Marked
<1>3. /\ g.todo = <<"stamped">> /\ g.on = 1 => "issue" \in run'.refs
      /\ g.todo = <<"spawned">> => Born("route")'
  BY <1>0, RunMoves, BornStays DEF Tracks
<1>4. ASSUME g.rule = "execute" PROVE run'.phase = "dispatched"
  <2>1. run.phase = "dispatched" /\ g.on = Run /\ g.todo = <<"executing">>
    BY <1>0, <1>4, RuleOnFacts, StagePlaced DEF Tracks, RunRules, Placed, Final
  <2>2. ASSUME NEW f \in firing, f.rule = "execute", firing' = firing \ {f} PROVE FALSE
    <3>1. f.on = Run /\ f.todo = <<"executing">>
      BY <2>2, FiringFacts, RuleOnFacts, StagePlaced DEF Orderly, RunRules, Placed, Final
    <3>2. f = g
      BY <1>4, <2>1, <2>2, <3>1, SameFiring
    <3> QED BY <2>2, <3>2
  <2> QED BY <2>1, <2>2, RunMoves, PhaseMoves
<1>5. ASSUME g.rule = "validate" PROVE Has(g.on, "authored")'
  <2>1. g.on \in Loops /\ Has(g.on, "authored")
    BY <1>0, <1>5, RuleOnFacts DEF Tracks, LoopRules
  <2>2. loop[g.on].kind # "none"
    BY <2>1 DEF Orderly, LoopTracks, Author
  <2> QED BY <2>1, <2>2, Lives
<1> QED BY <1>0, <1>1, <1>2, <1>3, <1>4, <1>5 DEF Tracks

LEMMA TracksBegun ==
  ASSUME Typed, Lineage, NEW g, Begun(g) PROVE Tracks(g)'
<1>1. PICK r, e : /\ <<r, e>> \in RuleOn /\ Fire(r, e)
                  /\ g = [rule |-> r, on |-> e, todo |-> Does(r)]
  BY DEF Begun, RuleOn
<1>2. g.rule = r /\ g.on = e /\ g.todo = Does(r) /\ When(r, e) /\ UNCHANGED <<run, loop>>
  BY <1>1 DEF Fire
<1>3. /\ r \in LoopRules \cup RunRules
      /\ r \in LoopRules => e \in Loops /\ e # Run
      /\ r \in RunRules => e = Run
  BY <1>1, RuleOnFacts DEF Loops, Run
<1>4. ASSUME r = "execute" PROVE run.phase = "dispatched"
  BY <1>2, <1>3, <1>4 DEF RunRules, When, Execute
<1>5. ASSUME r = "resume" PROVE run.decision = "approve"
  BY <1>2, <1>3, <1>5 DEF RunRules, When, Resume
<1>6. ASSUME r = "validate" PROVE Has(e, "authored")
  BY <1>2, <1>3, <1>6 DEF LoopRules, When, ValidateAuthored
<1> QED BY <1>2, <1>3, <1>4, <1>5, <1>6, DoesLeft DEF Tracks, Has

LEMMA TracksOnward ==
  ASSUME Typed, Lineage, Once("marked"), Orderly, [Next]_vars, Unlost',
         NEW f \in firing, NEW g, Onward(f, g)
  PROVE  Tracks(g)'
<1>0. /\ Tracks(f) /\ RunGrows /\ <<f.rule, f.on>> \in RuleOn /\ Placed(f.rule, f.todo)
      /\ RuleFacts(f) /\ run \in RunState /\ loop \in [Loops -> LoopState]
      /\ Act(f) /\ Len(f.todo) > 1
      /\ g.rule = f.rule /\ g.on = f.on /\ g.todo = Tail(f.todo)
  BY RunSteps, FiringFacts, StagePlaced, OnwardActs DEF Orderly, Onward, Lineage, Typed, TypeOK
<1>1. f.rule \notin {"execute", "resume", "validate"}
  <2>1. f.rule \in {"execute", "resume", "validate"} => f.todo = <<Final(f.rule)>>
    BY <1>0 DEF Placed
  <2> QED BY <1>0, <2>1, Tuples
<1>2. ASSUME f.rule \in OneShot, g.todo \in Past(f.rule) PROVE MarkedOn(f.rule, f.on)'
  <2>1. CASE f.todo \in Past(f.rule)
    BY <1>0, <1>2, <2>1, MarkedStays DEF Tracks
  <2>2. CASE f.todo \in Early(f.rule)
    <3>1. Head(f.todo) = Mark(f.rule) /\ Mark(f.rule) \in Marks
      BY <1>0, <1>2, <2>2, EarlyStage DEF Mark, Marks
    <3>2. AddMark(f)
      BY <1>0, <3>1, ActKinds
    <3>3. CASE f.on = Run
      <4>1. run' = [run EXCEPT !.marks = run.marks \cup {Mark(f.rule)}]
        BY <3>1, <3>2, <3>3 DEF AddMark
      <4>2. Mark(f.rule) \in run'.marks
        BY <1>0, <4>1 DEF RunState
      <4> QED BY <3>3, <4>2 DEF MarkedOn, Marked
    <3>4. CASE f.on # Run
      <4>1. /\ f.on \in Loops /\ loop[f.on] \in LoopState
            /\ loop' = [loop EXCEPT ![f.on].marks = loop[f.on].marks \cup {Mark(f.rule)}]
        BY <1>0, <3>1, <3>2, <3>4, RuleOnFacts DEF AddMark
      <4>2. Mark(f.rule) \in loop'[f.on].marks
        BY <1>0, <4>1 DEF LoopState
      <4> QED BY <3>4, <4>2 DEF MarkedOn, Has
    <3> QED BY <3>3, <3>4
  <2> QED BY <1>0, <1>2, <2>1, <2>2 DEF RuleFacts
<1>3. ASSUME g.todo = <<"projection">> PROVE Marked("projected")'
  <2>1. Head(f.todo) = "projected" /\ f.rule = "project"
    BY <1>0, <1>3 DEF Placed
  <2>2. AddMark(f) /\ f.on = Run
    BY <1>0, <2>1, ActKinds, RuleOnFacts DEF Marks, RunRules
  <2>3. run' = [run EXCEPT !.marks = run.marks \cup {"projected"}]
    BY <2>1, <2>2 DEF AddMark
  <2> QED BY <1>0, <2>3 DEF RunState, Marked
<1>4. ASSUME g.todo = <<"park-routed">> PROVE run'.parked
  <2>1. Head(f.todo) = "park"
    BY <1>0, <1>4 DEF Placed
  <2>2. AddToRun(f)
    BY <1>0, <2>1, ActKinds DEF Act, MovePhase, Marks, Kinds, Stations, Phases
  <2> QED BY <1>0, <2>1, <2>2 DEF AddToRun, RunState
<1>5. ASSUME g.todo = <<"stamped">>, g.on = 1 PROVE "issue" \in run'.refs
  <2>1. Head(f.todo) = "ref" /\ loop[1].kind = "front"
    BY <1>0, <1>5, FirstLoop DEF Placed, Lineage, LoopFacts
  <2>2. AddToRun(f)
    BY <1>0, <2>1, ActKinds DEF Act, MovePhase, Marks, Kinds, Stations, Phases
  <2>3. run' = [run EXCEPT !.refs = run.refs \cup {"issue"}]
    BY <1>0, <1>5, <2>1, <2>2 DEF AddToRun
  <2> QED BY <1>0, <2>3 DEF RunState
<1>6. ASSUME g.todo = <<"spawned">> PROVE Born("route")'
  <2>1. Head(f.todo) = "route"
    BY <1>0, <1>6 DEF Placed
  <2>2. SpawnLoop(f)
    BY <1>0, <2>1, ActKinds DEF Kinds
  <2>3. PICK l \in Loops : \E b : loop'[l] = Spawned("route", b)
    BY <1>0, <2>1, <2>2 DEF SpawnLoop
  <2> QED BY <2>3 DEF Born, Spawned
<1>7. /\ g.todo \in Left(g.rule) /\ g.rule \notin {"execute", "resume", "validate"}
      /\ g.rule \in OneShot /\ g.todo \in Past(g.rule) => MarkedOn(g.rule, g.on)'
  BY <1>0, <1>1, <1>2 DEF Placed
<1> QED BY <1>3, <1>4, <1>5, <1>6, <1>7 DEF Tracks

LEMMA RunTracksStep ==
  ASSUME Typed, Lineage, Orderly, [Next]_vars, Unlost' PROVE RunTracks'
<1>0. RunTracks /\ RunGrows /\ 1 \in Loops /\ LoopFacts(1) /\ run \in RunState
  BY RunSteps, FirstLoop DEF Orderly, Lineage, Typed, TypeOK
<1>1. ASSUME run'.phase # "none" PROVE loop'[1].decision = "issue_intake"
  <2>1. loop[1].decision = "issue_intake"
    <3>1. CASE run'.phase = run.phase
      BY <1>0, <1>1, <3>1 DEF RunTracks
    <3>2. ASSUME NEW f \in firing, MovePhase(f) PROVE loop[1].decision = "issue_intake"
      <4>1. f.rule = "mint" => loop[1].decision = "issue_intake"
        BY DEF Lineage, RuleFacts
      <4>2. run.phase # "none" \/ f.rule = "mint"
        BY <1>1, <3>2, PhaseMoves
      <4> QED BY <1>0, <4>1, <4>2 DEF RunTracks
    <3> QED BY <3>1, <3>2, RunMoves
  <2> QED BY <1>0, <2>1, DecidedStays DEF Same
<1>2. /\ run'.decision # "none" => run'.phase \notin {"none", "dispatched"}
      /\ run'.decision = "reject" => run'.phase \in {"awaiting_approval", "cancelled"}
  <2>1. CASE run'.decision # run.decision
    BY <1>0, <2>1, RunMoves DEF RunGrows
  <2>2. CASE run'.decision = run.decision /\ run'.phase = run.phase
    BY <1>0, <2>2 DEF RunTracks
  <2>3. ASSUME NEW f \in firing, MovePhase(f), run'.decision = run.decision
        PROVE  <1>2!:
    <3>1. f.rule = "resume" => run.decision = "approve"
      BY DEF Orderly, Tracks
    <3> QED BY <1>0, <2>3, <3>1, PhaseMoves DEF RunTracks
  <2> QED BY <2>1, <2>2, <2>3, RunMoves
<1>3. Marked("park-routed")' => run'.parked
  <2>1. ASSUME NEW f \in firing, Head(f.todo) = "park-routed" PROVE run.parked
    BY <2>1, StagePlaced DEF Orderly, Placed, Tracks
  <2> QED BY <1>0, <2>1, RunMoves DEF RunTracks, RunGrows
<1>4. Has(1, "stamped")' => "issue" \in run'.refs
  <2>1. ASSUME NEW f \in firing, Head(f.todo) = "stamped", f.on = 1 PROVE "issue" \in run.refs
    BY <2>1, StagePlaced DEF Orderly, Placed, Tracks
  <2>2. Has(1, "stamped")' => \/ Has(1, "stamped")
                              \/ \E f \in firing : f.on = 1 /\ Head(f.todo) = "stamped"
    BY <1>0, LoopMoves
  <2> QED BY <1>0, <2>1, <2>2, RunMoves DEF RunTracks
<1>5. Has(1, "spawned")' => Born("route")'
  <2>1. ASSUME NEW f \in firing, Head(f.todo) = "spawned" PROVE Born("route")
    BY <2>1, StagePlaced DEF Orderly, Placed, Tracks
  <2>2. Has(1, "spawned")' => \/ Has(1, "spawned")
                              \/ \E f \in firing : f.on = 1 /\ Head(f.todo) = "spawned"
    BY <1>0, LoopMoves
  <2> QED BY <1>0, <2>1, <2>2, BornStays DEF RunTracks
<1> QED BY <1>1, <1>2, <1>3, <1>4, <1>5 DEF RunTracks

LEMMA LoopTracksStep ==
  ASSUME Typed, Lineage, Orderly, [Next]_vars, Unlost', NEW l \in Loops PROVE LoopTracks(l)'
<1>0. /\ LoopTracks(l) /\ RunGrows /\ LoopFacts(l) /\ run \in RunState /\ loop[l] \in LoopState
      /\ loop \in [Loops -> LoopState]
  BY RunSteps DEF Orderly, Lineage, Typed, TypeOK
<1>1. Has(l, "park-routed")' => run'.parked
  <2>1. ASSUME NEW f \in firing, Head(f.todo) = "park-routed" PROVE run.parked
    BY <2>1, StagePlaced DEF Orderly, Placed, Tracks
  <2>2. Has(l, "park-routed")' => \/ Has(l, "park-routed")
                                  \/ \E f \in firing : Head(f.todo) = "park-routed"
    BY LoopMoves
  <2> QED BY <1>0, <2>1, <2>2 DEF LoopTracks, RunGrows
<1>2. Has(l, "authored")' => Author(l)' /\ loop'[l].pc = "ended" /\ run'.doc # 0
  <2>1. CASE Has(l, "authored")
    <3>1. Author(l) /\ loop[l].pc = "ended" /\ run.doc # 0
      BY <1>0, <2>1 DEF LoopTracks
    <3>2. ~WriteChange(l)
      BY <3>1 DEF WriteChange
    <3>3. loop'[l].pc = "ended"
      BY <3>1, <3>2, LoopMoves
    <3> QED BY <1>0, <3>1, <3>3, AuthorStays DEF RunGrows
  <2>2. CASE MarkAuthored(l) /\ loop'[l].pc = "ended"
    <3>1. Author(l) /\ run.doc # 0
      BY <1>0, <2>2 DEF MarkAuthored, LoopTracks
    <3> QED BY <1>0, <2>2, <3>1, AuthorStays DEF RunGrows
  <2>3. ASSUME NEW f \in firing, AddMark(f) PROVE Head(f.todo) # "authored"
    BY <2>3 DEF AddMark, Marks
  <2>4. Has(l, "authored")' => \/ Has(l, "authored") \/ (MarkAuthored(l) /\ loop'[l].pc = "ended")
                               \/ \E f \in firing : AddMark(f) /\ Head(f.todo) = "authored"
    BY LoopMoves
  <2> QED BY <2>1, <2>2, <2>3, <2>4
<1>3. loop'[l].pc = "writing" => Author(l)' /\ run'.doc # 0
  <2>1. CASE loop[l].pc = "writing"
    BY <1>0, <2>1, AuthorStays DEF LoopTracks, RunGrows
  <2>2. CASE WriteChange(l)
    <3>1. Author(l) /\ run'.doc = run.doc + 1 /\ run.doc \in Nat
      BY <1>0, <2>2 DEF WriteChange, Author, RunState
    <3>2. run'.doc # 0
      BY <3>1
    <3> QED BY <3>1, <3>2, AuthorStays
  <2> QED BY <2>1, <2>2, LoopMoves
<1>4. loop'[l].kind = "dev" => Has(l, "anchored")'
  <2>1. CASE loop[l].kind = "dev"
    BY <1>0, <2>1, Lives DEF LoopTracks
  <2>2. ASSUME NEW f \in firing, BornOf(l, f), loop'[l].kind = "dev" PROVE Has(l, "anchored")'
    <3>1. Head(f.todo) = "dev"
      BY <2>2 DEF BornOf, Spawned
    <3>2. f.rule = "kick-off" /\ f.on = Run
      BY <3>1, FiringFacts, RuleOnFacts DEF StepsOf, RunRules
    <3> QED BY <2>2, <3>2 DEF BornOf, Spawned, Has
  <2> QED BY <2>1, <2>2, LoopSteps DEF Same, Decides
<1>5. loop'[l].pc = "ended" => loop'[l].decision # "none" \/ Has(l, "authored")'
  <2>1. CASE loop[l].pc = "ended"
    <3>1. CASE loop[l].decision # "none"
      BY <3>1, DecidedStays DEF Same
    <3>2. CASE Has(l, "authored")
      <4>1. loop[l].kind # "none"
        BY <1>0, <3>2 DEF LoopTracks, Author
      <4> QED BY <3>2, <4>1, Lives
    <3> QED BY <1>0, <2>1, <3>1, <3>2 DEF LoopTracks
  <2> QED BY <2>1, LoopMoves
<1> QED BY <1>1, <1>2, <1>3, <1>4, <1>5 DEF LoopTracks

(* What a station does with its dispatches.                                *)
Done(s) == \/ s = "validation" /\ StampValidated
           \/ s = "projection" /\ StampSpec
           \/ s = "provision" /\ (StampSandbox \/ run.sandbox = "ready")

LEMMA FailingKeeps ==
  ASSUME Typed, NEW s \in Stations
  PROVE  /\ Failing(s)[s].on = job[s].on /\ Failing(s)[s].pc \in {"start", "failed"}
         /\ \A t \in Stations \ {s} : Failing(s)[t] = job[t]
<1>0. job \in [Stations -> JobState] /\ job[s] \in JobState
  BY DEF Typed, TypeOK
<1>1. CASE job[s].attempt < HandleAttempts
  BY <1>0, <1>1 DEF Failing, JobState
<1>2. CASE ~(job[s].attempt < HandleAttempts)
  BY <1>0, <1>2 DEF Failing, JobState
<1> QED BY <1>1, <1>2

Working(s) == /\ job[s].pc # "idle" /\ job'[s].pc # "idle" /\ job'[s].on = job[s].on
              /\ queue'[s] = queue[s]
Finished(s) == /\ Done(s) /\ job[s].pc # "idle" /\ job'[s].pc = "idle"
               /\ queue'[s] = queue[s]
StandsBy(s) == job'[s] = job[s] /\ queue'[s] = queue[s]
Receives(s) == /\ job'[s] = job[s]
               /\ \E f \in firing : /\ PublishDispatch(f) /\ Head(f.todo) = s
                                    /\ queue'[s] = Append(queue[s], f.on)
Takes(s) == /\ job[s].pc = "idle" /\ queue[s] # <<>> /\ queue'[s] = Tail(queue[s])
            /\ job'[s].on = Head(queue[s]) /\ job'[s].pc = "start"
Empties(s) == Restart /\ queue'[s] = <<>> /\ job'[s] = NoJob
GivesUp(s) == /\ StampDispatchFailed(s) /\ job[s].pc = "failed" /\ job'[s] = NoJob
              /\ queue'[s] = queue[s]

LEMMA ValidationMoves ==
  ASSUME Typed, ValidationNext, NEW s \in Stations
  PROVE  StandsBy(s) \/ Working(s) \/ Finished(s)
<1>0. job \in [Stations -> JobState] /\ job["validation"] \in JobState
  BY DEF Typed, TypeOK, Stations
<1>1. CASE s = "validation" /\ ReadDocument
  BY <1>0, <1>1 DEF ReadDocument, Work, Working, JobState
<1>2. ASSUME NEW b \in BOOLEAN, s = "validation", Judge(b) PROVE Working(s)
  BY <1>0, <1>2 DEF Judge, Working, JobState
<1>3. CASE s = "validation" /\ StampValidated
  BY <1>0, <1>3 DEF StampValidated, Finished, Done, NoJob
<1>4. CASE s # "validation"
  <2>1. job'[s] = job[s] /\ queue' = queue
    BY <1>0, <1>4 DEF ValidationNext, ReadDocument, Work, Judge, StampValidated
  <2> QED BY <2>1 DEF StandsBy
<1> QED BY <1>1, <1>2, <1>3, <1>4 DEF ValidationNext

LEMMA ProjectionMoves ==
  ASSUME Typed, ProjectionNext, NEW s \in Stations
  PROVE  StandsBy(s) \/ Working(s) \/ Finished(s)
<1>0. /\ job \in [Stations -> JobState] /\ job["projection"] \in JobState
      /\ "projection" \in Stations /\ queue' = queue
  BY HandlerFrame DEF Typed, TypeOK, Stations
<1>1. ASSUME s = "projection", job' = Failing("projection"), job["projection"].pc # "idle"
      PROVE  Working(s)
  BY <1>0, <1>1, FailingKeeps DEF Working
<1>2. CASE s = "projection" /\ ReadValidated
  <2>1. CASE run.spec # 0
    BY <1>1, <1>2, <2>1 DEF ReadValidated
  <2>2. CASE run.spec = 0
    BY <1>0, <1>2, <2>2 DEF ReadValidated, Work, Working, JobState
  <2> QED BY <2>1, <2>2
<1>3. CASE s = "projection" /\ BindRevision
  <2>1. CASE job' = [job EXCEPT !["projection"].pc = "bound"]
    BY <1>0, <1>3, <2>1 DEF BindRevision, Working, JobState
  <2> QED BY <1>1, <1>3, <2>1 DEF BindRevision
<1>4. ASSUME NEW b \in BOOLEAN, s = "projection", ReadTasks(b) PROVE Working(s)
  <2>1. CASE b
    BY <1>0, <1>4, <2>1 DEF ReadTasks, Working, JobState
  <2>2. CASE ~b
    BY <1>1, <1>4, <2>2 DEF ReadTasks
  <2> QED BY <2>1, <2>2
<1>5. CASE s = "projection" /\ StampSpec
  BY <1>0, <1>5 DEF StampSpec, Finished, Done, NoJob
<1>6. CASE s # "projection"
  <2>1. job'[s] = job[s]
    BY <1>0, <1>6 DEF ProjectionNext, ReadValidated, BindRevision, ReadTasks, StampSpec, Work,
                      Failing
  <2> QED BY <1>0, <2>1 DEF StandsBy
<1> QED BY <1>2, <1>3, <1>4, <1>5, <1>6 DEF ProjectionNext

LEMMA ProvisionMoves ==
  ASSUME Typed, ProvisionNext, NEW s \in Stations
  PROVE  StandsBy(s) \/ Working(s) \/ Finished(s)
<1>0. /\ job \in [Stations -> JobState] /\ job["provision"] \in JobState
      /\ queue' = queue
  BY HandlerFrame DEF Typed, TypeOK, Stations
<1>1. CASE s = "provision" /\ Materialize
  <2>1. CASE run.sandbox = "ready" /\ job' = [job EXCEPT !["provision"] = NoJob]
    BY <1>0, <1>1, <2>1 DEF Materialize, Finished, Done, NoJob
  <2>2. CASE \E pc \in {"materialized", "blocked"} : job' = [job EXCEPT !["provision"].pc = pc]
    BY <1>0, <1>1, <2>2 DEF Materialize, Working, JobState
  <2> QED BY <1>1, <2>1, <2>2 DEF Materialize
<1>2. ASSUME NEW b \in BOOLEAN, s = "provision", ProveCold(b) PROVE Working(s)
  BY <1>0, <1>2 DEF ProveCold, Working, JobState
<1>3. CASE s = "provision" /\ StampSandbox
  BY <1>0, <1>3 DEF StampSandbox, Finished, Done, NoJob
<1>4. CASE s # "provision"
  BY <1>0, <1>4, ProvisionFrame DEF StandsBy
<1> QED BY <1>1, <1>2, <1>3, <1>4 DEF ProvisionNext

LEMMA StationMoves ==
  ASSUME Typed, [Next]_vars, Unlost', NEW s \in Stations
  PROVE  StandsBy(s) \/ Receives(s) \/ Takes(s) \/ Working(s) \/ Finished(s) \/ GivesUp(s) \/ Empties(s)
<1> DEFINE Goal == \/ StandsBy(s) \/ Receives(s) \/ Takes(s) \/ Working(s) \/ Finished(s)
                   \/ GivesUp(s) \/ Empties(s)
<1> SUFFICES Goal
  OBVIOUS
<1>0. /\ job \in [Stations -> JobState] /\ queue \in [Stations -> Seq(Loops \cup {Run})]
      /\ job[s] \in JobState
  BY DEF Typed, TypeOK
<1>1. CASE UNCHANGED <<job, queue>>
  BY <1>1 DEF StandsBy
<1>2. ASSUME NEW f \in firing, Act(f) PROVE Goal
  <2>1. CASE PublishDispatch(f)
    <3>1. /\ job' = job
          /\ queue' = [queue EXCEPT ![Head(f.todo)] = Append(queue[Head(f.todo)], f.on)]
      BY <2>1 DEF PublishDispatch
    <3>2. CASE Head(f.todo) = s
      <4>1. queue'[s] = Append(queue[s], f.on)
        BY <1>0, <3>1, <3>2
      <4> QED BY <2>1, <3>1, <3>2, <4>1 DEF Receives
    <3>3. CASE Head(f.todo) # s
      <4>1. queue'[s] = queue[s]
        BY <1>0, <3>1, <3>3
      <4> QED BY <3>1, <4>1 DEF StandsBy
    <3> QED BY <3>2, <3>3
  <2>2. CASE AddMark(f) \/ AddToRun(f) \/ MovePhase(f) \/ SpawnLoop(f)
    BY <1>1, <2>2 DEF AddMark, AddToRun, MovePhase, SpawnLoop
  <2> QED BY <1>2, <2>1, <2>2 DEF Act
<1>3. ASSUME NEW t \in Stations, Take(t) \/ StampDispatchFailed(t) \/ HandleError(t) PROVE Goal
  <2>1. CASE t # s
    <3>1. job'[s] = job[s] /\ queue'[s] = queue[s]
      BY <1>0, <1>3, <2>1, FailingKeeps DEF Take, StampDispatchFailed, HandleError
    <3> QED BY <3>1 DEF StandsBy
  <2>2. CASE t = s /\ Take(s)
    <3>1. job'[s] = [NoJob EXCEPT !.on = Head(queue[s]), !.pc = "start", !.attempt = 1]
          /\ queue'[s] = Tail(queue[s])
      BY <1>0, <2>2 DEF Take
    <3> QED BY <2>2, <3>1 DEF Take, Takes, NoJob
  <2>3. CASE t = s /\ StampDispatchFailed(s)
    BY <1>0, <2>3 DEF StampDispatchFailed, GivesUp
  <2>4. CASE t = s /\ HandleError(s)
    BY <1>0, <2>4, FailingKeeps DEF HandleError, Working
  <2> QED BY <1>3, <2>1, <2>2, <2>3, <2>4
<1>4. CASE Restart
  BY <1>0, <1>4 DEF Restart, Empties
<1>5. CASE \/ UNCHANGED vars \/ (\E re \in RuleOn : Fire(re[1], re[2]))
           \/ (\E d \in {"approve", "reject"} : DecideGate(d))
           \/ \E l \in Loops : (\E a \in Actions : Decide(l, a)) \/ WriteChange(l)
                               \/ MarkAuthored(l)
  BY <1>1, <1>5 DEF vars, Fire, DecideGate, Decide, WriteChange, MarkAuthored
<1> HIDE DEF Goal
<1>6. CASE \E f \in firing : Act(f)
  BY <1>2, <1>6
<1>7. CASE \E t \in Stations : Take(t) \/ StampDispatchFailed(t) \/ HandleError(t)
  BY <1>3, <1>7
<1>8. CASE ValidationNext \/ ProjectionNext \/ ProvisionNext
  BY <1>8, ValidationMoves, ProjectionMoves, ProvisionMoves DEF Goal
<1> QED BY <1>4, <1>5, <1>6, <1>7, <1>8, LosslessSteps

LEMMA StationTracksStep ==
  ASSUME Typed, Lineage, Orderly, [Next]_vars, Unlost' PROVE StationTracks'
<1>1. SUFFICES ASSUME NEW s \in Stations
               PROVE  /\ queue'[s] \in Seq(About(s)')
                      /\ job'[s].pc # "idle" => job'[s].on \in About(s)'
  BY DEF StationTracks
<1>2. /\ queue[s] \in Seq(About(s))
      /\ job[s].pc # "idle" => job[s].on \in About(s)
  BY DEF Orderly, StationTracks
<1>3. About(s) \subseteq About(s)'
  <2>1. ASSUME NEW l \in Loops, Has(l, "authored") PROVE Has(l, "authored")'
    BY <2>1, Lives DEF Orderly, LoopTracks, Author
  <2> QED BY <2>1 DEF About
<1>4. queue[s] \in Seq(About(s)')
  BY <1>2, <1>3, SeqMonotonic
<1>5. CASE StandsBy(s) \/ Working(s) \/ Finished(s) \/ GivesUp(s)
  <2>1. NoJob.pc = "idle"
    BY DEF NoJob
  <2> QED BY <1>2, <1>3, <1>4, <1>5, <2>1 DEF StandsBy, Working, Finished, GivesUp
<1>6. CASE Empties(s)
  <2>1. NoJob.pc = "idle" /\ <<>> \in Seq(About(s)')
    BY EmptySeq DEF NoJob
  <2> QED BY <1>6, <2>1 DEF Empties
<1>7. CASE Takes(s)
  <2>1. Head(queue[s]) \in About(s)' /\ Tail(queue[s]) \in Seq(About(s)')
    BY <1>4, <1>7, HeadTailProperties DEF Takes
  <2> QED BY <1>7, <2>1 DEF Takes
<1>8. CASE Receives(s)
  <2>1. PICK f \in firing : /\ PublishDispatch(f) /\ Head(f.todo) = s
                            /\ queue'[s] = Append(queue[s], f.on)
    BY <1>8 DEF Receives
  <2>2. Placed(f.rule, f.todo) /\ Tracks(f) /\ <<f.rule, f.on>> \in RuleOn
        /\ Head(f.todo) \in StepsOf(f.rule)
    BY StagePlaced, FiringFacts DEF Orderly
  <2>3. f.on \in About(s)
    <3>1. CASE s = "validation"
      <4>1. f.rule = "validate" /\ f.on \in Loops
        BY <2>1, <2>2, <3>1, RuleOnFacts DEF Placed, LoopRules
      <4> QED BY <2>2, <3>1, <4>1 DEF Tracks, About
    <3>2. CASE s \in {"projection", "provision"}
      <4>1. f.rule \in {"project", "provision"}
        BY <2>1, <2>2, <3>2 DEF Placed, StepsOf
      <4> QED BY <2>2, <3>2, <4>1, RuleOnFacts DEF RunRules, About
    <3> QED BY <3>1, <3>2 DEF Stations
  <2>4. queue'[s] \in Seq(About(s)')
    BY <1>3, <1>4, <2>1, <2>3, AppendProperties
  <2> QED BY <1>2, <1>3, <1>8, <2>4 DEF Receives
<1> QED BY <1>5, <1>6, <1>7, <1>8, StationMoves

LEMMA OrderlyStep ==
  ASSUME Typed, Lineage, Once("marked"), Orderly, [Next]_vars, Unlost' PROVE Orderly'
<1>1. ASSUME NEW g \in firing' PROVE Tracks(g)'
  BY <1>1, EngineSteps, TracksKept, TracksBegun, TracksOnward
<1> QED BY <1>1, RunTracksStep, LoopTracksStep, StationTracksStep DEF Orderly

-----------------------------------------------------------------------------
(* What the engine remembers of a rule that is not slow, the rule is still *)
(* doing: its last action, or one before it, makes its condition false.    *)

LEMMA RestartSteps ==
  ASSUME Typed, [Next]_vars
  PROVE  \/ used'.restarts = used.restarts /\ used'.forgot = used.forgot /\ ~Restart
         \/ /\ Restart /\ used'.restarts = used.restarts + 1
            /\ \/ used'.forgot = used.forgot
               \/ used'.forgot = used.forgot + 1 /\ matched' = {}
<1>0. used \in Usage /\ used.restarts \in Nat
  BY DEF Typed, TypeOK, Usage
<1>1. CASE Restart
  BY <1>0, <1>1 DEF Restart, Usage
<1>2. CASE ~Restart
  <2>1. used' = used \/ \E n : used' = [used EXCEPT !.lost = n] \/ used' = [used EXCEPT !.errors = n]
    <3>1. ASSUME NEW s \in Stations, StationNext(s) \/ HandleError(s) \/ DropDispatch(s)
          PROVE  <2>1!:
      BY <3>1 DEF StationNext, HandleError, DropDispatch, Take, StampDispatchFailed, ReadDocument,
                  Work, Judge, StampValidated, ReadValidated, BindRevision, ReadTasks, StampSpec,
                  Materialize, ProveCold, StampSandbox, Error, Lose
    <3>2. ASSUME NEW l \in Loops, LoopNext(l) \/ EndUndecided(l) PROVE <2>1!:
      BY <3>2 DEF LoopNext, Decide, WriteChange, MarkAuthored, EndUndecided, Error, Lose
    <3>3. ASSUME NEW f \in firing, Act(f) \/ LoseAction(f) PROVE <2>1!:
      BY <3>3 DEF Act, AddMark, AddToRun, MovePhase, SpawnLoop, PublishDispatch, LoseAction, Lose
    <3>4. ASSUME \/ (\E re \in RuleOn : Fire(re[1], re[2])) \/ UNCHANGED vars
                 \/ \E d \in {"approve", "reject"} : DecideGate(d)
          PROVE  used' = used
      BY <3>4 DEF Fire, vars, DecideGate
    <3> QED BY <1>2, <3>1, <3>2, <3>3, <3>4 DEF Next, EngineNext
  <2> QED BY <1>0, <1>2, <2>1 DEF Usage
<1> QED BY <1>1, <1>2

LEMMA WorldSteps ==
  ASSUME Typed, [Next]_vars, used.forgot <= used.restarts
  PROVE  /\ used'.forgot <= used'.restarts
         /\ Replayed' => Replayed /\ (Restart => matched' = {})
         /\ Calm' => Calm /\ ~Restart
<1>0. used.restarts \in Nat /\ used.forgot \in Nat
  BY DEF Typed, TypeOK, Usage
<1>1. Unlost' => Unlost
  BY LossCounts
<1>2. CASE used'.restarts = used.restarts /\ used'.forgot = used.forgot /\ ~Restart
  BY <1>0, <1>1, <1>2 DEF Replayed, Calm
<1>3. CASE Restart /\ used'.restarts = used.restarts + 1 /\ used'.forgot = used.forgot
  <2>1. used'.forgot # used'.restarts /\ used'.restarts # 0 /\ used'.forgot <= used'.restarts
    BY <1>0, <1>3
  <2> QED BY <1>1, <2>1 DEF Replayed, Calm
<1>4. CASE /\ Restart /\ used'.restarts = used.restarts + 1 /\ matched' = {}
           /\ used'.forgot = used.forgot + 1
  <2>1. /\ used'.forgot <= used'.restarts /\ used'.restarts # 0
        /\ used'.restarts = used'.forgot => used.restarts = used.forgot
    BY <1>0, <1>4
  <2> QED BY <1>1, <1>4, <2>1 DEF Replayed, Calm
<1> QED BY <1>2, <1>3, <1>4, RestartSteps

LEMMA EndsUnmatched ==
  ASSUME Typed, Lineage, Orderly, NEW f \in firing, Finishes(f), f.rule \notin Slow,
         <<f.rule, f.on>> \in matched
  PROVE  RuleState /\ ~When(f.rule, f.on)'
<1>0. /\ Tracks(f) /\ Placed(f.rule, f.todo) /\ Act(f) /\ Head(f.todo) = Final(f.rule)
      /\ ~(Len(f.todo) > 1) /\ RuleFacts(f)
      /\ run \in RunState /\ loop \in [Loops -> LoopState]
  BY StagePlaced DEF Orderly, Placed, Finishes, Typed, TypeOK, Lineage
<1>1. /\ f.rule \in LoopRules \cup RunRules
      /\ f.rule \in LoopRules => f.on \in Loops /\ f.on # Run
      /\ f.rule \in RunRules => f.on = Run
  BY FiringFacts, RuleOnFacts DEF Loops, Run
<1>2. When(f.rule, f.on)
  BY DEF Lineage, MatchedHolds
<1>3. f.rule \notin OneShot
  <2>1. SUFFICES ASSUME f.rule \in OneShot PROVE FALSE
    OBVIOUS
  <2>2. MarkedOn(f.rule, f.on)
    BY <1>0, <2>1, EarlyStage DEF Tracks, RuleFacts
  <2>3. CASE f.rule \in {"mint", "develop"}
    BY <1>1, <1>2, <2>2, <2>3 DEF LoopRules, When, Mint, Develop, MarkedOn, Mark
  <2>4. CASE f.rule \in {"provision", "kick-off"}
    BY <1>1, <1>2, <2>2, <2>4 DEF RunRules, When, Provision, KickOff, MarkedOn, Mark
  <2> QED BY <2>1, <2>3, <2>4 DEF OneShot
<1>4. f.rule # "project"
  <2>1. f.rule = "project" => Marked("projected") /\ f.on = Run
    BY <1>0, <1>1 DEF Placed, Tracks, Final, RunRules
  <2> QED BY <1>2, <2>1 DEF When, Project
<1>5. CASE f.rule \in {"stamp-ref", "failed-loop", "failed-run"}
  <2>1. Head(f.todo) \in {"stamped", "park-routed"} /\ AddMark(f)
        /\ (f.rule = "stamp-ref" <=> Head(f.todo) = "stamped")
    BY <1>0, <1>5, ActKinds DEF Final, Marks
  <2>2. CASE f.rule \in {"stamp-ref", "failed-loop"}
    <3>1. /\ f.on \in Loops /\ f.on # Run /\ loop[f.on] \in LoopState
          /\ loop' = [loop EXCEPT ![f.on].marks = loop[f.on].marks \cup {Head(f.todo)}]
      BY <1>0, <1>1, <2>1, <2>2 DEF AddMark, LoopRules
    <3>2. Head(f.todo) \in loop'[f.on].marks
      BY <1>0, <3>1 DEF LoopState
    <3>3. ~When(f.rule, f.on)'
      BY <2>1, <2>2, <3>1, <3>2 DEF When, StampRef, StationFailedLoop, Has
    <3> QED BY <2>1, <3>3 DEF AddMark
  <2>3. CASE f.rule = "failed-run"
    <3>1. f.on = Run /\ run' = [run EXCEPT !.marks = run.marks \cup {Head(f.todo)}]
      BY <1>1, <2>1, <2>3 DEF AddMark, RunRules
    <3>2. Head(f.todo) \in run'.marks
      BY <1>0, <3>1 DEF RunState
    <3>3. ~When(f.rule, f.on)'
      BY <2>1, <2>3, <3>1, <3>2 DEF When, StationFailedRun, Marked
    <3> QED BY <2>1, <3>3 DEF AddMark
  <2> QED BY <1>5, <2>2, <2>3
<1>6. CASE f.rule \in {"execute", "resume", "offer", "cancel"}
  <2>1. f.on = Run /\ Head(f.todo) \in Phases
    BY <1>0, <1>1, <1>6 DEF Final, RunRules, Phases
  <2>2. MovePhase(f)
    BY <1>0, <2>1, ActKinds DEF Act, AddToRun, Marks, Kinds, Stations, Phases
  <2>3. <<run.phase, Head(f.todo)>> \in Edges /\ run.phase # Head(f.todo)
        /\ (f.rule = "execute" => run.phase = "dispatched" /\ Head(f.todo) = "executing")
        /\ (f.rule = "resume" => run.phase = "awaiting_approval" /\ Head(f.todo) = "executing")
        /\ (f.rule = "offer" => run.phase = "executing" /\ Head(f.todo) = "awaiting_approval")
        /\ (f.rule = "cancel" => run.phase = "awaiting_approval" /\ Head(f.todo) = "cancelled")
    BY <1>0, <1>2, <1>6, <2>1 DEF When, Execute, Resume, Offer, Cancel, Final, Edges
  <2>4. Head(f.todo) # "mint"
    BY <2>1 DEF Phases
  <2>5. run'.phase = Head(f.todo)
    BY <1>0, <2>2, <2>3, <2>4 DEF MovePhase, RunState
  <2>6. ~When(f.rule, f.on)'
    BY <1>6, <2>1, <2>3, <2>5 DEF When, Execute, Resume, Offer, Cancel
  <2> QED BY <2>2, <2>6 DEF MovePhase
<1>7. CASE f.rule \in {"anchor-gated", "anchor-resumed", "blocked"}
  <2>1. f.on = Run /\ Head(f.todo) = IF f.rule = "blocked" THEN "park" ELSE "anchor"
    BY <1>0, <1>1, <1>7 DEF Final, RunRules
  <2>2. AddToRun(f)
    BY <1>0, <1>7, <2>1, ActKinds DEF Act, MovePhase, Marks, Kinds, Stations, Phases
  <2>3. IF f.rule = "blocked" THEN run'.parked ELSE run'.anchor
    BY <1>0, <1>7, <2>1, <2>2 DEF AddToRun, RunState
  <2>4. ~When(f.rule, f.on)'
    BY <1>7, <2>1, <2>3 DEF When, SandboxBlocked, AnchorGated, AnchorResumed
  <2> QED BY <2>2, <2>4 DEF AddToRun
<1> QED BY <1>1, <1>3, <1>4, <1>5, <1>6, <1>7 DEF LoopRules, RunRules, OneShot, Slow

LEMMA RecallStep ==
  ASSUME Typed, Lineage, Orderly, [Next]_vars, Unlost', Recall, Restart => matched' = {}
  PROVE  Recall'
<1>1. SUFFICES ASSUME NEW r, NEW e, <<r, e>> \in matched', r \notin Slow PROVE Due(r, e)'
  <2>1. matched' \subseteq RuleOn
    <3>1. Typed'
      BY StepTyped
    <3> QED BY <3>1 DEF Typed, TypeOK
  <2>2. \A m \in RuleOn : m = <<m[1], m[2]>>
    BY DEF RuleOn
  <2> QED BY <1>1, <2>1, <2>2 DEF Recall
<1>2. ~Restart
  BY <1>1
<1>3. CASE <<r, e>> \in matched
  <2>1. Due(r, e)
    BY <1>1, <1>3 DEF Recall
  <2>2. ASSUME NEW f \in firing, f.rule = r, f.on = e, Finishes(f) PROVE FALSE
    <3>1. RuleState /\ ~When(r, e)'
      BY <1>1, <1>3, <2>2, EndsUnmatched
    <3> QED BY <1>1, <3>1 DEF RuleState
  <2> QED BY <1>2, <2>1, <2>2, DueStays
<1>4. CASE <<r, e>> \notin matched
  <2>1. PICK re \in RuleOn : Fire(re[1], re[2])
    BY <1>1, <1>2, <1>4, Memory DEF RuleState
  <2>2. r = re[1] /\ e = re[2]
    BY <1>1, <1>4, <2>1 DEF Fire
  <2> QED BY <2>1, <2>2, DueBegun
<1> QED BY <1>3, <1>4

-----------------------------------------------------------------------------
(* One author writes the change.                                           *)

(* Only the router asks for a change of the run, and there is one.         *)
LEMMA OneAsker ==
  ASSUME Typed, Lineage, Single, NEW k \in Loops, NEW l \in Loops,
         Decided(k, "create_change"), Has(k, "anchored"),
         Decided(l, "create_change"), Has(l, "anchored")
  PROVE  k = l
<1>1. ASSUME NEW m \in Loops, Decided(m, "create_change"), Has(m, "anchored")
      PROVE  loop[m].kind = "route"
  <2>1. LoopFacts(m) /\ loop[m].kind \in Coordinators /\ loop[m].decision = "create_change"
    BY <1>1 DEF Lineage, Decided
  <2>2. loop[m].decision \in Choices(loop[m].kind) /\ loop[m].kind # "front"
    BY <1>1, <2>1 DEF LoopFacts
  <2> QED BY <2>1, <2>2 DEF Choices, Coordinators
<1> QED BY <1>1 DEF Single

LEMMA AnchoredBefore ==
  ASSUME Typed, Lineage, [Next]_vars, NEW l \in Loops, loop[l].kind # "none",
         loop[l].decision # "issue_intake", Has(l, "anchored")'
  PROVE  Has(l, "anchored")
<1>1. ASSUME NEW f \in firing, f.rule = "mint", f.on = l PROVE FALSE
  BY <1>1 DEF Lineage, RuleFacts
<1> QED BY <1>1, LoopSteps DEF Same, Decides, BornOf, Has

LEMMA AuthorMoves ==
  ASSUME Typed, Lineage, [Next]_vars, NEW l \in Loops, Author(l)'
  PROVE  \/ Author(l)
         \/ \E f \in firing : /\ BornOf(l, f) /\ f.rule = "author" /\ f.on \in Loops
                              /\ Has(f.on, "anchored") /\ Head(f.todo) = "author"
<1>1. ASSUME NEW f \in firing, BornOf(l, f)
      PROVE  /\ f.rule = "author" /\ f.on \in Loops /\ Has(f.on, "anchored")
             /\ Head(f.todo) = "author"
  <2>1. Head(f.todo) = "author"
    BY <1>1 DEF Author, BornOf, Spawned
  <2>2. f.rule = "author" /\ <<f.rule, f.on>> \in RuleOn
    BY <2>1, FiringFacts DEF StepsOf
  <2>3. f.on \in Loops /\ f.on # Run
    BY <2>2, RuleOnFacts DEF LoopRules, Loops, Run
  <2> QED BY <1>1, <2>1, <2>2, <2>3 DEF Author, BornOf, Spawned, Has
<1>2. CASE Same(l) \/ Decides(l)
  <2>1. loop[l].kind = "author"
    BY <1>2 DEF Same, Decides, Author
  <2>2. loop[l].decision = "none"
    BY <2>1 DEF Lineage, LoopFacts, Choices
  <2> QED BY <2>1, <2>2, AnchoredBefore DEF Author
<1> QED BY <1>1, <1>2, LoopSteps

LEMMA NewMatched ==
  ASSUME [Next]_vars, ~Restart, NEW r, NEW e, <<r, e>> \in matched', <<r, e>> \notin matched
  PROVE  Fire(r, e)
<1>1. PICK re \in RuleOn : Fire(re[1], re[2])
  BY Memory DEF RuleState
<1>2. r = re[1] /\ e = re[2]
  BY <1>1 DEF Fire
<1> QED BY <1>1, <1>2

LEMMA AskRemembered ==
  ASSUME Typed, Lineage, [Next]_vars, ~Restart, NEW e \in Loops, <<"author", e>> \in matched
  PROVE  <<"author", e>> \in matched' /\ Decided(e, "create_change")
<1>0. e # Run
  BY DEF Loops, Run
<1>1. Decided(e, "create_change")
  BY <1>0 DEF Lineage, MatchedHolds, When, SpawnAuthor
<1>2. Decided(e, "create_change")'
  BY <1>1, DecidedStays DEF Decided
<1>3. When("author", e)'
  BY <1>0, <1>2 DEF When, SpawnAuthor
<1>4. CASE RuleState
  <2>1. \A m \in matched : When(m[1], m[2])' => m \in matched'
    BY <1>4 DEF RuleState
  <2> DEFINE m == <<"author", e>>
  <2>2. m \in matched /\ m[1] = "author" /\ m[2] = e
    OBVIOUS
  <2>3. When(m[1], m[2])'
    BY <1>3, <2>2
  <2> QED BY <1>1, <2>1, <2>2, <2>3
<1>5. ASSUME NEW re \in RuleOn, Fire(re[1], re[2]) PROVE <<"author", e>> \in matched'
  BY <1>5 DEF Fire
<1> QED BY <1>1, <1>4, <1>5, Memory

LEMMA AuthorOnceStep ==
  ASSUME Typed, Lineage, Single, Orderly, AuthorOnce, [Next]_vars, Unlost', ~Restart
  PROVE  AuthorOnce'
<1>0. /\ \A f \in firing : f.rule = "author" /\ Has(f.on, "anchored") =>
           <<"author", f.on>> \in matched /\ ~Written
      /\ Written => \E e \in Loops : Has(e, "anchored") /\ <<"author", e>> \in matched
      /\ \A k, l \in Loops : Author(k) /\ Author(l) => k = l
  BY DEF AuthorOnce
<1>1. ASSUME NEW f \in firing, f.rule = "author"
      PROVE  /\ f.on \in Loops /\ Decided(f.on, "create_change") /\ f.todo = <<"author">>
             /\ loop[f.on].kind # "none" /\ loop[f.on].decision = "create_change"
  BY <1>1, FiringFacts, RuleOnFacts, StagePlaced
     DEF LoopRules, Lineage, RuleFacts, Orderly, Placed, Final, Decided, Coordinators
<1>2. ASSUME NEW f \in firing', f.rule = "author", Has(f.on, "anchored")'
      PROVE  <<"author", f.on>> \in matched' /\ ~Written'
  <2>1. CASE f \in firing
    <3>1. Has(f.on, "anchored")
      BY <1>1, <1>2, <2>1, AnchoredBefore
    <3>2. <<"author", f.on>> \in matched'
      BY <1>0, <1>1, <1>2, <2>1, <3>1, AskRemembered
    <3>3. ASSUME NEW l \in Loops, NEW g \in firing, BornOf(l, g), g.rule = "author",
                 Has(g.on, "anchored")
          PROVE  FALSE
      <4>1. g = f
        BY <1>1, <1>2, <2>1, <3>1, <3>3, OneAsker, SameFiring
      <4>2. firing' = firing \ {g}
        <5>1. Advance(g) /\ g.todo = <<"author">>
          BY <1>1, <3>3 DEF BornOf, SpawnLoop
        <5> QED BY <5>1, Tuples DEF Advance
      <4> QED BY <1>2, <4>1, <4>2
    <3>4. ASSUME NEW l \in Loops, Author(l)' PROVE FALSE
      <4>1. ~Author(l)
        BY <1>0, <1>2, <2>1, <3>1 DEF Written
      <4> QED BY <3>3, <3>4, <4>1, AuthorMoves
    <3> QED BY <3>2, <3>4 DEF Written
  <2>2. CASE Begun(f)
    <3>1. PICK re \in RuleOn : /\ Fire(re[1], re[2])
                               /\ f = [rule |-> re[1], on |-> re[2], todo |-> Does(re[1])]
      BY <2>2 DEF Begun
    <3>2. /\ Fire("author", f.on) /\ f.on \in Loops /\ f.on # Run
      BY <1>2, <3>1 DEF RuleOn, RunRules, Loops, Run
    <3>3. /\ <<"author", f.on>> \in matched' /\ <<"author", f.on>> \notin matched
          /\ loop' = loop /\ Decided(f.on, "create_change") /\ Has(f.on, "anchored")
      BY <1>2, <3>2 DEF Fire, When, SpawnAuthor, Has
    <3>4. ~Written
      <4>1. ASSUME NEW e \in Loops, Has(e, "anchored"), <<"author", e>> \in matched PROVE FALSE
        <5>1. e = f.on
          BY <3>2, <3>3, <4>1, AskRemembered, OneAsker
        <5> QED BY <3>3, <4>1, <5>1
      <4> QED BY <1>0, <4>1
    <3> QED BY <3>3, <3>4 DEF Written, Author, Has
  <2>3. ASSUME NEW g \in firing, Onward(g, f) PROVE FALSE
    <3>1. g.rule = "author" /\ Len(g.todo) > 1
      BY <1>2, <2>3 DEF Onward
    <3> QED BY <1>1, <3>1, Tuples
  <2> QED BY <2>1, <2>2, <2>3, EngineSteps
<1>3. ASSUME Written' PROVE \E e \in Loops : Has(e, "anchored")' /\ <<"author", e>> \in matched'
  <2>1. \E e \in Loops : Has(e, "anchored") /\ <<"author", e>> \in matched
    BY <1>0, <1>3, AuthorMoves DEF Written
  <2>2. PICK e \in Loops : Has(e, "anchored") /\ <<"author", e>> \in matched
    BY <2>1
  <2>3. <<"author", e>> \in matched' /\ loop[e].kind # "none"
    BY <2>2, AskRemembered DEF Decided, Coordinators
  <2> QED BY <2>2, <2>3, Lives
<1>4. ASSUME NEW k \in Loops, NEW l \in Loops, Author(k)', Author(l)' PROVE k = l
  <2>1. CASE Written
    BY <1>0, <1>4, <2>1, AuthorMoves
  <2>2. CASE ~Written
    BY <1>4, <2>2, AuthorMoves, OneBirth DEF Written
  <2> QED BY <2>1, <2>2
<1> QED BY <1>2, <1>3, <1>4 DEF AuthorOnce

-----------------------------------------------------------------------------
(* What the validation judges is the document as it stays.                 *)

LEMMA AuthoredLast ==
  ASSUME Typed, Orderly, AuthorOnce, [Next]_vars, Unlost', NEW e \in Loops, Has(e, "authored")
  PROVE  /\ \A l \in Loops : ~WriteChange(l)
         /\ run'.doc = run.doc /\ Author(e) /\ run.doc # 0
<1>1. Author(e) /\ loop[e].pc = "ended" /\ run.doc # 0
  BY DEF Orderly, LoopTracks
<1>2. ASSUME NEW l \in Loops, WriteChange(l) PROVE FALSE
  <2>1. Author(l) /\ loop[l].pc = "working"
    BY <1>2 DEF WriteChange, Author
  <2> QED BY <1>1, <2>1 DEF AuthorOnce
<1> QED BY <1>1, <1>2, RunMoves

LEMMA JudgedStays == ASSUME Typed, [Next]_vars PROVE judged \subseteq judged'
<1>1. ASSUME NEW s \in Stations, StationNext(s) \/ HandleError(s) \/ DropDispatch(s)
      PROVE  judged \subseteq judged'
  BY <1>1 DEF StationNext, HandleError, DropDispatch, Take, StampDispatchFailed, ReadDocument,
              Work, Judge, StampValidated, ReadValidated, BindRevision, ReadTasks, StampSpec,
              Materialize, ProveCold, StampSandbox
<1>2. ASSUME NEW l \in Loops, LoopNext(l) \/ EndUndecided(l) PROVE judged' = judged
  BY <1>2 DEF LoopNext, Decide, WriteChange, MarkAuthored, EndUndecided
<1>3. ASSUME NEW f \in firing, Act(f) \/ LoseAction(f) PROVE judged' = judged
  BY <1>3 DEF Act, AddMark, AddToRun, MovePhase, SpawnLoop, PublishDispatch, LoseAction
<1>4. ASSUME \/ Restart \/ (\E re \in RuleOn : Fire(re[1], re[2])) \/ UNCHANGED vars
             \/ \E d \in {"approve", "reject"} : DecideGate(d)
      PROVE  judged' = judged
  BY <1>4 DEF Restart, Fire, vars, DecideGate
<1> QED BY <1>1, <1>2, <1>3, <1>4 DEF Next, EngineNext

LEMMA SettledStep ==
  ASSUME Typed, Lineage, Orderly, AuthorOnce, Settled, [Next]_vars, Unlost' PROVE Settled'
<1> DEFINE j == job["validation"]
           k == job'["validation"]
<1>0. /\ "validation" \in Stations /\ j \in JobState /\ job \in [Stations -> JobState]
  BY DEF Typed, TypeOK, Stations
<1>1. CASE k = j
  <2>1. j.pc # "idle" => run'.doc = run.doc
    <3>1. j.pc # "idle" => \E e \in Loops : Has(e, "authored")
      BY <1>0 DEF Orderly, StationTracks, About
    <3> QED BY <3>1, AuthoredLast
  <2> QED BY <1>1, <2>1, JudgedStays DEF Settled
<1>2. CASE k.pc \in Resting
  BY <1>2 DEF Settled, Resting
<1>3. CASE ReadDocument
  <2>1. k.pc = "read" /\ k.doc = run.doc /\ run' = run
    BY <1>0, <1>3 DEF ReadDocument, Work, JobState
  <2> QED BY <2>1 DEF Settled
<1>4. ASSUME NEW b \in BOOLEAN, Judge(b) PROVE Settled'
  <2>1. /\ k.pc = "judged" /\ k.doc = run.doc /\ k.ok = b /\ run' = run /\ j.pc = "read"
        /\ judged' = judged \cup {<<j.doc, b>>}
    BY <1>0, <1>4 DEF Judge, JobState
  <2>2. j.doc = run.doc
    BY <2>1 DEF Settled
  <2> QED BY <2>1, <2>2 DEF Settled
<1>5. CASE StampValidated
  <2>1. k.pc = "idle"
    BY <1>0, <1>5 DEF StampValidated, NoJob
  <2> QED BY <2>1 DEF Settled
<1> QED BY <1>0, <1>1, <1>2, <1>3, <1>4, <1>5, JobSteps DEF ValidationNext

-----------------------------------------------------------------------------
(* What is started is due, or its outcome is there.                        *)

LEMMA EarlyGoesOn ==
  ASSUME Typed, Lineage, NEW f \in firing, Act(f), f.rule \in OneShot, Head(f.todo) = Mark(f.rule)
  PROVE  Due(f.rule, f.on)'
<1>1. f.todo \in Early(f.rule) \cup Past(f.rule)
  BY DEF Lineage, RuleFacts
<1>2. Len(f.todo) > 1
  BY <1>1, EarlyStage, PastStage
<1> QED BY <1>2, DueOnward

LEMMA MarkingBegins ==
  ASSUME Typed, Lineage, [Next]_vars, Unlost', NEW r \in OneShot, NEW e, <<r, e>> \in RuleOn,
         r = "mint" => e = 1, MarkedOn(r, e)', ~MarkedOn(r, e)
  PROVE  Due(r, e)'
<1>1. Mark(r) \notin {"failed", "authored"} /\ (Mark(r) = "anchored" => r = "mint")
      /\ e \in Loops \cup {Run}
  BY RuleOnFacts DEF Mark, OneShot
<1>2. \E f \in firing : AddMark(f) /\ f.on = e /\ Head(f.todo) = Mark(r)
  <2>1. CASE e = Run
    BY <1>1, <2>1, RunMoves DEF MarkedOn
  <2>2. CASE e # Run
    <3>1. e \in Loops /\ Has(e, Mark(r))' /\ ~Has(e, Mark(r))
      BY <1>1, <2>2 DEF MarkedOn
    <3>2. ASSUME NEW f \in firing, BornOf(e, f), Mark(r) = "anchored" PROVE FALSE
      <4>1. e = 1 /\ loop[e].kind = "none"
        BY <1>1, <3>2 DEF BornOf
      <4> QED BY <3>1, <4>1 DEF Lineage, LoopFacts
    <3> QED BY <1>1, <3>1, <3>2, LoopMoves
  <2> QED BY <2>1, <2>2
<1>3. PICK f \in firing : AddMark(f) /\ f.on = e /\ Head(f.todo) = Mark(r)
  BY <1>2
<1>4. f.rule = r
  <2>1. Mark(r) \in StepsOf(f.rule)
    BY <1>3, FiringFacts
  <2> QED BY <2>1 DEF StepsOf, Mark, OneShot
<1> QED BY <1>3, <1>4, EarlyGoesOn DEF Act

LEMMA StartedMoves ==
  ASSUME Typed, Lineage, Orderly, [Next]_vars, Unlost', ~Restart,
         NEW r \in Lasting, NEW e, Started(r, e)'
  PROVE  Started(r, e) \/ Due(r, e)'
<1>0. <<r, e>> \in RuleOn /\ 1 \in Loops /\ 1 # Run
  BY FirstLoop DEF Started, RuleOn, Run, Loops
<1>1. CASE r = "mint"
  <2>1. e = 1 /\ MarkedOn(r, e)'
    BY <1>0, <1>1 DEF Started, MarkedOn, Mark
  <2>2. MarkedOn(r, e) => Started(r, e)
    BY <1>0, <1>1, <2>1 DEF Started, MarkedOn, Mark
  <2> QED BY <1>0, <1>1, <2>1, <2>2, MarkingBegins DEF OneShot
<1>2. CASE r \in {"develop", "kick-off", "provision"}
  <2>1. MarkedOn(r, e)'
    BY <1>2 DEF Started
  <2>2. MarkedOn(r, e) => Started(r, e)
    BY <1>0, <1>2 DEF Started
  <2> QED BY <1>0, <1>2, <2>1, <2>2, MarkingBegins DEF OneShot
<1>3. CASE r = "project"
  <2>1. Marked("projected")' /\ e = Run
    BY <1>0, <1>3, RuleOnFacts DEF Started, RunRules
  <2>2. ASSUME NEW f \in firing, AddMark(f), f.on = Run, Head(f.todo) = "projected"
        PROVE  Due(r, e)'
    <3>1. f.rule = "project" /\ Len(f.todo) > 1
      BY <2>2, StagePlaced DEF Orderly, Placed
    <3> QED BY <1>3, <2>1, <2>2, <3>1, DueOnward DEF Act
  <2> QED BY <1>0, <1>3, <2>1, <2>2, RunMoves DEF Started
<1>4. CASE r \in Slow
  <2>1. <<r, e>> \in matched' /\ (r = "author" => Has(e, "anchored")')
    BY <1>4 DEF Started, Slow
  <2>2. CASE <<r, e>> \notin matched
    BY <2>1, <2>2, NewMatched, DueBegun
  <2>3. CASE <<r, e>> \in matched
    <3>1. ASSUME r = "author" PROVE Has(e, "anchored")
      <4>1. e \in Loops
        BY <1>0, <3>1, RuleOnFacts DEF LoopRules
      <4> QED BY <2>1, <2>3, <3>1, <4>1, AskRemembered, AnchoredBefore DEF Decided, Coordinators
    <3> QED BY <1>0, <1>4, <2>3, <3>1 DEF Started, Slow
  <2> QED BY <2>2, <2>3
<1> QED BY <1>1, <1>2, <1>3, <1>4 DEF Lasting

(* The last action of a rule brings about what the rule is for.            *)
LEMMA Sends ==
  ASSUME Typed, NEW f \in firing, PublishDispatch(f), NEW s \in Stations, Head(f.todo) = s
  PROVE  UnderWay(s)'
<1>1. queue[s] \in Seq(Loops \cup {Run}) /\ f.on \in Loops \cup {Run}
      /\ queue'[s] = Append(queue[s], f.on)
  BY FiringFacts, RuleOnFacts DEF Typed, TypeOK, PublishDispatch
<1>2. queue'[s] # <<>>
  BY <1>1, AppendProperties
<1> QED BY <1>2 DEF UnderWay

LEMMA Bears ==
  ASSUME Typed, NEW f \in firing, SpawnLoop(f)
  PROVE  \E l \in Loops : /\ loop'[l].kind = Head(f.todo)
                          /\ f.on = Run \/ Has(f.on, "anchored") => Has(l, "anchored")'
<1>1. PICK l \in Loops : loop' = [loop EXCEPT ![l] =
                                    Spawned(Head(f.todo), f.on = Run \/ Has(f.on, "anchored"))]
  BY DEF SpawnLoop
<1>2. loop'[l] = Spawned(Head(f.todo), f.on = Run \/ Has(f.on, "anchored"))
  BY <1>1 DEF Typed, TypeOK
<1> QED BY <1>2 DEF Spawned, Has

LEMMA FinishBrings ==
  ASSUME Typed, Lineage, Orderly, NEW f \in firing, f.rule \in Lasting, Finishes(f),
         f.rule = "author" => Has(f.on, "anchored")
  PROVE  Outcome(f.rule, f.on)'
<1>0. /\ Act(f) /\ Head(f.todo) = Final(f.rule) /\ <<f.rule, f.on>> \in RuleOn
      /\ run \in RunState /\ loop \in [Loops -> LoopState]
  BY StagePlaced, FiringFacts DEF Orderly, Placed, Finishes, Typed, TypeOK
<1>1. CASE f.rule = "mint"
  <2>1. Head(f.todo) = "spawned" /\ AddMark(f) /\ f.on \in Loops /\ f.on # Run
    BY <1>0, <1>1, ActKinds, RuleOnFacts DEF Final, Marks, LoopRules, Loops, Run
  <2>2. loop' = [loop EXCEPT ![f.on].marks = loop[f.on].marks \cup {"spawned"}]
    BY <2>1 DEF AddMark
  <2>3. Has(f.on, "spawned")'
    BY <1>0, <2>1, <2>2 DEF LoopState, Has
  <2> QED BY <1>1, <2>3 DEF Outcome
<1>2. CASE f.rule \in {"develop", "kick-off", "author"}
  <2>1. /\ Head(f.todo) = Final(f.rule) /\ Final(f.rule) \in Kinds
    BY <1>0, <1>2 DEF Final, Kinds
  <2>2. SpawnLoop(f)
    BY <1>0, <2>1, ActKinds
  <2>3. PICK l \in Loops : /\ loop'[l].kind = Final(f.rule)
                           /\ f.on = Run \/ Has(f.on, "anchored") => Has(l, "anchored")'
    BY <2>1, <2>2, Bears
  <2> QED BY <1>2, <2>3 DEF Outcome, Final, Born, Written, Author
<1>3. CASE f.rule \in {"provision", "project", "validate"}
  <2>1. Head(f.todo) \in Stations
    BY <1>0, <1>3 DEF Final, Stations
  <2>2. PublishDispatch(f)
    BY <1>0, <2>1, ActKinds
  <2>3. UnderWay(Final(f.rule))'
    BY <1>0, <2>1, <2>2, Sends
  <2> QED BY <1>3, <2>3 DEF Outcome, Final
<1>4. CASE f.rule \in {"hand-off", "ask"}
  <2>1. Head(f.todo) = IF f.rule = "ask" THEN "park" ELSE "handoff"
    BY <1>0, <1>4 DEF Final
  <2>2. AddToRun(f)
    BY <1>0, <1>4, <2>1, ActKinds DEF Act, MovePhase, Marks, Kinds, Stations, Phases
  <2>3. IF f.rule = "ask" THEN run'.parked ELSE run'.handoff
    BY <1>0, <1>4, <2>1, <2>2 DEF AddToRun, RunState
  <2> QED BY <1>4, <2>3 DEF Outcome
<1> QED BY <1>1, <1>2, <1>3, <1>4 DEF Lasting, Slow

(* A dispatch on its way stays so until its handler is done with it.       *)
LEMMA UnderWayMoves ==
  ASSUME Typed, [Next]_vars, Unlost', ~Restart, NEW s \in Stations, UnderWay(s)
  PROVE  UnderWay(s)' \/ Finished(s) \/ GivesUp(s)
<1>1. CASE StandsBy(s) \/ Working(s)
  BY <1>1 DEF StandsBy, Working, UnderWay
<1>2. CASE Receives(s)
  BY <1>2, Sends DEF Receives
<1>3. CASE Takes(s)
  <2>1. job'[s].pc # "idle"
    BY <1>3 DEF Takes
  <2> QED BY <2>1 DEF UnderWay
<1> QED BY <1>1, <1>2, <1>3, StationMoves DEF Empties

LEMMA GivesUpMarks ==
  ASSUME Typed, Orderly, NEW s \in Stations, GivesUp(s)
  PROVE  IF s = "validation" THEN \E e \in Loops : Has(e, "authored") /\ Has(e, "failed")'
                             ELSE Marked("failed")'
<1>0. /\ job[s].on \in About(s) /\ run \in RunState /\ loop \in [Loops -> LoopState]
  BY DEF Orderly, StationTracks, GivesUp, Typed, TypeOK
<1>1. CASE s = "validation"
  <2>1. job[s].on \in Loops /\ job[s].on # Run /\ Has(job[s].on, "authored")
    BY <1>0, <1>1 DEF About, Loops, Run
  <2>2. loop' = [loop EXCEPT ![job[s].on].marks = loop[job[s].on].marks \cup {"failed"}]
    BY <2>1 DEF GivesUp, StampDispatchFailed
  <2>3. PICK e \in Loops : e = job[s].on
    BY <2>1
  <2>4. "failed" \in loop'[e].marks
    BY <1>0, <2>2, <2>3 DEF LoopState
  <2> QED BY <1>1, <2>1, <2>3, <2>4 DEF Has
<1>2. CASE s # "validation"
  <2>1. run' = [run EXCEPT !.marks = run.marks \cup {"failed"}]
    BY <1>0, <1>2 DEF About, GivesUp, StampDispatchFailed
  <2> QED BY <1>0, <1>2, <2>1 DEF RunState, Marked
<1> QED BY <1>1, <1>2

LEMMA SandboxLasts ==
  ASSUME Typed, Lineage, [Next]_vars, run.sandbox # "none" \/ StampSandbox
  PROVE  run'.sandbox # "none"
<1>1. CASE StampSandbox
  BY <1>1 DEF StampSandbox, Typed, TypeOK, RunState
<1>2. CASE ~StampSandbox
  BY <1>2, RunSteps DEF RunGrows
<1> QED BY <1>1, <1>2

LEMMA SpecStamped ==
  ASSUME Typed, Lineage, StampSpec PROVE run'.spec # 0
<1>1. job["projection"].doc # 0 /\ run'.spec = job["projection"].doc
  BY DEF Lineage, DocFacts, StampSpec, Typed, TypeOK, RunState
<1> QED BY <1>1

LEMMA VerdictStamped ==
  ASSUME Typed, Lineage, Orderly, AuthorOnce, Settled, [Next]_vars, Unlost',
         NEW e \in Loops, Has(e, "authored"), StampValidated
  PROVE  run'.validated # 0 \/ Refused'
<1> DEFINE j == job["validation"]
<1>1. /\ j.doc = run.doc /\ <<run.doc, j.ok>> \in judged /\ j.ok \in BOOLEAN
  BY DEF StampValidated, Settled, Typed, TypeOK, JobState, Stations
<1>2. run'.doc = run.doc /\ run.doc # 0
  BY AuthoredLast
<1>3. CASE j.ok
  BY <1>1, <1>2, <1>3 DEF StampValidated, Typed, TypeOK, RunState
<1>4. CASE ~j.ok
  <2>1. j.ok = FALSE
    BY <1>1, <1>4
  <2>2. <<run.doc, FALSE>> \in judged
    BY <1>1, <2>1
  <2> QED BY <1>2, <2>2, JudgedStays DEF Refused
<1> QED BY <1>3, <1>4

LEMMA VerdictStays ==
  ASSUME Typed, Lineage, Orderly, AuthorOnce, Settled, [Next]_vars, Unlost', ~Restart,
         NEW e \in Loops, Has(e, "authored"), Outcome("validate", e)
  PROVE  Outcome("validate", e)'
<1>0. Author(e) /\ loop[e].kind # "none" /\ run'.doc = run.doc
  BY AuthoredLast DEF Author
<1>1. StampValidated => run'.validated # 0 \/ Refused'
  BY VerdictStamped
<1>2. CASE UnderWay("validation")
  <2>1. CASE Finished("validation")
    <3>1. StampValidated
      BY <2>1 DEF Finished, Done
    <3> QED BY <1>1, <3>1 DEF Outcome
  <2>2. CASE GivesUp("validation")
    <3>1. PICK d \in Loops : Has(d, "authored") /\ Has(d, "failed")'
      BY <2>2, GivesUpMarks DEF Stations
    <3>2. d = e
      BY <1>0, <3>1, AuthoredLast DEF AuthorOnce
    <3> QED BY <3>1, <3>2 DEF Outcome
  <2>3. CASE UnderWay("validation")'
    BY <2>3 DEF Outcome
  <2> QED BY <1>2, <2>1, <2>2, <2>3, UnderWayMoves DEF Stations
<1>3. CASE Has(e, "failed")
  <2>1. Has(e, "failed")'
    BY <1>0, <1>3, Lives
  <2> QED BY <2>1 DEF Outcome
<1>4. CASE run.validated # 0
  <2>1. run'.validated # 0 \/ Refused'
    BY <1>1, <1>4, RunMoves
  <2> QED BY <2>1 DEF Outcome
<1>5. CASE Refused
  <2>1. Refused'
    BY <1>0, <1>5, JudgedStays DEF Refused
  <2> QED BY <2>1 DEF Outcome
<1> QED BY <1>2, <1>3, <1>4, <1>5 DEF Outcome

LEMMA OutcomeStays ==
  ASSUME Typed, Lineage, Orderly, AuthorOnce, Settled, [Next]_vars, Unlost', ~Restart,
         NEW r \in Lasting, NEW e, Started(r, e), Outcome(r, e)
  PROVE  Outcome(r, e)'
<1>0. RunGrows /\ <<r, e>> \in RuleOn
  BY RunSteps DEF Started
<1>1. CASE r = "mint"
  <2>1. e \in Loops /\ loop[e].kind # "none" /\ Has(e, "spawned")
    BY <1>1, FirstLoop DEF Started, Outcome, Lineage, LoopFacts
  <2>2. Has(e, "spawned")'
    BY <2>1, Lives
  <2> QED BY <1>1, <2>2 DEF Outcome
<1>2. CASE r \in {"develop", "kick-off"}
  BY <1>2, BornStays DEF Outcome
<1>3. CASE r = "author"
  BY <1>3, AuthorStays DEF Outcome, Written
<1>4. CASE r \in {"hand-off", "ask"}
  BY <1>0, <1>4, RunMoves DEF Outcome, RunGrows
<1>5. CASE r = "provision"
  <2>1. CASE UnderWay("provision")
    <3>1. CASE Finished("provision")
      <4>1. run'.sandbox # "none"
        BY <3>1, SandboxLasts DEF Finished, Done
      <4> QED BY <1>5, <4>1 DEF Outcome
    <3>2. CASE GivesUp("provision")
      <4>1. Marked("failed")'
        BY <3>2, GivesUpMarks DEF Stations
      <4> QED BY <1>5, <4>1 DEF Outcome
    <3>3. CASE UnderWay("provision")'
      BY <1>5, <3>3 DEF Outcome
    <3> QED BY <2>1, <3>1, <3>2, <3>3, UnderWayMoves DEF Stations
  <2>2. CASE run.sandbox # "none"
    <3>1. run'.sandbox # "none"
      BY <2>2, SandboxLasts
    <3> QED BY <1>5, <3>1 DEF Outcome
  <2>3. CASE Marked("failed")
    <3>1. Marked("failed")'
      BY <1>0, <2>3 DEF RunGrows, Marked
    <3> QED BY <1>5, <3>1 DEF Outcome
  <2> QED BY <1>5, <2>1, <2>2, <2>3 DEF Outcome
<1>6. CASE r = "project"
  <2>1. CASE UnderWay("projection")
    <3>1. CASE Finished("projection")
      <4>1. run'.spec # 0
        BY <3>1, SpecStamped DEF Finished, Done
      <4> QED BY <1>6, <4>1 DEF Outcome
    <3>2. CASE GivesUp("projection")
      <4>1. Marked("failed")'
        BY <3>2, GivesUpMarks DEF Stations
      <4> QED BY <1>6, <4>1 DEF Outcome
    <3>3. CASE UnderWay("projection")'
      BY <1>6, <3>3 DEF Outcome
    <3> QED BY <2>1, <3>1, <3>2, <3>3, UnderWayMoves DEF Stations
  <2>2. CASE run.spec # 0
    BY <1>0, <1>6, <2>2 DEF RunGrows, Outcome
  <2>3. CASE Marked("failed")
    <3>1. Marked("failed")'
      BY <1>0, <2>3 DEF RunGrows, Marked
    <3> QED BY <1>6, <3>1 DEF Outcome
  <2> QED BY <1>6, <2>1, <2>2, <2>3 DEF Outcome
<1>7. CASE r = "validate"
  <2>1. e \in Loops /\ e # Run /\ <<"validate", e>> \in matched
    BY <1>0, <1>7, RuleOnFacts DEF Started, LoopRules, Loops, Run
  <2>2. Has(e, "authored")
    BY <2>1 DEF Lineage, MatchedHolds, When, ValidateAuthored
  <2> QED BY <1>7, <2>1, <2>2, VerdictStays
<1> QED BY <1>1, <1>2, <1>3, <1>4, <1>5, <1>6, <1>7 DEF Lasting, Slow

LEMMA CarriedStep ==
  ASSUME Typed, Lineage, Orderly, AuthorOnce, Settled, Carried, [Next]_vars, Unlost', ~Restart
  PROVE  Carried'
<1>1. SUFFICES ASSUME NEW r \in Lasting, NEW e \in Loops \cup {Run}, Started(r, e)'
               PROVE  Due(r, e)' \/ Outcome(r, e)'
  BY DEF Carried
<1>2. SUFFICES ASSUME Started(r, e) PROVE Due(r, e)' \/ Outcome(r, e)'
  BY <1>1, StartedMoves
<1>3. CASE Outcome(r, e)
  BY <1>2, <1>3, OutcomeStays
<1>4. CASE Due(r, e)
  <2>1. ASSUME NEW f \in firing, f.rule = r, f.on = e, Finishes(f) PROVE Outcome(r, e)'
    <3>1. r = "author" => Has(e, "anchored")
      BY <1>2 DEF Started
    <3> QED BY <2>1, <3>1, FinishBrings
  <2> QED BY <1>4, <2>1, DueStays
<1> QED BY <1>2, <1>3, <1>4 DEF Carried

LEMMA StepRest ==
  Typed /\ Lineage /\ OnceInv("remembered") /\ OnceInv("marked") /\ RestInv /\ [Next]_vars
    => RestInv'
<1> SUFFICES ASSUME Typed, Lineage, OnceInv("remembered"), OnceInv("marked"), RestInv, [Next]_vars
             PROVE  RestInv'
  OBVIOUS
<1>1. /\ used'.forgot <= used'.restarts
      /\ Replayed' => Replayed /\ (Restart => matched' = {})
      /\ Calm' => Calm /\ ~Restart
      /\ Unlost' => Unlost
  BY WorldSteps, LossCounts DEF RestInv
<1>2. Unlost => Orderly /\ Once("marked")
  BY DEF RestInv, OnceInv, World, Unlost
<1>3. Unlost' => Orderly'
  BY <1>1, <1>2, OrderlyStep
<1>4. ASSUME Replayed' PROVE Recall'
  <2>1. Unlost' /\ Unlost /\ Recall
    BY <1>1, <1>4 DEF RestInv, Replayed
  <2> QED BY <1>1, <1>2, <1>4, <2>1, RecallStep
<1>5. ASSUME Calm' PROVE AuthorOnce' /\ Settled' /\ Carried'
  <2>1. Calm /\ ~Restart /\ Unlost' /\ Orderly /\ AuthorOnce /\ Settled /\ Carried
    BY <1>1, <1>2, <1>5 DEF RestInv, Calm
  <2>2. Single
    BY <1>2, <2>1 DEF Calm, Once
  <2> QED BY <2>1, <2>2, AuthorOnceStep, SettledStep, CarriedStep
<1> QED BY <1>1, <1>3, <1>4, <1>5 DEF RestInv

LEMMA InitRest == Init => RestInv
<1> SUFFICES ASSUME Init PROVE RestInv
  OBVIOUS
<1>0. /\ used.forgot = 0 /\ used.restarts = 0 /\ firing = {} /\ matched = {}
      /\ run.phase = "none" /\ run.decision = "none" /\ run.marks = {}
      /\ \A s \in Stations : queue[s] = <<>> /\ job[s].pc = "idle"
      /\ \A l \in Loops : /\ loop[l].marks = {} /\ loop[l].kind \in {"front", "none"}
                           /\ loop[l].pc \in {"working", "unborn"}
  BY DEF Init, NoJob, Spawned, Unborn
<1>1. Orderly
  <2>1. \A s \in Stations : queue[s] \in Seq(About(s))
    BY <1>0, EmptySeq
  <2>2. RunTracks
    BY <1>0, FirstLoop DEF RunTracks, Marked, Has
  <2>3. \A l \in Loops : LoopTracks(l)
    BY <1>0 DEF LoopTracks, Has
  <2> QED BY <1>0, <2>1, <2>2, <2>3 DEF Orderly, StationTracks
<1>2. AuthorOnce /\ Settled
  BY <1>0 DEF AuthorOnce, Written, Author, Settled, Stations
<1>3. Carried
  <2>1. \A e \in Loops : \A m : ~Has(e, m)
    BY <1>0 DEF Has
  <2>2. ASSUME NEW r \in Lasting, NEW e \in Loops \cup {Run}, Started(r, e) PROVE FALSE
    <3>1. r \in {"mint", "develop", "kick-off", "provision", "project"} /\ <<r, e>> \in RuleOn
      BY <1>0, <2>2 DEF Started, Lasting, Slow
    <3>2. e = Run => r # "mint"
      BY <2>2, FirstLoop DEF Started
    <3> QED BY <1>0, <2>1, <2>2, <3>1, <3>2, FirstLoop DEF Started, MarkedOn, Marked
  <2> QED BY <2>2 DEF Carried
<1> QED BY <1>0, <1>1, <1>2, <1>3 DEF RestInv, Recall

(* A run at rest.  Its rules are not due, so what is not slow is not       *)
(* matched and does not hold, and what started has its outcome.            *)
LEMMA RestRules ==
  ASSUME Quiet, Orderly, Recall
  PROVE  /\ \A r, e : <<r, e>> \in RuleOn /\ r \notin Slow => ~When(r, e)
         /\ \A r, e : ~Due(r, e)
         /\ \A r, e : <<r, e>> \in RuleOn /\ When(r, e) => <<r, e>> \in matched
<1>1. \A r, e : ~Due(r, e)
  BY DEF Quiet, Due
<1>2. ASSUME NEW r, NEW e, <<r, e>> \in RuleOn, When(r, e) PROVE <<r, e>> \in matched
  BY <1>2 DEF Quiet
<1>3. ASSUME NEW r, NEW e, <<r, e>> \in matched PROVE r \in Slow
  BY <1>1, <1>3 DEF Recall
<1> QED BY <1>1, <1>2, <1>3

LEMMA RuleSets ==
  /\ \A r \in LoopRules, l \in Loops : <<r, l>> \in RuleOn /\ l # Run
  /\ \A r \in RunRules : <<r, Run>> \in RuleOn
  BY DEF RuleOn, Loops, Run

(* Whatever the world, a run that was minted was anchored, and one at rest *)
(* has its reference.                                                      *)
LEMMA RestReference ==
  ASSUME Typed, Lineage, Quiet, Orderly, Recall, run.phase # "none"
  PROVE  Has(1, "anchored") /\ "issue" \in run.refs
<1>1. 1 \in Loops /\ 1 # Run /\ loop[1].decision = "issue_intake" /\ LoopFacts(1)
  BY FirstLoop DEF Orderly, RunTracks, Lineage
<1>2. Decided(1, "issue_intake")
  BY <1>1 DEF LoopFacts, Decided, Coordinators
<1>3. ~When("mint", 1) /\ ~When("stamp-ref", 1)
  BY <1>1, RestRules, RuleSets DEF LoopRules, Slow
<1>4. Has(1, "anchored")
  BY <1>1, <1>2, <1>3 DEF When, Mint
<1>5. Has(1, "stamped")
  BY <1>1, <1>2, <1>3, <1>4 DEF When, StampRef
<1> QED BY <1>4, <1>5 DEF Orderly, RunTracks

LEMMA SomeoneCounts ==
  ASSUME NEW k, Born(k) PROVE Count(k) > 0
<1> DEFINE S == {l \in Loops : loop[l].kind = k}
<1>1. S # {} /\ IsFiniteSet(S)
  <2>1. IsFiniteSet(Loops)
    BY FS_Interval, KickoffAssumption DEF Loops
  <2> QED BY <2>1, FS_Subset DEF Born
<1>2. Cardinality(S) \in Nat /\ Cardinality(S) # 0
  BY <1>1, FS_CardinalityType, FS_EmptySet
<1>3. \A n \in Nat : n # 0 => n > 0
  OBVIOUS
<1> QED BY <1>2, <1>3 DEF Count

(* A loop at rest that no loss ended has decided, or authored.             *)
LEMMA RestLoop ==
  ASSUME Typed, Lineage, Quiet, Orderly, NEW l \in Loops,
         loop[l].kind \in {"route", "dev"} \/ Author(l)
  PROVE  \/ loop[l].kind \in {"route", "dev"} /\ loop[l].decision \in Choices(loop[l].kind)
         \/ Has(l, "authored")
<1>1. loop[l].pc \in {"unborn", "working", "writing", "ended"} /\ LoopFacts(l) /\ LoopTracks(l)
  BY DEF Typed, TypeOK, LoopState, Lineage, Orderly
<1>2. Choices("route") # {} /\ Choices("dev") # {}
  BY KickoffAssumption DEF Choices
<1>3. loop[l].pc = "ended"
  <2>1. ~AtWork(l) /\ loop[l].pc # "unborn"
    BY <1>1 DEF Quiet, LoopFacts, Author
  <2> QED BY <1>1, <1>2, <2>1 DEF AtWork, Author
<1>4. loop[l].decision # "none" \/ Has(l, "authored")
  BY <1>1, <1>3 DEF LoopTracks
<1>5. Author(l) => loop[l].decision = "none"
  BY <1>1 DEF LoopFacts, Author, Choices
<1> QED BY <1>1, <1>4, <1>5 DEF LoopFacts

(* A loop that sends a developer has sent it.                              *)
LEMMA RestDevelop ==
  ASSUME Typed, Quiet, Orderly, Recall, Carried, NEW l \in Loops,
         loop[l].kind \in Coordinators, loop[l].decision = "dev_from_task", Has(l, "anchored")
  PROVE  Count("developer") > 0
<1>1. <<"develop", l>> \in RuleOn /\ l # Run /\ ~When("develop", l)
  BY RestRules, RuleSets DEF LoopRules, Slow
<1>2. Has(l, "dispatched")
  BY <1>1 DEF When, Develop, Decided
<1>3. Started("develop", l)
  BY <1>1, <1>2 DEF Started, MarkedOn, Mark
<1>4. Outcome("develop", l)
  BY <1>3, RestRules DEF Carried, Lasting
<1> QED BY <1>4, SomeoneCounts DEF Outcome

LEMMA RestAsk ==
  ASSUME Typed, Quiet, Orderly, Recall, Carried, NEW l \in Loops,
         loop[l].kind \in Coordinators, loop[l].decision = "ask_human", Has(l, "anchored")
  PROVE  run.parked
<1>1. <<"ask", l>> \in RuleOn /\ l # Run /\ When("ask", l)
  BY RuleSets DEF LoopRules, When, AskHuman, Decided
<1>2. Started("ask", l)
  BY <1>1, RestRules DEF Started
<1>3. Outcome("ask", l)
  BY <1>2, RestRules DEF Carried, Lasting, Slow
<1> QED BY <1>3 DEF Outcome

(* The first stretch: the router sent an author, whose change the oracle   *)
(* passed.                                                                 *)
LEMMA RestOffered ==
  ASSUME Typed, Lineage, Quiet, Orderly, Recall, Carried,
         Has(1, "anchored"), run.phase \in {"dispatched", "executing"}, run.decision = "none"
  PROVE  run.parked \/ Count("developer") > 0 \/ Refused \/ Misrouted
<1> SUFFICES ASSUME ~run.parked, ~(Count("developer") > 0), ~Refused, ~Misrouted PROVE FALSE
  OBVIOUS
<1>0. 1 \in Loops /\ 1 # Run
  BY FirstLoop
<1>1. Has(1, "spawned")
  <2>1. Started("mint", 1)
    BY <1>0, RuleSets DEF Started, LoopRules
  <2> QED BY <1>0, <2>1, RestRules DEF Carried, Outcome, Lasting
<1>2. run.handoff
  <2>1. When("hand-off", 1)
    BY <1>0, <1>1 DEF When, HandOff
  <2>2. Started("hand-off", 1)
    BY <1>0, <2>1, RestRules, RuleSets DEF Started, LoopRules
  <2> QED BY <1>0, <2>2, RestRules DEF Carried, Outcome, Lasting, Slow
<1>3. run.phase = "executing"
  <2>1. ~When("execute", Run)
    BY RestRules, RuleSets DEF RunRules, Slow
  <2> QED BY <1>2, <2>1 DEF When, Execute
<1>4. PICK l \in Loops : loop[l].kind = "route"
  BY <1>1 DEF Orderly, RunTracks, Born
<1>5. Has(l, "anchored") /\ LoopFacts(l) /\ loop[l].kind \in Coordinators
  BY <1>4 DEF Lineage, LoopFacts, Coordinators
<1>6. loop[l].decision \in Actions
  <2>1. ~Has(l, "authored")
    BY <1>4 DEF Orderly, LoopTracks, Author
  <2>2. loop[l].decision \in Choices("route")
    BY <1>4, <2>1, RestLoop
  <2> QED BY <2>2, KickoffAssumption DEF Choices
<1>7. loop[l].decision = "create_change"
  BY <1>4, <1>5, <1>6, RestDevelop, RestAsk DEF Actions, Misrouted
<1>8. Written
  <2>1. When("author", l)
    BY <1>5, <1>7, RuleSets DEF When, SpawnAuthor, Decided, LoopRules
  <2>2. Started("author", l)
    BY <1>5, <2>1, RestRules, RuleSets DEF Started, LoopRules
  <2> QED BY <2>2, RestRules DEF Carried, Outcome, Lasting, Slow
<1>9. PICK k \in Loops : Author(k)
  BY <1>8 DEF Written
<1>10. Has(k, "authored")
  BY <1>9, RestLoop DEF Author
<1>11. Outcome("validate", k)
  <2>1. When("validate", k)
    BY <1>10, RuleSets DEF When, ValidateAuthored, LoopRules
  <2>2. Started("validate", k)
    BY <2>1, RestRules, RuleSets DEF Started, LoopRules
  <2> QED BY <2>2, RestRules DEF Carried, Lasting, Slow
<1>12. ~Has(k, "failed")
  <2>1. ~When("failed-loop", k) /\ k # Run
    BY RestRules, RuleSets DEF LoopRules, Slow
  <2>2. ~Has(k, "park-routed")
    BY DEF Orderly, LoopTracks
  <2> QED BY <1>9, <2>1, <2>2 DEF When, StationFailedLoop, Author
<1>13. run.validated # 0
  BY <1>11, <1>12 DEF Outcome, UnderWay, Quiet, Stations
<1>14. ~When("offer", Run)
  BY RestRules, RuleSets DEF RunRules, Slow
<1> QED BY <1>3, <1>13, <1>14 DEF When, Offer

(* The second stretch: the approved tasks were frozen, a sandbox proved    *)
(* and a developer sent.                                                   *)
LEMMA RestApproved ==
  ASSUME Typed, Lineage, Quiet, Orderly, Recall, Carried,
         run.phase = "executing", run.decision = "approve"
  PROVE  run.parked \/ Count("developer") > 0
<1> SUFFICES ASSUME ~run.parked, ~(Count("developer") > 0) PROVE FALSE
  OBVIOUS
<1>0. /\ \A r \in RunRules : ~When(r, Run) /\ <<r, Run>> \in RuleOn
      /\ \A s \in Stations : ~UnderWay(s)
  BY RestRules, RuleSets DEF RunRules, Slow, Quiet, UnderWay
<1>1. Approved
  BY DEF Approved
<1>2. run.anchor
  BY <1>0, <1>1 DEF When, AnchorResumed, RunRules
<1>3. ~Marked("failed")
  <2>1. ~StationFailedRun
    BY <1>0 DEF When, RunRules
  <2> QED BY <2>1 DEF StationFailedRun, Orderly, RunTracks
<1>4. run.spec # 0
  <2>1. Marked("projected")
    BY <1>0, <1>1, <1>2 DEF When, Project, RunRules
  <2>2. Started("project", Run)
    BY <1>0, <2>1 DEF Started, RunRules
  <2>3. Outcome("project", Run)
    BY <2>2, RestRules DEF Carried, Lasting
  <2> QED BY <1>0, <1>3, <2>3 DEF Outcome, Stations
<1>5. run.sandbox # "none"
  <2>1. Marked("provisioned")
    BY <1>0, <1>1, <1>2, <1>4 DEF When, Provision, RunRules
  <2>2. Started("provision", Run)
    BY <1>0, <2>1 DEF Started, RunRules, MarkedOn, Mark
  <2>3. Outcome("provision", Run)
    BY <2>2, RestRules DEF Carried, Lasting
  <2> QED BY <1>0, <1>3, <2>3 DEF Outcome, Stations
<1>6. run.sandbox = "ready"
  <2>1. ~SandboxBlocked
    BY <1>0 DEF When, RunRules
  <2> QED BY <1>5, <2>1 DEF SandboxBlocked, Typed, TypeOK, RunState
<1>7. Born("dev")
  <2>1. Marked("kicked-off")
    BY <1>0, <1>1, <1>2, <1>4, <1>6 DEF When, KickOff, RunRules
  <2>2. Started("kick-off", Run)
    BY <1>0, <2>1 DEF Started, RunRules, MarkedOn, Mark
  <2> QED BY <2>2, RestRules DEF Carried, Outcome, Lasting
<1>8. PICK l \in Loops : loop[l].kind = "dev"
  BY <1>7 DEF Born
<1>9. Has(l, "anchored") /\ loop[l].kind \in Coordinators /\ ~Has(l, "authored")
  BY <1>8 DEF Orderly, LoopTracks, Author, Coordinators
<1>10. loop[l].decision \in {"dev_from_task", "ask_human"}
  BY <1>8, <1>9, RestLoop DEF Choices
<1> QED BY <1>9, <1>10, RestDevelop, RestAsk

LEMMA RestHasReason == Typed /\ Lineage /\ RestInv => QuietHasReason
<1> SUFFICES ASSUME Typed, Lineage, RestInv, Quiet, run.phase # "none"
             PROVE  /\ \/ Interrupted
                       \/ run.phase = "awaiting_approval" /\ run.decision = "none"
                       \/ run.phase = "cancelled" \/ run.parked \/ Count("developer") > 0
                       \/ Refused \/ Misrouted
                    /\ used.lost = 0 /\ used.restarts = used.forgot => "issue" \in run.refs
  BY DEF QuietHasReason
<1>1. Unlost /\ used.restarts = used.forgot => Has(1, "anchored") /\ "issue" \in run.refs
  BY RestReference DEF RestInv, Replayed
<1>2. CASE Interrupted
  BY <1>1, <1>2 DEF Unlost
<1>3. CASE ~Interrupted
  <2>1. used.lost = 0 /\ used.restarts = 0 /\ used.forgot = 0
    BY <1>3 DEF RestInv, Interrupted, Typed, TypeOK, Usage
  <2>2. Orderly /\ Recall /\ Carried /\ Has(1, "anchored")
    BY <1>1, <2>1 DEF RestInv, Unlost, Calm, Replayed
  <2>3. run.phase \in {"dispatched", "executing", "awaiting_approval", "cancelled"}
        /\ run.decision \in {"none", "approve", "reject"}
    BY DEF Typed, TypeOK, RunState, Phases
  <2>4. CASE run.phase = "awaiting_approval"
    <3>1. ~When("resume", Run) /\ ~When("cancel", Run)
      BY <2>2, RestRules, RuleSets DEF RunRules, Slow
    <3> QED BY <1>1, <2>1, <2>3, <2>4, <3>1 DEF When, Resume, Cancel, Unlost
  <2>5. CASE run.phase \in {"dispatched", "executing"} /\ run.decision = "none"
    BY <1>1, <2>1, <2>2, <2>5, RestOffered DEF Unlost
  <2>6. CASE run.phase = "executing" /\ run.decision = "approve"
    BY <1>1, <2>1, <2>2, <2>6, RestApproved DEF Unlost
  <2>7. run.phase \in {"dispatched", "executing"} =>
          run.decision = "none" \/ (run.phase = "executing" /\ run.decision = "approve")
    BY <2>2, <2>3 DEF Orderly, RunTracks
  <2> QED BY <1>1, <2>1, <2>3, <2>4, <2>5, <2>6, <2>7 DEF Unlost
<1> QED BY <1>2, <1>3

(* The arc has no dead end, for any number of loops: a run comes to rest   *)
(* only at its open gate, cancelled, parked, with its developer, with a    *)
(* change the oracle refused, or misrouted, unless an action was lost or   *)
(* the process died; and then too it has the reference of its issue, as    *)
(* long as the engine forgot its firings at every restart.                 *)
THEOREM RestingRunsHaveReason == Spec => []QuietHasReason
<1>1. Typed /\ Lineage /\ RestInv => QuietHasReason
  BY RestHasReason
<1> QED BY <1>1, AlwaysOnce, InitRest, StepRest, PTL DEF Spec

=============================================================================
