-------------------------- MODULE ClassifierLaneProofs --------------------------
(***************************************************************************)
(* Proofs about ClassifierLane, for every set of messages and loops, every *)
(* budget and every bound: the type invariant, and that at most one        *)
(* classifier is in flight.                                                *)
(***************************************************************************)
EXTENDS ClassifierLane, FiniteSetTheorems, TLAPS

(* A write to the run can only make the engine forget a match.             *)
LEMMA RuleStateShrinks == RuleState => seen' \subseteq seen
  BY DEF RuleState

(* A fault spends the bound it was allowed.                                *)
LEMMA FaultSpends ==
  ASSUME used \in Usage, Fault
  PROVE  /\ used' \in Usage
         /\ used'.faults # 0
         /\ used'.losses = used.losses /\ used'.again = used.again
  BY DEF Fault, Usage

LEMMA RepeatSpends ==
  ASSUME used \in Usage, NEW m \in Messages, Repeat(m)
  PROVE  /\ used' \in Usage
         /\ used'.faults = used.faults /\ used'.losses = used.losses
         /\ used'.again[m] = used.again[m] + 1
         /\ \A k \in Messages : k # m => used'.again[k] = used.again[k]
<1> DEFINE a == [used.again EXCEPT ![m] = @ + 1]
           n == used.repeats + 1
<1>1. a \in [Messages -> Nat] /\ a[m] = used.again[m] + 1
      /\ \A k \in Messages : k # m => a[k] = used.again[k]
  BY DEF Usage
<1>2. n \in Nat
  BY DEF Usage
<1>3. used' = [used EXCEPT !.repeats = n, !.again = a]
  BY Zenon DEF Repeat
<1> HIDE DEF a, n
<1>4. used' = [repeats |-> n, again |-> a, faults |-> used.faults, losses |-> used.losses]
  BY <1>3 DEF Usage
<1> QED BY <1>1, <1>2, <1>4 DEF Usage

LEMMA BoundSpent ==
  ASSUME used \in Usage
  PROVE  [used EXCEPT !.losses = @ + 1] \in Usage
  BY DEF Usage

LEMMA NoMsgTyped == NoMsg \in MsgOrNone /\ Messages \subseteq MsgOrNone
  BY DEF MsgOrNone

LEMMA LoopStepsListed ==
  LoopSteps = {"unborn", "running", "ended", "released", "bound", "ledger", "stamp",
               "mirror", "relBody", "relId", "relMarker"}
  BY DEF LoopSteps, ToolSteps, ReleaseSteps

LEMMA LoopWrite ==
  ASSUME loop \in [Loops -> LoopState], NEW l \in Loops, NEW r \in LoopState
  PROVE  [loop EXCEPT ![l] = r] \in [Loops -> LoopState]
  OBVIOUS

LEMMA LoopTyped == TypeOK => \A l \in Loops : loop[l] \in LoopState
  BY DEF TypeOK

(* Every reachable state of the lane is well-typed, whatever its rules,    *)
(* handlers and classifiers interleave and whatever fails.                 *)
LEMMA InitType == Init => TypeOK
<1> SUFFICES ASSUME Init PROVE TypeOK
  OBVIOUS
<1> USE NoMsgTyped
<1>1. Unborn \in LoopState
  BY LoopStepsListed DEF Unborn, LoopState
<1>2. loop \in [Loops -> LoopState]
  BY <1>1 DEF Init
<1>3. intent \in [value : Readings \cup {""}, msg : MsgOrNone, author : MsgOrNone]
  BY DEF Init
<1>4. slot \in [id : MsgOrNone, author : MsgOrNone, body : MsgOrNone]
  BY DEF Init, EmptySlot
<1>5. /\ spawn \in [pc : {"idle", "mark", "count", "publish"}, id : MsgOrNone, body : MsgOrNone]
      /\ budget \in [pc : {"idle", "mark", "publish"}, id : MsgOrNone, body : MsgOrNone]
  BY DEF Init, NoFiring
<1>6. used \in Usage
  BY DEF Init, Usage
<1> QED
  BY <1>2, <1>3, <1>4, <1>5, <1>6 DEF Init, TypeOK

LEMMA GateType == TypeOK /\ GateNext => TypeOK'
<1> SUFFICES ASSUME TypeOK, GateNext PROVE TypeOK'
  OBVIOUS
<1> USE RuleStateShrinks DEF TypeOK, runVars, intentVars, ruleVars
<1>1. CASE GateOpens
  BY <1>1 DEF GateOpens
<1>2. CASE AnchorGatedRun
  BY <1>2 DEF AnchorGatedRun
<1>3. CASE GateLeft
  BY <1>3 DEF GateLeft
<1>4. ASSUME NEW d \in Directives, GateDecided(d) PROVE TypeOK'
  BY <1>4 DEF GateDecided
<1> QED BY <1>1, <1>2, <1>3, <1>4 DEF GateNext

LEMMA BridgeType == TypeOK /\ BridgeNext => TypeOK'
<1> SUFFICES ASSUME TypeOK, NEW m \in Messages,
                    \/ BridgeGuards(m) \/ BridgeLedger(m) \/ BridgeStamp(m)
                    \/ BridgeError(m) \/ BridgeRepeat(m)
             PROVE  TypeOK'
  BY DEF BridgeNext
<1> USE NoMsgTyped DEF TypeOK, gateVars, runVars, intentVars, ruleVars
<1>1. CASE BridgeGuards(m)
  BY <1>1 DEF BridgeGuards
<1>2. CASE BridgeLedger(m)
  BY <1>2 DEF BridgeLedger
<1>3. CASE BridgeStamp(m)
  BY <1>3, RuleStateShrinks DEF BridgeStamp
<1>4. CASE BridgeError(m)
  BY <1>4 DEF BridgeError
<1>5. CASE BridgeRepeat(m)
  <2>1. used' \in Usage
    BY <1>5, RepeatSpends DEF BridgeRepeat, TypeOK
  <2> QED BY <1>5, <2>1 DEF BridgeRepeat
<1> QED BY <1>1, <1>2, <1>3, <1>4, <1>5

LEMMA SpawnType == TypeOK /\ SpawnNext => TypeOK'
<1> SUFFICES ASSUME TypeOK, SpawnNext PROVE TypeOK'
  OBVIOUS
<1> USE NoMsgTyped DEF gateVars, runVars, intentVars
<1>1. CASE SpawnEvaluate
  BY <1>1 DEF SpawnEvaluate, TypeOK
<1>2. CASE SpawnMark
  BY <1>2, RuleStateShrinks, FaultSpends DEF SpawnMark, TypeOK
<1>3. CASE SpawnCount
  <2>1. used' \in Usage
    BY <1>3, FaultSpends DEF SpawnCount, TypeOK
  <2>2. spawn.id \in MsgOrNone /\ attempted \subseteq MsgOrNone
    BY DEF TypeOK
  <2>3. attempted' \subseteq MsgOrNone
    BY <1>3, <2>2 DEF SpawnCount
  <2> QED BY <1>3, <2>1, <2>3, RuleStateShrinks DEF SpawnCount, TypeOK
<1>4. ASSUME NEW l \in Loops, SpawnPublish(l) PROVE TypeOK'
  <2>1. [loop[l] EXCEPT !.pc = "running", !.prompt = spawn.body] \in LoopState
    <3>1. loop[l] \in LoopState /\ spawn.body \in MsgOrNone
      BY DEF TypeOK
    <3> QED BY <3>1, LoopStepsListed DEF LoopState
  <2>2. loop' \in [Loops -> LoopState]
    BY <1>4, <2>1, LoopWrite DEF SpawnPublish, TypeOK
  <2>3. used' \in Usage
    BY <1>4, FaultSpends DEF SpawnPublish, TypeOK
  <2> QED BY <1>4, <2>2, <2>3 DEF SpawnPublish, NoFiring, TypeOK
<1> QED BY <1>1, <1>2, <1>3, <1>4 DEF SpawnNext

LEMMA BudgetType == TypeOK /\ BudgetNext => TypeOK'
<1> SUFFICES ASSUME TypeOK, BudgetNext PROVE TypeOK'
  OBVIOUS
<1> USE NoMsgTyped DEF TypeOK, gateVars, runVars, intentVars
<1>1. CASE BudgetEvaluate
  BY <1>1 DEF BudgetEvaluate
<1>2. CASE BudgetMark
  BY <1>2, RuleStateShrinks, FaultSpends DEF BudgetMark
<1>3. CASE BudgetPublish
  BY <1>3 DEF BudgetPublish, NoFiring
<1> QED BY <1>1, <1>2, <1>3 DEF BudgetNext

LEMMA ToolType == \A l \in Loops : TypeOK /\ ToolNext(l) => TypeOK'
<1> SUFFICES ASSUME TypeOK, NEW l \in Loops, ToolNext(l) PROVE TypeOK'
  OBVIOUS
<1>0. /\ loop \in [Loops -> LoopState] /\ loop[l] \in LoopState
      /\ slot.id \in MsgOrNone /\ slot.author \in MsgOrNone
      /\ loop[l].id \in MsgOrNone /\ loop[l].author \in MsgOrNone
      /\ loop[l].ledger \subseteq MsgOrNone /\ classified \subseteq MsgOrNone
  BY DEF TypeOK, LoopState
<1> USE DEF gateVars, runVars, intentVars, ruleVars
<1>1. CASE ReadPending(l)
  <2>1. [loop[l] EXCEPT !.pc = "bound", !.id = slot.id, !.author = slot.author] \in LoopState
    BY <1>0, LoopStepsListed DEF LoopState
  <2>2. loop' \in [Loops -> LoopState]
    BY <1>0, <1>1, <2>1, LoopWrite DEF ReadPending
  <2> QED BY <1>1, <2>2 DEF ReadPending, TypeOK
<1>2. CASE ReadDispatched(l)
  <2>1. \A pc \in {"ledger", "running"} : [loop[l] EXCEPT !.pc = pc] \in LoopState
    BY <1>0, LoopStepsListed DEF LoopState
  <2>2. loop' \in [Loops -> LoopState]
    BY <1>0, <1>2, <2>1, LoopWrite DEF ReadDispatched
  <2> QED BY <1>2, <2>2 DEF ReadDispatched, TypeOK
<1>3. CASE ReadLedger(l)
  <2>1. [loop[l] EXCEPT !.pc = "stamp", !.ledger = classified \cup {loop[l].id}] \in LoopState
    BY <1>0, LoopStepsListed DEF LoopState
  <2>2. loop' \in [Loops -> LoopState]
    BY <1>0, <1>3, <2>1, LoopWrite DEF ReadLedger
  <2> QED BY <1>3, <2>2 DEF ReadLedger, TypeOK
<1>4. ASSUME NEW v \in Readings, StampIntent(l, v) PROVE TypeOK'
  <2>1. [loop[l] EXCEPT !.pc = "mirror"] \in LoopState
    BY <1>0, LoopStepsListed DEF LoopState
  <2>2. loop' \in [Loops -> LoopState]
    BY <1>0, <1>4, <2>1, LoopWrite DEF StampIntent
  <2>3. /\ intent' \in [value : Readings \cup {""}, msg : MsgOrNone, author : MsgOrNone]
        /\ classified' \subseteq MsgOrNone
    BY <1>0, <1>4 DEF StampIntent
  <2> QED BY <1>4, <2>2, <2>3 DEF StampIntent, TypeOK
<1>5. CASE MirrorRecorded(l)
  <2>1. /\ [loop[l] EXCEPT !.pc = "ended", !.recorded = TRUE, !.outcome = "finished"] \in LoopState
        /\ [loop[l] EXCEPT !.pc = "running"] \in LoopState
    BY <1>0, LoopStepsListed DEF LoopState, Outcomes
  <2>2. loop' \in [Loops -> LoopState]
    BY <1>0, <1>5, <2>1, LoopWrite DEF MirrorRecorded
  <2>3. used' \in Usage
    BY <1>5, FaultSpends DEF MirrorRecorded, TypeOK
  <2> QED BY <1>5, <2>2, <2>3 DEF MirrorRecorded, TypeOK
<1> QED BY <1>1, <1>2, <1>3, <1>4, <1>5 DEF ToolNext

LEMMA EndType == \A l \in Loops : TypeOK /\ EndNext(l) => TypeOK'
<1> SUFFICES ASSUME TypeOK, NEW l \in Loops, NEW o \in Outcomes, EndLoop(l, o) PROVE TypeOK'
  BY DEF EndNext
<1>1. [loop[l] EXCEPT !.pc = "ended", !.outcome = o] \in LoopState
  BY LoopTyped, LoopStepsListed DEF LoopState
<1>2. loop' \in [Loops -> LoopState]
  BY <1>1, LoopWrite DEF EndLoop, TypeOK
<1> QED BY <1>2 DEF EndLoop, TypeOK, gateVars, runVars, intentVars, ruleVars

LEMMA RemoveType ==
  ASSUME TypeOK, NEW l \in Loops, NEW from, NEW to \in LoopSteps,
         NEW rest \in [id : MsgOrNone, author : MsgOrNone, body : MsgOrNone],
         Remove(l, from, to, rest)
  PROVE  TypeOK'
<1>1. loop[l] \in LoopState /\ slot.id \in MsgOrNone /\ loop[l].wiped \in MsgOrNone
  BY DEF TypeOK, LoopState
<1>2. \A w \in MsgOrNone : [loop[l] EXCEPT !.pc = to, !.wiped = w] \in LoopState
  BY <1>1 DEF LoopState
<1>3. [loop[l] EXCEPT !.pc = to] \in LoopState
  BY <1>1 DEF LoopState
<1>4. loop' \in [Loops -> LoopState]
  <2>1. loop \in [Loops -> LoopState]
    BY DEF TypeOK
  <2>2. CASE loop' = [loop EXCEPT ![l].pc = to]
    BY <1>3, <2>1, <2>2, LoopWrite
  <2>3. CASE loop' = [loop EXCEPT ![l].pc = to, ![l].wiped = IF rest.id = NoMsg THEN slot.id ELSE @]
    <3>1. (IF rest.id = NoMsg THEN slot.id ELSE loop[l].wiped) \in MsgOrNone
      BY <1>1
    <3> QED BY <1>2, <2>1, <2>3, <3>1, LoopWrite
  <2> QED BY <2>2, <2>3 DEF Remove
<1>5. used' \in Usage
  BY FaultSpends DEF Remove, TypeOK
<1> QED BY <1>4, <1>5, RuleStateShrinks DEF Remove, TypeOK, gateVars, intentVars, ruleVars

LEMMA ReleaseType == \A l \in Loops : TypeOK /\ ReleaseNext(l) => TypeOK'
<1> SUFFICES ASSUME TypeOK, NEW l \in Loops, ReleaseNext(l) PROVE TypeOK'
  OBVIOUS
<1>0. {"relBody", "relId", "relMarker"} \subseteq LoopSteps
  BY LoopStepsListed
<1> DEFINE Slots == [id : MsgOrNone, author : MsgOrNone, body : MsgOrNone]
<1>1. /\ [slot EXCEPT !.author = NoMsg] \in Slots
      /\ [slot EXCEPT !.body = NoMsg] \in Slots
      /\ [slot EXCEPT !.id = NoMsg] \in Slots
  BY NoMsgTyped DEF TypeOK
<1>2. CASE ReleaseAuthor(l)
  BY <1>0, <1>1, <1>2, RemoveType DEF ReleaseAuthor
<1>3. CASE ReleaseBody(l)
  BY <1>0, <1>1, <1>3, RemoveType DEF ReleaseBody
<1>4. CASE ReleaseId(l)
  BY <1>0, <1>1, <1>4, RemoveType DEF ReleaseId
<1>5. CASE ReleaseMarker(l)
  <2>1. [loop[l] EXCEPT !.pc = "released"] \in LoopState
    BY LoopTyped, LoopStepsListed DEF LoopState
  <2>2. loop' \in [Loops -> LoopState]
    BY <1>5, <2>1, LoopWrite DEF ReleaseMarker, TypeOK
  <2>3. used' \in Usage
    BY <1>5, FaultSpends DEF ReleaseMarker, TypeOK
  <2> QED BY <1>5, <2>2, <2>3, NoMsgTyped, RuleStateShrinks
          DEF ReleaseMarker, TypeOK, gateVars, intentVars, ruleVars
<1> QED BY <1>2, <1>3, <1>4, <1>5 DEF ReleaseNext

LEMMA NoteType == \A l \in Loops : TypeOK /\ FaultNote(l) => TypeOK'
<1> SUFFICES ASSUME TypeOK, NEW l \in Loops, FaultNote(l) PROVE TypeOK'
  OBVIOUS
<1>1. [loop[l] EXCEPT !.noted = TRUE] \in LoopState
  BY LoopTyped DEF LoopState
<1>2. loop' \in [Loops -> LoopState]
  BY <1>1, LoopWrite DEF FaultNote, TypeOK
<1> QED BY <1>2 DEF FaultNote, TypeOK, gateVars, runVars, intentVars, ruleVars

LEMMA LossType == TypeOK /\ LoseRuleState => TypeOK'
<1> SUFFICES ASSUME TypeOK, LoseRuleState PROVE TypeOK'
  OBVIOUS
<1>1. \A l \in Loops : [loop[l] EXCEPT !.pc = "ended", !.noted = FALSE] \in LoopState
  BY LoopTyped, LoopStepsListed DEF LoopState
<1>2. loop' \in [Loops -> LoopState]
  BY <1>1, LoopTyped DEF LoseRuleState
<1>3. used' \in Usage
  BY BoundSpent DEF LoseRuleState, TypeOK
<1>4. NoFiring \in [pc : {"idle"}, id : MsgOrNone, body : MsgOrNone]
  BY NoMsgTyped DEF NoFiring
<1> QED BY <1>2, <1>3, <1>4 DEF LoseRuleState, TypeOK, gateVars, runVars, intentVars

LEMMA StepType == TypeOK /\ [Next]_vars => TypeOK'
<1>1. TypeOK /\ UNCHANGED vars => TypeOK'
  BY DEF TypeOK, vars, gateVars, runVars, intentVars, ruleVars
<1> QED
  BY <1>1, GateType, BridgeType, SpawnType, BudgetType, ToolType, EndType, ReleaseType,
     NoteType, LossType DEF Next

(* The type invariant of the lane.                                         *)
THEOREM TypeCorrect == Spec => []TypeOK
  BY InitType, StepType, PTL DEF Spec

-----------------------------------------------------------------------------
(* OneClassifierInFlight is not inductive by itself: what keeps a second   *)
(* classifier out is the marker, so the marker must be shown present from  *)
(* the moment it is added until the release of the loop it was added for.  *)

InFlightInv ==
  Faultless =>
    /\ \A k, l \in Loops : Live(k) /\ Live(l) => k = l
    /\ spawn.pc # "idle" => \A l \in Loops : ~Live(l)
    /\ spawn.pc = "mark" => spawn.id # NoMsg
    /\ Spawning => marker # NoMsg
    /\ (\E l \in Loops : Live(l)) => marker # NoMsg

LEMMA InitInFlight == Init => InFlightInv
<1> SUFFICES ASSUME Init PROVE InFlightInv
  OBVIOUS
<1>1. \A l \in Loops : loop[l].pc = "unborn"
  BY DEF Init, Unborn
<1>2. spawn.pc = "idle"
  BY DEF Init, NoFiring
<1> QED
  BY <1>1, <1>2 DEF InFlightInv, Live, Spawning

(* A step that neither spawns, marks, releases nor gives birth.            *)
LEMMA InFlightFrame ==
  ASSUME InFlightInv, UNCHANGED <<spawn, marker>>, Faultless' => Faultless,
         \A l \in Loops : Live(l)' => Live(l)
  PROVE  InFlightInv'
  BY DEF InFlightInv, Spawning

(* Every step inside a classifier's life leaves it alive.                  *)
LEMMA LifeStep ==
  ASSUME TypeOK, NEW l \in Loops, loop[l].pc \notin {"unborn", "released"},
         NEW r, loop' = [loop EXCEPT ![l] = r]
  PROVE  \A k \in Loops : Live(k)' => Live(k)
<1>1. \A k \in Loops : k # l => loop'[k] = loop[k]
  BY DEF TypeOK
<1> QED
  BY <1>1 DEF Live

LEMMA GateInFlight == InFlightInv /\ GateNext => InFlightInv'
<1> SUFFICES ASSUME InFlightInv, GateNext PROVE InFlightInv'
  OBVIOUS
<1>1. UNCHANGED <<spawn, marker, loop, used>>
  BY DEF GateNext, GateOpens, AnchorGatedRun, GateLeft, GateDecided, runVars, ruleVars
<1> QED
  BY <1>1, InFlightFrame DEF Faultless, Live

LEMMA BridgeInFlight == TypeOK /\ InFlightInv /\ BridgeNext => InFlightInv'
<1> SUFFICES ASSUME TypeOK, InFlightInv, BridgeNext PROVE InFlightInv'
  OBVIOUS
<1>1. UNCHANGED <<spawn, marker, loop>>
  BY DEF BridgeNext, BridgeGuards, BridgeLedger, BridgeStamp, BridgeError, BridgeRepeat,
         runVars, ruleVars
<1>2. used'.faults = used.faults /\ used'.losses = used.losses
  BY RepeatSpends DEF BridgeNext, BridgeGuards, BridgeLedger, BridgeStamp, BridgeError, BridgeRepeat, TypeOK
<1> QED
  BY <1>1, <1>2, InFlightFrame DEF Faultless, Live

LEMMA BudgetInFlight == TypeOK /\ InFlightInv /\ BudgetNext => InFlightInv'
<1> SUFFICES ASSUME TypeOK, InFlightInv, BudgetNext PROVE InFlightInv'
  OBVIOUS
<1>1. UNCHANGED <<spawn, marker, loop>>
  BY DEF BudgetNext, BudgetEvaluate, BudgetMark, BudgetPublish, runVars
<1>2. Faultless' => Faultless
  BY FaultSpends DEF BudgetNext, BudgetEvaluate, BudgetMark, BudgetPublish, Faultless, TypeOK
<1> QED
  BY <1>1, <1>2, InFlightFrame DEF Live

LEMMA SpawnInFlight == TypeOK /\ InFlightInv /\ SpawnNext => InFlightInv'
<1> SUFFICES ASSUME TypeOK, InFlightInv, SpawnNext PROVE InFlightInv'
  OBVIOUS
<1> USE DEF runVars
<1>1. CASE SpawnEvaluate
  <2>1. marker = NoMsg /\ slot.id # NoMsg /\ UNCHANGED <<marker, loop, used>>
    BY <1>1 DEF SpawnEvaluate, SpawnWhen
  <2>2. spawn'.pc = "mark" /\ spawn'.id = slot.id
    BY <1>1 DEF SpawnEvaluate
  <2> QED BY <2>1, <2>2 DEF InFlightInv, Faultless, Live, Spawning
<1>2. CASE SpawnMark
  <2>1. loop' = loop /\ spawn.pc = "mark" /\ spawn'.pc = "count"
    BY <1>2 DEF SpawnMark, TypeOK
  <2>2. Faultless' => Faultless /\ marker' = spawn.id
    BY <1>2, FaultSpends DEF SpawnMark, Faultless, TypeOK
  <2> QED BY <2>1, <2>2 DEF InFlightInv, Live, Spawning
<1>3. CASE SpawnCount
  <2>1. loop' = loop /\ marker' = marker /\ spawn.pc = "count" /\ spawn'.pc = "publish"
    BY <1>3 DEF SpawnCount, TypeOK
  <2>2. Faultless' => Faultless
    BY <1>3, FaultSpends DEF SpawnCount, Faultless, TypeOK
  <2> QED BY <2>1, <2>2 DEF InFlightInv, Live, Spawning
<1>4. ASSUME NEW l \in Loops, SpawnPublish(l) PROVE InFlightInv'
  <2>1. marker' = marker /\ spawn.pc = "publish" /\ spawn'.pc = "idle"
    BY <1>4 DEF SpawnPublish, NoFiring
  <2>2. \A k \in Loops : k # l => loop'[k] = loop[k]
    BY <1>4 DEF SpawnPublish, TypeOK
  <2>3. Faultless' => Faultless
    BY <1>4, FaultSpends DEF SpawnPublish, Faultless, TypeOK
  <2> QED BY <2>1, <2>2, <2>3 DEF InFlightInv, Live, Spawning
<1> QED BY <1>1, <1>2, <1>3, <1>4 DEF SpawnNext

LEMMA LoopInFlight ==
  \A l \in Loops : TypeOK /\ InFlightInv /\ (ToolNext(l) \/ EndNext(l) \/ FaultNote(l))
                     => InFlightInv'
<1> SUFFICES ASSUME TypeOK, InFlightInv, NEW l \in Loops,
                    ToolNext(l) \/ EndNext(l) \/ FaultNote(l)
             PROVE  InFlightInv'
  OBVIOUS
<1> USE DEF ToolNext, ReadPending, ReadDispatched, ReadLedger, StampIntent, MirrorRecorded,
            EndNext, EndLoop
<1>1. UNCHANGED <<spawn, marker>>
  BY DEF FaultNote, runVars, ruleVars
<1>2. Faultless' => Faultless
  BY FaultSpends DEF FaultNote, Faultless, TypeOK
<1>3. CASE ToolNext(l) \/ EndNext(l)
  <2>1. \E r : loop' = [loop EXCEPT ![l] = r]
    BY <1>3
  <2>2. loop[l].pc \notin {"unborn", "released"}
    BY <1>3
  <2> QED BY <1>1, <1>2, <2>1, <2>2, LifeStep, InFlightFrame
<1>4. CASE FaultNote(l)
  <2>1. \A k \in Loops : loop'[k].pc = loop[k].pc
    BY <1>4 DEF FaultNote, TypeOK, LoopState
  <2> QED BY <1>1, <1>2, <2>1, InFlightFrame DEF Live
<1> QED BY <1>3, <1>4

LEMMA ReleaseInFlight == \A l \in Loops : TypeOK /\ InFlightInv /\ ReleaseNext(l) => InFlightInv'
<1> SUFFICES ASSUME TypeOK, InFlightInv, NEW l \in Loops, ReleaseNext(l) PROVE InFlightInv'
  OBVIOUS
<1>1. CASE ReleaseMarker(l)
  <2>1. Live(l) /\ spawn' = spawn /\ loop' = [loop EXCEPT ![l].pc = "released"]
    BY <1>1 DEF ReleaseMarker, Live, ruleVars
  <2>2. \A k \in Loops : k # l => loop'[k] = loop[k]
    BY <2>1 DEF TypeOK
  <2>3. loop'[l].pc = "released"
    BY <2>1, LoopTyped DEF TypeOK, LoopState
  <2>4. Faultless' => Faultless
    BY <1>1, FaultSpends DEF ReleaseMarker, Faultless, TypeOK
  <2>5. Faultless' => \A k \in Loops : ~Live(k)'
    BY <2>1, <2>2, <2>3, <2>4 DEF InFlightInv, Live
  <2>6. Faultless' => spawn'.pc = "idle"
    BY <2>1, <2>4 DEF InFlightInv
  <2> QED BY <2>5, <2>6 DEF InFlightInv, Spawning
<1>2. CASE ReleaseAuthor(l) \/ ReleaseBody(l) \/ ReleaseId(l)
  <2>1. UNCHANGED <<spawn, marker>>
    BY <1>2 DEF ReleaseAuthor, ReleaseBody, ReleaseId, Remove, ruleVars
  <2>2. Faultless' => Faultless
    BY <1>2, FaultSpends DEF ReleaseAuthor, ReleaseBody, ReleaseId, Remove, Faultless, TypeOK
  <2>3. \E r : loop' = [loop EXCEPT ![l] = r]
    BY <1>2 DEF ReleaseAuthor, ReleaseBody, ReleaseId, Remove
  <2>4. loop[l].pc \notin {"unborn", "released"}
    BY <1>2 DEF ReleaseAuthor, ReleaseBody, ReleaseId, Remove
  <2> QED BY <2>1, <2>2, <2>3, <2>4, LifeStep, InFlightFrame
<1> QED BY <1>1, <1>2 DEF ReleaseNext

LEMMA LossInFlight == TypeOK /\ LoseRuleState => InFlightInv'
<1> SUFFICES ASSUME TypeOK, LoseRuleState PROVE InFlightInv'
  OBVIOUS
<1>1. used.losses \in Nat /\ used'.losses = used.losses + 1
  BY DEF LoseRuleState, TypeOK, Usage
<1> QED BY <1>1 DEF InFlightInv, Faultless

LEMMA StepInFlight == TypeOK /\ InFlightInv /\ [Next]_vars => InFlightInv'
<1>1. InFlightInv /\ UNCHANGED vars => InFlightInv'
  BY DEF InFlightInv, Faultless, Live, Spawning, vars, runVars, ruleVars
<1> QED
  BY <1>1, GateInFlight, BridgeInFlight, SpawnInFlight, BudgetInFlight, LoopInFlight,
     ReleaseInFlight, LossInFlight DEF Next

(* As long as no rule action has failed and the engine has kept its        *)
(* RULE_STATE, no second classifier is ever dispatched beside a live one.  *)
THEOREM NeverTwoClassifiers == Spec => []OneClassifierInFlight
<1>1. InFlightInv => OneClassifierInFlight
  BY DEF InFlightInv, OneClassifierInFlight
<1> QED
  BY <1>1, InitType, StepType, InitInFlight, StepInFlight, PTL DEF Spec

-----------------------------------------------------------------------------
(* The classified ledger.  A stamp replaces it by what the loop read, so   *)
(* it loses nothing only if nobody stamped since that read: the invariant  *)
(* says so of every loop about to stamp, and rests on there being one.     *)

LedgerInv ==
  Faultless => \A l \in Loops : loop[l].pc = "stamp" => classified \subseteq loop[l].ledger

(* A step that lets no loop reach its stamp and leaves the ledger alone.   *)
LEMMA LedgerFrame ==
  ASSUME LedgerInv, Faultless' => Faultless, classified' = classified,
         \A l \in Loops : loop'[l].pc = "stamp" => loop'[l] = loop[l]
  PROVE  LedgerInv'
  BY DEF LedgerInv

LEMMA LedgerFrameLoop ==
  ASSUME TypeOK, LedgerInv, Faultless' => Faultless, classified' = classified,
         NEW l \in Loops, NEW r, loop' = [loop EXCEPT ![l] = r], r.pc # "stamp"
  PROVE  LedgerInv'
<1>1. \A k \in Loops : k # l => loop'[k] = loop[k]
  BY DEF TypeOK
<1>2. loop'[l] = r
  BY DEF TypeOK
<1> QED
  BY <1>1, <1>2, LedgerFrame

LEMMA RunLedger ==
  TypeOK /\ LedgerInv /\ (GateNext \/ BridgeNext \/ BudgetNext) => LedgerInv'
<1> SUFFICES ASSUME TypeOK, LedgerInv, GateNext \/ BridgeNext \/ BudgetNext PROVE LedgerInv'
  OBVIOUS
<1> USE DEF intentVars
<1>1. CASE GateNext
  <2>1. UNCHANGED <<loop, classified, used>>
    BY <1>1 DEF GateNext, GateOpens, AnchorGatedRun, GateLeft, GateDecided
  <2> QED BY <2>1, LedgerFrame DEF Faultless
<1>2. CASE BridgeNext
  <2>1. UNCHANGED <<loop, classified>>
    BY <1>2 DEF BridgeNext, BridgeGuards, BridgeLedger, BridgeStamp, BridgeError, BridgeRepeat
  <2>2. used'.faults = used.faults /\ used'.losses = used.losses
    BY <1>2, RepeatSpends DEF BridgeNext, BridgeGuards, BridgeLedger, BridgeStamp, BridgeError,
       BridgeRepeat, TypeOK
  <2> QED BY <2>1, <2>2, LedgerFrame DEF Faultless
<1>3. CASE BudgetNext
  <2>1. UNCHANGED <<loop, classified>>
    BY <1>3 DEF BudgetNext, BudgetEvaluate, BudgetMark, BudgetPublish
  <2>2. Faultless' => Faultless
    BY <1>3, FaultSpends DEF BudgetNext, BudgetEvaluate, BudgetMark, BudgetPublish, Faultless,
                             TypeOK
  <2> QED BY <2>1, <2>2, LedgerFrame
<1> QED BY <1>1, <1>2, <1>3

LEMMA SpawnLedger == TypeOK /\ LedgerInv /\ SpawnNext => LedgerInv'
<1> SUFFICES ASSUME TypeOK, LedgerInv, SpawnNext PROVE LedgerInv'
  OBVIOUS
<1>1. classified' = classified
  BY DEF SpawnNext, SpawnEvaluate, SpawnMark, SpawnCount, SpawnPublish, intentVars
<1>2. Faultless' => Faultless
  BY FaultSpends DEF SpawnNext, SpawnEvaluate, SpawnMark, SpawnCount, SpawnPublish, Faultless,
                     TypeOK
<1>3. CASE loop' = loop
  BY <1>1, <1>2, <1>3, LedgerFrame
<1>4. ASSUME NEW l \in Loops,
             loop' = [loop EXCEPT ![l].pc = "running", ![l].prompt = spawn.body]
      PROVE  LedgerInv'
  <2>1. [loop[l] EXCEPT !.pc = "running", !.prompt = spawn.body].pc = "running"
    BY LoopTyped DEF LoopState
  <2> QED BY <1>1, <1>2, <1>4, <2>1, LedgerFrameLoop
<1> QED
  BY <1>3, <1>4 DEF SpawnNext, SpawnEvaluate, SpawnMark, SpawnCount, SpawnPublish

LEMMA EndLedger ==
  \A l \in Loops : TypeOK /\ LedgerInv /\ (EndNext(l) \/ ReleaseNext(l)) => LedgerInv'
<1> SUFFICES ASSUME TypeOK, LedgerInv, NEW l \in Loops, EndNext(l) \/ ReleaseNext(l)
             PROVE  LedgerInv'
  OBVIOUS
<1> USE DEF EndNext, EndLoop, ReleaseNext, ReleaseAuthor, ReleaseBody, ReleaseId, ReleaseMarker,
            Remove
<1>1. classified' = classified
  BY DEF intentVars
<1>2. Faultless' => Faultless
  BY FaultSpends DEF Faultless, TypeOK
<1>3. \E pc \in {"ended", "relBody", "relId", "relMarker", "released"} :
        \/ \E o : loop' = [loop EXCEPT ![l].pc = pc, ![l].outcome = o]
        \/ \E w : loop' = [loop EXCEPT ![l].pc = pc, ![l].wiped = w]
        \/ loop' = [loop EXCEPT ![l].pc = pc]
  OBVIOUS
<1>4. PICK pc \in {"ended", "relBody", "relId", "relMarker", "released"} :
        \/ \E o : loop' = [loop EXCEPT ![l].pc = pc, ![l].outcome = o]
        \/ \E w : loop' = [loop EXCEPT ![l].pc = pc, ![l].wiped = w]
        \/ loop' = [loop EXCEPT ![l].pc = pc]
  BY <1>3
<1>5. loop \in [Loops -> LoopState] /\ loop[l] \in LoopState
  BY DEF TypeOK
<1>6. \A k \in Loops : k # l => loop'[k] = loop[k]
  BY <1>4, <1>5
<1>7. loop'[l].pc = pc
  BY <1>4, <1>5 DEF LoopState
<1> QED BY <1>1, <1>2, <1>6, <1>7, LedgerFrame

LEMMA NoteLedger == \A l \in Loops : TypeOK /\ LedgerInv /\ FaultNote(l) => LedgerInv'
<1> SUFFICES ASSUME TypeOK, LedgerInv, NEW l \in Loops, FaultNote(l) PROVE LedgerInv'
  OBVIOUS
<1>1. UNCHANGED <<classified, used>>
  BY DEF FaultNote, intentVars
<1>2. \A k \in Loops : loop'[k].pc = loop[k].pc /\ loop'[k].ledger = loop[k].ledger
  BY LoopTyped DEF FaultNote, TypeOK, LoopState
<1> QED BY <1>1, <1>2 DEF LedgerInv, Faultless

LEMMA ToolLedger ==
  \A l \in Loops : TypeOK /\ InFlightInv /\ LedgerInv /\ ToolNext(l) => LedgerInv'
<1> SUFFICES ASSUME TypeOK, InFlightInv, LedgerInv, NEW l \in Loops, ToolNext(l)
             PROVE  LedgerInv'
  OBVIOUS
<1>1. Faultless' => Faultless
  BY FaultSpends DEF ToolNext, ReadPending, ReadDispatched, ReadLedger, StampIntent,
                     MirrorRecorded, Faultless, TypeOK
<1>2. \A k \in Loops : k # l => loop'[k] = loop[k]
  BY DEF ToolNext, ReadPending, ReadDispatched, ReadLedger, StampIntent, MirrorRecorded, TypeOK
<1>3. CASE ReadPending(l) \/ ReadDispatched(l) \/ MirrorRecorded(l)
  <2>0. loop[l] \in LoopState /\ loop \in [Loops -> LoopState]
    BY DEF TypeOK
  <2>1. loop'[l].pc \in {"bound", "ledger", "running", "ended"}
    <3>1. CASE ReadPending(l)
      BY <2>0, <3>1 DEF ReadPending, LoopState
    <3>2. CASE ReadDispatched(l)
      BY <2>0, <3>2 DEF ReadDispatched, LoopState
    <3>3. CASE MirrorRecorded(l)
      BY <2>0, <3>3 DEF MirrorRecorded, LoopState
    <3> QED BY <1>3, <3>1, <3>2, <3>3
  <2>2. classified' = classified
    BY <1>3 DEF ReadPending, ReadDispatched, MirrorRecorded, intentVars
  <2> QED BY <1>1, <1>2, <2>1, <2>2, LedgerFrame
<1>4. CASE ReadLedger(l)
  <2>1. loop'[l].ledger = classified \cup {loop[l].id}
    BY <1>4, LoopTyped DEF ReadLedger, TypeOK, LoopState
  <2>2. classified' = classified
    BY <1>4 DEF ReadLedger, intentVars
  <2> QED BY <1>1, <1>2, <2>1, <2>2 DEF LedgerInv
<1>5. ASSUME NEW v \in Readings, StampIntent(l, v) PROVE LedgerInv'
  <2>1. loop'[l].pc = "mirror"
    BY <1>5, LoopTyped DEF StampIntent, TypeOK, LoopState
  <2>2. loop[l].pc = "stamp"
    BY <1>5 DEF StampIntent
  <2>3. Faultless => \A k \in Loops : k # l => loop[k].pc # "stamp"
    BY <2>2 DEF InFlightInv, Live
  <2> QED BY <1>1, <1>2, <2>1, <2>3 DEF LedgerInv
<1> QED BY <1>3, <1>4, <1>5 DEF ToolNext

LEMMA LossLedger == TypeOK /\ LoseRuleState => LedgerInv'
<1> SUFFICES ASSUME TypeOK, LoseRuleState PROVE LedgerInv'
  OBVIOUS
<1>1. used.losses \in Nat /\ used'.losses = used.losses + 1
  BY DEF LoseRuleState, TypeOK, Usage
<1> QED BY <1>1 DEF LedgerInv, Faultless

LEMMA InitLedger == Init => LedgerInv
<1> SUFFICES ASSUME Init PROVE LedgerInv
  OBVIOUS
<1>1. \A l \in Loops : loop[l].pc = "unborn"
  BY DEF Init, Unborn
<1> QED BY <1>1 DEF LedgerInv

LEMMA StepLedger == TypeOK /\ InFlightInv /\ LedgerInv /\ [Next]_vars => LedgerInv'
<1>1. LedgerInv /\ UNCHANGED vars => LedgerInv'
  BY DEF LedgerInv, Faultless, vars, intentVars
<1> QED
  BY <1>1, RunLedger, SpawnLedger, EndLedger, NoteLedger, ToolLedger, LossLedger DEF Next

(* Only a stamp changes the ledger, and it writes a superset.              *)
LEMMA StampKeepsLedger ==
  TypeOK /\ LedgerInv /\ [Next]_vars => (Faultless' => classified \subseteq classified')
<1> SUFFICES ASSUME TypeOK, LedgerInv, [Next]_vars, Faultless'
             PROVE  classified \subseteq classified'
  OBVIOUS
<1>1. CASE \E l \in Loops, v \in Readings : StampIntent(l, v)
  BY <1>1 DEF StampIntent, LedgerInv, Faultless
<1>2. CASE ~ \E l \in Loops, v \in Readings : StampIntent(l, v)
  <2>1. classified' = classified
    BY <1>2 DEF Next, vars, intentVars, GateNext, GateOpens, AnchorGatedRun, GateLeft,
         GateDecided, BridgeNext, BridgeGuards, BridgeLedger, BridgeStamp, BridgeError,
         BridgeRepeat, SpawnNext, SpawnEvaluate, SpawnMark, SpawnCount, SpawnPublish,
         BudgetNext, BudgetEvaluate, BudgetMark, BudgetPublish, LoseRuleState, ToolNext,
         ReadPending, ReadDispatched, ReadLedger, MirrorRecorded, EndNext, EndLoop,
         ReleaseNext, ReleaseAuthor, ReleaseBody, ReleaseId, ReleaseMarker, Remove, FaultNote
  <2> QED BY <2>1
<1> QED BY <1>1, <1>2

(* The ledger of classified messages never loses one, although every       *)
(* stamp replaces it whole.                                                *)
THEOREM LedgerKeepsClassified == Spec => LedgerOnlyGrows
<1>1. TypeOK /\ LedgerInv /\ [Next]_vars => [Faultless' => classified \subseteq classified']_vars
  BY StampKeepsLedger
<1> QED
  BY <1>1, InitType, StepType, InitInFlight, StepInFlight, InitLedger, StepLedger, PTL
  DEF Spec, LedgerOnlyGrows

-----------------------------------------------------------------------------
(* Whose message a reading cites.  These facts need no luck: the bridge    *)
(* writes the slot whole and the release only empties it, so whatever else *)
(* it holds beside an id is that id's.                                     *)

Judging(l) == loop[l].pc \in {"bound", "ledger", "stamp", "mirror"}

SlotMatches == slot.id # NoMsg => slot.author \in {slot.id, NoMsg} /\ slot.body \in {slot.id, NoMsg}

CitedInv ==
  /\ SlotMatches
  /\ \A m \in Messages : bridge[m] \in {"ledger", "stamp"} => m \in Permitted /\ m \in Fresh
  /\ slot.id # NoMsg => slot.id \in Fresh
  /\ slot.author # NoMsg => slot.author \in Permitted
  /\ \A l \in Loops : Judging(l) => /\ loop[l].id \in Fresh /\ loop[l].author \in Permitted
                                    /\ loop[l].author = loop[l].id
  /\ intent.author # NoMsg => intent.author \in Permitted /\ intent.msg \in Fresh

LEMMA InitCited == Init => CitedInv
<1> SUFFICES ASSUME Init PROVE CitedInv
  OBVIOUS
<1>1. \A l \in Loops : loop[l].pc = "unborn"
  BY DEF Init, Unborn
<1>2. slot.id = NoMsg /\ slot.author = NoMsg /\ intent.author = NoMsg
  BY DEF Init, EmptySlot
<1>3. \A m \in Messages : bridge[m] = "queued"
  BY DEF Init
<1> QED BY <1>1, <1>2, <1>3 DEF CitedInv, SlotMatches, Judging

(* A step that leaves slot, bridge and reading alone.                      *)
LEMMA CitedFrame ==
  ASSUME CitedInv, UNCHANGED <<slot, bridge, intent>>,
         \A l \in Loops : Judging(l)' => /\ Judging(l) /\ loop'[l].id = loop[l].id
                                         /\ loop'[l].author = loop[l].author
  PROVE  CitedInv'
  BY DEF CitedInv, SlotMatches

LEMMA BridgeCited == TypeOK /\ CitedInv /\ BridgeNext => CitedInv'
<1> SUFFICES ASSUME TypeOK, CitedInv, NEW m \in Messages,
                    \/ BridgeGuards(m) \/ BridgeLedger(m) \/ BridgeStamp(m)
                    \/ BridgeError(m) \/ BridgeRepeat(m)
             PROVE  CitedInv'
  BY DEF BridgeNext
<1>1. UNCHANGED <<loop, intent>>
  BY DEF BridgeGuards, BridgeLedger, BridgeStamp, BridgeError, BridgeRepeat, intentVars
<1>2. \A k \in Messages : bridge'[k] \in {"ledger", "stamp"} => k \in Permitted /\ k \in Fresh
  BY LaneAssumption DEF BridgeGuards, BridgeLedger, BridgeStamp, BridgeError, BridgeRepeat, TypeOK, CitedInv
<1>3. CASE BridgeStamp(m)
  <2>1. slot' = [id |-> m, author |-> m, body |-> m] /\ m \in Permitted /\ m \in Fresh
    BY <1>3 DEF BridgeStamp, CitedInv
  <2> QED BY <1>1, <1>2, <2>1 DEF CitedInv, SlotMatches, Judging
<1>4. CASE ~BridgeStamp(m)
  <2>1. slot' = slot
    BY <1>4 DEF BridgeGuards, BridgeLedger, BridgeError, BridgeRepeat, runVars
  <2> QED BY <1>1, <1>2, <2>1 DEF CitedInv, SlotMatches, Judging
<1> QED BY <1>3, <1>4

LEMMA ToolCited == \A l \in Loops : TypeOK /\ CitedInv /\ ToolNext(l) => CitedInv'
<1> SUFFICES ASSUME TypeOK, CitedInv, NEW l \in Loops, ToolNext(l) PROVE CitedInv'
  OBVIOUS
<1>0. loop \in [Loops -> LoopState] /\ loop[l] \in LoopState
  BY DEF TypeOK
<1>1. UNCHANGED <<slot, bridge>>
  BY DEF ToolNext, ReadPending, ReadDispatched, ReadLedger, StampIntent, MirrorRecorded, runVars
<1>2. \A k \in Loops : k # l => loop'[k] = loop[k]
  BY <1>0 DEF ToolNext, ReadPending, ReadDispatched, ReadLedger, StampIntent, MirrorRecorded
<1>3. CASE ReadPending(l)
  <2>1. loop'[l].id = slot.id /\ loop'[l].author = slot.author
    BY <1>0, <1>3 DEF ReadPending, LoopState
  <2>2. /\ slot.id \in Fresh /\ slot.author \in Permitted /\ slot.author = slot.id
        /\ intent' = intent
    BY <1>3 DEF ReadPending, CitedInv, SlotMatches, intentVars
  <2> QED BY <1>1, <1>2, <2>1, <2>2 DEF CitedInv, SlotMatches, Judging
<1>4. ASSUME NEW v \in Readings, StampIntent(l, v) PROVE CitedInv'
  <2>1. loop'[l].id = loop[l].id /\ loop'[l].author = loop[l].author /\ Judging(l)
    BY <1>0, <1>4 DEF StampIntent, LoopState, Judging
  <2>2. intent' = [value |-> v, msg |-> loop[l].id, author |-> loop[l].author]
    BY <1>4 DEF StampIntent
  <2> QED BY <1>1, <1>2, <2>1, <2>2 DEF CitedInv, SlotMatches, Judging
<1>5. CASE ReadDispatched(l) \/ ReadLedger(l) \/ MirrorRecorded(l)
  <2>1. loop'[l].id = loop[l].id /\ loop'[l].author = loop[l].author /\ Judging(l)
    <3>1. CASE ReadDispatched(l)
      BY <1>0, <3>1 DEF ReadDispatched, LoopState, Judging
    <3>2. CASE ReadLedger(l)
      BY <1>0, <3>2 DEF ReadLedger, LoopState, Judging
    <3>3. CASE MirrorRecorded(l)
      BY <1>0, <3>3 DEF MirrorRecorded, LoopState, Judging
    <3> QED BY <1>5, <3>1, <3>2, <3>3
  <2>2. intent' = intent
    BY <1>5 DEF ReadDispatched, ReadLedger, MirrorRecorded, intentVars
  <2> QED BY <1>1, <1>2, <2>1, <2>2, CitedFrame DEF Judging
<1> QED BY <1>3, <1>4, <1>5 DEF ToolNext

LEMMA ReleaseCited == \A l \in Loops : TypeOK /\ CitedInv /\ ReleaseNext(l) => CitedInv'
<1> SUFFICES ASSUME TypeOK, CitedInv, NEW l \in Loops, ReleaseNext(l) PROVE CitedInv'
  OBVIOUS
<1> USE DEF ReleaseNext, ReleaseAuthor, ReleaseBody, ReleaseId, ReleaseMarker, Remove
<1>1. UNCHANGED <<bridge, intent>>
  BY DEF intentVars
<1>2. slot' \in {slot, [slot EXCEPT !.author = NoMsg], [slot EXCEPT !.body = NoMsg],
                [slot EXCEPT !.id = NoMsg]}
  OBVIOUS
<1>3. /\ SlotMatches' /\ (slot'.id # NoMsg => slot'.id \in Fresh)
      /\ (slot'.author # NoMsg => slot'.author \in Permitted)
  BY <1>2 DEF CitedInv, SlotMatches, TypeOK
<1>4. \A k \in Loops : Judging(k)' => loop'[k] = loop[k]
  <2>1. \A k \in Loops : k # l => loop'[k] = loop[k]
    BY DEF TypeOK
  <2>2. PICK pc \in {"relBody", "relId", "relMarker", "released"} :
          \/ \E w : loop' = [loop EXCEPT ![l].pc = pc, ![l].wiped = w]
          \/ loop' = [loop EXCEPT ![l].pc = pc]
    OBVIOUS
  <2>0. loop \in [Loops -> LoopState] /\ loop[l] \in LoopState
    BY DEF TypeOK
  <2>3. loop'[l].pc = pc
    BY <2>0, <2>2 DEF LoopState
  <2> QED BY <2>1, <2>3 DEF Judging
<1> QED BY <1>1, <1>3, <1>4 DEF CitedInv, Judging

LEMMA OtherCited ==
  TypeOK /\ CitedInv
  /\ (GateNext \/ SpawnNext \/ BudgetNext \/ LoseRuleState
      \/ \E l \in Loops : EndNext(l) \/ FaultNote(l))
    => CitedInv'
<1> SUFFICES ASSUME TypeOK, CitedInv,
                    \/ GateNext \/ SpawnNext \/ BudgetNext \/ LoseRuleState
                    \/ \E l \in Loops : EndNext(l) \/ FaultNote(l)
             PROVE  CitedInv'
  OBVIOUS
<1>1. UNCHANGED <<slot, bridge, intent>>
  BY DEF GateNext, GateOpens, AnchorGatedRun, GateLeft, GateDecided, SpawnNext, SpawnEvaluate,
     SpawnMark, SpawnCount, SpawnPublish, BudgetNext, BudgetEvaluate, BudgetMark, BudgetPublish,
     LoseRuleState, EndNext, EndLoop, FaultNote, runVars, intentVars
<1>2. \A l \in Loops : Judging(l)' => /\ Judging(l) /\ loop'[l].id = loop[l].id
                                      /\ loop'[l].author = loop[l].author
  <2>1. loop \in [Loops -> LoopState] /\ \A l \in Loops : loop[l] \in LoopState
    BY DEF TypeOK
  <2>2. CASE GateNext \/ BudgetNext
    <3>1. loop' = loop
      BY <2>2 DEF GateNext, GateOpens, AnchorGatedRun, GateLeft, GateDecided,
         BudgetNext, BudgetEvaluate, BudgetMark, BudgetPublish
    <3> QED BY <3>1 DEF Judging
  <2>3. CASE SpawnNext
    <3>1. CASE loop' = loop
      BY <3>1 DEF Judging
    <3>2. ASSUME NEW k \in Loops,
                 loop' = [loop EXCEPT ![k].pc = "running", ![k].prompt = spawn.body]
          PROVE  \A l \in Loops : Judging(l)' => /\ Judging(l) /\ loop'[l].id = loop[l].id
                                                /\ loop'[l].author = loop[l].author
      <4>1. loop'[k].pc = "running" /\ \A l \in Loops : l # k => loop'[l] = loop[l]
        BY <2>1, <3>2 DEF LoopState
      <4> QED BY <4>1 DEF Judging
    <3> QED BY <2>3, <3>1, <3>2 DEF SpawnNext, SpawnEvaluate, SpawnMark, SpawnCount, SpawnPublish
  <2>4. CASE LoseRuleState
    BY <2>1, <2>4 DEF LoseRuleState, Judging, LoopState
  <2>5. CASE \E l \in Loops : EndNext(l)
    BY <2>1, <2>5 DEF EndNext, EndLoop, Judging, LoopState
  <2>6. CASE \E l \in Loops : FaultNote(l)
    BY <2>1, <2>6 DEF FaultNote, Judging, LoopState
  <2> QED BY <2>2, <2>3, <2>4, <2>5, <2>6
<1> QED BY <1>1, <1>2, CitedFrame

LEMMA StepCited == TypeOK /\ CitedInv /\ [Next]_vars => CitedInv'
<1>1. CitedInv /\ UNCHANGED vars => CitedInv'
  BY DEF CitedInv, SlotMatches, Judging, vars, runVars, intentVars
<1> QED BY <1>1, BridgeCited, ToolCited, ReleaseCited, OtherCited DEF Next

-----------------------------------------------------------------------------
(* Whose text it judged.  Without faults the slot is torn only while a     *)
(* release is emptying it, which keeps the marker up; so what the spawn    *)
(* rule dispatches is one message, and the marker names it for as long as  *)
(* its classifier can call the tool.                                       *)

Calling(l)   == loop[l].pc = "running" \/ Judging(l)
Emptying(l)  == loop[l].pc \in {"relBody", "relId"}
Whole        == slot.author = slot.id /\ slot.body = slot.id

DispatchInv ==
  Faultless =>
    /\ slot.id # NoMsg => Whole \/ \E l \in Loops : Emptying(l)
    /\ spawn.pc # "idle" => spawn.body = spawn.id
    /\ Spawning => marker = spawn.id
    /\ \A l \in Loops : Calling(l) => loop[l].prompt = marker
    /\ \A l \in Loops : Tooling(l) => loop[l].id = marker

LEMMA InitDispatch == Init => DispatchInv
<1> SUFFICES ASSUME Init PROVE DispatchInv
  OBVIOUS
<1>1. \A l \in Loops : loop[l].pc = "unborn"
  BY DEF Init, Unborn
<1>2. slot.id = NoMsg /\ spawn.pc = "idle"
  BY DEF Init, EmptySlot, NoFiring
<1> QED BY <1>1, <1>2 DEF DispatchInv, Calling, Judging, Tooling, Spawning

(* A step that leaves the slot, the firing and the marker alone and lets   *)
(* no loop forward in its call or its release.                             *)
LEMMA DispatchFrame ==
  ASSUME DispatchInv, Faultless' => Faultless, UNCHANGED <<slot, spawn, marker>>,
         \A l \in Loops : /\ loop'[l].pc = loop[l].pc /\ loop'[l].id = loop[l].id
                         /\ loop'[l].prompt = loop[l].prompt
  PROVE  DispatchInv'
  BY DEF DispatchInv, Whole, Emptying, Spawning, Calling, Judging, Tooling

LEMMA RunDispatch ==
  TypeOK /\ DispatchInv /\ (GateNext \/ BudgetNext \/ BridgeNext) => DispatchInv'
<1> SUFFICES ASSUME TypeOK, DispatchInv, GateNext \/ BudgetNext \/ BridgeNext
             PROVE  DispatchInv'
  OBVIOUS
<1>1. UNCHANGED <<loop, spawn, marker>>
  BY DEF GateNext, GateOpens, AnchorGatedRun, GateLeft, GateDecided, BudgetNext, BudgetEvaluate,
     BudgetMark, BudgetPublish, BridgeNext, BridgeGuards, BridgeLedger, BridgeStamp, BridgeError,
     BridgeRepeat, runVars, ruleVars
<1>2. Faultless' => Faultless
  <2>1. CASE GateNext
    BY <2>1 DEF GateNext, GateOpens, AnchorGatedRun, GateLeft, GateDecided, Faultless
  <2>2. CASE BudgetNext
    BY <2>2, FaultSpends DEF BudgetNext, BudgetEvaluate, BudgetMark, BudgetPublish, Faultless, TypeOK
  <2>3. CASE BridgeNext
    BY <2>3, RepeatSpends DEF BridgeNext, BridgeGuards, BridgeLedger, BridgeStamp, BridgeError,
       BridgeRepeat, Faultless, TypeOK
  <2> QED BY <2>1, <2>2, <2>3
<1>3. slot' = slot \/ Whole'
  BY DEF GateNext, GateOpens, AnchorGatedRun, GateLeft, GateDecided, BudgetNext, BudgetEvaluate,
     BudgetMark, BudgetPublish, BridgeNext, BridgeGuards, BridgeLedger, BridgeStamp, BridgeError,
     BridgeRepeat, runVars, Whole
<1> QED BY <1>1, <1>2, <1>3 DEF DispatchInv, Whole, Emptying, Spawning, Calling, Judging, Tooling

LEMMA SpawnDispatch == TypeOK /\ InFlightInv /\ DispatchInv /\ SpawnNext => DispatchInv'
<1> SUFFICES ASSUME TypeOK, InFlightInv, DispatchInv, SpawnNext PROVE DispatchInv'
  OBVIOUS
<1> USE DEF runVars
<1>1. CASE SpawnEvaluate
  <2>1. /\ marker = NoMsg /\ slot.id # NoMsg /\ UNCHANGED <<slot, marker, loop, used>>
        /\ spawn' = [pc |-> "mark", id |-> slot.id, body |-> slot.body]
    BY <1>1 DEF SpawnEvaluate, SpawnWhen
  <2>2. Faultless => \A l \in Loops : ~Live(l)
    BY <2>1 DEF InFlightInv
  <2>3. Faultless => Whole
    BY <2>1, <2>2 DEF DispatchInv, Emptying, Live
  <2> QED BY <2>1, <2>2, <2>3
          DEF DispatchInv, Faultless, Whole, Emptying, Spawning, Calling, Judging, Tooling, Live
<1>2. CASE SpawnMark
  <2>1. /\ UNCHANGED <<slot, loop>> /\ spawn.pc = "mark"
        /\ spawn'.pc = "count" /\ spawn'.id = spawn.id /\ spawn'.body = spawn.body
    BY <1>2 DEF SpawnMark, TypeOK
  <2>2. Faultless' => Faultless /\ marker' = spawn.id
    BY <1>2, FaultSpends DEF SpawnMark, Faultless, TypeOK
  <2>3. Faultless => \A l \in Loops : ~Live(l)
    BY <2>1 DEF InFlightInv
  <2> QED BY <2>1, <2>2, <2>3
          DEF DispatchInv, Whole, Emptying, Spawning, Calling, Judging, Tooling, Live
<1>3. CASE SpawnCount
  <2>1. /\ UNCHANGED <<slot, marker, loop>> /\ spawn.pc = "count"
        /\ spawn'.pc = "publish" /\ spawn'.id = spawn.id /\ spawn'.body = spawn.body
    BY <1>3 DEF SpawnCount, TypeOK
  <2>2. Faultless' => Faultless
    BY <1>3, FaultSpends DEF SpawnCount, Faultless, TypeOK
  <2> QED BY <2>1, <2>2
          DEF DispatchInv, Whole, Emptying, Spawning, Calling, Judging, Tooling
<1>4. ASSUME NEW l \in Loops, SpawnPublish(l) PROVE DispatchInv'
  <2>1. /\ UNCHANGED <<slot, marker>> /\ spawn.pc = "publish" /\ spawn'.pc = "idle"
        /\ loop[l].pc = "unborn"
    BY <1>4 DEF SpawnPublish, NoFiring
  <2>2. Faultless' => /\ Faultless
                      /\ loop' = [loop EXCEPT ![l].pc = "running", ![l].prompt = spawn.body]
    BY <1>4, FaultSpends DEF SpawnPublish, Faultless, TypeOK
  <2>3. Faultless' => /\ \A k \in Loops : k # l => loop'[k] = loop[k]
                      /\ loop'[l].pc = "running" /\ loop'[l].prompt = spawn.body
    <3>1. loop \in [Loops -> LoopState] /\ loop[l] \in LoopState
      BY DEF TypeOK
    <3> QED BY <2>2, <3>1 DEF LoopState
  <2> QED BY <2>1, <2>2, <2>3
          DEF DispatchInv, Whole, Emptying, Spawning, Calling, Judging, Tooling
<1> QED BY <1>1, <1>2, <1>3, <1>4 DEF SpawnNext

LEMMA ToolDispatch == \A l \in Loops : TypeOK /\ DispatchInv /\ ToolNext(l) => DispatchInv'
<1> SUFFICES ASSUME TypeOK, DispatchInv, NEW l \in Loops, ToolNext(l) PROVE DispatchInv'
  OBVIOUS
<1>0. loop \in [Loops -> LoopState] /\ loop[l] \in LoopState
  BY DEF TypeOK
<1>1. UNCHANGED <<slot, spawn, marker>>
  BY DEF ToolNext, ReadPending, ReadDispatched, ReadLedger, StampIntent, MirrorRecorded, runVars,
     ruleVars
<1>2. Faultless' => Faultless
  BY FaultSpends DEF ToolNext, ReadPending, ReadDispatched, ReadLedger, StampIntent,
     MirrorRecorded, Faultless, TypeOK
<1>3. \A k \in Loops : k # l => loop'[k] = loop[k]
  BY <1>0 DEF ToolNext, ReadPending, ReadDispatched, ReadLedger, StampIntent, MirrorRecorded
<1>4. /\ loop'[l].prompt = loop[l].prompt /\ Calling(l)
      /\ ~Emptying(l)' /\ ~Emptying(l)
      /\ Tooling(l)' => loop'[l].id = loop[l].id /\ (Tooling(l) \/ loop[l].id = marker)
  <2> USE DEF Calling, Judging, Emptying, Tooling
  <2>1. CASE ReadPending(l)
    BY <1>0, <2>1 DEF ReadPending, LoopState
  <2>2. CASE ReadDispatched(l)
    BY <1>0, <2>2 DEF ReadDispatched, LoopState
  <2>3. CASE ReadLedger(l)
    BY <1>0, <2>3 DEF ReadLedger, LoopState
  <2>4. ASSUME NEW v \in Readings, StampIntent(l, v)
        PROVE  /\ loop'[l].prompt = loop[l].prompt /\ Calling(l) /\ ~Emptying(l)' /\ ~Emptying(l)
               /\ Tooling(l)' => loop'[l].id = loop[l].id /\ (Tooling(l) \/ loop[l].id = marker)
    BY <1>0, <2>4 DEF StampIntent, LoopState
  <2>5. CASE MirrorRecorded(l)
    BY <1>0, <2>5 DEF MirrorRecorded, LoopState
  <2> QED BY <2>1, <2>2, <2>3, <2>4, <2>5 DEF ToolNext
<1> QED BY <1>1, <1>2, <1>3, <1>4
        DEF DispatchInv, Whole, Emptying, Spawning, Calling, Judging, Tooling

LEMMA EndDispatch ==
  \A l \in Loops : TypeOK /\ DispatchInv /\ (EndNext(l) \/ FaultNote(l)) => DispatchInv'
<1> SUFFICES ASSUME TypeOK, DispatchInv, NEW l \in Loops, EndNext(l) \/ FaultNote(l)
             PROVE  DispatchInv'
  OBVIOUS
<1>0. loop \in [Loops -> LoopState] /\ loop[l] \in LoopState
  BY DEF TypeOK
<1>1. UNCHANGED <<slot, spawn, marker, used>>
  BY DEF EndNext, EndLoop, FaultNote, runVars, ruleVars
<1>2. CASE EndNext(l)
  <2>1. \A k \in Loops : k # l => loop'[k] = loop[k]
    BY <1>0, <1>2 DEF EndNext, EndLoop
  <2>2. PICK o \in Outcomes : /\ loop[l].pc = "running"
                             /\ loop' = [loop EXCEPT ![l].pc = "ended", ![l].outcome = o]
    BY <1>2 DEF EndNext, EndLoop
  <2>3. loop'[l].pc = "ended"
    BY <1>0, <2>2 DEF LoopState
  <2> QED BY <1>1, <2>1, <2>2, <2>3
          DEF DispatchInv, Faultless, Whole, Emptying, Spawning, Calling, Judging, Tooling
<1>3. CASE FaultNote(l)
  <2>1. \A k \in Loops : /\ loop'[k].pc = loop[k].pc /\ loop'[k].id = loop[k].id
                         /\ loop'[k].prompt = loop[k].prompt
    BY <1>0, <1>3 DEF FaultNote, LoopState
  <2> QED BY <1>1, <2>1, DispatchFrame DEF Faultless
<1> QED BY <1>2, <1>3

LEMMA ReleaseDispatch ==
  \A l \in Loops : TypeOK /\ InFlightInv /\ DispatchInv /\ ReleaseNext(l) => DispatchInv'
<1> SUFFICES ASSUME TypeOK, InFlightInv, DispatchInv, NEW l \in Loops, ReleaseNext(l)
             PROVE  DispatchInv'
  OBVIOUS
<1> USE DEF ReleaseNext, ReleaseAuthor, ReleaseBody, ReleaseId, ReleaseMarker, Remove
<1>0. loop \in [Loops -> LoopState] /\ loop[l] \in LoopState
  BY DEF TypeOK
<1>1. spawn' = spawn /\ Faultless' => Faultless
  BY FaultSpends DEF Faultless, TypeOK, ruleVars
<1>2. \A k \in Loops : k # l => loop'[k] = loop[k]
  BY <1>0
<1>3. spawn' = spawn
  BY DEF ruleVars
<1>4. CASE ReleaseAuthor(l) \/ ReleaseBody(l)
  <2>1. PICK pc \in {"relBody", "relId"} :
          \/ \E w : loop' = [loop EXCEPT ![l].pc = pc, ![l].wiped = w]
          \/ loop' = [loop EXCEPT ![l].pc = pc]
    BY <1>4
  <2>2. loop'[l].pc = pc
    BY <1>0, <2>1 DEF LoopState
  <2>3. marker' = marker
    BY <1>4
  <2>4. Emptying(l)' /\ ~Calling(l)'
    BY <2>2 DEF Emptying, Calling, Judging
  <2> QED BY <1>1, <1>2, <1>3, <2>3, <2>4
          DEF DispatchInv, Spawning, Emptying, Calling, Judging, Tooling
<1>5. CASE ReleaseId(l)
  <2>1. Faultless' => Faultless /\ slot'.id = NoMsg
    BY <1>1, <1>3, <1>5, FaultSpends DEF Faultless, TypeOK
  <2>2. PICK w : \/ loop' = [loop EXCEPT ![l].pc = "relMarker", ![l].wiped = w]
                 \/ loop' = [loop EXCEPT ![l].pc = "relMarker"]
    BY <1>5
  <2>3. loop'[l].pc = "relMarker" /\ marker' = marker
    BY <1>0, <1>5, <2>2 DEF LoopState
  <2> QED BY <1>2, <1>3, <2>1, <2>3 DEF DispatchInv, Spawning, Calling, Judging, Tooling
<1>6. CASE ReleaseMarker(l)
  <2>1. loop[l].pc = "relMarker" /\ slot' = slot
    BY <1>6
  <2>2. loop'[l].pc = "released"
    BY <1>0, <1>6 DEF LoopState
  <2>3. Faultless => spawn.pc = "idle" /\ \A k \in Loops : k # l => ~Live(k)
    BY <2>1 DEF InFlightInv, Live
  <2> QED BY <1>1, <1>2, <1>3, <2>1, <2>2, <2>3
          DEF DispatchInv, Whole, Spawning, Emptying, Calling, Judging, Tooling, Live
<1> QED BY <1>4, <1>5, <1>6

LEMMA LossDispatch == TypeOK /\ LoseRuleState => DispatchInv'
<1> SUFFICES ASSUME TypeOK, LoseRuleState PROVE DispatchInv'
  OBVIOUS
<1>1. used.losses \in Nat /\ used'.losses = used.losses + 1
  BY DEF LoseRuleState, TypeOK, Usage
<1> QED BY <1>1 DEF DispatchInv, Faultless

LEMMA StepDispatch == TypeOK /\ InFlightInv /\ DispatchInv /\ [Next]_vars => DispatchInv'
<1>1. DispatchInv /\ UNCHANGED vars => DispatchInv'
  BY DEF DispatchInv, Faultless, Whole, Emptying, Spawning, Calling, Judging, Tooling, vars,
     runVars, ruleVars
<1> QED
  BY <1>1, RunDispatch, SpawnDispatch, ToolDispatch, EndDispatch, ReleaseDispatch, LossDispatch
  DEF Next

(* Whatever the bridge writes in between, a reading is attributed to the   *)
(* message whose text was judged, and cites only an author who was         *)
(* permitted and wrote for this gate.                                      *)
THEOREM ReadingsAreAttributed == Spec => []JudgedIsAttributed
<1>1. CitedInv /\ DispatchInv => JudgedIsAttributed
  BY DEF CitedInv, DispatchInv, JudgedIsAttributed, Calling, Judging, Tooling
<1> QED
  BY <1>1, InitType, StepType, InitInFlight, StepInFlight, InitCited, StepCited,
     InitDispatch, StepDispatch, PTL DEF Spec

(* Whenever the spawn rule can fire, the slot holds one message.           *)
THEOREM DispatchedIsWhole == Spec => []DispatchableSlotIsWhole
<1>1. InFlightInv /\ DispatchInv => DispatchableSlotIsWhole
  BY DEF InFlightInv, DispatchInv, DispatchableSlotIsWhole, Whole, Emptying, Live
<1> QED
  BY <1>1, InitType, StepType, InitInFlight, StepInFlight, InitDispatch, StepDispatch, PTL DEF Spec

-----------------------------------------------------------------------------
(* The spend.  Every message a loop was born for is in the ledger, and a   *)
(* firing that has passed its condition will still fit the budget.         *)

SpendInv ==
  Faultless =>
    /\ IsFiniteSet(attempted) /\ Spent <= Budget
    /\ spawn.pc \in {"mark", "count"} => Spent <= Budget - 1
    /\ spawn.pc = "publish" => spawn.id \in attempted
    /\ \A l \in Loops : loop[l].pc # "unborn" => loop[l].prompt \in attempted
    /\ budget.pc # "idle" => /\ Spent >= Budget /\ spawn.pc = "idle"
                             /\ \A l \in Loops : ~Live(l)

(* Adding to the ledger lengthens it by one at most.                       *)
LEMMA LedgerGrowth ==
  ASSUME IsFiniteSet(attempted), NEW i
  PROVE  /\ IsFiniteSet(attempted \cup {i}) /\ Spent \in Nat
         /\ Cardinality(attempted \cup {i}) \in Nat
         /\ Cardinality(attempted \cup {i}) <= Spent + 1
<1>1. Spent \in Nat
  BY FS_CardinalityType DEF Spent
<1>2. CASE i \in attempted
  <2>1. attempted \cup {i} = attempted
    BY <1>2
  <2> QED BY <1>1, <2>1 DEF Spent
<1>3. CASE i \notin attempted
  BY <1>1, <1>3, FS_AddElement DEF Spent
<1> QED BY <1>2, <1>3

LEMMA InitSpend == Init => SpendInv
<1> SUFFICES ASSUME Init PROVE SpendInv
  OBVIOUS
<1>1. \A l \in Loops : loop[l].pc = "unborn"
  BY DEF Init, Unborn
<1>2. Spent = 0 /\ IsFiniteSet(attempted)
  BY FS_EmptySet DEF Init, Spent
<1>3. spawn.pc = "idle" /\ budget.pc = "idle"
  BY DEF Init, NoFiring
<1> QED BY <1>1, <1>2, <1>3, LaneAssumption DEF SpendInv

(* No loop is called to life, and none forgets what it was asked.          *)
SameLoops == \A l \in Loops : /\ loop'[l].pc # "unborn" <=> loop[l].pc # "unborn"
                              /\ loop'[l].prompt = loop[l].prompt
                              /\ Live(l)' => Live(l)

(* A step that spends nothing and calls nobody to life.                    *)
LEMMA SpendFrame ==
  ASSUME SpendInv, Faultless' => Faultless, UNCHANGED <<attempted, spawn>>, SameLoops,
         budget' = budget \/ budget'.pc = "idle" \/ budget.pc # "idle"
  PROVE  SpendInv'
  BY DEF SpendInv, Spent, SameLoops

LEMMA LoopsSame ==
  ASSUME TypeOK, NEW l \in Loops,
         ToolNext(l) \/ EndNext(l) \/ ReleaseNext(l) \/ FaultNote(l)
  PROVE  SameLoops
<1> USE DEF ToolNext, ReadPending, ReadDispatched, ReadLedger, StampIntent, MirrorRecorded,
            EndNext, EndLoop, ReleaseNext, ReleaseAuthor, ReleaseBody, ReleaseId, ReleaseMarker,
            Remove
<1>0. loop \in [Loops -> LoopState] /\ loop[l] \in LoopState
  BY DEF TypeOK
<1>1. CASE ~FaultNote(l)
  <2>1. loop[l].pc \notin {"unborn", "released"}
    BY <1>1
  <2>2. \A k \in Loops : k # l => loop'[k] = loop[k]
    BY <1>0, <1>1
  <2>3. loop'[l].pc # "unborn" /\ loop'[l].prompt = loop[l].prompt
    <3>1. CASE ToolNext(l)
      BY <1>0, <3>1 DEF LoopState
    <3>2. CASE EndNext(l) \/ ReleaseNext(l)
      <4>1. PICK pc \in {"ended", "relBody", "relId", "relMarker", "released"} :
              \/ \E o : loop' = [loop EXCEPT ![l].pc = pc, ![l].outcome = o]
              \/ \E w : loop' = [loop EXCEPT ![l].pc = pc, ![l].wiped = w]
              \/ loop' = [loop EXCEPT ![l].pc = pc]
        BY <3>2
      <4> QED BY <1>0, <4>1 DEF LoopState
    <3> QED BY <1>1, <3>1, <3>2
  <2> QED BY <2>1, <2>2, <2>3 DEF SameLoops, Live
<1>2. CASE FaultNote(l)
  <2>1. \A k \in Loops : loop'[k].pc = loop[k].pc /\ loop'[k].prompt = loop[k].prompt
    BY <1>0, <1>2 DEF FaultNote, LoopState
  <2> QED BY <2>1 DEF SameLoops, Live
<1> QED BY <1>1, <1>2

LEMMA RunSpend == TypeOK /\ SpendInv /\ (GateNext \/ BridgeNext) => SpendInv'
<1> SUFFICES ASSUME TypeOK, SpendInv, GateNext \/ BridgeNext PROVE SpendInv'
  OBVIOUS
<1>1. UNCHANGED <<attempted, spawn, budget, loop>>
  BY DEF GateNext, GateOpens, AnchorGatedRun, GateLeft, GateDecided, BridgeNext, BridgeGuards,
     BridgeLedger, BridgeStamp, BridgeError, BridgeRepeat, runVars, ruleVars
<1>2. Faultless' => Faultless
  BY RepeatSpends DEF GateNext, GateOpens, AnchorGatedRun, GateLeft, GateDecided, BridgeNext,
     BridgeGuards, BridgeLedger, BridgeStamp, BridgeError, BridgeRepeat, Faultless, TypeOK
<1>3. SameLoops
  BY <1>1 DEF SameLoops, Live
<1> QED BY <1>1, <1>2, <1>3, SpendFrame

LEMMA BudgetSpend == TypeOK /\ InFlightInv /\ SpendInv /\ BudgetNext => SpendInv'
<1> SUFFICES ASSUME TypeOK, InFlightInv, SpendInv, BudgetNext PROVE SpendInv'
  OBVIOUS
<1>1. UNCHANGED <<attempted, spawn, loop>>
  BY DEF BudgetNext, BudgetEvaluate, BudgetMark, BudgetPublish, runVars
<1>2. Faultless' => Faultless
  BY FaultSpends DEF BudgetNext, BudgetEvaluate, BudgetMark, BudgetPublish, Faultless, TypeOK
<1>3. CASE BudgetEvaluate
  <2>1. Spent >= Budget /\ marker = NoMsg /\ Faultless => Spent \in Nat
    BY FS_CardinalityType DEF SpendInv, Spent
  <2>2. Spent >= Budget /\ marker = NoMsg
    BY <1>3 DEF BudgetEvaluate, BudgetWhen
  <2>3. Faultless => spawn.pc \notin {"mark", "count", "publish"}
    BY <2>1, <2>2, LaneAssumption DEF InFlightInv, SpendInv, Spawning
  <2>4. Faultless => spawn.pc = "idle" /\ \A l \in Loops : ~Live(l)
    BY <2>2, <2>3 DEF InFlightInv, TypeOK
  <2> QED BY <1>1, <1>2, <2>2, <2>4 DEF SpendInv, Spent, Live
<1>4. CASE BudgetMark \/ BudgetPublish
  <2>1. budget.pc # "idle"
    BY <1>4 DEF BudgetMark, BudgetPublish
  <2>2. SameLoops
    BY <1>1 DEF SameLoops, Live
  <2> QED BY <1>1, <1>2, <2>1, <2>2, SpendFrame
<1> QED BY <1>3, <1>4 DEF BudgetNext

(* What a publication does to the loops.                                   *)
LEMMA PublishBirth ==
  ASSUME TypeOK, NEW l \in Loops, SpawnPublish(l), Faultless'
  PROVE  /\ loop[l].pc = "unborn" /\ loop'[l].pc = "running" /\ loop'[l].prompt = spawn.body
         /\ \A k \in Loops : k # l => loop'[k] = loop[k]
<1>1. loop' = [loop EXCEPT ![l].pc = "running", ![l].prompt = spawn.body]
  BY FaultSpends DEF SpawnPublish, Faultless, TypeOK
<1>2. loop \in [Loops -> LoopState] /\ loop[l] \in LoopState
  BY DEF TypeOK
<1> QED BY <1>1, <1>2 DEF SpawnPublish, LoopState

LEMMA SpawnFaultless == TypeOK /\ SpawnNext /\ Faultless' => Faultless
  BY FaultSpends DEF SpawnNext, SpawnEvaluate, SpawnMark, SpawnCount, SpawnPublish, Faultless,
     TypeOK

LEMMA SpawnSpend == TypeOK /\ DispatchInv /\ SpendInv /\ SpawnNext => SpendInv'
<1> SUFFICES ASSUME TypeOK, DispatchInv, SpendInv, SpawnNext, Faultless' PROVE SpendInv'
  BY DEF SpendInv
<1>0. /\ Faultless /\ Budget \in Nat /\ budget' = budget
      /\ IsFiniteSet(attempted) /\ Spent \in Nat
  BY SpawnFaultless, LaneAssumption, FS_CardinalityType
     DEF SpawnNext, SpawnEvaluate, SpawnMark, SpawnCount, SpawnPublish, SpendInv, Spent
<1>1. CASE SpawnEvaluate
  <2>1. /\ Spent <= Budget - 1 /\ UNCHANGED <<attempted, loop>> /\ spawn'.pc = "mark"
    BY <1>1 DEF SpawnEvaluate, SpawnWhen, runVars
  <2>2. budget.pc = "idle"
    BY <1>0, <2>1 DEF SpendInv
  <2> QED BY <1>0, <2>1, <2>2 DEF SpendInv, Spent, Live
<1>2. CASE SpawnMark
  <2>1. UNCHANGED <<attempted, loop>> /\ spawn.pc = "mark" /\ spawn'.pc = "count"
    BY <1>2 DEF SpawnMark, TypeOK
  <2> QED BY <1>0, <2>1 DEF SpendInv, Spent, Live
<1>3. CASE SpawnCount
  <2>1. /\ loop' = loop /\ spawn.pc = "count" /\ spawn'.pc = "publish" /\ spawn'.id = spawn.id
        /\ attempted' = attempted \cup {spawn.id}
    BY <1>3, FaultSpends DEF SpawnCount, Faultless, TypeOK
  <2>2. IsFiniteSet(attempted') /\ Spent' \in Nat /\ Spent' <= Spent + 1
    BY <1>0, <2>1, LedgerGrowth DEF Spent
  <2>3. Spent <= Budget - 1 /\ budget.pc = "idle"
    BY <1>0, <2>1 DEF SpendInv
  <2>4. \A l \in Loops : loop'[l].pc # "unborn" => loop'[l].prompt \in attempted'
    BY <1>0, <2>1 DEF SpendInv
  <2> QED BY <1>0, <2>1, <2>2, <2>3, <2>4 DEF SpendInv
<1>4. ASSUME NEW l \in Loops, SpawnPublish(l) PROVE SpendInv'
  <2>1. attempted' = attempted /\ spawn.pc = "publish" /\ spawn'.pc = "idle"
    BY <1>4 DEF SpawnPublish, NoFiring, runVars
  <2>2. spawn.body \in attempted /\ budget.pc = "idle"
    BY <1>0, <2>1 DEF SpendInv, DispatchInv
  <2>3. \A k \in Loops : loop'[k].pc # "unborn" => loop'[k].prompt \in attempted'
    BY <1>0, <1>4, <2>1, <2>2, PublishBirth DEF SpendInv
  <2> QED BY <1>0, <2>1, <2>2, <2>3 DEF SpendInv, Spent
<1> QED BY <1>1, <1>2, <1>3, <1>4 DEF SpawnNext

LEMMA LoopFaultless ==
  ASSUME TypeOK, NEW l \in Loops, Faultless',
         ToolNext(l) \/ EndNext(l) \/ ReleaseNext(l) \/ FaultNote(l)
  PROVE  Faultless
  BY FaultSpends DEF ToolNext, ReadPending, ReadDispatched, ReadLedger, StampIntent,
     MirrorRecorded, EndNext, EndLoop, ReleaseNext, ReleaseAuthor, ReleaseBody, ReleaseId,
     ReleaseMarker, Remove, FaultNote, Faultless, TypeOK

LEMMA LoopSpend ==
  ASSUME TypeOK, SpendInv, NEW l \in Loops,
         ToolNext(l) \/ EndNext(l) \/ ReleaseNext(l) \/ FaultNote(l)
  PROVE  SpendInv'
<1>1. UNCHANGED <<attempted, spawn, budget>>
  BY DEF ToolNext, ReadPending, ReadDispatched, ReadLedger, StampIntent, MirrorRecorded,
     EndNext, EndLoop, ReleaseNext, ReleaseAuthor, ReleaseBody, ReleaseId, ReleaseMarker,
     Remove, FaultNote, runVars, ruleVars
<1> QED BY <1>1, LoopFaultless, LoopsSame, SpendFrame

LEMMA LossFaults == TypeOK /\ LoseRuleState => ~Faultless'
<1> SUFFICES ASSUME TypeOK, LoseRuleState PROVE ~Faultless'
  OBVIOUS
<1>1. used.losses \in Nat /\ used'.losses = used.losses + 1
  BY DEF LoseRuleState, TypeOK, Usage
<1> QED BY <1>1 DEF Faultless

LEMMA StepSpend == TypeOK /\ InFlightInv /\ DispatchInv /\ SpendInv /\ [Next]_vars => SpendInv'
<1>1. SpendInv /\ UNCHANGED vars => SpendInv'
  BY DEF SpendInv, Spent, Faultless, Live, vars, runVars, ruleVars
<1>2. TypeOK /\ LoseRuleState => SpendInv'
  BY LossFaults DEF SpendInv
<1> QED
  BY <1>1, <1>2, RunSpend, BudgetSpend, SpawnSpend, LoopSpend DEF Next

-----------------------------------------------------------------------------
(* What is paid for one message.  Each coming of the message is in at most *)
(* one place: with its handler, in the slot until a release empties it, in *)
(* a firing of the spawn rule, or turned into a loop.                      *)

Coming(m) == IF bridge[m] # "done" THEN 1 ELSE 0
Unclaimed == spawn.pc = "idle" /\ \A l \in Loops : Live(l) => loop[l].pc = "relMarker"
Waiting(m) == IF slot.id = m /\ Unclaimed THEN 1 ELSE 0
Firing(m) == IF spawn.pc # "idle" /\ spawn.body = m THEN 1 ELSE 0
Places(m) == Coming(m) + Waiting(m) + Firing(m)

PaidInv ==
  Faultless => \A m \in Messages :
    IsFiniteSet(Paid(m)) /\ Cardinality(Paid(m)) + Places(m) <= 1 + used.again[m]

LEMMA PlacesCounted ==
  \A m \in Messages : Coming(m) \in {0, 1} /\ Waiting(m) \in {0, 1} /\ Firing(m) \in {0, 1}
  BY DEF Coming, Waiting, Firing

LEMMA InitPaid == Init => PaidInv
<1> SUFFICES ASSUME Init, NEW m \in Messages
             PROVE  /\ IsFiniteSet(Paid(m))
                    /\ Cardinality(Paid(m)) + Places(m) <= 1 + used.again[m]
  BY DEF PaidInv
<1>1. Paid(m) = {}
  BY DEF Init, Unborn, Paid
<1>2. Cardinality(Paid(m)) = 0 /\ IsFiniteSet(Paid(m))
  BY <1>1, FS_EmptySet
<1>3. slot.id # m /\ spawn.pc = "idle" /\ used.again[m] = 0
  BY LaneAssumption DEF Init, EmptySlot, NoFiring
<1> QED BY <1>2, <1>3 DEF Places, Coming, Waiting, Firing

(* A step by which no message gains a place.                               *)
LEMMA PaidFrame ==
  ASSUME PaidInv, Faultless' => Faultless, SameLoops, used'.again = used.again,
         TypeOK, \A m \in Messages : Places(m)' <= Places(m)
  PROVE  PaidInv'
<1> SUFFICES ASSUME Faultless', NEW m \in Messages
             PROVE  /\ IsFiniteSet(Paid(m)')
                    /\ Cardinality(Paid(m)') + Places(m)' <= 1 + used'.again[m]
  BY DEF PaidInv
<1>1. Paid(m)' = Paid(m)
  BY DEF SameLoops, Paid
<1>2. IsFiniteSet(Paid(m)) /\ Cardinality(Paid(m)) + Places(m) <= 1 + used.again[m]
  BY DEF PaidInv
<1>3. Cardinality(Paid(m)) \in Nat /\ Places(m) \in Nat /\ Places(m)' \in Nat
  BY <1>2, FS_CardinalityType DEF Places, Coming, Waiting, Firing
<1>4. used.again[m] \in Nat
  BY DEF TypeOK, Usage
<1> QED BY <1>1, <1>2, <1>3, <1>4

LEMMA OtherPaid == TypeOK /\ PaidInv /\ (GateNext \/ BudgetNext) => PaidInv'
<1> SUFFICES ASSUME TypeOK, PaidInv, GateNext \/ BudgetNext PROVE PaidInv'
  OBVIOUS
<1>1. UNCHANGED <<slot, spawn, bridge, loop>>
  BY DEF GateNext, GateOpens, AnchorGatedRun, GateLeft, GateDecided, BudgetNext, BudgetEvaluate,
     BudgetMark, BudgetPublish, runVars, ruleVars
<1>2. (Faultless' => Faultless) /\ used'.again = used.again
  BY FaultSpends DEF GateNext, GateOpens, AnchorGatedRun, GateLeft, GateDecided, BudgetNext,
     BudgetEvaluate, BudgetMark, BudgetPublish, Faultless, TypeOK
<1>3. SameLoops
  BY <1>1 DEF SameLoops, Live
<1>4. \A m \in Messages : Places(m)' = Places(m) /\ Places(m) \in Nat
  BY <1>1 DEF Places, Coming, Waiting, Firing, Unclaimed, Live
<1>5. \A m \in Messages : Places(m)' <= Places(m)
  BY <1>4
<1> QED BY <1>2, <1>3, <1>5, PaidFrame

LEMMA BridgePaid == TypeOK /\ PaidInv /\ BridgeNext => PaidInv'
<1> SUFFICES ASSUME TypeOK, PaidInv, NEW m \in Messages,
                    \/ BridgeGuards(m) \/ BridgeLedger(m) \/ BridgeStamp(m)
                    \/ BridgeError(m) \/ BridgeRepeat(m)
             PROVE  PaidInv'
  BY DEF BridgeNext
<1> USE DEF BridgeGuards, BridgeLedger, BridgeStamp, BridgeError, BridgeRepeat
<1>0. UNCHANGED <<spawn, loop>>
  BY DEF ruleVars
<1>1. SameLoops /\ \A k \in Messages : Paid(k)' = Paid(k) /\ Firing(k)' = Firing(k)
  BY <1>0 DEF SameLoops, Live, Paid, Firing
<1>2. Faultless' => Faultless
  BY RepeatSpends DEF Faultless, TypeOK
<1>3. \A k \in Messages : k # m => Coming(k)' = Coming(k)
  BY DEF Coming, TypeOK
<1>4. CASE BridgeStamp(m)
  <2>1. slot'.id = m /\ bridge[m] # "done" /\ bridge'[m] = "done" /\ used' = used
    BY <1>4 DEF TypeOK
  <2>2. Coming(m) = 1 /\ Coming(m)' = 0
    BY <2>1 DEF Coming
  <2>3. \A k \in Messages : k # m => Waiting(k)' = 0
    BY <2>1 DEF Waiting
  <2>4. \A k \in Messages : Places(k)' <= Places(k)
    <3>1. \A k \in Messages : Waiting(k)' \in {0, 1}
      BY DEF Waiting
    <3> QED BY <1>1, <1>3, <2>2, <2>3, <3>1, PlacesCounted DEF Places
  <2> QED BY <1>1, <1>2, <2>1, <2>4, PaidFrame
<1>5. CASE BridgeGuards(m) \/ BridgeLedger(m) \/ BridgeError(m)
  <2>1. UNCHANGED <<slot, used>> /\ bridge[m] # "done"
    BY <1>5 DEF runVars
  <2>2. Coming(m) = 1 /\ Coming(m)' \in {0, 1}
    BY <2>1 DEF Coming
  <2>3. \A k \in Messages : Waiting(k)' = Waiting(k)
    BY <1>0, <2>1 DEF Waiting, Unclaimed, Live
  <2>4. \A k \in Messages : Places(k)' <= Places(k)
    BY <1>1, <1>3, <2>2, <2>3, PlacesCounted DEF Places
  <2> QED BY <1>1, <1>2, <2>1, <2>4, PaidFrame
<1>6. CASE BridgeRepeat(m)
  <2>1. slot' = slot /\ bridge[m] = "done" /\ Repeat(m)
    BY <1>6 DEF runVars
  <2>2. Coming(m) = 0 /\ Coming(m)' \in {0, 1}
    BY <2>1 DEF Coming
  <2>3. \A k \in Messages : Waiting(k)' = Waiting(k)
    BY <1>0, <2>1 DEF Waiting, Unclaimed, Live
  <2>4. /\ used'.again[m] = used.again[m] + 1
        /\ \A k \in Messages : k # m => used'.again[k] = used.again[k]
    BY <2>1, RepeatSpends DEF TypeOK
  <2> SUFFICES ASSUME Faultless', NEW k \in Messages
               PROVE  /\ IsFiniteSet(Paid(k)')
                      /\ Cardinality(Paid(k)') + Places(k)' <= 1 + used'.again[k]
    BY DEF PaidInv
  <2>5. IsFiniteSet(Paid(k)) /\ Cardinality(Paid(k)) + Places(k) <= 1 + used.again[k]
    BY <1>2 DEF PaidInv
  <2>6. Cardinality(Paid(k)) \in Nat /\ used.again[k] \in Nat
    BY <2>5, FS_CardinalityType DEF TypeOK, Usage
  <2>7. CASE k = m
    <3>1. Places(k)' <= Places(k) + 1 /\ Places(k) \in Nat /\ Places(k)' \in Nat
      BY <1>1, <2>2, <2>3, <2>7, PlacesCounted DEF Places
    <3> QED BY <1>1, <2>4, <2>5, <2>6, <2>7, <3>1
  <2>8. CASE k # m
    <3>1. Places(k)' = Places(k)
      BY <1>1, <1>3, <2>3, <2>8 DEF Places
    <3> QED BY <1>1, <2>4, <2>5, <2>8, <3>1
  <2> QED BY <2>7, <2>8
<1> QED BY <1>4, <1>5, <1>6

LEMMA SpawnPaid == TypeOK /\ InFlightInv /\ DispatchInv /\ PaidInv /\ SpawnNext => PaidInv'
<1> SUFFICES ASSUME TypeOK, InFlightInv, DispatchInv, PaidInv, SpawnNext, Faultless'
             PROVE  PaidInv'
  BY DEF PaidInv
<1>0. /\ Faultless /\ bridge' = bridge /\ slot' = slot /\ used' = used
      /\ \A m \in Messages : Coming(m)' = Coming(m)
  BY SpawnFaultless, FaultSpends DEF SpawnNext, SpawnEvaluate, SpawnMark, SpawnCount, SpawnPublish,
     Faultless, TypeOK, runVars, Coming
<1>1. CASE SpawnEvaluate
  <2>1. /\ loop' = loop /\ marker = NoMsg /\ slot.id # NoMsg /\ spawn.pc = "idle"
        /\ spawn' = [pc |-> "mark", id |-> slot.id, body |-> slot.body]
    BY <1>1 DEF SpawnEvaluate, SpawnWhen
  <2>2. \A l \in Loops : ~Live(l)
    BY <1>0, <2>1 DEF InFlightInv
  <2>3. slot.body = slot.id
    BY <1>0, <2>1, <2>2 DEF DispatchInv, Emptying, Live, Whole
  <2>4. \A m \in Messages : Waiting(m)' = 0 /\ Firing(m) = 0 /\ Firing(m)' = Waiting(m)
    BY <2>1, <2>2, <2>3 DEF Waiting, Firing, Unclaimed
  <2>5. \A m \in Messages : Places(m)' <= Places(m)
    BY <1>0, <2>4, PlacesCounted DEF Places
  <2>6. SameLoops
    BY <2>1 DEF SameLoops, Live
  <2> QED BY <1>0, <2>5, <2>6, PaidFrame
<1>2. CASE SpawnMark \/ SpawnCount
  <2>1. /\ loop' = loop /\ spawn.pc # "idle" /\ spawn'.pc # "idle" /\ spawn'.body = spawn.body
    BY <1>2 DEF SpawnMark, SpawnCount, TypeOK
  <2>2. \A m \in Messages : Waiting(m)' = 0 /\ Waiting(m) = 0 /\ Firing(m)' = Firing(m)
    BY <2>1 DEF Waiting, Firing, Unclaimed
  <2>3. \A m \in Messages : Places(m)' <= Places(m)
    BY <1>0, <2>2, PlacesCounted DEF Places
  <2>4. SameLoops
    BY <2>1 DEF SameLoops, Live
  <2> QED BY <1>0, <2>3, <2>4, PaidFrame
<1>3. ASSUME NEW l \in Loops, SpawnPublish(l) PROVE PaidInv'
  <2>1. spawn.pc = "publish" /\ spawn'.pc = "idle"
    BY <1>3 DEF SpawnPublish, NoFiring
  <2>2. /\ loop[l].pc = "unborn" /\ loop'[l].pc = "running" /\ loop'[l].prompt = spawn.body
        /\ \A k \in Loops : k # l => loop'[k] = loop[k]
    BY <1>3, PublishBirth
  <2> SUFFICES ASSUME NEW m \in Messages
               PROVE  /\ IsFiniteSet(Paid(m)')
                      /\ Cardinality(Paid(m)') + Places(m)' <= 1 + used'.again[m]
    BY DEF PaidInv
  <2>3. IsFiniteSet(Paid(m)) /\ Cardinality(Paid(m)) + Places(m) <= 1 + used.again[m]
    BY <1>0 DEF PaidInv
  <2>4. Cardinality(Paid(m)) \in Nat /\ used.again[m] \in Nat
    BY <2>3, FS_CardinalityType DEF TypeOK, Usage
  <2>5. Waiting(m)' = 0 /\ Waiting(m) = 0 /\ Firing(m)' = 0
    <3>1. Live(l)' /\ loop'[l].pc # "relMarker"
      BY <2>2 DEF Live
    <3> QED BY <2>1, <3>1 DEF Waiting, Firing, Unclaimed
  <2>6. CASE spawn.body = m
    <3>1. Paid(m)' = Paid(m) \cup {l} /\ l \notin Paid(m)
      BY <2>2, <2>6 DEF Paid
    <3>2. IsFiniteSet(Paid(m)') /\ Cardinality(Paid(m)') = Cardinality(Paid(m)) + 1
      BY <2>3, <3>1, FS_AddElement
    <3>3. Firing(m) = 1
      BY <2>1, <2>6 DEF Firing
    <3>4. Places(m) = Places(m)' + 1 /\ Places(m)' \in Nat
      BY <1>0, <2>5, <3>3, PlacesCounted DEF Places
    <3> QED BY <1>0, <2>3, <2>4, <3>2, <3>4
  <2>7. CASE spawn.body # m
    <3>1. Paid(m)' = Paid(m)
      BY <2>2, <2>7 DEF Paid
    <3>2. Places(m)' <= Places(m) /\ Places(m)' \in Nat /\ Places(m) \in Nat
      BY <1>0, <2>5, PlacesCounted DEF Places
    <3> QED BY <1>0, <2>3, <2>4, <3>1, <3>2
  <2> QED BY <2>6, <2>7
<1> QED BY <1>1, <1>2, <1>3 DEF SpawnNext

LEMMA LoopPaid ==
  ASSUME TypeOK, PaidInv, NEW l \in Loops,
         ToolNext(l) \/ EndNext(l) \/ ReleaseNext(l) \/ FaultNote(l)
  PROVE  PaidInv'
<1> SUFFICES ASSUME Faultless' PROVE PaidInv'
  BY DEF PaidInv
<1> USE DEF ToolNext, ReadPending, ReadDispatched, ReadLedger, StampIntent, MirrorRecorded,
            EndNext, EndLoop, ReleaseNext, ReleaseAuthor, ReleaseBody, ReleaseId, ReleaseMarker,
            Remove
<1>0. loop \in [Loops -> LoopState] /\ loop[l] \in LoopState
  BY DEF TypeOK
<1>1. Faultless /\ SameLoops /\ UNCHANGED <<bridge, spawn>>
  BY LoopFaultless, LoopsSame DEF FaultNote, ruleVars
<1>2. used' = used
  BY FaultSpends DEF FaultNote, Faultless, TypeOK
<1>3. \A m \in Messages : Coming(m)' = Coming(m) /\ Firing(m)' = Firing(m)
  BY <1>1 DEF Coming, Firing
<1>4. \A m \in Messages : Waiting(m)' <= Waiting(m)
  <2>1. CASE FaultNote(l)
    <3>1. (\A k \in Loops : loop'[k].pc = loop[k].pc) /\ slot' = slot
      BY <1>0, <2>1 DEF FaultNote, LoopState, runVars
    <3> QED BY <1>1, <3>1 DEF Waiting, Unclaimed, Live
  <2>2. CASE ReleaseMarker(l)
    <3>1. loop[l].pc = "relMarker" /\ loop'[l].pc = "released" /\ slot' = slot
          /\ \A k \in Loops : k # l => loop'[k] = loop[k]
      BY <1>0, <2>2 DEF LoopState
    <3>2. Unclaimed' = Unclaimed
      BY <1>1, <3>1 DEF Unclaimed, Live
    <3> QED BY <3>1, <3>2 DEF Waiting
  <2>3. CASE ReleaseId(l)
    <3>1. slot'.id = NoMsg
      BY <2>3, <1>2, FaultSpends DEF Faultless, TypeOK
    <3> QED BY <3>1, LaneAssumption DEF Waiting
  <2>4. CASE ToolNext(l) \/ EndNext(l) \/ ReleaseAuthor(l) \/ ReleaseBody(l)
    <3>1. loop'[l].pc \in {"bound", "ledger", "running", "stamp", "mirror", "ended", "relBody",
                           "relId"}
      <4>1. CASE ToolNext(l)
        BY <1>0, <4>1 DEF LoopState
      <4>2. CASE EndNext(l)
        BY <1>0, <4>2 DEF LoopState
      <4>3. CASE ReleaseAuthor(l) \/ ReleaseBody(l)
        <5>1. PICK pc \in {"relBody", "relId"} :
                \/ \E w : loop' = [loop EXCEPT ![l].pc = pc, ![l].wiped = w]
                \/ loop' = [loop EXCEPT ![l].pc = pc]
          BY <4>3
        <5> QED BY <1>0, <5>1 DEF LoopState
      <4> QED BY <2>4, <4>1, <4>2, <4>3
    <3>2. ~Unclaimed'
      BY <3>1 DEF Unclaimed, Live
    <3> QED BY <3>2 DEF Waiting
  <2> QED BY <2>1, <2>2, <2>3, <2>4
<1>5. \A m \in Messages : Places(m)' <= Places(m)
  <2>1. \A m \in Messages : Waiting(m)' \in {0, 1}
    BY DEF Waiting
  <2> QED BY <1>3, <1>4, <2>1, PlacesCounted DEF Places
<1> QED BY <1>1, <1>2, <1>5, PaidFrame

LEMMA StepPaid == TypeOK /\ InFlightInv /\ DispatchInv /\ PaidInv /\ [Next]_vars => PaidInv'
<1>1. PaidInv /\ UNCHANGED vars => PaidInv'
  BY DEF PaidInv, Paid, Places, Coming, Waiting, Firing, Unclaimed, Faultless, Live, vars, runVars,
     ruleVars
<1>2. TypeOK /\ LoseRuleState => PaidInv'
  BY LossFaults DEF PaidInv
<1> QED
  BY <1>1, <1>2, OtherPaid, BridgePaid, SpawnPaid, LoopPaid DEF Next

(* The gate never reads more than Budget comments, pays for each of them   *)
(* once and once more for each time it came again, and says it is          *)
(* exhausted only when nothing is in flight.                               *)
THEOREM SpendIsBounded == Spec => []SpendWithinBudget
<1>1. TypeOK /\ SpendInv /\ PaidInv => SpendWithinBudget
  <2> SUFFICES ASSUME TypeOK, SpendInv, PaidInv, Faultless, NEW m \in Messages
               PROVE  Cardinality(Paid(m)) <= 1 + used.again[m]
    BY DEF SpendWithinBudget, SpendInv
  <2>1. IsFiniteSet(Paid(m)) /\ Cardinality(Paid(m)) + Places(m) <= 1 + used.again[m]
    BY DEF PaidInv
  <2>2. Cardinality(Paid(m)) \in Nat
    BY <2>1, FS_CardinalityType
  <2>3. Places(m) \in Nat
    BY PlacesCounted DEF Places
  <2>4. used.again[m] \in Nat
    BY DEF TypeOK, Usage
  <2> QED BY <2>1, <2>2, <2>3, <2>4
<1> QED
  BY <1>1, InitType, StepType, InitInFlight, StepInFlight, InitDispatch, StepDispatch,
     InitSpend, StepSpend, InitPaid, StepPaid, PTL DEF Spec
=============================================================================
