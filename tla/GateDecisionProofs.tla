--------------------------- MODULE GateDecisionProofs ---------------------------
(***************************************************************************)
(* Proofs about GateDecision, for every set of commands and authors and    *)
(* every bound: the type invariant, and that the two lanes, the lifecycle  *)
(* rules and their races implement ChangeGate.                             *)
(***************************************************************************)
EXTENDS GateDecision, FiniteSetTheorems, TLAPS

LEMMA CmdWrite ==
  ASSUME NEW S, cmd \in [Commands -> S], NEW c \in Commands, NEW r \in S
  PROVE  [cmd EXCEPT ![c] = r] \in [Commands -> S]
  OBVIOUS

(* The routing rules count a dispatch per direction newly matched.         *)
LEMMA RouteType ==
  ASSUME dispatches \in Nat, Route
  PROVE  matched' \subseteq Directives /\ dispatches' \in Nat
<1> DEFINE now == {v \in Directives : RouteWhen(v)'}
<1>1. IsFiniteSet(Directives)
  <2>1. Directives = {"approve"} \cup {"reject"}
    BY DEF Directives
  <2> QED BY <2>1, FS_Singleton, FS_Union
<1>2. IsFiniteSet(now \ matched)
  BY <1>1, FS_Subset
<1>3. Cardinality(now \ matched) \in Nat
  BY <1>2, FS_CardinalityType
<1>4. matched' = now /\ dispatches' = dispatches + Cardinality(now \ matched)
  BY DEF Route
<1> HIDE DEF now
<1>5. dispatches' \in Nat
  BY <1>3, <1>4
<1>6. now \subseteq Directives
  BY DEF now
<1> QED
  BY <1>4, <1>5, <1>6

LEMMA NumbersTyped ==
  TypeOK => /\ dispatches \in Nat /\ writes \in Nat
            /\ used \in [readings : Nat, faults : Nat]
  BY DEF TypeOK

LEMMA FaultType ==
  ASSUME used \in [readings : Nat, faults : Nat], Fault
  PROVE  used' \in [readings : Nat, faults : Nat]
  BY DEF Fault

LEMMA IdleTyped ==
  /\ Idle \in ApplyState
  /\ \A n \in Nat : Delivery(n) \in ApplyState
  BY DEF Idle, Delivery, NoPost, Post, ApplyState, ApplySteps, Decisions, AuthorsOrNo

LEMMA RedeliveredTyped == apply \in ApplyState => Redelivered \in ApplyState
<1> SUFFICES ASSUME apply \in ApplyState PROVE Redelivered \in ApplyState
  OBVIOUS
<1>1. apply.deliveries + 1 \in Nat
  BY DEF ApplyState
<1> QED
  BY <1>1, IdleTyped DEF Redelivered

LEMMA InitType == Init => TypeOK
<1> SUFFICES ASSUME Init PROVE TypeOK
  OBVIOUS
<1>1. cmd \in [Commands -> [pc : {"queued", "read", "write", "done"}, tries : Nat]]
  BY DEF Init
<1>2. apply \in ApplyState
  BY IdleTyped DEF Init
<1>3. intent \in [value : Directives \cup {"", "none"}, author : AuthorsOrNo]
  BY DEF Init, AuthorsOrNo
<1>4. used \in [readings : Nat, faults : Nat]
  BY DEF Init
<1> QED
  BY <1>1, <1>2, <1>3, <1>4 DEF Init, TypeOK, Decisions, Words

LEMMA LifecycleType == TypeOK /\ LifecycleNext => TypeOK'
<1> SUFFICES ASSUME TypeOK, LifecycleNext PROVE TypeOK'
  OBVIOUS
<1> USE DEF TypeOK, laneVars, history
<1>1. CASE MintRun
  BY <1>1 DEF MintRun
<1>2. CASE ValidateChange
  BY <1>2 DEF ValidateChange
<1>3. CASE Park
  BY <1>3 DEF Park
<1>4. CASE ProjectTasks
  BY <1>4 DEF ProjectTasks
<1>5. ASSUME NEW r \in Rules, Fire(r) PROVE TypeOK'
  BY <1>5 DEF Fire
<1>6. ASSUME NEW r \in Rules, Move(r) PROVE TypeOK'
  <2>1. matched' \subseteq Directives /\ dispatches' \in Nat
    BY <1>6, RouteType DEF Move
  <2>2. phase' \in {"unminted", "executing", "awaiting_approval", "cancelled"}
    BY <1>6 DEF Move, Target, Edges, Rules
  <2> QED BY <1>6, <2>1, <2>2 DEF Move
<1> QED BY <1>1, <1>2, <1>3, <1>4, <1>5, <1>6 DEF LifecycleNext

LEMMA CommandType ==
  \A c \in Commands : TypeOK /\ (CommandNext(c) \/ CommandError(c) \/ CommandRepeat(c)) => TypeOK'
<1> SUFFICES ASSUME TypeOK, NEW c \in Commands,
                    CommandNext(c) \/ CommandError(c) \/ CommandRepeat(c)
             PROVE  TypeOK'
  OBVIOUS
<1> DEFINE S == [pc : {"queued", "read", "write", "done"}, tries : Nat]
<1>1. cmd \in [Commands -> S] /\ cmd[c] \in S
  BY DEF TypeOK
<1>2. \A pc \in {"queued", "read", "write", "done"} : [cmd EXCEPT ![c].pc = pc] \in [Commands -> S]
  BY <1>1
<1> USE DEF runVars, laneVars, history
<1>3. CASE CommandGuards(c)
  <2>1. cmd' \in [Commands -> S]
    BY <1>2, <1>3 DEF CommandGuards
  <2> QED BY <1>3, <2>1 DEF CommandGuards, TypeOK
<1>4. CASE CommandReads(c)
  <2>1. cmd' \in [Commands -> S]
    BY <1>2, <1>4 DEF CommandReads
  <2> QED BY <1>4, <2>1 DEF CommandReads, TypeOK
<1>5. CASE CommandWrites(c)
  <2>1. cmd' \in [Commands -> S]
    BY <1>2, <1>5 DEF CommandWrites
  <2>2. decision' \in Decisions
    BY <1>5 DEF CommandWrites, VerbOf, Decisions, Directives
  <2>3. matched' \subseteq Directives /\ dispatches' \in Nat
    BY <1>5, RouteType DEF CommandWrites, TypeOK
  <2>4. writes' \in Nat
    BY <1>5, NumbersTyped DEF CommandWrites
  <2> QED BY <1>5, <2>1, <2>2, <2>3, <2>4 DEF CommandWrites, TypeOK
<1>6. CASE CommandError(c)
  <2>1. cmd' \in [Commands -> S]
    <3>1. cmd[c].tries + 1 \in Nat
      BY <1>1
    <3>2. [pc |-> "queued", tries |-> cmd[c].tries + 1] \in S /\ [cmd[c] EXCEPT !.pc = "done"] \in S
      BY <1>1, <3>1
    <3> QED BY <1>1, <1>6, <3>2 DEF CommandError
  <2> QED BY <1>6, <2>1 DEF CommandError, TypeOK
<1>7. CASE CommandRepeat(c)
  <2>1. cmd' \in [Commands -> S]
    BY <1>1, <1>7 DEF CommandRepeat
  <2>2. used' \in [readings : Nat, faults : Nat]
    BY <1>7, FaultType, NumbersTyped DEF CommandRepeat
  <2> QED BY <1>7, <2>1, <2>2 DEF CommandRepeat, TypeOK
<1> QED BY <1>3, <1>4, <1>5, <1>6, <1>7 DEF CommandNext

LEMMA ClassifyType == \A v \in Decisions, a \in Authors : TypeOK /\ Classify(v, a) => TypeOK'
<1> SUFFICES ASSUME TypeOK, NEW v \in Decisions, NEW a \in Authors, Classify(v, a) PROVE TypeOK'
  OBVIOUS
<1>1. used' \in [readings : Nat, faults : Nat]
  BY NumbersTyped DEF Classify
<1>2. matched' \subseteq Directives /\ dispatches' \in Nat
  BY RouteType DEF Classify, TypeOK
<1>3. intent' \in [value : Directives \cup {"", "none"}, author : AuthorsOrNo]
  BY DEF Classify, Decisions, AuthorsOrNo
<1>4. readings' \subseteq Decisions \X Authors
  <2>1. readings \subseteq Decisions \X Authors
    BY DEF TypeOK
  <2>2. <<v, a>> \in Decisions \X Authors
    OBVIOUS
  <2> QED BY <2>1, <2>2 DEF Classify
<1> QED BY <1>1, <1>2, <1>3, <1>4 DEF Classify, TypeOK, runVars

LEMMA ApplyType == TypeOK /\ (ApplyNext \/ ApplyError \/ ApplyCrash) => TypeOK'
<1> SUFFICES ASSUME TypeOK, ApplyNext \/ ApplyError \/ ApplyCrash PROVE TypeOK'
  OBVIOUS
<1>0. apply \in ApplyState /\ decision \in Decisions /\ said \in Words
  BY DEF TypeOK
<1> USE DEF runVars, laneVars, history
<1>1. CASE ApplyTake
  <2>1. Delivery(1) \in ApplyState
    BY IdleTyped
  <2>2. dispatches' \in Nat
    BY <1>1, NumbersTyped DEF ApplyTake
  <2> QED BY <1>1, <2>1, <2>2 DEF ApplyTake, TypeOK
<1>2. CASE ApplyRead
  <2>1. intent.value \in Directives =>
          [apply EXCEPT !.pc = "announce", !.decision = intent.value, !.author = intent.author]
            \in ApplyState
    <3>1. intent.author \in AuthorsOrNo
      BY DEF TypeOK
    <3> QED BY <1>0, <3>1 DEF ApplyState, ApplySteps, Decisions
  <2>2. apply' \in ApplyState
    BY <1>2, <2>1, IdleTyped DEF ApplyRead
  <2> QED BY <1>2, <2>2 DEF ApplyRead, TypeOK
<1>3. CASE ApplyAnnounce
  <2>1. /\ apply.decision \in Decisions /\ apply.author \in AuthorsOrNo
    BY <1>0 DEF ApplyState
  <2>2. [apply EXCEPT !.pc = "reread", !.threaded = TRUE,
                      !.posted = Post(apply.decision, apply.author)] \in ApplyState
    BY <1>0, <2>1 DEF ApplyState, ApplySteps, Post
  <2>3. apply' \in ApplyState /\ said' \in Words
    BY <1>0, <1>3, <2>1, <2>2, IdleTyped DEF ApplyAnnounce, Words
  <2> QED BY <1>3, <2>3 DEF ApplyAnnounce, TypeOK
<1>4. CASE ApplyRereads
  <2>1. /\ [apply EXCEPT !.pc = "write"] \in ApplyState
        /\ [apply EXCEPT !.pc = "correct", !.landed = decision] \in ApplyState
    BY <1>0 DEF ApplyState, ApplySteps
  <2>2. apply' \in ApplyState
    BY <1>4, <2>1, IdleTyped DEF ApplyRereads
  <2> QED BY <1>4, <2>2 DEF ApplyRereads, TypeOK
<1>5. CASE ApplyWrites
  <2>1. decision' \in Decisions /\ apply' \in ApplyState
    BY <1>0, <1>5, IdleTyped DEF ApplyWrites, ApplyState
  <2>2. matched' \subseteq Directives /\ dispatches' \in Nat /\ writes' \in Nat
    BY <1>5, RouteType, NumbersTyped DEF ApplyWrites
  <2> QED BY <1>5, <2>1, <2>2 DEF ApplyWrites, TypeOK
<1>6. CASE ApplyCorrects
  <2>1. apply' \in ApplyState /\ said' \in Words /\ uncorrected' \in BOOLEAN
    <3>1. apply.landed \in Decisions
      BY <1>0 DEF ApplyState
    <3>2. uncorrected \in BOOLEAN
      BY DEF TypeOK
    <3> QED BY <1>0, <1>6, <3>1, <3>2, IdleTyped DEF ApplyCorrects, Words
  <2>2. used' \in [readings : Nat, faults : Nat]
    BY <1>6, FaultType, NumbersTyped DEF ApplyCorrects
  <2> QED BY <1>6, <2>1, <2>2 DEF ApplyCorrects, TypeOK
<1>7. CASE ApplyError
  <2>1. used' \in [readings : Nat, faults : Nat]
    BY <1>7, FaultType, NumbersTyped DEF ApplyError
  <2>2. PICK t \in BOOLEAN :
          \/ apply' = [apply EXCEPT !.pc = "read", !.attempt = @ + 1, !.threaded = t]
          \/ apply' = [apply EXCEPT !.pc = "notice", !.threaded = TRUE]
          \/ apply' = Redelivered
    <3>1. apply.threaded \in BOOLEAN
      BY <1>0 DEF ApplyState
    <3> QED BY <1>7, <3>1 DEF ApplyError
  <2>3. /\ [apply EXCEPT !.pc = "read", !.attempt = @ + 1, !.threaded = t] \in ApplyState
        /\ [apply EXCEPT !.pc = "notice", !.threaded = TRUE] \in ApplyState
    <3>1. apply.attempt + 1 \in Nat
      BY <1>0 DEF ApplyState
    <3> QED BY <1>0, <3>1 DEF ApplyState, ApplySteps
  <2>4. apply' \in ApplyState
    BY <1>0, <2>2, <2>3, RedeliveredTyped
  <2>5. stranded' \in BOOLEAN
    BY <1>7 DEF ApplyError, TypeOK
  <2> QED BY <1>7, <2>1, <2>4, <2>5 DEF ApplyError, TypeOK
<1>8. CASE ApplyNotice
  <2>1. apply' \in ApplyState /\ said' \in Words
    BY <1>0, <1>8, IdleTyped, RedeliveredTyped DEF ApplyNotice, Words
  <2>2. used' \in [readings : Nat, faults : Nat]
    BY <1>8, FaultType, NumbersTyped DEF ApplyNotice
  <2> QED BY <1>8, <2>1, <2>2 DEF ApplyNotice, TypeOK
<1>9. CASE ApplyCrash
  <2>1. used' \in [readings : Nat, faults : Nat] /\ apply' \in ApplyState
    BY <1>0, <1>9, FaultType, NumbersTyped, RedeliveredTyped DEF ApplyCrash
  <2>2. stranded' \in BOOLEAN
    BY <1>9 DEF ApplyCrash, TypeOK
  <2> QED BY <1>9, <2>1, <2>2 DEF ApplyCrash, TypeOK
<1> QED
  BY <1>1, <1>2, <1>3, <1>4, <1>5, <1>6, <1>7, <1>8, <1>9 DEF ApplyNext

LEMMA StepType == TypeOK /\ [Next]_vars => TypeOK'
<1>1. TypeOK /\ UNCHANGED vars => TypeOK'
  BY DEF TypeOK, vars, runVars, laneVars, history
<1> QED
  BY <1>1, LifecycleType, CommandType, ClassifyType, ApplyType DEF Next

(* Every reachable state of the gate is well-typed.                        *)
THEOREM TypeCorrect == Spec => []TypeOK
  BY InitType, StepType, PTL DEF Spec

-----------------------------------------------------------------------------
(* The strengthening under which the detailed gate implements ChangeGate:  *)
(* whoever is past a guard carries what that guard established, and before *)
(* the gate has opened nobody is past one.                                 *)

Opened == phase \in {"awaiting_approval", "cancelled"} \/ decision # "none"

Cited(d, a) == d \in Directives /\ <<d, a>> \in readings

NobodyBeforeGate ==
  ~Opened => /\ \A c \in Commands : cmd[c].pc \notin {"read", "write"}
             /\ dispatches = 0 /\ apply.pc = "idle"
             /\ firing \subseteq {"offer"}

HandlersGuarded ==
  /\ \A c \in Commands : cmd[c].pc \in {"read", "write"} => c \in Allowed \cap Fresh
  /\ intent.value \in Directives => Cited(intent.value, intent.author)
  /\ apply.pc \in {"announce", "reread", "write"} => Cited(apply.decision, apply.author)
  /\ apply.pc \in {"reread", "write"} => apply.author \in Admitted

FiringsJustified ==
  /\ "offer" \in firing => phase = "executing" /\ decision = "none"
  /\ "resume" \in firing => "approve" \in Asked /\ (decision = "approve" \/ writes > 1)
  /\ "cancel" \in firing => "reject" \in Asked /\ (decision = "reject" \/ writes > 1)
  /\ "cancel" \in firing /\ phase = "executing" => writes > 1

DecisionAsked ==
  /\ decision # "none" => decision \in Asked /\ phase # "unminted"
  /\ decision = "none" => phase # "cancelled" /\ firing \subseteq {"offer"}
  /\ writes = 0 <=> decision = "none"

GateInv == NobodyBeforeGate /\ HandlersGuarded /\ FiringsJustified /\ DecisionAsked

LEMMA InitInv == Init => GateInv
<1> SUFFICES ASSUME Init PROVE GateInv
  OBVIOUS
<1>1. \A c \in Commands : cmd[c].pc = "queued"
  BY DEF Init
<1>2. apply.pc = "idle" /\ intent.value = ""
  BY DEF Init, Idle
<1> QED
  BY <1>1, <1>2 DEF Init, GateInv, NobodyBeforeGate, HandlersGuarded, FiringsJustified,
                    DecisionAsked, Opened, Directives

LEMMA AskedFrame == readings \subseteq readings' => Asked \subseteq Asked'
  BY DEF Asked

LEMMA CitedAsked == \A d, a : Cited(d, a) /\ a \in Admitted => d \in Asked
  BY DEF Cited, Asked

LEMMA CommandAsked == \A c \in Allowed \cap Fresh : VerbOf(c) \in Asked
  BY DEF Asked

(* Nothing is dispatched unless the gate is open.                          *)
LEMMA RouteQuiet ==
  ASSUME dispatches \in Nat, Route, phase' # "awaiting_approval" PROVE dispatches' = dispatches
<1> DEFINE now == {v \in Directives : RouteWhen(v)'}
<1>1. now = {}
  BY DEF RouteWhen, GateOpen
<1>2. Cardinality(now \ matched) = 0
  <2>1. now \ matched = {}
    BY <1>1
  <2> QED BY <2>1, FS_EmptySet
<1>3. dispatches' = dispatches + Cardinality(now \ matched)
  BY DEF Route
<1> HIDE DEF now
<1> QED BY <1>2, <1>3

LEMMA LifecycleInv == TypeOK /\ GateInv /\ LifecycleNext => GateInv'
<1> SUFFICES ASSUME TypeOK, GateInv, LifecycleNext PROVE GateInv'
  OBVIOUS
<1>1. UNCHANGED <<cmd, intent, apply, readings, writes, decision>>
  BY DEF LifecycleNext, MintRun, ValidateChange, Park, ProjectTasks, Fire, Move, laneVars, history
<1>2. Asked' = Asked
  BY <1>1 DEF Asked
<1>3. dispatches \in Nat /\ decision \in Decisions
  BY DEF TypeOK
<1> USE DEF GateInv
<1>4. HandlersGuarded'
  BY <1>1 DEF HandlersGuarded, Cited
<1>5. CASE MintRun
  <2>1. UNCHANGED <<firing, dispatches>> /\ phase' = "executing" /\ phase = "unminted"
    BY <1>5 DEF MintRun, laneVars
  <2>2. decision = "none" /\ ~Opened /\ firing = {}
    BY <2>1 DEF DecisionAsked, Opened, FiringsJustified
  <2> QED BY <1>1, <1>2, <1>4, <2>1, <2>2
          DEF NobodyBeforeGate, FiringsJustified, DecisionAsked, Opened
<1>6. CASE ValidateChange \/ Park \/ ProjectTasks
  <2>1. UNCHANGED <<phase, firing, dispatches>>
    BY <1>6 DEF ValidateChange, Park, ProjectTasks, laneVars
  <2> QED BY <1>1, <1>2, <1>4, <2>1
          DEF NobodyBeforeGate, FiringsJustified, DecisionAsked, Opened
<1>7. ASSUME NEW r \in Rules, Fire(r) PROVE GateInv'
  <2>1. UNCHANGED <<phase, dispatches>> /\ firing' = firing \cup {r} /\ When(r)
    BY <1>7 DEF Fire, laneVars
  <2>2. CASE r = "offer"
    BY <1>1, <1>2, <1>4, <2>1, <2>2
    DEF When, OfferWhen, NobodyBeforeGate, FiringsJustified, DecisionAsked, Opened
  <2>3. CASE r = "resume"
    BY <1>1, <1>2, <1>4, <2>1, <2>3
    DEF When, ResumeWhen, NobodyBeforeGate, FiringsJustified, DecisionAsked, Opened
  <2>4. CASE r = "cancel"
    BY <1>1, <1>2, <1>4, <2>1, <2>4
    DEF When, CancelWhen, NobodyBeforeGate, FiringsJustified, DecisionAsked, Opened
  <2> QED BY <2>2, <2>3, <2>4 DEF Rules
<1>8. ASSUME NEW r \in Rules, Move(r) PROVE GateInv'
  <2>1. r \in firing /\ firing' = firing \ {r}
    BY <1>8 DEF Move
  <2>2. \/ phase' = phase
        \/ r = "offer" /\ phase = "executing" /\ phase' = "awaiting_approval"
        \/ r = "resume" /\ phase = "awaiting_approval" /\ phase' = "executing"
        \/ r = "cancel" /\ phase \in {"awaiting_approval", "executing"} /\ phase' = "cancelled"
    BY <1>8 DEF Move, Target, Edges, Rules
  <2>3. phase' # "awaiting_approval" => dispatches' = dispatches
    BY <1>3, <1>8, RouteQuiet DEF Move
  <2>4. CASE r = "offer"
    BY <1>1, <1>2, <1>4, <2>1, <2>2, <2>3, <2>4
    DEF NobodyBeforeGate, FiringsJustified, DecisionAsked, Opened
  <2>5. CASE r = "resume"
    <3>1. decision # "none"
      BY <2>1, <2>5 DEF DecisionAsked
    <3>2. "cancel" \in firing => writes > 1
      BY <2>1, <2>5 DEF FiringsJustified
    <3> QED
      BY <1>1, <1>2, <1>4, <2>1, <2>2, <2>5, <3>1, <3>2
      DEF NobodyBeforeGate, FiringsJustified, DecisionAsked, Opened
  <2>6. CASE r = "cancel"
    <3>1. decision # "none"
      BY <2>1, <2>6 DEF DecisionAsked
    <3> QED
      BY <1>1, <1>2, <1>4, <2>1, <2>2, <2>6, <3>1
      DEF NobodyBeforeGate, FiringsJustified, DecisionAsked, Opened
  <2> QED BY <2>4, <2>5, <2>6 DEF Rules
<1> QED BY <1>5, <1>6, <1>7, <1>8 DEF LifecycleNext

(* A decision is only written for something asked, after the gate opened,  *)
(* and a second one is counted as such.                                    *)
LEMMA WriteInv ==
  ASSUME TypeOK, GateInv, Opened, NEW d \in Asked \cap Directives,
         decision' = d, writes' = writes + 1, UNCHANGED <<phase, firing, readings, intent>>,
         HandlersGuarded'
  PROVE  GateInv'
<1>1. Asked' = Asked
  BY DEF Asked
<1>2. writes \in Nat /\ d # "none"
  BY DEF TypeOK, Directives
<1>3. decision = "none" => firing = {}
  BY DEF GateInv, DecisionAsked, FiringsJustified, Opened
<1>4. decision # "none" => writes' > 1
  BY <1>2 DEF GateInv, DecisionAsked
<1>5. FiringsJustified'
  BY <1>1, <1>2, <1>3, <1>4 DEF GateInv, FiringsJustified
<1>6. DecisionAsked'
  <2>1. writes' # 0
    BY <1>2
  <2>2. phase' # "unminted"
    BY DEF Opened, GateInv, DecisionAsked
  <2> QED BY <1>1, <1>2, <2>1, <2>2 DEF DecisionAsked
<1>7. NobodyBeforeGate'
  BY <1>2 DEF NobodyBeforeGate, Opened
<1> QED BY <1>5, <1>6, <1>7 DEF GateInv

(* A step of a handler that moves neither the run nor the decision.        *)
LEMMA HandlerInv ==
  ASSUME GateInv, UNCHANGED <<phase, firing, decision, writes, readings>>, HandlersGuarded',
         NobodyBeforeGate'
  PROVE  GateInv'
<1>1. Asked' = Asked
  BY DEF Asked
<1> QED BY <1>1 DEF GateInv, FiringsJustified, DecisionAsked

LEMMA CommandInv ==
  \A c \in Commands :
    TypeOK /\ GateInv /\ (CommandNext(c) \/ CommandError(c) \/ CommandRepeat(c)) => GateInv'
<1> SUFFICES ASSUME TypeOK, GateInv, NEW c \in Commands,
                    CommandNext(c) \/ CommandError(c) \/ CommandRepeat(c)
             PROVE  GateInv'
  OBVIOUS
<1> USE DEF CommandNext, CommandGuards, CommandReads, CommandWrites, CommandError, CommandRepeat,
            runVars, laneVars, history
<1>1. \A k \in Commands : k # c => cmd'[k] = cmd[k]
  BY DEF TypeOK
<1>2. UNCHANGED <<phase, firing, intent, apply, readings>>
  OBVIOUS
<1>3. CASE CommandWrites(c)
  <2>1. cmd[c].pc = "write" /\ cmd'[c].pc = "done"
    BY <1>3 DEF TypeOK
  <2>2. Opened /\ c \in Allowed \cap Fresh
    BY <2>1 DEF GateInv, NobodyBeforeGate, HandlersGuarded
  <2>3. VerbOf(c) \in Asked \cap Directives
    BY <2>2, CommandAsked DEF VerbOf, Directives
  <2>4. HandlersGuarded'
    BY <1>1, <1>2, <2>1 DEF GateInv, HandlersGuarded, Cited
  <2>5. decision' = VerbOf(c) /\ writes' = writes + 1
    BY <1>3
  <2> QED BY <1>2, <2>2, <2>3, <2>4, <2>5, WriteInv
<1>4. CASE CommandGuards(c) \/ CommandReads(c) \/ CommandError(c) \/ CommandRepeat(c)
  <2>1. UNCHANGED <<decision, writes, dispatches>>
    BY <1>4
  <2>2. cmd'[c].pc \in {"read", "write"} => c \in Allowed \cap Fresh /\ Opened
    <3>1. CASE CommandGuards(c)
      BY <3>1 DEF TypeOK, Opened
    <3>2. CASE CommandReads(c)
      BY <3>2 DEF TypeOK, GateInv, HandlersGuarded, NobodyBeforeGate
    <3>3. CASE CommandError(c)
      <4>0. cmd[c] \in [pc : {"queued", "read", "write", "done"}, tries : Nat]
        BY DEF TypeOK
      <4>1. [cmd[c] EXCEPT !.pc = "done"].pc = "done"
        BY <4>0
      <4>2. cmd'[c].pc \in {"queued", "done"}
        BY <3>3, <4>1 DEF TypeOK
      <4> QED BY <4>2
    <3>4. CASE CommandRepeat(c)
      BY <3>4 DEF TypeOK
    <3> QED BY <1>4, <3>1, <3>2, <3>3, <3>4
  <2>3. HandlersGuarded' /\ NobodyBeforeGate'
    BY <1>1, <1>2, <2>1, <2>2 DEF GateInv, HandlersGuarded, NobodyBeforeGate, Cited, Opened
  <2> QED BY <1>2, <2>1, <2>3, HandlerInv
<1> QED BY <1>3, <1>4

LEMMA ClassifyInv ==
  \A v \in Decisions, a \in Authors : TypeOK /\ GateInv /\ Classify(v, a) => GateInv'
<1> SUFFICES ASSUME TypeOK, GateInv, NEW v \in Decisions, NEW a \in Authors, Classify(v, a)
             PROVE  GateInv'
  OBVIOUS
<1>1. /\ UNCHANGED <<phase, firing, decision, cmd, apply, writes>> /\ Opened
      /\ intent' = [value |-> v, author |-> a] /\ readings' = readings \cup {<<v, a>>}
  BY DEF Classify, runVars, Opened
<1>2. HandlersGuarded'
  BY <1>1 DEF GateInv, HandlersGuarded, Cited
<1>3. NobodyBeforeGate'
  BY <1>1 DEF NobodyBeforeGate, Opened
<1>4. Asked \subseteq Asked'
  BY <1>1, AskedFrame
<1> QED BY <1>1, <1>2, <1>3, <1>4 DEF GateInv, FiringsJustified, DecisionAsked

LEMMA ApplyInv == TypeOK /\ GateInv /\ (ApplyNext \/ ApplyError \/ ApplyCrash) => GateInv'
<1> SUFFICES ASSUME TypeOK, GateInv, ApplyNext \/ ApplyError \/ ApplyCrash PROVE GateInv'
  OBVIOUS
<1>0. apply \in ApplyState /\ dispatches \in Nat
  BY DEF TypeOK
<1>1. UNCHANGED <<phase, firing, cmd, intent, readings>>
  BY DEF ApplyNext, ApplyTake, ApplyRead, ApplyAnnounce, ApplyRereads, ApplyWrites, ApplyCorrects,
         ApplyNotice, ApplyError, ApplyCrash, runVars, laneVars, history
<1>2. Opened
  <2>1. apply.pc # "idle" \/ dispatches # 0
    <3>1. CASE ApplyTake
      BY <1>0, <3>1 DEF ApplyTake
    <3>2. CASE ~ApplyTake
      BY <3>2 DEF ApplyNext, ApplyRead, ApplyAnnounce, ApplyRereads, ApplyWrites, ApplyCorrects,
                  ApplyNotice, ApplyError, ApplyCrash
    <3> QED BY <3>1, <3>2
  <2> QED BY <2>1 DEF GateInv, NobodyBeforeGate
<1>3. CASE ApplyWrites
  <2>1. apply.decision \in Asked \cap Directives
    BY <1>3, CitedAsked DEF ApplyWrites, GateInv, HandlersGuarded, Cited
  <2>2. apply'.pc = "idle"
    BY <1>3 DEF ApplyWrites, Idle
  <2>3. HandlersGuarded'
    BY <1>1, <2>2 DEF GateInv, HandlersGuarded, Cited
  <2> QED BY <1>1, <1>2, <1>3, <2>1, <2>3, WriteInv DEF ApplyWrites
<1>4. CASE ~ApplyWrites
  <2>1. UNCHANGED <<decision, writes>>
    BY <1>4 DEF ApplyNext, ApplyTake, ApplyRead, ApplyAnnounce, ApplyRereads, ApplyCorrects,
                ApplyNotice, ApplyError, ApplyCrash, runVars, history
  <2>2. NobodyBeforeGate'
    BY <1>1, <1>2, <2>1 DEF NobodyBeforeGate, Opened
  <2>3. \A n : Delivery(n).pc = "read" /\ Idle.pc = "idle"
    BY DEF Delivery, Idle
  <2>4. CASE ApplyRead
    <3>1. \/ apply' = Idle
          \/ /\ intent.value \in Directives
             /\ apply' = [apply EXCEPT !.pc = "announce", !.decision = intent.value,
                                       !.author = intent.author]
      BY <2>4 DEF ApplyRead
    <3>2. apply'.pc \in {"announce", "reread", "write"} =>
            apply'.pc = "announce" /\ Cited(apply'.decision, apply'.author)
      BY <1>0, <2>3, <3>1 DEF GateInv, HandlersGuarded, ApplyState
    <3> QED BY <1>1, <2>1, <2>2, <3>2, HandlerInv DEF GateInv, HandlersGuarded, Cited
  <2>5. CASE ApplyAnnounce \/ ApplyRereads
    <3>1. apply'.pc \in {"announce", "reread", "write"} =>
            /\ apply'.decision = apply.decision /\ apply'.author = apply.author
            /\ apply.author \in Admitted /\ Cited(apply.decision, apply.author)
      <4>1. CASE ApplyAnnounce
        BY <1>0, <2>3, <4>1 DEF ApplyAnnounce, GateInv, HandlersGuarded, ApplyState
      <4>2. CASE ApplyRereads
        BY <1>0, <2>3, <4>2 DEF ApplyRereads, GateInv, HandlersGuarded, ApplyState
      <4> QED BY <2>5, <4>1, <4>2
    <3> QED BY <1>1, <2>1, <2>2, <3>1, HandlerInv DEF GateInv, HandlersGuarded, Cited
  <2>6. CASE ApplyTake \/ ApplyCorrects \/ ApplyNotice \/ ApplyError \/ ApplyCrash
    <3>1. apply'.pc \in {"idle", "read", "notice"}
      BY <1>0, <2>3, <2>6 DEF ApplyTake, ApplyCorrects, ApplyNotice, ApplyError, ApplyCrash,
                              Redelivered, ApplyState
    <3> QED BY <1>1, <2>1, <2>2, <3>1, HandlerInv DEF GateInv, HandlersGuarded, Cited
  <2> QED BY <1>4, <2>4, <2>5, <2>6 DEF ApplyNext
<1> QED BY <1>3, <1>4

LEMMA StepInv == TypeOK /\ GateInv /\ [Next]_vars => GateInv'
<1>1. GateInv /\ UNCHANGED vars => GateInv'
  BY DEF GateInv, NobodyBeforeGate, HandlersGuarded, FiringsJustified, DecisionAsked, Opened,
         Cited, Asked, vars, runVars, laneVars, history
<1> QED
  BY <1>1, LifecycleInv, CommandInv, ClassifyInv, ApplyInv DEF Next

-----------------------------------------------------------------------------
(* The refinement: the gate moves by Open, Settle and Overrule only when a *)
(* lifecycle rule writes its transition; a first decision is a stutter, a  *)
(* second one is Race; a classification is Ask.                            *)

LEMMA GateMapped ==
  /\ phase = "awaiting_approval" => Gate = "open"
  /\ phase = "cancelled" => Gate = "reject"
  /\ phase \in {"unminted", "executing"} /\ decision = "none" => Gate = "before"
  /\ phase \in {"unminted", "executing"} /\ decision # "none" => Gate = "approve"
  BY DEF Gate

LEMMA InitAbstract == Init => Abstract!Init
<1> SUFFICES ASSUME Init PROVE Abstract!Init
  OBVIOUS
<1>1. Gate = "before"
  BY GateMapped DEF Init
<1>2. Asked \subseteq Directives
  BY DEF Asked, VerbOf, Directives
<1>3. ~(writes > 1)
  <2>1. writes = 0
    BY DEF Init
  <2> QED BY <2>1
<1> QED BY <1>1, <1>2, <1>3 DEF Abstract!Init

LEMMA FrameAbstract ==
  ASSUME UNCHANGED <<phase, decision, readings, writes>>
  PROVE  UNCHANGED <<Gate, Asked, writes > 1>>
<1>1. Gate' = Gate
  BY DEF Gate
<1>2. Asked' = Asked
  BY DEF Asked
<1> QED BY <1>1, <1>2

(* A transition of the phase.                                              *)
LEMMA MoveAbstract ==
  ASSUME TypeOK, GateInv, NEW r \in Rules, Move(r)
  PROVE  [Abstract!Next]_<<Gate, Asked, writes > 1>>
<1>1. UNCHANGED <<decision, readings, writes>> /\ r \in firing
  BY DEF Move, history
<1>2. UNCHANGED <<Asked, writes > 1>>
  BY <1>1 DEF Asked
<1>3. CASE phase' = phase
  BY <1>1, <1>3, FrameAbstract
<1>4. CASE phase' # phase /\ r = "offer"
  <2>1. phase = "executing" /\ phase' = "awaiting_approval" /\ decision = "none"
    BY <1>1, <1>4 DEF Move, Target, Edges, GateInv, FiringsJustified
  <2>2. Gate = "before" /\ Gate' = "open"
    BY <2>1 DEF Gate
  <2> QED BY <1>2, <2>2 DEF Abstract!Next, Abstract!Open
<1>5. CASE phase' # phase /\ r = "resume"
  <2>1. phase = "awaiting_approval" /\ phase' = "executing" /\ decision # "none"
    BY <1>1, <1>5 DEF Move, Target, Edges, GateInv, DecisionAsked
  <2>2. Gate = "open" /\ Gate' = "approve"
    BY <1>1, <2>1 DEF Gate
  <2>3. "approve" \in Asked
    BY <1>1, <1>5 DEF GateInv, FiringsJustified
  <2>4. "approve" \in Directives
    BY DEF Directives
  <2> QED BY <1>2, <2>2, <2>3, <2>4 DEF Abstract!Next, Abstract!Settle
<1>6. CASE phase' # phase /\ r = "cancel"
  <2>1. phase \in {"awaiting_approval", "executing"} /\ phase' = "cancelled" /\ decision # "none"
    BY <1>1, <1>6 DEF Move, Target, Edges, GateInv, DecisionAsked
  <2>2. "reject" \in Asked /\ "reject" \in Directives /\ Gate' = "reject"
    BY <1>1, <1>6, <2>1 DEF GateInv, FiringsJustified, Directives, Gate
  <2>3. CASE phase = "awaiting_approval"
    BY <1>2, <2>2, <2>3, GateMapped DEF Abstract!Next, Abstract!Settle
  <2>4. CASE phase = "executing"
    <3>1. Gate = "approve" /\ writes > 1
      BY <1>1, <1>6, <2>1, <2>4, GateMapped DEF GateInv, FiringsJustified
    <3> QED BY <1>2, <2>2, <3>1 DEF Abstract!Next, Abstract!Overrule
  <2> QED BY <2>1, <2>3, <2>4
<1> QED BY <1>3, <1>4, <1>5, <1>6 DEF Rules

(* A decision written: the phase has not moved, so the gate has not.       *)
LEMMA WriteAbstract ==
  ASSUME TypeOK, GateInv, Opened, decision' \in Directives, writes' = writes + 1,
         UNCHANGED <<phase, readings>>
  PROVE  [Abstract!Next]_<<Gate, Asked, writes > 1>>
<1>1. Asked' = Asked
  BY DEF Asked
<1>2. decision' # "none" /\ writes \in Nat
  BY DEF Directives, TypeOK
<1>3. phase \in {"awaiting_approval", "cancelled", "executing"}
      /\ (phase = "executing" => decision # "none")
  BY DEF Opened, GateInv, DecisionAsked, TypeOK
<1>4. Gate' = Gate /\ Gate # "before"
  BY <1>2, <1>3 DEF Gate
<1>5. CASE writes = 0
  BY <1>1, <1>2, <1>4, <1>5
<1>6. CASE writes > 0
  <2>1. writes' > 1
    BY <1>2, <1>6
  <2> QED BY <1>1, <1>4, <2>1 DEF Abstract!Next, Abstract!Race
<1> QED BY <1>2, <1>5, <1>6

LEMMA StepAbstract ==
  TypeOK /\ GateInv /\ [Next]_vars => [Abstract!Next]_<<Gate, Asked, writes > 1>>
<1> SUFFICES ASSUME TypeOK, GateInv, [Next]_vars
             PROVE  [Abstract!Next]_<<Gate, Asked, writes > 1>>
  OBVIOUS
<1>1. CASE UNCHANGED vars
  BY <1>1, FrameAbstract DEF vars, runVars, history
<1>2. ASSUME NEW r \in Rules, Move(r) PROVE [Abstract!Next]_<<Gate, Asked, writes > 1>>
  BY <1>2, MoveAbstract
<1>3. CASE MintRun
  <2>1. phase = "unminted" /\ phase' = "executing" /\ UNCHANGED <<decision, readings, writes>>
    BY <1>3 DEF MintRun, history
  <2>2. Gate' = Gate
    BY <2>1 DEF Gate
  <2>3. Asked' = Asked
    BY <2>1 DEF Asked
  <2> QED BY <2>1, <2>2, <2>3
<1>4. CASE \/ ValidateChange \/ Park \/ ProjectTasks \/ \E r \in Rules : Fire(r)
  BY <1>4, FrameAbstract DEF ValidateChange, Park, ProjectTasks, Fire, history
<1>5. ASSUME NEW c \in Commands, CommandNext(c) \/ CommandError(c) \/ CommandRepeat(c)
      PROVE  [Abstract!Next]_<<Gate, Asked, writes > 1>>
  <2>1. CASE CommandWrites(c)
    <3>1. Opened
      BY <2>1 DEF CommandWrites, GateInv, NobodyBeforeGate
    <3>2. decision' \in Directives /\ writes' = writes + 1 /\ UNCHANGED <<phase, readings>>
      BY <2>1 DEF CommandWrites, VerbOf, Directives
    <3> QED BY <3>1, <3>2, WriteAbstract
  <2>2. CASE ~CommandWrites(c)
    BY <1>5, <2>2, FrameAbstract
    DEF CommandNext, CommandGuards, CommandReads, CommandError, CommandRepeat, runVars, history
  <2> QED BY <2>1, <2>2
<1>6. ASSUME NEW v \in Decisions, NEW a \in Authors, Classify(v, a)
      PROVE  [Abstract!Next]_<<Gate, Asked, writes > 1>>
  <2>1. UNCHANGED <<phase, decision, writes>> /\ readings \subseteq readings'
    BY <1>6 DEF Classify, runVars
  <2>2. Gate' = Gate
    BY <2>1 DEF Gate
  <2>3. Asked \subseteq Asked'
    BY <2>1, AskedFrame
  <2>4. Asked' \subseteq Directives
    BY DEF Asked, VerbOf, Directives
  <2> QED BY <2>1, <2>2, <2>3, <2>4 DEF Abstract!Next, Abstract!Ask
<1>7. CASE ApplyNext \/ ApplyError \/ ApplyCrash
  <2>1. CASE ApplyWrites
    <3>1. Opened
      BY <2>1 DEF ApplyWrites, GateInv, NobodyBeforeGate
    <3>2. decision' \in Directives
      BY <2>1 DEF ApplyWrites, GateInv, HandlersGuarded, Cited
    <3>3. writes' = writes + 1 /\ UNCHANGED <<phase, readings>>
      BY <2>1 DEF ApplyWrites
    <3> QED BY <3>1, <3>2, <3>3, WriteAbstract
  <2>2. CASE ~ApplyWrites
    BY <1>7, <2>2, FrameAbstract
    DEF ApplyNext, ApplyTake, ApplyRead, ApplyAnnounce, ApplyRereads, ApplyCorrects, ApplyNotice,
        ApplyError, ApplyCrash, runVars, history
  <2> QED BY <2>1, <2>2
<1> QED BY <1>1, <1>2, <1>3, <1>4, <1>5, <1>6, <1>7 DEF Next, LifecycleNext

(* The two lanes, the lifecycle rules and every interleaving of them keep  *)
(* the promise of the gate: it settles only for what was asked, a          *)
(* rejection is final, and only racing writers can undo an approval.       *)
THEOREM GateImplementsPromise == Spec => SettledOnceAsAsked
<1>1. Init /\ [][Next]_vars /\ []TypeOK /\ []GateInv => Abstract!Spec
  BY InitAbstract, StepAbstract, PTL DEF Abstract!Spec
<1>2. Spec => []TypeOK /\ []GateInv
  BY InitType, StepType, InitInv, StepInv, PTL DEF Spec
<1> QED
  BY <1>1, <1>2, PTL DEF Spec, SettledOnceAsAsked

-----------------------------------------------------------------------------
(* The thread.  Its last word is the post this delivery made, as long as   *)
(* the delivery has one (AsPosted); past its post the lane carries what it *)
(* posted (PastPost); a correction is about the one decision there is      *)
(* (Corrects); and a last word that is not the decision is still about to  *)
(* be stamped or corrected, by a lane that is past its post (Pending).     *)

AsPosted == apply.posted # NoPost => said = apply.posted.decision

PastPost == apply.pc \in {"reread", "write", "correct"} =>
              /\ apply.decision \in Directives
              /\ apply.posted = Post(apply.decision, apply.author)

Corrects == apply.pc = "correct" =>
              decision # "none" /\ (writes = 1 => apply.landed = decision)

Astray == said \in Directives /\ said # decision /\ writes < 2 /\ ~uncorrected /\ ~stranded

Pending == Astray => apply.pc \in {"reread", "write", "correct"}

ThreadInv == AsPosted /\ PastPost /\ Corrects /\ Pending

LEMMA PostFacts ==
  /\ Idle.posted = NoPost /\ Idle.pc = "idle"
  /\ \A n : Delivery(n).posted = NoPost /\ Delivery(n).pc = "read"
  /\ \A d, a : Post(d, a).decision = d
  /\ \A d \in Directives : \A a : Post(d, a) # NoPost
  BY DEF Idle, Delivery, NoPost, Post, Directives

LEMMA RedeliveredFresh ==
  Redelivered.posted = NoPost /\ Redelivered.pc \in {"idle", "read"}
  BY PostFacts DEF Redelivered

LEMMA InitThread == Init => ThreadInv
<1> SUFFICES ASSUME Init PROVE ThreadInv
  OBVIOUS
<1>1. apply = Idle /\ said \notin Directives
  BY DEF Init, Directives
<1> QED BY <1>1, PostFacts DEF ThreadInv, AsPosted, PastPost, Corrects, Pending, Astray

(* Whatever leaves the thread, the lane and the decision alone.            *)
LEMMA ThreadFrame ==
  ASSUME ThreadInv, UNCHANGED <<apply, said, decision, writes, stranded, uncorrected>>
  PROVE  ThreadInv'
  BY DEF ThreadInv, AsPosted, PastPost, Corrects, Pending, Astray

LEMMA OthersThread ==
  TypeOK /\ GateInv /\ ThreadInv
  /\ (\/ LifecycleNext \/ \E v \in Decisions, a \in Authors : Classify(v, a)
      \/ \E c \in Commands : CommandNext(c) \/ CommandError(c) \/ CommandRepeat(c))
  => ThreadInv'
<1> SUFFICES ASSUME TypeOK, GateInv, ThreadInv PROVE
      (\/ LifecycleNext \/ \E v \in Decisions, a \in Authors : Classify(v, a)
       \/ \E c \in Commands : CommandNext(c) \/ CommandError(c) \/ CommandRepeat(c))
      => ThreadInv'
  OBVIOUS
<1>1. ASSUME LifecycleNext PROVE ThreadInv'
  BY <1>1, ThreadFrame
  DEF LifecycleNext, MintRun, ValidateChange, Park, ProjectTasks, Fire, Move, history
<1>2. ASSUME NEW v \in Decisions, NEW a \in Authors, Classify(v, a) PROVE ThreadInv'
  BY <1>2, ThreadFrame DEF Classify, runVars
<1>3. ASSUME NEW c \in Commands, CommandNext(c) \/ CommandError(c) \/ CommandRepeat(c)
      PROVE  ThreadInv'
  <2>1. CASE CommandWrites(c)
    <3>1. /\ UNCHANGED <<apply, said, stranded, uncorrected>>
          /\ writes' = writes + 1 /\ decision' \in Directives
      BY <2>1 DEF CommandWrites, VerbOf, Directives
    <3>2. writes \in Nat /\ (writes = 0 <=> decision = "none")
      BY DEF TypeOK, GateInv, DecisionAsked
    <3>3. Corrects'
      <4>1. apply.pc = "correct" => decision' # "none" /\ writes' # 1
        BY <3>1, <3>2 DEF ThreadInv, Corrects, Directives
      <4> QED BY <3>1, <4>1 DEF Corrects
    <3>4. Pending'
      <4>1. Astray' => said \in Directives /\ writes = 0 /\ ~uncorrected /\ ~stranded
        BY <3>1, <3>2 DEF Astray
      <4>2. Astray' => Astray
        BY <3>2, <4>1 DEF Astray, Directives
      <4> QED BY <3>1, <4>2 DEF ThreadInv, Pending
    <3> QED BY <3>1, <3>3, <3>4 DEF ThreadInv, AsPosted, PastPost
  <2>2. CASE ~CommandWrites(c)
    BY <1>3, <2>2, ThreadFrame
    DEF CommandNext, CommandGuards, CommandReads, CommandError, CommandRepeat, runVars, history
  <2> QED BY <2>1, <2>2
<1> QED BY <1>1, <1>2, <1>3

(* A delivery that ends without having posted leaves nothing astray.       *)
LEMMA ThreadRests ==
  ASSUME apply'.posted = NoPost, apply'.pc \in {"idle", "read"}, ~Astray'
  PROVE  ThreadInv'
  BY DEF ThreadInv, AsPosted, PastPost, Corrects, Pending

LEMMA ApplyThread ==
  TypeOK /\ GateInv /\ ThreadInv /\ (ApplyNext \/ ApplyError \/ ApplyCrash) => ThreadInv'
<1> SUFFICES ASSUME TypeOK, GateInv, ThreadInv, ApplyNext \/ ApplyError \/ ApplyCrash
             PROVE  ThreadInv'
  OBVIOUS
<1>0. apply \in ApplyState /\ writes \in Nat /\ (writes = 0 <=> decision = "none")
  BY DEF TypeOK, GateInv, DecisionAsked
<1>1. CASE ApplyTake
  <2>1. /\ UNCHANGED <<said, decision, writes, stranded, uncorrected>>
        /\ apply.pc = "idle" /\ apply' = Delivery(1)
    BY <1>1 DEF ApplyTake, runVars, history
  <2>2. ~Astray'
    BY <2>1 DEF Astray, ThreadInv, Pending
  <2> QED BY <2>1, <2>2, PostFacts, ThreadRests
<1>2. CASE ApplyRead
  <2>1. UNCHANGED <<said, decision, writes, stranded, uncorrected>> /\ apply.pc = "read"
    BY <1>2 DEF ApplyRead, runVars, history
  <2>2. ~Astray /\ ~Astray'
    BY <2>1 DEF Astray, ThreadInv, Pending
  <2>3. CASE apply' = Idle
    BY <2>2, <2>3, PostFacts, ThreadRests
  <2>4. CASE apply' = [apply EXCEPT !.pc = "announce", !.decision = intent.value,
                                    !.author = intent.author]
    <3>1. apply'.pc = "announce" /\ apply'.posted = apply.posted
      BY <1>0, <2>4 DEF ApplyState
    <3> QED BY <2>1, <2>2, <3>1 DEF ThreadInv, AsPosted, PastPost, Corrects, Pending
  <2> QED BY <1>2, <2>3, <2>4 DEF ApplyRead
<1>3. CASE ApplyAnnounce
  <2>1. UNCHANGED <<decision, writes, stranded, uncorrected>> /\ apply.pc = "announce"
    BY <1>3 DEF ApplyAnnounce, runVars, history
  <2>2. ~Astray /\ apply.decision \in Directives
    BY <2>1 DEF ThreadInv, Pending, GateInv, HandlersGuarded, Cited
  <2>3. CASE apply.author \in Admitted
    <3>1. /\ apply'.pc = "reread" /\ apply'.decision = apply.decision
          /\ apply'.author = apply.author
          /\ apply'.posted = Post(apply.decision, apply.author)
      BY <1>0, <1>3, <2>3 DEF ApplyAnnounce, ApplyState
    <3>2. said' = apply.decision
      <4>1. apply.posted = Post(apply.decision, apply.author) => said = apply.decision
        BY <2>2, PostFacts DEF ThreadInv, AsPosted
      <4> QED BY <1>3, <2>3, <4>1 DEF ApplyAnnounce
    <3>3. apply'.posted.decision = apply.decision
      BY <3>1, PostFacts
    <3> QED BY <2>2, <3>1, <3>2, <3>3 DEF ThreadInv, AsPosted, PastPost, Corrects, Pending
  <2>4. CASE apply.author \notin Admitted
    <3>1. apply' = Idle /\ said' = said
      BY <1>3, <2>4 DEF ApplyAnnounce
    <3>2. ~Astray'
      BY <2>1, <2>2, <3>1 DEF Astray
    <3> QED BY <3>1, <3>2, PostFacts, ThreadRests
  <2> QED BY <2>3, <2>4
<1>4. CASE ApplyRereads
  <2>1. UNCHANGED <<said, decision, writes, stranded, uncorrected>> /\ apply.pc = "reread"
    BY <1>4 DEF ApplyRereads, runVars, history
  <2>2. /\ apply.decision \in Directives /\ apply.posted = Post(apply.decision, apply.author)
        /\ said = apply.decision
    BY <2>1, PostFacts DEF ThreadInv, PastPost, AsPosted
  <2>3. CASE apply' = Idle /\ decision = apply.decision
    <3>1. ~Astray'
      BY <2>1, <2>2, <2>3 DEF Astray
    <3> QED BY <2>3, <3>1, PostFacts, ThreadRests
  <2>4. CASE apply' = [apply EXCEPT !.pc = "write"]
    <3>1. /\ apply'.pc = "write" /\ apply'.posted = apply.posted
          /\ apply'.decision = apply.decision /\ apply'.author = apply.author
      BY <1>0, <2>4 DEF ApplyState
    <3> QED BY <2>1, <2>2, <3>1 DEF ThreadInv, AsPosted, PastPost, Corrects, Pending
  <2>5. CASE decision # "none"
             /\ apply' = [apply EXCEPT !.pc = "correct", !.landed = decision]
    <3>1. /\ apply'.pc = "correct" /\ apply'.posted = apply.posted /\ apply'.landed = decision
          /\ apply'.decision = apply.decision /\ apply'.author = apply.author
      BY <1>0, <2>5 DEF ApplyState
    <3> QED BY <2>1, <2>2, <2>5, <3>1 DEF ThreadInv, AsPosted, PastPost, Corrects, Pending
  <2> QED BY <1>4, <2>3, <2>4, <2>5 DEF ApplyRereads
<1>5. CASE ApplyWrites
  <2>1. /\ UNCHANGED <<said, stranded, uncorrected>> /\ apply.pc = "write" /\ apply' = Idle
        /\ decision' = apply.decision
    BY <1>5 DEF ApplyWrites
  <2>2. said = apply.decision
    BY <2>1, PostFacts DEF ThreadInv, PastPost, AsPosted
  <2>3. ~Astray'
    BY <2>1, <2>2 DEF Astray
  <2> QED BY <2>1, <2>3, PostFacts, ThreadRests
<1>6. CASE ApplyCorrects
  <2>1. UNCHANGED <<decision, writes, stranded>> /\ apply.pc = "correct" /\ apply' = Idle
    BY <1>6 DEF ApplyCorrects, runVars
  <2>2. decision # "none" /\ (writes = 1 => apply.landed = decision)
    BY <2>1 DEF ThreadInv, Corrects
  <2>3. said' = apply.landed \/ uncorrected'
    BY <1>6 DEF ApplyCorrects
  <2>4. ~Astray'
    BY <1>0, <2>1, <2>2, <2>3 DEF Astray
  <2> QED BY <2>1, <2>4, PostFacts, ThreadRests
<1>7. CASE ApplyError
  <2>1. /\ UNCHANGED <<said, decision, writes, uncorrected>>
        /\ apply.pc \in {"read", "announce", "reread", "write"}
        /\ stranded' = (stranded \/ apply.posted # NoPost)
    BY <1>7 DEF ApplyError, runVars
  <2>2. ~Astray'
    <3>1. apply.pc \in {"reread", "write"} => apply.posted # NoPost
      BY PostFacts DEF ThreadInv, PastPost
    <3>2. apply.pc \in {"read", "announce"} => ~Astray
      BY DEF ThreadInv, Pending
    <3> QED BY <2>1, <3>1, <3>2 DEF Astray
  <2>3. PICK t \in BOOLEAN :
          \/ apply' = [apply EXCEPT !.pc = "read", !.attempt = @ + 1, !.threaded = t]
          \/ apply' = [apply EXCEPT !.pc = "notice", !.threaded = TRUE]
          \/ apply' = Redelivered
    <3>1. apply.threaded \in BOOLEAN
      BY <1>0 DEF ApplyState
    <3> QED BY <1>7, <3>1 DEF ApplyError
  <2>4. CASE apply' = Redelivered
    BY <2>2, <2>4, RedeliveredFresh, ThreadRests
  <2>5. CASE apply' # Redelivered
    <3>1. apply'.pc \in {"read", "notice"} /\ apply'.posted = apply.posted
      BY <1>0, <2>3, <2>5 DEF ApplyState
    <3> QED BY <2>1, <2>2, <3>1 DEF ThreadInv, AsPosted, PastPost, Corrects, Pending
  <2> QED BY <2>4, <2>5
<1>8. CASE ApplyNotice
  <2>1. UNCHANGED <<decision, writes, stranded, uncorrected>> /\ apply.pc = "notice"
    BY <1>8 DEF ApplyNotice, runVars, history
  <2>2. \/ said' = "open" /\ apply' = Idle
        \/ said' = said /\ apply' = Redelivered
    BY <1>8 DEF ApplyNotice
  <2>3. ~Astray'
    BY <2>1, <2>2 DEF Astray, ThreadInv, Pending, Directives
  <2> QED BY <2>2, <2>3, PostFacts, RedeliveredFresh, ThreadRests
<1>9. CASE ApplyCrash
  <2>1. /\ UNCHANGED <<said, decision, writes, uncorrected>> /\ apply' = Redelivered
        /\ stranded' = (stranded \/ apply.posted # NoPost)
    BY <1>9 DEF ApplyCrash, runVars
  <2>2. ~Astray'
    <3>1. apply.pc \in {"reread", "write", "correct"} => apply.posted # NoPost
      BY PostFacts DEF ThreadInv, PastPost
    <3>2. apply.pc \notin {"reread", "write", "correct"} => ~Astray
      BY DEF ThreadInv, Pending
    <3> QED BY <2>1, <3>1, <3>2 DEF Astray
  <2> QED BY <2>1, <2>2, RedeliveredFresh, ThreadRests
<1> QED BY <1>1, <1>2, <1>3, <1>4, <1>5, <1>6, <1>7, <1>8, <1>9 DEF ApplyNext

LEMMA StepThread == TypeOK /\ GateInv /\ ThreadInv /\ [Next]_vars => ThreadInv'
<1>1. ThreadInv /\ UNCHANGED vars => ThreadInv'
  BY ThreadFrame DEF vars, runVars, history
<1> QED BY <1>1, OthersThread, ApplyThread DEF Next

LEMMA ThreadTells == ThreadInv => ThreadTellsDecision
<1> SUFFICES ASSUME ThreadInv PROVE ThreadTellsDecision
  OBVIOUS
<1>1. ASSUME apply.pc \in {"reread", "write"}
      PROVE  apply.posted = Post(apply.decision, apply.author) /\ said = apply.decision
  BY <1>1, PostFacts DEF ThreadInv, PastPost, AsPosted
<1>2. ASSUME apply.pc = "idle", said \in Directives, writes = 1, ~uncorrected, ~stranded
      PROVE  said = decision
  BY <1>2 DEF ThreadInv, Pending, Astray
<1> QED BY <1>1, <1>2 DEF ThreadTellsDecision

(* The apply lane never stamps what it did not announce, and once it rests *)
(* the thread's last word is the decision that stands, whatever commands,  *)
(* retries, redeliveries, restarts and re-classifications come in between. *)
THEOREM ThreadIsTrue == Spec => []ThreadTellsDecision
<1>1. Spec => []TypeOK /\ []GateInv
  BY InitType, StepType, InitInv, StepInv, PTL DEF Spec
<1>2. Spec => []ThreadInv
  BY <1>1, InitThread, StepThread, PTL DEF Spec
<1> QED BY <1>2, ThreadTells, PTL
=============================================================================
