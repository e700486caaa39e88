----------------------------- MODULE GateDecision -----------------------------
(***************************************************************************)
(* How the change-approval gate is decided and left.                       *)
(*                                                                         *)
(* Two lanes write run.change.decision: the exact-command path             *)
(* (releaseGate) and the apply consumer, which turns a classified intent   *)
(* into a decision after announcing it on the thread.  Both go through     *)
(* stampDecision, a read followed by a write that is not atomic.  Rules    *)
(* conversation/03a and 03b dispatch the apply consumer, run-lifecycle/01, *)
(* 02 and 07 move the phase, dev-from-task/03 starts development.          *)
(*                                                                         *)
(* Each external call and each graph read or write is a step; a lifecycle  *)
(* rule evaluates one revision of the run and writes its transition to a   *)
(* later one.                                                              *)
(***************************************************************************)
EXTENDS Integers, FiniteSets

CONSTANTS
  Approvals,     \* comments that are the exact approve command
  Rejections,    \* comments that are the exact reject command
  Allowed,       \* commands whose author is authorized
  Fresh,         \* commands written after the watermark of the gate
  Authors,       \* authors of classified messages
  Admitted,      \* those still authorized when the reading is applied
  NoAuthor,
  ApplyAttempts, \* applyMaxAttempts
  MaxDeliver,    \* deliveries before a consumer drops a message
  MaxReadings,   \* bound: classifications of the run's messages
  MaxFaults,     \* bound: failed calls and restarts in the apply lane, and
                 \* deliveries of commands already handled
  MayPark        \* whether a park can reach the run

Commands   == Approvals \cup Rejections
Directives == {"approve", "reject"}
Decisions  == Directives \cup {"none"}
VerbOfDone(c) == IF c \in Approvals THEN "approved" ELSE "rejected"
VerbOf(c)  == IF c \in Approvals THEN "approve" ELSE "reject"

ASSUME GateAssumption ==
  /\ Approvals \cap Rejections = {}
  /\ Allowed \subseteq Commands /\ Fresh \subseteq Commands
  /\ Admitted \subseteq Authors /\ NoAuthor \notin Authors
  /\ ApplyAttempts \in Nat \ {0} /\ MaxDeliver \in Nat \ {0}
  /\ MaxReadings \in Nat /\ MaxFaults \in Nat
  /\ MayPark \in BOOLEAN

VARIABLES
  phase,       \* agent.run.phase; "unminted" before the run exists
  validated,   \* openspec.change.validated is on the run
  decision,    \* run.change.decision
  firing,      \* lifecycle rules that fired and have not moved the phase yet
  parked,      \* run.awaiting.human is on the run
  kickoff,     \* run.projection.kickoff is on the run
  cmd,         \* per command: where its handler is, and its deliveries
  intent,      \* conversation.intent.{value,author}
  matched,     \* RULE_STATE of the two routing rules
  dispatches,  \* conversation-apply dispatches not yet taken
  apply,       \* the dispatch being applied (the lane is serial)
  said,        \* the thread's last word about the decision
  readings,    \* history: the classifications recorded so far
  writes,      \* history: how often the decision was written
  stranded,    \* history: an announced attempt ended in an error
  uncorrected, \* history: a correction could not be posted
  used         \* what the bounds above have been spent on

runVars   == <<phase, firing, validated, decision, parked, kickoff>>
laneVars  == <<intent, matched, dispatches>>
history   == <<readings, writes, stranded, uncorrected>>
vars == <<runVars, cmd, laneVars, apply, said, history, used>>

Post(d, a) == [decision |-> d, author |-> a]
NoPost  == Post("none", NoAuthor)
Idle    == [pc |-> "idle", decision |-> "none", author |-> NoAuthor, landed |-> "none",
            posted |-> NoPost, threaded |-> FALSE, attempt |-> 0, deliveries |-> 0]
Delivery(n) == [Idle EXCEPT !.pc = "read", !.attempt = 1, !.deliveries = n]

GateOpen == phase = "awaiting_approval" /\ decision = "none"

(* What authorized people have asked for: by a command written for this    *)
(* gate, or by a message classified as a directive.                        *)
Asked == {VerbOf(c) : c \in Allowed \cap Fresh}
           \cup {v \in Directives : \E a \in Admitted : <<v, a>> \in readings}

(* conversation/03a and 03b: each dispatches the apply consumer when its   *)
(* conditions become true, and again only after they have been false.      *)
RouteWhen(v) == GateOpen /\ intent.value = v

Route == LET now == {v \in Directives : RouteWhen(v)'}
         IN  /\ matched' = now
             /\ dispatches' = dispatches + Cardinality(now \ matched)

Fault == used.faults < MaxFaults /\ used' = [used EXCEPT !.faults = @ + 1]

Init ==
  /\ phase = "unminted" /\ firing = {} /\ validated = FALSE /\ decision = "none"
  /\ parked = FALSE /\ kickoff = FALSE
  /\ cmd = [c \in Commands |-> [pc |-> "queued", tries |-> 1]]
  /\ intent = [value |-> "", author |-> NoAuthor]
  /\ matched = {} /\ dispatches = 0 /\ apply = Idle /\ said = "nothing"
  /\ readings = {} /\ writes = 0 /\ stranded = FALSE /\ uncorrected = FALSE
  /\ used = [readings |-> 0, faults |-> 0]

-----------------------------------------------------------------------------
(* The run's own transitions.                                              *)

MintRun ==
  /\ phase = "unminted"
  /\ phase' = "executing"
  /\ UNCHANGED <<firing, validated, decision, parked, kickoff, cmd, laneVars, apply, said,
                 history, used>>

ValidateChange ==
  /\ phase = "executing" /\ ~validated
  /\ validated' = TRUE
  /\ UNCHANGED <<phase, firing, decision, parked, kickoff, cmd, laneVars, apply, said,
                 history, used>>

OfferWhen  == phase = "executing" /\ validated /\ decision = "none" /\ ~parked
ResumeWhen == phase = "awaiting_approval" /\ decision = "approve" /\ ~parked

CancelWhenExecuting == phase = "executing" /\ decision = "reject" /\ ~parked
CancelWhen == phase = "awaiting_approval" /\ decision = "reject" /\ ~parked

When(r) == \/ r = "offer" /\ OfferWhen
           \/ r = "resume" /\ ResumeWhen
           \/ r = "cancel" /\ CancelWhen

Target == [offer |-> "awaiting_approval", resume |-> "executing", cancel |-> "cancelled"]

(* The edges of the agent-run workflow; the framework refuses any other.   *)
Edges == {<<"executing", "awaiting_approval">>, <<"awaiting_approval", "executing">>,
          <<"awaiting_approval", "cancelled">>, <<"executing", "cancelled">>}

Fire(r) ==
  /\ r \notin firing /\ When(r)
  /\ firing' = firing \cup {r}
  /\ UNCHANGED <<phase, validated, decision, parked, kickoff, cmd, laneVars, apply, said,
                 history, used>>

Move(r) ==
  /\ r \in firing
  /\ firing' = firing \ {r}
  /\ phase' = IF <<phase, Target[r]>> \in Edges THEN Target[r] ELSE phase
  /\ UNCHANGED <<validated, decision, parked, kickoff, cmd, intent, apply, said, history, used>>
  /\ Route

ProjectTasksWhileGated ==
  /\ phase = "awaiting_approval" /\ decision = "approve" /\ ~parked /\ ~kickoff
  /\ kickoff' = TRUE
  /\ UNCHANGED <<phase, firing, validated, decision, parked, cmd, laneVars, apply, said,
                 history, used>>

ProjectTasks ==
  /\ phase = "executing" /\ decision = "approve" /\ ~parked /\ ~kickoff
  /\ kickoff' = TRUE
  /\ UNCHANGED <<phase, firing, validated, decision, parked, cmd, laneVars, apply, said,
                 history, used>>

Park ==
  /\ MayPark /\ phase \notin {"unminted", "cancelled"} /\ ~parked
  /\ parked' = TRUE
  /\ UNCHANGED <<phase, firing, validated, decision, kickoff, cmd, laneVars, apply, said,
                 history, used>>

-----------------------------------------------------------------------------
(* releaseGate: authorize, resolve, phase guard, watermark; then           *)
(* stampDecision's read and its write.  A failed call is redelivered.      *)

CommandGuardsAnyPhase(c) ==
  /\ cmd[c].pc = "queued" /\ phase # "unminted"
  /\ cmd' = [cmd EXCEPT ![c].pc = IF c \in Allowed /\ c \in Fresh THEN "read" ELSE "done"]
  /\ UNCHANGED <<runVars, laneVars, apply, said, history, used>>

CommandGuards(c) ==
  /\ cmd[c].pc = "queued" /\ phase # "unminted"
  /\ cmd' = [cmd EXCEPT ![c].pc =
               IF c \in Allowed /\ phase = "awaiting_approval" /\ c \in Fresh
               THEN "read" ELSE "done"]
  /\ UNCHANGED <<runVars, laneVars, apply, said, history, used>>

CommandReads(c) ==
  /\ cmd[c].pc = "read"
  /\ cmd' = [cmd EXCEPT ![c].pc = IF decision = "none" THEN "write" ELSE "done"]
  /\ UNCHANGED <<runVars, laneVars, apply, said, history, used>>

CommandWrites(c) ==
  /\ cmd[c].pc = "write"
  /\ decision' = VerbOf(c)
  /\ writes' = writes + 1
  /\ cmd' = [cmd EXCEPT ![c].pc = "done"]
  /\ UNCHANGED <<phase, firing, validated, parked, kickoff, intent, apply, said, readings,
                 stranded, uncorrected, used>>
  /\ Route

(* Also the run not being minted yet.                                      *)
CommandError(c) ==
  /\ cmd[c].pc # "done"
  /\ cmd' = [cmd EXCEPT ![c] = IF @.tries < MaxDeliver
                               THEN [pc |-> "queued", tries |-> @.tries + 1]
                               ELSE [@ EXCEPT !.pc = "done"]]
  /\ UNCHANGED <<runVars, laneVars, apply, said, history, used>>

(* A poll cursor lost by a restart, or a webhook delivered twice.          *)
CommandRepeat(c) ==
  /\ cmd[c].pc = "done" /\ Fault
  /\ cmd' = [cmd EXCEPT ![c] = [pc |-> "queued", tries |-> 1]]
  /\ UNCHANGED <<runVars, laneVars, apply, said, history>>

-----------------------------------------------------------------------------
(* classify_intent stamps a reading of a message bridged at this gate; the *)
(* loop may still be running when the gate is left.                        *)
Classify(v, a) ==
  /\ phase \in {"awaiting_approval", "cancelled"} \/ decision # "none"
  /\ used.readings < MaxReadings
  /\ used' = [used EXCEPT !.readings = @ + 1]
  /\ intent' = [value |-> v, author |-> a]
  /\ readings' = readings \cup {<<v, a>>}
  /\ UNCHANGED <<runVars, cmd, apply, said, writes, stranded, uncorrected>>
  /\ Route

-----------------------------------------------------------------------------
(* The apply consumer: handleApplyDispatch's retry around handleDispatch.  *)

ApplyTake ==
  /\ apply.pc = "idle" /\ dispatches > 0
  /\ dispatches' = dispatches - 1
  /\ apply' = Delivery(1)
  /\ UNCHANGED <<runVars, cmd, intent, matched, said, history, used>>

(* One snapshot of the run; guards 1 and 2a.                               *)
ApplyRead ==
  /\ apply.pc = "read"
  /\ apply' = IF decision # "none" \/ intent.value \notin Directives
              THEN Idle
              ELSE [apply EXCEPT !.pc = "announce", !.decision = intent.value,
                                 !.author = intent.author]
  /\ UNCHANGED <<runVars, cmd, laneVars, said, history, used>>

(* The thread is resolved, the author re-authorized, the decision posted   *)
(* unless this delivery already posted the same decision and author.       *)
ApplyAnnounce ==
  /\ apply.pc = "announce"
  /\ IF apply.author \in Admitted
     THEN /\ apply' = [apply EXCEPT !.pc = "reread", !.threaded = TRUE,
                                    !.posted = Post(apply.decision, apply.author)]
          /\ said' = IF apply.posted = Post(apply.decision, apply.author)
                     THEN said ELSE apply.decision
     ELSE apply' = Idle /\ said' = said
  /\ UNCHANGED <<runVars, cmd, laneVars, history, used>>

ApplyRereadsSilently ==
  /\ apply.pc = "reread"
  /\ apply' = IF decision = "none" THEN [apply EXCEPT !.pc = "write"] ELSE Idle
  /\ UNCHANGED <<runVars, cmd, laneVars, said, history, used>>

ApplyRereads ==
  /\ apply.pc = "reread"
  /\ apply' = CASE decision = "none" -> [apply EXCEPT !.pc = "write"]
                [] decision = apply.decision -> Idle
                [] OTHER -> [apply EXCEPT !.pc = "correct", !.landed = decision]
  /\ UNCHANGED <<runVars, cmd, laneVars, said, history, used>>

ApplyWrites ==
  /\ apply.pc = "write"
  /\ decision' = apply.decision
  /\ writes' = writes + 1
  /\ apply' = Idle
  /\ UNCHANGED <<phase, firing, validated, parked, kickoff, cmd, intent, said, readings,
                 stranded, uncorrected, used>>
  /\ Route

(* Best-effort: a correction that cannot be posted is only logged.         *)
ApplyCorrects ==
  /\ apply.pc = "correct"
  /\ apply' = Idle
  /\ \/ said' = apply.landed /\ UNCHANGED <<uncorrected, used>>
     \/ said' = said /\ uncorrected' = TRUE /\ Fault
  /\ UNCHANGED <<runVars, cmd, laneVars, readings, writes, stranded>>

Redelivered == IF apply.deliveries < MaxDeliver THEN Delivery(apply.deliveries + 1) ELSE Idle

(* A failed call: retried in process from a new snapshot; after the last   *)
(* attempt the human is told, or the dispatch is redelivered when not even *)
(* a thread was resolved.                                                  *)
ApplyError ==
  /\ apply.pc \in {"read", "announce", "reread", "write"}
  /\ Fault
  /\ \E resolved \in BOOLEAN :
       LET threaded == apply.threaded \/ (apply.pc = "announce" /\ resolved) IN
       apply' = IF apply.attempt < ApplyAttempts
                THEN [apply EXCEPT !.pc = "read", !.attempt = @ + 1, !.threaded = threaded]
                ELSE IF threaded
                THEN [apply EXCEPT !.pc = "notice", !.threaded = TRUE]
                ELSE Redelivered
  /\ stranded' = (stranded \/ apply.posted # NoPost)
  /\ UNCHANGED <<runVars, cmd, laneVars, said, readings, writes, uncorrected>>

(* "Nothing has been decided": the gate is left open, never parked.        *)
ApplyNotice ==
  /\ apply.pc = "notice"
  /\ \/ said' = "open" /\ apply' = Idle /\ used' = used
     \/ said' = said /\ apply' = Redelivered /\ Fault
  /\ UNCHANGED <<runVars, cmd, laneVars, history>>

(* The component restarts; JetStream redelivers the unacked dispatch.      *)
ApplyCrash ==
  /\ apply.pc # "idle"
  /\ Fault
  /\ apply' = Redelivered
  /\ stranded' = (stranded \/ apply.posted # NoPost)
  /\ UNCHANGED <<runVars, cmd, laneVars, said, readings, writes, uncorrected>>

-----------------------------------------------------------------------------
Rules == {"offer", "resume", "cancel"}
LifecycleNext == MintRun \/ ValidateChange \/ Park \/ ProjectTasks
                 \/ \E r \in Rules : Fire(r) \/ Move(r)
CommandNext(c) == CommandGuards(c) \/ CommandReads(c) \/ CommandWrites(c)
ApplyNext == \/ ApplyTake \/ ApplyRead \/ ApplyAnnounce \/ ApplyRereads \/ ApplyWrites
             \/ ApplyCorrects \/ ApplyNotice

Next == \/ LifecycleNext \/ ApplyNext \/ ApplyError \/ ApplyCrash
        \/ \E c \in Commands : CommandNext(c) \/ CommandError(c) \/ CommandRepeat(c)
        \/ \E v \in Decisions, a \in Authors : Classify(v, a)

Spec == Init /\ [][Next]_vars

(* The engine evaluates every revision; the consumers take what is queued. *)
Fairness ==
  /\ \A r \in Rules : WF_vars(Fire(r)) /\ WF_vars(Move(r))
  /\ WF_vars(ProjectTasks)
  /\ WF_vars(ApplyNext)
  /\ \A c \in Commands : WF_vars(CommandNext(c))

FairSpec == Spec /\ Fairness

-----------------------------------------------------------------------------
(* Properties.                                                             *)

Words == Decisions \cup {"nothing", "open"}

AuthorsOrNo == Authors \cup {NoAuthor}
ApplySteps  == {"idle", "read", "announce", "reread", "write", "correct", "notice"}
ApplyState  == [pc : ApplySteps, decision : Decisions, author : AuthorsOrNo,
                landed : Decisions, posted : [decision : Decisions, author : AuthorsOrNo],
                threaded : BOOLEAN, attempt : Nat, deliveries : Nat]

TypeOK ==
  /\ phase \in {"unminted", "executing", "awaiting_approval", "cancelled"}
  /\ firing \subseteq Rules
  /\ validated \in BOOLEAN /\ parked \in BOOLEAN /\ kickoff \in BOOLEAN
  /\ decision \in Decisions
  /\ cmd \in [Commands -> [pc : {"queued", "read", "write", "done"}, tries : Nat]]
  /\ intent \in [value : Directives \cup {"", "none"}, author : AuthorsOrNo]
  /\ matched \subseteq Directives /\ dispatches \in Nat
  /\ apply \in ApplyState
  /\ said \in Words
  /\ readings \subseteq Decisions \X Authors
  /\ writes \in Nat /\ stranded \in BOOLEAN /\ uncorrected \in BOOLEAN
  /\ used \in [readings : Nat, faults : Nat]

(* The gate as ChangeGate sees it.                                         *)
Gate == CASE phase = "awaiting_approval" -> "open"
          [] phase = "cancelled" -> "reject"
          [] phase \in {"unminted", "executing"} ->
               IF decision = "none" THEN "before" ELSE "approve"

Abstract == INSTANCE ChangeGate WITH Directions <- Directives, gate <- Gate,
                                     asked <- Asked, raced <- writes > 1

(* Whatever the lanes interleave, the gate opens once and is settled, for  *)
(* something an authorized person asked for on this gate.  It is settled   *)
(* once, except that a rejection that raced the approval past the same     *)
(* read may cancel the run it let through; a cancelled run stays so.       *)
SettledOnceAsAsked == Abstract!Spec

(* Guard 3 before guard 4, across retries and re-classifications: what the *)
(* apply lane is about to stamp is what it last told the thread.  And once *)
(* the lane is quiet, a decision announced on the thread is the            *)
(* decision that stands, unless two handlers raced past the same read, a   *)
(* correction could not be posted, or an announced attempt was retried.    *)
ThreadTellsDecision ==
  /\ apply.pc \in {"reread", "write"} =>
       apply.posted = Post(apply.decision, apply.author) /\ said = apply.decision
  /\ (/\ apply.pc = "idle" /\ dispatches = 0 /\ decision # "none"
      /\ said \in Directives /\ writes = 1 /\ ~uncorrected /\ ~stranded)
     => said = decision

(* The same without the last exception: the gate fact can never diverge    *)
(* from what was announced.                                                *)
AnnouncementNeverDiverges ==
  /\ apply.pc = "idle" /\ dispatches = 0 /\ decision # "none"
  /\ said \in Directives /\ writes = 1 /\ ~uncorrected
  => said = decision

(* A decided gate is left: the single-valued decision always enables       *)
(* exactly one of the two release rules, however often it was overwritten. *)
DecidedGateIsLeft ==
  (phase = "awaiting_approval" /\ decision # "none") ~> (phase # "awaiting_approval" \/ parked)

(* An approved run starts development, as long as one handler wrote the    *)
(* decision.                                                               *)
ApprovedRunStarts ==
  (phase = "executing" /\ decision # "none") ~> (kickoff \/ parked \/ writes > 1)

(* The same for racing writers: the loser of the race is overwritten, and  *)
(* that is never a permanent wedge.                                        *)
RaceNeverWedges ==
  (phase = "executing" /\ decision # "none") ~> (kickoff \/ parked)
=============================================================================
