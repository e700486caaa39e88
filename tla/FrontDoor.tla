------------------------------ MODULE FrontDoor ------------------------------
(***************************************************************************)
(* The two doors through which an issue becomes a run.                     *)
(*                                                                         *)
(* The webhook door: the receiver puts the host's event on a stream, the   *)
(* issue-intake consumer decides admission, records it under an identity   *)
(* derived from its content, and wakes the front-door coordinator.  The    *)
(* operator's door: task launch snapshots the runs of the issue, wakes the *)
(* coordinator, binds the run that appears and labels it.  Both doors see  *)
(* a run only once a rule has put the issue's reference on it; RunKickoff  *)
(* models those rules.                                                     *)
(***************************************************************************)
EXTENDS Integers, Sequences, FiniteSets

CONSTANTS
  Deliveries,  \* webhook deliveries for one issue, by their GUID
  Launches,    \* operator launches for that issue
  EventDeliver, \* deliveries of one stream message
  MaxWakes,    \* bound: wakes published
  MaxMishaps   \* bound: failed or unanswered calls, redeliveries by hand,
               \* restarts and lapses of the deduplication window

ASSUME FrontDoorAssumption ==
  /\ Deliveries \cap Launches = {}
  /\ EventDeliver \in Nat \ {0} /\ MaxWakes \in Nat /\ MaxMishaps \in Nat

Copies   == Deliveries \X {1, 2}
Sources  == Deliveries \cup Launches
Levels   == {"allowlisted", "push", "read", "unnamed"}
Events   == [action : {"opened", "labeled"}, byAuthor : BOOLEAN, actor : Levels, signal : BOOLEAN]

VARIABLES
  event,     \* per delivery: the event it carries, fixed by the host
  hook,      \* per delivery: what the host was answered last
  intake,    \* per copy on the stream: where its handler is, and its deliveries
  recorded,  \* deliveries with an admission record
  window,    \* message ids the streams still deduplicate
  lapsed,    \* history: deliveries whose wake left the window before it settled
  wakes,     \* wakes on the front-door stream: who asked, what became of the run
  launch,    \* per launch: its step, snapshot and bound run
  label,     \* condition labels: <<run, launch>>
  mishaps

doorVars == <<event, hook, intake, recorded, window, lapsed, wakes, launch, label, mishaps>>

Mishap == mishaps < MaxMishaps /\ mishaps' = mishaps + 1

(* A call that works, one that fails, and one that works unanswered.       *)
Replies == {"ok", "failed", "unanswered"}
Answered(a) == IF a = "ok" THEN UNCHANGED mishaps ELSE Mishap
Landed(a) == a # "failed"

WokenRuns == DOMAIN wakes

(* ResolveRunIDsByRef: the runs that carry the reference.                  *)
Carrying == {w \in WokenRuns : wakes[w].run = "carries"}

DoorInit ==
  /\ event \in [Deliveries -> Events]
  /\ \A d, e \in Deliveries : event[d].action = "opened" /\ event[e].action = "opened" => d = e
  /\ hook = [d \in Deliveries |-> "none"]
  /\ intake = [c \in Copies |-> [pc |-> "absent", tries |-> 0]]
  /\ recorded = {} /\ window = {} /\ lapsed = {}
  /\ wakes = <<>> /\ label = {} /\ mishaps = 0
  /\ launch = [l \in Launches |-> [pc |-> "idle", pre |-> {}, bound |-> 0]]

-----------------------------------------------------------------------------
(* The receiver.                                                           *)

InHandler(pc) == pc \in {"decide", "record", "resolve", "publish", "ack"}

(* The next free copy of a delivery on the stream, none while its GUID is  *)
(* in the deduplication window.                                            *)
NewCopy(d) ==
  IF <<"event", d>> \in window THEN {}
  ELSE {c \in Copies : /\ c[1] = d /\ intake[c].pc = "absent"
                       /\ c[2] = 2 => intake[<<d, 1>>].pc # "absent"}

(* handleWebhook on the host's delivery, or on one redelivered by hand.    *)
Receive(d, a) ==
  /\ hook[d] # "accepted" \/ mishaps < MaxMishaps
  /\ IF hook[d] = "accepted" THEN a = "ok" /\ Mishap ELSE Answered(a)
  /\ hook' = [hook EXCEPT ![d] = IF a = "ok" THEN "accepted" ELSE "failed"]
  /\ intake' = [c \in Copies |-> IF Landed(a) /\ c \in NewCopy(d)
                                 THEN [pc |-> "ready", tries |-> 0] ELSE intake[c]]
  /\ window' = IF Landed(a) THEN window \cup {<<"event", d>>} ELSE window
  /\ UNCHANGED <<event, recorded, lapsed, wakes, launch, label>>

-----------------------------------------------------------------------------
(* The intake consumer.                                                    *)

IntakeTo(c, pc) == intake' = [intake EXCEPT ![c].pc = pc]

(* An error negatively acknowledges the message: it comes again, or its    *)
(* deliveries are spent.                                                   *)
NextTry(m) == IF m.tries < EventDeliver THEN "ready" ELSE "dead"
RedeliverEvent(c) == IntakeTo(c, NextTry(intake[c]))

DeliverEvent(c) ==
  /\ intake[c].pc = "ready"
  /\ intake' = [intake EXCEPT ![c] = [pc |-> "decide", tries |-> @.tries + 1]]
  /\ UNCHANGED <<event, hook, recorded, window, lapsed, wakes, launch, label, mishaps>>

(* normalizeIssue: only an opened event by the issue's own author carries  *)
(* an opt-in signal that is its actor's.                                   *)
Signal(e) == e.signal /\ e.action = "opened" /\ e.byAuthor

(* authorize, which needs the host's permission lookup for all but an      *)
(* allowlisted actor.                                                      *)
Authorized(e) == e.actor \in {"allowlisted", "push"}
NeedsLookup(e) == e.actor \in {"push", "read"}

(* Decide: an undetermined lookup is no rejection.                         *)
DecideAdmission(c, a) ==
  LET e == event[c[1]] IN
  /\ intake[c].pc = "decide" /\ a # "unanswered"
  /\ a = "failed" => NeedsLookup(e)
  /\ Answered(a)
  /\ IF a = "failed" THEN RedeliverEvent(c)
     ELSE IntakeTo(c, IF Authorized(e) /\ Signal(e) THEN "record" ELSE "ack")
  /\ UNCHANGED <<event, hook, recorded, window, lapsed, wakes, launch, label>>

(* RecordAdmission over the strict create, whose retry answers conflict    *)
(* when an unanswered attempt had landed.                                  *)
OnConflictSkip == "ack"
OnConflict == "resolve"

RecordAdmission(c, a) ==
  LET d == c[1] IN
  /\ intake[c].pc = "record" /\ Answered(a)
  /\ recorded' = IF Landed(a) THEN recorded \cup {d} ELSE recorded
  /\ \/ a = "ok" /\ d \notin recorded /\ IntakeTo(c, "publish")
     \/ ((a = "ok" /\ d \in recorded) \/ a = "unanswered") /\ IntakeTo(c, OnConflict)
     \/ a # "ok" /\ RedeliverEvent(c)
  /\ UNCHANGED <<event, hook, window, lapsed, wakes, launch, label>>

(* A recorded admission with a run is a duplicate; one without was never   *)
(* woken.                                                                  *)
ResolveByRef(c, a) ==
  /\ intake[c].pc = "resolve" /\ a # "unanswered" /\ Answered(a)
  /\ IF a = "failed" THEN RedeliverEvent(c)
     ELSE IntakeTo(c, IF Carrying # {} THEN "ack" ELSE "publish")
  /\ UNCHANGED <<event, hook, recorded, window, lapsed, wakes, launch, label>>

Wake(s) == Append(wakes, [by |-> s, run |-> "none"])

(* The wake is published under the record's identity.                      *)
WakeIdMissing(d) == {}
WakeId(d) == {<<"wake", d>>}

Publish(c, a) ==
  LET d == c[1] IN
  /\ intake[c].pc = "publish" /\ Answered(a)
  /\ IF a = "ok" THEN IntakeTo(c, "ack") ELSE RedeliverEvent(c)
  /\ IF Landed(a) /\ WakeId(d) \cap window = {}
     THEN Len(wakes) < MaxWakes /\ wakes' = Wake(d)
     ELSE UNCHANGED wakes
  /\ window' = IF Landed(a) THEN window \cup WakeId(d) ELSE window
  /\ UNCHANGED <<event, hook, recorded, lapsed, launch, label>>

Ack(c) ==
  /\ intake[c].pc = "ack" /\ IntakeTo(c, "acked")
  /\ UNCHANGED <<event, hook, recorded, window, lapsed, wakes, launch, label, mishaps>>

(* The process dies: what its handlers held is delivered again.            *)
RestartIntake ==
  /\ Mishap
  /\ intake' = [c \in Copies |-> IF InHandler(intake[c].pc)
                                 THEN [intake[c] EXCEPT !.pc = NextTry(intake[c])] ELSE intake[c]]
  /\ UNCHANGED <<event, hook, recorded, window, lapsed, wakes, launch, label>>

Unsettled(d) == \/ \E n \in {1, 2} : intake[<<d, n>>].pc \notin {"absent", "acked", "dead"}
                \/ \A w \in Carrying : wakes[w].by # d

(* The deduplication window passes over an event or a wake.                *)
Lapse(id) ==
  /\ id \in window /\ Mishap /\ window' = window \ {id}
  /\ lapsed' = IF id[1] = "wake" /\ Unsettled(id[2]) THEN lapsed \cup {id[2]} ELSE lapsed
  /\ UNCHANGED <<event, hook, intake, recorded, wakes, launch, label>>

-----------------------------------------------------------------------------
(* The front-door coordinator and the rules that mint its run and stamp    *)
(* the reference on it.                                                    *)

RunStep(w, from, to) ==
  /\ wakes[w].run = from /\ wakes' = [wakes EXCEPT ![w].run = to]
  /\ UNCHANGED <<event, hook, intake, recorded, window, lapsed, launch, label, mishaps>>

Mint(w)     == RunStep(w, "none", "minted")
Decline(w)  == RunStep(w, "none", "declined")
StampRef(w) == RunStep(w, "minted", "carries")

-----------------------------------------------------------------------------
(* The operator's door.                                                    *)

Advance(l, st) == launch' = [launch EXCEPT ![l] = st]
LaunchFails(l) == Mishap /\ Advance(l, [launch[l] EXCEPT !.pc = "failed"])
DoorKept == UNCHANGED <<event, hook, intake, recorded, lapsed, window>>

(* The issue is read and probed, then the runs of the issue are listed;    *)
(* when there is one, only --force goes on.                                *)
Snapshot(l) ==
  /\ launch[l].pc = "idle"
  /\ \/ /\ Advance(l, [launch[l] EXCEPT !.pre = Carrying, !.pc = "publish"])
        /\ UNCHANGED mishaps
     \/ /\ Carrying # {} /\ Advance(l, [launch[l] EXCEPT !.pc = "refused"])
        /\ UNCHANGED mishaps
     \/ LaunchFails(l)
  /\ DoorKept /\ UNCHANGED <<wakes, label>>

(* No message identity: every launch is a wake of its own.                 *)
PublishLaunch(l, a) ==
  /\ launch[l].pc = "publish" /\ Answered(a)
  /\ IF Landed(a) THEN Len(wakes) < MaxWakes /\ wakes' = Wake(l) ELSE UNCHANGED wakes
  /\ Advance(l, [launch[l] EXCEPT !.pc = IF a = "ok" THEN "bind" ELSE "failed"])
  /\ DoorKept /\ UNCHANGED label

(* bindRun binds the one run that was not there before.                    *)
NewRuns(l) == Carrying \ launch[l].pre

BindRun(l) ==
  /\ launch[l].pc = "bind"
  /\ \/ \E w \in NewRuns(l) : /\ NewRuns(l) = {w} /\ UNCHANGED mishaps
                            /\ Advance(l, [launch[l] EXCEPT !.bound = w, !.pc = "stamp"])
     \/ /\ Cardinality(NewRuns(l)) > 1 /\ UNCHANGED mishaps
        /\ Advance(l, [launch[l] EXCEPT !.pc = "failed"])
     \/ LaunchFails(l)
  /\ DoorKept /\ UNCHANGED <<wakes, label>>

StampCondition(l, a) ==
  /\ launch[l].pc = "stamp" /\ Answered(a)
  /\ Advance(l, [launch[l] EXCEPT !.pc = "done"])
  /\ label' = IF Landed(a) THEN label \cup {<<launch[l].bound, l>>} ELSE label
  /\ DoorKept /\ UNCHANGED wakes

-----------------------------------------------------------------------------
IntakeNext(c) == \/ DeliverEvent(c) \/ Ack(c)
                 \/ \E a \in Replies : \/ DecideAdmission(c, a) \/ RecordAdmission(c, a)
                                       \/ ResolveByRef(c, a) \/ Publish(c, a)

LaunchNext(l) == \/ Snapshot(l) \/ BindRun(l)
                 \/ \E a \in Replies : PublishLaunch(l, a) \/ StampCondition(l, a)

DoorNext ==
  \/ \E d \in Deliveries, a \in Replies : Receive(d, a)
  \/ \E c \in Copies : IntakeNext(c)
  \/ RestartIntake \/ \E id \in window : Lapse(id)
  \/ \E w \in WokenRuns : Mint(w) \/ Decline(w) \/ StampRef(w)
  \/ \E l \in Launches : LaunchNext(l)

DoorSpec == DoorInit /\ [][DoorNext]_doorVars

-----------------------------------------------------------------------------
(* Properties.                                                             *)

DoorTypeOK ==
  /\ event \in [Deliveries -> Events]
  /\ hook \in [Deliveries -> {"none", "accepted", "failed"}]
  /\ intake \in [Copies -> [tries : 0..EventDeliver,
                   pc : {"absent", "ready", "acked", "dead", "decide", "record", "resolve",
                         "publish", "ack"}]]
  /\ recorded \subseteq Deliveries /\ lapsed \subseteq Deliveries
  /\ window \subseteq {"event", "wake"} \X Deliveries
  /\ wakes \in Seq([by : Sources, run : {"none", "minted", "declined", "carries"}])
  /\ launch \in [Launches -> [pc : {"idle", "publish", "bind", "stamp", "done", "refused", "failed"},
                              pre : SUBSET WokenRuns, bound : WokenRuns \cup {0}]]
  /\ label \subseteq WokenRuns \X Launches /\ mishaps \in 0..MaxMishaps

WokenBy(s) == {w \in WokenRuns : wakes[w].by = s}

(* What the admission documents promise: the actor may push, opened the    *)
(* issue in person, and opted in with it.                                  *)
Admissible(d) ==
  /\ event[d].action = "opened" /\ event[d].byAuthor /\ event[d].signal
  /\ event[d].actor \in {"allowlisted", "push"}

(* An admitted event is never acknowledged unserved: however its record    *)
(* and its wake were interrupted, an acknowledged copy leaves a wake for   *)
(* it, or a run for its issue, behind.  And a launch labels the run it     *)
(* asked for, unless another door's run became visible after the launch    *)
(* had listed the runs.                                                    *)
Raced(l) == \E w \in Carrying \ launch[l].pre : wakes[w].by # l
AdmittedIsServed ==
  /\ \A c \in Copies : intake[c].pc = "acked" /\ Admissible(c[1]) =>
       WokenBy(c[1]) # {} \/ Carrying # {}
  /\ \A p \in label : wakes[p[1]].by = p[2] \/ (Raced(p[2]) /\ p[1] \notin launch[p[2]].pre)

(* One admission wakes once, through redeliveries, concurrent copies and   *)
(* restarts, as long as its wake stays in the deduplication window until   *)
(* it has settled.  Nothing else wakes: an event the documents do not      *)
(* admit leaves no record, and no wake precedes its record.                *)
OneWakePerAdmission ==
  /\ \A d \in Deliveries \ lapsed : Cardinality(WokenBy(d)) <= 1
  /\ \A d \in recorded : Admissible(d)
  /\ \A d \in Deliveries : WokenBy(d) # {} => d \in recorded
=============================================================================
