------------------------------- MODULE Poller -------------------------------
(***************************************************************************)
(* How an issue's comments reach the change-approval gates of its runs.    *)
(*                                                                         *)
(* Comments come in one of two ways, never both: the poller enumerates the *)
(* runs at their gate and reads each one's thread from an in-memory        *)
(* cursor, or the webhook consumer gets each comment as a message that is  *)
(* redelivered until acknowledged.  Either hands the comment to the        *)
(* approval adapter, which resolves the issue to ONE run, the preferred    *)
(* one, and decides its gate.  GateDecision has the reads and writes       *)
(* inside stampDecision, ClassifierLane what becomes of a comment that is  *)
(* no command; here both are one step.                                     *)
(***************************************************************************)
EXTENDS Integers, Sequences, SequencesExt

CONSTANTS
  IssueRuns,         \* the issue's runs, as numbers: the order of their entity ids
  Skew,         \* gateWatermarkSkew, in ticks of the clock
  MaxComments,  \* bound: comments on the thread
  MaxTime,      \* bound: the clock
  MaxDeliver,   \* deliveries of one webhook comment
  MaxOutages    \* bound: failed calls and restarts

ASSUME PollerAssumption ==
  /\ IssueRuns \subseteq Nat \ {0} /\ Skew \in Nat /\ MaxComments \in Nat
  /\ MaxTime \in Nat /\ MaxDeliver \in Nat \ {0} /\ MaxOutages \in Nat

VARIABLES
  transport,  \* "poll" or "webhook", fixed by the configuration
  clock,
  runs,       \* per run: phase, when its gate opened, whether it is decided
  thread,     \* the comments, in the order of their ids
  cursor,     \* id of the last comment read, 0 with none kept
  tick,       \* the poller's pass: threads left to read, the batch in hand
  lane,       \* per comment: its webhook message and its deliveries
  resolved,       \* per comment: the run its handler resolved, 0 before that
  answered,   \* history: comments handled cleanly since the cursor was last lost
  outages

pollVars == <<transport, clock, runs, thread, cursor, tick, lane, resolved, answered, outages>>

Comments == 1..MaxComments
CommentKinds    == {"command", "other"}
IdleTick     == [pc |-> "idle", todo |-> 0, active |-> FALSE, batch |-> <<>>]

Outage == outages < MaxOutages /\ outages' = outages + 1
Works(ok) == IF ok THEN UNCHANGED outages ELSE Outage

Gated(r) == runs[r].phase = "gated"
BoundRuns    == {r \in IssueRuns : runs[r].phase # "none"}

PollInit ==
  /\ transport \in {"poll", "webhook"}
  /\ clock = 1 /\ cursor = 0 /\ tick = IdleTick /\ thread = <<>> /\ answered = {} /\ outages = 0
  /\ runs = [r \in IssueRuns |-> [phase |-> "none", opened |-> 0, decided |-> FALSE]]
  /\ lane = [c \in Comments |-> [pc |-> "absent", tries |-> 0]]
  /\ resolved = [c \in Comments |-> 0]

-----------------------------------------------------------------------------
(* The runs, their rules, and the people on the thread.                    *)

Elsewhere == UNCHANGED <<transport, cursor, tick, resolved, answered, outages>>

Pass == clock < MaxTime /\ clock' = clock + 1 /\ Elsewhere /\ UNCHANGED <<runs, thread, lane>>

RunMoves(r, from, st) ==
  /\ runs[r].phase = from /\ runs' = [runs EXCEPT ![r] = st]
  /\ Elsewhere /\ UNCHANGED <<clock, thread, lane>>

BindRef(r)  == RunMoves(r, "none", [runs[r] EXCEPT !.phase = "executing"])
OpenGate(r) == RunMoves(r, "executing", [runs[r] EXCEPT !.phase = "gated", !.opened = clock])
Leave(r)    == runs[r].decided /\ RunMoves(r, "gated", [runs[r] EXCEPT !.phase = "left"])

(* The apply consumer decides the gate instead.                            *)
Applied(r)  == ~runs[r].decided /\ RunMoves(r, "gated", [runs[r] EXCEPT !.decided = TRUE])

(* preferRun: at the gate first, then the gate opened last, then the id.   *)
OpenedAt(r) == IF Gated(r) THEN runs[r].opened ELSE 0
Prefer(r, q) ==
  \/ Gated(r) /\ ~Gated(q)
  \/ Gated(r) = Gated(q) /\ OpenedAt(r) > OpenedAt(q)
  \/ Gated(r) = Gated(q) /\ OpenedAt(r) = OpenedAt(q) /\ r < q
Preferred == CHOOSE r \in BoundRuns : \A q \in BoundRuns \ {r} : Prefer(r, q)

(* The run a comment speaks to, if any waits for one.                      *)
Asking == {r \in BoundRuns : r = Preferred /\ Gated(r) /\ ~runs[r].decided}

(* A person comments: a command of somebody who may push, or anything      *)
(* else.  By webhook it becomes a message; a foreign sender's is dropped.  *)
Say(kind) ==
  /\ Len(thread) < MaxComments
  /\ thread' = Append(thread, [kind |-> kind, at |-> clock, of |-> Asking])
  /\ lane' = IF transport = "webhook"
             THEN [lane EXCEPT ![Len(thread) + 1].pc = "ready"] ELSE lane
  /\ Elsewhere /\ UNCHANGED <<clock, runs>>

-----------------------------------------------------------------------------
(* The poller's pass.                                                      *)

Outside == UNCHANGED <<transport, clock, thread>>

(* ListRunsAwaitingApproval: a failed enumeration is no empty one, the     *)
(* cursor stays.  A thread is named once for every run at its gate.        *)
Enumerate(ok) ==
  /\ transport = "poll" /\ tick.pc = "idle" /\ Works(ok)
  /\ tick' = IF ok THEN LET n == Cardinality({r \in IssueRuns : Gated(r)}) IN
                        [IdleTick EXCEPT !.pc = "pass", !.todo = n, !.active = n > 0]
             ELSE tick
  /\ Outside /\ UNCHANGED <<runs, cursor, lane, resolved, answered>>

(* Read: the comments past the cursor.                                     *)
Unread == [n \in 1..(Len(thread) - cursor) |-> cursor + n]

ReadThread(ok) ==
  /\ tick.pc = "pass" /\ tick.todo > 0 /\ tick.batch = <<>> /\ Works(ok)
  /\ tick' = IF ok /\ Unread # <<>> THEN [tick EXCEPT !.batch = Unread]
             ELSE [tick EXCEPT !.todo = @ - 1]
  /\ Outside /\ UNCHANGED <<runs, cursor, lane, resolved, answered>>

(* The thread is done with: its cursor moves when every message of the     *)
(* batch was handled cleanly.                                              *)
NextCursorAlways(c, ok) == IF ok /\ Len(tick.batch) > 1 THEN cursor ELSE Last(tick.batch)
NextCursor(c, ok) == IF ok /\ Len(tick.batch) = 1 THEN c ELSE cursor

(* Cursors of threads without a run at its gate are pruned.                *)
KeptCursor == IF tick.active THEN cursor ELSE 0

Prune ==
  /\ tick.pc = "pass" /\ tick.todo = 0
  /\ tick' = IdleTick /\ cursor' = KeptCursor
  /\ answered' = IF cursor' = 0 THEN {} ELSE answered
  /\ Outside /\ UNCHANGED <<runs, lane, resolved, outages>>

-----------------------------------------------------------------------------
(* The approval adapter, on the poller's goroutine or a consumer's.        *)

InHand(c) == lane[c].pc = "ready" \/ (tick.batch # <<>> /\ c = Head(tick.batch))

Again(c) == IF lane[c].pc # "ready" THEN lane[c]
            ELSE [pc |-> IF lane[c].tries + 1 < MaxDeliver THEN "ready" ELSE "dead",
                  tries |-> lane[c].tries + 1]

(* The handler returns: nil goes on, an error comes again.                 *)
HandlerReturns(c, ok) ==
  /\ resolved' = [resolved EXCEPT ![c] = 0]
  /\ IF transport = "webhook"
     THEN /\ lane' = [lane EXCEPT ![c] = IF ok THEN [@ EXCEPT !.pc = "acked"] ELSE Again(c)]
          /\ UNCHANGED <<cursor, tick, answered>>
     ELSE /\ cursor' = NextCursor(c, ok)
          /\ answered' = IF ok THEN answered \cup {c} ELSE answered
          /\ tick' = IF ok /\ Len(tick.batch) > 1 THEN [tick EXCEPT !.batch = Tail(@)]
                     ELSE [tick EXCEPT !.batch = <<>>, !.todo = @ - 1]
          /\ UNCHANGED lane

(* freshForGate.                                                           *)
FreshForGate(c, r) == thread[c].at > runs[r].opened - Skew

(* handleMessage and releaseGate up to the write: no run yet is an error;  *)
(* anything but a command, a run not at its gate and a stale comment are   *)
(* settled.                                                                *)
Resolve(c, ok) ==
  /\ InHand(c) /\ resolved[c] = 0 /\ Works(ok)
  /\ CASE ~ok -> HandlerReturns(c, FALSE)
       [] ok /\ thread[c].kind = "other" -> HandlerReturns(c, TRUE)
       [] ok /\ thread[c].kind = "command" /\ BoundRuns = {} -> HandlerReturns(c, FALSE)
       [] OTHER -> IF Gated(Preferred) /\ FreshForGate(c, Preferred)
                   THEN /\ resolved' = [resolved EXCEPT ![c] = Preferred]
                        /\ UNCHANGED <<cursor, tick, lane, answered>>
                   ELSE HandlerReturns(c, TRUE)
  /\ Outside /\ UNCHANGED runs

(* stampDecision: the first decision stands.                               *)
Stamp(c, ok) ==
  LET r == resolved[c] IN
  /\ InHand(c) /\ r # 0 /\ Works(ok)
  /\ \/ /\ ~runs[r].decided
        /\ runs' = [runs EXCEPT ![r].decided = TRUE]
     \/ (~ok \/ runs[r].decided) /\ UNCHANGED runs
  /\ HandlerReturns(c, ok) /\ Outside

(* The process restarts: cursor and handlers are gone.                     *)
RestartPoller ==
  /\ Outage
  /\ cursor' = 0 /\ tick' = IdleTick /\ resolved' = [c \in Comments |-> 0]
  /\ lane' = [c \in Comments |-> Again(c)]
  /\ answered' = {} /\ Outside /\ UNCHANGED runs

-----------------------------------------------------------------------------
Work(c) == Resolve(c, TRUE) \/ Stamp(c, TRUE)
Polling == Enumerate(TRUE) \/ ReadThread(TRUE) \/ Prune

PollNext ==
  \/ Pass \/ \E kind \in CommentKinds : Say(kind)
  \/ \E r \in IssueRuns : BindRef(r) \/ OpenGate(r) \/ Applied(r) \/ Leave(r)
  \/ Polling \/ Enumerate(FALSE) \/ ReadThread(FALSE) \/ RestartPoller
  \/ \E c \in Comments : Work(c) \/ Resolve(c, FALSE) \/ Stamp(c, FALSE)

PollSpec == PollInit /\ [][PollNext]_pollVars

(* The ticker ticks, consumers are delivered to, and a call that can work  *)
(* is not left waiting.                                                    *)
PollFairness == WF_pollVars(Polling) /\ \A c \in Comments : WF_pollVars(Work(c))
FairPollSpec == PollSpec /\ PollFairness

-----------------------------------------------------------------------------
(* Properties.                                                             *)

PollTypeOK ==
  /\ transport \in {"poll", "webhook"} /\ clock \in 1..MaxTime
  /\ runs \in [IssueRuns -> [phase : {"none", "executing", "gated", "left"}, opened : 0..MaxTime,
                        decided : BOOLEAN]]
  /\ thread \in Seq([kind : CommentKinds, at : 1..MaxTime, of : SUBSET IssueRuns])
  /\ cursor \in 0..Len(thread) /\ resolved \in [Comments -> IssueRuns \cup {0}]
  /\ tick.pc \in {"idle", "pass"} /\ tick.todo \in Nat /\ tick.batch \in Seq(Comments)
  /\ lane \in [Comments -> [pc : {"absent", "ready", "acked", "dead"}, tries : 0..MaxDeliver]]
  /\ answered \subseteq Comments /\ outages \in 0..MaxOutages

(* The cursor never passes a comment whose handling did not return         *)
(* cleanly: an approval that met a fault is read again.                    *)
CursorPassesAnswered == 1..cursor \subseteq answered

(* A command for a gate is heard: that gate gets a decision, or another    *)
(* run of the issue opened a gate since.                                   *)
GateIsHeard ==
  \A c \in Comments, r \in IssueRuns :
    (c \in DOMAIN thread /\ thread[c].kind = "command" /\ thread[c].of = {r})
      ~> (\/ runs[r].decided
          \/ c \in DOMAIN thread /\ \E q \in IssueRuns \ {r} : runs[q].opened >= thread[c].at)
=============================================================================
