------------------------------ MODULE UserNotes ------------------------------
(***************************************************************************)
(* What the thread of a run is told: the park-post and user-note lanes.    *)
(*                                                                         *)
(* Rules publish a request for a park, for a classifier that faulted or    *)
(* for a spent budget; the conversation-channel component reads the run    *)
(* again when the request is delivered and posts, or stays silent.  The    *)
(* rules' facts and their publish are separate revisions, so a request may *)
(* be read before the fact it speaks of.                                   *)
(***************************************************************************)
EXTENDS Integers, FiniteSets

CONSTANTS
  Requests,    \* requests published
  NoteBudget,  \* ClassifierAttemptBudget
  NoteDeliver, \* deliveries of one request
  MaxBlips     \* bound: failed reads and posts, and restarts

ASSUME UserNotesAssumption ==
  /\ NoteBudget \in Nat \ {0} /\ NoteDeliver \in Nat \ {0} /\ MaxBlips \in Nat

NoteKinds == {"park", "fault", "budget"}
Refs  == {"good", "bad", "none"}

VARIABLES
  channel,   \* whether a forge token gave the component a channel
  told,      \* the run: its reference, its facts and its spend
  requests,  \* per request: kind, step, deliveries, and the run when it was published
  posts,     \* posts on the thread: <<request, body>>
  blips

noteVars == <<channel, told, requests, posts, blips>>

Blip == blips < MaxBlips /\ blips' = blips + 1

NotesInit ==
  /\ channel \in BOOLEAN
  /\ told \in [ref : Refs, present : BOOLEAN, anchored : BOOLEAN, awaiting : {FALSE},
               decided : {FALSE}, spent : 0..NoteBudget]
  /\ requests = [q \in Requests |-> [kind |-> "fault", pc |-> "absent", tries |-> 0,
                                     decided |-> FALSE, full |-> FALSE, seen |-> "nothing"]]
  /\ posts = {} /\ blips = 0

-----------------------------------------------------------------------------
(* The rules: they publish, and their facts land before or after.          *)

Full == told.spent >= NoteBudget

PublishNote(q, kind) ==
  /\ requests[q].pc = "absent" /\ (kind = "budget" => Full)
  /\ requests' = [requests EXCEPT ![q] = [@ EXCEPT !.kind = kind, !.pc = "ready",
                                                   !.decided = told.decided, !.full = Full]]
  /\ UNCHANGED <<channel, told, posts, blips>>

Fact(st) == told' = st /\ st # told /\ UNCHANGED <<channel, requests, posts, blips>>

ParkLands == /\ \E q \in Requests : requests[q].kind = "park" /\ requests[q].pc # "absent"
             /\ Fact([told EXCEPT !.awaiting = TRUE])
Decided   == Fact([told EXCEPT !.decided = TRUE])
Attempt   == ~Full /\ Fact([told EXCEPT !.spent = @ + 1])

-----------------------------------------------------------------------------
(* The lanes.                                                              *)

NoteReturns(q, ok) ==
  LET r == requests[q] IN
  requests' = [requests EXCEPT ![q] = [r EXCEPT !.seen = "nothing",
    !.tries = r.tries + 1,
    !.pc = IF ok THEN "acked" ELSE IF r.tries + 1 < NoteDeliver THEN "ready" ELSE "dead"]]

(* noteBody: a full ledger wins over the kind, for no retry can run.       *)
NoteBodyByKind(kind) == kind
NoteBody(kind) == IF kind = "budget" \/ Full THEN "budget" ELSE "fault"

(* The one park that cannot be read yet comes again: its fact follows.     *)
ParkUnread(q) == requests[q].kind = "park" /\ ~told.awaiting

(* What handleParkPostRequest and handleUserNote make of the run as read:  *)
(* silence is an acknowledgement.                                          *)
Silent(q) ==
  \/ ~channel
  \/ /\ told.anchored
     /\ \/ ~told.present
        \/ told.ref # "good" /\ ~ParkUnread(q)
        \/ requests[q].kind # "park" /\ told.decided

(* The request is delivered and the run is read.                           *)
ReadRun(q, ok) ==
  /\ requests[q].pc = "ready" /\ requests[q].seen = "nothing"
  /\ IF ok THEN UNCHANGED blips ELSE channel /\ Blip
  /\ IF ok /\ Silent(q) THEN NoteReturns(q, TRUE)
     ELSE IF ~ok \/ ~told.anchored \/ ParkUnread(q) THEN NoteReturns(q, FALSE)
     ELSE requests' = [requests EXCEPT ![q].seen =
            IF requests[q].kind = "park" THEN "park" ELSE NoteBody(requests[q].kind)]
  /\ UNCHANGED <<channel, told, posts>>

(* The post: it may land although its answer does not come.                *)
Post(q, landed, ok) ==
  /\ requests[q].seen # "nothing" /\ (ok => landed)
  /\ IF ok THEN UNCHANGED blips ELSE Blip
  /\ posts' = IF landed THEN posts \cup {<<q, requests[q].seen>>} ELSE posts
  /\ NoteReturns(q, ok) /\ UNCHANGED <<channel, told>>

RestartNotes ==
  /\ Blip
  /\ requests' = [q \in Requests |-> IF requests[q].seen = "nothing" THEN requests[q]
                    ELSE [requests[q] EXCEPT !.seen = "nothing", !.tries = @ + 1,
                            !.pc = IF requests[q].tries + 1 < NoteDeliver THEN "ready" ELSE "dead"]]
  /\ UNCHANGED <<channel, told, posts>>

NoteNext ==
  \/ \E q \in Requests : \/ \E kind \in NoteKinds : PublishNote(q, kind)
                         \/ \E ok \in BOOLEAN : ReadRun(q, ok)
                         \/ \E landed, ok \in BOOLEAN : Post(q, landed, ok)
  \/ ParkLands \/ Decided \/ Attempt \/ RestartNotes

NoteSpec == NotesInit /\ [][NoteNext]_noteVars

-----------------------------------------------------------------------------
(* Properties.                                                             *)

NotesTypeOK ==
  /\ channel \in BOOLEAN
  /\ told \in [ref : Refs, present : BOOLEAN, anchored : BOOLEAN, awaiting : BOOLEAN,
               decided : BOOLEAN, spent : 0..NoteBudget]
  /\ requests \in [Requests -> [kind : NoteKinds, pc : {"absent", "ready", "acked", "dead"},
       tries : 0..NoteDeliver, decided : BOOLEAN, full : BOOLEAN,
       seen : NoteKinds \cup {"nothing"}]]
  /\ posts \subseteq Requests \X NoteKinds /\ blips \in 0..MaxBlips

(* A person is told what holds: no note invites another wording when the   *)
(* budget was spent, none says not understood when the gate was decided    *)
(* when it was published; and no park request that could be posted is      *)
(* acknowledged without its post.                                          *)
ThreadIsTold ==
  \A q \in Requests : LET r == requests[q] IN
    /\ <<q, "fault">> \in posts => ~r.full /\ ~r.decided
    /\ <<q, "budget">> \in posts => ~r.decided
    /\ r.kind = "park" /\ r.pc = "acked" /\ channel /\ told.present /\ told.ref = "good"
         => <<q, "park">> \in posts
=============================================================================
