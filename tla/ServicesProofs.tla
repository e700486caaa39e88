--------------------------- MODULE ServicesProofs ---------------------------
(***************************************************************************)
(* The services beside the run: what their code keeps true, for every      *)
(* value of the constants.  Each service has its inductive invariant, one  *)
(* named part per idea, and its theorems at the end of its section:        *)
(* Boot, UserNotes, Poller, FrontDoor, Standards, Workbench.               *)
(***************************************************************************)
EXTENDS Boot, UserNotes, Poller, FrontDoor, Standards, Workbench,
        FiniteSetTheorems, SequenceTheorems, TLAPS

-----------------------------------------------------------------------------
(* The boot.                                                               *)

(* The pack a boot goes on with is the one its condition asks for.         *)
Booting == {"connect", "streams", "manager", "wire", "personas", "wired", "up"}
Packed  == step \in Booting => ConfigHolds /\ rules = {Swap(f) : f \in settings.listed}

(* What is open follows the steps, the personas come last.                 *)
Held == /\ step \in {"load", "failed"} => open = {}
        /\ step = "reap" => wedged \/ "services" \notin open
        /\ step = "down" => open \subseteq (IF wedged THEN {"services"} ELSE {})
Persona == step \in {"wired", "up"} => bucket = settings.fragments

BootInv == settings \in Settings /\ Packed /\ Held /\ Persona

LEMMA BootStarts == BootInit => BootInv
  BY DEF BootInit, BootInv, Packed, Held, Persona, Booting

LEMMA BootStep == BootInv /\ [BootNext]_bootVars => BootInv'
<1> SUFFICES ASSUME BootInv, [BootNext]_bootVars PROVE BootInv'
  OBVIOUS
<1> USE DEF BootInv, Packed, Held, Persona, Booting, BootTo, BootFails, Kept
<1>0. settings' = settings => (Semsource' <=> Semsource) /\ (ConfigHolds' <=> ConfigHolds)
                              /\ {Swap(f) : f \in settings.listed}' = {Swap(f) : f \in settings.listed}
  BY DEF Semsource, ConfigHolds, Swap
<1>1. CASE Launch
  BY <1>1, <1>0 DEF Launch
<1>2. CASE Load
  BY <1>2, <1>0 DEF Load
<1>3. CASE Serve \/ Interrupt \/ Release
  BY <1>3, <1>0 DEF Serve, Interrupt, Release
<1>4. ASSUME NEW a \in {"confirmed", "refused", "unconfirmed"}, Connect(a) PROVE BootInv'
  BY <1>4, <1>0 DEF Connect
<1>5. ASSUME NEW ok \in BOOLEAN, EnsureStreams(ok) \/ StartManager(ok) \/ Wire(ok) PROVE BootInv'
  BY <1>5, <1>0 DEF EnsureStreams, StartManager, Wire
<1>6. ASSUME NEW ok \in BOOLEAN, SeedPersonas(ok) PROVE BootInv'
  BY <1>6, <1>0 DEF SeedPersonas, SeedHolds
<1>7. ASSUME NEW ok \in BOOLEAN, Start(ok) PROVE BootInv'
  BY <1>7, <1>0 DEF Start
<1>8. ASSUME NEW ok \in BOOLEAN, StopServices(ok) PROVE BootInv'
  BY <1>8, <1>0 DEF StopServices, AfterWedge
<1>9. CASE UNCHANGED bootVars
  BY <1>9, <1>0 DEF bootVars
<1> QED BY <1>1, <1>2, <1>3, <1>4, <1>5, <1>6, <1>7, <1>8, <1>9 DEF BootNext

(* The swapped pack: a rule or its variant, variants under the condition.  *)
LEMMA PackFacts ==
  ASSUME settings \in Settings, ConfigHolds, rules = {Swap(f) : f \in settings.listed}
  PROVE  /\ \A b \in Packs : ~({Baseline(b), Variant(b)} \subseteq rules)
         /\ Semsource <=> \E b \in Packs : Variant(b) \in rules
<1>1. ASSUME NEW f \in settings.listed PROVE f[1] \in Packs /\ f = Baseline(f[1])
  <2>1. f \in Packs \X {"baseline", "semsource"}
    BY DEF Settings, RuleFiles
  <2>2. f = <<f[1], f[2]>> /\ f[1] \in Packs /\ f[2] \in {"baseline", "semsource"}
    BY <2>1
  <2>3. f # Variant(f[1])
    BY <2>2 DEF ConfigHolds
  <2> QED BY <2>2, <2>3 DEF Baseline, Variant
<1>2. \A b, c : Baseline(b) # Variant(c) /\ (Variant(b) = Variant(c) => b = c) /\ (Baseline(b) = Baseline(c) => b = c)
  BY DEF Baseline, Variant
<1>3. ASSUME NEW b \in Packs, Variant(b) \in rules
      PROVE  Semsource /\ b \in settings.onDisk
  <2>1. PICK f \in settings.listed : Variant(b) = Swap(f)
    BY <1>3
  <2> QED BY <1>1, <1>2, <2>1 DEF Swap
<1>4. ASSUME NEW b \in Packs, Baseline(b) \in rules
      PROVE  ~(Semsource /\ b \in settings.onDisk)
  <2>1. PICK f \in settings.listed : Baseline(b) = Swap(f)
    BY <1>4
  <2> QED BY <1>1, <1>2, <2>1 DEF Swap
<1>5. ASSUME Semsource PROVE \E b \in Packs : Variant(b) \in rules
  <2>1. PICK f \in settings.listed : Swap(f) # f
    BY <1>5 DEF ConfigHolds
  <2>2. Swap(f) = Variant(f[1]) /\ f[1] \in Packs
    BY <1>1, <2>1 DEF Swap
  <2> QED BY <2>1, <2>2
<1> QED BY <1>3, <1>4, <1>5

(* A process serves on the personas and the pack of its own configuration, *)
(* and one that failed or stopped holds nothing (seedPersonas, LoadConfig, *)
(* Run's teardown).                                                        *)
THEOREM BootHolds == BootSpec => []ServesWhatItLoaded
<1>1. BootInv => ServesWhatItLoaded
  <2> SUFFICES ASSUME BootInv PROVE ServesWhatItLoaded
    OBVIOUS
  <2>1. CASE step = "up"
    BY <2>1, PackFacts DEF BootInv, Packed, Persona, Booting, ServesWhatItLoaded
  <2>2. CASE step # "up"
    BY <2>2 DEF BootInv, Held, ServesWhatItLoaded
  <2> QED BY <2>1, <2>2
<1> QED BY <1>1, BootStarts, BootStep, PTL DEF BootSpec

-----------------------------------------------------------------------------
(* The notes on the thread.                                                *)

NotesTyped ==
  /\ told \in [ref : Refs, present : BOOLEAN, anchored : BOOLEAN, awaiting : BOOLEAN,
               decided : BOOLEAN, spent : 0..NoteBudget]
  /\ requests \in [Requests -> [kind : NoteKinds, pc : {"absent", "ready", "acked", "dead"},
       tries : Nat, decided : BOOLEAN, full : BOOLEAN, seen : NoteKinds \cup {"nothing"}]]

(* What was true when a request was published stays true, and what a       *)
(* handler is about to post is what it read.                               *)
Honest(q) ==
  LET r == requests[q] IN
  /\ r.full => Full
  /\ r.decided => told.decided
  /\ r.pc = "absent" => r.seen = "nothing" /\ \A kind \in NoteKinds : <<q, kind>> \notin posts
  /\ r.seen # "nothing" => /\ r.pc = "ready" /\ (r.seen = "park" <=> r.kind = "park")
                           /\ r.seen # "park" => ~r.decided
                           /\ r.seen = "fault" => ~r.full

NoteInv == NotesTyped /\ (\A q \in Requests : Honest(q)) /\ ThreadIsTold

LEMMA NotesStart == NotesInit => NoteInv
<1> SUFFICES ASSUME NotesInit PROVE NoteInv
  OBVIOUS
<1>1. NotesTyped
  BY DEF NotesInit, NotesTyped, NoteKinds
<1> QED BY <1>1 DEF NotesInit, NoteInv, Honest, ThreadIsTold

(* One request moves: the others keep what they have.                      *)
LEMMA OtherRequests ==
  ASSUME NoteInv, NEW q \in Requests, NEW r,
         requests' = [requests EXCEPT ![q] = r], UNCHANGED <<channel, told>>,
         r \in [kind : NoteKinds, pc : {"absent", "ready", "acked", "dead"},
                tries : Nat, decided : BOOLEAN, full : BOOLEAN, seen : NoteKinds \cup {"nothing"}],
         posts \subseteq posts', \A p \in Requests, kind \in NoteKinds : p # q /\ <<p, kind>> \in posts' => <<p, kind>> \in posts,
         Honest(q)',
         /\ <<q, "fault">> \in posts' => ~r.full /\ ~r.decided
         /\ <<q, "budget">> \in posts' => ~r.decided
         /\ r.kind = "park" /\ r.pc = "acked" /\ channel /\ told.present /\ told.ref = "good"
              => <<q, "park">> \in posts'
  PROVE  NoteInv'
<1>1. NotesTyped'
  BY DEF NoteInv, NotesTyped
<1>2. requests'[q] = r /\ \A p \in Requests : p # q => requests'[p] = requests[p]
  BY DEF NoteInv, NotesTyped
<1>3. ASSUME NEW p \in Requests, p # q PROVE Honest(p)'
  BY <1>2, <1>3 DEF NoteInv, Honest, Full
<1>4. ThreadIsTold'
  BY <1>2 DEF NoteInv, ThreadIsTold, NoteKinds
<1> QED BY <1>1, <1>3, <1>4 DEF NoteInv

(* A fact of the run lands: it is read by what comes after.                *)
LEMMA FactLands ==
  ASSUME NoteInv, NEW st, told' = st, UNCHANGED <<channel, requests, posts>>,
         st \in [ref : Refs, present : BOOLEAN, anchored : BOOLEAN, awaiting : BOOLEAN,
                 decided : BOOLEAN, spent : 0..NoteBudget],
         st.spent >= told.spent, told.decided => st.decided,
         st.present = told.present, st.ref = told.ref
  PROVE  NoteInv'
<1>1. NotesTyped'
  BY DEF NoteInv, NotesTyped
<1>2. Full => Full'
  BY UserNotesAssumption DEF Full, NoteInv, NotesTyped
<1>3. \A q \in Requests : Honest(q)'
  BY <1>2 DEF NoteInv, Honest
<1> QED BY <1>1, <1>3 DEF NoteInv, ThreadIsTold

LEMMA NotesStep == NoteInv /\ [NoteNext]_noteVars => NoteInv'
<1> SUFFICES ASSUME NoteInv, [NoteNext]_noteVars PROVE NoteInv'
  OBVIOUS
<1> DEFINE Shape == [kind : NoteKinds, pc : {"absent", "ready", "acked", "dead"},
             tries : Nat, decided : BOOLEAN, full : BOOLEAN, seen : NoteKinds \cup {"nothing"}]
<1>a. /\ requests \in [Requests -> Shape] /\ ThreadIsTold
      /\ told \in [ref : Refs, present : BOOLEAN, anchored : BOOLEAN, awaiting : BOOLEAN,
                   decided : BOOLEAN, spent : 0..NoteBudget]
      /\ \A q \in Requests : Honest(q)
  BY DEF NoteInv, NotesTyped
<1>1. ASSUME NEW q \in Requests, NEW kind \in NoteKinds, PublishNote(q, kind) PROVE NoteInv'
  <2> DEFINE r == [requests[q] EXCEPT !.kind = kind, !.pc = "ready", !.decided = told.decided, !.full = Full]
  <2>1. Full \in BOOLEAN /\ told.decided \in BOOLEAN
    BY <1>a DEF Full
  <2>2. /\ r \in Shape /\ r.kind = kind /\ r.pc = "ready" /\ r.decided = told.decided /\ r.full = Full
        /\ r.seen = requests[q].seen
    <3>1. requests[q] \in Shape
      BY <1>a
    <3> QED BY <2>1, <3>1
  <2>3. requests[q].seen = "nothing" /\ \A k \in NoteKinds : <<q, k>> \notin posts
    BY <1>1, <1>a DEF PublishNote, Honest
  <2>4. requests' = [requests EXCEPT ![q] = r] /\ UNCHANGED <<channel, told, posts>>
    BY <1>1 DEF PublishNote
  <2> HIDE DEF r
  <2>5. requests'[q] = r
    BY <1>a, <2>4
  <2>6. Honest(q)'
    BY <2>2, <2>3, <2>4, <2>5 DEF Honest, Full
  <2> QED BY <2>2, <2>3, <2>4, <2>6, OtherRequests DEF NoteKinds
<1>2. CASE ParkLands \/ Decided \/ Attempt
  <2>1. /\ [told EXCEPT !.awaiting = TRUE].spent = told.spent
        /\ [told EXCEPT !.decided = TRUE].spent = told.spent
        /\ told.spent \in 0..NoteBudget /\ NoteBudget \in Nat
    BY <1>a, UserNotesAssumption
  <2> DEFINE Run == [ref : Refs, present : BOOLEAN, anchored : BOOLEAN, awaiting : BOOLEAN,
                     decided : BOOLEAN, spent : 0..NoteBudget]
             Lands(st) == /\ st \in Run /\ st.spent >= told.spent /\ (told.decided => st.decided)
                          /\ st.present = told.present /\ st.ref = told.ref
  <2>5. Lands([told EXCEPT !.awaiting = TRUE]) /\ Lands([told EXCEPT !.decided = TRUE])
    <3>1. [told EXCEPT !.awaiting = TRUE] \in Run /\ [told EXCEPT !.decided = TRUE] \in Run
      BY <1>a
    <3>2. told.spent >= told.spent
      BY <2>1
    <3>3. Lands([told EXCEPT !.awaiting = TRUE])
      BY <1>a, <3>1, <3>2
    <3>4. Lands([told EXCEPT !.decided = TRUE])
      BY <1>a, <3>1, <3>2
    <3> QED BY <3>3, <3>4
  <2>2. CASE ParkLands
    BY <2>2, <2>5, FactLands DEF ParkLands, Fact
  <2>3. CASE Decided
    BY <2>3, <2>5, FactLands DEF Decided, Fact
  <2>4. CASE Attempt
    <3>1. told.spent + 1 \in 0..NoteBudget
      BY <2>1, <2>4 DEF Attempt, Full
    <3> QED BY <1>a, <2>1, <2>4, <3>1, FactLands DEF Attempt, Fact
  <2> QED BY <1>2, <2>2, <2>3, <2>4
(* The handler returns, having posted or not.                              *)
<1>3. ASSUME NEW q \in Requests, NEW ok \in BOOLEAN, requests[q].pc = "ready", NoteReturns(q, ok),
             UNCHANGED <<channel, told>>,
             posts' = posts \/ (requests[q].seen # "nothing" /\ posts' = posts \cup {<<q, requests[q].seen>>}),
             /\ ok /\ requests[q].kind = "park" /\ channel /\ told.present /\ told.ref = "good"
                  => <<q, "park">> \in posts'
      PROVE  NoteInv'
  <2>1. PICK pc \in {"ready", "acked", "dead"} :
          /\ requests' = [requests EXCEPT ![q] = [requests[q] EXCEPT !.seen = "nothing",
                            !.tries = requests[q].tries + 1, !.pc = pc]]
          /\ pc = "acked" => ok
    BY <1>3 DEF NoteReturns
  <2> DEFINE r == [requests[q] EXCEPT !.seen = "nothing", !.tries = requests[q].tries + 1, !.pc = pc]
  <2>2. /\ r \in Shape /\ r.kind = requests[q].kind /\ r.pc = pc /\ r.decided = requests[q].decided
        /\ r.full = requests[q].full /\ r.seen = "nothing"
    <3>1. requests[q] \in Shape /\ requests[q].tries + 1 \in Nat /\ pc \in {"absent", "ready", "acked", "dead"}
      <4>1. requests[q] \in Shape
        BY <1>a
      <4> QED BY <4>1
    <3>2. "nothing" \in NoteKinds \cup {"nothing"}
      OBVIOUS
    <3> QED BY <3>1, <3>2
  <2> HIDE DEF r
  <2>3. requests' = [requests EXCEPT ![q] = r] /\ requests'[q] = r
    BY <1>a, <2>1 DEF r
  <2>4. Honest(q) /\ Honest(q)'
    BY <1>3, <1>a, <2>1, <2>2, <2>3 DEF Honest, Full
  <2>5. /\ <<q, "fault">> \in posts' => ~r.full /\ ~r.decided
        /\ <<q, "budget">> \in posts' => ~r.decided
    BY <1>3, <1>a, <2>2, <2>4 DEF Honest, ThreadIsTold
  <2>6. \A p \in Requests, kind \in NoteKinds : p # q /\ <<p, kind>> \in posts' => <<p, kind>> \in posts
    BY <1>3
  <2>7. r.kind = "park" /\ r.pc = "acked" /\ channel /\ told.present /\ told.ref = "good"
          => <<q, "park">> \in posts'
    BY <1>3, <2>1, <2>2
  <2>8. posts \subseteq posts'
    BY <1>3
  <2> HIDE DEF Shape
  <2>9. UNCHANGED <<channel, told>> /\ requests' = [requests EXCEPT ![q] = r] /\ r \in Shape
    BY <1>3, <2>2, <2>3
  <2> QED BY <2>4, <2>5, <2>6, <2>7, <2>8, <2>9, OtherRequests DEF Shape
<1>4. ASSUME NEW q \in Requests, NEW ok \in BOOLEAN, ReadRun(q, ok) PROVE NoteInv'
  <2>1. requests[q].pc = "ready" /\ requests[q].seen = "nothing" /\ UNCHANGED <<channel, told, posts>>
    BY <1>4 DEF ReadRun
  <2>2. CASE ok /\ Silent(q)
    <3>1. NoteReturns(q, TRUE)
      BY <1>4, <2>2 DEF ReadRun
    <3>2. ~(requests[q].kind = "park" /\ channel /\ told.present /\ told.ref = "good")
      BY <2>2 DEF Silent
    <3> QED BY <1>3, <2>1, <3>1, <3>2
  <2>3. CASE ~(ok /\ Silent(q)) /\ (~ok \/ ~told.anchored \/ ParkUnread(q))
    <3>1. NoteReturns(q, FALSE)
      BY <1>4, <2>3 DEF ReadRun
    <3> QED BY <1>3, <2>1, <3>1
  <2>4. CASE ~(ok /\ Silent(q)) /\ ~(~ok \/ ~told.anchored \/ ParkUnread(q))
    <3> DEFINE seen == IF requests[q].kind = "park" THEN "park" ELSE NoteBody(requests[q].kind)
               r == [requests[q] EXCEPT !.seen = seen]
    <3>1. requests' = [requests EXCEPT ![q] = r]
      BY <1>4, <1>a, <2>4 DEF ReadRun
    <3>2. /\ seen \in NoteKinds /\ (seen = "park" <=> requests[q].kind = "park")
          /\ seen # "park" => ~told.decided
          /\ seen = "fault" => ~Full
      BY <2>4 DEF Silent, NoteBody, NoteKinds
    <3> HIDE DEF seen
    <3>3. /\ r \in Shape /\ r.kind = requests[q].kind /\ r.pc = "ready" /\ r.decided = requests[q].decided
          /\ r.full = requests[q].full /\ r.seen = seen
      <4>1. requests[q] \in Shape
        BY <1>a
      <4> QED BY <2>1, <3>2, <4>1
    <3> HIDE DEF r
    <3>4. requests'[q] = r
      BY <1>a, <3>1
    <3>5. seen # "nothing"
      BY <3>2 DEF NoteKinds
    <3>6. Honest(q)'
      BY <1>a, <2>1, <3>2, <3>3, <3>4, <3>5 DEF Honest, Full
    <3>7. /\ <<q, "fault">> \in posts' => ~r.full /\ ~r.decided
          /\ <<q, "budget">> \in posts' => ~r.decided
      BY <1>a, <2>1, <3>3 DEF ThreadIsTold
    <3> QED BY <2>1, <3>1, <3>3, <3>6, <3>7, OtherRequests
  <2> QED BY <2>2, <2>3, <2>4
<1>5. ASSUME NEW q \in Requests, NEW landed \in BOOLEAN, NEW ok \in BOOLEAN, Post(q, landed, ok) PROVE NoteInv'
  <2>1. /\ requests[q].seen # "nothing" /\ NoteReturns(q, ok) /\ UNCHANGED <<channel, told>>
        /\ ok => landed
        /\ posts' = IF landed THEN posts \cup {<<q, requests[q].seen>>} ELSE posts
    BY <1>5 DEF Post
  <2>2. requests[q].pc = "ready" /\ (requests[q].seen = "park" <=> requests[q].kind = "park")
    BY <1>a, <2>1 DEF Honest
  <2> QED BY <1>3, <2>1, <2>2
<1>6. CASE RestartNotes
  <2>1. ASSUME NEW q \in Requests
        PROVE  /\ requests'[q] \in Shape
               /\ requests'[q].kind = requests[q].kind /\ requests'[q].full = requests[q].full
               /\ requests'[q].decided = requests[q].decided /\ requests'[q].seen = "nothing"
               /\ requests'[q].pc = "absent" => requests[q].pc = "absent"
               /\ requests'[q].pc = "acked" => requests[q].pc = "acked"
    <3>1. requests[q] \in Shape /\ requests[q].tries + 1 \in Nat
      <4>1. requests[q] \in Shape
        BY <1>a
      <4> QED BY <4>1
    <3>2. PICK pc \in {"ready", "dead"} :
            requests'[q] = IF requests[q].seen = "nothing" THEN requests[q]
                           ELSE [requests[q] EXCEPT !.seen = "nothing", !.tries = @ + 1, !.pc = pc]
      BY <1>6 DEF RestartNotes
    <3> QED BY <3>1, <3>2
  <2>2. NotesTyped' /\ UNCHANGED <<channel, told, posts>>
    <3>1. DOMAIN requests' = Requests /\ requests' = [q \in Requests |-> requests'[q]]
      BY <1>6 DEF RestartNotes
    <3> QED BY <1>6, <1>a, <2>1, <3>1 DEF RestartNotes, NotesTyped
  <2>3. \A q \in Requests : Honest(q)'
    BY <1>a, <2>1, <2>2 DEF Honest, Full
  <2>4. ThreadIsTold'
    <3> SUFFICES ASSUME NEW q \in Requests
                 PROVE  /\ <<q, "fault">> \in posts' => ~requests'[q].full /\ ~requests'[q].decided
                        /\ <<q, "budget">> \in posts' => ~requests'[q].decided
                        /\ /\ requests'[q].kind = "park" /\ requests'[q].pc = "acked"
                           /\ channel' /\ told'.present /\ told'.ref = "good"
                           => <<q, "park">> \in posts'
      BY DEF ThreadIsTold
    <3>1. /\ <<q, "fault">> \in posts => ~requests[q].full /\ ~requests[q].decided
          /\ <<q, "budget">> \in posts => ~requests[q].decided
          /\ /\ requests[q].kind = "park" /\ requests[q].pc = "acked"
             /\ channel /\ told.present /\ told.ref = "good"
             => <<q, "park">> \in posts
      BY <1>a DEF ThreadIsTold
    <3>2. /\ requests'[q].kind = requests[q].kind /\ requests'[q].full = requests[q].full
          /\ requests'[q].decided = requests[q].decided
          /\ requests'[q].pc = "acked" => requests[q].pc = "acked"
      BY <2>1
    <3> QED BY <2>2, <3>1, <3>2
  <2> QED BY <2>2, <2>3, <2>4 DEF NoteInv
<1>7. CASE UNCHANGED noteVars
  BY <1>7, <1>a DEF noteVars, NoteInv, NotesTyped, Honest, ThreadIsTold, Full
<1> QED BY <1>1, <1>2, <1>4, <1>5, <1>6, <1>7 DEF NoteNext

(* The thread is told what held when a note was published, and no park     *)
(* that could be posted is acknowledged without its post (noteBody,        *)
(* handleUserNote, handleParkPostRequest).                                 *)
THEOREM NotesHold == NoteSpec => []ThreadIsTold
<1>1. NoteInv => ThreadIsTold
  BY DEF NoteInv
<1> QED BY <1>1, NotesStart, NotesStep, PTL DEF NoteSpec

-----------------------------------------------------------------------------
(* The comment poller.                                                     *)

(* The batch is what follows the comments that were handled cleanly.       *)
InOrder == tick.batch # <<>> =>
  /\ \A i \in 1..Len(tick.batch) : tick.batch[i] = tick.batch[1] + i - 1
  /\ tick.batch[1] \in Nat \ {0}
  /\ 1..(tick.batch[1] - 1) \subseteq answered

(* A webhook's comments are not polled, a polled thread has no messages.   *)
OneWay ==
  /\ transport = "webhook" => tick.batch = <<>> /\ tick.pc = "idle"
  /\ transport = "poll" => \A c \in Comments : lane[c].pc # "ready"

CursorTyped ==
  /\ transport \in {"poll", "webhook"}
  /\ cursor \in Nat /\ tick.batch \in Seq(Nat)
  /\ tick = [pc |-> tick.pc, todo |-> tick.todo, active |-> tick.active, batch |-> tick.batch]
  /\ lane \in [Comments -> [pc : {"absent", "ready", "acked", "dead"}, tries : Nat]]
  /\ \E S : thread \in Seq(S)

CursorInv == CursorTyped /\ InOrder /\ OneWay /\ CursorPassesAnswered

LEMMA PollerConstants ==
  /\ MaxComments \in Nat /\ MaxDeliver \in Nat \ {0} /\ Comments = 1..MaxComments
  /\ IdleTick.batch = <<>> /\ IdleTick.pc = "idle"
  BY PollerAssumption DEF Comments, IdleTick

LEMMA CursorStarts == PollInit => CursorInv
<1> SUFFICES ASSUME PollInit PROVE CursorInv
  OBVIOUS
<1>1. <<>> \in Seq(Nat) /\ <<>> \in Seq({})
  OBVIOUS
<1>2. CursorTyped
  BY <1>1 DEF PollInit, IdleTick, CursorTyped
<1> QED BY <1>2, PollerConstants DEF PollInit, CursorInv, InOrder, OneWay, CursorPassesAnswered, IdleTick

LEMMA UnreadFacts ==
  ASSUME NEW S, thread \in Seq(S), cursor \in Nat, Unread # <<>>
  PROVE  /\ Unread \in Seq(Nat) /\ Unread[1] = cursor + 1
         /\ \A i \in 1..Len(Unread) : Unread[i] = cursor + i
<1> DEFINE k == Len(thread) - cursor
<1>1. k \in Int /\ Unread = [n \in 1..k |-> cursor + n]
  BY DEF Unread
<1> HIDE DEF k
<1>2. CASE k < 1
  <2>1. 1..k = {}
    BY <1>1, <1>2
  <2>2. Unread \in [1..0 -> Nat]
    BY <1>1, <2>1
  <2>3. Unread \in Seq(Nat) /\ Len(Unread) = 0
    BY <2>2
  <2> QED BY <2>3, EmptySeq
<1>3. CASE k >= 1
  <2>1. k \in Nat /\ \A i \in 1..k : Unread[i] = cursor + i /\ Unread[i] \in Nat
    BY <1>1, <1>3
  <2>2. Unread \in Seq(Nat) /\ Len(Unread) = k
    BY <1>1, <2>1
  <2> QED BY <1>3, <2>1, <2>2
<1> QED BY <1>1, <1>2, <1>3

LEMMA BatchGoesOn ==
  ASSUME NEW b \in Seq(Nat), b # <<>>, \A i \in 1..Len(b) : b[i] = b[1] + i - 1
  PROVE  /\ Tail(b) \in Seq(Nat) /\ Len(Tail(b)) = Len(b) - 1 /\ Len(b) \in Nat \ {0}
         /\ Head(b) = b[1] /\ b[1] \in Nat
         /\ Len(b) > 1 => Tail(b)[1] = b[1] + 1
         /\ \A i \in 1..Len(Tail(b)) : Tail(b)[i] = b[1] + i
<1>1. Len(b) \in Nat \ {0} /\ b[1] \in Nat /\ Head(b) = b[1]
  OBVIOUS
<1>2. /\ Tail(b) \in Seq(Nat) /\ Len(Tail(b)) = Len(b) - 1
      /\ \A i \in 1..(Len(b) - 1) : Tail(b)[i] = b[i + 1]
  BY <1>1, HeadTailProperties
<1>3. \A i \in 1..(Len(b) - 1) : i + 1 \in 1..Len(b)
  BY <1>1
<1> QED BY <1>1, <1>2, <1>3

LEMMA ReturnSafe ==
  ASSUME CursorInv, NEW c \in Comments, NEW ok \in BOOLEAN, InHand(c), HandlerReturns(c, ok),
         UNCHANGED <<transport, thread>>
  PROVE  CursorInv'
<1>a. /\ CursorTyped /\ InOrder /\ OneWay /\ CursorPassesAnswered
      /\ cursor \in Nat /\ tick.batch \in Seq(Nat)
  BY DEF CursorInv, CursorTyped
<1>1. CASE transport = "webhook"
  <2>1. UNCHANGED <<cursor, tick, answered>>
    BY <1>1 DEF HandlerReturns
  <2>2. lane' \in [Comments -> [pc : {"absent", "ready", "acked", "dead"}, tries : Nat]]
    <3>1. lane[c] \in [pc : {"absent", "ready", "acked", "dead"}, tries : Nat]
      BY <1>a DEF CursorTyped
    <3>2. [lane[c] EXCEPT !.pc = "acked"] \in [pc : {"absent", "ready", "acked", "dead"}, tries : Nat]
      BY <3>1
    <3>3. Again(c) \in [pc : {"absent", "ready", "acked", "dead"}, tries : Nat]
      BY <3>1, PollerConstants DEF Again
    <3>4. lane' = [lane EXCEPT ![c] = IF ok THEN [@ EXCEPT !.pc = "acked"] ELSE Again(c)]
      BY <1>1 DEF HandlerReturns
    <3> QED BY <1>a, <3>2, <3>3, <3>4 DEF CursorTyped
  <2> QED BY <1>1, <1>a, <2>1, <2>2 DEF CursorInv, CursorTyped, InOrder, OneWay, CursorPassesAnswered
<1>2. CASE transport = "poll"
  <2>1. /\ tick.batch # <<>> /\ c = Head(tick.batch)
    BY <1>2, <1>a DEF InHand, OneWay
  <2>2. /\ cursor' = (IF ok /\ Len(tick.batch) = 1 THEN c ELSE cursor)
        /\ answered' = (IF ok THEN answered \cup {c} ELSE answered)
        /\ tick' = (IF ok /\ Len(tick.batch) > 1 THEN [tick EXCEPT !.batch = Tail(@)]
                    ELSE [tick EXCEPT !.batch = <<>>, !.todo = @ - 1])
        /\ lane' = lane
    BY <1>2 DEF HandlerReturns, NextCursor
  <2>3. /\ Tail(tick.batch) \in Seq(Nat) /\ Len(Tail(tick.batch)) = Len(tick.batch) - 1
        /\ Len(tick.batch) \in Nat \ {0} /\ Head(tick.batch) = tick.batch[1] /\ tick.batch[1] \in Nat \ {0}
        /\ Len(tick.batch) > 1 => Tail(tick.batch)[1] = tick.batch[1] + 1
        /\ \A i \in 1..Len(Tail(tick.batch)) : Tail(tick.batch)[i] = tick.batch[1] + i
        /\ 1..(tick.batch[1] - 1) \subseteq answered
    BY <1>a, <2>1, BatchGoesOn DEF InOrder
  <2>4. cursor' \in Nat /\ answered \subseteq answered'
    BY <1>a, <2>1, <2>2, <2>3
  <2>5. ok => 1..c \subseteq answered'
    BY <2>1, <2>2, <2>3
  <2>6. CursorPassesAnswered'
    BY <1>a, <2>2, <2>4, <2>5 DEF CursorPassesAnswered
  <2>7. CASE ok /\ Len(tick.batch) > 1
    <3>1. /\ tick'.batch = Tail(tick.batch) /\ tick'.pc = tick.pc
          /\ tick' = [pc |-> tick'.pc, todo |-> tick'.todo, active |-> tick'.active, batch |-> tick'.batch]
      BY <1>a, <2>2, <2>7 DEF CursorTyped
    <3>2. InOrder'
      <4>1. tick'.batch[1] = c + 1 /\ c \in Nat \ {0} /\ c = tick.batch[1]
        BY <2>1, <2>3, <2>7, <3>1
      <4>2. \A i \in 1..Len(tick'.batch) : tick'.batch[i] = tick'.batch[1] + i - 1
        <5>1. \A i \in 1..Len(tick'.batch) : tick'.batch[i] = c + i /\ i \in Nat
          BY <2>3, <3>1, <4>1
        <5> QED BY <4>1, <5>1
      <4>3. 1..(tick'.batch[1] - 1) \subseteq answered'
        BY <2>5, <2>7, <4>1
      <4> QED BY <4>1, <4>2, <4>3 DEF InOrder
    <3> QED BY <1>2, <1>a, <2>2, <2>3, <2>4, <2>6, <3>1, <3>2 DEF CursorInv, CursorTyped, OneWay
  <2>8. CASE ~(ok /\ Len(tick.batch) > 1)
    <3>1. /\ tick'.batch = <<>> /\ tick'.pc = tick.pc /\ <<>> \in Seq(Nat)
          /\ tick' = [pc |-> tick'.pc, todo |-> tick'.todo, active |-> tick'.active, batch |-> tick'.batch]
      <4>1. tick' = [tick EXCEPT !.batch = <<>>, !.todo = @ - 1]
        BY <2>2, <2>8
      <4>2. <<>> \in Seq(Nat)
        OBVIOUS
      <4> QED BY <1>a, <4>1, <4>2 DEF CursorTyped
    <3> QED BY <1>2, <1>a, <2>2, <2>4, <2>6, <3>1 DEF CursorInv, CursorTyped, OneWay, InOrder
  <2> QED BY <2>7, <2>8
<1> QED BY <1>1, <1>2, <1>a DEF CursorTyped

LEMMA CursorStep == CursorInv /\ [PollNext]_pollVars => CursorInv'
<1> SUFFICES ASSUME CursorInv, [PollNext]_pollVars PROVE CursorInv'
  OBVIOUS
<1>a. /\ CursorTyped /\ InOrder /\ OneWay /\ CursorPassesAnswered
      /\ cursor \in Nat /\ tick.batch \in Seq(Nat)
  BY DEF CursorInv, CursorTyped
<1>b. PICK S : thread \in Seq(S)
  BY <1>a DEF CursorTyped
<1>1. CASE UNCHANGED <<transport, cursor, tick, answered, lane, thread>>
  BY <1>1, <1>a DEF CursorInv, CursorTyped, InOrder, OneWay, CursorPassesAnswered
<1>2. ASSUME NEW kind \in CommentKinds, Say(kind) PROVE CursorInv'
  <2>1. PICK said : thread' = Append(thread, said)
    BY <1>2 DEF Say
  <2>2. thread' \in Seq(S \cup {said})
    <3>1. thread \in Seq(S \cup {said})
      BY <1>b, SeqMonotonic
    <3> QED BY <2>1, <3>1
  <2>3. /\ UNCHANGED <<transport, cursor, tick, answered>>
        /\ lane' = (IF transport = "webhook" THEN [lane EXCEPT ![Len(thread) + 1].pc = "ready"] ELSE lane)
    BY <1>2 DEF Say, Elsewhere
  <2>4. lane' \in [Comments -> [pc : {"absent", "ready", "acked", "dead"}, tries : Nat]]
    BY <1>a, <2>3 DEF CursorTyped
  <2> QED BY <1>a, <2>2, <2>3, <2>4 DEF CursorInv, CursorTyped, InOrder, OneWay, CursorPassesAnswered
<1>3. ASSUME NEW ok \in BOOLEAN, Enumerate(ok) PROVE CursorInv'
  <2>1. /\ transport = "poll" /\ UNCHANGED <<transport, thread, cursor, lane, answered>>
        /\ tick' = tick \/ \E n, b : tick' = [IdleTick EXCEPT !.pc = "pass", !.todo = n, !.active = b]
    BY <1>3 DEF Enumerate, Outside
  <2>2. tick' = tick \/ (tick'.batch = <<>> /\ tick' = [pc |-> tick'.pc, todo |-> tick'.todo,
                                                      active |-> tick'.active, batch |-> tick'.batch])
    BY <2>1 DEF IdleTick
  <2>3. <<>> \in Seq(Nat)
    OBVIOUS
  <2> QED BY <1>a, <2>1, <2>2, <2>3 DEF CursorInv, CursorTyped, InOrder, OneWay, CursorPassesAnswered
<1>4. ASSUME NEW ok \in BOOLEAN, ReadThread(ok) PROVE CursorInv'
  <2>1. /\ UNCHANGED <<transport, thread, cursor, lane, answered>> /\ tick.batch = <<>>
        /\ tick.pc = "pass" /\ transport = "poll"
    BY <1>4, <1>a DEF ReadThread, Outside, OneWay, CursorTyped
  <2>2. CASE tick' = [tick EXCEPT !.batch = Unread] /\ Unread # <<>>
    <3>1. /\ Unread \in Seq(Nat) /\ Unread[1] = cursor + 1
          /\ \A i \in 1..Len(Unread) : Unread[i] = cursor + i
      BY <1>a, <1>b, <2>2, UnreadFacts
    <3>2. /\ tick'.batch = Unread /\ tick'.pc = tick.pc
          /\ tick' = [pc |-> tick'.pc, todo |-> tick'.todo, active |-> tick'.active, batch |-> tick'.batch]
      BY <1>a, <2>2 DEF CursorTyped
    <3>3. \A i \in 1..Len(Unread) : Unread[i] = Unread[1] + i - 1
      <4>1. \A i \in 1..Len(Unread) : i \in Int
        OBVIOUS
      <4> QED BY <1>a, <3>1, <4>1
    <3>4. 1..(Unread[1] - 1) \subseteq answered' /\ Unread[1] \in Nat \ {0}
      BY <1>a, <2>1, <3>1 DEF CursorPassesAnswered
    <3>5. InOrder'
      BY <3>2, <3>3, <3>4 DEF InOrder
    <3> QED BY <1>a, <2>1, <3>1, <3>2, <3>5 DEF CursorInv, CursorTyped, OneWay, CursorPassesAnswered
  <2>3. CASE tick' = [tick EXCEPT !.todo = @ - 1]
    <3>1. /\ tick'.batch = <<>> /\ tick'.pc = tick.pc
          /\ tick' = [pc |-> tick'.pc, todo |-> tick'.todo, active |-> tick'.active, batch |-> tick'.batch]
      BY <1>a, <2>1, <2>3 DEF CursorTyped
    <3> QED BY <1>a, <2>1, <3>1 DEF CursorInv, CursorTyped, OneWay, CursorPassesAnswered, InOrder
  <2> QED BY <1>4, <2>2, <2>3 DEF ReadThread
<1>5. CASE Prune
  <2>1. /\ tick' = IdleTick /\ UNCHANGED <<transport, thread, lane>>
        /\ cursor' \in {cursor, 0}
        /\ cursor' = 0 \/ answered' = answered
    BY <1>5 DEF Prune, KeptCursor, Outside
  <2>2. CursorPassesAnswered'
    BY <1>a, <2>1 DEF CursorPassesAnswered
  <2>3. <<>> \in Seq(Nat)
    OBVIOUS
  <2> QED BY <1>a, <2>1, <2>2, <2>3, PollerConstants DEF CursorInv, CursorTyped, InOrder, OneWay, IdleTick
<1>6. ASSUME NEW c \in Comments, NEW ok \in BOOLEAN, Resolve(c, ok) PROVE CursorInv'
  <2>1. /\ InHand(c) /\ UNCHANGED <<transport, thread>>
        /\ \/ \E done \in BOOLEAN : HandlerReturns(c, done)
           \/ UNCHANGED <<cursor, tick, lane, answered>>
    BY <1>6 DEF Resolve, Outside
  <2> QED BY <1>1, <2>1, ReturnSafe
<1>7. ASSUME NEW c \in Comments, NEW ok \in BOOLEAN, Stamp(c, ok) PROVE CursorInv'
  BY <1>7, ReturnSafe DEF Stamp, Outside
<1>8. CASE RestartPoller
  <2>1. /\ tick' = IdleTick /\ UNCHANGED <<transport, thread>> /\ cursor' = 0
        /\ lane' = [c \in Comments |-> Again(c)]
    BY <1>8 DEF RestartPoller, Outside
  <2>2. ASSUME NEW c \in Comments
        PROVE  /\ Again(c) \in [pc : {"absent", "ready", "acked", "dead"}, tries : Nat]
               /\ lane[c].pc # "ready" => Again(c).pc # "ready"
    <3>1. lane[c] \in [pc : {"absent", "ready", "acked", "dead"}, tries : Nat]
      BY <1>a DEF CursorTyped
    <3> QED BY <3>1, PollerConstants DEF Again
  <2>3. CursorPassesAnswered'
    BY <2>1 DEF CursorPassesAnswered
  <2>4. <<>> \in Seq(Nat)
    OBVIOUS
  <2> QED BY <1>a, <2>1, <2>2, <2>3, <2>4, PollerConstants DEF CursorInv, CursorTyped, InOrder, OneWay, IdleTick
<1>9. ASSUME NEW r \in IssueRuns, BindRef(r) \/ OpenGate(r) \/ Applied(r) \/ Leave(r) PROVE CursorInv'
  BY <1>1, <1>9 DEF BindRef, OpenGate, Applied, Leave, RunMoves, Elsewhere
<1>10. CASE Pass \/ UNCHANGED pollVars
  BY <1>1, <1>10 DEF Pass, Elsewhere, pollVars
<1> QED BY <1>2, <1>3, <1>4, <1>5, <1>6, <1>7, <1>8, <1>9, <1>10 DEF PollNext, Polling, Work

(* The cursor never passes a comment whose handling did not return cleanly *)
(* (Poller.pollThread, Handle).                                            *)
THEOREM CursorHolds == PollSpec => []CursorPassesAnswered
<1>1. CursorInv => CursorPassesAnswered
  BY DEF CursorInv
<1> QED BY <1>1, CursorStarts, CursorStep, PTL DEF PollSpec

-----------------------------------------------------------------------------
(* The front door.                                                         *)

Wakes   == [by : Sources, run : {"none", "minted", "declined", "carries"}]
Intakes == [pc : {"absent", "ready", "acked", "dead", "decide", "record", "resolve", "publish", "ack"},
            tries : Nat]
LaunchShape == [pc : {"idle", "publish", "bind", "stamp", "done", "refused", "failed"},
                pre : SUBSET Nat, bound : Nat]
DoorTyped ==
  /\ event \in [Deliveries -> Events] /\ intake \in [Copies -> Intakes]
  /\ recorded \subseteq Deliveries /\ lapsed \subseteq Deliveries
  /\ wakes \in Seq(Wakes) /\ launch \in [Launches -> LaunchShape]
  /\ label \subseteq Nat \X Launches /\ window \subseteq {"event", "wake"} \X Deliveries

WokenFor(d) == \E w \in WokenRuns : wakes[w].by = d
Carried(d)  == \E w \in Carrying : wakes[w].by = d

(* What each step of the handler has behind it.                            *)
CopyHolds(c) ==
  /\ intake[c].pc \in {"record", "resolve", "publish"} => Admissible(c[1])
  /\ intake[c].pc \in {"resolve", "publish"} => c[1] \in recorded
  /\ intake[c].pc \in {"ack", "acked"} /\ Admissible(c[1]) => WokenFor(c[1]) \/ Carrying # {}
Handlers == \A c \in Copies : CopyHolds(c)

(* A wake follows its record, its identity follows the wake.               *)
Ordered == /\ \A d \in recorded : Admissible(d)
           /\ \A d \in Deliveries : WokenFor(d) => d \in recorded
           /\ \A d \in Deliveries : <<"wake", d>> \in window => WokenFor(d)

(* A wake that is no longer deduplicated has its run, and no handler is    *)
(* about to publish it again.                                              *)
Fenced(d) == \/ <<"wake", d>> \in window
             \/ Carried(d) /\ \A c \in Copies : c[1] = d => intake[c].pc # "publish"
Single(d) == /\ \A v, w \in WokenRuns : wakes[v].by = d /\ wakes[w].by = d => v = w
             /\ WokenFor(d) => Fenced(d)
Singles == \A d \in Deliveries \ lapsed : Single(d)

(* A launch labels the run it bound, and binds one it had not listed.      *)
Bindings ==
  /\ \A l \in Launches : launch[l].pc \in {"stamp", "done"} => launch[l].bound \in Carrying \ launch[l].pre
  /\ \A p \in label : launch[p[2]].pc = "done" /\ p[1] = launch[p[2]].bound

DoorInv == DoorTyped /\ Handlers /\ Ordered /\ Singles /\ Bindings

LEMMA DoorStarts == DoorInit => DoorInv
<1> SUFFICES ASSUME DoorInit PROVE DoorInv
  OBVIOUS
<1>1. wakes = <<>> /\ WokenRuns = {} /\ Carrying = {} /\ wakes \in Seq(Wakes)
  BY DEF DoorInit, WokenRuns, Carrying
<1>2. DoorTyped
  BY <1>1 DEF DoorInit, DoorTyped, Intakes, LaunchShape
<1> QED BY <1>1, <1>2 DEF DoorInit, DoorInv, Handlers, CopyHolds, Ordered, Singles, Single, Fenced, WokenFor,
          Carried, Bindings

LEMMA AtMostOne ==
  ASSUME NEW S, \A a, b \in S : a = b
  PROVE  Cardinality(S) <= 1
<1>1. CASE S = {}
  BY <1>1, FS_EmptySet
<1>2. CASE S # {}
  <2>1. PICK a \in S : TRUE
    BY <1>2
  <2>2. S = {a}
    BY <2>1
  <2> QED BY <2>2, FS_Singleton
<1> QED BY <1>1, <1>2

(* Wakes are only added, and a run only gains its reference.               *)
Grows == /\ WokenRuns \subseteq WokenRuns'
         /\ \A w \in WokenRuns : wakes'[w].by = wakes[w].by
         /\ \A w \in WokenRuns : wakes[w].run = "carries" => wakes'[w].run = "carries"

LEMMA GrowsFacts ==
  ASSUME Grows
  PROVE  /\ \A d : WokenFor(d) => WokenFor(d)'
         /\ \A d : Carried(d) => Carried(d)'
         /\ Carrying \subseteq Carrying'
  BY DEF Grows, WokenFor, Carried, Carrying

LEMMA AppendGrows ==
  ASSUME DoorTyped, NEW s \in Sources, wakes' = Wake(s)
  PROVE  /\ Grows /\ wakes' \in Seq(Wakes) /\ WokenRuns' = WokenRuns \cup {Len(wakes) + 1}
         /\ Len(wakes) + 1 \notin WokenRuns /\ wakes'[Len(wakes) + 1].by = s
<1>1. [by |-> s, run |-> "none"] \in Wakes /\ wakes \in Seq(Wakes)
  BY DEF Wakes, DoorTyped
<1>2. /\ wakes' \in Seq(Wakes) /\ Len(wakes') = Len(wakes) + 1 /\ Len(wakes) \in Nat
      /\ \A i \in 1..Len(wakes) : wakes'[i] = wakes[i]
      /\ wakes'[Len(wakes) + 1] = [by |-> s, run |-> "none"]
  BY <1>1, AppendProperties DEF Wake
<1>3. WokenRuns = 1..Len(wakes) /\ WokenRuns' = 1..(Len(wakes) + 1)
  BY <1>1, <1>2 DEF WokenRuns
<1> QED BY <1>2, <1>3 DEF Grows

LEMMA RunStepGrows ==
  ASSUME DoorTyped, NEW w \in WokenRuns, NEW from \in {"none", "minted"},
         NEW to \in {"minted", "declined", "carries"}, RunStep(w, from, to)
  PROVE  Grows /\ wakes' \in Seq(Wakes) /\ WokenRuns' = WokenRuns
<1>1. wakes \in Seq(Wakes) /\ w \in 1..Len(wakes) /\ wakes[w].run = from /\ wakes' = [wakes EXCEPT ![w].run = to]
  BY DEF DoorTyped, RunStep, WokenRuns
<1>2. [wakes[w] EXCEPT !.run = to] \in Wakes /\ [wakes[w] EXCEPT !.run = to].by = wakes[w].by
      /\ wakes[w] \in Wakes
  <2>1. wakes[w] \in Wakes
    BY <1>1
  <2> QED BY <2>1 DEF Wakes
<1>3. wakes' = [wakes EXCEPT ![w] = [wakes[w] EXCEPT !.run = to]]
  BY <1>1
<1>4. /\ wakes' \in Seq(Wakes) /\ Len(wakes') = Len(wakes)
      /\ \A i \in 1..Len(wakes) : wakes'[i] = IF i = w THEN [wakes[w] EXCEPT !.run = to] ELSE wakes[i]
  BY <1>1, <1>2, <1>3, ExceptSeq
<1>5. WokenRuns = 1..Len(wakes) /\ WokenRuns' = 1..Len(wakes)
  BY <1>1, <1>4 DEF WokenRuns
<1> QED BY <1>1, <1>2, <1>4, <1>5 DEF Grows

LEMMA NewCopyIsAbsent ==
  ASSUME NEW d, NEW c \in NewCopy(d) PROVE c \in Copies /\ intake[c].pc = "absent"
  BY DEF NewCopy

LEMMA CopyFacts ==
  /\ \A c \in Copies : c[1] \in Deliveries /\ (c = <<c[1], 1>> \/ c = <<c[1], 2>>)
  /\ \A d \in Deliveries : <<d, 1>> \in Copies /\ <<d, 2>> \in Copies
  BY DEF Copies

(* What a step of the handler does to its own copy.                        *)
LEMMA GotoFacts ==
  ASSUME DoorTyped, NEW c \in Copies,
         NEW pc \in {"ready", "dead", "acked", "record", "resolve", "publish", "ack"},
         IntakeTo(c, pc)
  PROVE  /\ intake' \in [Copies -> Intakes] /\ intake'[c].pc = pc
         /\ \A b \in Copies : b # c => intake'[b] = intake[b]
  BY DEF DoorTyped, IntakeTo, Intakes

LEMMA RedeliverFacts ==
  ASSUME DoorTyped, NEW c \in Copies, RedeliverEvent(c)
  PROVE  /\ intake' \in [Copies -> Intakes] /\ intake'[c].pc \in {"ready", "dead"}
         /\ \A b \in Copies : b # c => intake'[b] = intake[b]
<1>1. NextTry(intake[c]) \in {"ready", "dead"}
  BY DEF NextTry
<1> QED BY <1>1, GotoFacts DEF RedeliverEvent

(* The state of the launches and labels apart, what a step may do.         *)
Advances ==
  /\ event' = event /\ recorded \subseteq recorded' /\ lapsed \subseteq lapsed' /\ Grows
  /\ recorded' \subseteq Deliveries /\ lapsed' \subseteq Deliveries
  /\ wakes' \in Seq(Wakes) /\ intake' \in [Copies -> Intakes]

LEMMA WakesSame == ASSUME DoorTyped, UNCHANGED wakes PROVE Grows /\ wakes' \in Seq(Wakes)
  BY DEF DoorTyped, Grows, WokenRuns

LEMMA DoorAdvances == DoorTyped /\ [DoorNext]_doorVars => Advances
<1> SUFFICES ASSUME DoorTyped, [DoorNext]_doorVars PROVE Advances
  OBVIOUS
<1> USE DEF Advances
<1>a. /\ intake \in [Copies -> Intakes] /\ recorded \subseteq Deliveries /\ lapsed \subseteq Deliveries
  BY DEF DoorTyped
<1>b. UNCHANGED wakes => Grows /\ wakes' \in Seq(Wakes)
  BY WakesSame
<1>1. ASSUME NEW d \in Deliveries, NEW a \in Replies, Receive(d, a) PROVE Advances
  <2>1. intake' \in [Copies -> Intakes]
    BY <1>1, <1>a DEF Receive, Intakes
  <2> QED BY <1>1, <1>a, <1>b, <2>1 DEF Receive
<1>2. ASSUME NEW c \in Copies, DeliverEvent(c) PROVE Advances
  <2>1. intake' \in [Copies -> Intakes]
    <3>1. intake[c] \in Intakes
      BY <1>a
    <3>2. [pc |-> "decide", tries |-> intake[c].tries + 1] \in Intakes
      BY <3>1 DEF Intakes
    <3> QED BY <1>2, <1>a, <3>2 DEF DeliverEvent
  <2> QED BY <1>2, <1>a, <1>b, <2>1 DEF DeliverEvent
<1>3. ASSUME NEW c \in Copies, NEW a \in Replies, DecideAdmission(c, a) PROVE Advances
  <2>1. intake' \in [Copies -> Intakes]
    BY <1>3, GotoFacts, RedeliverFacts DEF DecideAdmission
  <2> QED BY <1>3, <1>a, <1>b, <2>1 DEF DecideAdmission
<1>4. ASSUME NEW c \in Copies, NEW a \in Replies, RecordAdmission(c, a) PROVE Advances
  <2>1. intake' \in [Copies -> Intakes]
    BY <1>4, GotoFacts, RedeliverFacts DEF RecordAdmission, OnConflict
  <2>2. recorded \subseteq recorded' /\ recorded' \subseteq Deliveries
    BY <1>4, <1>a, CopyFacts DEF RecordAdmission
  <2> QED BY <1>4, <1>a, <1>b, <2>1, <2>2 DEF RecordAdmission
<1>5. ASSUME NEW c \in Copies, NEW a \in Replies, ResolveByRef(c, a) PROVE Advances
  <2>1. intake' \in [Copies -> Intakes]
    BY <1>5, GotoFacts, RedeliverFacts DEF ResolveByRef
  <2> QED BY <1>5, <1>a, <1>b, <2>1 DEF ResolveByRef
<1>6. ASSUME NEW c \in Copies, NEW a \in Replies, Publish(c, a) PROVE Advances
  <2>1. intake' \in [Copies -> Intakes]
    BY <1>6, GotoFacts, RedeliverFacts DEF Publish
  <2>2. wakes' = Wake(c[1]) \/ UNCHANGED wakes
    BY <1>6 DEF Publish
  <2>3. c[1] \in Sources
    BY CopyFacts DEF Sources
  <2>4. Grows /\ wakes' \in Seq(Wakes)
    BY <1>b, <2>2, <2>3, AppendGrows
  <2> QED BY <1>6, <1>a, <2>1, <2>4 DEF Publish
<1>7. ASSUME NEW c \in Copies, Ack(c) PROVE Advances
  <2>1. intake' \in [Copies -> Intakes]
    BY <1>7, GotoFacts DEF Ack
  <2> QED BY <1>7, <1>a, <1>b, <2>1 DEF Ack
<1>8. CASE RestartIntake
  <2>1. intake' \in [Copies -> Intakes]
    BY <1>8, <1>a DEF RestartIntake, NextTry, Intakes
  <2> QED BY <1>8, <1>a, <1>b, <2>1 DEF RestartIntake
<1>9. ASSUME NEW id \in window, Lapse(id) PROVE Advances
  <2>1. id[2] \in Deliveries
    BY DEF DoorTyped
  <2> QED BY <1>9, <1>a, <1>b, <2>1 DEF Lapse
<1>10. ASSUME NEW w \in WokenRuns, Mint(w) \/ Decline(w) \/ StampRef(w) PROVE Advances
  <2>1. /\ \/ RunStep(w, "none", "minted") \/ RunStep(w, "none", "declined")
           \/ RunStep(w, "minted", "carries")
        /\ UNCHANGED <<event, intake, recorded, lapsed>>
    BY <1>10 DEF Mint, Decline, StampRef, RunStep
  <2>2. Grows /\ wakes' \in Seq(Wakes)
    BY <2>1, RunStepGrows
  <2> QED BY <1>a, <2>1, <2>2
<1>11. ASSUME NEW l \in Launches, LaunchNext(l) PROVE Advances
  <2>1. UNCHANGED <<event, intake, recorded, lapsed>>
    BY <1>11 DEF LaunchNext, Snapshot, BindRun, PublishLaunch, StampCondition, DoorKept
  <2>2. wakes' = Wake(l) \/ UNCHANGED wakes
    BY <1>11 DEF LaunchNext, Snapshot, BindRun, PublishLaunch, StampCondition
  <2>3. Grows /\ wakes' \in Seq(Wakes)
    BY <1>b, <2>2, AppendGrows DEF Sources
  <2> QED BY <1>a, <2>1, <2>3
<1>12. CASE UNCHANGED doorVars
  BY <1>12, <1>a, <1>b DEF doorVars
<1> QED BY <1>1, <1>2, <1>3, <1>4, <1>5, <1>6, <1>7, <1>8, <1>9, <1>10, <1>11, <1>12 DEF DoorNext, IntakeNext

LEMMA WindowTyped == DoorTyped /\ [DoorNext]_doorVars =>
                       window' \subseteq {"event", "wake"} \X Deliveries
<1> SUFFICES ASSUME DoorTyped, [DoorNext]_doorVars PROVE window' \subseteq {"event", "wake"} \X Deliveries
  OBVIOUS
<1>a. window \subseteq {"event", "wake"} \X Deliveries
  BY DEF DoorTyped
<1>1. ASSUME NEW d \in Deliveries, NEW a \in Replies, Receive(d, a)
      PROVE  window' \subseteq {"event", "wake"} \X Deliveries
  BY <1>1, <1>a DEF Receive
<1>2. ASSUME NEW c \in Copies, NEW a \in Replies, Publish(c, a)
      PROVE  window' \subseteq {"event", "wake"} \X Deliveries
  BY <1>2, <1>a, CopyFacts DEF Publish, WakeId
<1>3. ASSUME NEW id \in window, Lapse(id) PROVE window' \subseteq {"event", "wake"} \X Deliveries
  BY <1>3, <1>a DEF Lapse
<1>4. \/ UNCHANGED window \/ \E d \in Deliveries, a \in Replies : Receive(d, a)
      \/ \E c \in Copies, a \in Replies : Publish(c, a)
      \/ \E id \in window : Lapse(id)
  <2>1. ASSUME NEW c \in Copies, IntakeNext(c)
        PROVE  UNCHANGED window \/ \E a \in Replies : Publish(c, a)
    BY <2>1 DEF IntakeNext, DeliverEvent, Ack, DecideAdmission, RecordAdmission, ResolveByRef
  <2>2. ASSUME NEW l \in Launches, LaunchNext(l) PROVE UNCHANGED window
    BY <2>2 DEF LaunchNext, Snapshot, BindRun, PublishLaunch, StampCondition, DoorKept
  <2>3. ASSUME NEW w \in WokenRuns, Mint(w) \/ Decline(w) \/ StampRef(w) PROVE UNCHANGED window
    BY <2>3 DEF Mint, Decline, StampRef, RunStep
  <2>4. RestartIntake \/ UNCHANGED doorVars => UNCHANGED window
    BY DEF RestartIntake, doorVars
  <2> QED BY <2>1, <2>2, <2>3, <2>4 DEF DoorNext
<1> QED BY <1>1, <1>2, <1>3, <1>4, <1>a

(* The launches.                                                           *)
LaunchKept == \A l \in Launches :
  \/ launch'[l] = launch[l]
  \/ /\ launch[l].pc \notin {"stamp", "done"}
     /\ launch'[l].pc \in {"stamp", "done"} => launch'[l].bound \in Carrying \ launch'[l].pre
  \/ /\ launch[l].pc = "stamp" /\ launch'[l] = [launch[l] EXCEPT !.pc = "done"]

LEMMA LaunchSteps ==
  DoorTyped /\ [DoorNext]_doorVars =>
    /\ launch' \in [Launches -> LaunchShape] /\ LaunchKept
    /\ \/ label' = label
       \/ \E l \in Launches : /\ label' = label \cup {<<launch[l].bound, l>>}
                              /\ launch[l].pc = "stamp" /\ launch'[l] = [launch[l] EXCEPT !.pc = "done"]
<1> SUFFICES ASSUME DoorTyped, [DoorNext]_doorVars
             PROVE  /\ launch' \in [Launches -> LaunchShape] /\ LaunchKept
                    /\ \/ label' = label
                       \/ \E l \in Launches :
                            /\ label' = label \cup {<<launch[l].bound, l>>}
                            /\ launch[l].pc = "stamp" /\ launch'[l] = [launch[l] EXCEPT !.pc = "done"]
  OBVIOUS
<1>a. launch \in [Launches -> LaunchShape] /\ Carrying \subseteq Nat
  BY DEF DoorTyped, Carrying, WokenRuns
<1>1. CASE UNCHANGED <<launch, label>>
  BY <1>1, <1>a DEF LaunchKept
<1>2. ASSUME NEW l \in Launches, NEW st \in LaunchShape, Advance(l, st), launch[l].pc \notin {"stamp", "done"},
             st.pc \in {"stamp", "done"} => st.bound \in Carrying \ st.pre
      PROVE  launch' \in [Launches -> LaunchShape] /\ LaunchKept
  BY <1>2, <1>a DEF Advance, LaunchKept
<1>3. ASSUME NEW l \in Launches, launch[l].pc \notin {"stamp", "done"}, LaunchFails(l)
      PROVE  launch' \in [Launches -> LaunchShape] /\ LaunchKept
  <2>1. [launch[l] EXCEPT !.pc = "failed"] \in LaunchShape
    BY <1>a DEF LaunchShape
  <2>2. [launch[l] EXCEPT !.pc = "failed"].pc = "failed"
    BY <1>a DEF LaunchShape
  <2> QED BY <1>2, <1>3, <2>1, <2>2 DEF LaunchFails
<1>4. ASSUME NEW l \in Launches, Snapshot(l) PROVE launch' \in [Launches -> LaunchShape] /\ LaunchKept
  <2>1. /\ [launch[l] EXCEPT !.pre = Carrying, !.pc = "publish"] \in LaunchShape
        /\ [launch[l] EXCEPT !.pre = Carrying, !.pc = "publish"].pc = "publish"
        /\ [launch[l] EXCEPT !.pc = "refused"] \in LaunchShape
        /\ [launch[l] EXCEPT !.pc = "refused"].pc = "refused"
    BY <1>a DEF LaunchShape
  <2> QED BY <1>2, <1>3, <1>4, <2>1 DEF Snapshot
<1>5. ASSUME NEW l \in Launches, NEW a \in Replies, PublishLaunch(l, a)
      PROVE  launch' \in [Launches -> LaunchShape] /\ LaunchKept
  <2>1. \A pc \in {"bind", "failed"} : /\ [launch[l] EXCEPT !.pc = pc] \in LaunchShape
                                       /\ [launch[l] EXCEPT !.pc = pc].pc = pc
    BY <1>a DEF LaunchShape
  <2> QED BY <1>2, <1>5, <2>1 DEF PublishLaunch
<1>6. ASSUME NEW l \in Launches, BindRun(l) PROVE launch' \in [Launches -> LaunchShape] /\ LaunchKept
  <2>1. ASSUME NEW w \in NewRuns(l)
        PROVE  LET st == [launch[l] EXCEPT !.bound = w, !.pc = "stamp"]
               IN  st \in LaunchShape /\ st.bound = w /\ st.pre = launch[l].pre /\ w \in Carrying \ launch[l].pre
    BY <1>a DEF LaunchShape, NewRuns
  <2>2. /\ [launch[l] EXCEPT !.pc = "failed"] \in LaunchShape
        /\ [launch[l] EXCEPT !.pc = "failed"].pc = "failed"
    BY <1>a DEF LaunchShape
  <2>3. launch[l].pc = "bind"
    BY <1>6 DEF BindRun
  <2>4. \/ \E w \in NewRuns(l) : Advance(l, [launch[l] EXCEPT !.bound = w, !.pc = "stamp"])
        \/ Advance(l, [launch[l] EXCEPT !.pc = "failed"])
        \/ LaunchFails(l)
    BY <1>6 DEF BindRun
  <2> QED BY <1>2, <1>3, <2>1, <2>2, <2>3, <2>4
<1>7. ASSUME NEW l \in Launches, NEW a \in Replies, StampCondition(l, a)
      PROVE  /\ launch' \in [Launches -> LaunchShape] /\ LaunchKept
             /\ launch[l].pc = "stamp" /\ launch'[l] = [launch[l] EXCEPT !.pc = "done"]
             /\ label' = label \/ label' = label \cup {<<launch[l].bound, l>>}
  <2>1. [launch[l] EXCEPT !.pc = "done"] \in LaunchShape
    BY <1>a DEF LaunchShape
  <2>2. launch[l].pc = "stamp" /\ launch' = [launch EXCEPT ![l] = [launch[l] EXCEPT !.pc = "done"]]
    BY <1>7 DEF StampCondition, Advance
  <2>3. label' = label \/ label' = label \cup {<<launch[l].bound, l>>}
    BY <1>7 DEF StampCondition
  <2> QED BY <1>a, <2>1, <2>2, <2>3 DEF LaunchKept
<1>8. ASSUME NEW l \in Launches, Snapshot(l) \/ BindRun(l) \/ \E a \in Replies : PublishLaunch(l, a)
      PROVE label' = label
  BY <1>8 DEF Snapshot, BindRun, PublishLaunch, DoorKept
<1>9. UNCHANGED <<launch, label>> \/ \E l \in Launches : LaunchNext(l)
  <2>1. ASSUME NEW c \in Copies, IntakeNext(c) PROVE UNCHANGED <<launch, label>>
    BY <2>1 DEF IntakeNext, DeliverEvent, Ack, DecideAdmission, RecordAdmission, ResolveByRef, Publish
  <2>2. ASSUME NEW w \in WokenRuns, Mint(w) \/ Decline(w) \/ StampRef(w) PROVE UNCHANGED <<launch, label>>
    BY <2>2 DEF Mint, Decline, StampRef, RunStep
  <2>3. ASSUME NEW d \in Deliveries, NEW a \in Replies, Receive(d, a) PROVE UNCHANGED <<launch, label>>
    BY <2>3 DEF Receive
  <2>4. ASSUME NEW id \in window, Lapse(id) PROVE UNCHANGED <<launch, label>>
    BY <2>4 DEF Lapse
  <2>5. RestartIntake \/ UNCHANGED doorVars => UNCHANGED <<launch, label>>
    BY DEF RestartIntake, doorVars
  <2> QED BY <2>1, <2>2, <2>3, <2>4, <2>5 DEF DoorNext
<1> QED BY <1>1, <1>4, <1>5, <1>6, <1>7, <1>8, <1>9 DEF LaunchNext

LEMMA DoorKeepsTypes == DoorInv /\ [DoorNext]_doorVars => DoorTyped' /\ Bindings'
<1> SUFFICES ASSUME DoorInv, [DoorNext]_doorVars PROVE DoorTyped' /\ Bindings'
  OBVIOUS
<1>a. /\ DoorTyped /\ Bindings /\ Advances /\ Carrying \subseteq Carrying'
      /\ launch \in [Launches -> LaunchShape] /\ label \subseteq Nat \X Launches
  BY DoorAdvances, GrowsFacts DEF DoorInv, Advances, DoorTyped
<1>b. /\ launch' \in [Launches -> LaunchShape] /\ LaunchKept
      /\ window' \subseteq {"event", "wake"} \X Deliveries
      /\ \/ label' = label
         \/ \E l \in Launches : /\ label' = label \cup {<<launch[l].bound, l>>}
                                /\ launch[l].pc = "stamp" /\ launch'[l] = [launch[l] EXCEPT !.pc = "done"]
  BY <1>a, LaunchSteps, WindowTyped
<1>1. ASSUME NEW l \in Launches
      PROVE  [launch[l] EXCEPT !.pc = "done"].pc = "done" /\ launch[l].bound \in Nat
             /\ [launch[l] EXCEPT !.pc = "done"].bound = launch[l].bound
             /\ [launch[l] EXCEPT !.pc = "done"].pre = launch[l].pre
  BY <1>a DEF LaunchShape
<1>2. label' \subseteq Nat \X Launches
  <2>1. ASSUME NEW l \in Launches PROVE <<launch[l].bound, l>> \in Nat \X Launches
    BY <1>1
  <2> QED BY <1>a, <1>b, <2>1
<1>3. DoorTyped'
  BY <1>a, <1>b, <1>2 DEF DoorTyped, Advances
<1>4. ASSUME NEW l \in Launches, launch'[l].pc \in {"stamp", "done"}
      PROVE  launch'[l].bound \in Carrying' \ launch'[l].pre
  <2>1. CASE launch'[l] = launch[l]
    BY <1>a, <1>4, <2>1 DEF Bindings
  <2>2. CASE launch'[l].bound \in Carrying \ launch'[l].pre
    BY <1>a, <2>2
  <2>3. CASE launch[l].pc = "stamp" /\ launch'[l] = [launch[l] EXCEPT !.pc = "done"]
    BY <1>a, <1>1, <2>3 DEF Bindings
  <2> QED BY <1>b, <1>4, <2>1, <2>2, <2>3 DEF LaunchKept
<1>5. ASSUME NEW p \in label' PROVE launch'[p[2]].pc = "done" /\ p[1] = launch'[p[2]].bound
  <2>1. CASE p \in label
    <3>1. p[2] \in Launches /\ launch[p[2]].pc = "done" /\ p[1] = launch[p[2]].bound
      BY <1>a, <2>1 DEF Bindings
    <3>2. launch'[p[2]] = launch[p[2]]
      BY <1>b, <3>1 DEF LaunchKept
    <3> QED BY <3>1, <3>2
  <2>2. CASE p \notin label
    <3>1. PICK l \in Launches : /\ label' = label \cup {<<launch[l].bound, l>>}
                               /\ launch'[l] = [launch[l] EXCEPT !.pc = "done"]
      BY <1>b, <1>5, <2>2
    <3>2. p = <<launch[l].bound, l>>
      BY <1>5, <2>2, <3>1
    <3>3. launch'[l].pc = "done" /\ launch'[l].bound = launch[l].bound
      BY <1>1, <3>1
    <3> QED BY <3>2, <3>3
  <2> QED BY <2>1, <2>2
<1> QED BY <1>3, <1>4, <1>5 DEF Bindings

LEMMA AdmissibleKept == ASSUME event' = event, NEW d PROVE Admissible(d)' <=> Admissible(d)
  BY DEF Admissible

(* What a step may do to a copy on the stream.                             *)
LEMMA CopySteps ==
  ASSUME DoorTyped, [DoorNext]_doorVars, NEW c \in Copies
  PROVE  \/ intake'[c].pc = intake[c].pc
         \/ intake'[c].pc \notin {"record", "resolve", "publish", "ack", "acked"}
         \/ intake[c].pc = "ack" /\ intake'[c].pc = "acked"
         \/ \E a \in Replies : DecideAdmission(c, a) \/ RecordAdmission(c, a)
                              \/ ResolveByRef(c, a) \/ Publish(c, a)
<1>0. intake \in [Copies -> Intakes]
  BY DEF DoorTyped
<1>1. ASSUME NEW d \in Deliveries, NEW a \in Replies, Receive(d, a)
      PROVE  intake'[c].pc = intake[c].pc \/ intake'[c].pc = "ready"
  BY <1>1, <1>0 DEF Receive
<1>2. ASSUME NEW b \in Copies, b # c, IntakeNext(b) PROVE intake'[c] = intake[c]
  <2>1. \/ DeliverEvent(b) \/ RedeliverEvent(b)
        \/ \E pc \in {"ready", "dead", "acked", "record", "resolve", "publish", "ack"} : IntakeTo(b, pc)
    BY <1>2 DEF IntakeNext, Ack, DecideAdmission, RecordAdmission, ResolveByRef, Publish, OnConflict
  <2> QED BY <1>0, <1>2, <2>1, GotoFacts, RedeliverFacts DEF DeliverEvent
<1>3. DeliverEvent(c) => intake'[c].pc = "decide"
  BY <1>0 DEF DeliverEvent
<1>4. Ack(c) => intake[c].pc = "ack" /\ intake'[c].pc = "acked"
  BY <1>0, GotoFacts DEF Ack
<1>5. RestartIntake => intake'[c].pc = intake[c].pc \/ intake'[c].pc \in {"ready", "dead"}
  <2>1. NextTry(intake[c]) \in {"ready", "dead"}
    BY DEF NextTry
  <2> SUFFICES ASSUME RestartIntake
               PROVE intake'[c].pc = intake[c].pc \/ intake'[c].pc \in {"ready", "dead"}
    OBVIOUS
  <2>2. intake'[c] = IF InHandler(intake[c].pc) THEN [intake[c] EXCEPT !.pc = NextTry(intake[c])] ELSE intake[c]
    BY <1>0 DEF RestartIntake
  <2>3. [intake[c] EXCEPT !.pc = NextTry(intake[c])].pc = NextTry(intake[c])
    BY <1>0 DEF Intakes
  <2> QED BY <2>1, <2>2, <2>3
<1>6. ASSUME NEW id \in window, Lapse(id) PROVE intake' = intake
  BY <1>6 DEF Lapse
<1>7. ASSUME NEW w \in WokenRuns, Mint(w) \/ Decline(w) \/ StampRef(w) PROVE intake' = intake
  BY <1>7 DEF Mint, Decline, StampRef, RunStep
<1>8. ASSUME NEW l \in Launches, LaunchNext(l) PROVE intake' = intake
  BY <1>8 DEF LaunchNext, Snapshot, BindRun, PublishLaunch, StampCondition, DoorKept
<1>9. CASE UNCHANGED doorVars
  BY <1>9 DEF doorVars
<1> QED BY <1>1, <1>2, <1>3, <1>4, <1>5, <1>6, <1>7, <1>8, <1>9 DEF DoorNext, IntakeNext

LEMMA HandlersHold == DoorInv /\ [DoorNext]_doorVars => Handlers'
<1> SUFFICES ASSUME DoorInv, [DoorNext]_doorVars, NEW c \in Copies PROVE CopyHolds(c)'
  BY DEF Handlers
<1>a. /\ DoorTyped /\ Advances /\ CopyHolds(c) /\ event' = event /\ recorded \subseteq recorded'
      /\ c[1] \in Deliveries /\ intake \in [Copies -> Intakes]
  BY DoorAdvances, CopyFacts DEF DoorInv, Handlers, Advances, DoorTyped
<1>b. /\ Admissible(c[1])' <=> Admissible(c[1])
      /\ WokenFor(c[1]) => WokenFor(c[1])'
      /\ Carrying \subseteq Carrying'
  BY <1>a, AdmissibleKept, GrowsFacts DEF Advances
<1>1. CASE intake'[c].pc = intake[c].pc
  BY <1>1, <1>a, <1>b DEF CopyHolds
<1>2. CASE intake'[c].pc \notin {"record", "resolve", "publish", "ack", "acked"}
  BY <1>2 DEF CopyHolds
<1>3. CASE intake[c].pc = "ack" /\ intake'[c].pc = "acked"
  BY <1>3, <1>a, <1>b DEF CopyHolds
<1>4. ASSUME NEW a \in Replies, DecideAdmission(c, a) PROVE CopyHolds(c)'
  <2>1. CASE a = "failed"
    BY <1>2, <1>4, <1>a, <2>1, RedeliverFacts DEF DecideAdmission
  <2>2. CASE Authorized(event[c[1]]) /\ Signal(event[c[1]]) /\ a # "failed"
    <3>1. intake'[c].pc = "record"
      BY <1>4, <1>a, <2>2, GotoFacts DEF DecideAdmission
    <3>2. Admissible(c[1])
      BY <2>2 DEF Authorized, Signal, Admissible
    <3> QED BY <1>b, <3>1, <3>2 DEF CopyHolds
  <2>3. CASE ~(Authorized(event[c[1]]) /\ Signal(event[c[1]])) /\ a # "failed"
    <3>1. intake'[c].pc = "ack"
      BY <1>4, <1>a, <2>3, GotoFacts DEF DecideAdmission
    <3>2. ~Admissible(c[1])
      BY <2>3 DEF Authorized, Signal, Admissible
    <3> QED BY <1>b, <3>1, <3>2 DEF CopyHolds
  <2> QED BY <2>1, <2>2, <2>3
<1>5. ASSUME NEW a \in Replies, RecordAdmission(c, a) PROVE CopyHolds(c)'
  <2>1. intake[c].pc = "record" /\ Admissible(c[1])
    BY <1>5, <1>a DEF RecordAdmission, CopyHolds
  <2>2. \/ a = "ok" /\ c[1] \notin recorded /\ IntakeTo(c, "publish")
        \/ ((a = "ok" /\ c[1] \in recorded) \/ a = "unanswered") /\ IntakeTo(c, "resolve")
        \/ a # "ok" /\ RedeliverEvent(c)
    BY <1>5 DEF RecordAdmission, OnConflict
  <2>3. recorded' = IF a # "failed" THEN recorded \cup {c[1]} ELSE recorded
    BY <1>5 DEF RecordAdmission, Landed
  <2>4. CASE RedeliverEvent(c)
    BY <1>2, <1>a, <2>4, RedeliverFacts
  <2>5. CASE ~RedeliverEvent(c)
    <3>1. intake'[c].pc \in {"publish", "resolve"} /\ c[1] \in recorded'
      BY <1>a, <2>2, <2>3, <2>5, GotoFacts
    <3> QED BY <1>b, <2>1, <3>1 DEF CopyHolds
  <2> QED BY <2>4, <2>5
<1>6. ASSUME NEW a \in Replies, ResolveByRef(c, a) PROVE CopyHolds(c)'
  <2>1. intake[c].pc = "resolve" /\ Admissible(c[1]) /\ c[1] \in recorded
    BY <1>6, <1>a DEF ResolveByRef, CopyHolds
  <2>2. CASE a = "failed"
    BY <1>2, <1>6, <1>a, <2>2, RedeliverFacts DEF ResolveByRef
  <2>3. CASE a # "failed"
    <3>1. intake'[c].pc = IF Carrying # {} THEN "ack" ELSE "publish"
      BY <1>6, <1>a, <2>3, GotoFacts DEF ResolveByRef
    <3> QED BY <1>a, <1>b, <2>1, <3>1 DEF CopyHolds
  <2> QED BY <2>2, <2>3
<1>7. ASSUME NEW a \in Replies, Publish(c, a) PROVE CopyHolds(c)'
  <2>1. CASE a # "ok"
    BY <1>2, <1>7, <1>a, <2>1, RedeliverFacts DEF Publish
  <2>2. CASE a = "ok"
    <3>1. intake'[c].pc = "ack"
      BY <1>7, <1>a, <2>2, GotoFacts DEF Publish
    <3>2. WokenFor(c[1])'
      <4>1. CASE WakeId(c[1]) \cap window = {}
        <5>1. wakes' = Wake(c[1])
          BY <1>7, <2>2, <4>1 DEF Publish, Landed
        <5> QED BY <1>a, <5>1, AppendGrows DEF Sources, WokenFor
      <4>2. CASE WakeId(c[1]) \cap window # {}
        <5>1. <<"wake", c[1]>> \in window
          BY <4>2 DEF WakeId
        <5> QED BY <1>a, <1>b, <5>1 DEF DoorInv, Ordered
      <4> QED BY <4>1, <4>2
    <3> QED BY <3>1, <3>2 DEF CopyHolds
  <2> QED BY <2>1, <2>2
<1>8. \/ intake'[c].pc = intake[c].pc
      \/ intake'[c].pc \notin {"record", "resolve", "publish", "ack", "acked"}
      \/ intake[c].pc = "ack" /\ intake'[c].pc = "acked"
      \/ \E a \in Replies : DecideAdmission(c, a) \/ RecordAdmission(c, a) \/ ResolveByRef(c, a) \/ Publish(c, a)
  BY <1>a, CopySteps
<1> QED BY <1>1, <1>2, <1>3, <1>4, <1>5, <1>6, <1>7, <1>8

(* What a step may do to the records, the wakes and their identities.      *)
LEMMA RecordSteps ==
  [DoorNext]_doorVars => \/ recorded' = recorded
                         \/ \E c \in Copies : intake[c].pc = "record" /\ recorded' = recorded \cup {c[1]}
<1> SUFFICES ASSUME [DoorNext]_doorVars
             PROVE  \/ recorded' = recorded
                    \/ \E c \in Copies : intake[c].pc = "record" /\ recorded' = recorded \cup {c[1]}
  OBVIOUS
<1>1. ASSUME NEW c \in Copies, IntakeNext(c)
      PROVE  recorded' = recorded \/ (intake[c].pc = "record" /\ recorded' = recorded \cup {c[1]})
  BY <1>1 DEF IntakeNext, DeliverEvent, Ack, DecideAdmission, RecordAdmission, ResolveByRef, Publish
<1>2. ASSUME NEW l \in Launches, LaunchNext(l) PROVE recorded' = recorded
  BY <1>2 DEF LaunchNext, Snapshot, BindRun, PublishLaunch, StampCondition, DoorKept
<1>3. ASSUME NEW w \in WokenRuns, Mint(w) \/ Decline(w) \/ StampRef(w) PROVE recorded' = recorded
  BY <1>3 DEF Mint, Decline, StampRef, RunStep
<1>4. ASSUME NEW d \in Deliveries, NEW a \in Replies, Receive(d, a) PROVE recorded' = recorded
  BY <1>4 DEF Receive
<1>5. ASSUME NEW id \in window, Lapse(id) PROVE recorded' = recorded
  BY <1>5 DEF Lapse
<1>6. RestartIntake \/ UNCHANGED doorVars => recorded' = recorded
  BY DEF RestartIntake, doorVars
<1> QED BY <1>1, <1>2, <1>3, <1>4, <1>5, <1>6 DEF DoorNext

WakesKept == /\ WokenRuns' = WokenRuns /\ \A w \in WokenRuns : wakes'[w].by = wakes[w].by
Publishes(c) == /\ intake[c].pc = "publish" /\ <<"wake", c[1]>> \notin window
                /\ wakes' = Wake(c[1]) /\ window' = window \cup {<<"wake", c[1]>>}

LEMMA WakeSteps ==
  DoorTyped /\ [DoorNext]_doorVars => \/ WakesKept
                                      \/ \E c \in Copies : Publishes(c)
                                      \/ \E l \in Launches : wakes' = Wake(l)
<1> SUFFICES ASSUME DoorTyped, [DoorNext]_doorVars
             PROVE  WakesKept \/ (\E c \in Copies : Publishes(c)) \/ \E l \in Launches : wakes' = Wake(l)
  OBVIOUS
<1>0. UNCHANGED wakes => WakesKept
  BY DEF WakesKept, WokenRuns
<1>1. ASSUME NEW c \in Copies, NEW a \in Replies, Publish(c, a) PROVE UNCHANGED wakes \/ Publishes(c)
  BY <1>1 DEF Publish, Publishes, WakeId
<1>2. ASSUME NEW c \in Copies, IntakeNext(c) PROVE UNCHANGED wakes \/ Publishes(c)
  <2>1. UNCHANGED wakes \/ \E a \in Replies : Publish(c, a)
    BY <1>2 DEF IntakeNext, DeliverEvent, Ack, DecideAdmission, RecordAdmission, ResolveByRef
  <2> QED BY <1>1, <2>1
<1>3. ASSUME NEW l \in Launches, LaunchNext(l) PROVE UNCHANGED wakes \/ wakes' = Wake(l)
  BY <1>3 DEF LaunchNext, Snapshot, BindRun, PublishLaunch, StampCondition
<1>4. ASSUME NEW w \in WokenRuns, Mint(w) \/ Decline(w) \/ StampRef(w) PROVE WakesKept
  <2>1. RunStep(w, "none", "minted") \/ RunStep(w, "none", "declined") \/ RunStep(w, "minted", "carries")
    BY <1>4 DEF Mint, Decline, StampRef
  <2>2. Grows /\ WokenRuns' = WokenRuns
    BY <2>1, RunStepGrows
  <2> QED BY <2>2 DEF Grows, WakesKept
<1>5. ASSUME NEW d \in Deliveries, NEW a \in Replies, Receive(d, a) PROVE UNCHANGED wakes
  BY <1>5 DEF Receive
<1>6. ASSUME NEW id \in window, Lapse(id) PROVE UNCHANGED wakes
  BY <1>6 DEF Lapse
<1>7. RestartIntake \/ UNCHANGED doorVars => UNCHANGED wakes
  BY DEF RestartIntake, doorVars
<1> QED BY <1>0, <1>2, <1>3, <1>4, <1>5, <1>6, <1>7 DEF DoorNext

LEMMA IdentitySteps ==
  ASSUME DoorTyped, [DoorNext]_doorVars, NEW d \in Deliveries
  PROVE  /\ <<"wake", d>> \in window' /\ <<"wake", d>> \notin window =>
              \E c \in Copies : Publishes(c) /\ c[1] = d
         /\ <<"wake", d>> \in window /\ <<"wake", d>> \notin window' => Lapse(<<"wake", d>>)
<1> DEFINE id == <<"wake", d>>
<1>1. ASSUME NEW e \in Deliveries, NEW a \in Replies, Receive(e, a) PROVE id \in window' <=> id \in window
  BY <1>1 DEF Receive
<1>2. ASSUME NEW c \in Copies, IntakeNext(c)
      PROVE  /\ id \in window => id \in window'
             /\ id \in window' => id \in window \/ (Publishes(c) /\ c[1] = d)
  <2>1. ASSUME NEW a \in Replies, Publish(c, a)
        PROVE  /\ id \in window => id \in window'
               /\ id \in window' => id \in window \/ (Publishes(c) /\ c[1] = d)
    BY <2>1 DEF Publish, Publishes, WakeId
  <2>2. UNCHANGED window \/ \E a \in Replies : Publish(c, a)
    BY <1>2 DEF IntakeNext, DeliverEvent, Ack, DecideAdmission, RecordAdmission, ResolveByRef
  <2> QED BY <2>1, <2>2
<1>3. ASSUME NEW l \in Launches, LaunchNext(l) PROVE UNCHANGED window
  BY <1>3 DEF LaunchNext, Snapshot, BindRun, PublishLaunch, StampCondition, DoorKept
<1>4. ASSUME NEW w \in WokenRuns, Mint(w) \/ Decline(w) \/ StampRef(w) PROVE UNCHANGED window
  BY <1>4 DEF Mint, Decline, StampRef, RunStep
<1>5. ASSUME NEW i \in window, Lapse(i)
      PROVE  (id \in window' => id \in window) /\ (id \in window => id \in window' \/ Lapse(id))
  BY <1>5 DEF Lapse
<1>6. RestartIntake \/ UNCHANGED doorVars => UNCHANGED window
  BY DEF RestartIntake, doorVars
<1> HIDE DEF id
<1>7. /\ id \in window' /\ id \notin window => \E c \in Copies : Publishes(c) /\ c[1] = d
      /\ id \in window /\ id \notin window' => Lapse(id)
  BY <1>1, <1>2, <1>3, <1>4, <1>5, <1>6 DEF DoorNext
<1> QED BY <1>7 DEF id

LEMMA OrderedHolds == DoorInv /\ [DoorNext]_doorVars => Ordered'
<1> SUFFICES ASSUME DoorInv, [DoorNext]_doorVars PROVE Ordered'
  OBVIOUS
<1>a. DoorTyped /\ Handlers /\ Ordered /\ Advances
  BY DoorAdvances DEF DoorInv
<1>1. ASSUME NEW d \in recorded' PROVE Admissible(d)'
  <2>1. CASE d \in recorded
    BY <1>a, <2>1, AdmissibleKept DEF Ordered, Advances
  <2>2. CASE d \notin recorded
    <3>1. PICK c \in Copies : intake[c].pc = "record" /\ d = c[1]
      BY <1>1, <2>2, RecordSteps
    <3> QED BY <1>a, <3>1, AdmissibleKept DEF Handlers, CopyHolds, Advances
  <2> QED BY <2>1, <2>2
<1>2. ASSUME NEW d \in Deliveries, WokenFor(d)' PROVE d \in recorded'
  <2>1. CASE WokenFor(d)
    BY <1>a, <2>1 DEF Ordered, Advances
  <2>2. CASE WakesKept
    BY <1>2, <1>a, <2>1, <2>2 DEF WakesKept, WokenFor
  <2>3. ASSUME NEW s \in Sources, wakes' = Wake(s), ~WokenFor(d) PROVE s = d
    <3>1. Grows /\ WokenRuns' = WokenRuns \cup {Len(wakes) + 1} /\ wakes'[Len(wakes) + 1].by = s
      BY <1>a, <2>3, AppendGrows
    <3> QED BY <1>2, <2>3, <3>1 DEF Grows, WokenFor
  <2>4. ASSUME NEW c \in Copies, Publishes(c), ~WokenFor(d) PROVE d \in recorded'
    <3>1. c[1] \in recorded /\ c[1] \in Sources
      BY <1>a, <2>4, CopyFacts DEF Handlers, CopyHolds, Publishes, Sources
    <3> QED BY <1>a, <2>3, <2>4, <3>1 DEF Publishes, Advances
  <2>5. ASSUME NEW l \in Launches, wakes' = Wake(l), ~WokenFor(d) PROVE FALSE
    <3>1. l \in Sources /\ l # d
      BY FrontDoorAssumption DEF Sources
    <3> QED BY <2>3, <2>5, <3>1
  <2> QED BY <1>a, <2>1, <2>2, <2>4, <2>5, WakeSteps
<1>3. ASSUME NEW d \in Deliveries, <<"wake", d>> \in window' PROVE WokenFor(d)'
  <2>1. CASE <<"wake", d>> \in window
    BY <1>a, <2>1, GrowsFacts DEF Ordered, Advances
  <2>2. CASE <<"wake", d>> \notin window
    <3>1. PICK c \in Copies : Publishes(c) /\ c[1] = d
      BY <1>3, <1>a, <2>2, IdentitySteps
    <3>2. d \in Sources /\ wakes' = Wake(d)
      BY <3>1 DEF Publishes, Sources
    <3> QED BY <1>a, <3>2, AppendGrows DEF WokenFor
  <2> QED BY <2>1, <2>2
<1> QED BY <1>1, <1>2, <1>3 DEF Ordered

(* A handler comes to publish only for an admission with no record yet, or *)
(* while no run carries the reference.                                     *)
LEMMA PublishSteps ==
  ASSUME DoorTyped, [DoorNext]_doorVars, NEW c \in Copies,
         intake'[c].pc = "publish", intake[c].pc # "publish"
  PROVE  c[1] \notin recorded \/ Carrying = {}
<1>1. ASSUME NEW a \in Replies, DecideAdmission(c, a) PROVE FALSE
  <2>1. intake'[c].pc \in {"ready", "dead", "record", "ack"}
    BY <1>1, GotoFacts, RedeliverFacts DEF DecideAdmission
  <2> QED BY <2>1
<1>2. ASSUME NEW a \in Replies, RecordAdmission(c, a), c[1] \in recorded PROVE FALSE
  <2>1. intake'[c].pc \in {"ready", "dead", "resolve"}
    BY <1>2, GotoFacts, RedeliverFacts DEF RecordAdmission, OnConflict
  <2> QED BY <2>1
<1>3. ASSUME NEW a \in Replies, ResolveByRef(c, a), Carrying # {} PROVE FALSE
  <2>1. intake'[c].pc \in {"ready", "dead", "ack"}
    BY <1>3, GotoFacts, RedeliverFacts DEF ResolveByRef
  <2> QED BY <2>1
<1>4. ASSUME NEW a \in Replies, Publish(c, a) PROVE FALSE
  BY <1>4 DEF Publish
<1> QED BY <1>1, <1>2, <1>3, <1>4, CopySteps

LEMMA SinglesHold == DoorInv /\ [DoorNext]_doorVars => Singles'
<1> SUFFICES ASSUME DoorInv, [DoorNext]_doorVars, NEW d \in Deliveries \ lapsed' PROVE Single(d)'
  BY DEF Singles
<1>a. DoorTyped /\ Ordered /\ Advances /\ Single(d) /\ d \in Deliveries /\ d \notin lapsed'
  BY DoorAdvances DEF DoorInv, Singles, Advances
<1>1. ASSUME NEW c \in Copies, Publishes(c), c[1] = d PROVE ~WokenFor(d)
  BY <1>1, <1>a DEF Single, Fenced, Publishes
<1>2. \A v, w \in WokenRuns' : wakes'[v].by = d /\ wakes'[w].by = d => v = w
  <2>1. CASE WakesKept
    BY <1>a, <2>1 DEF WakesKept, Single
  <2>2. ASSUME NEW s \in Sources, wakes' = Wake(s), s = d => ~WokenFor(d)
        PROVE  \A v, w \in WokenRuns' : wakes'[v].by = d /\ wakes'[w].by = d => v = w
    <3>1. Grows /\ WokenRuns' = WokenRuns \cup {Len(wakes) + 1} /\ wakes'[Len(wakes) + 1].by = s
      BY <1>a, <2>2, AppendGrows
    <3>2. CASE s = d
      BY <2>2, <3>1, <3>2 DEF Grows, WokenFor
    <3>3. CASE s # d
      BY <1>a, <3>1, <3>3 DEF Grows, Single
    <3> QED BY <3>2, <3>3
  <2>3. ASSUME NEW c \in Copies, Publishes(c)
        PROVE  \A v, w \in WokenRuns' : wakes'[v].by = d /\ wakes'[w].by = d => v = w
    <3>1. c[1] \in Sources /\ wakes' = Wake(c[1])
      BY <2>3, CopyFacts DEF Publishes, Sources
    <3> QED BY <1>1, <2>2, <2>3, <3>1
  <2>4. ASSUME NEW l \in Launches, wakes' = Wake(l)
        PROVE  \A v, w \in WokenRuns' : wakes'[v].by = d /\ wakes'[w].by = d => v = w
    <3>1. l \in Sources /\ l # d
      BY <1>a, FrontDoorAssumption DEF Sources
    <3> QED BY <2>2, <2>4, <3>1
  <2> QED BY <1>a, <2>1, <2>3, <2>4, WakeSteps
<1>3. ASSUME WokenFor(d)' PROVE Fenced(d)'
  <2>1. CASE <<"wake", d>> \in window /\ <<"wake", d>> \notin window'
    <3>1. Lapse(<<"wake", d>>)
      BY <1>a, <2>1, IdentitySteps
    <3>2. <<"wake", d>>[1] = "wake" /\ <<"wake", d>>[2] = d
      OBVIOUS
    <3>3. ~Unsettled(d) /\ intake' = intake
      BY <1>a, <3>1, <3>2 DEF Lapse
    <3>4. \A c \in Copies : c[1] = d => intake[c].pc # "publish"
      BY <3>3, CopyFacts DEF Unsettled
    <3>5. Carried(d)'
      BY <1>a, <3>3, GrowsFacts DEF Unsettled, Carried, Advances
    <3> QED BY <3>3, <3>4, <3>5 DEF Fenced
  <2>2. CASE ~WokenFor(d) /\ <<"wake", d>> \notin window /\ <<"wake", d>> \notin window'
    <3>1. ~WakesKept
      BY <1>3, <2>2 DEF WakesKept, WokenFor
    <3>2. ASSUME NEW s \in Sources, wakes' = Wake(s) PROVE s = d
      <4>1. Grows /\ WokenRuns' = WokenRuns \cup {Len(wakes) + 1} /\ wakes'[Len(wakes) + 1].by = s
        BY <1>a, <3>2, AppendGrows
      <4> QED BY <1>3, <2>2, <4>1 DEF Grows, WokenFor
    <3>3. ASSUME NEW c \in Copies, Publishes(c) PROVE FALSE
      <4>1. c[1] \in Sources /\ wakes' = Wake(c[1]) /\ <<"wake", c[1]>> \in window'
        BY <3>3, CopyFacts DEF Publishes, Sources
      <4> QED BY <2>2, <3>2, <4>1
    <3>4. ASSUME NEW l \in Launches, wakes' = Wake(l) PROVE FALSE
      <4>1. l \in Sources /\ l # d
        BY <1>a, FrontDoorAssumption DEF Sources
      <4> QED BY <3>2, <3>4, <4>1
    <3> QED BY <1>a, <3>1, <3>3, <3>4, WakeSteps
  <2>3. CASE WokenFor(d) /\ <<"wake", d>> \notin window /\ <<"wake", d>> \notin window'
    <3>1. Carried(d) /\ \A c \in Copies : c[1] = d => intake[c].pc # "publish"
      BY <1>a, <2>3 DEF Single, Fenced
    <3>2. Carried(d)' /\ d \in recorded /\ Carrying # {}
      BY <1>a, <2>3, <3>1, GrowsFacts DEF Ordered, Advances, Carried
    <3>3. \A c \in Copies : c[1] = d => intake'[c].pc # "publish"
      BY <1>a, <3>1, <3>2, PublishSteps
    <3> QED BY <3>2, <3>3 DEF Fenced
  <2>4. CASE <<"wake", d>> \in window'
    BY <2>4 DEF Fenced
  <2> QED BY <2>1, <2>2, <2>3, <2>4
<1> QED BY <1>2, <1>3 DEF Single

LEMMA DoorStep == DoorInv /\ [DoorNext]_doorVars => DoorInv'
<1> SUFFICES ASSUME DoorInv, [DoorNext]_doorVars PROVE DoorInv'
  OBVIOUS
<1> QED BY DoorKeepsTypes, HandlersHold, OrderedHolds, SinglesHold DEF DoorInv

LEMMA DoorInvariant == DoorSpec => []DoorInv
  BY DoorStarts, DoorStep, PTL DEF DoorSpec

(* One admission wakes the front door once while its wake is deduplicated, *)
(* only what the documents admit is recorded, and nothing is woken         *)
(* unrecorded (RecordAdmission, ResolveByRef, the publish under WakeId).   *)
THEOREM WakesOnce == DoorSpec => []OneWakePerAdmission
<1>1. DoorInv => OneWakePerAdmission
  <2> SUFFICES ASSUME DoorInv PROVE OneWakePerAdmission
    OBVIOUS
  <2>1. ASSUME NEW d \in Deliveries \ lapsed PROVE Cardinality(WokenBy(d)) <= 1
    <3>1. \A a, b \in WokenBy(d) : a = b
      BY <2>1 DEF DoorInv, Singles, Single, WokenBy
    <3> QED BY <3>1, AtMostOne
  <2>2. ASSUME NEW d \in Deliveries, WokenBy(d) # {} PROVE d \in recorded
    BY <2>2 DEF DoorInv, Ordered, WokenBy, WokenFor
  <2> QED BY <2>1, <2>2 DEF DoorInv, Ordered, OneWakePerAdmission
<1> QED BY <1>1, DoorInvariant, PTL

(* An admitted event is not acknowledged without a wake or a run, and a    *)
(* launch labels its own run or one that raced it (handleIssue, bindRun).  *)
THEOREM AdmittedServed == DoorSpec => []AdmittedIsServed
<1>1. DoorInv => AdmittedIsServed
  <2> SUFFICES ASSUME DoorInv PROVE AdmittedIsServed
    OBVIOUS
  <2>1. ASSUME NEW c \in Copies, intake[c].pc = "acked", Admissible(c[1])
        PROVE  WokenBy(c[1]) # {} \/ Carrying # {}
    BY <2>1 DEF DoorInv, Handlers, CopyHolds, WokenFor, WokenBy
  <2>2. ASSUME NEW p \in label
        PROVE  wakes[p[1]].by = p[2] \/ (Raced(p[2]) /\ p[1] \notin launch[p[2]].pre)
    <3>1. p[2] \in Launches /\ launch[p[2]].pc = "done" /\ p[1] = launch[p[2]].bound
      BY <2>2 DEF DoorInv, DoorTyped, Bindings
    <3>2. p[1] \in Carrying \ launch[p[2]].pre
      BY <3>1 DEF DoorInv, Bindings
    <3> QED BY <3>2 DEF Raced
  <2> QED BY <2>1, <2>2 DEF AdmittedIsServed
<1> QED BY <1>1, DoorInvariant, PTL

-----------------------------------------------------------------------------
(* Team standards and the repository's checks.                             *)

(* A record that was ever born cites a source that is there.               *)
Sourced == \A k \in Records : status[k] # "none" => <<k[1], k[2]>> \in sources

(* A handler that is run again has an attempt left.                        *)
Trying == sync.pc = "again" => sync.try < HandleTries

(* A call that synchronises has not answered for its repository, and what  *)
(* it is done with is active, an operator's interference aside.            *)
AtWork == sync.pc \in {"source", "records", "promote", "retire"}
Here   == RepoOf[sync.on]
Working == AtWork =>
  /\ sync.todo \subseteq Ids(sync.law)
  /\ sync.pc \in {"source", "records", "promote"} => sync.law \in Laws
  /\ sync.pc \in {"records", "promote"} => <<Here, sync.law>> \in sources
  /\ sync.pc = "retire" => sync.todo = {}
  /\ stands[Here] \in {Unknown, Undone}
  /\ stands[Here] = Unknown =>
       \A k \in Records : k[1] = Here /\ k[2] = sync.law /\ k[3] \notin sync.todo =>
                            status[k] = "active"

(* What TheFileIsTheLaw says, record by record.                            *)
FileAnswers(p) == \A k \in Records : k[1] = p =>
  IF k[2] = stands[p] THEN status[k] = "active" ELSE status[k] \notin {"active", "proposed"}
LawKept == \A p \in Repos : stands[p] \notin {Unknown, Undone} => FileAnswers(p)

(* A snapshot is lost or the file the run was provisioned under.           *)
Snapped == \A r \in Runs : snapshot[r] \in {captured[r], Unknown}

LawInv == LawTypeOK /\ Trying /\ Sourced /\ Working /\ LawKept /\ Snapped /\ PassedMeansGated

LEMMA RecordFacts ==
  /\ \A k \in Records : k[1] \in Repos /\ k[2] \in Laws /\ k[3] \in Declares[k[2]] /\ k = <<k[1], k[2], k[3]>>
  /\ \A p \in Repos, l \in Laws : \A s \in Declares[l] : <<p, l, s>> \in Records
<1>1. ASSUME NEW k \in Records
      PROVE  k[1] \in Repos /\ k[2] \in Laws /\ k[3] \in Declares[k[2]] /\ k = <<k[1], k[2], k[3]>>
  <2>1. PICK p \in Repos, l \in Laws : k \in {<<p, l, s>> : s \in Declares[l]}
    BY <1>1 DEF Records
  <2>2. PICK s \in Declares[l] : k = <<p, l, s>>
    BY <2>1
  <2> QED BY <2>1, <2>2
<1>2. ASSUME NEW p \in Repos, NEW l \in Laws, NEW s \in Declares[l] PROVE <<p, l, s>> \in Records
  <2> DEFINE Of(q, m) == {<<q, m, x>> : x \in Declares[m]}
            All == {Of(q, m) : q \in Repos, m \in Laws}
  <2>1. <<p, l, s>> \in Of(p, l)
    OBVIOUS
  <2>2. Of(p, l) \in All
    OBVIOUS
  <2> HIDE DEF Of
  <2>3. <<p, l, s>> \in UNION All
    BY <2>1, <2>2
  <2> QED BY <2>3 DEF Records, Of
<1> QED BY <1>1, <1>2

LEMMA LawConstants ==
  /\ RepoOf \in [Runs -> Repos] /\ NoRun \in Runs /\ MaxPushes \in Nat /\ MaxUpsets \in Nat
  /\ HandleTries \in Nat \ {0}
  /\ {NoFile, Broken, Irregular, Unknown, Undone} \cap Laws = {}
  /\ Unknown \notin Files /\ Undone \notin Files /\ NoFile \in Files
  /\ Laws \subseteq Files /\ Unknown # Undone
  /\ \A l \in Files : l \in Laws \/ l \in {NoFile, Broken, Irregular}
  /\ \A l \in Files : Ids(l) \in SUBSET UNION {Declares[m] : m \in Laws}
  /\ Ids(NoFile) = {}
  BY StandardsAssumption DEF NoRun, NoFile, Broken, Irregular, Unknown, Undone, Files, Ids

LEMMA LawStarts == LawInit => LawInv
  BY LawConstants DEF LawInit, LawInv, LawTypeOK, Trying, Sourced, Working, AtWork, LawKept, Snapped, PassedMeansGated, NoSync

SyncShape == [on : Runs, law : Files, todo : SUBSET UNION {Declares[l] : l \in Laws},
              pc : {"idle", "again", "source", "records", "promote", "retire"},
              try : 0..HandleTries]
Statuses  == {"none", "proposed", "active", "retired"}
RunShape  == [state : {"new", "ready", "blocked", "failed", "passed", "rejected", "error"},
              under : Files \cup {Unknown},
              ran : SUBSET ({"command", "control"} \X {"zero", "nonzero", "fault", "unasked"})]

LEMMA LawTypes ==
  LawTypeOK <=> /\ file \in [Repos -> Files] /\ sources \subseteq Repos \X Laws
                /\ status \in [Records -> Statuses] /\ sync \in SyncShape
                /\ snapshot \in [Runs -> Files \cup {Unknown}]
                /\ captured \in [Runs -> Files \cup {Unknown}]
                /\ run \in [Runs -> RunShape]
                /\ stands \in [Repos -> Files \cup {Unknown, Undone}]
                /\ spent \in [pushes : 0..MaxPushes, upsets : 0..MaxUpsets]
  BY DEF LawTypeOK, SyncShape, Statuses, RunShape

LEMMA LawTypesNext ==
  LawTypeOK' <=> /\ file' \in [Repos -> Files] /\ sources' \subseteq Repos \X Laws
                 /\ status' \in [Records -> Statuses] /\ sync' \in SyncShape
                 /\ snapshot' \in [Runs -> Files \cup {Unknown}]
                 /\ captured' \in [Runs -> Files \cup {Unknown}]
                 /\ run' \in [Runs -> RunShape]
                 /\ stands' \in [Repos -> Files \cup {Unknown, Undone}]
                 /\ spent' \in [pushes : 0..MaxPushes, upsets : 0..MaxUpsets]
  BY DEF LawTypeOK, SyncShape, Statuses, RunShape

LEMMA UpsetTyped == LawTypeOK /\ (Upset \/ UNCHANGED spent) =>
                      spent' \in [pushes : 0..MaxPushes, upsets : 0..MaxUpsets]
  BY LawTypes, LawConstants DEF Upset

(* How a call ends or comes again.                                         *)
LEMMA EndsTyped ==
  ASSUME LawTypeOK, NEW r \in Runs, NEW state \in {"ready", "blocked", "failed"}, Ends(r, state)
  PROVE  /\ run' \in [Runs -> RunShape] /\ sync' \in SyncShape /\ sync'.pc = "idle"
         /\ \A q \in Runs : run'[q] = run[q] \/ run'[q].state # "passed"
<1>1. NoSync \in SyncShape /\ NoSync.pc = "idle"
  BY LawConstants DEF NoSync, SyncShape
<1> DEFINE e == [run[r] EXCEPT !.state = IF @ = "new" THEN state ELSE @]
<1>2. run' = [run EXCEPT ![r] = e] /\ sync' = NoSync
  BY Zenon DEF Ends
<1>3. ASSUME NEW x \in RunShape
      PROVE  LET y == [x EXCEPT !.state = IF @ = "new" THEN state ELSE @]
             IN  y \in RunShape /\ (x.state = "new" => y.state # "passed") /\ (x.state # "new" => y = x)
  BY DEF RunShape
<1>4. run[r] \in RunShape
  BY LawTypes
<1>5. e \in RunShape /\ (run[r].state = "new" => e.state # "passed") /\ (run[r].state # "new" => e = run[r])
  BY <1>3, <1>4, Zenon
<1> HIDE DEF e
<1>6. run \in [Runs -> RunShape] /\ (e = run[r] \/ e.state # "passed")
  BY <1>5, LawTypes
<1> QED BY <1>1, <1>2, <1>5, <1>6

LEMMA FailsTyped ==
  ASSUME LawTypeOK, SyncFails
  PROVE  /\ run' \in [Runs -> RunShape] /\ sync' \in SyncShape /\ sync'.pc \in {"idle", "again"}
         /\ \A q \in Runs : run'[q] = run[q] \/ run'[q].state # "passed"
<1>1. CASE Ends(sync.on, "failed")
  <2>1. sync.on \in Runs
    BY LawTypes DEF SyncShape
  <2> QED BY <1>1, <2>1, EndsTyped
<1>2. CASE sync' = [sync EXCEPT !.pc = "again"] /\ UNCHANGED run
  BY <1>2, LawTypes DEF SyncShape
<1> QED BY <1>1, <1>2 DEF SyncFails

(* What a round of checks records.                                         *)
LEMMA ChecksTyped ==
  ASSUME LawTypeOK, NEW r \in Runs, RunChecks(r)
  PROVE  /\ run' \in [Runs -> RunShape] /\ \A q \in Runs : q # r => run'[q] = run[q]
         /\ \E kind \in {GateOf(Lookup(r)), "unanswered"} :
            \E control \in Outcomes(kind = "proven") :
            \E command \in Outcomes(kind = "plain" \/ control = "nonzero") :
              run'[r] = [state |-> Finding(kind, control, command), under |-> captured[r],
                         ran   |-> {<<"control", control>>, <<"command", command>>}]
<1> DEFINE R(kind, control, command) ==
             [state |-> Finding(kind, control, command), under |-> captured[r],
              ran   |-> {<<"control", control>>, <<"command", command>>}]
<1> DEFINE gate == GateOf(Lookup(r))
            Ran(kind) == \E control \in Outcomes(kind = "proven") :
                         \E command \in Outcomes(kind = "plain" \/ control = "nonzero") :
                           run' = [run EXCEPT ![r] = R(kind, control, command)]
<1>0. PICK kind \in {gate} \cup (IF gate = "none" THEN {} ELSE {"unanswered"}) : Ran(kind)
  BY Zenon DEF RunChecks
<1> HIDE DEF R
<1>1. kind \in {gate, "unanswered"}
  BY <1>0
<1>2. PICK control \in Outcomes(kind = "proven") :
        \E command \in Outcomes(kind = "plain" \/ control = "nonzero") :
          run' = [run EXCEPT ![r] = R(kind, control, command)]
  BY <1>0
<1>3. PICK command \in Outcomes(kind = "plain" \/ control = "nonzero") :
        run' = [run EXCEPT ![r] = R(kind, control, command)]
  BY <1>2
<1>4. Finding(kind, control, command) \in {"error", "passed", "rejected"}
  BY DEF Finding
<1>5. {control, command} \subseteq {"zero", "nonzero", "fault", "unasked"}
  BY <1>2, <1>3 DEF Outcomes
<1>6. R(kind, control, command) \in RunShape
  BY <1>4, <1>5, LawTypes DEF RunShape, R
<1>7. run \in [Runs -> RunShape]
  BY LawTypes
<1>8. run'[r] = R(kind, control, command) /\ run' \in [Runs -> RunShape]
      /\ \A q \in Runs : q # r => run'[q] = run[q]
  BY <1>3, <1>6, <1>7
<1> QED BY <1>1, <1>2, <1>3, <1>8 DEF R

LEMMA LawKeepsTypes == LawInv /\ [LawNext]_lawVars => LawTypeOK'
<1> SUFFICES ASSUME LawInv, [LawNext]_lawVars PROVE LawTypeOK'
  OBVIOUS
<1>a. LawTypeOK /\ Trying /\ Working
  BY DEF LawInv
<1> USE LawConstants
<1>0. sync.on \in Runs /\ Here \in Repos /\ sync.law \in Files
  BY <1>a, LawTypes DEF Here, SyncShape
<1>1. ASSUME NEW p \in Repos, Push(p) PROVE LawTypeOK'
  BY <1>1, <1>a, LawTypes, LawTypesNext DEF Push
<1>2. ASSUME NEW k \in Records, OperatorRetires(k) PROVE LawTypeOK'
  <2>1. spent' \in [pushes : 0..MaxPushes, upsets : 0..MaxUpsets]
    BY <1>a, <1>2, UpsetTyped DEF OperatorRetires
  <2>2. k[1] \in Repos
    BY RecordFacts
  <2> QED BY <1>2, <2>1, <2>2, <1>a, LawTypes, LawTypesNext DEF OperatorRetires, Statuses
<1>3. ASSUME NEW r \in Runs, Take(r) PROVE LawTypeOK'
  <2>1. spent' \in [pushes : 0..MaxPushes, upsets : 0..MaxUpsets]
    BY <1>a, <1>3, UpsetTyped DEF Take
  <2>2. sync' \in SyncShape
    <3>1. sync' = [on |-> r, pc |-> "again", law |-> NoFile, todo |-> {}, try |-> 0]
      BY <1>3 DEF Take, NoSync
    <3> QED BY <3>1 DEF SyncShape
  <2> QED BY <1>3, <2>1, <2>2, <1>a, LawTypes, LawTypesNext DEF Take
<1>4. CASE Capture
  <2>1. file[Here] \in Files /\ Here = RepoOf[sync.on]
    BY <1>a, <1>0, LawTypes DEF Here
  <2>2. snapshot' \in [Runs -> Files \cup {Unknown}] /\ captured' \in [Runs -> Files \cup {Unknown}]
    BY <1>a, <1>0, <1>4, <2>1, LawTypes DEF Capture
  <2>3. CASE Ends(sync.on, "blocked") /\ UNCHANGED stands
    <3>1. run' \in [Runs -> RunShape] /\ sync' \in SyncShape
      BY <1>a, <1>0, <2>3, EndsTyped
    <3> QED BY <1>4, <2>2, <2>3, <3>1, <1>a, LawTypes, LawTypesNext DEF Capture
  <2>4. CASE ~(Ends(sync.on, "blocked") /\ UNCHANGED stands)
    <3>1. /\ sync' = [sync EXCEPT !.pc = IF file[Here] = NoFile THEN "retire" ELSE "source",
                                  !.law = file[Here], !.todo = Ids(file[Here]), !.try = @ + 1]
          /\ stands' = [stands EXCEPT ![Here] = Unknown] /\ run' = run
      BY <1>4, <2>4 DEF Capture, Here
    <3>2. sync.try + 1 \in 0..HandleTries
      BY <1>a, <1>4, LawTypes DEF Trying, Capture, SyncShape
    <3>3. sync' \in SyncShape
      BY <1>a, <2>1, <3>1, <3>2, LawTypes DEF SyncShape
    <3> QED BY <1>0, <1>4, <2>2, <3>1, <3>3, <1>a, LawTypes, LawTypesNext DEF Capture
  <2> QED BY <2>3, <2>4
<1>5. CASE Source
  <2>1. spent' \in [pushes : 0..MaxPushes, upsets : 0..MaxUpsets]
    BY <1>a, <1>5, UpsetTyped DEF Source
  <2>2. run' \in [Runs -> RunShape] /\ sync' \in SyncShape
    BY <1>a, <1>5, FailsTyped, LawTypes DEF Source, SyncShape
  <2>3. sync.law \in Laws /\ (sources' = sources \/ sources' = sources \cup {<<Here, sync.law>>})
    BY <1>0, <1>a, <1>5 DEF Source, Here, Working, AtWork
  <2> QED BY <1>0, <1>5, <2>1, <2>2, <2>3, <1>a, LawTypes, LawTypesNext DEF Source
<1>6. CASE Birth
  <2>1. spent' \in [pushes : 0..MaxPushes, upsets : 0..MaxUpsets]
    BY <1>a, <1>6, UpsetTyped DEF Birth
  <2>2. run' \in [Runs -> RunShape] /\ sync' \in SyncShape
    <3>1. PICK s \in sync.todo : \/ sync' = [sync EXCEPT !.pc = "promote", !.todo = {s} \cup @] /\ run' = run
                                 \/ SyncFails
      BY <1>6 DEF Birth
    <3>2. [sync EXCEPT !.pc = "promote", !.todo = {s} \cup @] \in SyncShape
      BY <1>a, <3>1, LawTypes DEF SyncShape
    <3> QED BY <1>a, <3>1, <3>2, FailsTyped, LawTypes
  <2>3. \A k : Born(k) \in [Records -> Statuses]
    BY <1>a, LawTypes DEF Born, Statuses
  <2>4. status' \in [Records -> Statuses]
    BY <1>a, <1>6, <2>3, LawTypes DEF Birth
  <2> QED BY <1>6, <2>1, <2>2, <2>4, <1>a, LawTypes, LawTypesNext DEF Birth
<1>7. CASE Promote
  <2>1. spent' \in [pushes : 0..MaxPushes, upsets : 0..MaxUpsets]
    BY <1>a, <1>7, UpsetTyped DEF Promote
  <2>2. run' \in [Runs -> RunShape] /\ sync' \in SyncShape
    <3>1. PICK s \in sync.todo : \/ sync' = [sync EXCEPT !.pc = "records", !.todo = @ \ {s}] /\ run' = run
                                 \/ SyncFails
      BY <1>7 DEF Promote
    <3>2. [sync EXCEPT !.pc = "records", !.todo = @ \ {s}] \in SyncShape
      BY <1>a, <3>1, LawTypes DEF SyncShape
    <3> QED BY <1>a, <3>1, <3>2, FailsTyped, LawTypes
  <2>3. \A k : Activated(k) \in [Records -> Statuses]
    BY <1>a, LawTypes DEF Activated, Statuses
  <2>4. status' \in [Records -> Statuses]
    BY <1>a, <1>7, <2>3, LawTypes DEF Promote
  <2> QED BY <1>7, <2>1, <2>2, <2>4, <1>a, LawTypes, LawTypesNext DEF Promote
<1>8. CASE Retire
  <2>1. spent' \in [pushes : 0..MaxPushes, upsets : 0..MaxUpsets]
    BY <1>a, <1>8, UpsetTyped DEF Retire
  <2>2. run' \in [Runs -> RunShape] /\ sync' \in SyncShape
    BY <1>a, <1>8, FailsTyped, LawTypes DEF Retire, SyncShape
  <2>3. \A k : [status EXCEPT ![k] = "retired"] \in [Records -> Statuses]
    BY <1>a, LawTypes DEF Statuses
  <2>4. status' \in [Records -> Statuses]
    BY <1>a, <1>8, <2>3, LawTypes DEF Retire
  <2> QED BY <1>8, <2>1, <2>2, <2>4, <1>a, LawTypes, LawTypesNext DEF Retire
<1>9. CASE Synced
  <2>1. run' \in [Runs -> RunShape] /\ sync' \in SyncShape
    BY <1>a, <1>0, <1>9, EndsTyped DEF Synced
  <2>2. stands' \in [Repos -> Files \cup {Unknown, Undone}]
    BY <1>a, <1>0, <1>9, LawTypes DEF Synced, Here
  <2> QED BY <1>9, <2>1, <2>2, <1>a, LawTypes, LawTypesNext DEF Synced
<1>10. ASSUME NEW r \in Runs, RunChecks(r) PROVE LawTypeOK'
  <2>1. run' \in [Runs -> RunShape]
    BY <1>a, <1>10, ChecksTyped
  <2> QED BY <1>10, <2>1, <1>a, LawTypes, LawTypesNext DEF RunChecks
<1>11. ASSUME NEW r \in Runs, NextAttempt(r) PROVE LawTypeOK'
  <2>1. [state |-> "ready", under |-> Unknown, ran |-> {}] \in RunShape
    BY DEF RunShape
  <2> QED BY <1>11, <2>1, <1>a, LawTypes, LawTypesNext DEF NextAttempt
<1>12. CASE RestartStation
  <2>1. spent' \in [pushes : 0..MaxPushes, upsets : 0..MaxUpsets]
    BY <1>a, <1>12, UpsetTyped DEF RestartStation
  <2>2. run' \in [Runs -> RunShape] /\ sync' \in SyncShape
    BY <1>a, <1>0, <1>12, EndsTyped, LawTypes DEF RestartStation
  <2> QED BY <1>12, <2>1, <2>2, <1>a, LawTypes, LawTypesNext DEF RestartStation
<1>13. CASE UNCHANGED lawVars
  BY <1>13, <1>a, LawTypes, LawTypesNext DEF lawVars
<1>14. CASE CannotRead
  <2>1. spent' \in [pushes : 0..MaxPushes, upsets : 0..MaxUpsets]
    BY <1>a, <1>14, UpsetTyped DEF CannotRead
  <2>2. run' \in [Runs -> RunShape] /\ sync' \in SyncShape
    <3>1. CASE Ends(sync.on, "failed")
      BY <1>a, <1>0, <3>1, EndsTyped
    <3>2. CASE sync' = [sync EXCEPT !.try = @ + 1] /\ sync.try + 1 < HandleTries /\ UNCHANGED run
      BY <1>a, <3>2, LawTypes DEF SyncShape
    <3> QED BY <1>14, <3>1, <3>2 DEF CannotRead
  <2> QED BY <1>14, <2>1, <2>2, <1>a, LawTypes, LawTypesNext DEF CannotRead
<1> QED BY <1>1, <1>2, <1>3, <1>4, <1>5, <1>6, <1>7, <1>8, <1>9, <1>10, <1>11, <1>12, <1>13, <1>14
        DEF LawNext

Sync == Sourced /\ Working /\ LawKept

LEMMA SyncQuiet ==
  ASSUME Sync, UNCHANGED <<status, sources, stands>>,
         UNCHANGED sync \/ sync'.pc \in {"idle", "again"}
  PROVE  Sync'
  BY DEF Sync, Sourced, Working, LawKept, AtWork, Here, FileAnswers

(* A step that only touches one repository's records leaves the answers of *)
(* the others alone.                                                       *)
LEMMA OthersKept ==
  ASSUME LawKept, NEW h \in Repos, \A p \in Repos : p # h => stands'[p] = stands[p],
         stands'[h] \in {Unknown, Undone},
         \A k \in Records : k[1] # h => status'[k] = status[k]
  PROVE  LawKept'
<1> SUFFICES ASSUME NEW p \in Repos, stands'[p] \notin {Unknown, Undone} PROVE FileAnswers(p)'
  BY DEF LawKept
<1>1. p # h /\ stands'[p] = stands[p] /\ FileAnswers(p)
  BY DEF LawKept
<1> QED BY <1>1 DEF FileAnswers

(* What a call writes concerns records of its own repository, whose answer *)
(* is open.                                                                *)
LEMMA OwnRecord ==
  ASSUME LawTypeOK, Sync, AtWork, sync.on \in Runs, Here \in Repos, stands' = stands, sources' = sources,
         NEW k \in Records, k[1] = Here, <<k[1], k[2]>> \in sources,
         NEW v \in Statuses,
         status' = status \/ status' = [status EXCEPT ![k] = v]
  PROVE  Sourced' /\ LawKept'
<1>1. status \in [Records -> Statuses]
  BY LawTypes
<1>2. Sourced'
  BY <1>1 DEF Sync, Sourced
<1>3. \A j \in Records : j[1] # Here => status'[j] = status[j]
  BY <1>1
<1>4. stands[Here] \in {Unknown, Undone}
  BY DEF Sync, Working
<1> QED BY <1>2, <1>3, <1>4, OthersKept DEF Sync

LEMMA SyncHolds == LawInv /\ [LawNext]_lawVars => Sync'
<1> SUFFICES ASSUME LawInv, [LawNext]_lawVars PROVE Sync'
  OBVIOUS
<1>a. LawTypeOK /\ Sync /\ Sourced /\ Working /\ LawKept
  BY DEF LawInv, Sync
<1>b. sync.on \in Runs /\ Here \in Repos /\ sync.law \in Files
  BY <1>a, LawTypes, LawConstants DEF Here, SyncShape
<1>c. /\ status \in [Records -> Statuses] /\ stands \in [Repos -> Files \cup {Unknown, Undone}]
      /\ sync \in SyncShape
  BY <1>a, LawTypes
<1>d. SyncFails => sync'.pc \in {"idle", "again"}
  BY <1>a, FailsTyped
<1>1. ASSUME NEW p \in Repos, Push(p) PROVE Sync'
  BY <1>1, <1>a, SyncQuiet DEF Push
<1>2. ASSUME NEW k \in Records, OperatorRetires(k) PROVE Sync'
  <2>1. k[1] \in Repos /\ stands' = [stands EXCEPT ![k[1]] = Undone]
        /\ status' = [status EXCEPT ![k] = "retired"] /\ status[k] = "active" /\ UNCHANGED <<sources, sync>>
    BY <1>2, RecordFacts DEF OperatorRetires
  <2>2. Sourced'
    BY <1>a, <1>c, <2>1 DEF Sourced
  <2>3. LawKept'
    <3>1. stands'[k[1]] \in {Unknown, Undone} /\ \A p \in Repos : p # k[1] => stands'[p] = stands[p]
      BY <1>c, <2>1
    <3>2. \A j \in Records : j[1] # k[1] => status'[j] = status[j]
      BY <1>c, <2>1
    <3> QED BY <1>a, <2>1, <3>1, <3>2, OthersKept
  <2>4. Working'
    <3>1. Here' = Here /\ (AtWork' <=> AtWork)
      BY <2>1 DEF Here, AtWork
    <3>2. CASE k[1] = Here
      <4>1. stands'[Here] = Undone /\ Unknown # Undone
        BY <1>b, <1>c, <2>1, <3>2, LawConstants
      <4> QED BY <1>a, <2>1, <3>1, <4>1 DEF Working
    <3>3. CASE k[1] # Here
      <4>1. stands'[Here] = stands[Here] /\ \A j \in Records : j[1] = Here => status'[j] = status[j]
        BY <1>b, <1>c, <2>1, <3>3
      <4> QED BY <1>a, <2>1, <3>1, <4>1 DEF Working
    <3> QED BY <3>2, <3>3
  <2> QED BY <2>2, <2>3, <2>4 DEF Sync
<1>3. ASSUME NEW r \in Runs, Take(r) PROVE Sync'
  <2>1. sync'.pc = "again"
    BY <1>3 DEF Take, NoSync
  <2> QED BY <1>3, <1>a, <2>1, SyncQuiet DEF Take
<1>4. CASE Capture
  <2>1. CASE Ends(sync.on, "blocked") /\ UNCHANGED stands
    <3>1. sync'.pc = "idle"
      BY <1>a, <1>b, <2>1, EndsTyped
    <3> QED BY <1>4, <1>a, <2>1, <3>1, SyncQuiet DEF Capture
  <2>2. CASE ~(Ends(sync.on, "blocked") /\ UNCHANGED stands)
    <3>1. /\ sync' = [sync EXCEPT !.pc = IF file[Here] = NoFile THEN "retire" ELSE "source",
                                  !.law = file[Here], !.todo = Ids(file[Here]), !.try = @ + 1]
          /\ stands' = [stands EXCEPT ![Here] = Unknown] /\ UNCHANGED <<status, sources>>
          /\ file[Here] \notin {Broken, Irregular}
      BY <1>4, <2>2 DEF Capture, Here
    <3>2. /\ sync'.pc = (IF file[Here] = NoFile THEN "retire" ELSE "source") /\ sync'.on = sync.on
          /\ sync'.law = file[Here] /\ sync'.todo = Ids(file[Here])
      BY <1>c, <3>1 DEF SyncShape
    <3>3. file[Here] \in Files /\ Here' = Here
      BY <1>a, <1>b, <3>2, LawTypes DEF Here
    <3>4. stands'[Here] = Unknown /\ \A p \in Repos : p # Here => stands'[p] = stands[p]
      BY <1>b, <1>c, <3>1
    <3>5. LawKept'
      BY <1>a, <1>b, <3>1, <3>4, OthersKept
    <3>6. \A k \in Records : k[2] = file[Here] => k[3] \in Ids(file[Here])
      BY RecordFacts DEF Ids
    <3>7. Working'
      BY <3>1, <3>2, <3>3, <3>4, <3>6, LawConstants DEF Working
    <3> QED BY <1>a, <3>1, <3>5, <3>7 DEF Sync, Sourced
  <2> QED BY <2>1, <2>2
<1>5. CASE Source
  <2>1. /\ AtWork /\ stands' = stands /\ status' = status /\ sources \subseteq sources'
        /\ sync.pc = "source" /\ sync.law \in Laws
    BY <1>5, <1>a DEF Source, AtWork, Working
  <2>2. Sourced' /\ LawKept'
    BY <1>a, <2>1 DEF Sourced, LawKept, FileAnswers
  <2>3. CASE SyncFails
    BY <1>d, <2>2, <2>3 DEF Sync, Working, AtWork
  <2>4. CASE ~SyncFails
    <3>1. sync' = [sync EXCEPT !.pc = "records"] /\ <<Here, sync.law>> \in sources'
      BY <1>5, <2>4 DEF Source, Here
    <3>2. /\ sync'.pc = "records" /\ sync'.on = sync.on /\ sync'.law = sync.law
          /\ sync'.todo = sync.todo /\ Here' = Here
      BY <1>c, <3>1 DEF SyncShape, Here
    <3>3. Working'
      BY <1>a, <2>1, <3>1, <3>2 DEF Working
    <3> QED BY <2>2, <3>3 DEF Sync
  <2> QED BY <2>3, <2>4
<1>6. CASE Birth
  <2>1. /\ AtWork /\ stands' = stands /\ sources' = sources /\ sync.pc = "records"
        /\ sync.law \in Laws /\ <<Here, sync.law>> \in sources /\ sync.todo \subseteq Ids(sync.law)
    BY <1>6, <1>a DEF Birth, AtWork, Working
  <2>2. PICK s \in sync.todo :
          LET k == <<RepoOf[sync.on], sync.law, s>>
          IN  \/ /\ status' = Born(k)
                 /\ sync' = [sync EXCEPT !.pc = "promote", !.todo = {s} \cup @]
              \/ SyncFails /\ status' \in {status, Born(k)}
    BY <1>6 DEF Birth
  <2> DEFINE k == <<Here, sync.law, s>>
  <2>3. k \in Records /\ k[1] = Here /\ k[2] = sync.law
    BY <1>b, <2>1, <2>2, RecordFacts DEF Ids
  <2>4. /\ status' = status \/ (status' = [status EXCEPT ![k] = "proposed"] /\ status[k] = "none")
        /\ SyncFails \/ sync' = [sync EXCEPT !.pc = "promote", !.todo = {s} \cup @]
    BY <2>2 DEF Born, Here
  <2> HIDE DEF k
  <2>5. Sourced' /\ LawKept'
    BY <1>a, <1>b, <2>1, <2>3, <2>4, OwnRecord DEF Statuses
  <2>6. CASE SyncFails
    BY <1>d, <2>5, <2>6 DEF Sync, Working, AtWork
  <2>7. CASE sync' = [sync EXCEPT !.pc = "promote", !.todo = {s} \cup @]
    <3>1. /\ sync'.pc = "promote" /\ sync'.on = sync.on /\ sync'.law = sync.law
          /\ sync'.todo = sync.todo /\ Here' = Here
      BY <1>c, <2>7 DEF SyncShape, Here
    <3>2. \A j \in Records : status[j] = "active" => status'[j] = "active"
      BY <1>c, <2>3, <2>4
    <3>3. Working'
      BY <1>a, <2>1, <3>1, <3>2 DEF Working
    <3> QED BY <2>5, <3>3 DEF Sync
  <2> QED BY <2>4, <2>6, <2>7
<1>7. CASE Promote
  <2>1. /\ AtWork /\ stands' = stands /\ sources' = sources /\ sync.pc = "promote"
        /\ sync.law \in Laws /\ <<Here, sync.law>> \in sources /\ sync.todo \subseteq Ids(sync.law)
    BY <1>7, <1>a DEF Promote, AtWork, Working
  <2>2. PICK s \in sync.todo :
          LET k == <<RepoOf[sync.on], sync.law, s>>
          IN  \/ /\ status' = Activated(k)
                 /\ sync' = [sync EXCEPT !.pc = "records", !.todo = @ \ {s}]
              \/ SyncFails /\ status' \in {status, Activated(k)}
    BY <1>7 DEF Promote
  <2> DEFINE k == <<Here, sync.law, s>>
  <2>3. k \in Records /\ k[1] = Here /\ k[2] = sync.law /\ k[3] = s
    BY <1>b, <2>1, <2>2, RecordFacts DEF Ids
  <2>4. /\ status' = status \/ status' = [status EXCEPT ![k] = "active"]
        /\ \/ SyncFails
           \/ /\ sync' = [sync EXCEPT !.pc = "records", !.todo = @ \ {s}]
              /\ status' = [status EXCEPT ![k] = "active"]
    BY <2>2 DEF Activated, Here
  <2>8. \A j \in Records : j[1] = Here /\ j[2] = sync.law /\ j[3] = s => j = k
    BY RecordFacts
  <2> HIDE DEF k
  <2>5. Sourced' /\ LawKept'
    BY <1>a, <1>b, <2>1, <2>3, <2>4, OwnRecord DEF Statuses
  <2>6. CASE SyncFails
    BY <1>d, <2>5, <2>6 DEF Sync, Working, AtWork
  <2>7. CASE ~SyncFails
    <3>1. /\ sync'.pc = "records" /\ sync'.on = sync.on /\ sync'.law = sync.law
          /\ sync'.todo = sync.todo \ {s} /\ Here' = Here
          /\ status' = [status EXCEPT ![k] = "active"]
      BY <1>c, <2>4, <2>7 DEF SyncShape, Here
    <3>2. status'[k] = "active" /\ \A j \in Records : status[j] = "active" => status'[j] = "active"
      BY <1>c, <2>3, <3>1
    <3>3. Working'
      BY <1>a, <2>1, <2>8, <3>1, <3>2 DEF Working
    <3> QED BY <2>5, <3>3 DEF Sync
  <2> QED BY <2>6, <2>7
<1>8. CASE Retire
  <2>1. /\ AtWork /\ stands' = stands /\ sources' = sources /\ sync.todo = {}
    BY <1>8, <1>a DEF Retire, AtWork, Working
  <2>2. PICK k \in Removed : \/ /\ status' = [status EXCEPT ![k] = "retired"]
                                /\ sync' = [sync EXCEPT !.pc = "retire"]
                             \/ SyncFails /\ status' \in {status, [status EXCEPT ![k] = "retired"]}
    BY <1>8 DEF Retire
  <2>3. /\ k \in Records /\ k[1] = Here /\ <<k[1], k[2]>> \in sources
        /\ k \notin Declared(Here, sync.law)
    BY <2>2 DEF Removed, Retirable, Cites, Here
  <2>4. k[2] # sync.law
    <3> SUFFICES ASSUME k[2] = sync.law PROVE FALSE
      OBVIOUS
    <3>1. k[3] \in Ids(sync.law) /\ k = <<Here, sync.law, k[3]>>
      BY <2>3, RecordFacts DEF Ids
    <3> QED BY <2>3, <3>1 DEF Declared
  <2>5. Sourced' /\ LawKept'
    BY <1>a, <1>b, <2>1, <2>2, <2>3, OwnRecord DEF Statuses
  <2>6. CASE SyncFails
    BY <1>d, <2>5, <2>6 DEF Sync, Working, AtWork
  <2>7. CASE ~SyncFails
    <3>1. /\ sync'.pc = "retire" /\ sync'.on = sync.on /\ sync'.law = sync.law
          /\ sync'.todo = {} /\ Here' = Here
          /\ status' = [status EXCEPT ![k] = "retired"]
      BY <1>c, <2>1, <2>2, <2>7 DEF SyncShape, Here
    <3>2. \A j \in Records : j[2] = sync.law => status'[j] = status[j]
      BY <1>c, <2>3, <2>4, <3>1
    <3>3. Working'
      BY <1>a, <2>1, <3>1, <3>2 DEF Working
    <3> QED BY <2>5, <3>3 DEF Sync
  <2> QED BY <2>6, <2>7
<1>9. CASE Synced
  <2>1. /\ AtWork /\ UNCHANGED <<status, sources>> /\ sync.todo = {} /\ Removed = {}
        /\ stands[Here] \in {Unknown, Undone}
        /\ stands' = [stands EXCEPT ![Here] = IF @ = Undone THEN @ ELSE sync.law]
    BY <1>9, <1>a DEF Synced, AtWork, Working, Here
  <2>2. sync'.pc = "idle"
    BY <1>9, <1>a, <1>b, EndsTyped DEF Synced
  <2>3. ASSUME NEW p \in Repos, stands'[p] \notin {Unknown, Undone} PROVE FileAnswers(p)'
    <3>1. CASE p # Here
      <4>1. stands'[p] = stands[p]
        BY <1>b, <1>c, <2>1, <3>1
      <4> QED BY <1>a, <2>1, <2>3, <4>1 DEF LawKept, FileAnswers
    <3>2. CASE p = Here
      <4>1. stands'[p] = sync.law /\ stands[Here] = Unknown
        BY <1>b, <1>c, <2>1, <2>3, <3>2
      <4>2. ASSUME NEW k \in Records, k[1] = Here
            PROVE  IF k[2] = sync.law THEN status[k] = "active" ELSE status[k] \notin {"active", "proposed"}
        <5>1. k[2] = sync.law => status[k] = "active"
          BY <1>a, <2>1, <4>1, <4>2 DEF Working
        <5>2. ASSUME k[2] # sync.law, status[k] \in {"active", "proposed"} PROVE FALSE
          <6>1. <<k[1], k[2]>> \in sources
            BY <1>a, <5>2 DEF Sourced
          <6>2. k \notin Declared(Here, sync.law)
            BY <5>2 DEF Declared
          <6> QED BY <2>1, <4>2, <5>2, <6>1, <6>2 DEF Removed, Retirable, Cites, Here
        <5> QED BY <5>1, <5>2
      <4> QED BY <2>1, <3>2, <4>1, <4>2 DEF FileAnswers
    <3> QED BY <3>1, <3>2
  <2> QED BY <1>a, <2>1, <2>2, <2>3 DEF Sync, Sourced, Working, AtWork, LawKept
<1>10. ASSUME NEW r \in Runs, RunChecks(r) \/ NextAttempt(r) PROVE Sync'
  BY <1>10, <1>a, SyncQuiet DEF RunChecks, NextAttempt
<1>11. CASE RestartStation
  <2>1. UNCHANGED sync \/ sync'.pc = "idle"
    BY <1>11, <1>a, <1>b, EndsTyped DEF RestartStation
  <2> QED BY <1>11, <1>a, <2>1, SyncQuiet DEF RestartStation
<1>12. CASE UNCHANGED lawVars
  BY <1>12, <1>a, SyncQuiet DEF lawVars
<1>13. CASE CannotRead
  <2>1. sync'.pc \in {"idle", "again"}
    BY <1>13, <1>a, <1>b, <1>c, EndsTyped DEF CannotRead, SyncShape
  <2> QED BY <1>13, <1>a, <2>1, SyncQuiet DEF CannotRead
<1> QED BY <1>1, <1>2, <1>3, <1>4, <1>5, <1>6, <1>7, <1>8, <1>9, <1>10, <1>11, <1>12, <1>13 DEF LawNext

LEMMA TryingHolds == LawInv /\ [LawNext]_lawVars => Trying'
<1> SUFFICES ASSUME LawInv, [LawNext]_lawVars, sync'.pc = "again" PROVE sync'.try < HandleTries
  BY DEF Trying
<1>a. LawTypeOK /\ Trying /\ sync \in SyncShape /\ HandleTries \in Nat \ {0} /\ sync.on \in Runs
  BY LawTypes, LawConstants DEF LawInv, SyncShape
<1>b. \A r \in Runs, st \in {"ready", "blocked", "failed"} : Ends(r, st) => sync'.pc = "idle"
  BY <1>a, EndsTyped
<1>1. CASE UNCHANGED sync
  BY <1>1, <1>a DEF Trying
<1>2. CASE SyncFails
  BY <1>2, <1>a, <1>b DEF SyncFails, SyncShape
<1>3. ASSUME NEW r \in Runs, Take(r) PROVE sync'.try < HandleTries
  BY <1>3, <1>a DEF Take, NoSync
<1>4. CASE Capture
  <2>1. ~Ends(sync.on, "blocked")
    BY <1>a, <1>b
  <2>2. sync'.pc # "again"
    BY <1>4, <1>a, <2>1 DEF Capture, SyncShape
  <2> QED BY <2>2
<1>5. CASE Synced
  BY <1>5, <1>a, <1>b DEF Synced
<1>6. CASE RestartStation
  BY <1>6, <1>a, <1>b, <1>1 DEF RestartStation
<1>8. CASE CannotRead
  BY <1>8, <1>a, <1>b DEF CannotRead, SyncShape
<1>7. sync'.pc # "again" \/ UNCHANGED sync \/ SyncFails \/ Synced \/ RestartStation \/ Capture \/ CannotRead
      \/ \E r \in Runs : Take(r)
  <2>1. Source \/ Birth \/ Promote \/ Retire => sync'.pc # "again" \/ SyncFails
    BY <1>a DEF Source, Birth, Promote, Retire, SyncShape
  <2> QED BY <2>1 DEF LawNext, lawVars, Push, OperatorRetires, RunChecks, NextAttempt
<1> QED BY <1>1, <1>2, <1>3, <1>4, <1>5, <1>6, <1>7, <1>8

LEMMA SnappedHolds == LawInv /\ [LawNext]_lawVars => Snapped'
<1> SUFFICES ASSUME LawInv, [LawNext]_lawVars PROVE Snapped'
  OBVIOUS
<1>a. /\ Snapped /\ snapshot \in [Runs -> Files \cup {Unknown}]
      /\ captured \in [Runs -> Files \cup {Unknown}] /\ sync.on \in Runs
  BY LawTypes DEF LawInv, SyncShape
<1>1. CASE Capture
  BY <1>1, <1>a DEF Capture, Snapped
<1>2. CASE RestartStation
  BY <1>2, <1>a DEF RestartStation, Snapped
<1>3. Capture \/ RestartStation \/ UNCHANGED <<snapshot, captured>>
  BY DEF LawNext, lawVars, Push, OperatorRetires, Take, CannotRead, Source, Birth, Promote, Retire,
         Synced, RunChecks, NextAttempt
<1> QED BY <1>1, <1>2, <1>3, <1>a DEF Snapped

(* What a passing round says of its check, and a check of its file.        *)
LEMMA FindingPasses ==
  ASSUME NEW kind, NEW control, NEW command, Finding(kind, control, command) = "passed"
  PROVE  kind # "unanswered" /\ control # "zero" /\ control # "fault" /\ (kind = "none" \/ command = "zero")
  BY DEF Finding

LEMMA GateAsked ==
  ASSUME NEW l, GateOf(l) # "unanswered"
  PROVE  l \in Laws \cup {NoFile} /\ (l \in Laws => GateOf(l) = Gate[l])
<1>1. l \in Laws \cup {NoFile}
  BY DEF GateOf
<1>2. ASSUME l \in Laws PROVE GateOf(l) = Gate[l]
  BY <1>2, LawConstants DEF GateOf
<1> QED BY <1>1, <1>2

LEMMA GatedHolds == LawInv /\ [LawNext]_lawVars => PassedMeansGated'
<1> SUFFICES ASSUME LawInv, [LawNext]_lawVars, NEW q \in Runs, run'[q].state = "passed"
             PROVE  /\ run'[q].under \in Laws \cup {NoFile}
                    /\ run'[q].under \in Laws =>
                         /\ Gate[run'[q].under] # "none" => <<"command", "zero">> \in run'[q].ran
                         /\ Gate[run'[q].under] = "proven" => <<"control", "nonzero">> \in run'[q].ran
  BY DEF PassedMeansGated
<1>a. LawTypeOK /\ PassedMeansGated /\ Snapped /\ run \in [Runs -> RunShape] /\ sync.on \in Runs
  BY LawTypes DEF LawInv, SyncShape
<1>1. CASE run'[q] = run[q]
  BY <1>1, <1>a DEF PassedMeansGated
<1>2. CASE RunChecks(q)
  <2> DEFINE R(kind, control, command) ==
               [state |-> Finding(kind, control, command), under |-> captured[q],
                ran   |-> {<<"control", control>>, <<"command", command>>}]
  <2>1. \E kind \in {GateOf(Lookup(q)), "unanswered"} :
        \E control \in Outcomes(kind = "proven") :
        \E command \in Outcomes(kind = "plain" \/ control = "nonzero") :
          run'[q] = R(kind, control, command)
    BY <1>a, <1>2, ChecksTyped
  <2>2. PICK kind \in {GateOf(Lookup(q)), "unanswered"},
             control \in {"zero", "nonzero", "fault", "unasked"},
             command \in {"zero", "nonzero", "fault", "unasked"} :
               /\ run'[q] = R(kind, control, command)
               /\ control \in Outcomes(kind = "proven")
    BY <2>1 DEF Outcomes
  <2>3. /\ Finding(kind, control, command) = "passed" /\ run'[q].under = captured[q]
        /\ <<"control", control>> \in run'[q].ran /\ <<"command", command>> \in run'[q].ran
    BY <2>2
  <2>4. kind # "unanswered" /\ control \notin {"zero", "fault"} /\ (kind = "none" \/ command = "zero")
    BY <2>3, FindingPasses
  <2>5. kind = GateOf(snapshot[q])
    BY <2>4 DEF Lookup
  <2>6. snapshot[q] \in Laws \cup {NoFile}
    BY <2>4, <2>5, GateAsked
  <2>7. captured[q] = snapshot[q]
    BY <1>a, <2>6, LawConstants DEF Snapped
  <2>8. snapshot[q] \in Laws => kind = Gate[snapshot[q]]
    BY <2>4, <2>5, GateAsked
  <2>9. kind = "proven" => control = "nonzero"
    BY <2>2, <2>4 DEF Outcomes
  <2> QED BY <2>3, <2>4, <2>6, <2>7, <2>8, <2>9
<1>3. RunChecks(q) \/ run'[q] = run[q]
  <2>1. \A r \in Runs, st \in {"ready", "blocked", "failed"} :
          Ends(r, st) => run'[q] = run[q] \/ run'[q].state # "passed"
    BY <1>a, EndsTyped
  <2>2. SyncFails => run'[q] = run[q] \/ run'[q].state # "passed"
    BY <1>a, FailsTyped
  <2>3. CASE Source \/ Birth \/ Promote \/ Retire
    BY <2>2, <2>3 DEF Source, Birth, Promote, Retire
  <2>4. CASE Capture \/ CannotRead \/ Synced \/ RestartStation
    BY <1>a, <2>1, <2>4 DEF Capture, CannotRead, Synced, RestartStation
  <2>5. ASSUME NEW r \in Runs, RunChecks(r) \/ NextAttempt(r), ~RunChecks(q) PROVE run'[q] = run[q]
    <3>1. CASE r = q
      BY <1>a, <2>5, <3>1 DEF NextAttempt
    <3>2. CASE r # q
      BY <1>a, <2>5, <3>2 DEF NextAttempt, RunChecks
    <3> QED BY <3>1, <3>2
  <2>6. CASE UNCHANGED lawVars \/ (\E p \in Repos : Push(p)) \/ (\E k \in Records : OperatorRetires(k))
             \/ (\E r \in Runs : Take(r))
    BY <2>6 DEF lawVars, Push, OperatorRetires, Take
  <2> QED BY <2>3, <2>4, <2>5, <2>6 DEF LawNext
<1> QED BY <1>1, <1>2, <1>3

LEMMA LawStep == LawInv /\ [LawNext]_lawVars => LawInv'
  BY LawKeepsTypes, SyncHolds, TryingHolds, SnappedHolds, GatedHolds DEF LawInv, Sync

LEMMA LawHolds == LawSpec => []LawInv
  BY LawStarts, LawStep, PTL DEF LawSpec

(* A synchronisation that returned left exactly the standards its file     *)
(* declares (Syncer.Sync, retireRemoved, evidenceMatchesRepo).             *)
THEOREM FileHolds == LawSpec => []TheFileIsTheLaw
<1>1. LawInv => TheFileIsTheLaw
  <2> SUFFICES ASSUME LawInv, NEW p \in Repos, stands[p] \notin {Unknown, Undone}
               PROVE  Live(p) = Declared(p, stands[p]) /\ \A k \in Live(p) : status[k] = "active"
    BY DEF TheFileIsTheLaw
  <2>1. FileAnswers(p) /\ stands[p] \in Files
    BY LawTypes DEF LawInv, LawKept
  <2>2. \A k \in Live(p) : k \in Records /\ k[1] = p /\ k[2] = stands[p] /\ status[k] = "active"
    BY <2>1 DEF Live, FileAnswers
  <2>3. Live(p) \subseteq Declared(p, stands[p])
    BY <2>2, RecordFacts DEF Declared, Ids
  <2>4. Declared(p, stands[p]) \subseteq Live(p)
    <3> SUFFICES ASSUME NEW s \in Ids(stands[p]) PROVE <<p, stands[p], s>> \in Live(p)
      BY DEF Declared
    <3>1. <<p, stands[p], s>> \in Records
      BY <2>1, RecordFacts DEF Ids
    <3> QED BY <2>1, <3>1 DEF FileAnswers, Live
  <2> QED BY <2>2, <2>3, <2>4
<1> QED BY <1>1, LawHolds, PTL

(* An attempt passes the gate only through the checks of the file its run  *)
(* was provisioned under, which could be read for them (Checks.Run).       *)
THEOREM GateHolds == LawSpec => []PassedMeansGated
  BY LawHolds, PTL DEF LawInv

(* The state stays within its types.                                       *)
THEOREM LawTyped == LawSpec => []LawTypeOK
  BY LawHolds, PTL DEF LawInv

-----------------------------------------------------------------------------
(* The containers.                                                         *)

Commands == {"resolving", "proving", "measuring"}
Holders  == {"volumes", "rollback", "up", "resolving", "proving", "down"}
Exits    == {"zero", "nonzero", "killed"}

(* A call in hand, by itself: what it holds at each step, and what its     *)
(* exits and its evidence say.                                             *)
Shaped(h) == h = [pc |-> h.pc, goal |-> h.goal, dir |-> h.dir, box |-> h.box, made |-> h.made,
                  prior |-> h.prior, exit |-> h.exit, exits |-> h.exits, ev |-> h.ev]
Fits(w, h) ==
  /\ Shaped(h) /\ h.box \in Boxes \cup {NoBox} /\ h.prior \in Boxes \cup {NoBox}
  /\ h.pc \in {"idle", "clone", "begin", "recorded", "ready", "measuring"} \cup Holders
  /\ h.pc \in {"idle", "clone", "begin"} <=> h.box = NoBox
  /\ w = "measure" => h.pc \in {"idle", "measuring"}
  /\ h.prior # NoBox => h.pc = "recorded"
  /\ h.pc \in {"recorded", "ready"} => w = "provision"
  /\ h.pc \notin Commands \cup {"down"} => h.exit = None
  /\ h.pc \in Commands /\ h.exit # None => h.exit \in Exits /\ <<h.pc, h.exit>> \in h.exits
  /\ h.pc = "proving" => <<"resolving", "zero">> \in h.exits
  /\ h.pc = "down" =>
       /\ h.ev \in {"unresolved", "fault", "green", "red"}
       /\ h.ev = "green" => {<<"resolving", "zero">>, <<"proving", "zero">>} \subseteq h.exits
       /\ h.ev = "unresolved" => <<"resolving", "nonzero">> \in h.exits
       /\ h.ev = "red" => <<"proving", "nonzero">> \in h.exits
AllFit == \A w \in Workers : Fits(w, hand[w])

BenchTyped ==
  /\ box \in [Boxes -> {"absent", "created", "running", "dead"}] /\ warm \in Boxes \cup {NoBox}
  /\ hand = [w \in Workers |-> hand[w]]
  /\ benchFacts = [ready |-> benchFacts.ready, verdict |-> benchFacts.verdict,
                   measured |-> benchFacts.measured]

(* The box of a call that stands one up or proves in it is nobody else's.  *)
Sole == \A w \in Workers : hand[w].pc \in Holders =>
          /\ hand[w].box # warm
          /\ \A v \in Workers \ {w} : hand[v].box # hand[w].box /\ hand[v].prior # hand[w].box
Fresh == \A w \in Workers : /\ hand[w].pc = "volumes" => box[hand[w].box] = "absent"
                            /\ hand[w].pc = "up" => box[hand[w].box] # "absent"

(* The recorded container exists, and is not the one it replaced.          *)
Standing == /\ warm # NoBox => box[warm] # "absent"
            /\ \A w \in Workers : hand[w].prior # NoBox => hand[w].prior # warm

(* A container that was killed under a command does not run again.         *)
Gone == \A w \in Workers : hand[w].pc \in Commands /\ hand[w].exit = "killed" =>
                             box[hand[w].box] # "running"

(* What a failed start or a finished provision leaves running is known.    *)
Watched == \A w \in Workers :
  /\ hand[w].pc = "rollback" /\ box[hand[w].box] = "running" => hand[w].box \in orphans
  /\ hand[w].pc \in {"recorded", "ready"} /\ box[hand[w].box] = "running" =>
       hand[w].box \in orphans \cup {warm}

BoxInv   == Sole /\ Fresh /\ Standing /\ Gone /\ Watched /\ NothingAccumulates
BenchInv == BenchTyped /\ AllFit /\ BoxInv /\ VerdictIsTheCommands

LEMMA BenchConstants == MaxBoxes \in Nat /\ NoBox \notin Boxes /\ Boxes \subseteq Nat
  BY WorkbenchAssumption DEF Boxes, NoBox

LEMMA BenchStarts == BenchInit => BenchInv
<1> SUFFICES ASSUME BenchInit PROVE BenchInv
  OBVIOUS
<1>1. \A w \in Workers : hand[w] = Idle
  BY DEF BenchInit
<1>2. BenchTyped
  BY DEF BenchInit, BenchTyped
<1>3. AllFit
  BY <1>1 DEF AllFit, Fits, Shaped, Idle, Holders, Commands
<1>4. BoxInv
  BY <1>1, BenchConstants DEF BenchInit, BoxInv, Sole, Fresh, Standing, Gone, Watched, NothingAccumulates,
     Idle, Holders, Commands
<1>5. VerdictIsTheCommands
  BY DEF BenchInit, VerdictIsTheCommands, NoVerdict, None
<1> QED BY <1>2, <1>3, <1>4, <1>5 DEF BenchInv

(* A call that moves on in the container it has.                           *)
LEMMA GoesOn ==
  ASSUME BenchInv, NEW w \in Workers, NEW h, hand' = [hand EXCEPT ![w] = h], Fits(w, h),
         UNCHANGED <<box, warm, orphans>>, h.box = hand[w].box, h.prior = hand[w].prior,
         h.pc \in Holders => hand[w].pc \in Holders,
         h.pc = "volumes" => hand[w].pc = "volumes", h.pc = "up" => hand[w].pc = "up",
         h.pc = "rollback" => hand[w].pc \in {"volumes", "rollback"},
         h.pc \in {"recorded", "ready"} => hand[w].pc \in {"recorded", "ready"},
         h.pc \in Commands /\ h.exit = "killed" => box[h.box] # "running"
  PROVE  AllFit' /\ BoxInv'
<1>1. hand'[w] = h /\ \A v \in Workers : v # w => hand'[v] = hand[v]
  BY DEF BenchInv, BenchTyped
<1>2. AllFit'
  BY <1>1 DEF BenchInv, AllFit, Fits, Shaped
<1>3. \A v \in Workers : hand'[v].box = hand[v].box /\ hand'[v].prior = hand[v].prior
  BY <1>1
<1>4. Sole' /\ Fresh' /\ Standing'
  BY <1>1, <1>3 DEF BenchInv, BoxInv, Sole, Fresh, Standing
<1>7. ASSUME h.pc = "rollback", box[h.box] = "running" PROVE h.box \in orphans
  <2>1. hand[w].pc = "rollback" \/ box[hand[w].box] = "absent"
    BY <1>7 DEF BenchInv, BoxInv, Fresh
  <2> QED BY <1>7, <2>1 DEF BenchInv, BoxInv, Watched
<1>8. Gone'
  BY <1>1, <1>3 DEF BenchInv, BoxInv, Gone
<1>5. Watched'
  BY <1>1, <1>3, <1>7 DEF BenchInv, BoxInv, Watched
<1>6. NothingAccumulates'
  BY <1>3 DEF BenchInv, BoxInv, NothingAccumulates, Workers
<1> QED BY <1>2, <1>4, <1>5, <1>6, <1>8 DEF BoxInv

(* A call that ends, or begins again with no container: what it had does   *)
(* not run, or is known.                                                   *)
LEMMA LetsGo ==
  ASSUME BenchInv, NEW w \in Workers, NEW h, hand' = [hand EXCEPT ![w] = h], Fits(w, h),
         UNCHANGED <<box, warm, orphans>>, h.box = NoBox, h.prior = NoBox, hand[w].prior = NoBox,
         hand[w].box = NoBox \/ box[hand[w].box] # "running" \/ hand[w].box \in orphans \cup {warm}
           \/ w = "measure"
  PROVE  AllFit' /\ BoxInv'
<1>1. hand'[w] = h /\ \A v \in Workers : v # w => hand'[v] = hand[v]
  BY DEF BenchInv, BenchTyped
<1>2. AllFit'
  BY <1>1 DEF BenchInv, AllFit, Fits, Shaped
<1>3. h.pc \in {"idle", "clone", "begin"}
  BY DEF Fits
<1>4. \A v \in Workers : hand[v].pc \in Holders => hand[v].box \in Boxes
  BY DEF BenchInv, AllFit, Fits, Holders
<1>5. Sole' /\ Fresh' /\ Standing'
  BY <1>1, <1>3, <1>4, BenchConstants DEF BenchInv, BoxInv, Sole, Fresh, Standing, Holders
<1>6. Gone' /\ Watched'
  BY <1>1, <1>3 DEF BenchInv, BoxInv, Gone, Watched, Commands
<1>7. NothingAccumulates'
  <2> SUFFICES ASSUME NEW b \in Boxes, box[b] = "running", b \notin orphans \cup {warm}
               PROVE  \E v \in {"provision", "verify"} : b \in {hand'[v].box, hand'[v].prior}
    BY DEF NothingAccumulates
  <2>1. PICK v \in {"provision", "verify"} : b \in {hand[v].box, hand[v].prior}
    BY DEF BenchInv, BoxInv, NothingAccumulates
  <2>2. v # w
    BY <2>1, BenchConstants
  <2> QED BY <1>1, <2>1, <2>2 DEF Workers
<1> QED BY <1>2, <1>5, <1>6, <1>7 DEF BoxInv

(* How the steps write the call in hand, field by field.                   *)
Moves(w, h) == /\ hand' = [hand EXCEPT ![w] = h] /\ hand'[w] = h
               /\ \A v \in Workers : v # w => hand'[v] = hand[v]
Holding(w, pc, dir, b, made, prior, exit, exits, ev) ==
  [pc |-> pc, goal |-> hand[w].goal, dir |-> dir, box |-> b, made |-> made,
   prior |-> prior, exit |-> exit, exits |-> exits, ev |-> ev]

LEMMA Written ==
  ASSUME BenchTyped, AllFit, NEW w \in Workers, NEW x, NEW y
  PROVE  LET h == hand[w] IN
         /\ hand' = [hand EXCEPT ![w].pc = x] =>
              Moves(w, Holding(w, x, h.dir, h.box, h.made, h.prior, h.exit, h.exits, h.ev))
         /\ hand' = [hand EXCEPT ![w].pc = x, ![w].box = y] =>
              Moves(w, Holding(w, x, h.dir, y, h.made, h.prior, h.exit, h.exits, h.ev))
         /\ hand' = [hand EXCEPT ![w].pc = x, ![w].dir = y] =>
              Moves(w, Holding(w, x, y, h.box, h.made, h.prior, h.exit, h.exits, h.ev))
         /\ hand' = [hand EXCEPT ![w].made = x] =>
              Moves(w, Holding(w, h.pc, h.dir, h.box, x, h.prior, h.exit, h.exits, h.ev))
         /\ hand' = [hand EXCEPT ![w].exit = x, ![w].exits = y] =>
              Moves(w, Holding(w, h.pc, h.dir, h.box, h.made, h.prior, x, y, h.ev))
         /\ hand' = [hand EXCEPT ![w].pc = x, ![w].exit = y] =>
              Moves(w, Holding(w, x, h.dir, h.box, h.made, h.prior, y, h.exits, h.ev))
         /\ hand' = [hand EXCEPT ![w].pc = x, ![w].ev = y] =>
              Moves(w, Holding(w, x, h.dir, h.box, h.made, h.prior, h.exit, h.exits, y))
         /\ hand' = [hand EXCEPT ![w].pc = x, ![w].prior = y] =>
              Moves(w, Holding(w, x, h.dir, h.box, h.made, y, h.exit, h.exits, h.ev))
<1>1. /\ hand = [v \in Workers |-> hand[v]]
      /\ hand[w] = [pc |-> hand[w].pc, goal |-> hand[w].goal, dir |-> hand[w].dir, box |-> hand[w].box,
                    made |-> hand[w].made, prior |-> hand[w].prior, exit |-> hand[w].exit,
                    exits |-> hand[w].exits, ev |-> hand[w].ev]
  BY DEF BenchTyped, AllFit, Fits, Shaped
<1> QED BY <1>1 DEF Moves, Holding

(* A call that is dropped, or begun anew.                                  *)
Begun(pc, goal, dir) == [Idle EXCEPT !.pc = pc, !.goal = goal, !.dir = dir]

LEMMA BegunFits ==
  ASSUME NEW w \in Workers, NEW pc \in {"idle", "clone", "begin"}, w = "measure" => pc = "idle",
         NEW goal, NEW dir
  PROVE  Fits(w, Begun(pc, goal, dir)) /\ Begun(pc, goal, dir).box = NoBox /\ Begun(pc, goal, dir).prior = NoBox
<1> DEFINE h == Begun(pc, goal, dir)
<1>1. Idle = [pc |-> Idle.pc, goal |-> Idle.goal, dir |-> Idle.dir, box |-> Idle.box, made |-> Idle.made,
              prior |-> Idle.prior, exit |-> Idle.exit, exits |-> Idle.exits, ev |-> Idle.ev]
  BY DEF Idle
<1>2. h = [pc |-> pc, goal |-> goal, dir |-> dir, box |-> Idle.box, made |-> Idle.made,
           prior |-> Idle.prior, exit |-> Idle.exit, exits |-> Idle.exits, ev |-> Idle.ev]
  <2> DEFINE i == [Idle EXCEPT !.pc = pc]
             j == [i EXCEPT !.goal = goal]
  <2>1. i = [pc |-> pc, goal |-> Idle.goal, dir |-> Idle.dir, box |-> Idle.box, made |-> Idle.made,
             prior |-> Idle.prior, exit |-> Idle.exit, exits |-> Idle.exits, ev |-> Idle.ev]
    BY <1>1
  <2>3. h = [j EXCEPT !.dir = dir]
    BY DEF Begun
  <2> HIDE DEF i
  <2>2. j = [pc |-> pc, goal |-> goal, dir |-> Idle.dir, box |-> Idle.box, made |-> Idle.made,
             prior |-> Idle.prior, exit |-> Idle.exit, exits |-> Idle.exits, ev |-> Idle.ev]
    BY <2>1
  <2> HIDE DEF j, h
  <2> QED BY <2>2, <2>3
<1> HIDE DEF h
<1>3. Shaped(h) /\ h.pc = pc /\ h.box = Idle.box /\ h.prior = Idle.prior /\ h.exit = Idle.exit
  BY <1>2 DEF Shaped
<1>4. Idle.box = NoBox /\ Idle.prior = NoBox /\ Idle.exit = None
  BY DEF Idle
<1>5. Fits(w, h) /\ h.box = NoBox /\ h.prior = NoBox
  BY <1>3, <1>4 DEF Fits, Holders, Commands
<1> QED BY <1>5 DEF h

LEMMA Renewed ==
  ASSUME BenchTyped, NEW w \in Workers
  PROVE  /\ Drop(w) => Moves(w, Idle)
         /\ \A h : hand' = [hand EXCEPT ![w] = h] => Moves(w, h)
  BY DEF BenchTyped, Drop, Moves

LEMMA TypedKept ==
  ASSUME BenchTyped, UNCHANGED <<box, warm>>,
         \/ UNCHANGED hand \/ \E w \in Workers : \E h : Moves(w, h),
         \/ UNCHANGED benchFacts \/ \E x : benchFacts' = [benchFacts EXCEPT !.verdict = x]
         \/ \E x : benchFacts' = [benchFacts EXCEPT !.measured = x]
         \/ \E x : benchFacts' = [benchFacts EXCEPT !.ready = x]
  PROVE  BenchTyped'
<1>1. hand' = [w \in Workers |-> hand'[w]]
  BY DEF BenchTyped, Moves
<1>2. benchFacts' = [ready |-> benchFacts'.ready, verdict |-> benchFacts'.verdict,
                     measured |-> benchFacts'.measured]
  BY DEF BenchTyped
<1> QED BY <1>1, <1>2 DEF BenchTyped

LEMMA IdleFits == \A w \in Workers : Fits(w, Idle) /\ Idle.box = NoBox /\ Idle.prior = NoBox
  BY DEF Fits, Shaped, Idle, Holders, Commands

(* What a runner makes of a command's end is the command's.                *)
LEMMA AnswerFacts ==
  ASSUME BenchInv, NEW w \in Workers, hand[w].pc \in Commands, hand[w].exit # None,
         NEW a, Answers(w, a)
  PROVE  /\ a = "ok" => <<hand[w].pc, "zero">> \in hand[w].exits
         /\ a = "red" => <<hand[w].pc, "nonzero">> \in hand[w].exits
<1>1. hand[w].exit \in Exits /\ <<hand[w].pc, hand[w].exit>> \in hand[w].exits
  BY DEF BenchInv, AllFit, Fits
<1>2. hand[w].exit = "killed" => box[hand[w].box] # "running"
  BY DEF BenchInv, BoxInv, Gone
<1>3. a \in {"ok", "red"} => a = Answer(w)
  BY DEF Answers
<1>4. Answer(w) = "ok" => hand[w].exit = "zero"
  BY <1>1 DEF Answer, Exits
<1>5. Answer(w) = "red" => hand[w].exit = "nonzero"
  BY <1>1, <1>2 DEF Answer, Exits
<1> QED BY <1>1, <1>3, <1>4, <1>5

BoxKept == BenchTyped' /\ AllFit' /\ BoxInv'

(* The steps that leave the containers and the record of the warm one.     *)
LEMMA CallsStep ==
  ASSUME BenchInv,
         \/ Provision \/ CloneForVerify \/ Clone \/ MeasureEnds \/ Ready
         \/ \E w \in Workers : \/ CreateVolume(w) \/ Rollback(w) \/ ColdStep(w) \/ CommandEnds(w)
                               \/ ResolveEnds(w) \/ ProveEnds(w)
  PROVE  BoxKept
<1> USE DEF BoxKept
<1>a. /\ BenchTyped /\ AllFit /\ BoxInv
      /\ \A w \in Workers : Fits(w, hand[w]) /\ Shaped(hand[w])
      /\ {"provision", "verify", "measure"} = Workers
  BY DEF BenchInv, AllFit, Fits, Workers
<1>b. ASSUME NEW w \in Workers, hand[w].pc \in {"idle", "clone", "begin"}
      PROVE  hand[w].box = NoBox /\ hand[w].prior = NoBox
  BY <1>a, <1>b DEF Fits
<1>1. CASE Provision
  <2>1. PICK h : /\ hand' = [hand EXCEPT !["provision"] = h]
                 /\ \E d : h = Begun("begin", "baseline", d)
    BY <1>1 DEF Provision, Begun
  <2>2. Fits("provision", h) /\ h.box = NoBox /\ h.prior = NoBox
    <3>1. PICK d : h = Begun("begin", "baseline", d)
      BY <2>1
    <3> QED BY <1>a, BegunFits, <3>1
  <2>3. UNCHANGED <<box, warm, orphans, benchFacts>> /\ hand["provision"].pc = "idle"
    BY <1>1 DEF Provision
  <2> QED BY <1>a, <1>b, <2>1, <2>2, <2>3, LetsGo, TypedKept, Renewed
<1>2. CASE CloneForVerify
  <2>1. UNCHANGED <<box, warm, orphans, benchFacts>> /\ hand["verify"].pc = "idle"
    BY <1>2 DEF CloneForVerify
  <2>2. CASE UNCHANGED hand
    <3>1. BenchTyped'
      BY <1>a, <2>1, <2>2, TypedKept
    <3> QED BY <1>a, <2>1, <2>2, <3>1 DEF AllFit, Fits, BoxInv, Sole, Fresh, Standing, Gone, Watched,
              NothingAccumulates, Shaped
  <2>3. CASE ~UNCHANGED hand
    <3>1. PICK h : /\ hand' = [hand EXCEPT !["verify"] = h]
                   /\ \E d : h = Begun("clone", "verify", d)
      BY <1>2, <2>3 DEF CloneForVerify, Begun
    <3>2. Fits("verify", h) /\ h.box = NoBox /\ h.prior = NoBox
      <4>1. PICK d : h = Begun("clone", "verify", d)
        BY <3>1
      <4> QED BY <1>a, BegunFits, <4>1
    <3> QED BY <1>a, <1>b, <2>1, <3>1, <3>2, LetsGo, TypedKept, Renewed
  <2> QED BY <2>2, <2>3
<1>3. CASE Clone
  <2>1. UNCHANGED <<box, warm, orphans, benchFacts>> /\ hand["verify"].pc = "clone"
    BY <1>3 DEF Clone
  <2>2. \/ Drop("verify")
        \/ \E d : hand' = [hand EXCEPT !["verify"].pc = "begin", !["verify"].dir = d]
    BY <1>3 DEF Clone
  <2>3. PICK h : Moves("verify", h) /\ Fits("verify", h) /\ h.box = NoBox /\ h.prior = NoBox
    <3>1. CASE Drop("verify")
      BY <1>a, <3>1, Renewed, IdleFits
    <3>2. ASSUME NEW d, hand' = [hand EXCEPT !["verify"].pc = "begin", !["verify"].dir = d]
          PROVE  \E h : Moves("verify", h) /\ Fits("verify", h) /\ h.box = NoBox /\ h.prior = NoBox
      <4> DEFINE o == hand["verify"]
                 h == Holding("verify", "begin", d, o.box, o.made, o.prior, o.exit, o.exits, o.ev)
      <4>1. Moves("verify", h)
        BY <1>a, <3>2, Written
      <4>2. Fits("verify", h) /\ h.box = NoBox /\ h.prior = NoBox
        BY <1>a, <2>1 DEF Holding, Fits, Shaped, Holders, Commands
      <4> QED BY <4>1, <4>2
    <3> QED BY <2>2, <3>1, <3>2
  <2> QED BY <1>a, <1>b, <2>1, <2>3, LetsGo, TypedKept DEF Moves
<1>4. CASE MeasureEnds
  <2>1. UNCHANGED <<box, warm, orphans>> /\ hand["measure"].pc = "measuring" /\ Moves("measure", Idle)
        /\ \E x : benchFacts' = [benchFacts EXCEPT !.measured = x]
    BY <1>4, <1>a, Renewed DEF MeasureEnds
  <2>2. hand["measure"].prior = NoBox
    BY <1>a, <2>1 DEF Fits
  <2> QED BY <1>a, <2>1, <2>2, IdleFits, LetsGo, TypedKept DEF Moves
<1>5. CASE Ready
  <2>1. /\ UNCHANGED <<box, warm, orphans>> /\ hand["provision"].pc = "ready" /\ Moves("provision", Idle)
        /\ \/ UNCHANGED benchFacts \/ \E x : benchFacts' = [benchFacts EXCEPT !.ready = x]
    BY <1>5, <1>a, Renewed DEF Ready
  <2>2. hand["provision"].prior = NoBox
    BY <1>a, <2>1 DEF Fits
  <2>3. box[hand["provision"].box] # "running" \/ hand["provision"].box \in orphans \cup {warm}
    BY <1>a, <2>1 DEF BoxInv, Watched
  <2> QED BY <1>a, <2>1, <2>2, <2>3, IdleFits, LetsGo, TypedKept DEF Moves
<1> DEFINE Onward(w, h) ==
      /\ Moves(w, h) /\ Fits(w, h) /\ h.box = hand[w].box /\ h.prior = hand[w].prior
      /\ h.pc \in Holders => hand[w].pc \in Holders
      /\ h.pc = "volumes" => hand[w].pc = "volumes"
      /\ h.pc = "up" => hand[w].pc = "up"
      /\ h.pc = "rollback" => hand[w].pc \in {"volumes", "rollback"}
      /\ h.pc \in {"recorded", "ready"} => hand[w].pc \in {"recorded", "ready"}
      /\ h.pc \in Commands /\ h.exit = "killed" => box[h.box] # "running"
<1>d. ASSUME NEW w \in Workers, NEW h, Onward(w, h), UNCHANGED <<box, warm, orphans, benchFacts>>
      PROVE  BoxKept
  BY <1>a, <1>d, GoesOn, TypedKept DEF Moves
<1>6. ASSUME NEW w \in Workers, CreateVolume(w) PROVE BoxKept
  <2> DEFINE o == hand[w]
  <2>1. UNCHANGED <<box, warm, orphans, benchFacts>> /\ o.pc = "volumes"
    BY <1>6 DEF CreateVolume
  <2>2. \/ Goes(w, "rollback") \/ \E v : hand' = [hand EXCEPT ![w].made = v]
    BY <1>6 DEF CreateVolume
  <2>3. CASE Goes(w, "rollback")
    <3> DEFINE h == Holding(w, "rollback", o.dir, o.box, o.made, o.prior, o.exit, o.exits, o.ev)
    <3>1. Moves(w, h)
      BY <1>a, <2>3, Written DEF Goes
    <3>2. Onward(w, h)
      BY <1>a, <2>1, <3>1 DEF Holding, Fits, Shaped, Holders, Commands
    <3> QED BY <1>d, <2>1, <3>2
  <2>4. ASSUME NEW v, hand' = [hand EXCEPT ![w].made = v] PROVE BoxKept
    <3> DEFINE h == Holding(w, o.pc, o.dir, o.box, v, o.prior, o.exit, o.exits, o.ev)
    <3>1. Moves(w, h)
      BY <1>a, <2>4, Written
    <3>2. Onward(w, h)
      BY <1>a, <2>1, <3>1 DEF Holding, Fits, Shaped, Holders, Commands
    <3> QED BY <1>d, <2>1, <3>2
  <2> QED BY <2>2, <2>3, <2>4
<1>7. ASSUME NEW w \in Workers, Rollback(w) PROVE BoxKept
  <2>1. /\ UNCHANGED <<box, warm, orphans>> /\ hand[w].pc = "rollback" /\ Moves(w, Idle)
        /\ UNCHANGED benchFacts \/ \E x : benchFacts' = [benchFacts EXCEPT !.verdict = x]
    BY <1>7, <1>a, Renewed DEF Rollback, Judged
  <2>2. hand[w].prior = NoBox
    BY <1>a, <2>1 DEF Fits
  <2>3. box[hand[w].box] # "running" \/ hand[w].box \in orphans
    BY <1>a, <2>1 DEF BoxInv, Watched
  <2> QED BY <1>a, <2>1, <2>2, <2>3, IdleFits, LetsGo, TypedKept DEF Moves
<1>8. ASSUME NEW w \in Workers, ColdStep(w) PROVE BoxKept
  <2> DEFINE o == hand[w]
             h == Holding(w, "resolving", o.dir, o.box, o.made, o.prior, o.exit, o.exits, o.ev)
  <2>1. UNCHANGED <<box, warm, orphans, benchFacts>> /\ o.pc = "up" /\ Moves(w, h)
    BY <1>8, <1>a, Written DEF ColdStep, Goes
  <2>2. Onward(w, h)
    BY <1>a, <2>1 DEF Holding, Fits, Shaped, Holders, Commands, None
  <2> QED BY <1>d, <2>1, <2>2
<1>9. ASSUME NEW w \in Workers, CommandEnds(w) PROVE BoxKept
  <2> DEFINE o == hand[w]
  <2>1. UNCHANGED <<box, warm, orphans, benchFacts>> /\ o.pc \in Commands /\ o.exit = None
    BY <1>9 DEF CommandEnds, Commands
  <2>2. PICK e \in Exits : /\ e = "killed" => box[o.box] # "running"
                           /\ hand' = [hand EXCEPT ![w].exit = e, ![w].exits = o.exits \cup {<<o.pc, e>>}]
    BY <1>9, <1>a DEF CommandEnds, Exits, BenchTyped
  <2> DEFINE h == Holding(w, o.pc, o.dir, o.box, o.made, o.prior, e, o.exits \cup {<<o.pc, e>>}, o.ev)
  <2>3. Moves(w, h)
    BY <1>a, <2>2, Written
  <2>4. Onward(w, h)
    BY <1>a, <2>1, <2>2, <2>3 DEF Holding, Fits, Shaped, Holders, Commands
  <2> QED BY <1>d, <2>1, <2>4
<1>10. ASSUME NEW w \in Workers, ResolveEnds(w) PROVE BoxKept
  <2> DEFINE o == hand[w]
  <2>1. UNCHANGED <<box, warm, orphans, benchFacts>> /\ o.pc = "resolving" /\ o.exit # None
        /\ o.pc \in Commands
    BY <1>10 DEF ResolveEnds, Commands
  <2>2. CASE Answers(w, "ok") /\ hand' = [hand EXCEPT ![w].pc = "proving", ![w].exit = None]
    <3> DEFINE h == Holding(w, "proving", o.dir, o.box, o.made, o.prior, None, o.exits, o.ev)
    <3>1. Moves(w, h)
      BY <1>a, <2>2, Written
    <3>2. <<"resolving", "zero">> \in o.exits
      BY <2>1, <2>2, AnswerFacts
    <3>3. Onward(w, h)
      BY <1>a, <2>1, <3>1, <3>2 DEF Holding, Fits, Shaped, Holders, Commands, None
    <3> QED BY <1>d, <2>1, <3>3
  <2>3. ASSUME NEW ev \in {"unresolved", "fault"}, Answers(w, IF ev = "unresolved" THEN "red" ELSE "fault"),
               hand' = [hand EXCEPT ![w].pc = "down", ![w].ev = ev]
        PROVE  BoxKept
    <3> DEFINE h == Holding(w, "down", o.dir, o.box, o.made, o.prior, o.exit, o.exits, ev)
    <3>1. Moves(w, h)
      BY <1>a, <2>3, Written
    <3>2. ev = "unresolved" => <<"resolving", "nonzero">> \in o.exits
      BY <2>1, <2>3, AnswerFacts
    <3>3. Onward(w, h)
      BY <1>a, <2>1, <3>1, <3>2 DEF Holding, Fits, Shaped, Holders, Commands
    <3> QED BY <1>d, <2>1, <3>3
  <2> QED BY <1>10, <2>2, <2>3 DEF ResolveEnds
<1>11. ASSUME NEW w \in Workers, ProveEnds(w) PROVE BoxKept
  <2> DEFINE o == hand[w]
  <2>1. UNCHANGED <<box, warm, orphans, benchFacts>> /\ o.pc = "proving" /\ o.exit # None
        /\ o.pc \in Commands
    BY <1>11 DEF ProveEnds, Commands
  <2>2. PICK ev \in {"green", "red", "fault"} :
          /\ Answers(w, IF ev = "green" THEN "ok" ELSE ev)
          /\ hand' = [hand EXCEPT ![w].pc = "down", ![w].ev = ev]
    BY <1>11 DEF ProveEnds
  <2> DEFINE h == Holding(w, "down", o.dir, o.box, o.made, o.prior, o.exit, o.exits, ev)
  <2>3. Moves(w, h)
    BY <1>a, <2>2, Written
  <2>4. /\ ev = "green" => <<"proving", "zero">> \in o.exits
        /\ ev = "red" => <<"proving", "nonzero">> \in o.exits
        /\ <<"resolving", "zero">> \in o.exits
    BY <1>a, <2>1, <2>2, AnswerFacts DEF Fits
  <2>5. Onward(w, h)
    BY <1>a, <2>1, <2>3, <2>4 DEF Holding, Fits, Shaped, Holders, Commands
  <2> QED BY <1>d, <2>1, <2>5
<1> QED BY <1>1, <1>2, <1>3, <1>4, <1>5, <1>6, <1>7, <1>8, <1>9, <1>10, <1>11

(* The steps that start, replace or lose a container.                      *)
LEMMA BeginStep == ASSUME BenchInv, NEW w \in Workers, BeginBox(w) PROVE BoxKept
<1> USE DEF BoxKept
<1>a. BenchTyped /\ AllFit /\ BoxInv /\ Fits(w, hand[w])
  BY DEF BenchInv, AllFit
<1>b. UNCHANGED <<box, warm, orphans>> /\ hand[w].pc = "begin" /\ hand[w].box = NoBox /\ hand[w].prior = NoBox
      /\ hand[w].exit = None /\ w # "measure"
  BY <1>a DEF BeginBox, Fits, Commands
<1>1. CASE Drop(w)
  <2>1. Moves(w, Idle) /\ (UNCHANGED benchFacts \/ \E x : benchFacts' = [benchFacts EXCEPT !.verdict = x])
    BY <1>1, <1>a, Renewed DEF BeginBox
  <2> QED BY <1>a, <1>b, <2>1, IdleFits, LetsGo, TypedKept DEF Moves
<1>2. ASSUME NEW b \in FreeBox, UNCHANGED benchFacts,
             hand' = [hand EXCEPT ![w].pc = "volumes", ![w].box = b]
      PROVE  BoxKept
  <2> DEFINE o == hand[w]
             h == Holding(w, "volumes", o.dir, b, o.made, o.prior, o.exit, o.exits, o.ev)
  <2>1. Moves(w, h)
    BY <1>2, <1>a, Written
  <2>2. Fits(w, h) /\ h.pc = "volumes" /\ h.box = b /\ h.prior = NoBox
    BY <1>2, <1>a, <1>b, BenchConstants DEF Holding, Fits, Shaped, Holders, Commands, FreeBox
  <2>3. b \in Boxes /\ b # NoBox /\ box[b] = "absent" /\ \A v \in Workers : hand[v].box # b /\ hand[v].prior # b
    BY <1>2, BenchConstants DEF FreeBox
  <2> HIDE DEF h
  <2>4. hand'[w] = h /\ \A v \in Workers : v # w => hand'[v] = hand[v]
    BY <2>1 DEF Moves
  <2>5. BenchTyped'
    BY <1>2, <1>a, <1>b, <2>1, TypedKept
  <2>6. AllFit'
    BY <1>a, <2>2, <2>4 DEF AllFit, Fits, Shaped
  <2>7. Sole'
    <3>1. b # warm
      BY <1>a, <2>3 DEF BoxInv, Standing
    <3>2. ASSUME NEW v \in Workers, hand'[v].pc \in Holders, NEW u \in Workers, u # v
          PROVE  hand'[v].box # warm' /\ hand'[u].box # hand'[v].box /\ hand'[u].prior # hand'[v].box
      <4>1. hand[v].pc \in Holders => hand[v].box \in Boxes
        BY <1>a DEF AllFit, Fits, Holders
      <4>2. CASE v = w
        BY <1>b, <2>2, <2>3, <2>4, <3>1, <3>2, <4>2
      <4>3. CASE v # w /\ u = w
        BY <1>a, <1>b, <2>2, <2>3, <2>4, <3>2, <4>1, <4>3, BenchConstants DEF BoxInv, Sole
      <4>4. CASE v # w /\ u # w
        BY <1>a, <1>b, <2>4, <3>2, <4>4 DEF BoxInv, Sole
      <4> QED BY <4>2, <4>3, <4>4
    <3>3. \A v \in Workers : \E u \in Workers : u # v
      BY DEF Workers
    <3> QED BY <3>2, <3>3 DEF Sole
  <2>8. Fresh' /\ Standing' /\ Gone'
    BY <1>a, <1>b, <2>2, <2>3, <2>4 DEF BoxInv, Fresh, Standing, Gone, Commands
  <2>9. Watched'
    BY <1>a, <1>b, <2>2, <2>4 DEF BoxInv, Watched
  <2>10. NothingAccumulates'
    BY <1>a, <1>b, <2>4, BenchConstants DEF BoxInv, NothingAccumulates, Workers
  <2> QED BY <2>5, <2>6, <2>7, <2>8, <2>9, <2>10 DEF BoxInv
<1>3. \/ Drop(w)
      \/ \E b \in FreeBox : UNCHANGED benchFacts /\ hand' = [hand EXCEPT ![w].pc = "volumes", ![w].box = b]
  BY DEF BeginBox
<1> QED BY <1>1, <1>2, <1>3

LEMMA StartStep == ASSUME BenchInv, NEW w \in Workers, RunDetached(w) PROVE BoxKept
<1> USE DEF BoxKept
<1> DEFINE o == hand[w]
           h(pc) == Holding(w, pc, o.dir, o.box, o.made, o.prior, o.exit, o.exits, o.ev)
<1>a. BenchTyped /\ AllFit /\ BoxInv /\ Fits(w, hand[w])
  BY DEF BenchInv, AllFit
<1>b. /\ UNCHANGED <<warm, benchFacts>> /\ hand[w].pc = "volumes" /\ hand[w].box \in Boxes
      /\ hand[w].prior = NoBox /\ hand[w].exit = None /\ w # "measure" /\ hand[w].pc \in Holders
  BY <1>a DEF RunDetached, Fits, Commands, Holders
<1>c. ASSUME NEW pc \in {"up", "rollback"}, Goes(w, pc)
      PROVE  /\ Moves(w, h(pc)) /\ Fits(w, h(pc)) /\ h(pc).pc = pc /\ h(pc).box = o.box /\ h(pc).prior = o.prior
             /\ h(pc).exit = o.exit
  <2>1. Moves(w, h(pc))
    BY <1>a, <1>c, Written DEF Goes
  <2> QED BY <1>a, <1>b, <2>1 DEF Holding, Fits, Shaped, Holders, Commands
<1>1. CASE UNCHANGED <<box, orphans>> /\ Goes(w, "rollback")
  <2>1. BenchTyped'
    BY <1>1, <1>a, <1>b, <1>c, TypedKept
  <2> QED BY <1>1, <1>a, <1>b, <1>c, <2>1, GoesOn DEF Moves, Commands
<1>2. ASSUME NEW s \in {"created", "running"}, NEW pc \in {"up", "rollback"}, Goes(w, pc),
             box' = [box EXCEPT ![o.box] = s], pc = "up" => s = "running" /\ orphans' = orphans,
             pc = "rollback" => orphans' = orphans \cup {o.box}
      PROVE  BoxKept
  <2> DEFINE b == o.box
             k == h(pc)
  <2>1. /\ hand' = [hand EXCEPT ![w] = k] /\ hand'[w] = k /\ \A v \in Workers : v # w => hand'[v] = hand[v]
        /\ Fits(w, k) /\ k.pc = pc /\ k.box = b /\ k.prior = NoBox /\ k.exit = None
    BY <1>2, <1>b, <1>c DEF Moves
  <2>2. /\ box' \in [Boxes -> {"absent", "created", "running", "dead"}] /\ box'[b] = s
        /\ \A c \in Boxes : c # b => box'[c] = box[c]
    BY <1>2, <1>a, <1>b DEF BenchTyped
  <2>3. b # warm /\ \A v \in Workers : v # w => hand[v].box # b /\ hand[v].prior # b
    BY <1>a, <1>b DEF BoxInv, Sole
  <2>4. \A v \in Workers : hand[v].pc \notin {"idle", "clone", "begin"} => hand[v].box \in Boxes
    BY <1>a DEF AllFit, Fits
  <2>11. warm \in Boxes \cup {NoBox} /\ orphans \subseteq orphans'
    BY <1>2, <1>a DEF BenchTyped
  <2> HIDE DEF k, h
  <2>5. BenchTyped'
    BY <1>a, <1>b, <2>1, <2>2 DEF BenchTyped
  <2>6. AllFit'
    BY <1>a, <2>1 DEF AllFit, Fits, Shaped
  <2>7. Sole'
    <3>1. \A v \in Workers : hand'[v].box = hand[v].box /\ hand'[v].prior = hand[v].prior
                             /\ (hand'[v].pc \in Holders => hand[v].pc \in Holders)
      BY <1>b, <2>1
    <3> QED BY <1>a, <1>b, <3>1 DEF BoxInv, Sole
  <2>8. Fresh' /\ Standing' /\ Gone'
    BY <1>2, <1>a, <1>b, <2>1, <2>2, <2>3, <2>4, <2>11 DEF BoxInv, Fresh, Standing, Gone, Commands, None
  <2>9. Watched'
    BY <1>2, <1>a, <1>b, <2>1, <2>2, <2>3, <2>4, <2>11 DEF BoxInv, Watched
  <2>10. NothingAccumulates'
    BY <1>2, <1>a, <1>b, <2>1, <2>2, <2>11 DEF BoxInv, NothingAccumulates, Workers
  <2> QED BY <2>5, <2>6, <2>7, <2>8, <2>9, <2>10 DEF BoxInv
<1>3. \/ UNCHANGED <<box, orphans>> /\ Goes(w, "rollback")
      \/ Goes(w, "up") /\ box' = [box EXCEPT ![o.box] = "running"] /\ orphans' = orphans
      \/ \E s \in {"created", "running"} : /\ Goes(w, "rollback") /\ box' = [box EXCEPT ![o.box] = s]
                                           /\ orphans' = orphans \cup {o.box}
  BY DEF RunDetached
<1> QED BY <1>1, <1>2, <1>3

LEMMA MeasureStep == ASSUME BenchInv, Measure PROVE BoxKept
<1> USE DEF BoxKept
<1>a. BenchTyped /\ AllFit /\ BoxInv /\ Fits("measure", hand["measure"]) /\ "measure" \in Workers
  BY DEF BenchInv, AllFit, Workers
<1>b. UNCHANGED <<box, warm, orphans, benchFacts>> /\ hand["measure"].pc = "idle"
  BY DEF Measure
<1>1. CASE UNCHANGED hand
  <2>1. BenchTyped'
    BY <1>a, <1>b, <1>1, TypedKept
  <2> QED BY <1>a, <1>b, <1>1, <2>1 DEF AllFit, Fits, BoxInv, Sole, Fresh, Standing, Gone, Watched,
            NothingAccumulates, Shaped
<1>2. CASE ~UNCHANGED hand
  <2> DEFINE h == [pc |-> "measuring", goal |-> "measure", dir |-> 0, box |-> warm, made |-> {},
                   prior |-> NoBox, exit |-> None, exits |-> {}, ev |-> None]
  <2>1. hand' = [hand EXCEPT !["measure"] =
                   [Idle EXCEPT !.pc = "measuring", !.goal = "measure", !.box = warm]] /\ warm # NoBox
    BY <1>2 DEF Measure
  <2>2. [Idle EXCEPT !.pc = "measuring", !.goal = "measure", !.box = warm] = h
    <3> DEFINE i == [Idle EXCEPT !.pc = "measuring"]
               j == [i EXCEPT !.goal = "measure"]
    <3>1. i = [pc |-> "measuring", goal |-> None, dir |-> 0, box |-> NoBox, made |-> {},
               prior |-> NoBox, exit |-> None, exits |-> {}, ev |-> None]
      BY DEF Idle
    <3>2. [Idle EXCEPT !.pc = "measuring", !.goal = "measure", !.box = warm] = [j EXCEPT !.box = warm]
      OBVIOUS
    <3> HIDE DEF i
    <3>3. j = [pc |-> "measuring", goal |-> "measure", dir |-> 0, box |-> NoBox, made |-> {},
               prior |-> NoBox, exit |-> None, exits |-> {}, ev |-> None]
      BY <3>1
    <3> HIDE DEF j
    <3>4. [j EXCEPT !.box = warm] = h
      BY <3>3
    <3> QED BY <3>2, <3>4
  <2>3. Moves("measure", h) /\ warm \in Boxes
    BY <1>a, <2>1, <2>2, Renewed DEF BenchTyped
  <2>4. Fits("measure", h) /\ h.pc = "measuring" /\ h.box = warm /\ h.prior = NoBox /\ h.exit = None
    BY <2>1, <2>3 DEF Fits, Shaped, Holders, Commands
  <2> HIDE DEF h
  <2>5. hand'["measure"] = h /\ \A v \in Workers : v # "measure" => hand'[v] = hand[v]
    BY <2>3 DEF Moves
  <2>6. BenchTyped'
    BY <1>a, <1>b, <2>3, TypedKept
  <2>7. AllFit'
    BY <1>a, <2>4, <2>5 DEF AllFit, Fits, Shaped
  <2>8. Sole'
    BY <1>a, <1>b, <2>4, <2>5, BenchConstants DEF BoxInv, Sole, Holders, AllFit, Fits
  <2>9. Fresh' /\ Standing' /\ Gone' /\ Watched'
    BY <1>a, <1>b, <2>4, <2>5 DEF BoxInv, Fresh, Standing, Gone, Watched, None
  <2>10. NothingAccumulates'
    BY <1>a, <1>b, <2>5 DEF BoxInv, NothingAccumulates, Workers
  <2> QED BY <2>6, <2>7, <2>8, <2>9, <2>10 DEF BoxInv
<1> QED BY <1>1, <1>2

(* A removal succeeds, or leaves an orphan.                                *)
LEMMA RemovalFacts ==
  ASSUME BenchTyped, NEW b \in Boxes, Removes(b)
  PROVE  /\ box' \in [Boxes -> {"absent", "created", "running", "dead"}]
         /\ \A c \in Boxes : c # b => box'[c] = box[c]
         /\ (box'[b] = "absent" /\ orphans' = orphans) \/ (box' = box /\ orphans' = orphans \cup {b})
  BY DEF BenchTyped, Removes

LEMMA ColdDownStep == ASSUME BenchInv, NEW w \in Workers, ColdDown(w) PROVE BoxKept
<1> USE DEF BoxKept
<1> DEFINE b == hand[w].box
<1>a. BenchTyped /\ AllFit /\ BoxInv /\ Fits(w, hand[w])
  BY DEF BenchInv, AllFit
<1>b. /\ warm' = warm /\ Removes(b) /\ hand[w].pc = "down" /\ b \in Boxes /\ w # "measure" /\ hand[w].pc \in Holders
      /\ hand[w].prior = NoBox
      /\ UNCHANGED benchFacts \/ \E x : benchFacts' = [benchFacts EXCEPT !.verdict = x]
  BY <1>a DEF ColdDown, Judged, Fits, Holders, Commands
<1>1. PICK h : Moves(w, h) /\ Fits(w, h) /\ h.box = NoBox /\ h.prior = NoBox
  <2>1. hand' = [hand EXCEPT ![w] = Begun("begin", "warm", hand[w].dir)] \/ hand' = [hand EXCEPT ![w] = Idle]
    BY DEF ColdDown, Begun
  <2>2. Fits(w, Begun("begin", "warm", hand[w].dir)) /\ Begun("begin", "warm", hand[w].dir).box = NoBox
        /\ Begun("begin", "warm", hand[w].dir).prior = NoBox
    BY <1>b, BegunFits
  <2> QED BY <1>a, <2>1, <2>2, Renewed, IdleFits
<1>2. hand'[w] = h /\ (\A v \in Workers : v # w => hand'[v] = hand[v]) /\ hand' = [hand EXCEPT ![w] = h]
      /\ h.pc \in {"idle", "clone", "begin"}
  BY <1>1 DEF Moves, Fits
<1>3. /\ box' \in [Boxes -> {"absent", "created", "running", "dead"}]
      /\ \A c \in Boxes : c # b => box'[c] = box[c]
      /\ (box'[b] = "absent" /\ orphans' = orphans) \/ (box' = box /\ orphans' = orphans \cup {b})
  BY <1>a, <1>b, RemovalFacts
<1>4. b # warm /\ \A v \in Workers : v # w => hand[v].box # b /\ hand[v].prior # b
  BY <1>a, <1>b DEF BoxInv, Sole
<1>5. \A v \in Workers : hand[v].pc \notin {"idle", "clone", "begin"} => hand[v].box \in Boxes
  BY <1>a DEF AllFit, Fits
<1>6. BenchTyped'
  <2>1. hand' = [v \in Workers |-> hand'[v]]
    BY <1>a, <1>2 DEF BenchTyped
  <2>2. benchFacts' = [ready |-> benchFacts'.ready, verdict |-> benchFacts'.verdict,
                       measured |-> benchFacts'.measured]
    BY <1>a, <1>b DEF BenchTyped
  <2> QED BY <1>a, <1>b, <1>3, <2>1, <2>2 DEF BenchTyped
<1>7. AllFit'
  BY <1>a, <1>1, <1>2 DEF AllFit, Fits, Shaped
<1>8. Sole'
  BY <1>a, <1>b, <1>1, <1>2, <1>5, BenchConstants DEF BoxInv, Sole, Holders
<1>11. warm \in Boxes \cup {NoBox} /\ orphans \subseteq orphans'
  BY <1>3, <1>a DEF BenchTyped
<1>9. Fresh' /\ Standing' /\ Gone' /\ Watched'
  BY <1>a, <1>b, <1>1, <1>2, <1>3, <1>4, <1>5, <1>11 DEF BoxInv, Fresh, Standing, Gone, Watched, Commands
<1>10. NothingAccumulates'
  BY <1>a, <1>b, <1>1, <1>2, <1>3, <1>11, BenchConstants DEF BoxInv, NothingAccumulates, Workers
<1> QED BY <1>6, <1>7, <1>8, <1>9, <1>10 DEF BoxInv

LEMMA RecordStep == ASSUME BenchInv, Record PROVE BoxKept
<1> USE DEF BoxKept
<1> DEFINE o == hand["provision"]
           h == Holding("provision", "recorded", o.dir, o.box, o.made, warm, o.exit, o.exits, o.ev)
<1>a. BenchTyped /\ AllFit /\ BoxInv /\ Fits("provision", o) /\ "provision" \in Workers
  BY DEF BenchInv, AllFit, Workers
<1>b. UNCHANGED <<box, orphans, benchFacts>> /\ o.pc = "up" /\ warm' = o.box /\ o.box \in Boxes
      /\ o.exit = None /\ o.pc \in Holders
  BY <1>a DEF Record, Fits, Holders, Commands
<1>1. Moves("provision", h)
  BY <1>a, Written DEF Record, Replaced
<1>2. Fits("provision", h) /\ h.pc = "recorded" /\ h.box = o.box /\ h.prior = warm /\ h.exit = None
  BY <1>a, <1>b, <1>1 DEF Holding, Fits, Shaped, Holders, Commands, BenchTyped
<1> HIDE DEF h
<1>3. hand' = [hand EXCEPT !["provision"] = h] /\ hand'["provision"] = h
      /\ \A v \in Workers : v # "provision" => hand'[v] = hand[v]
  BY <1>1 DEF Moves
<1>4. o.box # warm /\ \A v \in Workers : v # "provision" => hand[v].box # o.box /\ hand[v].prior # o.box
  BY <1>a, <1>b DEF BoxInv, Sole
<1>5. \A v \in Workers : v # "provision" => (hand[v].prior # NoBox => hand[v].prior # warm)
  BY <1>a DEF BoxInv, Standing
<1>6. BenchTyped'
  <2>1. hand' = [v \in Workers |-> hand'[v]]
    BY <1>a, <1>3 DEF BenchTyped
  <2> QED BY <1>a, <1>b, <2>1 DEF BenchTyped
<1>7. AllFit'
  BY <1>a, <1>2, <1>3 DEF AllFit, Fits, Shaped
<1>8. Sole'
  BY <1>a, <1>b, <1>2, <1>3, <1>4 DEF BoxInv, Sole, Holders
<1>9. Fresh' /\ Standing' /\ Gone'
  BY <1>a, <1>b, <1>2, <1>3, <1>4 DEF BoxInv, Fresh, Standing, Gone, Commands
<1>11. Watched'
  <2>1. \A v \in Workers : v # "provision" => hand[v].pc \notin {"recorded", "ready"}
    BY <1>a DEF AllFit, Fits
  <2> QED BY <1>a, <1>b, <1>2, <1>3, <2>1 DEF BoxInv, Watched
<1>12. NothingAccumulates'
  <2>1. o.prior = NoBox
    BY <1>a, <1>b DEF Fits
  <2> QED BY <1>a, <1>b, <1>2, <1>3, <2>1, BenchConstants DEF BoxInv, NothingAccumulates, Workers
<1> QED BY <1>6, <1>7, <1>8, <1>9, <1>11, <1>12 DEF BoxInv

LEMMA DownPriorStep == ASSUME BenchInv, DownPrior PROVE BoxKept
<1> USE DEF BoxKept
<1> DEFINE o == hand["provision"]
           h == Holding("provision", "ready", o.dir, o.box, o.made, NoBox, o.exit, o.exits, o.ev)
<1>a. BenchTyped /\ AllFit /\ BoxInv /\ Fits("provision", o) /\ "provision" \in Workers
  BY DEF BenchInv, AllFit, Workers
<1>b. UNCHANGED <<warm, benchFacts>> /\ o.pc = "recorded" /\ o.box \in Boxes /\ o.exit = None
  BY <1>a DEF DownPrior, Fits, Holders, Commands
<1>1. Moves("provision", h)
  BY <1>a, Written DEF DownPrior
<1>2. Fits("provision", h) /\ h.pc = "ready" /\ h.box = o.box /\ h.prior = NoBox /\ h.exit = None
  BY <1>a, <1>b, <1>1 DEF Holding, Fits, Shaped, Holders, Commands
<1> HIDE DEF h
<1>3. hand' = [hand EXCEPT !["provision"] = h] /\ hand'["provision"] = h
      /\ \A v \in Workers : v # "provision" => hand'[v] = hand[v]
  BY <1>1 DEF Moves
<1>4. /\ box' \in [Boxes -> {"absent", "created", "running", "dead"}] /\ orphans \subseteq orphans'
      /\ \A c \in Boxes : c # o.prior => box'[c] = box[c]
      /\ \A c \in Boxes : box'[c] = box[c] \/ box'[c] = "absent"
      /\ o.prior # NoBox => box'[o.prior] = "absent" \/ o.prior \in orphans'
  <2>1. CASE o.prior = NoBox
    BY <1>a, <2>1 DEF DownPrior, BenchTyped
  <2>2. CASE o.prior # NoBox
    <3>1. Removes(o.prior) /\ o.prior \in Boxes
      BY <1>a, <2>2 DEF DownPrior, Fits
    <3> QED BY <1>a, <3>1, RemovalFacts
  <2> QED BY <2>1, <2>2
<1>5. /\ o.prior # NoBox => o.prior # warm
      /\ \A v \in Workers : hand[v].pc \in Holders => v # "provision" /\ o.prior # hand[v].box
      /\ \A v \in Workers : hand[v].pc \notin {"idle", "clone", "begin"} => hand[v].box \in Boxes
  BY <1>a, <1>b DEF BoxInv, Sole, Standing, Holders, AllFit, Fits
<1>6. BenchTyped'
  <2>1. hand' = [v \in Workers |-> hand'[v]]
    BY <1>a, <1>3 DEF BenchTyped
  <2> QED BY <1>a, <1>b, <1>4, <2>1 DEF BenchTyped
<1>7. AllFit'
  BY <1>a, <1>2, <1>3 DEF AllFit, Fits, Shaped
<1>8. Sole'
  <2>1. \A v \in Workers : hand[v].pc \in Holders => hand[v].box # NoBox
    BY <1>5, BenchConstants DEF Holders
  <2> QED BY <1>a, <1>b, <1>2, <1>3, <2>1 DEF BoxInv, Sole, Holders
<1>11. warm \in Boxes \cup {NoBox}
  BY <1>a DEF BenchTyped
<1>9. Fresh' /\ Standing'
  BY <1>a, <1>b, <1>2, <1>3, <1>4, <1>5, <1>11 DEF BoxInv, Fresh, Standing, Holders
<1>10. Gone' /\ Watched'
  BY <1>a, <1>b, <1>2, <1>3, <1>4, <1>5 DEF BoxInv, Gone, Watched, Commands
<1>12. NothingAccumulates'
  BY <1>a, <1>b, <1>2, <1>3, <1>4 DEF BoxInv, NothingAccumulates, Workers
<1> QED BY <1>6, <1>7, <1>8, <1>9, <1>10, <1>12 DEF BoxInv

LEMMA LossStep == ASSUME BenchInv, CloseAll \/ \E b \in Boxes : Die(b) PROVE BoxKept
<1> USE DEF BoxKept
<1>a. BenchTyped /\ AllFit /\ BoxInv /\ warm \in Boxes \cup {NoBox}
      /\ \A v \in Workers : hand[v].pc \notin {"idle", "clone", "begin"} => hand[v].box \in Boxes
  BY DEF BenchInv, BenchTyped, AllFit, Fits
<1>1. ASSUME NEW b \in Boxes, Die(b) PROVE BoxKept
  <2>1. /\ UNCHANGED <<warm, hand, benchFacts, orphans>> /\ box[b] = "running"
        /\ box' \in [Boxes -> {"absent", "created", "running", "dead"}] /\ box'[b] = "dead"
        /\ \A c \in Boxes : c # b => box'[c] = box[c]
    BY <1>1, <1>a DEF Die, BenchTyped
  <2>2. BenchTyped' /\ AllFit' /\ Sole'
    BY <1>a, <2>1, SMTT(40) DEF BenchTyped, AllFit, Fits, Shaped, BoxInv, Sole
  <2>3. Fresh' /\ Standing' /\ Gone' /\ Watched'
    BY <1>a, <2>1 DEF BoxInv, Fresh, Standing, Gone, Watched, Commands
  <2>4. NothingAccumulates'
    BY <1>a, <2>1 DEF BoxInv, NothingAccumulates
  <2> QED BY <2>2, <2>3, <2>4 DEF BoxInv
<1>2. CASE CloseAll
  <2>1. /\ UNCHANGED <<hand, benchFacts>> /\ warm \in Boxes /\ warm' = NoBox
        /\ box' \in [Boxes -> {"absent", "created", "running", "dead"}] /\ orphans \subseteq orphans'
        /\ \A c \in Boxes : c # warm => box'[c] = box[c]
        /\ \A c \in Boxes : box'[c] = box[c] \/ box'[c] = "absent"
        /\ box'[warm] = "absent" \/ warm \in orphans'
    BY <1>2, <1>a DEF CloseAll, BenchTyped
  <2>2. \A v \in Workers : hand[v].pc \in Holders => hand[v].box # warm /\ hand[v].box \in Boxes
    BY <1>a DEF BoxInv, Sole, Holders
  <2>3. BenchTyped' /\ AllFit'
    BY <1>a, <2>1 DEF BenchTyped, AllFit, Fits, Shaped
  <2>4. Sole'
    BY <1>a, <2>1, <2>2, BenchConstants DEF BoxInv, Sole
  <2>5. Fresh' /\ Standing'
    BY <1>a, <2>1, <2>2 DEF BoxInv, Fresh, Standing, Holders
  <2>6. Gone' /\ Watched'
    BY <1>a, <2>1 DEF BoxInv, Gone, Watched, Commands
  <2>7. NothingAccumulates'
    BY <1>a, <2>1 DEF BoxInv, NothingAccumulates
  <2> QED BY <2>3, <2>4, <2>5, <2>6, <2>7 DEF BoxInv
<1> QED BY <1>1, <1>2

LEMMA ExitStep == ASSUME BenchInv, Exit PROVE BoxKept
<1> USE DEF BoxKept
<1>1. /\ UNCHANGED <<box, benchFacts>> /\ warm' = NoBox /\ hand' = [w \in Workers |-> Idle]
      /\ \A b \in Boxes : box[b] # "absent" => b \in orphans'
      /\ \A w \in Workers : hand'[w] = Idle
  BY DEF Exit
<1>2. Idle.box = NoBox /\ Idle.prior = NoBox /\ Idle.pc = "idle"
  BY DEF Idle
<1>3. BenchTyped' /\ AllFit'
  BY <1>1, IdleFits DEF BenchInv, BenchTyped, AllFit, Fits, Shaped
<1>4. BoxInv'
  BY <1>1, <1>2 DEF BoxInv, Sole, Fresh, Standing, Gone, Watched, NothingAccumulates, Holders, Commands
<1> QED BY <1>3, <1>4

(* The stamps.                                                             *)
LEMMA VerdictHolds == BenchInv /\ [BenchNext]_benchVars => VerdictIsTheCommands'
<1> SUFFICES ASSUME BenchInv, [BenchNext]_benchVars PROVE VerdictIsTheCommands'
  OBVIOUS
<1>a. /\ VerdictIsTheCommands /\ \A w \in Workers : Fits(w, hand[w])
      /\ benchFacts = [ready |-> benchFacts.ready, verdict |-> benchFacts.verdict,
                       measured |-> benchFacts.measured]
  BY DEF BenchInv, AllFit, BenchTyped
<1>1. CASE UNCHANGED benchFacts
  BY <1>1, <1>a DEF VerdictIsTheCommands
<1>b. ASSUME NEW x, benchFacts' = [benchFacts EXCEPT !.verdict = x]
      PROVE  benchFacts'.verdict = x /\ benchFacts'.measured = benchFacts.measured
  BY <1>a, <1>b
<1>2. ASSUME NEW w \in Workers, BeginBox(w) PROVE VerdictIsTheCommands'
  <2> DEFINE x == [outcome |-> "fail", exits |-> {<<"scan", "nonzero">>}]
  <2>1. UNCHANGED benchFacts \/ benchFacts' = [benchFacts EXCEPT !.verdict = x]
    BY <1>2 DEF BeginBox
  <2>2. x.outcome = "fail" /\ <<"scan", "nonzero">> \in x.exits
    OBVIOUS
  <2> HIDE DEF x
  <2> QED BY <1>1, <1>a, <1>b, <2>1, <2>2 DEF VerdictIsTheCommands
<1>3. ASSUME NEW w \in Workers, NEW ev, Judged(w, ev),
             ev = "fault" \/ (hand[w].pc = "down" /\ ev = hand[w].ev)
      PROVE  VerdictIsTheCommands'
  <2> DEFINE x == [outcome |-> Decide(ev), exits |-> hand[w].exits]
  <2>1. UNCHANGED benchFacts \/ benchFacts' = [benchFacts EXCEPT !.verdict = x]
    BY <1>3 DEF Judged
  <2>2. x.outcome = Decide(ev) /\ x.exits = hand[w].exits
    OBVIOUS
  <2> HIDE DEF x
  <2>3. Decide("fault") = "retry" /\ Decide("green") = "pass" /\ Decide("red") = "fail"
        /\ Decide("unresolved") = "fail"
    BY DEF Decide
  <2>4. /\ x.outcome = "pass" => {<<"resolving", "zero">>, <<"proving", "zero">>} \subseteq x.exits
        /\ x.outcome = "fail" =>
             {<<"scan", "nonzero">>, <<"resolving", "nonzero">>, <<"proving", "nonzero">>} \cap x.exits # {}
    BY <1>3, <1>a, <2>2, <2>3 DEF Fits
  <2> QED BY <1>1, <1>a, <1>b, <2>1, <2>4 DEF VerdictIsTheCommands
<1>4. CASE MeasureEnds
  <2>1. PICK a \in {"ok", "red", "fault"} :
          /\ Answers("measure", a)
          /\ benchFacts' = [benchFacts EXCEPT !.measured = [outcome |-> a, exits |-> hand["measure"].exits]]
    BY <1>4 DEF MeasureEnds
  <2>2. hand["measure"].pc = "measuring" /\ hand["measure"].exit # None /\ "measure" \in Workers
    BY <1>4 DEF MeasureEnds, Workers
  <2>3. /\ a = "ok" => <<"measuring", "zero">> \in hand["measure"].exits
        /\ a = "red" => <<"measuring", "nonzero">> \in hand["measure"].exits
    BY <2>1, <2>2, AnswerFacts DEF Commands
  <2> DEFINE x == [outcome |-> a, exits |-> hand["measure"].exits]
  <2>4. benchFacts'.measured = x /\ benchFacts'.verdict = benchFacts.verdict
    BY <1>a, <2>1
  <2>5. x.outcome = a /\ x.exits = hand["measure"].exits
    OBVIOUS
  <2> HIDE DEF x
  <2> QED BY <1>a, <2>3, <2>4, <2>5 DEF VerdictIsTheCommands
<1>5. CASE Ready
  <2>1. UNCHANGED benchFacts \/ benchFacts' = [benchFacts EXCEPT !.ready = TRUE]
    BY <1>5 DEF Ready
  <2> QED BY <1>1, <1>a, <2>1 DEF VerdictIsTheCommands
<1>6. ASSUME NEW w \in Workers, Rollback(w) PROVE VerdictIsTheCommands'
  BY <1>3, <1>6 DEF Rollback
<1>7. ASSUME NEW w \in Workers, ColdDown(w) PROVE VerdictIsTheCommands'
  BY <1>3, <1>7, SMTT(40) DEF ColdDown
<1>8. \/ UNCHANGED benchFacts \/ MeasureEnds \/ Ready
      \/ \E w \in Workers : BeginBox(w) \/ Rollback(w) \/ ColdDown(w)
  BY DEF BenchNext, benchVars, Provision, CloneForVerify, Clone, Measure, Record, DownPrior, CloseAll, Exit,
     Die, CreateVolume, RunDetached, ColdStep, CommandEnds, ResolveEnds, ProveEnds
<1> QED BY <1>1, <1>2, <1>4, <1>5, <1>6, <1>7, <1>8

LEMMA BenchStep == BenchInv /\ [BenchNext]_benchVars => BenchInv'
<1> SUFFICES ASSUME BenchInv, [BenchNext]_benchVars PROVE BenchInv'
  OBVIOUS
<1>1. CASE UNCHANGED benchVars
  <2>1. UNCHANGED <<box, warm, hand, benchFacts, orphans>>
    BY <1>1 DEF benchVars
  <2>2. BenchTyped' /\ VerdictIsTheCommands'
    BY <2>1 DEF BenchInv, BenchTyped, VerdictIsTheCommands
  <2>3. AllFit'
    BY <2>1 DEF BenchInv, AllFit, Fits, Shaped
  <2>4. Sole' /\ Fresh' /\ Standing' /\ Gone'
    BY <2>1 DEF BenchInv, BoxInv, Sole, Fresh, Standing, Gone
  <2>5. Watched' /\ NothingAccumulates'
    BY <2>1 DEF BenchInv, BoxInv, Watched, NothingAccumulates
  <2> QED BY <2>2, <2>3, <2>4, <2>5 DEF BenchInv, BoxInv
<1>2. CASE BenchNext
  <2>1. BoxKept
    BY <1>2, CallsStep, BeginStep, StartStep, MeasureStep, ColdDownStep, RecordStep, DownPriorStep, LossStep,
       ExitStep DEF BenchNext
  <2> QED BY <2>1, VerdictHolds DEF BoxKept, BenchInv
<1> QED BY <1>1, <1>2

LEMMA BenchHolds == BenchSpec => []BenchInv
  BY BenchStarts, BenchStep, PTL DEF BenchSpec

(* A measurement and a verdict are the doing of the commands they judge,   *)
(* whatever dies or is replaced under them (Exec, gatherRaw, Decide).      *)
THEOREM VerdictsHold == BenchSpec => []VerdictIsTheCommands
<1>1. BenchInv => VerdictIsTheCommands
  BY DEF BenchInv
<1> QED BY <1>1, BenchHolds, PTL

(* What runs is the recorded warm container, in a handler's hand, or one   *)
(* docker failed to remove (Sandboxes.Provision, ContainerRunner.Down).    *)
THEOREM NothingLeaks == BenchSpec => []NothingAccumulates
<1>1. BenchInv => NothingAccumulates
  BY DEF BenchInv, BoxInv
<1> QED BY <1>1, BenchHolds, PTL
=============================================================================
