----------------------------- MODULE RecordProofs -----------------------------
(***************************************************************************)
(* What a change leaves on record: the facts its lanes write, its folder,  *)
(* and the task it is frozen to.                                           *)
(*                                                                         *)
(* GraphWriter implements GroupStore, for every set of owners, entities    *)
(* and facts, every grouping of the facts and every bound: whatever        *)
(* requests are refused, repeated, answered into the void or arrive late,  *)
(* and whatever rules write in between.  A change folder that was written  *)
(* is the change, whatever earlier writes left behind (ChangeFolder).  A   *)
(* frozen task is the author's, for every size of a payload (TaskSpecs).   *)
(***************************************************************************)
EXTENDS GraphWriter, ChangeFolder, TaskSpecs, SequenceTheorems, FiniteSetTheorems,
        WellFoundedInduction, TLAPS

-----------------------------------------------------------------------------
(* The writer of facts.                                                    *)

Numbers  == 0..ByRule
Asks     == [on : Entities, value : Numbers, set : SUBSET Facts]
Snapshots == [Facts -> Numbers]
Requests == [by : Owners, ask : Asks, fence : Nat, read : Snapshots]
FailureKinds == {"none", "unclaimed", "unavailable", "invalid", "commit-unknown", "revision-conflict"}
Attempts == [pc : {"rest", "read", "write", "failed"}, number : Nat, kind : FailureKinds,
             fence : Nat, read : Snapshots]

Typed ==
  /\ facts \in [Entities -> Snapshots] /\ revision \in [Entities -> Nat]
  /\ asked \in [Owners -> Asks] /\ done \in [Owners -> {"none", "ok", "error"}]
  /\ attempt \in [Owners -> Attempts] /\ astray \subseteq Requests
  /\ counts \in [asks : Nat, rules : Nat, flaws : Nat] /\ counts.asks <= MaxAsks

(* A call is in flight exactly while it is unanswered.                     *)
InFlight == \A o \in Owners : attempt[o].pc = "rest" <=> done[o] # "none"

(* No request carries the number of a call still to come.                  *)
Numbered == /\ \A o \in Owners : asked[o].value <= counts.asks
            /\ \A r \in astray : r.ask.value <= counts.asks

(* What was read at the entity's present revision is what it holds.        *)
Current(e, fence, read) == /\ fence <= revision[e]
                           /\ fence = revision[e] => read = facts[e]
ReadsHold == /\ \A r \in astray : Current(r.ask.on, r.fence, r.read)
             /\ \A o \in Owners : attempt[o].pc = "write" =>
                  Current(asked[o].on, attempt[o].fence, attempt[o].read)

(* A call that was answered "ok" has fenced off its own earlier attempts.  *)
OkIsLast == \A r \in astray : r.ask = asked[r.by] /\ done[r.by] = "ok" =>
                                r.fence < revision[r.ask.on]

WriterInv == Typed /\ InFlight /\ Numbered /\ ReadsHold /\ OkIsLast

LEMMA ConstantsTyped ==
  /\ MaxAsks \in Nat /\ ByRule \in Nat /\ Free \in Numbers /\ ByRule \in Numbers
  /\ \A o \in Owners, e \in Entities : Group[o][e] \in SUBSET Facts
  BY WriterAssumption DEF ByRule, Free, Numbers

LEMMA RestTyped == Rest \in Attempts /\ Rest.pc = "rest"
  BY ConstantsTyped DEF Rest, Attempts, Snapshots, FailureKinds

LEMMA GroupTyped ==
  ASSUME NEW o \in Owners, NEW a \in Asks, NEW f \in Snapshots
  PROVE  WithGroup(o, a, f) \in Snapshots
  BY ConstantsTyped DEF WithGroup, Asks, Snapshots

(* What a call starts and goes on from.                                    *)
LEMMA AgainTyped ==
  ASSUME NEW n \in Nat
  PROVE  /\ [Rest EXCEPT !.pc = "read", !.number = n] \in Attempts
         /\ [Rest EXCEPT !.pc = "read", !.number = n].pc = "read"
  BY ConstantsTyped DEF Rest, Attempts, Snapshots, FailureKinds

LEMMA UnclaimedTyped ==
  LET t == [Rest EXCEPT !.pc = "failed", !.number = 1, !.kind = "unclaimed"]
  IN  t \in Attempts /\ t.pc = "failed"
  BY ConstantsTyped DEF Rest, Attempts, Snapshots, FailureKinds

(* What a write of one entity leaves of the invariant.                     *)
LEMMA WriteKeepsReads ==
  ASSUME Typed, ReadsHold, OkIsLast,
         NEW e \in Entities, NEW f \in Snapshots,
         facts' = [facts EXCEPT ![e] = f], revision' = [revision EXCEPT ![e] = @ + 1],
         asked' = asked, astray' \subseteq astray,
         \A o \in Owners : attempt'[o].pc = "write" => attempt'[o] = attempt[o],
         \A o \in Owners : done'[o] = "ok" => done[o] = "ok" \/ asked[o].on = e
  PROVE  /\ facts' \in [Entities -> Snapshots] /\ revision' \in [Entities -> Nat]
         /\ ReadsHold' /\ OkIsLast'
<1>1. facts' \in [Entities -> Snapshots] /\ revision' \in [Entities -> Nat]
  BY DEF Typed
<1>2. ASSUME NEW d \in Entities, NEW n \in Nat, NEW g, Current(d, n, g)
      PROVE  Current(d, n, g)' /\ (d = e => n < revision'[d])
  BY <1>2 DEF Current, Typed
<1>3. ReadsHold'
  <2>1. ASSUME NEW r \in astray' PROVE Current(r.ask.on, r.fence, r.read)'
    <3>1. r \in astray /\ r.ask.on \in Entities /\ r.fence \in Nat
      BY DEF Typed, Requests, Asks
    <3>2. Current(r.ask.on, r.fence, r.read)
      BY <3>1 DEF ReadsHold
    <3> QED BY <3>1, <3>2, <1>2
  <2>2. ASSUME NEW o \in Owners, attempt'[o].pc = "write"
        PROVE  Current(asked[o].on, attempt[o].fence, attempt[o].read)' /\ asked'[o] = asked[o]
    <3>1. attempt'[o] = attempt[o] /\ asked[o].on \in Entities /\ attempt[o].fence \in Nat
      BY <2>2 DEF Typed, Attempts, Asks
    <3>2. Current(asked[o].on, attempt[o].fence, attempt[o].read)
      BY <2>2, <3>1 DEF ReadsHold
    <3>3. Current(asked[o].on, attempt[o].fence, attempt[o].read) => 
          (attempt[o].fence <= revision'[asked[o].on] /\
           (attempt[o].fence = revision'[asked[o].on] => attempt[o].read = facts'[asked[o].on]))
      BY <3>1, <1>2 DEF Current, Typed
    <3> QED BY <3>1, <3>2, <3>3 DEF Current
  <2> QED BY <2>1, <2>2 DEF ReadsHold
<1>4. OkIsLast'
  <2> SUFFICES ASSUME NEW r \in astray', r.ask = asked[r.by], done'[r.by] = "ok"
               PROVE  r.fence < revision'[r.ask.on]
    BY DEF OkIsLast
  <2>1. r \in astray /\ r.ask.on \in Entities /\ r.fence \in Nat /\ r.by \in Owners
    BY DEF Typed, Requests, Asks
  <2>2. Current(r.ask.on, r.fence, r.read)
    BY <2>1 DEF ReadsHold
  <2>3. CASE r.ask.on = e
    BY <2>1, <2>2, <2>3, <1>2
  <2>4. CASE r.ask.on # e
    BY <2>1, <2>4 DEF OkIsLast, Typed
  <2> QED BY <2>3, <2>4
<1> QED BY <1>1, <1>3, <1>4

LEMMA InitInv == WriterInit => WriterInv
<1> SUFFICES ASSUME WriterInit PROVE WriterInv
  OBVIOUS
<1> USE ConstantsTyped, RestTyped
<1>1. (CHOOSE e \in Entities : TRUE) \in Entities
  BY WriterAssumption
<1>2. Typed
  <2>1. facts \in [Entities -> Snapshots] /\ revision \in [Entities -> Nat]
    BY DEF WriterInit, Snapshots
  <2>2. asked \in [Owners -> Asks]
    BY <1>1 DEF WriterInit, Asks
  <2>3. done \in [Owners -> {"none", "ok", "error"}] /\ attempt \in [Owners -> Attempts]
    BY DEF WriterInit
  <2>4. astray \subseteq Requests /\ counts \in [asks : Nat, rules : Nat, flaws : Nat]
        /\ counts.asks <= MaxAsks
    BY DEF WriterInit
  <2> QED BY <2>1, <2>2, <2>3, <2>4 DEF Typed
<1>3. InFlight /\ Numbered /\ ReadsHold /\ OkIsLast
  BY DEF WriterInit, InFlight, Numbered, ReadsHold, OkIsLast, Free
<1> QED BY <1>2, <1>3 DEF WriterInv

LEMMA ReplaceInv == WriterInv /\ (\E o \in Owners : Replace(o)) => WriterInv'
<1> SUFFICES ASSUME WriterInv, NEW o \in Owners, Replace(o) PROVE WriterInv'
  OBVIOUS
<1> USE ConstantsTyped, RestTyped
<1> PICK e \in Entities : \E s \in SUBSET Group[o][e] :
      /\ asked' = [asked EXCEPT ![o] = [on |-> e, value |-> counts.asks + 1, set |-> s]]
      /\ attempt' = [attempt EXCEPT ![o] =
            IF Claims(o, e) THEN [Rest EXCEPT !.pc = "read", !.number = 1]
            ELSE [Rest EXCEPT !.pc = "failed", !.number = 1, !.kind = "unclaimed"]]
  BY DEF Replace
<1> PICK s \in SUBSET Group[o][e] :
      asked' = [asked EXCEPT ![o] = [on |-> e, value |-> counts.asks + 1, set |-> s]]
  OBVIOUS
<1>1. /\ UNCHANGED <<facts, revision, astray>> /\ done' = [done EXCEPT ![o] = "none"]
      /\ counts' = [counts EXCEPT !.asks = @ + 1] /\ counts.asks < MaxAsks
      /\ attempt[o].pc = "rest"
  BY DEF Replace, Spend
<1> DEFINE new == [on |-> e, value |-> counts.asks + 1, set |-> s]
<1>2. new \in Asks
  BY <1>1 DEF WriterInv, Typed, Asks, Numbers, ByRule
<1>3. attempt'[o] \in Attempts /\ attempt'[o].pc \in {"read", "failed"}
  <2> DEFINE begun == [Rest EXCEPT !.pc = "read", !.number = 1]
             refused == [Rest EXCEPT !.pc = "failed", !.number = 1, !.kind = "unclaimed"]
  <2>1. begun \in Attempts /\ begun.pc = "read" /\ refused \in Attempts /\ refused.pc = "failed"
    BY AgainTyped, UnclaimedTyped
  <2>2. attempt'[o] = IF Claims(o, e) THEN begun ELSE refused
    BY DEF WriterInv, Typed
  <2> HIDE DEF begun, refused
  <2> QED BY <2>1, <2>2
<1>4. Typed'
  <2>1. attempt' \in [Owners -> Attempts]
    BY <1>3 DEF WriterInv, Typed
  <2>2. asked' \in [Owners -> Asks]
    BY <1>2 DEF WriterInv, Typed
  <2> QED BY <1>1, <2>1, <2>2 DEF WriterInv, Typed
<1>5. InFlight'
  BY <1>1, <1>3 DEF WriterInv, Typed, InFlight
<1>6. Numbered'
  <2>1. counts'.asks = counts.asks + 1 /\ counts.asks \in Nat
    BY <1>1 DEF WriterInv, Typed
  <2>2. \A q \in Owners : asked[q].value \in Nat
    BY DEF WriterInv, Typed, Asks, Numbers
  <2>3. \A r \in astray : r.ask.value \in Nat
    BY DEF WriterInv, Typed, Requests, Asks, Numbers
  <2>4. \A q \in Owners : asked'[q].value = IF q = o THEN counts.asks + 1 ELSE asked[q].value
    BY DEF WriterInv, Typed
  <2> QED BY <1>1, <2>1, <2>2, <2>3, <2>4 DEF WriterInv, Numbered
<1>7. ReadsHold'
  <2>1. \A q \in Owners : attempt'[q].pc = "write" => q # o /\ attempt'[q] = attempt[q] /\ asked'[q] = asked[q]
    BY <1>3 DEF WriterInv, Typed
  <2> QED BY <1>1, <2>1 DEF WriterInv, ReadsHold, Current
<1>8. OkIsLast'
  BY <1>1 DEF WriterInv, Typed, OkIsLast, Requests
<1> QED BY <1>4, <1>5, <1>6, <1>7, <1>8 DEF WriterInv

(* A step that only moves an attempt on.                                   *)
LEMMA MoveInv ==
  ASSUME WriterInv, NEW o \in Owners, NEW t \in Attempts, NEW d \in {"none", "error"},
         UNCHANGED <<facts, revision, asked>>,
         attempt' = [attempt EXCEPT ![o] = t], done' = [done EXCEPT ![o] = d],
         counts' \in [asks : Nat, rules : Nat, flaws : Nat], counts'.asks = counts.asks,
         t.pc = "rest" <=> d # "none",
         t.pc = "write" => Current(asked[o].on, t.fence, t.read),
         astray' \subseteq Requests,
         \A r \in astray' \ astray : /\ r.ask = asked[o] /\ r.by = o
                                     /\ Current(r.ask.on, r.fence, r.read)
  PROVE  WriterInv'
<1>1. Typed' /\ InFlight'
  BY DEF WriterInv, Typed, InFlight
<1>2. Numbered'
  BY DEF WriterInv, Numbered
<1>3. ReadsHold'
  <2>1. \A q \in Owners : attempt'[q] = IF q = o THEN t ELSE attempt[q]
    BY DEF WriterInv, Typed
  <2>2. \A c, n, g : Current(c, n, g) => Current(c, n, g)'
    BY DEF Current
  <2> QED BY <2>1 DEF WriterInv, ReadsHold, Current
<1>4. OkIsLast'
  BY DEF WriterInv, Typed, OkIsLast
<1> QED BY <1>1, <1>2, <1>3, <1>4 DEF WriterInv

LEMMA SpendTyped ==
  ASSUME Typed, NEW max, NEW what \in {"rules", "flaws"}, Spend(what, max)
  PROVE  counts' \in [asks : Nat, rules : Nat, flaws : Nat] /\ counts'.asks = counts.asks
  BY DEF Typed, Spend

LEMMA ReadInv == WriterInv /\ (\E o \in Owners : Read(o)) => WriterInv'
<1> SUFFICES ASSUME WriterInv, NEW o \in Owners, Read(o) PROVE WriterInv'
  OBVIOUS
<1> DEFINE e == asked[o].on
           t == [attempt[o] EXCEPT !.pc = "write", !.fence = revision[e], !.read = facts[e]]
<1>1. e \in Entities /\ t \in Attempts /\ t.pc = "write"
      /\ t.fence = revision[e] /\ t.read = facts[e] /\ revision[e] \in Nat
  BY DEF WriterInv, Typed, Asks, Attempts
<1>2. attempt' = [attempt EXCEPT ![o] = t]
  BY DEF Read, WriterInv, Typed, Attempts
<1>3. done[o] = "none" /\ done' = [done EXCEPT ![o] = "none"]
  BY DEF Read, WriterInv, InFlight, Typed
<1>4. Current(e, t.fence, t.read)
  BY <1>1 DEF Current
<1> HIDE DEF t
<1> QED BY <1>1, <1>2, <1>3, <1>4, MoveInv DEF Read, WriterInv, Typed

(* A step that writes one entity.                                          *)
LEMMA LandInv ==
  ASSUME WriterInv, NEW e \in Entities, NEW f \in Snapshots,
         facts' = [facts EXCEPT ![e] = f], revision' = [revision EXCEPT ![e] = @ + 1],
         asked' = asked, astray' \subseteq astray,
         attempt' \in [Owners -> Attempts], done' \in [Owners -> {"none", "ok", "error"}],
         counts' \in [asks : Nat, rules : Nat, flaws : Nat], counts'.asks = counts.asks,
         InFlight',
         \A o \in Owners : attempt'[o].pc = "write" => attempt'[o] = attempt[o],
         \A o \in Owners : done'[o] = "ok" => done[o] = "ok" \/ asked[o].on = e
  PROVE  WriterInv'
<1>1. /\ facts' \in [Entities -> Snapshots] /\ revision' \in [Entities -> Nat]
      /\ ReadsHold' /\ OkIsLast'
  BY WriteKeepsReads DEF WriterInv
<1>2. Typed'
  BY <1>1 DEF WriterInv, Typed
<1>3. Numbered'
  BY DEF WriterInv, Numbered
<1> QED BY <1>1, <1>2, <1>3 DEF WriterInv

LEMMA WriteLandsInv == WriterInv /\ (\E o \in Owners : WriteLands(o)) => WriterInv'
<1> SUFFICES ASSUME WriterInv, NEW o \in Owners, WriteLands(o) PROVE WriterInv'
  OBVIOUS
<1> DEFINE e == asked[o].on
           f == WithGroup(o, asked[o], attempt[o].read)
           unknown == [attempt[o] EXCEPT !.pc = "failed", !.kind = "commit-unknown"]
<1>1. /\ attempt[o] \in Attempts /\ attempt[o].pc = "write" /\ done[o] = "none"
      /\ asked[o] \in Asks /\ e \in Entities
  BY DEF WriteLands, WriterInv, Typed, InFlight, Asks
<1>2. f \in Snapshots
  BY <1>1, GroupTyped DEF Attempts
<1>3. facts' = [facts EXCEPT ![e] = f] /\ revision' = [revision EXCEPT ![e] = @ + 1]
      /\ UNCHANGED <<asked, astray>>
  BY DEF WriteLands, Lands
<1>4. CASE attempt' = [attempt EXCEPT ![o] = Rest] /\ done' = [done EXCEPT ![o] = "ok"] /\ counts' = counts
  <2>1. attempt' \in [Owners -> Attempts] /\ done' \in [Owners -> {"none", "ok", "error"}]
        /\ InFlight'
    BY <1>4, RestTyped DEF WriterInv, Typed, InFlight
  <2>2. \A q \in Owners : /\ attempt'[q].pc = "write" => attempt'[q] = attempt[q]
                          /\ done'[q] = "ok" => done[q] = "ok" \/ asked[q].on = e
    BY <1>4, RestTyped DEF WriterInv, Typed
  <2> HIDE DEF f, e
  <2> QED BY <1>1, <1>2, <1>3, <1>4, <2>1, <2>2, LandInv DEF WriterInv, Typed, e
<1>5. CASE Failed(o, "commit-unknown") /\ Spend("flaws", MaxFlaws) /\ done' = done
  <2>1. unknown \in Attempts /\ unknown.pc = "failed"
    BY <1>1 DEF Attempts, FailureKinds
  <2>2. attempt' = [attempt EXCEPT ![o] = unknown]
    BY <1>5 DEF Failed, WriterInv, Typed, Attempts
  <2> HIDE DEF unknown
  <2>3. attempt' \in [Owners -> Attempts] /\ done' \in [Owners -> {"none", "ok", "error"}]
        /\ InFlight'
    BY <1>1, <1>5, <2>1, <2>2 DEF WriterInv, Typed, InFlight
  <2>4. \A q \in Owners : attempt'[q].pc = "write" => attempt'[q] = attempt[q]
    BY <2>1, <2>2 DEF WriterInv, Typed
  <2>5. counts' \in [asks : Nat, rules : Nat, flaws : Nat] /\ counts'.asks = counts.asks
    BY <1>5, SpendTyped DEF WriterInv
  <2> HIDE DEF f, e
  <2> QED BY <1>1, <1>2, <1>3, <1>5, <2>3, <2>4, <2>5, LandInv DEF e
<1> QED BY <1>4, <1>5 DEF WriteLands

LEMMA WriteMissesInv ==
  WriterInv /\ (\E o \in Owners : WriteConflicts(o) \/ WriteFails(o)) => WriterInv'
<1> SUFFICES ASSUME WriterInv, NEW o \in Owners, WriteConflicts(o) \/ WriteFails(o) PROVE WriterInv'
  OBVIOUS
<1> DEFINE failed(k) == [attempt[o] EXCEPT !.pc = "failed", !.kind = k]
           request == [by |-> o, ask |-> asked[o],
                       fence |-> attempt[o].fence, read |-> attempt[o].read]
<1>1. /\ attempt[o] \in Attempts /\ attempt[o].pc = "write" /\ done[o] = "none"
      /\ done' = [done EXCEPT ![o] = "none"] /\ UNCHANGED <<facts, revision, asked>>
  BY DEF WriteConflicts, WriteFails, WriterInv, Typed, InFlight
<1>2. \A k \in FailureKinds : failed(k) \in Attempts /\ failed(k).pc = "failed"
  BY <1>1 DEF Attempts
<1>3. PICK k \in FailureKinds : Failed(o, k)
  BY DEF WriteConflicts, WriteFails, FailureKinds
<1>4. attempt' = [attempt EXCEPT ![o] = failed(k)]
  BY <1>3 DEF Failed, WriterInv, Typed, Attempts
<1>5. counts' \in [asks : Nat, rules : Nat, flaws : Nat] /\ counts'.asks = counts.asks
  BY SpendTyped DEF WriteConflicts, WriteFails, WriterInv, Typed
<1>6. request \in Requests /\ Current(request.ask.on, request.fence, request.read)
  BY <1>1 DEF WriterInv, Typed, ReadsHold, Requests, Attempts
<1>7. astray' \subseteq astray \cup {request}
  BY DEF WriteConflicts, WriteFails
<1>8. astray' \subseteq Requests
  BY <1>6, <1>7 DEF WriterInv, Typed
<1>9. \A r \in astray' \ astray : /\ r.ask = asked[o] /\ r.by = o
                                   /\ Current(r.ask.on, r.fence, r.read)
  BY <1>6, <1>7
<1>10. failed(k) \in Attempts /\ failed(k).pc = "failed"
  BY <1>2
<1> HIDE DEF failed, request
<1> QED BY <1>1, <1>4, <1>5, <1>8, <1>9, <1>10, MoveInv

LEMMA DeliverInv == WriterInv /\ Deliver => WriterInv'
<1> SUFFICES ASSUME WriterInv, Deliver PROVE WriterInv'
  OBVIOUS
<1>1. PICK r \in astray : /\ astray' = astray \ {r}
                          /\ \/ Lands(r.by, r.ask, r.fence, r.read)
                             \/ UNCHANGED <<facts, revision>>
  BY DEF Deliver
<1>2. UNCHANGED <<asked, done, attempt, counts>>
  BY DEF Deliver
<1>3. CASE UNCHANGED <<facts, revision>>
  BY <1>1, <1>2, <1>3 DEF WriterInv, Typed, InFlight, Numbered, ReadsHold, Current, OkIsLast
<1>4. CASE Lands(r.by, r.ask, r.fence, r.read)
  <2> DEFINE e == r.ask.on
             f == WithGroup(r.by, r.ask, r.read)
  <2>1. e \in Entities /\ f \in Snapshots
    BY GroupTyped DEF WriterInv, Typed, Requests, Asks
  <2>2. facts' = [facts EXCEPT ![e] = f] /\ revision' = [revision EXCEPT ![e] = @ + 1]
    BY <1>4 DEF Lands
  <2>3. InFlight'
    BY <1>2 DEF WriterInv, InFlight
  <2> HIDE DEF f, e
  <2> QED BY <1>1, <1>2, <2>1, <2>2, <2>3, LandInv DEF WriterInv, Typed
<1> QED BY <1>1, <1>3, <1>4

LEMMA AfterFailureInv == WriterInv /\ (\E o \in Owners : AfterFailure(o)) => WriterInv'
<1> SUFFICES ASSUME WriterInv, NEW o \in Owners, AfterFailure(o) PROVE WriterInv'
  OBVIOUS
<1> DEFINE again == [Rest EXCEPT !.pc = "read", !.number = attempt[o].number + 1]
<1>1. /\ attempt[o] \in Attempts /\ attempt[o].number \in Nat /\ done[o] = "none"
      /\ UNCHANGED <<facts, revision, asked, astray>> /\ astray \subseteq Requests
  BY DEF AfterFailure, WriterInv, Typed, InFlight, Attempts
<1>2. counts' \in [asks : Nat, rules : Nat, flaws : Nat] /\ counts'.asks = counts.asks
  BY SpendTyped DEF AfterFailure, WriterInv, Typed
<1>3. again \in Attempts /\ again.pc = "read"
  <2>1. attempt[o].number + 1 \in Nat
    BY <1>1
  <2> QED BY <2>1, AgainTyped, Zenon
<1>4. CASE attempt' = [attempt EXCEPT ![o] = again] /\ done' = done
  <2>1. done' = [done EXCEPT ![o] = "none"]
    BY <1>1, <1>4 DEF WriterInv, Typed
  <2> HIDE DEF again
  <2> QED BY <1>1, <1>2, <1>3, <1>4, <2>1, MoveInv
<1>5. CASE attempt' = [attempt EXCEPT ![o] = Rest] /\ done' = [done EXCEPT ![o] = "error"]
  BY <1>1, <1>2, <1>5, RestTyped, MoveInv
<1> QED BY <1>4, <1>5 DEF AfterFailure, GivesUp

LEMMA RuleWritesInv == WriterInv /\ RuleWrites => WriterInv'
<1> SUFFICES ASSUME WriterInv, RuleWrites PROVE WriterInv'
  OBVIOUS
<1>1. PICK e \in Entities, p \in RuleFacts, v \in {ByRule, Free} :
        /\ facts' = [facts EXCEPT ![e][p] = v]
        /\ revision' = [revision EXCEPT ![e] = @ + 1]
  BY DEF RuleWrites
<1> DEFINE f == [facts[e] EXCEPT ![p] = v]
<1>2. f \in Snapshots /\ facts' = [facts EXCEPT ![e] = f]
  BY <1>1, ConstantsTyped, WriterAssumption DEF WriterInv, Typed, Snapshots
<1>3. UNCHANGED <<asked, done, attempt, astray>> /\ InFlight'
  BY DEF RuleWrites, WriterInv, InFlight
<1>4. counts' \in [asks : Nat, rules : Nat, flaws : Nat] /\ counts'.asks = counts.asks
  BY SpendTyped DEF RuleWrites, WriterInv
<1> HIDE DEF f
<1> QED BY <1>1, <1>2, <1>3, <1>4, LandInv DEF WriterInv, Typed

LEMMA StepInv == WriterInv /\ [WriterNext]_writerVars => WriterInv'
<1> SUFFICES ASSUME WriterInv, [WriterNext]_writerVars PROVE WriterInv'
  OBVIOUS
<1>1. CASE WriterNext
  BY <1>1, ReplaceInv, ReadInv, WriteLandsInv, WriteMissesInv, DeliverInv, AfterFailureInv,
     RuleWritesInv DEF WriterNext, Write
<1>2. CASE UNCHANGED writerVars
  BY <1>2 DEF writerVars, WriterInv, Typed, InFlight, Numbered, ReadsHold, Current, OkIsLast
<1> QED BY <1>1, <1>2

-----------------------------------------------------------------------------
(* The bound on requests, with the types.                                  *)
Within(n) == n \in Nat /\ \E max \in {ReplaceTries, TransportTries} : n <= max
Tries     == \A o \in Owners : Within(attempt[o].number)

LEMMA StepTries == Typed /\ Tries /\ [WriterNext]_writerVars => Tries'
<1> SUFFICES ASSUME Typed, Tries, [WriterNext]_writerVars PROVE Tries'
  OBVIOUS
<1>0. Within(0) /\ Within(1)
  BY WriterAssumption DEF Within
<1>1. ASSUME NEW o \in Owners, NEW t, attempt' = [attempt EXCEPT ![o] = t], Within(t.number)
      PROVE  Tries'
  BY <1>1 DEF Typed, Tries, Within
<1>2. ASSUME NEW o \in Owners, Replace(o) PROVE Tries'
  <2> DEFINE begun   == [Rest EXCEPT !.pc = "read", !.number = 1]
             refused == [Rest EXCEPT !.pc = "failed", !.number = 1, !.kind = "unclaimed"]
  <2>1. begun.number = 1 /\ refused.number = 1
    BY DEF Rest
  <2>2. PICK e \in Entities :
          attempt' = [attempt EXCEPT ![o] = IF Claims(o, e) THEN begun ELSE refused]
    BY <1>2 DEF Replace
  <2> HIDE DEF begun, refused
  <2> QED BY <1>0, <1>1, <2>1, <2>2
<1>3. ASSUME NEW o \in Owners, Read(o) \/ WriteConflicts(o) \/ WriteFails(o) \/ WriteLands(o)
      PROVE  Tries'
  <2>1. attempt[o] \in Attempts
    BY DEF Typed
  <2>2. attempt'[o].number \in {0, attempt[o].number}
    BY <1>3, <2>1 DEF Read, WriteConflicts, WriteFails, WriteLands, Failed, Typed, Attempts, Rest
  <2>3. attempt' = [attempt EXCEPT ![o] = attempt'[o]]
    BY <1>3 DEF Read, WriteConflicts, WriteFails, WriteLands, Failed, Typed
  <2>4. Within(attempt'[o].number)
    BY <1>0, <2>2 DEF Tries
  <2> QED BY <1>1, <2>3, <2>4
<1>4. ASSUME NEW o \in Owners, AfterFailure(o) PROVE Tries'
  <2> DEFINE again == [Rest EXCEPT !.pc = "read", !.number = attempt[o].number + 1]
  <2>1. again.number = attempt[o].number + 1 /\ Rest.number = 0
    BY DEF Rest
  <2>2. attempt[o].number \in Nat
    BY DEF Typed, Attempts
  <2>3. CASE attempt' = [attempt EXCEPT ![o] = again] /\ attempt[o].number < Bound(attempt[o].kind)
    <3>1. Within(again.number)
      BY <2>1, <2>2, <2>3, WriterAssumption DEF Within, Bound
    <3> HIDE DEF again
    <3> QED BY <1>1, <2>3, <3>1
  <2>4. CASE attempt' = [attempt EXCEPT ![o] = Rest]
    BY <1>0, <1>1, <2>1, <2>4
  <2> QED BY <1>4, <2>3, <2>4 DEF AfterFailure
<1>5. CASE Deliver \/ RuleWrites \/ UNCHANGED writerVars
  BY <1>5 DEF Deliver, RuleWrites, writerVars, Tries
<1> QED BY <1>2, <1>3, <1>4, <1>5 DEF WriterNext, Write

(* The facts stay within their types, and no call makes more requests      *)
(* than the wider of the two retry bounds.                                 *)
THEOREM WriterTypeCorrect == WriterSpec => []WriterTypeOK
<1>1. WriterInit => Tries
  BY WriterAssumption DEF WriterInit, Tries, Within, Rest
<1>2. Typed /\ Tries => WriterTypeOK
  BY DEF Typed, Tries, Within, WriterTypeOK, Snapshots, Numbers, Asks
<1>3. WriterInv => Typed
  BY DEF WriterInv
<1> QED BY <1>1, <1>2, <1>3, InitInv, StepInv, StepTries, PTL DEF WriterSpec

-----------------------------------------------------------------------------
(* The refinement.  First what becomes of the loose requests.              *)
Failing(o) == done[o] = "error"

(* Nobody wrote, no call began: only requests that have gone are lost.     *)
LEMMA LooseFrame ==
  ASSUME Typed, UNCHANGED <<revision, asked, done>>,
         \A r \in astray' \ astray : r.by \in Owners /\ r.ask = asked[r.by] /\ ~Failing(r.by),
         astray \subseteq astray'
  PROVE  Loose' = Loose
<1>1. \A r : Unheard(r)' <=> Unheard(r)
  BY DEF Unheard
<1>2. {r \in astray' : Unheard(r)'} = {r \in astray : Unheard(r)}
  BY <1>1 DEF Unheard, Failing
<1>3. Loose' = {[by |-> r.by, ask |-> r.ask] : r \in {r \in astray' : Unheard(r)'}}
  BY DEF Loose
<1> QED BY <1>2, <1>3 DEF Loose

(* A write of the entity fences off every request that read it before.     *)
LEMMA LooseAfterWrite ==
  ASSUME Typed, ReadsHold, NEW e \in Entities,
         revision' = [revision EXCEPT ![e] = @ + 1], asked' = asked,
         \A o \in Owners : Failing(o)' <=> Failing(o),
         {r \in astray' : r.ask.on # e} = {r \in astray : r.ask.on # e},
         astray' \subseteq astray
  PROVE  Loose' = {l \in Loose : l.ask.on # e}
<1>1. \A r \in astray : /\ r.by \in Owners /\ r.ask.on \in Entities /\ r.fence \in Nat
                        /\ r.fence <= revision[r.ask.on] /\ revision[r.ask.on] \in Nat
  BY DEF Typed, Requests, Asks, ReadsHold, Current
<1>2. \A r \in astray : Unheard(r)' <=> r.ask.on # e /\ Unheard(r)
  BY <1>1 DEF Typed, Unheard, Failing
<1>3. {r \in astray' : Unheard(r)'} = {r \in astray : r.ask.on # e /\ Unheard(r)}
  BY <1>2
<1>4. Loose' = {[by |-> r.by, ask |-> r.ask] : r \in {r \in astray' : Unheard(r)'}}
  BY DEF Loose
<1> QED BY <1>3, <1>4 DEF Loose

LEMMA InitStore == WriterInit => Store!StoreInit
<1> SUFFICES ASSUME WriterInit PROVE Store!StoreInit
  OBVIOUS
<1>1. (CHOOSE e \in Entities : TRUE) \in Entities
  BY WriterAssumption
<1>2. Loose = {}
  BY DEF WriterInit, Loose
<1> QED BY <1>1, <1>2 DEF WriterInit, Store!StoreInit

(* A call begins; what its owner's last call left behind stays loose.      *)
LEMMA ReplaceStore ==
  ASSUME WriterInv, NEW o \in Owners, Replace(o)
  PROVE  Store!Ask(o)
<1>1. PICK e \in Entities : \E s \in SUBSET Group[o][e] :
        asked' = [asked EXCEPT ![o] = [on |-> e, value |-> counts.asks + 1, set |-> s]]
  BY DEF Replace
<1>2. PICK s \in SUBSET Group[o][e] :
        asked' = [asked EXCEPT ![o] = [on |-> e, value |-> counts.asks + 1, set |-> s]]
  BY <1>1
<1>3. /\ done[o] # "none" /\ done' = [done EXCEPT ![o] = "none"]
      /\ UNCHANGED <<facts, revision, astray>> /\ counts.asks \in Nat /\ counts.asks < MaxAsks
  BY DEF Replace, Spend, WriterInv, Typed, InFlight
<1>4. counts.asks + 1 \in 1..(MaxAsks + 1)
  BY <1>3, ConstantsTyped
<1>5. ASSUME NEW r \in astray PROVE Unheard(r)' <=> Unheard(r)
  <2>1. r.by \in Owners /\ r.fence \in Nat /\ r.ask.value \in Nat /\ r.ask.value <= counts.asks
    BY DEF WriterInv, Typed, Requests, Asks, Numbers, Numbered
  <2>2. CASE r.by # o
    BY <1>2, <1>3, <2>1, <2>2 DEF Unheard, WriterInv, Typed
  <2>3. CASE r.by = o
    <3>1. asked'[o].value = counts.asks + 1
      BY <1>2 DEF WriterInv, Typed
    <3>2. r.ask # asked'[o]
      BY <1>3, <2>1, <3>1
    <3>3. Unheard(r)' <=> r.fence = revision[r.ask.on]
      BY <1>3, <2>3, <3>2 DEF Unheard
    <3>4. r.fence = revision[r.ask.on] => r.ask # asked[o] \/ done[o] # "ok"
      <4>1. r.ask = asked[o] /\ done[o] = "ok" => r.fence < revision[r.ask.on]
        BY <2>3 DEF WriterInv, OkIsLast
      <4> QED BY <2>1, <4>1
    <3>5. done[o] = "ok" \/ done[o] = "error"
      BY <1>3 DEF WriterInv, Typed
    <3> QED BY <2>3, <3>3, <3>4, <3>5 DEF Unheard
  <2> QED BY <2>2, <2>3
<1>6. Loose' = Loose
  <2>1. Loose' = {[by |-> r.by, ask |-> r.ask] : r \in {r \in astray' : Unheard(r)'}}
    BY DEF Loose
  <2>2. {r \in astray' : Unheard(r)'} = {r \in astray : Unheard(r)}
    BY <1>3, <1>5
  <2> QED BY <2>1, <2>2 DEF Loose
<1> QED BY <1>2, <1>3, <1>4, <1>6 DEF Store!Ask, Values

(* A write lands: the group is set in one step, on what the entity held.   *)
LEMMA WriteStore ==
  ASSUME WriterInv, NEW o \in Owners, WriteLands(o)
  PROVE  Store!Set(o)
<1> DEFINE e == asked[o].on
<1>1. e \in Entities /\ done[o] = "none" /\ UNCHANGED <<asked, astray>>
  BY DEF WriteLands, WriterInv, Typed, InFlight, Asks
<1>2. attempt[o].fence = revision[e] /\ attempt[o].read = facts[e]
  BY DEF WriteLands, Lands, Fenced, WriterInv, ReadsHold, Current
<1>3. facts' = [facts EXCEPT ![e] = Store!SetGroup(o, asked[o], @)]
  BY <1>2 DEF WriteLands, Lands, WithGroup, Store!SetGroup
<1>4. \E d \in {"none", "ok"} : done' = [done EXCEPT ![o] = d]
  BY <1>1 DEF WriteLands, WriterInv, Typed
<1>5. \A q \in Owners : Failing(q)' <=> Failing(q)
  BY <1>1, <1>4 DEF Failing, WriterInv, Typed
<1>6. revision' = [revision EXCEPT ![e] = @ + 1]
  BY DEF WriteLands, Lands
<1>7. Loose' = {l \in Loose : l.ask.on # e}
  BY <1>1, <1>5, <1>6, LooseAfterWrite DEF WriterInv
<1> QED BY <1>1, <1>3, <1>4, <1>7 DEF Store!Set, Store!Written

(* A write misses: nothing has happened yet.                               *)
LEMMA MissStore ==
  ASSUME WriterInv, NEW o \in Owners, WriteConflicts(o) \/ WriteFails(o)
  PROVE  UNCHANGED <<facts, asked, done, Loose>>
<1>1. UNCHANGED <<facts, revision, asked, done>> /\ done[o] = "none" /\ astray \subseteq astray'
  BY DEF WriteConflicts, WriteFails, WriterInv, InFlight
<1>2. \A r \in astray' \ astray : r.by \in Owners /\ r.ask = asked[r.by] /\ ~Failing(r.by)
  BY <1>1 DEF WriteConflicts, WriteFails, Failing
<1> QED BY <1>1, <1>2, LooseFrame DEF WriterInv

(* A call gives up; what it left behind is loose from now on.              *)
LEMMA GiveUpStore ==
  ASSUME WriterInv, NEW o \in Owners, UNCHANGED <<facts, revision, asked, astray>>,
         done[o] = "none", done' = [done EXCEPT ![o] = "error"]
  PROVE  Store!Fail(o)
<1> DEFINE own == [by |-> o, ask |-> asked[o]]
<1>1. \A r \in astray : r.by \in Owners
  BY DEF WriterInv, Typed, Requests
<1>2. \A r \in astray : Unheard(r)' <=>
        Unheard(r) \/ (r.by = o /\ r.ask = asked[o] /\ r.fence = revision[r.ask.on])
  BY <1>1 DEF Unheard, WriterInv, Typed
<1>3. Loose' = {[by |-> r.by, ask |-> r.ask] : r \in {r \in astray : Unheard(r)'}}
  BY DEF Loose
<1>4. CASE \E r \in astray : r.by = o /\ r.ask = asked[o] /\ r.fence = revision[r.ask.on]
  <2>1. Loose' = Loose \cup {own}
    BY <1>2, <1>3, <1>4 DEF Loose
  <2> QED BY <2>1 DEF Store!Fail
<1>5. CASE ~ \E r \in astray : r.by = o /\ r.ask = asked[o] /\ r.fence = revision[r.ask.on]
  <2>1. Loose' = Loose
    BY <1>2, <1>3, <1>5 DEF Loose
  <2> QED BY <2>1 DEF Store!Fail
<1> QED BY <1>4, <1>5

LEMMA AfterFailureStore ==
  ASSUME WriterInv, NEW o \in Owners, AfterFailure(o)
  PROVE  Store!Fail(o) \/ UNCHANGED <<facts, asked, done, Loose>>
<1>1. UNCHANGED <<facts, revision, asked, astray>> /\ done[o] = "none"
  BY DEF AfterFailure, WriterInv, InFlight
<1>2. CASE done' = done
  BY <1>1, <1>2, LooseFrame DEF WriterInv
<1>3. CASE done' = [done EXCEPT ![o] = "error"]
  BY <1>1, <1>3, GiveUpStore
<1> QED BY <1>2, <1>3 DEF AfterFailure, GivesUp

(* A request reaches the graph after its caller stopped waiting: as part   *)
(* of the call, if that is still in flight, else as a loose one.           *)
LEMMA LandLateStore ==
  ASSUME WriterInv, NEW r \in astray, astray' = astray \ {r},
         Lands(r.by, r.ask, r.fence, r.read), UNCHANGED <<asked, done>>
  PROVE  Store!SetLate \/ Store!Set(r.by)
<1> DEFINE e == r.ask.on
<1>1. e \in Entities /\ r.by \in Owners /\ r.fence \in Nat
  BY DEF WriterInv, Typed, Requests, Asks
<1>2. r.fence = revision[e] /\ r.read = facts[e]
  BY DEF Lands, Fenced, WriterInv, ReadsHold, Current
<1>3. facts' = [facts EXCEPT ![e] = Store!SetGroup(r.by, r.ask, @)]
  BY <1>2 DEF Lands, WithGroup, Store!SetGroup
<1>4. \A q \in Owners : Failing(q)' <=> Failing(q)
  BY DEF Failing
<1>5. Loose' = {l \in Loose : l.ask.on # e}
  <2>1. revision' = [revision EXCEPT ![e] = @ + 1]
    BY DEF Lands
  <2>2. {q \in astray' : q.ask.on # e} = {q \in astray : q.ask.on # e}
    OBVIOUS
  <2> QED BY <1>1, <1>4, <2>1, <2>2, LooseAfterWrite DEF WriterInv
<1>6. CASE Unheard(r)
  <2> DEFINE late == [by |-> r.by, ask |-> r.ask]
  <2>1. late \in Loose
    BY <1>6 DEF Loose
  <2>2. Store!Written(late.by, late.ask)
    BY <1>3, <1>5 DEF Store!Written
  <2> QED BY <2>1, <2>2 DEF Store!SetLate
<1>7. CASE ~Unheard(r)
  <2>1. r.ask = asked[r.by] /\ done[r.by] # "error"
    BY <1>2, <1>7 DEF Unheard
  <2>2. done[r.by] # "ok"
    BY <1>1, <1>2, <2>1 DEF WriterInv, OkIsLast
  <2>3. done[r.by] = "none" /\ done' = [done EXCEPT ![r.by] = "none"]
    BY <1>1, <2>1, <2>2 DEF WriterInv, Typed
  <2> QED BY <1>3, <1>5, <2>1, <2>3 DEF Store!Set, Store!Written
<1> QED BY <1>6, <1>7

LEMMA DeliverStore ==
  ASSUME WriterInv, Deliver
  PROVE  \/ Store!SetLate \/ Store!LoseLate \/ \E o \in Owners : Store!Set(o)
         \/ UNCHANGED <<facts, asked, done, Loose>>
<1>1. PICK r \in astray : /\ astray' = astray \ {r}
                          /\ \/ Lands(r.by, r.ask, r.fence, r.read)
                             \/ UNCHANGED <<facts, revision>>
  BY DEF Deliver
<1>2. UNCHANGED <<asked, done>> /\ r.by \in Owners
  BY DEF Deliver, WriterInv, Typed, Requests
<1>3. CASE Lands(r.by, r.ask, r.fence, r.read)
  BY <1>1, <1>2, <1>3, LandLateStore
<1>4. CASE UNCHANGED <<facts, revision>>
  <2> DEFINE late == [by |-> r.by, ask |-> r.ask]
  <2>1. \A q : Unheard(q)' <=> Unheard(q)
    BY <1>2, <1>4 DEF Unheard
  <2>2. Loose' = {[by |-> q.by, ask |-> q.ask] : q \in {q \in astray' : Unheard(q)'}}
    BY DEF Loose
  <2>3. {q \in astray' : Unheard(q)'} = {q \in astray : Unheard(q)} \ {r}
    BY <1>1, <2>1
  <2>4. CASE late \in Loose' \/ ~Unheard(r)
    <3>1. Loose' = Loose
      BY <2>2, <2>3, <2>4 DEF Loose
    <3> QED BY <1>2, <1>4, <3>1
  <2>5. CASE late \notin Loose' /\ Unheard(r)
    <3>1. Loose' = Loose \ {late} /\ late \in Loose
      BY <2>2, <2>3, <2>5 DEF Loose
    <3> QED BY <1>2, <1>4, <3>1 DEF Store!LoseLate
  <2> QED BY <2>4, <2>5
<1> QED BY <1>1, <1>3, <1>4

LEMMA RuleStore ==
  ASSUME WriterInv, RuleWrites
  PROVE  Store!Rule
<1>1. PICK e \in Entities, p \in RuleFacts, v \in {ByRule, Free} :
        /\ facts' = [facts EXCEPT ![e][p] = v]
        /\ revision' = [revision EXCEPT ![e] = @ + 1]
  BY DEF RuleWrites
<1>2. p \in Facts /\ v \in Values \cup {Free} /\ UNCHANGED <<asked, done, astray>>
  BY WriterAssumption DEF RuleWrites, Values, ByRule
<1>3. \A q \in Owners : Failing(q)' <=> Failing(q)
  BY <1>2 DEF Failing
<1>4. Loose' = {l \in Loose : l.ask.on # e}
  BY <1>1, <1>2, <1>3, LooseAfterWrite DEF WriterInv
<1> QED BY <1>1, <1>2, <1>4 DEF Store!Rule

LEMMA StepStore ==
  WriterInv /\ [WriterNext]_writerVars => [Store!StoreNext]_<<facts, asked, done, Loose>>
<1> SUFFICES ASSUME WriterInv, [WriterNext]_writerVars
             PROVE  [Store!StoreNext]_<<facts, asked, done, Loose>>
  OBVIOUS
<1>1. CASE UNCHANGED writerVars
  BY <1>1, LooseFrame DEF writerVars, WriterInv
<1>2. CASE Deliver
  BY <1>2, DeliverStore DEF Store!StoreNext
<1>3. CASE RuleWrites
  BY <1>3, RuleStore DEF Store!StoreNext
<1>4. ASSUME NEW o \in Owners, Replace(o) PROVE Store!StoreNext
  BY <1>4, ReplaceStore DEF Store!StoreNext
<1>5. ASSUME NEW o \in Owners, Read(o) PROVE UNCHANGED <<facts, asked, done, Loose>>
  BY <1>5, LooseFrame DEF Read, WriterInv
<1>6. ASSUME NEW o \in Owners, Write(o) PROVE [Store!StoreNext]_<<facts, asked, done, Loose>>
  BY <1>6, WriteStore, MissStore DEF Write, Store!StoreNext
<1>7. ASSUME NEW o \in Owners, AfterFailure(o)
      PROVE  [Store!StoreNext]_<<facts, asked, done, Loose>>
  BY <1>7, AfterFailureStore DEF Store!StoreNext
<1> QED BY <1>1, <1>2, <1>3, <1>4, <1>5, <1>6, <1>7 DEF WriterNext

(* Whatever the transport and other writers do, Replace is an atomic set   *)
(* of the owner's group, and a request left behind by a call that failed   *)
(* counts only until the entity is next written.                           *)
THEOREM WriterImplementsStore == WriterSpec => ImplementsGroupStore
<1>1. WriterInit /\ [][WriterNext]_writerVars /\ []WriterInv => Store!StoreSpec
  BY InitStore, StepStore, PTL DEF Store!StoreSpec, Store!storeVars
<1>2. WriterSpec => []WriterInv
  BY InitInv, StepInv, PTL DEF WriterSpec
<1> QED BY <1>1, <1>2, PTL DEF WriterSpec, ImplementsGroupStore

-----------------------------------------------------------------------------
(* The change folder.                                                      *)

(* What is still to be written is the change's; what is not is as the      *)
(* change wants it.                                                        *)
Waiting == {Order[i] : i \in write.todo}
Mended ==
  /\ write.pc = "clear" => write.todo = {i \in DOMAIN Order : i <= Len(Documents) \/ Order[i] \in write.change}
  /\ write.pc = "write" => \A a \in Artifacts : a \notin Waiting => folder[a] = Content(a)
  /\ write.pc = "ok" => folder = [a \in Artifacts |-> Content(a)]

FolderInv == FolderTypeOK /\ Mended

LEMMA OrderFacts ==
  /\ DOMAIN Order = 1..(3 + Len(Deltas)) /\ Len(Deltas) \in Nat /\ Len(Documents) = 3
  /\ \A i \in DOMAIN Order : i > 3 => Order[i] = Deltas[i - 3] /\ i - 3 \in DOMAIN Deltas
  /\ Artifacts = {Order[i] : i \in DOMAIN Order}
  /\ ToSet(Deltas) \subseteq Artifacts
<1> DEFINE S == ToSet(Deltas) \cup {"proposal", "design", "tasks"}
<1>1. Deltas \in Seq(S)
  BY FolderAssumption DEF ToSet
<1>2. Documents \in Seq(S) /\ Len(Documents) = 3
  BY DEF Documents
<1>3. /\ Len(Order) = 3 + Len(Deltas) /\ Order \in Seq(S) /\ Len(Deltas) \in Nat
      /\ \A i \in 1..(3 + Len(Deltas)) : Order[i] = IF i <= 3 THEN Documents[i] ELSE Deltas[i - 3]
  <2>1. /\ Documents \o Deltas \in Seq(S)
        /\ Len(Documents \o Deltas) = Len(Documents) + Len(Deltas)
        /\ \A i \in 1..(Len(Documents) + Len(Deltas)) :
             (Documents \o Deltas)[i] = IF i <= Len(Documents) THEN Documents[i] ELSE Deltas[i - Len(Documents)]
    BY <1>1, <1>2, ConcatProperties, Zenon
  <2> QED BY <1>1, <1>2, <2>1 DEF Order
<1>4. DOMAIN Order = 1..(3 + Len(Deltas)) /\ DOMAIN Deltas = 1..Len(Deltas)
  BY <1>1, <1>3
<1>5. \A i \in DOMAIN Order : i > 3 => Order[i] = Deltas[i - 3] /\ i - 3 \in DOMAIN Deltas
  BY <1>3, <1>4
<1>6. Artifacts = {Order[i] : i \in DOMAIN Order}
  BY DEF Artifacts, ToSet
<1>7. ASSUME NEW j \in DOMAIN Deltas PROVE Deltas[j] \in Artifacts
  <2>1. j + 3 \in DOMAIN Order /\ Order[j + 3] = Deltas[j]
    BY <1>3, <1>4
  <2> QED BY <2>1, <1>6
<1> QED BY <1>2, <1>3, <1>4, <1>5, <1>6, <1>7 DEF ToSet

LEMMA FolderStarts == FolderInit => FolderInv
  BY FolderAssumption DEF FolderInit, FolderInv, FolderTypeOK, Mended, Absent, Torn, Artifacts, Order

LEMMA FolderStep == FolderInv /\ [FolderNext]_folderVars => FolderInv'
<1> SUFFICES ASSUME FolderInv, [FolderNext]_folderVars PROVE FolderInv'
  OBVIOUS
<1>0. /\ MaxWrites \in Nat /\ MaxFails \in Nat
      /\ \A i \in Nat : i <= Torn => i \in Absent..Torn
      /\ Absent \in Absent..Torn /\ Torn \in Absent..Torn
  BY FolderAssumption DEF Absent, Torn
<1>1. /\ folder \in [Artifacts -> Absent..Torn] /\ fails \in 0..MaxFails
      /\ write \in [number : 0..MaxWrites, change : SUBSET Artifacts, todo : SUBSET DOMAIN Order,
                    pc : {"clear", "write", "ok", "failed"}]
      /\ Mended
  BY DEF FolderInv, FolderTypeOK
<1>2. CASE BeginWrite
  <2>1. PICK change \in SUBSET Artifacts \ {{}} :
       write' = [number |-> write.number + 1, change |-> change, pc |-> "clear",
                 todo |-> {i \in DOMAIN Order : i <= Len(Documents) \/ Order[i] \in change}]
    BY <1>2 DEF BeginWrite
  <2> QED BY <1>0, <1>1, <1>2, <2>1 DEF BeginWrite, FolderInv, FolderTypeOK, Mended
<1>3. CASE ClearSpecs
  <2>1. \A a \in Artifacts : a \notin Waiting' => folder'[a] = Content(a)'
    <3> SUFFICES ASSUME NEW a \in Artifacts, a \notin Waiting' PROVE folder'[a] = Content(a)'
      OBVIOUS
    <3>1. PICK i \in DOMAIN Order : a = Order[i]
      BY OrderFacts
    <3>2. write'.todo = write.todo /\ i \notin write.todo /\ write'.change = write.change
      BY <1>1, <1>3, <3>1 DEF ClearSpecs, Waiting
    <3>3. i > 3 /\ a \notin write.change
      BY <1>1, <1>3, <3>1, <3>2, OrderFacts DEF ClearSpecs, Mended
    <3>4. a \in ToSet(Deltas)
      BY <3>1, <3>3, OrderFacts DEF ToSet
    <3> QED BY <1>1, <1>3, <3>2, <3>3, <3>4 DEF ClearSpecs, Cleared, Content
  <2>2. folder' \in [Artifacts -> Absent..Torn]
    BY <1>0, <1>1, <1>3 DEF ClearSpecs
  <2> QED BY <1>1, <1>3, <2>1, <2>2 DEF ClearSpecs, FolderInv, FolderTypeOK, Mended
<1>4. CASE WriteNext
  <2>1. PICK i \in write.todo : /\ folder' = [folder EXCEPT ![Order[i]] = Content(Order[i])]
                                /\ write' = [write EXCEPT !.todo = @ \ {i}]
    BY <1>4 DEF WriteNext
  <2>2. Order[i] \in Artifacts /\ write.pc = "write" /\ fails' = fails
    BY <1>1, <1>4, <2>1, OrderFacts DEF WriteNext
  <2>3. \A a \in Artifacts : Content(a)' = Content(a) /\ Content(a) \in Absent..Torn
    BY <1>0, <1>1, <2>1 DEF Content, Torn
  <2>4. folder' \in [Artifacts -> Absent..Torn]
    BY <1>1, <2>1, <2>3
  <2>5. ASSUME NEW a \in Artifacts, a \notin Waiting' PROVE folder'[a] = Content(a)'
    <3>1. a = Order[i] \/ a \notin Waiting
      BY <1>1, <2>1, <2>5 DEF Waiting
    <3> QED BY <1>1, <2>1, <2>2, <2>3, <3>1 DEF Mended
  <2> QED BY <1>1, <2>1, <2>2, <2>4, <2>5 DEF FolderInv, FolderTypeOK, Mended
<1>5. CASE Done
  <2>1. \A a \in Artifacts : folder[a] = Content(a)
    BY <1>1, <1>5, OrderFacts DEF Done, Mended, Waiting
  <2>2. folder' = folder /\ write'.change = write.change /\ write'.number = write.number
    BY <1>1, <1>5 DEF Done
  <2>3. folder' = [a \in Artifacts |-> Content(a)']
    BY <1>1, <2>1, <2>2 DEF Content
  <2> QED BY <1>1, <1>5, <2>3 DEF Done, FolderInv, FolderTypeOK, Mended
<1>6. CASE FolderFails
  <2>1. folder' \in [Artifacts -> Absent..Torn]
    <3>1. CASE write.pc = "clear"
      BY <1>0, <1>1, <1>6, <3>1 DEF FolderFails
    <3>2. CASE write.pc = "write"
      <4>1. \/ UNCHANGED folder
            \/ \E i \in write.todo : folder' = [folder EXCEPT ![Order[i]] = Torn]
        BY <1>6, <3>2 DEF FolderFails
      <4> QED BY <1>0, <1>1, <4>1
    <3> QED BY <3>1, <3>2, <1>6 DEF FolderFails
  <2>2. fails' \in 0..MaxFails /\ write' = [write EXCEPT !.pc = "failed"]
    BY <1>0, <1>1, <1>6 DEF FolderFails
  <2> QED BY <1>1, <2>1, <2>2 DEF FolderInv, FolderTypeOK, Mended
<1>7. CASE UNCHANGED folderVars
  BY <1>1, <1>7 DEF folderVars, FolderInv, FolderTypeOK, Mended, Waiting, Content
<1> QED BY <1>2, <1>3, <1>4, <1>5, <1>6, <1>7 DEF FolderNext

(* A write that succeeds leaves exactly its change (WriteChange).          *)
THEOREM FolderHolds == FolderSpec => []FolderIsTheChange
<1>1. FolderInv => FolderIsTheChange
  BY DEF FolderInv, Mended, FolderIsTheChange
<1> QED BY <1>1, FolderStarts, FolderStep, PTL DEF FolderSpec

-----------------------------------------------------------------------------
(* The task contract.                                                      *)

(* What an induction over numbers rests on here: a set of them has a least *)
(* element, so a claim that fails somewhere fails somewhere first.         *)
LEMMA LeastElement ==
  ASSUME NEW T \in SUBSET Nat, T # {}
  PROVE  \E x \in T : \A y \in T : x <= y
<1>1. PICK x \in T : \A y \in T : <<y, x>> \notin OpToRel(<, Nat)
  BY WFMin, NatLessThanWellFounded, Zenon
<1>2. \A y \in T : y \in Nat /\ (<<y, x>> \in OpToRel(<, Nat) <=> y < x)
  BY DEF OpToRel
<1>3. \A y \in T : y \in Nat /\ ~(y < x)
  BY <1>1, <1>2, Zenon
<1>4. \A y \in T : x <= y
  BY <1>3
<1> QED BY <1>4

(* A claim about the numbers up to n that holds of 0 and of every next one.*)
LEMMA UpTo ==
  ASSUME NEW n \in Nat, NEW H \in SUBSET (0..n), 0 \in H,
         \A i \in 1..n : i - 1 \in H => i \in H
  PROVE  H = 0..n
<1> DEFINE B == (0..n) \ H
<1>1. SUFFICES ASSUME B # {} PROVE FALSE
  BY <1>1
<1>2. PICK x \in B : \A y \in B : x <= y
  <2>1. B \in SUBSET Nat
    OBVIOUS
  <2> HIDE DEF B
  <2> QED BY <1>1, <2>1, LeastElement
<1>3. x \in 1..n /\ x - 1 \notin B
  BY <1>2
<1> QED BY <1>2, <1>3

(* FlattenSeq joins the members of s one after the other; f holds what is  *)
(* joined of the first i.                                                  *)
Joins(f, s) == f[0] = <<>> /\ \A i \in 1..Len(s) : f[i] = f[i - 1] \o s[i]

LEMMA FlattenFacts ==
  ASSUME NEW S, NEW s \in Seq(Seq(S))
  PROVE  \E f \in [0..Len(s) -> Seq(S)] : Joins(f, s) /\ FlattenSeq(s) = f[Len(s)]
<1> DEFINE Step(f, i) == IF i = 1 THEN s[i] ELSE f[i - 1] \o s[i]
           Good(f, n) == f = [i \in 1..n |-> Step(f, i)]
           Has(n)     == \E f : Good(f, n)
           Joint       == CHOOSE f : Good(f, Len(s))
<1>0. Len(s) \in Nat /\ \A i \in 1..Len(s) : s[i] \in Seq(S)
  OBVIOUS
<1>1. CASE Len(s) = 0
  <2>1. s = <<>> /\ FlattenSeq(s) = <<>>
    BY <1>1 DEF FlattenSeq
  <2> DEFINE f == [i \in 0..0 |-> <<>>]
  <2>2. f \in [0..Len(s) -> Seq(S)] /\ Joins(f, s) /\ f[Len(s)] = <<>>
    BY <1>1 DEF Joins
  <2> QED BY <2>1, <2>2
<1>2. CASE Len(s) # 0
  <2>1. Has(0)
    <3>1. Good([i \in {} |-> i], 0)
      OBVIOUS
    <3> QED BY <3>1
  <2>2. ASSUME NEW n \in 1..Len(s), Has(n - 1) PROVE Has(n)
    <3>1. PICK f : Good(f, n - 1)
      BY <2>2
    <3> DEFINE g == [i \in 1..n |-> IF i = n THEN Step(f, n) ELSE f[i]]
    <3>2. ASSUME NEW i \in 1..n PROVE g[i] = Step(g, i)
      <4>1. CASE i = n
        <5>1. n # 1 => g[n - 1] = f[n - 1]
          OBVIOUS
        <5> QED BY <4>1, <5>1
      <4>2. CASE i # n
        <5>1. i \in 1..(n - 1) /\ g[i] = f[i] /\ (i # 1 => g[i - 1] = f[i - 1])
          BY <4>2
        <5>2. f[i] = Step(f, i)
          BY <3>1, <5>1
        <5> QED BY <5>1, <5>2
      <4> QED BY <4>1, <4>2
    <3>3. Good(g, n)
      BY <3>2
    <3> QED BY <3>3
  <2>3. Has(Len(s))
    <3> HIDE DEF Has
    <3> DEFINE H == {n \in 0..Len(s) : Has(n)}
    <3>1. 0 \in H /\ \A i \in 1..Len(s) : i - 1 \in H => i \in H
      BY <2>1, <2>2, <1>0
    <3> HIDE DEF H
    <3>2. H = 0..Len(s)
      BY <3>1, <1>0, UpTo DEF H
    <3> QED BY <3>2, <1>0 DEF H
  <2>4. Good(Joint, Len(s))
    BY <2>3, Zenon
  <2>5. FlattenSeq(s) = Joint[Len(s)]
    BY <1>2, Zenon DEF FlattenSeq
  <2> DEFINE f == [i \in 0..Len(s) |-> IF i = 0 THEN <<>> ELSE Joint[i]]
  <2> HIDE DEF Joint
  <2>6. Joins(f, s)
    <3>1. ASSUME NEW i \in 1..Len(s) PROVE f[i] = f[i - 1] \o s[i]
      <4>1. Joint[i] = Step(Joint, i)
        BY <2>4
      <4>2. i = 1 => <<>> \o s[i] = s[i]
        BY <1>0
      <4>3. f[i] = Joint[i] /\ f[i - 1] = IF i = 1 THEN <<>> ELSE Joint[i - 1]
        BY <1>0
      <4> QED BY <4>1, <4>2, <4>3
    <3>2. f[0] = <<>>
      BY <1>0
    <3> HIDE DEF f
    <3> QED BY <3>1, <3>2 DEF Joins
  <2>7. f \in [0..Len(s) -> Seq(S)]
    <3> DEFINE H == {n \in 0..Len(s) : f[n] \in Seq(S)}
    <3>1. 0 \in H
      BY <1>0
    <3>2. ASSUME NEW i \in 1..Len(s), i - 1 \in H PROVE i \in H
      <4>1. f[i] = f[i - 1] \o s[i] /\ f[i - 1] \in Seq(S)
        BY <2>6, <3>2 DEF Joins
      <4> HIDE DEF f
      <4>2. f[i] \in Seq(S)
        BY <4>1, <1>0
      <4> QED BY <4>2
    <3> HIDE DEF f
    <3>3. H = 0..Len(s)
      <4> HIDE DEF H
      <4> QED BY <3>1, <3>2, <1>0, UpTo DEF H
    <3>4. \A i \in 0..Len(s) : f[i] \in Seq(S)
      BY <3>3
    <3> QED BY <3>4 DEF f
  <2>8. f[Len(s)] = FlattenSeq(s)
    BY <1>2, <1>0, <2>5
  <2> HIDE DEF f
  <2> QED BY <2>6, <2>7, <2>8
<1> QED BY <1>1, <1>2

(* What is said of each member is said of the whole: a map of the members' *)
(* elements is a map of the joined ones.                                   *)
Image(m, x) == [i \in 1..Len(x) |-> m[x[i]]]

LEMMA FlattenMaps ==
  ASSUME NEW S, NEW s \in Seq(Seq(S)), NEW m
  PROVE  FlattenSeq([k \in 1..Len(s) |-> Image(m, s[k])]) = Image(m, FlattenSeq(s))
<1> DEFINE T == {m[x] : x \in S}
           t == [k \in 1..Len(s) |-> Image(m, s[k])]
<1>a. t \in Seq(Seq(T)) /\ Len(t) = Len(s) /\ \A k \in 1..Len(s) : t[k] = Image(m, s[k])
  <2>1. ASSUME NEW x \in Seq(S) PROVE Image(m, x) \in Seq(T)
    BY DEF Image
  <2> QED BY <2>1
<1>b. \A x \in S : m[x] \in T
  OBVIOUS
<1> HIDE DEF t, T
<1> DEFINE Mapped(x) == [i \in 1..Len(x) |-> m[x[i]]]
<1>0. \A x : Image(m, x) = Mapped(x)
  BY DEF Image
<1>1. PICK f \in [0..Len(s) -> Seq(S)] : Joins(f, s) /\ FlattenSeq(s) = f[Len(s)]
  BY FlattenFacts
<1>2. PICK g \in [0..Len(t) -> Seq(T)] : Joins(g, t) /\ FlattenSeq(t) = g[Len(t)]
  BY <1>a, FlattenFacts
<1>3. ASSUME NEW x \in Seq(S), NEW y \in Seq(S) PROVE Mapped(x \o y) = Mapped(x) \o Mapped(y)
  <2> DEFINE mx == Mapped(x)
             my == Mapped(y)
             both == Mapped(x \o y)
  <2>1. mx \in Seq(T) /\ my \in Seq(T) /\ both \in Seq(T) /\ Len(mx) = Len(x) /\ Len(my) = Len(y)
    BY <1>b, Len(x \o y) = Len(x) + Len(y), Len(x) \in Nat, Len(y) \in Nat, x \o y \in Seq(S)
  <2>2. Len(both) = Len(x) + Len(y) /\ Len(mx \o my) = Len(mx) + Len(my) /\ mx \o my \in Seq(T)
    BY <2>1, Len(x \o y) = Len(x) + Len(y)
  <2>3. ASSUME NEW i \in 1..(Len(x) + Len(y)) PROVE both[i] = (mx \o my)[i]
    <3>0. both[i] = m[(x \o y)[i]]
      BY Len(x \o y) = Len(x) + Len(y)
    <3>1. (x \o y)[i] = IF i <= Len(x) THEN x[i] ELSE y[i - Len(x)]
      OBVIOUS
    <3>2. i <= Len(x) => mx[i] = m[x[i]]
      OBVIOUS
    <3>3. ~(i <= Len(x)) => my[i - Len(x)] = m[y[i - Len(x)]]
      OBVIOUS
    <3> HIDE DEF mx, my, both
    <3>4. (mx \o my)[i] = IF i <= Len(x) THEN mx[i] ELSE my[i - Len(x)]
      BY <2>1
    <3> QED BY <3>0, <3>1, <3>2, <3>3, <3>4
  <2> HIDE DEF mx, my, both
  <2>4. \A i \in 1..Len(both) : both[i] = (mx \o my)[i]
    BY <2>1, <2>2, <2>3
  <2>5. both = mx \o my
    BY <2>1, <2>2, <2>4, SeqEqual
  <2> QED BY <2>5 DEF mx, my, both
<1> DEFINE H == {n \in 0..Len(s) : g[n] = Mapped(f[n])}
<1>4. 0 \in H
  <2>1. f[0] = <<>> /\ g[0] = <<>>
    BY <1>1, <1>2 DEF Joins
  <2> QED BY <2>1
<1>5. ASSUME NEW n \in 1..Len(s), n - 1 \in H PROVE n \in H
  <2>0. n \in 0..Len(s) /\ n - 1 \in 0..Len(s) /\ Len(s) \in Nat /\ s[n] \in Seq(S)
    OBVIOUS
  <2>1. f[n] = f[n - 1] \o s[n] /\ f[n] \in Seq(S) /\ f[n - 1] \in Seq(S) /\ s[n] \in Seq(S)
    BY <1>1, <2>0, Zenon DEF Joins
  <2>2. g[n] = g[n - 1] \o t[n]
    BY <1>2, <1>a DEF Joins
  <2>3. g[n - 1] = Mapped(f[n - 1]) /\ t[n] = Mapped(s[n])
    <3>1. t[n] = Image(m, s[n])
      BY <1>a
    <3> QED BY <1>5, <3>1 DEF Image
  <2> HIDE DEF Mapped
  <2>4. g[n] = Mapped(f[n])
    BY <2>1, <2>2, <2>3, <1>3
  <2> QED BY <2>4
<1>6. H = 0..Len(s)
  <2>1. H \in SUBSET (0..Len(s)) /\ Len(s) \in Nat
    OBVIOUS
  <2> HIDE DEF H
  <2> QED BY <1>4, <1>5, <2>1, UpTo
<1> HIDE DEF Mapped
<1>7. g[Len(s)] = Mapped(f[Len(s)])
  BY <1>6
<1>8. FlattenSeq(t) = Image(m, FlattenSeq(s))
  BY <1>0, <1>1, <1>2, <1>7, <1>a, Zenon
<1> QED BY <1>8 DEF t

(* The joined sequence is of the members' elements, and no longer than     *)
(* they allow.                                                             *)
LEMMA FlattenBound ==
  ASSUME NEW S, NEW s \in Seq(Seq(S)), NEW b \in Nat, \A k \in 1..Len(s) : Len(s[k]) <= b
  PROVE  FlattenSeq(s) \in Seq(S) /\ Len(FlattenSeq(s)) <= Len(s) * b
<1>1. PICK f \in [0..Len(s) -> Seq(S)] : Joins(f, s) /\ FlattenSeq(s) = f[Len(s)]
  BY FlattenFacts
<1> DEFINE H == {n \in 0..Len(s) : Len(f[n]) <= n * b}
<1>2. 0 \in H
  BY <1>1 DEF Joins
<1>3. ASSUME NEW n \in 1..Len(s), n - 1 \in H PROVE n \in H
  <2>0. n \in 0..Len(s) /\ n - 1 \in 0..Len(s) /\ Len(s) \in Nat /\ s[n] \in Seq(S)
    OBVIOUS
  <2>1. f[n] = f[n - 1] \o s[n] /\ f[n] \in Seq(S) /\ f[n - 1] \in Seq(S) /\ s[n] \in Seq(S)
    BY <1>1, <2>0, Zenon DEF Joins
  <2> DEFINE p == (n - 1) * b
             q == n * b
  <2>2. Len(f[n]) = Len(f[n - 1]) + Len(s[n]) /\ Len(f[n - 1]) <= p /\ Len(s[n]) <= b
    BY <1>3, <2>1
  <2>3. \A x \in Nat : (x - 1) * b \in Int /\ x * b \in Int /\ (x - 1) * b + b = x * b
    OBVIOUS
  <2>4. p \in Int /\ q \in Int /\ p + b = q
    BY <2>0, <2>3
  <2>5. Len(f[n - 1]) \in Nat /\ Len(s[n]) \in Nat
    BY <2>1
  <2> HIDE DEF p, q, H
  <2>6. Len(f[n]) <= q
    <3>1. \A x, y \in Nat : x <= p /\ y <= b => x + y <= p + b
      BY <2>4
    <3>2. Len(f[n - 1]) + Len(s[n]) <= p + b
      BY <2>2, <2>5, <3>1, Zenon
    <3> QED BY <2>2, <2>4, <3>2, Zenon
  <2> QED BY <2>0, <2>6 DEF q, H
<1>4. H = 0..Len(s)
  <2>1. H \in SUBSET (0..Len(s)) /\ Len(s) \in Nat
    OBVIOUS
  <2> HIDE DEF H
  <2> QED BY <1>2, <1>3, <2>1, UpTo
<1> QED BY <1>1, <1>4

(* What an author may have supplied, within the bounds; and until it is    *)
(* projected, the stored change reads back as what was supplied.           *)
Supplied == Tasks \cup {Whole}
Fitting ==
  /\ payload \in Seq(Seq(Supplied)) /\ Len(payload) <= MaxSections
  /\ \A k \in 1..Len(payload) : Len(payload[k]) <= MaxItems
ReadsBack == stage = "authored" => RawTasks = FlattenSeq(payload)

TaskInv == TasksTypeOK /\ Fitting /\ ReadsBack /\ FrozenAsAuthored

LEMMA TaskFields ==
  ASSUME NEW t \in Supplied
  PROVE  /\ t = [goal |-> t.goal, assumptions |-> t.assumptions, non_goals |-> t.non_goals,
                 target_files |-> t.target_files, test_command |-> t.test_command,
                 budget |-> t.budget]
         /\ t.goal \in {"blank", "said"} /\ t.assumptions \in Lists /\ t.non_goals \in Lists
         /\ t.target_files \in SUBSET {"blank", "code", "test"}
         /\ t.test_command \in {"blank", "go test", "other"} /\ t.budget \in SUBSET Int
<1>1. CASE t \in Tasks
  BY <1>1, TaskSpecsAssumption DEF Tasks
<1>2. CASE t = Whole
  <2>1. /\ Whole = [goal |-> Whole.goal, assumptions |-> Whole.assumptions,
                    non_goals |-> Whole.non_goals, target_files |-> Whole.target_files,
                    test_command |-> Whole.test_command, budget |-> Whole.budget]
    BY DEF Whole
  <2>2. /\ Whole.goal = "said" /\ Whole.assumptions = "some" /\ Whole.non_goals = "some"
        /\ Whole.target_files = {"code", "test"} /\ Whole.test_command = "go test"
        /\ Whole.budget = {3}
    BY DEF Whole
  <2>3. {3} \in SUBSET Int /\ {"code", "test"} \in SUBSET {"blank", "code", "test"}
    OBVIOUS
  <2>4. "some" \in Lists
    BY DEF Lists
  <2> HIDE DEF Whole
  <2> QED BY <1>2, <2>1, <2>2, <2>3, <2>4
<1> QED BY <1>1, <1>2 DEF Supplied

LEMMA TasksStart == SpecInit => TaskInv
<1> SUFFICES ASSUME SpecInit PROVE TaskInv
  OBVIOUS
<1>1. payload = <<>> /\ document = [sections |-> <<>>, rich |-> <<>>] /\ stage = "none"
  BY DEF SpecInit
<1>2. MaxSections \in Nat /\ MaxItems \in Nat /\ 0 <= MaxSections * MaxItems
  BY TaskSpecsAssumption
<1>3. TasksTypeOK
  BY <1>1, <1>2 DEF TasksTypeOK
<1>4. Fitting
  BY <1>1, <1>2 DEF Fitting
<1>5. ReadsBack /\ FrozenAsAuthored
  BY <1>1 DEF ReadsBack, FrozenAsAuthored
<1> QED BY <1>3, <1>4, <1>5 DEF TaskInv

LEMMA SupplyStep == TaskInv /\ Supply => TaskInv'
<1> SUFFICES ASSUME TaskInv, Supply PROVE TaskInv'
  OBVIOUS
<1>1. /\ stage' = "called" /\ UNCHANGED <<document, spec>>
  BY DEF Supply
<1>2. PICK t \in Tasks, shape \in SeqOf(0..MaxItems, MaxSections) :
        payload' = [s \in DOMAIN shape |->
                     [i \in 1..shape[s] |-> IF i = shape[s] THEN t ELSE Whole]]
  BY DEF Supply
<1>3. PICK m \in 0..MaxSections : shape \in [1..m -> 0..MaxItems]
  BY <1>2 DEF SeqOf
<1>4. MaxSections \in Nat /\ MaxItems \in Nat /\ m \in Nat /\ t \in Supplied /\ Whole \in Supplied
  BY TaskSpecsAssumption, <1>3 DEF Supplied
<1>5. payload' = [s \in 1..m |-> [i \in 1..shape[s] |-> IF i = shape[s] THEN t ELSE Whole]]
  BY <1>2, <1>3
<1>6. ASSUME NEW s \in 1..m
      PROVE  payload'[s] \in Seq(Supplied) /\ Len(payload'[s]) <= MaxItems
  <2>1. shape[s] \in 0..MaxItems
    BY <1>3, <1>6
  <2>2. payload'[s] = [i \in 1..shape[s] |-> IF i = shape[s] THEN t ELSE Whole]
    BY <1>5
  <2> QED BY <1>4, <2>1, <2>2
<1>7. payload' \in Seq(Seq(Supplied)) /\ Len(payload') = m
  BY <1>4, <1>5, <1>6
<1>8. Fitting'
  BY <1>3, <1>4, <1>6, <1>7 DEF Fitting
<1>9. TasksTypeOK'
  BY <1>1, <1>6, <1>7, TaskSpecsAssumption DEF TaskInv, TasksTypeOK, Supplied
<1>10. ReadsBack' /\ FrozenAsAuthored'
  BY <1>1 DEF ReadsBack, FrozenAsAuthored
<1> QED BY <1>8, <1>9, <1>10 DEF TaskInv

(* The stored change reads back as what was supplied.                      *)
LEMMA CreateStep == TaskInv /\ CreateChange => TaskInv'
<1> SUFFICES ASSUME TaskInv, CreateChange PROVE TaskInv'
  OBVIOUS
<1> DEFINE flat  == FlattenSeq(payload)
           goals == [k \in DOMAIN payload |-> [i \in DOMAIN payload[k] |-> payload[k][i].goal]]
           texts == FlattenSeq(goals)
           goal  == [t \in Supplied |-> t.goal]
<1>1. stage = "called" /\ stage' = "authored" /\ UNCHANGED <<payload, spec>>
  BY DEF CreateChange
<1>2. document' = [sections |-> goals,
                   rich |-> [i \in DOMAIN flat |->
                     [index |-> i - 1,
                      task |-> [flat[i] EXCEPT !.assumptions = Stored(@), !.non_goals = Stored(@)]]]]
  BY DEF CreateChange
<1>3. /\ payload \in Seq(Seq(Supplied)) /\ Len(payload) <= MaxSections
      /\ \A k \in 1..Len(payload) : Len(payload[k]) <= MaxItems
  BY DEF TaskInv, Fitting
<1>4. flat \in Seq(Supplied) /\ Len(flat) <= Len(payload) * MaxItems
  BY <1>3, TaskSpecsAssumption, FlattenBound
<1>5. texts = [i \in 1..Len(flat) |-> goal[flat[i]]]
  <2>1. ASSUME NEW k \in 1..Len(payload)
        PROVE  [i \in DOMAIN payload[k] |-> payload[k][i].goal] = Image(goal, payload[k])
    <3>1. payload[k] \in Seq(Supplied)
      BY <1>3
    <3> QED BY <3>1 DEF Image
  <2>2. DOMAIN payload = 1..Len(payload)
    BY <1>3
  <2>3. goals = [k \in 1..Len(payload) |-> Image(goal, payload[k])]
    BY <2>1, <2>2
  <2> HIDE DEF goals, goal
  <2>4. FlattenSeq(goals) = Image(goal, FlattenSeq(payload))
    <3>1. payload \in Seq(Seq(Supplied))
      BY <1>3
    <3> QED BY <2>3, <3>1, FlattenMaps, Zenon
  <2> QED BY <2>4 DEF Image
<1>6. RawTasks' = flat
  <2> DEFINE d    == document'
             read == [i \in DOMAIN d.rich |->
                       [d.rich[i].task EXCEPT !.goal = FlattenSeq(d.sections)[d.rich[i].index + 1]]]
  <2>1. RawTasks' = read
    BY DEF RawTasks
  <2>2. DOMAIN flat = 1..Len(flat) /\ Len(flat) \in Nat
    BY <1>4
  <2>3. /\ FlattenSeq(d.sections) = texts /\ DOMAIN d.rich = 1..Len(flat)
        /\ \A i \in 1..Len(flat) : d.rich[i] =
             [index |-> i - 1,
              task |-> [flat[i] EXCEPT !.assumptions = Stored(@), !.non_goals = Stored(@)]]
    BY <1>2, <2>2
  <2>4. ASSUME NEW i \in 1..Len(flat) PROVE read[i] = flat[i]
    <3>1. flat[i] \in Supplied
      BY <1>4
    <3>2. texts[i] = flat[i].goal
      BY <1>5, <3>1
    <3> HIDE DEF flat, texts
    <3>3. d.rich[i].index + 1 = i /\ d.rich[i].task =
            [flat[i] EXCEPT !.assumptions = flat[i].assumptions, !.non_goals = flat[i].non_goals]
      <4>1. d.rich[i] = [index |-> i - 1,
              task |-> [flat[i] EXCEPT !.assumptions = Stored(@), !.non_goals = Stored(@)]]
        BY <2>3, Zenon
      <4>2. d.rich[i].index = i - 1 /\ d.rich[i].task =
              [flat[i] EXCEPT !.assumptions = Stored(@), !.non_goals = Stored(@)]
        BY <4>1
      <4> QED BY <4>2 DEF Stored
    <3>4. d.rich[i].task = flat[i]
      BY <3>1, <3>3, TaskFields
    <3>5. read[i] = [flat[i] EXCEPT !.goal = flat[i].goal]
      BY <2>3, <3>2, <3>3, <3>4
    <3> QED BY <3>1, <3>5, TaskFields
  <2>5. read = [i \in 1..Len(flat) |-> read[i]]
    BY <2>3
  <2>6. flat = [i \in 1..Len(flat) |-> flat[i]]
    BY <2>2, <1>4
  <2> HIDE DEF read, flat
  <2> QED BY <2>1, <2>4, <2>5, <2>6
<1>7. TasksTypeOK'
  <2>1. Len(document'.sections) = Len(payload) /\ Len(document'.rich) = Len(flat)
    <3>1. /\ document'.sections = goals
          /\ document'.rich = [i \in DOMAIN flat |->
                [index |-> i - 1,
                 task |-> [flat[i] EXCEPT !.assumptions = Stored(@), !.non_goals = Stored(@)]]]
      BY <1>2
    <3>2. DOMAIN payload = 1..Len(payload) /\ Len(payload) \in Nat
      BY <1>3
    <3>3. DOMAIN flat = 1..Len(flat) /\ Len(flat) \in Nat
      BY <1>4
    <3>4. Len(goals) = Len(payload)
      BY <3>2
    <3>5. Len(document'.sections) = Len(payload)
      BY <3>1, <3>4, Zenon
    <3> HIDE DEF flat, goals
    <3>6. Len(document'.rich) = Len(flat)
      <4> DEFINE r == document'.rich
                 l == Len(flat)
      <4>1. DOMAIN r = 1..l /\ l \in Nat /\ \E e : r = [i \in 1..l |-> e[i]]
        BY <3>1, <3>3
      <4> HIDE DEF r, l
      <4>2. Len(r) = l
        BY <4>1
      <4> QED BY <4>2 DEF r, l
    <3> QED BY <3>5, <3>6, Zenon
  <2>2. Len(payload) * MaxItems <= MaxSections * MaxItems
    <3>1. \A a, b, c \in Nat : a <= b => a * c <= b * c
      OBVIOUS
    <3>2. Len(payload) \in Nat /\ MaxSections \in Nat /\ MaxItems \in Nat
      BY <1>3, TaskSpecsAssumption
    <3> QED BY <1>3, <3>1, <3>2, Zenon
  <2>3. Len(flat) <= MaxSections * MaxItems
    <3> HIDE DEF flat
    <3>1. Len(flat) \in Nat /\ Len(payload) * MaxItems \in Int /\ MaxSections * MaxItems \in Int
      BY <1>3, <1>4, TaskSpecsAssumption DEF flat
    <3>2. \A a, b, c \in Int : a <= b /\ b <= c => a <= c
      OBVIOUS
    <3> QED BY <1>4, <2>2, <3>1, <3>2 DEF flat
  <2> QED BY <1>1, <1>3, <2>1, <2>3 DEF TaskInv, TasksTypeOK
<1>8. Fitting'
  BY <1>1, <1>3 DEF Fitting
<1>9. ReadsBack'
  BY <1>1, <1>6 DEF ReadsBack
<1>10. FrozenAsAuthored'
  BY <1>1 DEF FrozenAsAuthored
<1> QED BY <1>7, <1>8, <1>9, <1>10 DEF TaskInv

(* A change is projected when its one task lacks nothing, and its task is  *)
(* then the author's.                                                      *)
Complete(tasks) ==
  /\ Len(tasks) = 1
  /\ "missing" \notin {tasks[1].assumptions, tasks[1].non_goals}
  /\ "blank" \notin {tasks[1].goal, tasks[1].test_command}
  /\ tasks[1].budget # {}
  /\ tasks[1].target_files \cap {"code", "test"} # {}
  /\ tasks[1].test_command = "go test" => "test" \in tasks[1].target_files
AsAuthored(s, t) ==
  /\ [s EXCEPT !.budget = t.budget] = t
  /\ s.budget \subseteq 1..5 /\ (t.budget \subseteq 1..5 => s.budget = t.budget)

LEMMA Accepted ==
  ASSUME NEW tasks \in Seq(Supplied)
  PROVE  Complete(tasks) <=>
           Len(tasks) = 1 /\ \A i \in DOMAIN tasks : Gapless(tasks[i]) /\ TestIsWritable(tasks[i])
<1>1. ASSUME NEW t \in Supplied
      PROVE  Gapless(t) <=> /\ "missing" \notin {t.assumptions, t.non_goals}
                            /\ "blank" \notin {t.goal, t.test_command} /\ t.budget # {}
                            /\ t.target_files \cap {"code", "test"} # {}
  <2>1. t.target_files \ {"blank"} # {} <=> t.target_files \cap {"code", "test"} # {}
    BY TaskFields
  <2> QED BY <2>1 DEF Gapless
<1>2. CASE Len(tasks) = 1
  <2>1. DOMAIN tasks = 1..Len(tasks) /\ 1..1 = {1} /\ (1 \in 1..Len(tasks) => tasks[1] \in Supplied)
    OBVIOUS
  <2> QED BY <1>1, <1>2, <2>1 DEF Complete, TestIsWritable
<1>3. CASE Len(tasks) # 1
  BY <1>3 DEF Complete
<1> QED BY <1>2, <1>3

LEMMA Clamped ==
  ASSUME NEW t \in Supplied
  PROVE  AsAuthored([t EXCEPT !.budget = {ClampBudget(n) : n \in t.budget}], t)
<1> DEFINE c == {ClampBudget(n) : n \in t.budget}
           s == [t EXCEPT !.budget = c]
<1>1. t.budget \in SUBSET Int
  BY TaskFields
<1>2. \A n \in Int : ClampBudget(n) \in 1..5 /\ (n \in 1..5 => ClampBudget(n) = n)
  BY DEF ClampBudget
<1>3. c \subseteq 1..5
  BY <1>1, <1>2
<1>4. t.budget \subseteq 1..5 => c = t.budget
  BY <1>1, <1>2
<1> HIDE DEF c
<1>5. PICK g, a, n, f, x, b :
        t = [goal |-> g, assumptions |-> a, non_goals |-> n, target_files |-> f,
             test_command |-> x, budget |-> b]
  <2>1. t = [goal |-> t.goal, assumptions |-> t.assumptions, non_goals |-> t.non_goals,
             target_files |-> t.target_files, test_command |-> t.test_command, budget |-> t.budget]
    BY TaskFields
  <2> QED BY <2>1
<1>6. s.budget = c /\ [s EXCEPT !.budget = t.budget] = t
  BY <1>5
<1> HIDE DEF s
<1>7. AsAuthored(s, t)
  BY <1>3, <1>4, <1>6 DEF AsAuthored
<1> QED BY <1>7 DEF s, c

LEMMA ProjectStep == TaskInv /\ Project => TaskInv'
<1> SUFFICES ASSUME TaskInv, Project PROVE TaskInv'
  OBVIOUS
<1> DEFINE flat == FlattenSeq(payload)
           ok   == Len(flat) = 1 /\ \A i \in DOMAIN flat : Gapless(flat[i]) /\ TestIsWritable(flat[i])
           frozen == [flat[1] EXCEPT !.budget = {ClampBudget(n) : n \in @}]
<1>1. stage = "authored" /\ UNCHANGED <<payload, document>>
  BY DEF Project
<1>2. RawTasks = flat
  BY <1>1 DEF TaskInv, ReadsBack
<1>3. IF ok THEN spec' = frozen /\ stage' = "frozen" ELSE stage' = "refused" /\ UNCHANGED spec
  BY <1>2, Zenon DEF Project
<1>4. flat \in Seq(Supplied)
  BY TaskSpecsAssumption, FlattenBound DEF TaskInv, Fitting
<1>5. ok <=> Complete(flat)
  BY <1>4, Accepted, Zenon
<1>6. CASE ok
  <2>1. spec' = frozen /\ stage' = "frozen" /\ Len(flat) = 1
    BY <1>3, <1>6
  <2>2. flat[1] \in Supplied
    BY <1>4, <2>1
  <2>3. AsAuthored(frozen, flat[1])
    BY <2>2, Clamped, Zenon
  <2>4. FrozenAsAuthored'
    <3> HIDE DEF frozen, ok
    <3>1. AsAuthored(spec', FlattenSeq(payload')[1]) /\ Complete(FlattenSeq(payload'))
      BY <1>1, <1>5, <1>6, <2>1, <2>3
    <3>2. FrozenAsAuthored' <=>
            /\ stage' \in {"frozen", "refused"} => (stage' = "frozen" <=> Complete(FlattenSeq(payload')))
            /\ stage' = "frozen" => AsAuthored(spec', FlattenSeq(payload')[1])
      BY Zenon DEF FrozenAsAuthored, Complete, AsAuthored
    <3> QED BY <2>1, <3>1, <3>2
  <2> QED BY <1>1, <2>1, <2>4 DEF TaskInv, TasksTypeOK, Fitting, ReadsBack
<1>7. CASE ~ok
  <2>1. stage' = "refused"
    BY <1>3, <1>7
  <2>2. FrozenAsAuthored'
    <3> HIDE DEF ok
    <3>1. ~Complete(FlattenSeq(payload'))
      BY <1>1, <1>5, <1>7
    <3>2. FrozenAsAuthored' <=>
            /\ stage' \in {"frozen", "refused"} => (stage' = "frozen" <=> Complete(FlattenSeq(payload')))
            /\ stage' = "frozen" => AsAuthored(spec', FlattenSeq(payload')[1])
      BY Zenon DEF FrozenAsAuthored, Complete, AsAuthored
    <3> QED BY <2>1, <3>1, <3>2
  <2> QED BY <1>1, <2>1, <2>2 DEF TaskInv, TasksTypeOK, Fitting, ReadsBack
<1> QED BY <1>6, <1>7

LEMMA TasksHold == TaskSpec => []TaskInv
<1>1. TaskInv /\ UNCHANGED specVars => TaskInv'
  <2> SUFFICES ASSUME TaskInv, UNCHANGED specVars PROVE TaskInv'
    OBVIOUS
  <2>1. UNCHANGED <<payload, document, spec, stage>>
    BY DEF specVars
  <2>2. TasksTypeOK' /\ Fitting' /\ ReadsBack'
    BY <2>1 DEF TaskInv, TasksTypeOK, Fitting, ReadsBack, RawTasks
  <2>3. FrozenAsAuthored'
    BY <2>1, Zenon DEF TaskInv, FrozenAsAuthored
  <2> QED BY <2>2, <2>3 DEF TaskInv
<1>2. TaskInv /\ [SpecNext]_specVars => TaskInv'
  BY <1>1, SupplyStep, CreateStep, ProjectStep DEF SpecNext
<1> QED BY <1>2, TasksStart, PTL DEF TaskSpec

(* FrozenAsAuthored: create_change, the stored document and the projector  *)
(* (payload.go, document.go, projecttasks.go, project.go) hand on exactly  *)
(* what the author supplied, whatever the number of sections and tasks.    *)
THEOREM FrozenHolds == TaskSpec => []FrozenAsAuthored
<1>1. TaskInv => FrozenAsAuthored
  BY DEF TaskInv
<1> QED BY <1>1, TasksHold, PTL
=============================================================================
