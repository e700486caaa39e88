----------------------------- MODULE GraphWriter -----------------------------
(***************************************************************************)
(* graphown.Writer.Replace: how the Go writers put facts on an entity the  *)
(* rules and other writers write too.                                      *)
(*                                                                         *)
(* The mutation client reads the entity and writes it back against the     *)
(* revision it read; semdev's seam decides which failures another attempt  *)
(* converges on and when to give up.  A request may be refused, find the   *)
(* revision gone, land without its answer, or land long after its caller   *)
(* stopped waiting.  The client and the graph are external.                *)
(***************************************************************************)
EXTENDS Naturals, FiniteSets

CONSTANTS
  Owners, Entities, Facts,
  Group,       \* the facts each owner's contract groups, per entity; {} if none
  RuleFacts,   \* facts the rule engine adds or removes, whoever stamps them
  ReplaceTries, TransportTries,  \* replaceAttempts, transportAttempts
  MaxAsks,     \* bound: calls
  MaxRules,    \* bound: rule writes
  MaxFlaws     \* bound: requests that go astray

ASSUME WriterAssumption ==
  /\ Entities # {} /\ Group \in [Owners -> [Entities -> SUBSET Facts]]
  /\ RuleFacts \subseteq Facts
  /\ {ReplaceTries, TransportTries} \subseteq Nat \ {0}
  /\ {MaxAsks, MaxRules, MaxFlaws} \subseteq Nat

Free   == 0
ByRule == MaxAsks + 1
Values == 1..(MaxAsks + 1)

VARIABLES facts, revision, asked, done, attempt, astray, counts
writerVars == <<facts, revision, asked, done, attempt, astray, counts>>

(* astray: requests whose caller has given up waiting for the answer.      *)
Rest == [pc |-> "rest", number |-> 0, kind |-> "none", fence |-> 0, read |-> [p \in Facts |-> Free]]

WriterInit ==
  /\ facts = [e \in Entities |-> [p \in Facts |-> Free]]
  /\ revision = [e \in Entities |-> 0]
  /\ asked = [o \in Owners |-> [on |-> CHOOSE e \in Entities : TRUE, value |-> Free, set |-> {}]]
  /\ done = [o \in Owners |-> "ok"]
  /\ attempt = [o \in Owners |-> Rest]
  /\ astray = {}
  /\ counts = [asks |-> 0, rules |-> 0, flaws |-> 0]

Spend(what, max) == counts[what] < max /\ counts' = [counts EXCEPT ![what] = @ + 1]

(* ContractFor: exactly one of the owner's contracts claims the entity.    *)
Claims(o, e) == Group[o][e] # {}

(* A call; one onto an entity the owner has no contract for is refused     *)
(* before any request.                                                     *)
Replace(o) ==
  /\ attempt[o].pc = "rest" /\ Spend("asks", MaxAsks)
  /\ \E e \in Entities : \E s \in SUBSET Group[o][e] :
       /\ asked' = [asked EXCEPT ![o] = [on |-> e, value |-> counts.asks + 1, set |-> s]]
       /\ done' = [done EXCEPT ![o] = "none"]
       /\ attempt' = [attempt EXCEPT ![o] =
            IF Claims(o, e) THEN [Rest EXCEPT !.pc = "read", !.number = 1]
            ELSE [Rest EXCEPT !.pc = "failed", !.number = 1, !.kind = "unclaimed"]]
  /\ UNCHANGED <<facts, revision, astray>>

Read(o) ==
  /\ attempt[o].pc = "read"
  /\ LET e == asked[o].on
     IN  attempt' = [attempt EXCEPT ![o].pc = "write", ![o].fence = revision[e],
                                    ![o].read = facts[e]]
  /\ UNCHANGED <<facts, revision, asked, done, astray, counts>>

(* The whole group is replaced in what was read: what desired does not     *)
(* supply is deleted.                                                      *)
WithGroup(o, a, f) ==
  [p \in Facts |-> IF p \notin Group[o][a.on] THEN f[p]
                   ELSE IF p \in a.set THEN a.value ELSE Free]

FencedNever(e, fence) == TRUE
Fenced(e, fence) == revision[e] = fence

Lands(o, a, fence, read) ==
  /\ Fenced(a.on, fence)
  /\ facts' = [facts EXCEPT ![a.on] = WithGroup(o, a, read)]
  /\ revision' = [revision EXCEPT ![a.on] = @ + 1]

Failed(o, kind) == attempt' = [attempt EXCEPT ![o].pc = "failed", ![o].kind = kind]

(* The write lands, and is answered or not.                                *)
WriteLands(o) ==
  /\ attempt[o].pc = "write"
  /\ Lands(o, asked[o], attempt[o].fence, attempt[o].read)
  /\ \/ /\ attempt' = [attempt EXCEPT ![o] = Rest]
        /\ done' = [done EXCEPT ![o] = "ok"] /\ UNCHANGED counts
     \/ Failed(o, "commit-unknown") /\ Spend("flaws", MaxFlaws) /\ UNCHANGED done
  /\ UNCHANGED <<asked, astray>>

WriteConflicts(o) ==
  /\ attempt[o].pc = "write" /\ ~Fenced(asked[o].on, attempt[o].fence)
  /\ Failed(o, "revision-conflict")
  /\ UNCHANGED <<facts, revision, asked, done, astray, counts>>

(* It is refused, or still under way when its caller stops waiting.        *)
WriteFails(o) ==
  /\ attempt[o].pc = "write" /\ Spend("flaws", MaxFlaws)
  /\ \/ \E k \in {"unavailable", "invalid"} : Failed(o, k) /\ UNCHANGED astray
     \/ /\ Failed(o, "commit-unknown")
        /\ astray' = astray \cup {[by |-> o, ask |-> asked[o],
                                   fence |-> attempt[o].fence, read |-> attempt[o].read]}
  /\ UNCHANGED <<facts, revision, asked, done>>

Write(o) == WriteLands(o) \/ WriteConflicts(o) \/ WriteFails(o)

(* A request nobody waits for any more reaches the graph, or never does.   *)
Deliver ==
  /\ \E r \in astray :
       /\ astray' = astray \ {r}
       /\ \/ Lands(r.by, r.ask, r.fence, r.read)
          \/ UNCHANGED <<facts, revision>>
  /\ UNCHANGED <<asked, done, attempt, counts>>

Convergent(kind) == kind \in {"revision-conflict", "unavailable", "commit-unknown"}
BoundOneMore(kind) == 1 + IF kind = "revision-conflict" THEN ReplaceTries ELSE TransportTries
Bound(kind) == IF kind = "revision-conflict" THEN ReplaceTries ELSE TransportTries

(* After a failure: another attempt from a new read, or the error, which   *)
(* also ends a call cancelled while it backs off.                          *)
GivesUp == "error"

AfterFailure(o) ==
  /\ attempt[o].pc = "failed"
  /\ LET t == attempt[o]
         again == Convergent(t.kind) /\ t.number < Bound(t.kind)
     IN  \/ /\ again
            /\ attempt' = [attempt EXCEPT ![o] =
                 [Rest EXCEPT !.pc = "read", !.number = t.number + 1]]
            /\ UNCHANGED <<done, counts>>
         \/ /\ IF again THEN t.kind # "revision-conflict" /\ Spend("flaws", MaxFlaws)
               ELSE UNCHANGED counts
            /\ attempt' = [attempt EXCEPT ![o] = Rest]
            /\ done' = [done EXCEPT ![o] = GivesUp]
  /\ UNCHANGED <<facts, revision, asked, astray>>

(* The rule engine's add_triple and remove_triple on the same entity.      *)
RuleWrites ==
  /\ Spend("rules", MaxRules)
  /\ \E e \in Entities, p \in RuleFacts, v \in {ByRule, Free} :
       /\ facts[e][p] # v
       /\ facts' = [facts EXCEPT ![e][p] = v]
       /\ revision' = [revision EXCEPT ![e] = @ + 1]
  /\ UNCHANGED <<asked, done, attempt, astray>>

WriterNext ==
  \/ Deliver \/ RuleWrites
  \/ \E o \in Owners : Replace(o) \/ Read(o) \/ Write(o) \/ AfterFailure(o)

WriterSpec == WriterInit /\ [][WriterNext]_writerVars

-----------------------------------------------------------------------------
(* The state stays within its types, and no call makes more requests than  *)
(* the wider of the two retry bounds.                                      *)
WriterTypeOK ==
  /\ facts \in [Entities -> [Facts -> 0..ByRule]]
  /\ revision \in [Entities -> Nat]
  /\ done \in [Owners -> {"none", "ok", "error"}]
  /\ \A o \in Owners : /\ asked[o].on \in Entities
                       /\ \E n \in {ReplaceTries, TransportTries} : attempt[o].number <= n

(* Requests that may still take effect although their call has failed, or  *)
(* a later call of their owner has begun.                                  *)
Unheard(r) == /\ r.fence = revision[r.ask.on]
              /\ r.ask # asked[r.by] \/ done[r.by] = "error"
Loose == {[by |-> r.by, ask |-> r.ask] : r \in {r \in astray : Unheard(r)}}

(* Replace implements an atomic set of the owner's group: other owners'    *)
(* facts on the entity survive every interleaving, "ok" is answered only   *)
(* by a step that set the group, and a request left behind by a call that  *)
(* failed is fenced off by the next write of the entity.                   *)
Store == INSTANCE GroupStore WITH loose <- Loose
ImplementsGroupStore == Store!StoreSpec
=============================================================================
