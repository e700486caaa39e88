------------------------------ MODULE GroupStore ------------------------------
(***************************************************************************)
(* What a fact writer promises.  While a call is in flight it sets its     *)
(* owner's whole group on one entity, perhaps more than once, each time in *)
(* one step that touches no other fact; it answers "ok" only in such a     *)
(* step.  A call that failed may take effect later, at most once and only  *)
(* until the entity is next written by anyone.                             *)
(***************************************************************************)
CONSTANTS Owners, Entities, Facts, Group, Values, Free

(* asked: the call an owner has in flight or last made; done: its answer;  *)
(* loose: failed calls that may still take effect.                         *)
VARIABLES facts, asked, done, loose
storeVars == <<facts, asked, done, loose>>

StoreInit ==
  /\ facts = [e \in Entities |-> [p \in Facts |-> Free]]
  /\ asked \in [Owners -> {[on |-> e, value |-> Free, set |-> {}] : e \in Entities}]
  /\ done = [o \in Owners |-> "ok"]
  /\ loose = {}

Ask(o) ==
  /\ done[o] # "none"
  /\ \E e \in Entities, v \in Values : \E s \in SUBSET Group[o][e] :
       asked' = [asked EXCEPT ![o] = [on |-> e, value |-> v, set |-> s]]
  /\ done' = [done EXCEPT ![o] = "none"]
  /\ UNCHANGED <<facts, loose>>

SetGroup(o, ask, f) ==
  [p \in Facts |-> IF p \notin Group[o][ask.on] THEN f[p]
                   ELSE IF p \in ask.set THEN ask.value ELSE Free]

Written(o, ask) ==
  /\ facts' = [facts EXCEPT ![ask.on] = SetGroup(o, ask, @)]
  /\ loose' = {l \in loose : l.ask.on # ask.on}

Set(o) ==
  /\ done[o] = "none" /\ Written(o, asked[o])
  /\ \E d \in {"none", "ok"} : done' = [done EXCEPT ![o] = d]
  /\ UNCHANGED asked

Fail(o) ==
  /\ done[o] = "none" /\ done' = [done EXCEPT ![o] = "error"]
  /\ loose' \in {loose, loose \cup {[by |-> o, ask |-> asked[o]]}}
  /\ UNCHANGED <<facts, asked>>

SetLate   == \E l \in loose : Written(l.by, l.ask) /\ UNCHANGED <<asked, done>>
LoseLate  == \E l \in loose : loose' = loose \ {l} /\ UNCHANGED <<facts, asked, done>>

(* A rule adds or removes one fact, its own or another writer's.           *)
Rule ==
  /\ \E e \in Entities, p \in Facts, v \in Values \cup {Free} :
       /\ facts' = [facts EXCEPT ![e][p] = v]
       /\ loose' = {l \in loose : l.ask.on # e}
  /\ UNCHANGED <<asked, done>>

StoreNext == Rule \/ SetLate \/ LoseLate \/ \E o \in Owners : Ask(o) \/ Set(o) \/ Fail(o)
StoreSpec == StoreInit /\ [][StoreNext]_storeVars
=============================================================================
