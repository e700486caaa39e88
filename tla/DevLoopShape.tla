---------------------------- MODULE DevLoopShape ----------------------------
(***************************************************************************)
(* Proofs about DevLoop, for any budget, any number of loops and any       *)
(* faults: its types, the shape of its state, and what each action does to *)
(* each part of it.                                                        *)
(***************************************************************************)
EXTENDS DevLoopTurns, FiniteSetTheorems, SequenceTheorems, TLAPS

(* The mark that makes the conditions of a rule false.                     *)
Guard(r) == CASE r \in {"04", "05"} -> "dispatched"
              [] r \in Cleaning -> "unclean"
              [] r \in Surrender -> "park-routed"
              [] OTHER -> "routed"

(***************************************************************************)
(* Shape: what holds of the state whatever was lost or forgotten.          *)

(* What can be left of a rule's actions.                                   *)
Suffixes(s) == CASE Len(s) = 1 -> {s}
                 [] Len(s) = 2 -> {s, <<s[2]>>}
                 [] OTHER -> {s, <<s[2], s[3]>>, <<s[3]>>}

Left == \A f \in firing : f.todo \in Suffixes(Does(f.rule))

Typed == TypeOK /\ Left

LoopShape(l) ==
  /\ loop[l].pc \notin {"unborn", "ended"} => loop[l].role \in Roles
  /\ loop[l].pc \in {"mirroring", "mirrored"} => loop[l].role = "reviewer"
  /\ loop[l].pc \in {"stamping", "measuring"} => loop[l].role = "developer"
  /\ loop[l].passed # "none" => loop[l].role = "developer" /\ loop[l].pc = "ended"
  /\ loop[l].rejected => loop[l].passed # "none"
  /\ loop[l].verdict # "none" => loop[l].role = "reviewer" /\ loop[l].pc \in {"mirrored", "ended"}
  /\ loop[l].pc = "mirrored" => loop[l].verdict # "none"

(* Which entities a station is asked to work on: the floors judge          *)
(* developers that have ended.                                             *)
Finished   == {l \in Loops : loop[l].role = "developer" /\ loop[l].pc = "ended"}
Concern(s) == CASE s = "floors" -> Finished [] s = "verify" -> Loops [] OTHER -> {Run}

Addressed == /\ \A s \in Stations : /\ queue[s] \in Seq(Concern(s))
                                    /\ job[s].pc # "idle" => job[s].on \in Concern(s)
             /\ \A f \in firing : f.rule = "05" => f.on \in Finished

MatchedHolds == \A m \in matched : When(m[1], m[2])

Shape == Typed /\ (\A l \in Loops : LoopShape(l)) /\ MatchedHolds /\ Addressed

-----------------------------------------------------------------------------
(* Heads and tails of the short sequences.                                 *)
LEMMA Tuples ==
  /\ \A a : Len(<<a>>) = 1 /\ Head(<<a>>) = a /\ <<a>> # <<>>
  /\ \A a, b : /\ Len(<<a, b>>) = 2 /\ Head(<<a, b>>) = a /\ Tail(<<a, b>>) = <<b>>
               /\ \A c : <<a, b>> # <<c>>
  /\ \A a, b, c : /\ Len(<<a, b, c>>) = 3 /\ Head(<<a, b, c>>) = a
                  /\ Tail(<<a, b, c>>) = <<b, c>>
                  /\ \A d, e : <<a, b, c>> # <<d>> /\ <<a, b, c>> # <<d, e>>
<1>1. \A a : Len(<<a>>) = 1 /\ Head(<<a>>) = a /\ <<a>> # <<>>
  OBVIOUS
<1>2. \A a, b : Len(<<a, b>>) = 2 /\ Head(<<a, b>>) = a /\ Tail(<<a, b>>) = <<b>>
  OBVIOUS
<1>3. \A a, b : \A c : <<a, b>> # <<c>>
  OBVIOUS
<1>4. \A a, b, c : Len(<<a, b, c>>) = 3 /\ Head(<<a, b, c>>) = a /\ Tail(<<a, b, c>>) = <<b, c>>
  OBVIOUS
<1>5. \A a, b, c : \A d, e : <<a, b, c>> # <<d>> /\ <<a, b, c>> # <<d, e>>
  OBVIOUS
<1> QED BY <1>1, <1>2, <1>3, <1>4, <1>5

LEMMA Longer == /\ \A t, c : Len(t) > 1 => t # <<c>>
                /\ \A a, b : Len(<<a, b>>) > 1
                /\ \A a, b, c : Len(<<a, b, c>>) > 1
                /\ \A a : ~(Len(<<a>>) > 1)
<1>1. ASSUME NEW t, NEW c, Len(t) > 1, t = <<c>> PROVE FALSE
  <2>1. Len(<<c>>) > 1
    BY <1>1
  <2> QED BY <2>1, Tuples
<1>2. 2 > 1 /\ 3 > 1 /\ ~(1 > 1)
  OBVIOUS
<1> QED BY <1>1, <1>2, Tuples

(* What a rule does and what can be left of it, rule by rule.              *)
LEMMA Table ==
  /\ Does("04") = <<"dispatched", "attempt", "developer">>
  /\ Does("05") = <<"dispatched", "floors">>
  /\ Does("06a") = <<"routed", "reviewer">>
  /\ \A r \in Cleaning : Does(r) = <<"unclean">>
  /\ \A r \in {"06c", "07b"} : Does(r) = <<"routed", "attempt", "developer">>
  /\ Does("06f") = <<"routed", "transient", "developer">>
  /\ \A r \in {"06d", "06g", "07c", "07d", "08b"} : Does(r) = <<"routed", "park">>
  /\ Does("07a") = <<"routed", "verify">>
  /\ Does("08a") = <<"routed", "delivery">>
  /\ \A r \in Surrender : Does(r) = <<"park", "park-routed">>
<1>1. Does("04") = <<"dispatched", "attempt", "developer">>
  BY DEF Does
<1>2. Does("05") = <<"dispatched", "floors">>
  BY DEF Does
<1>3. Does("06a") = <<"routed", "reviewer">>
  BY DEF Does
<1>4. \A r \in Cleaning : Does(r) = <<"unclean">>
  BY DEF Does, NotClean, Cleaning
<1>5. \A r \in {"06c", "07b"} : Does(r) = <<"routed", "attempt", "developer">>
  BY DEF Does
<1>6. Does("06f") = <<"routed", "transient", "developer">>
  BY DEF Does
<1>7. \A r \in {"06d", "06g", "07c", "07d", "08b"} : Does(r) = <<"routed", "park">>
  BY DEF Does
<1>8. Does("07a") = <<"routed", "verify">> /\ Does("08a") = <<"routed", "delivery">>
  BY DEF Does
<1>9. \A r \in Surrender : Does(r) = <<"park", "park-routed">>
  BY DEF Does, Surrender
<1> QED BY <1>1, <1>2, <1>3, <1>4, <1>5, <1>6, <1>7, <1>8, <1>9

LEMMA SuffixesOf ==
  /\ \A a : Suffixes(<<a>>) = {<<a>>}
  /\ \A a, b : Suffixes(<<a, b>>) = {<<a, b>>, <<b>>}
  /\ \A a, b, c : Suffixes(<<a, b, c>>) = {<<a, b, c>>, <<b, c>>, <<c>>}
  BY Tuples DEF Suffixes

(* What is left of a firing after its first action is still its rule's.    *)
LEMMA TailLeft ==
  ASSUME NEW r \in LoopRules \cup RunRules, NEW t \in Suffixes(Does(r)), Len(t) > 1
  PROVE  Tail(t) \in Suffixes(Does(r)) /\ Tail(t) # <<>> /\ Tail(t) # Does(r)
<1>1. ASSUME NEW a, NEW b, NEW c, Does(r) = <<a, b, c>>
      PROVE  Tail(t) \in Suffixes(Does(r)) /\ Tail(t) # <<>> /\ Tail(t) # Does(r)
  <2>0. Suffixes(Does(r)) = {<<a, b, c>>, <<b, c>>, <<c>>}
    BY <1>1, SuffixesOf
  <2>1. t = <<a, b, c>> \/ t = <<b, c>>
    BY <2>0, Longer
  <2>2. CASE t = <<a, b, c>>
    <3>1. Tail(t) = <<b, c>>
      BY <2>2
    <3>2. <<b, c>> # <<>> /\ <<b, c>> # <<a, b, c>>
      OBVIOUS
    <3> QED BY <1>1, <2>0, <3>1, <3>2
  <2>3. CASE t = <<b, c>>
    <3>1. Tail(t) = <<c>>
      BY <2>3
    <3>2. <<c>> # <<>> /\ <<c>> # <<a, b, c>>
      OBVIOUS
    <3> QED BY <1>1, <2>0, <3>1, <3>2
  <2> QED BY <2>1, <2>2, <2>3
<1>2. ASSUME NEW a, NEW b, Does(r) = <<a, b>>
      PROVE  Tail(t) \in Suffixes(Does(r)) /\ Tail(t) # <<>> /\ Tail(t) # Does(r)
  <2>1. t = <<a, b>>
    BY <1>2, SuffixesOf, Longer
  <2> QED BY <1>2, <2>1, SuffixesOf, Tuples
<1>3. ASSUME NEW a, Does(r) = <<a>> PROVE FALSE
  BY <1>3, SuffixesOf, Longer
<1>4. \/ \E a, b, c : Does(r) = <<a, b, c>>
      \/ \E a, b : Does(r) = <<a, b>>
      \/ \E a : Does(r) = <<a>>
  BY Table DEF LoopRules, RunRules, Cleaning, Surrender
<1> QED BY <1>1, <1>2, <1>3, <1>4

(* What a rule can still have to do: all of it, or one of a few rests.     *)
Rest(r, t) ==
  \/ /\ r \notin Cleaning \cup Surrender /\ t = Does(r)
     /\ Head(t) = Guard(r) /\ Len(t) > 1
  \/ r \in Cleaning /\ t = <<"unclean">>
  \/ r \in Surrender /\ t \in {<<"park", "park-routed">>, <<"park-routed">>}
  \/ /\ r \notin Cleaning \cup Surrender /\ t # Does(r)
     /\ \/ t = <<"attempt", "developer">> /\ r \in {"04", "06c", "07b"}
        \/ t = <<"transient", "developer">> /\ r = "06f"
        \/ t = <<"developer">> /\ r \in {"04", "06c", "07b", "06f"}
        \/ t = <<"reviewer">> /\ r = "06a"
        \/ t = <<"floors">> /\ r = "05"
        \/ t = <<"verify">> /\ r = "07a"
        \/ t = <<"delivery">> /\ r = "08a"
        \/ t = <<"park">> /\ r \in {"06d", "06g", "07c", "07d", "08b"}

LEMMA Rests ==
  ASSUME NEW r \in LoopRules \cup RunRules, NEW t \in Suffixes(Does(r))
  PROVE  Rest(r, t)
<1> USE DEF Rest, Guard, Cleaning, Surrender
<1>1. CASE r = "04"
  BY <1>1, Table, SuffixesOf, Tuples
<1>2. CASE r = "05"
  BY <1>2, Table, SuffixesOf, Tuples
<1>3. CASE r = "06a"
  BY <1>3, Table, SuffixesOf, Tuples
<1>4. CASE r \in Cleaning
  BY <1>4, Table, SuffixesOf, Tuples
<1>5. CASE r \in {"06c", "07b"}
  BY <1>5, Table, SuffixesOf, Tuples
<1>6. CASE r = "06f"
  BY <1>6, Table, SuffixesOf, Tuples
<1>7. CASE r \in {"06d", "06g", "07c", "07d", "08b"}
  BY <1>7, Table, SuffixesOf, Tuples
<1>8. CASE r = "07a"
  BY <1>8, Table, SuffixesOf, Tuples
<1>9. CASE r = "08a"
  BY <1>9, Table, SuffixesOf, Tuples
<1>10. CASE r \in Surrender
  BY <1>10, Table, SuffixesOf, Tuples
<1> QED BY <1>1, <1>2, <1>3, <1>4, <1>5, <1>6, <1>7, <1>8, <1>9, <1>10
        DEF LoopRules, RunRules

LEMMA SuffixType ==
  ASSUME NEW r \in LoopRules \cup RunRules, NEW t \in Suffixes(Does(r))
  PROVE  t \in Seq(Steps) \ {<<>>}
<1>1. /\ \A a \in Steps : <<a>> \in Seq(Steps) \ {<<>>}
      /\ \A a, b \in Steps : <<a, b>> \in Seq(Steps) \ {<<>>}
      /\ \A a, b, c \in Steps : <<a, b, c>> \in Seq(Steps) \ {<<>>}
  OBVIOUS
<1>2. {"dispatched", "routed", "unclean", "park-routed", "developer", "reviewer", "floors",
       "verify", "delivery", "attempt", "transient", "park"} \subseteq Steps
  BY DEF Steps, Marks, Roles, Stations
<1>3. \/ \E a, b, c \in Steps : Does(r) = <<a, b, c>>
      \/ \E a, b \in Steps : Does(r) = <<a, b>>
      \/ \E a \in Steps : Does(r) = <<a>>
  BY <1>2, Table DEF LoopRules, RunRules, Cleaning, Surrender
<1>4. CASE \E a, b, c \in Steps : Does(r) = <<a, b, c>>
  <2>1. PICK a, b, c \in Steps : Does(r) = <<a, b, c>>
    BY <1>4
  <2>2. t \in {<<a, b, c>>, <<b, c>>, <<c>>}
    BY <2>1, SuffixesOf
  <2> QED BY <1>1, <2>2
<1>5. CASE \E a, b \in Steps : Does(r) = <<a, b>>
  <2>1. PICK a, b \in Steps : Does(r) = <<a, b>>
    BY <1>5
  <2>2. t \in {<<a, b>>, <<b>>}
    BY <2>1, SuffixesOf
  <2> QED BY <1>1, <2>2
<1>6. CASE \E a \in Steps : Does(r) = <<a>>
  <2>1. PICK a \in Steps : Does(r) = <<a>>
    BY <1>6
  <2>2. t = <<a>>
    BY <2>1, SuffixesOf
  <2> QED BY <1>1, <2>2
<1> QED BY <1>3, <1>4, <1>5, <1>6

LEMMA DoesLeft ==
  ASSUME NEW r \in LoopRules \cup RunRules
  PROVE  Does(r) \in Suffixes(Does(r)) /\ Does(r) \in Seq(Steps) \ {<<>>}
<1>1. Does(r) \in Suffixes(Does(r))
  BY DEF Suffixes
<1> QED BY <1>1, SuffixType

(* Which entity a rule can be on.                                          *)
LEMMA RuleOnFacts ==
  \A r, e : <<r, e>> \in RuleOn =>
    /\ r \in LoopRules \cup RunRules /\ e \in Loops \cup {Run}
    /\ r \in LoopRules => e \in Loops
    /\ r \in RunRules => e = Run
  BY DEF RuleOn, LoopRules, RunRules

LEMMA RuleStateType == matched \subseteq RuleOn /\ RuleState => matched' \subseteq RuleOn
  BY DEF RuleState

LEMMA FiringFacts ==
  ASSUME Typed, NEW f \in firing
  PROVE  /\ f \in Firing /\ f.todo \in Suffixes(Does(f.rule)) /\ f.todo # <<>>
         /\ f.rule \in LoopRules \cup RunRules /\ f.on \in Loops \cup {Run}
         /\ <<f.rule, f.on>> \in RuleOn
         /\ f.rule \in LoopRules => f.on \in Loops
         /\ f.rule \in RunRules => f.on = Run
         /\ Rest(f.rule, f.todo)
<1>1. f \in Firing /\ <<f.rule, f.on>> \in RuleOn /\ f.todo \in Suffixes(Does(f.rule))
  BY DEF Typed, TypeOK, Left
<1>2. f.todo # <<>> /\ f.rule \in LoopRules \cup RunRules /\ f.on \in Loops \cup {Run}
  BY <1>1 DEF Firing
<1> QED BY <1>1, <1>2, Rests, RuleOnFacts

Rested(f) == [f EXCEPT !.todo = Tail(@)]

LEMMA AdvanceFacts ==
  ASSUME Typed, NEW f \in firing, Advance(f)
  PROVE  /\ firing' = (firing \ {f}) \cup (IF Len(f.todo) > 1 THEN {Rested(f)} ELSE {})
         /\ firing' \subseteq Firing
         /\ \A g \in firing' : <<g.rule, g.on>> \in RuleOn /\ g.todo \in Suffixes(Does(g.rule))
         /\ Rested(f).rule = f.rule /\ Rested(f).on = f.on
         /\ Rested(f).todo = Tail(f.todo) /\ Rested(f).todo # f.todo /\ Rested(f) # f
<1>1. f \in Firing /\ f.todo \in Suffixes(Does(f.rule)) /\ <<f.rule, f.on>> \in RuleOn
      /\ f.rule \in LoopRules \cup RunRules
  BY FiringFacts
<1>2. Rested(f).rule = f.rule /\ Rested(f).on = f.on /\ Rested(f).todo = Tail(f.todo)
  BY <1>1 DEF Firing, Rested
<1>3. ASSUME Len(f.todo) > 1
      PROVE  Rested(f) \in Firing /\ Rested(f).todo \in Suffixes(Does(f.rule))
  <2>1. Tail(f.todo) \in Suffixes(Does(f.rule))
    BY <1>1, <1>3, TailLeft
  <2>2. Tail(f.todo) \in Seq(Steps) \ {<<>>}
    BY <1>1, <2>1, SuffixType
  <2>3. f.rule \in LoopRules \cup RunRules /\ f.on \in Loops \cup {Run}
    BY <1>1 DEF Firing
  <2> QED BY <1>1, <2>1, <2>2, <2>3 DEF Firing, Rested
<1>4. firing' = (firing \ {f}) \cup (IF Len(f.todo) > 1 THEN {Rested(f)} ELSE {})
  BY DEF Advance, Rested
<1>5. firing \subseteq Firing
      /\ \A h \in firing : <<h.rule, h.on>> \in RuleOn /\ h.todo \in Suffixes(Does(h.rule))
  BY DEF Typed, TypeOK, Left
<1>6. Tail(f.todo) # f.todo
  <2>1. f.todo \in Seq(Steps) /\ f.todo # <<>>
    BY <1>1 DEF Firing
  <2>2. Len(Tail(f.todo)) = Len(f.todo) - 1 /\ Len(f.todo) \in Nat
    BY <2>1, HeadTailProperties, LenProperties
  <2>3. \A n \in Nat : n - 1 # n
    OBVIOUS
  <2> QED BY <2>2, <2>3
<1> QED BY <1>1, <1>2, <1>3, <1>4, <1>5, <1>6

LEMMA InitTyped == Init => Typed
<1> SUFFICES ASSUME Init PROVE Typed
  OBVIOUS
<1>1. Unborn \in LoopFacts /\ [Unborn EXCEPT !.role = "coordinator", !.pc = "ended"] \in LoopFacts
  BY DEF Unborn, LoopFacts, Roles
<1>2. loop \in [Loops -> LoopFacts]
  BY <1>1 DEF Init
<1>3. run \in RunFacts
  BY DEF Init, RunFacts
<1>4. NoJob \in JobFacts
  BY DEF NoJob, JobFacts
<1>5. queue \in [Stations -> Seq(Loops \cup {Run})] /\ job \in [Stations -> JobFacts]
  BY <1>4 DEF Init
<1>6. /\ head \in Nat /\ forge \in [tip : Nat, prs : Nat]
      /\ proof \in [green : Nat, clean : Nat] /\ used \in Usage
  BY DEF Init, Usage
<1>7. firing = {} /\ matched = {}
  BY DEF Init
<1> QED BY <1>2, <1>3, <1>5, <1>6, <1>7 DEF Typed, TypeOK, Left

LEMMA TypeParts ==
  Typed => /\ head \in Nat /\ run \in RunFacts /\ forge \in [tip : Nat, prs : Nat]
           /\ loop \in [Loops -> LoopFacts] /\ matched \subseteq RuleOn
           /\ queue \in [Stations -> Seq(Loops \cup {Run})] /\ job \in [Stations -> JobFacts]
           /\ proof \in [green : Nat, clean : Nat] /\ used \in Usage
  BY DEF Typed, TypeOK

LEMMA FireTyped ==
  ASSUME Typed, NEW re \in RuleOn, Fire(re[1], re[2])
  PROVE  Typed'
<1>1. PICK r, e : re = <<r, e>> /\ r \in LoopRules \cup RunRules /\ e \in Loops \cup {Run}
  BY DEF RuleOn
<1>2. <<r, e>> \in RuleOn /\ Fire(r, e)
  BY <1>1
<1> DEFINE f == [rule |-> r, on |-> e, todo |-> Does(r)]
<1>3. f \in Firing /\ <<f.rule, f.on>> \in RuleOn /\ f.todo \in Suffixes(Does(f.rule))
  BY <1>1, <1>2, DoesLeft DEF Firing
<1>4. firing' = firing \cup {f} /\ matched' = matched \cup {<<r, e>>}
      /\ UNCHANGED <<head, run, forge, loop, queue, job, proof, used>>
  BY <1>2 DEF Fire
<1> HIDE DEF f
<1> QED BY <1>2, <1>3, <1>4 DEF Typed, TypeOK, Left

(* The frame of an action of a firing.                                     *)
LEMMA ActTyped ==
  ASSUME Typed, NEW f \in firing, Advance(f),
         run' \in RunFacts, loop' \in [Loops -> LoopFacts], matched' \subseteq RuleOn,
         queue' \in [Stations -> Seq(Loops \cup {Run})], used' \in Usage,
         UNCHANGED <<head, forge, job, proof>>
  PROVE  Typed'
<1>1. /\ firing' \subseteq Firing
      /\ \A g \in firing' : <<g.rule, g.on>> \in RuleOn /\ g.todo \in Suffixes(Does(g.rule))
  BY AdvanceFacts
<1> QED BY <1>1 DEF Typed, TypeOK, Left

(* And of the others.                                                      *)
LEMMA FrameTyped ==
  ASSUME Typed, firing' = firing,
         head' \in Nat, run' \in RunFacts, forge' \in [tip : Nat, prs : Nat],
         loop' \in [Loops -> LoopFacts], matched' \subseteq RuleOn,
         queue' \in [Stations -> Seq(Loops \cup {Run})], job' \in [Stations -> JobFacts],
         proof' \in [green : Nat, clean : Nat], used' \in Usage
  PROVE  Typed'
  BY DEF Typed, TypeOK, Left

LEMMA UsageType == used \in Usage /\ (Error \/ Lose) => used' \in Usage
<1> SUFFICES ASSUME used \in Usage, Error \/ Lose PROVE used' \in Usage
  OBVIOUS
<1>1. used.errors + 1 \in Nat /\ used.lost + 1 \in Nat
  BY DEF Usage
<1>2. CASE Error
  BY <1>1, <1>2 DEF Error, Usage
<1>3. CASE Lose
  BY <1>1, <1>3 DEF Lose, Usage
<1> QED BY <1>2, <1>3

(* One loop changes.                                                       *)
LEMMA LoopType ==
  ASSUME loop \in [Loops -> LoopFacts], NEW l \in Loops, NEW r \in LoopFacts
  PROVE  /\ [loop EXCEPT ![l] = r] \in [Loops -> LoopFacts]
         /\ [loop EXCEPT ![l] = r][l] = r
         /\ \A k \in Loops : k # l => [loop EXCEPT ![l] = r][k] = loop[k]
  OBVIOUS

(* A mark on a loop or on the run.                                         *)
AddsMark(e, m) ==
  IF e = Run
  THEN run' = [run EXCEPT !.marks = @ \cup {m}] /\ loop' = loop
  ELSE loop' = [loop EXCEPT ![e].marks = @ \cup {m}] /\ run' = run

LEMMA MarkType ==
  ASSUME Typed, NEW e \in Loops \cup {Run}, NEW m \in Marks \cup {"failed"}, AddsMark(e, m)
  PROVE  run' \in RunFacts /\ loop' \in [Loops -> LoopFacts]
<1>0. run \in RunFacts /\ loop \in [Loops -> LoopFacts]
  BY TypeParts
<1>1. CASE e = Run
  BY <1>0, <1>1 DEF AddsMark, RunFacts
<1>2. CASE e # Run
  <2>1. e \in Loops /\ run' = run
        /\ loop' = [loop EXCEPT ![e] = [loop[e] EXCEPT !.marks = @ \cup {m}]]
    BY <1>0, <1>2 DEF AddsMark
  <2>2. [loop[e] EXCEPT !.marks = @ \cup {m}] \in LoopFacts
    BY <1>0, <2>1 DEF LoopFacts
  <2> QED BY <1>0, <2>1, <2>2, LoopType
<1> QED BY <1>1, <1>2

LEMMA EngineTyped ==
  ASSUME Typed, NEW f \in firing, Act(f) \/ LoseAction(f)
  PROVE  Typed'
<1>0. /\ run \in RunFacts /\ loop \in [Loops -> LoopFacts] /\ matched \subseteq RuleOn
      /\ queue \in [Stations -> Seq(Loops \cup {Run})] /\ used \in Usage
      /\ f.on \in Loops \cup {Run}
  BY TypeParts, FiringFacts
<1>1. CASE AddMark(f)
  <2>1. AddsMark(f.on, Head(f.todo)) /\ Head(f.todo) \in Marks
    BY <1>1 DEF AddMark, AddsMark
  <2>2. run' \in RunFacts /\ loop' \in [Loops -> LoopFacts]
    BY <1>0, <2>1, MarkType
  <2> QED BY <1>0, <1>1, <2>2, RuleStateType, ActTyped DEF AddMark
<1>2. CASE AddToRun(f)
  <2>1. run' \in RunFacts
    <3>1. run.attempts + 1 \in Nat /\ run.transients + 1 \in Nat
      BY <1>0 DEF RunFacts
    <3>2. \/ run' = [run EXCEPT !.attempts = run.attempts + 1]
          \/ run' = [run EXCEPT !.transients = run.transients + 1]
          \/ run' = [run EXCEPT !.parked = TRUE]
      BY <1>2 DEF AddToRun
    <3> QED BY <1>0, <3>1, <3>2 DEF RunFacts
  <2> QED BY <1>0, <1>2, <2>1, RuleStateType, ActTyped DEF AddToRun
<1>3. CASE SpawnLoop(f)
  <2>1. PICK l \in Loops : loop' = [loop EXCEPT ![l] = Spawned(Head(f.todo))]
    BY <1>3 DEF SpawnLoop
  <2>2. Spawned(Head(f.todo)) \in LoopFacts
    BY <1>3 DEF SpawnLoop, Spawned, Unborn, LoopFacts
  <2>3. loop' \in [Loops -> LoopFacts]
    BY <1>0, <2>1, <2>2, LoopType
  <2> QED BY <1>0, <1>3, <2>3, RuleStateType, ActTyped DEF SpawnLoop
<1>4. CASE PublishDispatch(f)
  <2>1. Append(queue[Head(f.todo)], f.on) \in Seq(Loops \cup {Run})
    BY <1>0, <1>4, AppendProperties DEF PublishDispatch
  <2>2. queue' \in [Stations -> Seq(Loops \cup {Run})]
    BY <1>0, <1>4, <2>1 DEF PublishDispatch
  <2> QED BY <1>0, <1>4, <2>2, ActTyped DEF PublishDispatch
<1>5. CASE LoseAction(f)
  <2>1. used' \in Usage
    BY <1>0, <1>5, UsageType DEF LoseAction
  <2> QED BY <1>0, <1>5, <2>1, ActTyped DEF LoseAction
<1> QED BY <1>1, <1>2, <1>3, <1>4, <1>5 DEF Act

LEMMA ToolTyped ==
  ASSUME Typed, NEW l \in Loops, ToolNext(l) \/ EndNext(l)
  PROVE  Typed'
<1>0. /\ run \in RunFacts /\ loop \in [Loops -> LoopFacts] /\ loop[l] \in LoopFacts
      /\ head \in Nat /\ head + 1 \in Nat /\ used \in Usage /\ matched \subseteq RuleOn
      /\ proof \in [green : Nat, clean : Nat] /\ forge \in [tip : Nat, prs : Nat]
      /\ queue \in [Stations -> Seq(Loops \cup {Run})] /\ job \in [Stations -> JobFacts]
  BY TypeParts
<1> DEFINE Becomes(r) == r \in LoopFacts /\ loop' = [loop EXCEPT ![l] = r]
<1>1. ASSUME NEW r, Becomes(r) PROVE loop' \in [Loops -> LoopFacts]
  BY <1>0, <1>1, LoopType
<1>2. ASSUME ApplyPatch(l) PROVE Typed'
  <2>1. Becomes([loop[l] EXCEPT !.pc = "stamping", !.tree = head + 1])
    BY <1>0, <1>2 DEF ApplyPatch, LoopFacts
  <2> QED BY <1>0, <1>1, <1>2, <2>1, FrameTyped DEF ApplyPatch
<1>3. ASSUME RecordCommit(l) PROVE Typed'
  <2>1. Becomes([loop[l] EXCEPT !.pc = "working", !.tree = 0])
    BY <1>0, <1>3 DEF RecordCommit, LoopFacts
  <2>2. run' \in RunFacts
    BY <1>0, <1>3 DEF RecordCommit, LoopFacts, RunFacts
  <2>3. used' \in Usage
    <3>1. used.errors + 1 \in Nat /\ used.unrecorded + 1 \in Nat
      BY <1>0 DEF Usage
    <3> QED BY <1>0, <1>3, <3>1 DEF RecordCommit, Usage
  <2> QED BY <1>0, <1>1, <1>3, <2>1, <2>2, <2>3, FrameTyped DEF RecordCommit
<1>4. ASSUME NEW b \in BOOLEAN, Measure(l, b) PROVE Typed'
  <2>1. Becomes([loop[l] EXCEPT !.pc = "measuring", !.tree = head, !.green = b])
    BY <1>0, <1>4 DEF Measure, LoopFacts
  <2> QED BY <1>0, <1>1, <1>4, <2>1, FrameTyped DEF Measure
<1>5. ASSUME RecordMeasurement(l) PROVE Typed'
  <2>1. Becomes([loop[l] EXCEPT !.pc = "working", !.tree = 0, !.green = FALSE])
    BY <1>0, <1>5 DEF RecordMeasurement, LoopFacts
  <2>2. run' \in RunFacts /\ proof' \in [green : Nat, clean : Nat]
    <3>1. loop[l].green \in BOOLEAN /\ loop[l].tree \in Nat /\ run.recorded \in Nat
      BY <1>0 DEF LoopFacts, RunFacts
    <3>2. run' \in RunFacts
      <4>1. run' = run \/ run' = [run EXCEPT !.green = loop[l].green, !.measured = run.recorded]
        BY <1>5 DEF RecordMeasurement
      <4> QED BY <1>0, <3>1, <4>1 DEF RunFacts
    <3>3. proof' \in [green : Nat, clean : Nat]
      <4>1. proof' = proof \/ proof' = [proof EXCEPT !.green = loop[l].tree]
        BY <1>5 DEF RecordMeasurement
      <4> QED BY <1>0, <3>1, <4>1
    <3> QED BY <3>2, <3>3
  <2>3. used' \in Usage
    BY <1>0, <1>5, UsageType DEF RecordMeasurement
  <2> QED BY <1>0, <1>1, <1>5, <2>1, <2>2, <2>3, FrameTyped DEF RecordMeasurement
<1>6. ASSUME NEW b \in BOOLEAN, SubmitReview(l, b) PROVE Typed'
  <2>1. used' \in Usage /\ matched' \subseteq RuleOn
    BY <1>0, <1>6, UsageType, RuleStateType DEF SubmitReview
  <2>2. (run.green /\ ~b) \in BOOLEAN /\ \A c : Verdict(c) \in {"approved", "changes_requested"}
    BY DEF Verdict
  <2>3. [loop[l] EXCEPT !.pc = "mirroring", !.green = run.green /\ ~b] \in LoopFacts
    BY <1>0, <2>2 DEF LoopFacts
  <2>4. [run EXCEPT !.verdict = Verdict(run.green /\ ~b)] \in RunFacts
    BY <1>0, <2>2 DEF RunFacts
  <2>5. loop' = loop \/ Becomes([loop[l] EXCEPT !.pc = "mirroring", !.green = run.green /\ ~b])
    BY <1>0, <1>6, <2>3 DEF SubmitReview
  <2>6. run' \in RunFacts
    BY <1>0, <1>6, <2>4 DEF SubmitReview
  <2> QED BY <1>0, <1>1, <1>6, <2>1, <2>5, <2>6, FrameTyped DEF SubmitReview
<1>7. ASSUME MirrorVerdict(l) PROVE Typed'
  <2>1. used' \in Usage /\ matched' \subseteq RuleOn
    BY <1>0, <1>7, UsageType, RuleStateType DEF MirrorVerdict
  <2>2. VerdictMirror(l) \in LoopFacts
    <3>1. Verdict(loop[l].green) \in {"approved", "changes_requested"} /\ run.attempts \in Nat
      BY <1>0 DEF Verdict, RunFacts
    <3> QED BY <1>0, <3>1 DEF VerdictMirror, LoopFacts
  <2>3. [loop[l] EXCEPT !.pc = "working", !.green = FALSE] \in LoopFacts
    BY <1>0 DEF LoopFacts
  <2>4. \E r : Becomes(r)
    BY <1>0, <1>7, <2>2, <2>3 DEF MirrorVerdict
  <2> QED BY <1>0, <1>1, <1>7, <2>1, <2>4, FrameTyped DEF MirrorVerdict
<1>8. ASSUME NEW t \in BOOLEAN, EndLoop(l, t) PROVE Typed'
  <2>1. Becomes([loop[l] EXCEPT !.pc = "ended", !.transient = t])
    BY <1>0, <1>8 DEF EndLoop, LoopFacts
  <2>2. matched' \subseteq RuleOn
    BY <1>0, <1>8, RuleStateType DEF EndLoop
  <2> QED BY <1>0, <1>1, <1>8, <2>1, <2>2, FrameTyped DEF EndLoop
<1> HIDE DEF Becomes
<1> QED BY <1>2, <1>3, <1>4, <1>5, <1>6, <1>7, <1>8 DEF ToolNext, EndNext

(* One station's job changes.                                              *)
LEMMA JobTypes ==
  ASSUME Typed, NEW s \in Stations
  PROVE  /\ NoJob \in JobFacts /\ job[s] \in JobFacts
         /\ Failing(s) \in [Stations -> JobFacts]
         /\ \A t \in Stations : t # s => Failing(s)[t] = job[t]
         /\ Failing(s)[s].on = job[s].on /\ Failing(s)[s].pc \in {"start", "failed"}
         /\ \A j \in JobFacts : [job EXCEPT ![s] = j] \in [Stations -> JobFacts]
<1>1. job \in [Stations -> JobFacts] /\ job[s] \in JobFacts
  BY TypeParts
<1>2. job[s].attempt + 1 \in Nat
  BY <1>1 DEF JobFacts
<1> DEFINE again == [job[s] EXCEPT !.pc = "start", !.attempt = job[s].attempt + 1, !.tree = 0]
           over == [job[s] EXCEPT !.pc = "failed"]
<1>3. /\ again \in JobFacts /\ again.on = job[s].on /\ again.pc = "start"
      /\ over \in JobFacts /\ over.on = job[s].on /\ over.pc = "failed"
  BY <1>1, <1>2 DEF JobFacts
<1>4. \/ Failing(s) = [job EXCEPT ![s] = again]
      \/ Failing(s) = [job EXCEPT ![s] = over]
  BY DEF Failing
<1>5. NoJob \in JobFacts
  BY DEF NoJob, JobFacts
<1> HIDE DEF again, over
<1> QED BY <1>1, <1>3, <1>4, <1>5

LEMMA StationTyped ==
  ASSUME Typed, NEW s \in Stations, StationNext(s) \/ HandleError(s) \/ DropDispatch(s)
  PROVE  Typed'
<1>0. /\ run \in RunFacts /\ loop \in [Loops -> LoopFacts] /\ head \in Nat /\ used \in Usage
      /\ matched \subseteq RuleOn /\ proof \in [green : Nat, clean : Nat]
      /\ forge \in [tip : Nat, prs : Nat] /\ queue \in [Stations -> Seq(Loops \cup {Run})]
      /\ job \in [Stations -> JobFacts] /\ job[s] \in JobFacts
  BY TypeParts
<1>1. CASE Take(s)
  <2>1. queue[s] \in Seq(Loops \cup {Run}) /\ queue[s] # <<>>
    BY <1>0, <1>1 DEF Take
  <2>2. Head(queue[s]) \in Loops \cup {Run} /\ Tail(queue[s]) \in Seq(Loops \cup {Run})
    BY <2>1, HeadTailProperties
  <2>3. [on |-> Head(queue[s]), pc |-> "start", attempt |-> 1, tree |-> 0] \in JobFacts
    BY <2>2 DEF JobFacts
  <2>4. job' \in [Stations -> JobFacts]
    BY <1>1, <2>3, JobTypes DEF Take
  <2>5. queue' \in [Stations -> Seq(Loops \cup {Run})]
    BY <1>0, <1>1, <2>2 DEF Take
  <2> QED BY <1>0, <1>1, <2>4, <2>5, FrameTyped DEF Take
<1>2. CASE StampDispatchFailed(s)
  <2>1. AddsMark(job[s].on, "failed") /\ job[s].on \in Loops \cup {Run}
    BY <1>0, <1>2 DEF StampDispatchFailed, AddsMark, JobFacts
  <2>2. run' \in RunFacts /\ loop' \in [Loops -> LoopFacts]
    BY <2>1, MarkType
  <2>3. job' \in [Stations -> JobFacts] /\ matched' \subseteq RuleOn
    BY <1>0, <1>2, JobTypes, RuleStateType DEF StampDispatchFailed
  <2> QED BY <1>0, <1>2, <2>2, <2>3, FrameTyped DEF StampDispatchFailed
<1>3. CASE HandleError(s)
  <2>1. used' \in Usage /\ job' \in [Stations -> JobFacts]
    BY <1>0, <1>3, UsageType, JobTypes DEF HandleError
  <2> QED BY <1>0, <1>3, <2>1, FrameTyped DEF HandleError
<1>4. CASE DropDispatch(s)
  <2>1. used' \in Usage /\ job' \in [Stations -> JobFacts]
    BY <1>0, <1>4, UsageType, JobTypes DEF DropDispatch
  <2> QED BY <1>0, <1>4, <2>1, FrameTyped DEF DropDispatch
<1>5. ASSUME NEW b \in BOOLEAN, s = "floors", RunFloors(b) PROVE Typed'
  <2> DEFINE l == job["floors"].on
  <2>1. loop' \in [Loops -> LoopFacts]
    <3>1. CASE l \in Loops
      <4>1. run.attempts \in Nat /\ run.transients \in Nat /\ loop[l] \in LoopFacts
        BY <1>0, <3>1 DEF RunFacts
      <4>2. RouteMirror(l, b) \in LoopFacts
        BY <4>1 DEF RouteMirror, LoopFacts
      <4> QED BY <1>0, <1>5, <3>1, <4>2 DEF RunFloors
    <3>2. CASE l \notin Loops
      <4>1. \A r : [loop EXCEPT ![l] = r] = loop
        BY <1>0, <3>2
      <4> QED BY <1>0, <1>5, <4>1 DEF RunFloors
    <3> QED BY <3>1, <3>2
  <2>2. job' \in [Stations -> JobFacts] /\ matched' \subseteq RuleOn
    BY <1>0, <1>5, JobTypes, RuleStateType DEF RunFloors
  <2> QED BY <1>0, <1>5, <2>1, <2>2, FrameTyped DEF RunFloors
<1>6. ASSUME s = "verify", CloneForVerify PROVE Typed'
  <2>1. [job[s] EXCEPT !.pc = "cloned", !.tree = head] \in JobFacts
    BY <1>0 DEF JobFacts
  <2>2. job' = [job EXCEPT ![s] = [job[s] EXCEPT !.pc = "cloned", !.tree = head]]
    BY <1>0, <1>6 DEF CloneForVerify
  <2>3. job' \in [Stations -> JobFacts]
    BY <2>1, <2>2, JobTypes
  <2> QED BY <1>0, <1>6, <2>3, FrameTyped DEF CloneForVerify
<1>7. ASSUME NEW o \in {"pass", "fail", "retry"}, s = "verify", StampVerify(o) PROVE Typed'
  <2>1. run' \in RunFacts
    BY <1>0, <1>7 DEF StampVerify, RunFacts
  <2>2. proof' \in [green : Nat, clean : Nat]
    BY <1>0, <1>7 DEF StampVerify, JobFacts
  <2>3. used' \in Usage /\ job' \in [Stations -> JobFacts] /\ matched' \subseteq RuleOn
    <3>1. \/ job' = Failing(s) /\ Error
          \/ job' = [job EXCEPT ![s] = NoJob] /\ used' = used
      BY <1>7 DEF StampVerify
    <3>2. matched' \subseteq RuleOn
      BY <1>0, <1>7, RuleStateType DEF StampVerify
    <3> QED BY <1>0, <3>1, <3>2, UsageType, JobTypes
  <2> QED BY <1>0, <1>7, <2>1, <2>2, <2>3, FrameTyped DEF StampVerify
<1>8. ASSUME s = "delivery", Push PROVE Typed'
  <2>1. forge' \in [tip : Nat, prs : Nat]
    BY <1>0, <1>8 DEF Push, RunFacts
  <2>2. [job[s] EXCEPT !.pc = "pushed"] \in JobFacts
    BY <1>0 DEF JobFacts
  <2>3. \/ job' = Failing(s) \/ job' = [job EXCEPT ![s] = NoJob]
        \/ job' = [job EXCEPT ![s] = [job[s] EXCEPT !.pc = "pushed"]]
    BY <1>0, <1>8 DEF Push
  <2>4. job' \in [Stations -> JobFacts]
    BY <2>2, <2>3, JobTypes
  <2> QED BY <1>0, <1>8, <2>1, <2>4, FrameTyped DEF Push
<1>9. ASSUME s = "delivery", OpenPR PROVE Typed'
  <2>1. forge' \in [tip : Nat, prs : Nat]
    BY <1>0, <1>9 DEF OpenPR
  <2>2. [job[s] EXCEPT !.pc = "opened"] \in JobFacts
    BY <1>0 DEF JobFacts
  <2>3. job' = [job EXCEPT ![s] = [job[s] EXCEPT !.pc = "opened"]]
    BY <1>0, <1>9 DEF OpenPR
  <2>4. job' \in [Stations -> JobFacts]
    BY <2>2, <2>3, JobTypes
  <2> QED BY <1>0, <1>9, <2>1, <2>4, FrameTyped DEF OpenPR
<1>10. ASSUME s = "delivery", StampPR PROVE Typed'
  <2>1. run' \in RunFacts
    BY <1>0, <1>10 DEF StampPR, RunFacts
  <2>2. job' \in [Stations -> JobFacts] /\ matched' \subseteq RuleOn
    BY <1>0, <1>10, JobTypes, RuleStateType DEF StampPR
  <2> QED BY <1>0, <1>10, <2>1, <2>2, FrameTyped DEF StampPR
<1> QED BY <1>1, <1>2, <1>3, <1>4, <1>5, <1>6, <1>7, <1>8, <1>9, <1>10 DEF StationNext

LEMMA RestartTyped == ASSUME Typed, Restart PROVE Typed'
<1>0. used \in Usage /\ NoJob \in JobFacts /\ matched \subseteq RuleOn
  BY TypeParts DEF NoJob, JobFacts
<1>1. used' \in Usage /\ matched' \subseteq RuleOn
  <2>1. used.restarts + 1 \in Nat /\ used.forgot + 1 \in Nat
    BY <1>0 DEF Usage
  <2> QED BY <1>0, <2>1 DEF Restart, Usage
<1>2. firing' = {} /\ job' \in [Stations -> JobFacts]
      /\ queue' \in [Stations -> Seq(Loops \cup {Run})]
      /\ UNCHANGED <<head, run, forge, loop, proof>>
  BY <1>0 DEF Restart
<1> QED BY <1>1, <1>2 DEF Typed, TypeOK, Left

LEMMA StepTyped == Typed /\ [Next]_vars => Typed'
<1> SUFFICES ASSUME Typed, [Next]_vars PROVE Typed'
  OBVIOUS
<1>1. CASE UNCHANGED vars
  BY <1>1 DEF vars, Typed, TypeOK, Left
<1>2. CASE Next
  BY <1>2, FireTyped, EngineTyped, ToolTyped, StationTyped, RestartTyped DEF Next, EngineNext
<1> QED BY <1>1, <1>2

-----------------------------------------------------------------------------
(* What the rules read of a loop and of the run.                           *)
SameLoop(l) ==
  /\ loop'[l].role = loop[l].role /\ loop'[l].marks = loop[l].marks
  /\ loop'[l].passed = loop[l].passed /\ loop'[l].rejected = loop[l].rejected
  /\ loop'[l].transient = loop[l].transient /\ loop'[l].verdict = loop[l].verdict
  /\ loop'[l].attempts = loop[l].attempts /\ loop'[l].transients = loop[l].transients
  /\ loop'[l].pc = "ended" <=> loop[l].pc = "ended"
SameRun == /\ run'.verify = run.verify /\ run'.verdict = run.verdict /\ run'.marks = run.marks
           /\ run'.parked = run.parked /\ run'.pr = run.pr


LEMMA WhenLoop ==
  ASSUME NEW l \in Loops
  PROVE  /\ When("04", l) <=> Dispatch(l)
         /\ When("05", l) <=> FloorsTrigger(l)
         /\ When("06a", l) <=> RouteAdvance(l)
         /\ When("06b", l) <=> RouteNotClean(l)
         /\ When("06c", l) <=> RouteRetry(l)
         /\ When("06d", l) <=> RouteEscalate(l)
         /\ When("06e", l) <=> RouteNotCleanFloor(l)
         /\ When("06f", l) <=> RouteTransientRetry(l)
         /\ When("06g", l) <=> RouteTransientPark(l)
         /\ When("07a", l) <=> ReviewApproved(l)
         /\ When("07b", l) <=> ReviewRetry(l)
         /\ When("07c", l) <=> ReviewPark(l)
         /\ When("07d", l) <=> ReviewNoVerdict(l)
         /\ When("failed-loop", l) <=> StationFailedLoop(l)
<1>0. l # Run
  BY LoopAssumption DEF Loops, Run
<1>1. When("04", l) <=> Dispatch(l)
  BY <1>0 DEF When
<1>2. When("05", l) <=> FloorsTrigger(l)
  BY <1>0 DEF When
<1>3. When("06a", l) <=> RouteAdvance(l)
  BY <1>0 DEF When
<1>4. When("06b", l) <=> RouteNotClean(l)
  BY <1>0 DEF When
<1>5. When("06c", l) <=> RouteRetry(l)
  BY <1>0 DEF When
<1>6. When("06d", l) <=> RouteEscalate(l)
  BY <1>0 DEF When
<1>7. When("06e", l) <=> RouteNotCleanFloor(l)
  BY <1>0 DEF When
<1>8. When("06f", l) <=> RouteTransientRetry(l)
  BY <1>0 DEF When
<1>9. When("06g", l) <=> RouteTransientPark(l)
  BY <1>0 DEF When
<1>10. When("07a", l) <=> ReviewApproved(l)
  BY <1>0 DEF When
<1>11. When("07b", l) <=> ReviewRetry(l)
  BY <1>0 DEF When
<1>12. When("07c", l) <=> ReviewPark(l)
  BY <1>0 DEF When
<1>13. When("07d", l) <=> ReviewNoVerdict(l)
  BY <1>0 DEF When
<1>14. When("failed-loop", l) <=> StationFailedLoop(l)
  BY <1>0 DEF When
<1> QED BY <1>1, <1>2, <1>3, <1>4, <1>5, <1>6, <1>7,
           <1>8, <1>9, <1>10, <1>11, <1>12, <1>13, <1>14

(* And after a step.                                                       *)
LEMMA WhenLoopNext ==
  ASSUME NEW l \in Loops
  PROVE  /\ When("04", l)' <=> Dispatch(l)'
         /\ When("05", l)' <=> FloorsTrigger(l)'
         /\ When("06a", l)' <=> RouteAdvance(l)'
         /\ When("06b", l)' <=> RouteNotClean(l)'
         /\ When("06c", l)' <=> RouteRetry(l)'
         /\ When("06d", l)' <=> RouteEscalate(l)'
         /\ When("06e", l)' <=> RouteNotCleanFloor(l)'
         /\ When("06f", l)' <=> RouteTransientRetry(l)'
         /\ When("06g", l)' <=> RouteTransientPark(l)'
         /\ When("07a", l)' <=> ReviewApproved(l)'
         /\ When("07b", l)' <=> ReviewRetry(l)'
         /\ When("07c", l)' <=> ReviewPark(l)'
         /\ When("07d", l)' <=> ReviewNoVerdict(l)'
         /\ When("failed-loop", l)' <=> StationFailedLoop(l)'
<1>0. l # Run
  BY LoopAssumption DEF Loops, Run
<1>1. When("04", l)' <=> Dispatch(l)'
  BY <1>0 DEF When
<1>2. When("05", l)' <=> FloorsTrigger(l)'
  BY <1>0 DEF When
<1>3. When("06a", l)' <=> RouteAdvance(l)'
  BY <1>0 DEF When
<1>4. When("06b", l)' <=> RouteNotClean(l)'
  BY <1>0 DEF When
<1>5. When("06c", l)' <=> RouteRetry(l)'
  BY <1>0 DEF When
<1>6. When("06d", l)' <=> RouteEscalate(l)'
  BY <1>0 DEF When
<1>7. When("06e", l)' <=> RouteNotCleanFloor(l)'
  BY <1>0 DEF When
<1>8. When("06f", l)' <=> RouteTransientRetry(l)'
  BY <1>0 DEF When
<1>9. When("06g", l)' <=> RouteTransientPark(l)'
  BY <1>0 DEF When
<1>10. When("07a", l)' <=> ReviewApproved(l)'
  BY <1>0 DEF When
<1>11. When("07b", l)' <=> ReviewRetry(l)'
  BY <1>0 DEF When
<1>12. When("07c", l)' <=> ReviewPark(l)'
  BY <1>0 DEF When
<1>13. When("07d", l)' <=> ReviewNoVerdict(l)'
  BY <1>0 DEF When
<1>14. When("failed-loop", l)' <=> StationFailedLoop(l)'
  BY <1>0 DEF When
<1> QED BY <1>1, <1>2, <1>3, <1>4, <1>5, <1>6, <1>7,
           <1>8, <1>9, <1>10, <1>11, <1>12, <1>13, <1>14

LEMMA WhenRun ==
  /\ When("08a", Run) <=> DeliverRun
  /\ When("08b", Run) <=> ParkRun
  /\ When("failed-run", Run) <=> StationFailedRun
  /\ When("08a", Run)' <=> DeliverRun'
  /\ When("08b", Run)' <=> ParkRun'
  /\ When("failed-run", Run)' <=> StationFailedRun'
<1>1. When("08a", Run) <=> DeliverRun
  BY DEF When
<1>2. When("08b", Run) <=> ParkRun
  BY DEF When
<1>3. When("failed-run", Run) <=> StationFailedRun
  BY DEF When
<1>4. When("08a", Run)' <=> DeliverRun'
  BY DEF When
<1>5. When("08b", Run)' <=> ParkRun'
  BY DEF When
<1>6. When("failed-run", Run)' <=> StationFailedRun'
  BY DEF When
<1> QED BY <1>1, <1>2, <1>3, <1>4, <1>5, <1>6

LEMMA SameWhen ==
  ASSUME NEW l \in Loops, SameLoop(l), NEW r \in LoopRules
  PROVE  When(r, l)' <=> When(r, l)
<1> USE DEF SameLoop, Has, Unrouted
<1>1. CASE r = "04"
  BY <1>1, WhenLoop, WhenLoopNext DEF Dispatch
<1>2. CASE r = "05"
  BY <1>2, WhenLoop, WhenLoopNext DEF FloorsTrigger
<1>3. CASE r = "06a"
  BY <1>3, WhenLoop, WhenLoopNext DEF RouteAdvance
<1>4. CASE r = "06b"
  BY <1>4, WhenLoop, WhenLoopNext DEF RouteNotClean
<1>5. CASE r = "06c"
  BY <1>5, WhenLoop, WhenLoopNext DEF RouteRetry
<1>6. CASE r = "06d"
  BY <1>6, WhenLoop, WhenLoopNext DEF RouteEscalate
<1>7. CASE r = "06e"
  BY <1>7, WhenLoop, WhenLoopNext DEF RouteNotCleanFloor
<1>8. CASE r = "06f"
  BY <1>8, WhenLoop, WhenLoopNext DEF RouteTransientRetry
<1>9. CASE r = "06g"
  BY <1>9, WhenLoop, WhenLoopNext DEF RouteTransientPark
<1>10. CASE r = "07a"
  BY <1>10, WhenLoop, WhenLoopNext DEF ReviewApproved
<1>11. CASE r = "07b"
  BY <1>11, WhenLoop, WhenLoopNext DEF ReviewRetry
<1>12. CASE r = "07c"
  BY <1>12, WhenLoop, WhenLoopNext DEF ReviewPark
<1>13. CASE r = "07d"
  BY <1>13, WhenLoop, WhenLoopNext DEF ReviewNoVerdict
<1>14. CASE r = "failed-loop"
  BY <1>14, WhenLoop, WhenLoopNext DEF StationFailedLoop
<1> QED BY <1>1, <1>2, <1>3, <1>4, <1>5, <1>6, <1>7,
           <1>8, <1>9, <1>10, <1>11, <1>12, <1>13, <1>14
        DEF LoopRules

LEMMA SameWhenRun ==
  ASSUME SameRun, NEW r \in RunRules
  PROVE  When(r, Run)' <=> When(r, Run)
<1>1. CASE r = "08a"
  BY <1>1, WhenRun DEF SameRun, DeliverRun
<1>2. CASE r = "08b"
  BY <1>2, WhenRun DEF SameRun, ParkRun
<1>3. CASE r = "failed-run"
  BY <1>3, WhenRun DEF SameRun, StationFailedRun
<1> QED BY <1>1, <1>2, <1>3 DEF RunRules

(* The rules that have matched an entity whose facts stay, or stay.        *)
LEMMA SameMatched ==
  ASSUME matched \subseteq RuleOn, MatchedHolds, RuleState \/ matched' = matched
  PROVE  /\ \A l \in Loops : SameLoop(l) =>
              \A r \in LoopRules : <<r, l>> \in matched' <=> <<r, l>> \in matched
         /\ SameRun => \A r \in RunRules : <<r, Run>> \in matched' <=> <<r, Run>> \in matched
<1>1. \A r, e : <<r, e>> \in matched => When(r, e)
  BY DEF MatchedHolds
<1>2. \A r, e : RuleState => (<<r, e>> \in matched' <=> <<r, e>> \in matched /\ When(r, e)')
  BY DEF RuleState
<1> QED BY <1>1, <1>2, SameWhen, SameWhenRun

LEMMA MatchedStep ==
  ASSUME matched \subseteq RuleOn, MatchedHolds,
         RuleState \/ (matched' = matched /\ SameRun /\ \A l \in Loops : SameLoop(l))
  PROVE  MatchedHolds'
<1>1. CASE RuleState
  BY <1>1 DEF MatchedHolds, RuleState
<1>2. CASE matched' = matched /\ SameRun /\ \A l \in Loops : SameLoop(l)
  <2> SUFFICES ASSUME NEW m \in matched PROVE When(m[1], m[2])'
    BY <1>2 DEF MatchedHolds
  <2>1. PICK r, e : m = <<r, e>> /\ <<r, e>> \in RuleOn
    BY DEF RuleOn
  <2>2. When(r, e)
    BY <2>1 DEF MatchedHolds
  <2>3. When(r, e)'
    BY <1>2, <2>1, <2>2, RuleOnFacts, SameWhen, SameWhenRun
  <2> QED BY <2>1, <2>3
<1> QED BY <1>1, <1>2

-----------------------------------------------------------------------------
(* The shape of the state.                                                 *)

LEMMA InitShape == Init => Shape
<1> SUFFICES ASSUME Init PROVE Shape
  OBVIOUS
<1>1. Typed
  BY InitTyped
<1>2. \A l \in Loops : LoopShape(l)
  <2> SUFFICES ASSUME NEW l \in Loops PROVE LoopShape(l)
    OBVIOUS
  <2>1. /\ loop[l].pc \in {"unborn", "ended"} /\ loop[l].passed = "none"
        /\ loop[l].rejected = FALSE /\ loop[l].verdict = "none"
    <3>1. CASE l = 1
      BY <3>1 DEF Init, Unborn
    <3>2. CASE l # 1
      BY <3>2 DEF Init, Unborn
    <3> QED BY <3>1, <3>2
  <2> QED BY <2>1 DEF LoopShape
<1>3. MatchedHolds
  BY DEF Init, MatchedHolds
<1>4. Addressed
  BY DEF Init, Addressed, NoJob
<1> QED BY <1>1, <1>2, <1>3, <1>4 DEF Shape

(* The dispatches and jobs stay with whom they concern while loops that    *)
(* finished stay finished.                                                 *)
LEMMA ConcernGrows ==
  ASSUME Finished \subseteq Finished', NEW s \in Stations
  PROVE  /\ Concern(s) \subseteq Concern(s)'
         /\ \A q \in Seq(Concern(s)) : q \in Seq(Concern(s)')
<1>1. Concern(s) \subseteq Concern(s)'
  BY DEF Concern
<1> QED BY <1>1, SeqMonotonic

LEMMA AddressedStays ==
  ASSUME Addressed, Finished \subseteq Finished',
         \A s \in Stations : queue'[s] = queue[s] \/ queue'[s] = <<>>
                             \/ (queue[s] # <<>> /\ queue'[s] = Tail(queue[s])),
         \A s \in Stations : job'[s].pc # "idle" =>
            \/ job[s].pc # "idle" /\ job'[s].on = job[s].on
            \/ queue[s] # <<>> /\ job'[s].on = Head(queue[s]),
         \A f \in firing' : \E g \in firing : f.rule = g.rule /\ f.on = g.on
  PROVE  Addressed'
<1>1. ASSUME NEW s \in Stations
      PROVE  /\ queue'[s] \in Seq(Concern(s)')
             /\ job'[s].pc # "idle" => job'[s].on \in Concern(s)'
  <2>1. queue[s] \in Seq(Concern(s)) /\ (job[s].pc # "idle" => job[s].on \in Concern(s))
    BY DEF Addressed
  <2>2. queue[s] # <<>> => Head(queue[s]) \in Concern(s) /\ Tail(queue[s]) \in Seq(Concern(s))
    BY <2>1, HeadTailProperties
  <2>3. queue'[s] \in Seq(Concern(s))
    BY <2>1, <2>2, EmptySeq
  <2> QED BY <2>1, <2>2, <2>3, ConcernGrows
<1>2. \A f \in firing' : f.rule = "05" => f.on \in Finished'
  BY DEF Addressed
<1> QED BY <1>1, <1>2 DEF Addressed

(* One loop takes a step.                                                  *)
LEMMA OneLoopShape ==
  ASSUME Shape, NEW l \in Loops, \A k \in Loops : k # l => loop'[k] = loop[k],
         LoopShape(l)', l \in Finished => l \in Finished'
  PROVE  (\A k \in Loops : LoopShape(k)') /\ Finished \subseteq Finished'
<1>1. \A k \in Loops : k # l => (LoopShape(k) => LoopShape(k)') /\ (k \in Finished => k \in Finished')
  BY DEF LoopShape, Finished
<1> QED BY <1>1 DEF Shape, Finished

LEMMA SameLoops == loop' = loop => /\ (\A l \in Loops : LoopShape(l)) => \A l \in Loops : LoopShape(l)'
                                   /\ Finished' = Finished
  BY DEF LoopShape, Finished

(* The effect of a mark.                                                   *)
LEMMA MarkEffect ==
  ASSUME Typed, NEW e \in Loops \cup {Run}, NEW m, AddsMark(e, m)
  PROVE  /\ e = Run => run'.marks = run.marks \cup {m} /\ loop' = loop
         /\ e # Run => loop'[e].marks = loop[e].marks \cup {m} /\ run' = run
         /\ UNCHANGED <<run.recorded, run.green, run.measured, run.verdict, run.verify,
                        run.attempts, run.transients, run.pr, run.parked>>
         /\ \A k \in Loops :
              /\ k # e => loop'[k] = loop[k]
              /\ UNCHANGED <<loop[k].role, loop[k].pc, loop[k].transient, loop[k].passed,
                             loop[k].rejected, loop[k].attempts, loop[k].transients,
                             loop[k].verdict, loop[k].tree, loop[k].green>>
<1>0. run \in RunFacts /\ loop \in [Loops -> LoopFacts]
  BY TypeParts
<1>1. CASE e = Run
  BY <1>0, <1>1 DEF AddsMark, RunFacts
<1>2. CASE e # Run
  <2>1. e \in Loops /\ run' = run
        /\ loop' = [loop EXCEPT ![e] = [loop[e] EXCEPT !.marks = @ \cup {m}]]
    BY <1>0, <1>2 DEF AddsMark
  <2>2. loop[e] \in LoopFacts
    BY <1>0, <2>1
  <2>3. \A k \in Loops : k # e => loop'[k] = loop[k]
    BY <1>0, <2>1
  <2>4. loop'[e] = [loop[e] EXCEPT !.marks = @ \cup {m}]
    BY <1>0, <2>1
  <2> QED BY <1>2, <2>1, <2>2, <2>3, <2>4 DEF LoopFacts
<1> QED BY <1>1, <1>2

LEMMA MarkShape ==
  ASSUME Shape, NEW e \in Loops \cup {Run}, NEW m, AddsMark(e, m)
  PROVE  (\A l \in Loops : LoopShape(l)') /\ Finished' = Finished
<1>1. \A k \in Loops :
         UNCHANGED <<loop[k].role, loop[k].pc, loop[k].transient, loop[k].passed,
                     loop[k].rejected, loop[k].attempts, loop[k].transients,
                     loop[k].verdict, loop[k].tree, loop[k].green>>
  BY MarkEffect DEF Shape
<1> QED BY <1>1 DEF Shape, LoopShape, Finished

-----------------------------------------------------------------------------
(* The effects of the actions, field by field.                             *)

OnlyLoop(l) == \A k \in Loops : k # l => loop'[k] = loop[k]
OnlyJob(s)  == \A t \in Stations : t # s => job'[t] = job[t]
Patching(l) == \/ ApplyPatch(l) \/ RecordCommit(l) \/ RecordMeasurement(l)
               \/ \E b \in BOOLEAN : Measure(l, b)

(* The developer's tools leave what the rules read as it was.              *)
LEMMA PatchingEffect ==
  ASSUME Typed, NEW l \in Loops, LoopShape(l), Patching(l)
  PROVE  /\ OnlyLoop(l) /\ SameLoop(l) /\ SameRun
         /\ run'.attempts = run.attempts /\ run'.transients = run.transients
         /\ loop[l].role = "developer"
         /\ loop[l].pc \in {"working", "stamping", "measuring"}
         /\ loop'[l].pc \in {"working", "stamping", "measuring"}
         /\ UNCHANGED <<forge, firing, matched, queue, job>>
         /\ used'.lost = used.lost /\ used'.forgot = used.forgot
<1>0. /\ run \in RunFacts /\ loop \in [Loops -> LoopFacts] /\ loop[l] \in LoopFacts
      /\ used \in Usage
  BY TypeParts
<1>1. CASE ApplyPatch(l)
  BY <1>0, <1>1 DEF ApplyPatch, OnlyLoop, SameLoop, SameRun, LoopFacts
<1>2. CASE RecordCommit(l)
  <2>1. loop[l].role = "developer" /\ loop[l].pc = "stamping"
    BY <1>2 DEF RecordCommit, LoopShape
  <2>2. OnlyLoop(l) /\ SameLoop(l) /\ loop'[l].pc = "working"
    BY <1>0, <1>2, <2>1 DEF RecordCommit, OnlyLoop, SameLoop, LoopFacts
  <2>3. SameRun /\ run'.attempts = run.attempts /\ run'.transients = run.transients
    BY <1>0, <1>2 DEF RecordCommit, SameRun, RunFacts
  <2>4. used'.lost = used.lost /\ used'.forgot = used.forgot
    BY <1>0, <1>2 DEF RecordCommit, Usage
  <2> QED BY <1>2, <2>1, <2>2, <2>3, <2>4 DEF RecordCommit
<1>3. CASE RecordMeasurement(l)
  <2>1. loop[l].role = "developer" /\ loop[l].pc = "measuring"
    BY <1>3 DEF RecordMeasurement, LoopShape
  <2>2. OnlyLoop(l) /\ SameLoop(l) /\ loop'[l].pc = "working"
    BY <1>0, <1>3, <2>1 DEF RecordMeasurement, OnlyLoop, SameLoop, LoopFacts
  <2>3. SameRun /\ run'.attempts = run.attempts /\ run'.transients = run.transients
    BY <1>0, <1>3 DEF RecordMeasurement, SameRun, RunFacts
  <2>4. used'.lost = used.lost /\ used'.forgot = used.forgot
    BY <1>0, <1>3 DEF RecordMeasurement, Error, Usage
  <2> QED BY <1>3, <2>1, <2>2, <2>3, <2>4 DEF RecordMeasurement
<1>4. ASSUME NEW b \in BOOLEAN, Measure(l, b)
      PROVE  /\ OnlyLoop(l) /\ SameLoop(l) /\ SameRun
             /\ loop[l].role = "developer" /\ loop[l].pc = "working"
             /\ loop'[l].pc = "measuring" /\ used' = used /\ run' = run
             /\ UNCHANGED <<forge, firing, matched, queue, job>>
  BY <1>0, <1>4 DEF Measure, OnlyLoop, SameLoop, SameRun, LoopFacts
<1> QED BY <1>1, <1>2, <1>3, <1>4 DEF Patching

(* A verdict reaches the run, a refused or failed call leaves all as it    *)
(* was.                                                                    *)
LEMMA SubmitEffect ==
  ASSUME Typed, NEW l \in Loops, NEW b \in BOOLEAN, SubmitReview(l, b)
  PROVE  /\ OnlyLoop(l) /\ SameLoop(l) /\ loop[l].role = "reviewer" /\ loop[l].pc = "working"
         /\ loop'[l].pc \in {"working", "mirroring"}
         /\ UNCHANGED <<head, forge, firing, queue, job, proof>> /\ RuleState
         /\ UNCHANGED <<run.recorded, run.green, run.measured, run.verify, run.attempts,
                        run.transients, run.pr, run.parked, run.marks>>
         /\ UNCHANGED <<used.lost, used.forgot, used.unrecorded>>
<1>0. /\ run \in RunFacts /\ loop \in [Loops -> LoopFacts] /\ loop[l] \in LoopFacts
      /\ used \in Usage
  BY TypeParts
<1>1. UNCHANGED <<used.lost, used.forgot, used.unrecorded>>
  BY <1>0 DEF SubmitReview, Error, Usage
<1>2. OnlyLoop(l) /\ SameLoop(l) /\ loop'[l].pc \in {"working", "mirroring"}
  BY <1>0 DEF SubmitReview, OnlyLoop, SameLoop, LoopFacts
<1>3. UNCHANGED <<run.recorded, run.green, run.measured, run.verify, run.attempts,
                  run.transients, run.pr, run.parked, run.marks>>
  BY <1>0 DEF SubmitReview, RunFacts
<1> QED BY <1>1, <1>2, <1>3 DEF SubmitReview

LEMMA MirrorEffect ==
  ASSUME Typed, NEW l \in Loops, MirrorVerdict(l)
  PROVE  /\ OnlyLoop(l) /\ loop[l].pc = "mirroring"
         /\ UNCHANGED <<head, run, forge, firing, queue, job, proof>> /\ RuleState
         /\ UNCHANGED <<used.lost, used.forgot, used.unrecorded>>
         /\ UNCHANGED <<loop[l].role, loop[l].transient, loop[l].marks, loop[l].passed,
                        loop[l].rejected, loop[l].transients, loop[l].tree>>
         /\ \/ /\ loop'[l].pc = "mirrored" /\ loop'[l].attempts = run.attempts
               /\ loop'[l].verdict \in {"approved", "changes_requested"}
            \/ SameLoop(l) /\ loop'[l].pc = "working"
<1>0. /\ run \in RunFacts /\ loop \in [Loops -> LoopFacts] /\ loop[l] \in LoopFacts
      /\ used \in Usage
  BY TypeParts
<1>1. UNCHANGED <<used.lost, used.forgot, used.unrecorded>>
  BY <1>0 DEF MirrorVerdict, Error, Usage
<1>2. CASE loop' = [loop EXCEPT ![l] = VerdictMirror(l)]
  <2>1. loop'[l] = VerdictMirror(l)
    BY <1>0, <1>2
  <2>2. loop'[l].verdict \in {"approved", "changes_requested"}
    BY <1>0, <2>1 DEF VerdictMirror, Verdict, LoopFacts
  <2>3. /\ loop'[l].pc = "mirrored" /\ loop'[l].attempts = run.attempts
        /\ UNCHANGED <<loop[l].role, loop[l].transient, loop[l].marks, loop[l].passed,
                       loop[l].rejected, loop[l].transients, loop[l].tree>>
    BY <1>0, <2>1 DEF VerdictMirror, LoopFacts
  <2> QED BY <1>0, <1>1, <1>2, <2>2, <2>3 DEF MirrorVerdict, OnlyLoop
<1>3. CASE loop' = [loop EXCEPT ![l].pc = "working", ![l].green = FALSE]
  <2>1. OnlyLoop(l) /\ loop'[l] = [loop[l] EXCEPT !.pc = "working", !.green = FALSE]
    BY <1>0, <1>3 DEF OnlyLoop
  <2>2. loop[l].pc = "mirroring"
    BY DEF MirrorVerdict
  <2>3. /\ SameLoop(l) /\ loop'[l].pc = "working"
        /\ UNCHANGED <<loop[l].role, loop[l].transient, loop[l].marks, loop[l].passed,
                       loop[l].rejected, loop[l].transients, loop[l].tree>>
    BY <1>0, <2>1, <2>2 DEF SameLoop, LoopFacts
  <2> QED BY <1>1, <2>1, <2>3 DEF MirrorVerdict
<1> QED BY <1>2, <1>3 DEF MirrorVerdict

LEMMA EndEffect ==
  ASSUME Typed, NEW l \in Loops, NEW t \in BOOLEAN, EndLoop(l, t)
  PROVE  /\ OnlyLoop(l) /\ loop[l].pc \in {"working", "mirrored"} /\ loop'[l].pc = "ended"
         /\ UNCHANGED <<head, run, forge, firing, queue, job, proof, used>> /\ RuleState
         /\ UNCHANGED <<loop[l].role, loop[l].marks, loop[l].passed, loop[l].rejected,
                        loop[l].verdict, loop[l].attempts, loop[l].transients>>
<1>0. loop \in [Loops -> LoopFacts] /\ loop[l] \in LoopFacts
  BY TypeParts
<1> QED BY <1>0 DEF EndLoop, OnlyLoop, LoopFacts

LEMMA SpawnEffect ==
  ASSUME Typed, NEW f \in firing, SpawnLoop(f)
  PROVE  /\ Advance(f) /\ RuleState /\ UNCHANGED <<head, run, forge, queue, job, proof, used>>
         /\ Head(f.todo) \in Roles
         /\ \E l \in Loops :
              /\ OnlyLoop(l) /\ loop[l].pc = "unborn"
              /\ loop'[l].role = Head(f.todo) /\ loop'[l].pc = "working"
              /\ loop'[l].passed = "none" /\ ~loop'[l].rejected /\ loop'[l].verdict = "none"
              /\ loop'[l].marks = {}
<1>0. loop \in [Loops -> LoopFacts]
  BY TypeParts
<1>1. PICK l \in Loops : loop[l].pc = "unborn" /\ loop' = [loop EXCEPT ![l] = Spawned(Head(f.todo))]
  BY DEF SpawnLoop
<1>2. OnlyLoop(l) /\ loop'[l] = Spawned(Head(f.todo))
  BY <1>0, <1>1 DEF OnlyLoop
<1>3. /\ loop'[l].role = Head(f.todo) /\ loop'[l].pc = "working"
      /\ loop'[l].passed = "none" /\ ~loop'[l].rejected /\ loop'[l].verdict = "none"
      /\ loop'[l].marks = {}
  BY <1>2 DEF Spawned, Unborn
<1> QED BY <1>1, <1>2, <1>3 DEF SpawnLoop

LEMMA PublishEffect ==
  ASSUME Typed, NEW f \in firing, PublishDispatch(f)
  PROVE  /\ Advance(f) /\ UNCHANGED <<head, run, forge, loop, matched, job, proof, used>>
         /\ Head(f.todo) \in Stations
         /\ \A s \in Stations : s # Head(f.todo) => queue'[s] = queue[s]
         /\ queue'[Head(f.todo)] = Append(queue[Head(f.todo)], f.on)
  BY TypeParts DEF PublishDispatch

(* A dispatch leaves its handler: done, dropped, or failed for good.       *)
LEMMA TakeEffect ==
  ASSUME Typed, NEW s \in Stations, Take(s)
  PROVE  /\ UNCHANGED <<head, run, forge, loop, firing, matched, proof, used>>
         /\ job[s].pc = "idle" /\ queue[s] # <<>> /\ queue'[s] = Tail(queue[s])
         /\ job'[s].on = Head(queue[s]) /\ job'[s].pc = "start" /\ OnlyJob(s)
         /\ \A t \in Stations : t # s => queue'[t] = queue[t]
<1>0. queue \in [Stations -> Seq(Loops \cup {Run})] /\ job \in [Stations -> JobFacts]
  BY TypeParts
<1>1. /\ job' = [job EXCEPT ![s] = [on |-> Head(queue[s]), pc |-> "start",
                                    attempt |-> 1, tree |-> 0]]
      /\ queue' = [queue EXCEPT ![s] = Tail(queue[s])]
  BY DEF Take
<1>2. OnlyJob(s) /\ job'[s].on = Head(queue[s]) /\ job'[s].pc = "start"
  BY <1>0, <1>1 DEF OnlyJob
<1> QED BY <1>0, <1>1, <1>2 DEF Take

(* The handler goes on with the same dispatch, or puts it down.            *)
Holds(s)    == OnlyJob(s) /\ job'[s].pc # "idle" /\ job'[s].on = job[s].on
PutsDown(s) == OnlyJob(s) /\ job'[s] = NoJob

LEMMA JobEffects ==
  ASSUME Typed, NEW s \in Stations
  PROVE  /\ job' = Failing(s) => Holds(s) /\ job'[s].pc \in {"start", "failed"}
         /\ job' = [job EXCEPT ![s] = NoJob] => PutsDown(s) /\ job'[s].pc = "idle"
<1>1. job \in [Stations -> JobFacts]
  BY TypeParts
<1>2. job' = Failing(s) => Holds(s) /\ job'[s].pc \in {"start", "failed"}
  BY JobTypes DEF Holds, OnlyJob
<1>3. job' = [job EXCEPT ![s] = NoJob] => PutsDown(s) /\ job'[s].pc = "idle"
  BY <1>1 DEF PutsDown, OnlyJob, NoJob
<1> QED BY <1>2, <1>3

LEMMA FloorsEffect ==
  ASSUME Typed, NEW l \in Loops, l = job["floors"].on, NEW b \in BOOLEAN, RunFloors(b)
  PROVE  /\ job["floors"].pc = "start" /\ RuleState
         /\ UNCHANGED <<head, run, forge, firing, queue, proof, used>>
         /\ \/ /\ OnlyLoop(l) /\ PutsDown("floors") /\ loop'[l] = RouteMirror(l, b)
               /\ loop'[l].passed = (IF MeasuredPassed THEN "true" ELSE "false")
               /\ loop'[l].passed \in {"true", "false"}
               /\ loop'[l].attempts = run.attempts /\ loop'[l].transients = run.transients
               /\ UNCHANGED <<loop[l].role, loop[l].pc, loop[l].marks, loop[l].verdict,
                              loop[l].transient, loop[l].tree>>
            \/ loop' = loop /\ Holds("floors")
<1>0. loop \in [Loops -> LoopFacts] /\ loop[l] \in LoopFacts /\ "floors" \in Stations
  BY TypeParts DEF Stations
<1>1. CASE /\ loop' = [loop EXCEPT ![l] = RouteMirror(l, b)]
           /\ job' = [job EXCEPT !["floors"] = NoJob]
  <2>1. OnlyLoop(l) /\ loop'[l] = RouteMirror(l, b)
    BY <1>0, <1>1 DEF OnlyLoop
  <2>2. PutsDown("floors")
    BY <1>0, <1>1, JobEffects
  <2>3. /\ loop'[l].passed = (IF MeasuredPassed THEN "true" ELSE "false")
        /\ loop'[l].passed \in {"true", "false"}
        /\ loop'[l].attempts = run.attempts /\ loop'[l].transients = run.transients
        /\ UNCHANGED <<loop[l].role, loop[l].pc, loop[l].marks, loop[l].verdict,
                       loop[l].transient, loop[l].tree>>
    BY <1>0, <2>1 DEF RouteMirror, LoopFacts
  <2> QED BY <2>1, <2>2, <2>3 DEF RunFloors
<1>2. CASE loop' = loop /\ job' = Failing("floors")
  BY <1>0, <1>2, JobEffects DEF RunFloors
<1> QED BY <1>1, <1>2 DEF RunFloors

LEMMA StampFailedEffect ==
  ASSUME Typed, NEW s \in Stations, StampDispatchFailed(s)
  PROVE  /\ AddsMark(job[s].on, "failed") /\ job[s].on \in Loops \cup {Run}
         /\ job[s].pc = "failed" /\ PutsDown(s) /\ RuleState
         /\ UNCHANGED <<head, forge, firing, queue, proof, used>>
<1>0. job[s] \in JobFacts
  BY TypeParts
<1>1. AddsMark(job[s].on, "failed") /\ job[s].on \in Loops \cup {Run}
  BY <1>0 DEF StampDispatchFailed, AddsMark, JobFacts
<1>2. PutsDown(s)
  BY JobEffects DEF StampDispatchFailed
<1> QED BY <1>1, <1>2 DEF StampDispatchFailed

(* What a station does besides taking a dispatch, judging floors and       *)
(* reporting a failure: it keeps the dispatch or puts it down.             *)
Handling(s) ==
  \/ HandleError(s) \/ DropDispatch(s)
  \/ s = "verify" /\ (CloneForVerify \/ StampVerify("retry"))
  \/ s = "delivery" /\ (Push \/ OpenPR)

LEMMA HandlingEffect ==
  ASSUME Typed, NEW s \in Stations, Handling(s)
  PROVE  /\ job[s].pc # "idle" /\ (Holds(s) \/ PutsDown(s))
         /\ UNCHANGED <<head, loop, firing, queue>>
         /\ UNCHANGED <<run.recorded, run.green, run.measured, run.verdict, run.attempts,
                        run.transients, run.pr, run.parked, run.marks>>
         /\ \/ run'.verify = run.verify
            \/ s = "verify" /\ run'.verify = "retry" /\ job["verify"].pc = "cloned"
         /\ \/ matched' = matched /\ SameRun
            \/ RuleState
         /\ used'.lost >= used.lost /\ used'.forgot = used.forgot
         /\ used'.unrecorded = used.unrecorded
<1>0. /\ job \in [Stations -> JobFacts] /\ job[s] \in JobFacts /\ used \in Usage
      /\ run \in RunFacts /\ NoJob \in JobFacts
  BY TypeParts DEF NoJob, JobFacts
<1>1. /\ Error \/ Lose => /\ used'.lost >= used.lost /\ used'.forgot = used.forgot
                          /\ used'.unrecorded = used.unrecorded
      /\ used.lost >= used.lost
  BY <1>0 DEF Error, Lose, Usage
<1>2. CASE HandleError(s)
  BY <1>1, <1>2, JobEffects DEF HandleError, SameRun
<1>3. CASE DropDispatch(s)
  BY <1>1, <1>3, JobEffects DEF DropDispatch, SameRun
<1>4. CASE s = "verify" /\ CloneForVerify
  <2>1. Holds(s)
    BY <1>0, <1>4 DEF CloneForVerify, Holds, OnlyJob, JobFacts
  <2> QED BY <1>1, <1>4, <2>1 DEF CloneForVerify, SameRun
<1>5. CASE s = "verify" /\ StampVerify("retry")
  <2>1. Holds(s) /\ used'.lost >= used.lost /\ used'.forgot = used.forgot
        /\ used'.unrecorded = used.unrecorded
    BY <1>1, <1>5, JobEffects DEF StampVerify
  <2>2. /\ UNCHANGED <<run.recorded, run.green, run.measured, run.verdict, run.attempts,
                       run.transients, run.pr, run.parked, run.marks>>
        /\ run'.verify = "retry"
    BY <1>0, <1>5 DEF StampVerify, RunFacts
  <2> QED BY <1>5, <2>1, <2>2 DEF StampVerify
<1>6. CASE s = "delivery" /\ Push
  <2>1. Holds(s) \/ PutsDown(s)
    <3>1. CASE job' = [job EXCEPT !["delivery"].pc = "pushed"]
      BY <1>0, <1>6, <3>1 DEF Holds, OnlyJob, JobFacts
    <3>2. CASE job' = Failing(s) \/ job' = [job EXCEPT ![s] = NoJob]
      BY <3>2, JobEffects
    <3> QED BY <1>6, <3>1, <3>2 DEF Push
  <2> QED BY <1>1, <1>6, <2>1 DEF Push, SameRun
<1>7. CASE s = "delivery" /\ OpenPR
  <2>1. Holds(s)
    BY <1>0, <1>7 DEF OpenPR, Holds, OnlyJob, JobFacts
  <2> QED BY <1>1, <1>7, <2>1 DEF OpenPR, SameRun
<1> QED BY <1>2, <1>3, <1>4, <1>5, <1>6, <1>7 DEF Handling

(* The clean room decided.                                                 *)
LEMMA DecideEffect ==
  ASSUME Typed, NEW o \in {"pass", "fail"}, StampVerify(o)
  PROVE  /\ job["verify"].pc = "cloned" /\ PutsDown("verify") /\ RuleState
         /\ UNCHANGED <<head, forge, loop, firing, queue, used>> /\ run'.verify = o
         /\ UNCHANGED <<run.recorded, run.green, run.measured, run.verdict, run.attempts,
                        run.transients, run.pr, run.parked, run.marks>>
         /\ proof'.green = proof.green
         /\ proof'.clean = IF o = "pass" THEN job["verify"].tree ELSE proof.clean
<1>0. run \in RunFacts /\ "verify" \in Stations /\ proof \in [green : Nat, clean : Nat]
  BY TypeParts DEF Stations
<1>1. PutsDown("verify") /\ used' = used
  BY <1>0, JobEffects DEF StampVerify
<1>2. /\ UNCHANGED <<run.recorded, run.green, run.measured, run.verdict, run.attempts,
                     run.transients, run.pr, run.parked, run.marks>>
      /\ run'.verify = o
  BY <1>0 DEF StampVerify, RunFacts
<1>3. /\ proof'.green = proof.green
      /\ proof'.clean = IF o = "pass" THEN job["verify"].tree ELSE proof.clean
  BY <1>0 DEF StampVerify
<1> QED BY <1>1, <1>2, <1>3 DEF StampVerify

LEMMA StampPREffect ==
  ASSUME Typed, StampPR
  PROVE  /\ job["delivery"].pc = "opened" /\ PutsDown("delivery") /\ RuleState
         /\ UNCHANGED <<head, forge, loop, firing, queue, proof, used>> /\ run'.pr = TRUE
         /\ UNCHANGED <<run.recorded, run.green, run.measured, run.verdict, run.attempts,
                        run.transients, run.verify, run.parked, run.marks>>
<1>0. run \in RunFacts /\ "delivery" \in Stations
  BY TypeParts DEF Stations
<1>1. PutsDown("delivery")
  BY <1>0, JobEffects DEF StampPR
<1> QED BY <1>0, <1>1 DEF StampPR, RunFacts

LEMMA AddToRunEffect ==
  ASSUME Typed, NEW f \in firing, AddToRun(f)
  PROVE  /\ Advance(f) /\ RuleState /\ UNCHANGED <<head, forge, loop, queue, job, proof, used>>
         /\ UNCHANGED <<run.recorded, run.green, run.measured, run.verdict, run.verify,
                        run.marks, run.pr>>
         /\ \/ /\ Head(f.todo) = "attempt" /\ run'.attempts = run.attempts + 1
               /\ run'.transients = run.transients /\ run'.parked = run.parked
            \/ /\ Head(f.todo) = "transient" /\ run'.transients = run.transients + 1
               /\ run'.attempts = run.attempts /\ run'.parked = run.parked
            \/ /\ Head(f.todo) = "park" /\ run'.parked = TRUE
               /\ run'.transients = run.transients /\ run'.attempts = run.attempts
<1>0. run \in RunFacts
  BY TypeParts
<1> QED BY <1>0 DEF AddToRun, RunFacts

-----------------------------------------------------------------------------
(* Every step keeps the shape.                                             *)

LEMMA ShapeParts ==
  Shape => /\ Typed /\ MatchedHolds /\ Addressed /\ matched \subseteq RuleOn
           /\ \A l \in Loops : LoopShape(l)
  BY TypeParts DEF Shape

(* The frame of an action that leaves dispatches and jobs.                 *)
LEMMA ShapeFrame ==
  ASSUME Shape, Typed', MatchedHolds', \A l \in Loops : LoopShape(l)', Finished \subseteq Finished',
         UNCHANGED <<queue, job>>, \A f \in firing' : \E g \in firing : f.rule = g.rule /\ f.on = g.on
  PROVE  Shape'
<1>1. Addressed'
  BY AddressedStays DEF Shape
<1> QED BY <1>1 DEF Shape

LEMMA FireShape ==
  ASSUME Shape, NEW re \in RuleOn, Fire(re[1], re[2])
  PROVE  Shape'
<1>1. PICK r, e : re = <<r, e>> /\ <<r, e>> \in RuleOn
  BY DEF RuleOn
<1>2. Fire(r, e)
  BY <1>1
<1> DEFINE f == [rule |-> r, on |-> e, todo |-> Does(r)]
<1>3. /\ matched' = matched \cup {<<r, e>>} /\ When(r, e) /\ firing' = firing \cup {f}
      /\ UNCHANGED <<run, loop, queue, job>>
  BY <1>2 DEF Fire
<1>4. Typed'
  BY FireTyped, ShapeParts
<1>5. /\ \A l \in Loops : LoopShape(l)' /\ SameLoop(l)
      /\ Finished' = Finished /\ SameRun
  BY <1>3, SameLoops, ShapeParts DEF SameLoop, SameRun
<1>6. MatchedHolds'
  <2> SUFFICES ASSUME NEW m \in matched' PROVE When(m[1], m[2])'
    BY DEF MatchedHolds
  <2>1. PICK q, d : m = <<q, d>> /\ <<q, d>> \in RuleOn
    BY <1>1, <1>3, ShapeParts DEF RuleOn
  <2>2. When(q, d)
    BY <1>3, <2>1, ShapeParts DEF MatchedHolds
  <2>3. When(q, d)'
    BY <1>5, <2>1, <2>2, RuleOnFacts, SameWhen, SameWhenRun
  <2> QED BY <2>1, <2>3
<1>7. r = "05" => e \in Finished
  <2> SUFFICES ASSUME r = "05" PROVE e \in Finished
    OBVIOUS
  <2>1. e \in Loops
    BY <1>1, RuleOnFacts DEF LoopRules
  <2> QED BY <1>3, <2>1, WhenLoop DEF FloorsTrigger, Finished
<1>8. Addressed'
  <2>1. \A s \in Stations : Concern(s)' = Concern(s)
    BY <1>5 DEF Concern
  <2>2. \A g \in firing' : g \in firing \/ (g.rule = r /\ g.on = e)
    BY <1>3
  <2> QED BY <1>3, <1>5, <1>7, <2>1, <2>2, ShapeParts DEF Addressed
<1> QED BY <1>4, <1>5, <1>6, <1>8 DEF Shape

LEMMA EngineShape ==
  ASSUME Shape, NEW f \in firing, Act(f) \/ LoseAction(f)
  PROVE  Shape'
<1>0. /\ Typed /\ MatchedHolds /\ Addressed /\ matched \subseteq RuleOn
      /\ \A l \in Loops : LoopShape(l)
  BY ShapeParts
<1>1. Typed'
  BY <1>0, EngineTyped
<1>2. Advance(f)
  BY DEF Act, AddMark, AddToRun, SpawnLoop, PublishDispatch, LoseAction
<1>3. \A g \in firing' : \E h \in firing : g.rule = h.rule /\ g.on = h.on
  BY <1>0, <1>2, AdvanceFacts
<1>4. CASE AddMark(f)
  <2>1. AddsMark(f.on, Head(f.todo)) /\ f.on \in Loops \cup {Run}
    BY <1>0, <1>4, FiringFacts DEF AddMark, AddsMark
  <2> QED BY <1>0, <1>1, <1>3, <1>4, <2>1, MarkShape, MatchedStep, ShapeFrame DEF AddMark
<1>5. CASE AddToRun(f)
  <2>1. RuleState /\ loop' = loop /\ UNCHANGED <<queue, job>>
    BY <1>5 DEF AddToRun
  <2> QED BY <1>0, <1>1, <1>3, <2>1, SameLoops, MatchedStep, ShapeFrame
<1>6. CASE SpawnLoop(f)
  <2>1. RuleState /\ UNCHANGED <<queue, job>>
    BY <1>0, <1>6, SpawnEffect
  <2>2. PICK l \in Loops :
          /\ OnlyLoop(l) /\ loop[l].pc = "unborn"
          /\ loop'[l].role \in Roles /\ loop'[l].pc = "working"
          /\ loop'[l].passed = "none" /\ ~loop'[l].rejected /\ loop'[l].verdict = "none"
    BY <1>0, <1>6, SpawnEffect
  <2>3. LoopShape(l)' /\ l \notin Finished
    BY <2>2 DEF LoopShape, Finished
  <2>4. (\A k \in Loops : LoopShape(k)') /\ Finished \subseteq Finished'
    BY <2>2, <2>3, OneLoopShape DEF OnlyLoop
  <2> QED BY <1>0, <1>1, <1>3, <2>1, <2>4, MatchedStep, ShapeFrame
<1>7. CASE PublishDispatch(f)
  <2>1. /\ UNCHANGED <<run, loop, matched, job>> /\ Head(f.todo) \in Stations
        /\ \A s \in Stations : s # Head(f.todo) => queue'[s] = queue[s]
        /\ queue'[Head(f.todo)] = Append(queue[Head(f.todo)], f.on)
    BY <1>0, <1>7, PublishEffect
  <2>2. f.on \in Concern(Head(f.todo))
    <3>1. Rest(f.rule, f.todo) /\ (f.rule \in LoopRules => f.on \in Loops)
          /\ (f.rule \in RunRules => f.on = Run)
      BY <1>0, FiringFacts
    <3>2. \/ Head(f.todo) = "floors" /\ f.rule = "05"
          \/ Head(f.todo) = "verify" /\ f.rule = "07a"
          \/ Head(f.todo) = "delivery" /\ f.rule = "08a"
      BY <2>1, <3>1, Tuples DEF Rest, Stations, Guard
    <3> QED BY <1>0, <3>1, <3>2 DEF Concern, Addressed, LoopRules, RunRules
  <2>3. \A l \in Loops : LoopShape(l)' /\ SameLoop(l)
    BY <1>0, <2>1, SameLoops DEF SameLoop
  <2>4. MatchedHolds'
    BY <1>0, <2>1, <2>3, MatchedStep DEF SameRun
  <2>5. Finished' = Finished /\ \A s \in Stations : Concern(s)' = Concern(s)
    BY <2>1, SameLoops DEF Concern
  <2>6. \A s \in Stations : queue'[s] \in Seq(Concern(s))
    <3>1. queue[Head(f.todo)] \in Seq(Concern(Head(f.todo)))
      BY <1>0, <2>1 DEF Addressed
    <3>2. queue'[Head(f.todo)] \in Seq(Concern(Head(f.todo)))
      BY <2>1, <2>2, <3>1, AppendProperties
    <3> QED BY <1>0, <2>1, <3>2 DEF Addressed
  <2>7. Addressed'
    BY <1>0, <1>3, <2>1, <2>5, <2>6 DEF Addressed
  <2> QED BY <1>1, <2>3, <2>4, <2>7 DEF Shape
<1>8. CASE LoseAction(f)
  <2>1. UNCHANGED <<run, loop, matched, queue, job>>
    BY <1>8 DEF LoseAction
  <2>2. SameRun /\ \A l \in Loops : SameLoop(l)
    BY <2>1 DEF SameRun, SameLoop
  <2> QED BY <1>0, <1>1, <1>3, <2>1, <2>2, SameLoops, MatchedStep, ShapeFrame
<1> QED BY <1>4, <1>5, <1>6, <1>7, <1>8 DEF Act

LEMMA ToolShape ==
  ASSUME Shape, NEW l \in Loops, ToolNext(l) \/ EndNext(l)
  PROVE  Shape'
<1>0. /\ Typed /\ MatchedHolds /\ Addressed /\ matched \subseteq RuleOn
      /\ \A k \in Loops : LoopShape(k)
  BY ShapeParts
<1>1. Typed'
  BY <1>0, ToolTyped
<1>2. CASE Patching(l)
  <2>1. /\ OnlyLoop(l) /\ SameLoop(l) /\ SameRun /\ loop[l].role = "developer"
        /\ loop[l].pc \in {"working", "stamping", "measuring"}
        /\ loop'[l].pc \in {"working", "stamping", "measuring"}
        /\ UNCHANGED <<firing, matched, queue, job>>
    BY <1>0, <1>2, PatchingEffect
  <2>2. LoopShape(l)' /\ l \notin Finished
    BY <1>0, <2>1 DEF LoopShape, SameLoop, Finished, Roles
  <2>3. (\A k \in Loops : LoopShape(k)') /\ Finished \subseteq Finished'
    BY <2>1, <2>2, OneLoopShape DEF OnlyLoop
  <2>4. \A k \in Loops : SameLoop(k)
    BY <2>1 DEF OnlyLoop, SameLoop
  <2> QED BY <1>0, <1>1, <2>1, <2>3, <2>4, MatchedStep, ShapeFrame
<1>3. ASSUME NEW b \in BOOLEAN, SubmitReview(l, b) PROVE Shape'
  <2>1. /\ OnlyLoop(l) /\ SameLoop(l) /\ loop[l].role = "reviewer" /\ loop[l].pc = "working"
        /\ loop'[l].pc \in {"working", "mirroring"} /\ RuleState
        /\ UNCHANGED <<firing, queue, job>>
    BY <1>0, <1>3, SubmitEffect
  <2>2. LoopShape(l)' /\ l \notin Finished
    BY <1>0, <2>1 DEF LoopShape, SameLoop, Finished, Roles
  <2>3. (\A k \in Loops : LoopShape(k)') /\ Finished \subseteq Finished'
    BY <2>1, <2>2, OneLoopShape DEF OnlyLoop
  <2> QED BY <1>0, <1>1, <2>1, <2>3, MatchedStep, ShapeFrame
<1>4. CASE MirrorVerdict(l)
  <2>1. /\ OnlyLoop(l) /\ loop[l].pc = "mirroring" /\ RuleState
        /\ UNCHANGED <<firing, queue, job>>
        /\ UNCHANGED <<loop[l].role, loop[l].passed, loop[l].rejected>>
        /\ \/ loop'[l].pc = "mirrored" /\ loop'[l].verdict \in {"approved", "changes_requested"}
           \/ SameLoop(l) /\ loop'[l].pc = "working"
    BY <1>0, <1>4, MirrorEffect
  <2>2. LoopShape(l)' /\ l \notin Finished
    BY <1>0, <2>1 DEF LoopShape, SameLoop, Finished, Roles
  <2>3. (\A k \in Loops : LoopShape(k)') /\ Finished \subseteq Finished'
    BY <2>1, <2>2, OneLoopShape DEF OnlyLoop
  <2> QED BY <1>0, <1>1, <2>1, <2>3, MatchedStep, ShapeFrame
<1>5. ASSUME NEW t \in BOOLEAN, EndLoop(l, t) PROVE Shape'
  <2>1. /\ OnlyLoop(l) /\ loop[l].pc \in {"working", "mirrored"} /\ loop'[l].pc = "ended"
        /\ UNCHANGED <<firing, queue, job>> /\ RuleState
        /\ UNCHANGED <<loop[l].role, loop[l].passed, loop[l].rejected, loop[l].verdict>>
    BY <1>0, <1>5, EndEffect
  <2>2. LoopShape(l)' /\ l \notin Finished
    BY <1>0, <2>1 DEF LoopShape, Finished, Roles
  <2>3. (\A k \in Loops : LoopShape(k)') /\ Finished \subseteq Finished'
    BY <2>1, <2>2, OneLoopShape DEF OnlyLoop
  <2> QED BY <1>0, <1>1, <2>1, <2>3, MatchedStep, ShapeFrame
<1> QED BY <1>2, <1>3, <1>4, <1>5 DEF ToolNext, EndNext, Patching

LEMMA StationCases ==
  ASSUME NEW s \in Stations, StationNext(s) \/ HandleError(s) \/ DropDispatch(s)
  PROVE  \/ Take(s) \/ StampDispatchFailed(s) \/ Handling(s)
         \/ s = "floors" /\ \E b \in BOOLEAN : RunFloors(b)
         \/ s = "verify" /\ \E o \in {"pass", "fail"} : StampVerify(o)
         \/ s = "delivery" /\ StampPR
  BY DEF StationNext, Handling

LEMMA StationShape ==
  ASSUME Shape, NEW s \in Stations, StationNext(s) \/ HandleError(s) \/ DropDispatch(s)
  PROVE  Shape'
<1>0. /\ Typed /\ MatchedHolds /\ Addressed /\ matched \subseteq RuleOn
      /\ \A k \in Loops : LoopShape(k)
  BY ShapeParts
<1>1. Typed'
  BY <1>0, StationTyped
(* The dispatch is taken, held or put down.                                *)
<1>2. ASSUME Finished \subseteq Finished', firing' = firing,
             \/ queue' = queue /\ (Holds(s) \/ PutsDown(s))
             \/ Take(s)
      PROVE  Addressed'
  <2>1. \A t \in Stations : queue'[t] = queue[t] \/ queue'[t] = <<>>
                            \/ (queue[t] # <<>> /\ queue'[t] = Tail(queue[t]))
    BY <1>0, <1>2, TakeEffect
  <2>2. ASSUME job[s].pc # "idle" \/ Take(s)
        PROVE  \A t \in Stations : job'[t].pc # "idle" =>
                 \/ job[t].pc # "idle" /\ job'[t].on = job[t].on
                 \/ queue[t] # <<>> /\ job'[t].on = Head(queue[t])
    BY <1>0, <1>2, <2>2, TakeEffect DEF Holds, PutsDown, OnlyJob, NoJob
  <2>3. job[s].pc # "idle" \/ Take(s)
    BY <1>0, StationCases, HandlingEffect, FloorsEffect DEF StampDispatchFailed, RunFloors,
       StampVerify, StampPR
  <2> QED BY <1>0, <1>2, <2>1, <2>2, <2>3, AddressedStays
<1>3. CASE Take(s)
  <2>1. UNCHANGED <<run, loop, firing, matched>>
    BY <1>0, <1>3, TakeEffect
  <2>2. SameRun /\ \A l \in Loops : SameLoop(l)
    BY <2>1 DEF SameRun, SameLoop
  <2>3. (\A l \in Loops : LoopShape(l)') /\ Finished' = Finished
    BY <1>0, <2>1, SameLoops
  <2> QED BY <1>0, <1>1, <1>2, <1>3, <2>1, <2>2, <2>3, MatchedStep DEF Shape
<1>4. CASE StampDispatchFailed(s)
  <2>1. /\ AddsMark(job[s].on, "failed") /\ job[s].on \in Loops \cup {Run} /\ PutsDown(s)
        /\ RuleState /\ UNCHANGED <<firing, queue>>
    BY <1>0, <1>4, StampFailedEffect
  <2>2. (\A l \in Loops : LoopShape(l)') /\ Finished' = Finished
    BY <1>0, <2>1, MarkShape
  <2> QED BY <1>0, <1>1, <1>2, <2>1, <2>2, MatchedStep DEF Shape
<1>5. CASE Handling(s)
  <2>1. /\ UNCHANGED <<loop, firing, queue>> /\ (Holds(s) \/ PutsDown(s))
        /\ (matched' = matched /\ SameRun) \/ RuleState
    BY <1>0, <1>5, HandlingEffect
  <2>2. (\A l \in Loops : LoopShape(l)') /\ Finished' = Finished /\ \A l \in Loops : SameLoop(l)
    BY <1>0, <2>1, SameLoops DEF SameLoop
  <2> QED BY <1>0, <1>1, <1>2, <2>1, <2>2, MatchedStep DEF Shape
<1>6. ASSUME s = "floors", NEW b \in BOOLEAN, RunFloors(b) PROVE Shape'
  <2>1. PICK l \in Loops : l = job["floors"].on /\ l \in Finished
    BY <1>0, <1>6 DEF RunFloors, Addressed, Concern, Finished
  <2>2. /\ RuleState /\ UNCHANGED <<firing, queue>>
        /\ Holds("floors") \/ PutsDown("floors")
        /\ \/ /\ OnlyLoop(l) /\ loop'[l].passed \in {"true", "false"}
              /\ UNCHANGED <<loop[l].role, loop[l].pc, loop[l].verdict>>
           \/ loop' = loop
    BY <1>0, <1>6, <2>1, FloorsEffect
  <2>3. (\A k \in Loops : LoopShape(k)') /\ Finished \subseteq Finished'
    <3>1. CASE loop' = loop
      BY <1>0, <3>1, SameLoops
    <3>2. CASE /\ OnlyLoop(l) /\ loop'[l].passed \in {"true", "false"}
               /\ UNCHANGED <<loop[l].role, loop[l].pc, loop[l].verdict>>
      <4>1. LoopShape(l)' /\ (l \in Finished => l \in Finished')
        BY <1>0, <2>1, <3>2 DEF LoopShape, Finished
      <4> QED BY <2>1, <3>2, <4>1, OneLoopShape DEF OnlyLoop
    <3> QED BY <2>2, <3>1, <3>2
  <2> QED BY <1>0, <1>1, <1>2, <1>6, <2>2, <2>3, MatchedStep DEF Shape
<1>7. ASSUME s = "verify", NEW o \in {"pass", "fail"}, StampVerify(o) PROVE Shape'
  <2>1. RuleState /\ UNCHANGED <<loop, firing, queue>> /\ PutsDown(s)
    BY <1>0, <1>7, DecideEffect
  <2>2. (\A l \in Loops : LoopShape(l)') /\ Finished' = Finished
    BY <1>0, <2>1, SameLoops
  <2> QED BY <1>0, <1>1, <1>2, <2>1, <2>2, MatchedStep DEF Shape
<1>8. CASE s = "delivery" /\ StampPR
  <2>1. RuleState /\ UNCHANGED <<loop, firing, queue>> /\ PutsDown(s)
    BY <1>0, <1>8, StampPREffect
  <2>2. (\A l \in Loops : LoopShape(l)') /\ Finished' = Finished
    BY <1>0, <2>1, SameLoops
  <2> QED BY <1>0, <1>1, <1>2, <2>1, <2>2, MatchedStep DEF Shape
<1> QED BY <1>3, <1>4, <1>5, <1>6, <1>7, <1>8, StationCases

LEMMA RestartShape == ASSUME Shape, Restart PROVE Shape'
<1>0. /\ Typed /\ MatchedHolds /\ Addressed /\ \A l \in Loops : LoopShape(l)
      /\ matched \subseteq RuleOn
  BY ShapeParts
<1>1. /\ firing' = {} /\ loop' = loop /\ run' = run /\ (matched' = matched \/ matched' = {})
      /\ \A s \in Stations : queue'[s] = <<>> /\ job'[s] = NoJob
  BY DEF Restart
<1>2. SameRun /\ \A l \in Loops : SameLoop(l)
  BY <1>1 DEF SameRun, SameLoop
<1>3. MatchedHolds'
  <2>1. CASE matched' = matched
    BY <1>0, <1>2, <2>1, MatchedStep
  <2>2. CASE matched' = {}
    BY <2>2 DEF MatchedHolds
  <2> QED BY <1>1, <2>1, <2>2
<1>4. (\A l \in Loops : LoopShape(l)') /\ Finished' = Finished
  BY <1>0, <1>1, SameLoops
<1>5. Addressed'
  BY <1>0, <1>1, <1>4, AddressedStays DEF NoJob
<1> QED BY <1>0, <1>3, <1>4, <1>5, RestartTyped DEF Shape

LEMMA StepShape == Shape /\ [Next]_vars => Shape'
<1> SUFFICES ASSUME Shape, [Next]_vars PROVE Shape'
  OBVIOUS
<1>1. CASE UNCHANGED vars
  <2>1. Typed'
    BY <1>1, StepTyped, ShapeParts DEF vars
  <2>2. /\ UNCHANGED <<run, loop, firing, matched, queue, job>>
    BY <1>1 DEF vars
  <2>3. SameRun /\ \A l \in Loops : SameLoop(l)
    BY <2>2 DEF SameRun, SameLoop
  <2> QED BY <2>1, <2>2, <2>3, SameLoops, ShapeParts, MatchedStep, ShapeFrame
<1>2. CASE Next
  BY <1>2, FireShape, EngineShape, ToolShape, StationShape, RestartShape DEF Next, EngineNext
<1> QED BY <1>1, <1>2

(* The loop keeps its types, whatever is lost, retried or forgotten: every *)
(* rule action is one the engine knows, every dispatch and job names an    *)
(* entity that exists, and the run's facts stay within their vocabulary.   *)
THEOREM TypeCorrect == Spec => []TypeOK
<1>1. Init => Shape
  BY InitShape
<1>2. Shape /\ [Next]_vars => Shape'
  BY StepShape
<1>3. Shape => TypeOK
  BY DEF Shape, Typed
<1> QED BY <1>1, <1>2, <1>3, PTL DEF Spec

=============================================================================
