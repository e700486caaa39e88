---------------------------- MODULE DevLoopProofs ----------------------------
(***************************************************************************)
(* Proofs about DevLoop, for any budget, any number of loops and any       *)
(* faults: what the single baton buys.  The spend stays within the budget, *)
(* what is delivered is what was measured and proved, and the loop         *)
(* implements the plain sequence of turns of TaskAttempt.                  *)
(***************************************************************************)
EXTENDS DevLoopBaton

(* The spend.  A developer is paid for from the ledger entry its rule made *)
(* just before, or by the failure to make one; the facts that rules 06 and *)
(* 07 compare with the budget are the run's own when they are compared.    *)
Owed == IF \E f \in firing : f.todo = <<"developer">> THEN 1 ELSE 0
StillTo(f, s) == \E i \in 1..Len(f.todo) : f.todo[i] = s

Paid ==
  /\ run.attempts <= Budget /\ run.transients <= TransientCap
  /\ Cardinality(Developers) + Owed <= run.attempts + run.transients + used.lost
Allowed ==
  \A f \in firing : /\ StillTo(f, "attempt") => run.attempts < Budget
                    /\ StillTo(f, "transient") => run.transients < TransientCap
Current(w) ==
  /\ \A l \in Places(w, "trigger") : loop[l].role = "coordinator" => run.attempts < Budget
  /\ \A l \in Places(w, "route") :
       loop[l].attempts = run.attempts /\ loop[l].transients = run.transients
  /\ \A l \in Places(w, "review") : loop[l].verdict # "none" => loop[l].attempts = run.attempts

Spend(w) == Paid /\ Allowed /\ Current(w)
SpendInv(w) == World(w) => Spend(w)

-----------------------------------------------------------------------------
(* Who holds the baton.                                                    *)

LEMMA HolderPlace ==
  ASSUME Shape, NEW w \in Worlds, Relay(w), NEW f \in firing, f.rule \notin Cleaning \cup Surrender
  PROVE  f \in Places(w, "carrier") \/ (w = "marked" /\ Waiting(f))
  BY At DEF Carries, Waiting, Pending, Moot, Surrender, Worlds

LEMMA OnlyHolder ==
  ASSUME Shape, NEW w \in Worlds, Relay(w), NEW k \in {"live", "carrier", "queue", "job"},
         NEW a \in Places(w, k)
  PROVE  \A g \in firing : g.rule \notin Cleaning \cup Surrender => k = "carrier" /\ g = a
<1>1. Baton(w) /\ Judged /\ (w = "marked" => Remembered) /\ k \in Kinds /\ "carrier" \in Kinds
  BY RelayParts DEF Kinds
<1>2. \A i \in Kinds : \A x \in Places(w, i) : i = k /\ x = a
  BY <1>1, Alone
<1>3. w = "marked" => \A f \in firing : ~Waiting(f)
  BY <1>1, NoneWaiting
<1> QED BY <1>1, <1>2, <1>3, HolderPlace

LEMMA CarrierHolds ==
  ASSUME Shape, NEW w \in Worlds, NEW f \in firing, f.rule \notin Cleaning \cup Surrender,
         f.todo # Does(f.rule)
  PROVE  f \in Places(w, "carrier")
  BY At DEF Carries, Worlds

-----------------------------------------------------------------------------
(* What is still to be done.                                               *)

LEMMA InTuple ==
  /\ \A a, s : (\E i \in 1..Len(<<a>>) : <<a>>[i] = s) <=> s = a
  /\ \A a, b, s : (\E i \in 1..Len(<<a, b>>) : <<a, b>>[i] = s) <=> s \in {a, b}
  /\ \A a, b, c, s : (\E i \in 1..Len(<<a, b, c>>) : <<a, b, c>>[i] = s) <=> s \in {a, b, c}
<1>1. \A a, s : (\E i \in 1..Len(<<a>>) : <<a>>[i] = s) <=> s = a
  OBVIOUS
<1>2. ASSUME NEW a, NEW b, NEW s
      PROVE  (\E i \in 1..Len(<<a, b>>) : <<a, b>>[i] = s) <=> s \in {a, b}
  <2>1. Len(<<a, b>>) = 2 /\ \A i \in 1..2 : i = 1 \/ i = 2
    OBVIOUS
  <2>2. 1 \in 1..2 /\ 2 \in 1..2 /\ <<a, b>>[1] = a /\ <<a, b>>[2] = b
    OBVIOUS
  <2> QED BY <2>1, <2>2
<1>3. ASSUME NEW a, NEW b, NEW c, NEW s
      PROVE  (\E i \in 1..Len(<<a, b, c>>) : <<a, b, c>>[i] = s) <=> s \in {a, b, c}
  <2>1. Len(<<a, b, c>>) = 3 /\ \A i \in 1..3 : i = 1 \/ i = 2 \/ i = 3
    OBVIOUS
  <2>2. /\ 1 \in 1..3 /\ 2 \in 1..3 /\ 3 \in 1..3
        /\ <<a, b, c>>[1] = a /\ <<a, b, c>>[2] = b /\ <<a, b, c>>[3] = c
    OBVIOUS
  <2> QED BY <2>1, <2>2
<1> QED BY <1>1, <1>2, <1>3

LEMMA StillRules ==
  ASSUME Typed, NEW f \in firing
  PROVE  /\ StillTo(f, "attempt") => f.rule \in {"04", "06c", "07b"}
         /\ StillTo(f, "attempt") => f.todo = Does(f.rule) \/ f.todo = <<"attempt", "developer">>
         /\ StillTo(f, "transient") => f.rule = "06f"
         /\ StillTo(f, "transient") => f.todo = Does(f.rule) \/ f.todo = <<"transient", "developer">>
         /\ f.todo = <<"developer">> => /\ f.rule \notin Cleaning \cup Surrender
                                        /\ f.todo # Does(f.rule)
         /\ Head(f.todo) = "attempt" => StillTo(f, "attempt")
         /\ Head(f.todo) = "transient" => StillTo(f, "transient")
<1>1. Rest(f.rule, f.todo) /\ f.rule \in LoopRules \cup RunRules
  BY FiringFacts
<1>2. CASE f.todo = Does(f.rule) /\ f.rule \notin Cleaning \cup Surrender
  <2>0. Head(f.todo) = Guard(f.rule) /\ Guard(f.rule) \in {"dispatched", "routed"}
    BY <1>1, <1>2, Tuples DEF Rest, Guard
  <2>1. CASE f.rule \in {"04", "06c", "07b"}
    <3>1. \E d \in {"dispatched", "routed"} : f.todo = <<d, "attempt", "developer">>
      BY <1>2, <2>1, Table
    <3>2. ~StillTo(f, "transient") /\ f.todo # <<"developer">>
      BY <3>1, InTuple, Tuples DEF StillTo
    <3> QED BY <1>2, <2>0, <2>1, <3>2
  <2>2. CASE f.rule = "06f"
    <3>1. f.todo = <<"routed", "transient", "developer">>
      BY <1>2, <2>2, Table
    <3>2. ~StillTo(f, "attempt") /\ f.todo # <<"developer">>
      BY <3>1, InTuple, Tuples DEF StillTo
    <3> QED BY <1>2, <2>0, <2>2, <3>2
  <2>3. CASE f.rule \notin {"04", "06c", "07b", "06f"}
    <3>1. \E d \in {"dispatched", "routed"} : \E x \in Roles \cup Stations \cup {"park"} : f.todo = <<d, x>>
      BY <1>1, <1>2, <2>3, Table DEF LoopRules, RunRules, Cleaning, Surrender, Roles, Stations
    <3>2. ~StillTo(f, "attempt") /\ ~StillTo(f, "transient") /\ f.todo # <<"developer">>
      BY <3>1, InTuple, Tuples DEF StillTo, Roles, Stations
    <3> QED BY <2>0, <3>2
  <2> QED BY <2>1, <2>2, <2>3
<1>3. CASE f.rule \in Cleaning
  <2>1. f.todo = <<"unclean">>
    BY <1>1, <1>3 DEF Rest, Cleaning, Surrender
  <2>2. ~StillTo(f, "attempt") /\ ~StillTo(f, "transient") /\ f.todo # <<"developer">>
    BY <2>1, InTuple, Tuples DEF StillTo
  <2> QED BY <2>1, <2>2, Tuples
<1>4. CASE f.rule \in Surrender
  <2>1. f.todo = <<"park", "park-routed">> \/ f.todo = <<"park-routed">>
    BY <1>1, <1>4 DEF Rest, Cleaning, Surrender
  <2>2. ~StillTo(f, "attempt") /\ ~StillTo(f, "transient") /\ f.todo # <<"developer">>
    BY <2>1, InTuple, Tuples DEF StillTo
  <2> QED BY <2>1, <2>2, Tuples
<1>5. CASE f.rule \notin Cleaning \cup Surrender /\ f.todo # Does(f.rule)
  <2>1. CASE f.todo = <<"attempt", "developer">> /\ f.rule \in {"04", "06c", "07b"}
    <3>1. StillTo(f, "attempt") /\ ~StillTo(f, "transient")
      BY <2>1, InTuple DEF StillTo
    <3> QED BY <1>5, <2>1, <3>1, Tuples
  <2>2. CASE f.todo = <<"transient", "developer">> /\ f.rule = "06f"
    <3>1. StillTo(f, "transient") /\ ~StillTo(f, "attempt")
      BY <2>2, InTuple DEF StillTo
    <3> QED BY <1>5, <2>2, <3>1, Tuples
  <2>3. CASE \E x \in Roles \cup Stations \cup {"park"} : f.todo = <<x>>
    <3>1. ~StillTo(f, "attempt") /\ ~StillTo(f, "transient")
      BY <2>3, InTuple DEF StillTo, Roles, Stations
    <3>2. Head(f.todo) \in Roles \cup Stations \cup {"park"}
      BY <2>3, Tuples
    <3> QED BY <1>5, <3>1, <3>2 DEF Roles, Stations
  <2> QED BY <1>1, <1>5, <2>1, <2>2, <2>3 DEF Rest, Roles, Stations
<1> QED BY <1>2, <1>3, <1>4, <1>5

LEMMA RestedStill ==
  ASSUME Typed, NEW f \in firing, Advance(f), Len(f.todo) > 1
  PROVE  \A s : StillTo(Rested(f), s) => StillTo(f, s)
<1>1. f.todo \in Seq(Steps) /\ Rested(f).todo = Tail(f.todo)
  BY FiringFacts, AdvanceFacts DEF Firing
<1>2. Len(Tail(f.todo)) = Len(f.todo) - 1 /\ \A i \in 1..Len(Tail(f.todo)) : Tail(f.todo)[i] = f.todo[i + 1]
  BY <1>1
<1> QED BY <1>1, <1>2 DEF StillTo

-----------------------------------------------------------------------------
(* The spend.                                                              *)

LEMMA Finite ==
  ASSUME Shape
  PROVE  /\ IsFiniteSet(Developers) /\ Cardinality(Developers) \in Nat
         /\ \A D : D \subseteq Developers => Cardinality(D) <= Cardinality(Developers) /\ Cardinality(D) \in Nat
         /\ \A D, l : D \subseteq Developers \cup {l} =>
              Cardinality(D) <= Cardinality(Developers) + 1 /\ Cardinality(D) \in Nat
<1>1. MaxLoops \in Nat
  BY LoopAssumption
<1>2. IsFiniteSet(Loops)
  BY <1>1, FS_Interval DEF Loops
<1>3. IsFiniteSet(Developers) /\ Cardinality(Developers) \in Nat
  BY <1>2, FS_Subset, FS_CardinalityType DEF Developers
<1>4. ASSUME NEW D, D \subseteq Developers
      PROVE  Cardinality(D) <= Cardinality(Developers) /\ Cardinality(D) \in Nat
  BY <1>3, <1>4, FS_Subset, FS_CardinalityType
<1>5. ASSUME NEW D, NEW l, D \subseteq Developers \cup {l}
      PROVE  Cardinality(D) <= Cardinality(Developers) + 1 /\ Cardinality(D) \in Nat
  <2>1. /\ IsFiniteSet(Developers \cup {l})
        /\ Cardinality(Developers \cup {l}) = Cardinality(Developers) \/ Cardinality(Developers \cup {l}) = Cardinality(Developers) + 1
    BY <1>3, FS_AddElement
  <2>2. IsFiniteSet(D) /\ Cardinality(D) <= Cardinality(Developers \cup {l}) /\ Cardinality(D) \in Nat
        /\ Cardinality(Developers \cup {l}) \in Nat
    BY <1>5, <2>1, FS_Subset, FS_CardinalityType
  <2> QED BY <1>3, <2>1, <2>2
<1> QED BY <1>3, <1>4, <1>5

LEMMA OwedFacts ==
  /\ Owed \in {0, 1} /\ Owed' \in {0, 1}
  /\ Owed = 0 <=> \A f \in firing : f.todo # <<"developer">>
  /\ Owed' = 0 <=> \A f \in firing' : f.todo # <<"developer">>
  BY DEF Owed

LEMMA Numbers ==
  ASSUME Shape
  PROVE  /\ run.attempts \in Nat /\ run.transients \in Nat /\ used.lost \in Nat
         /\ Budget \in Nat /\ TransientCap \in Nat
  BY ShapeParts, TypeParts, LoopAssumption DEF RunFacts, Usage

LEMMA NumbersNext ==
  ASSUME Shape'
  PROVE  run'.attempts \in Nat /\ run'.transients \in Nat /\ used'.lost \in Nat
<1>1. run' \in RunFacts /\ used' \in Usage
  BY DEF Shape, Typed, TypeOK
<1> QED BY <1>1 DEF RunFacts, Usage

LEMMA PaidStays ==
  ASSUME Shape, Shape', Paid, UNCHANGED <<run.attempts, run.transients>>, used.lost <= used'.lost,
         Developers' \subseteq Developers,
         \A f \in firing' : f.todo = <<"developer">> => \E g \in firing : g.todo = <<"developer">>
  PROVE  Paid'
<1>1. Owed \in {0, 1} /\ Owed' \in {0, 1} /\ (Owed = 0 => Owed' = 0)
  BY OwedFacts
<1>2. Owed' <= Owed
  BY <1>1
<1>3. Cardinality(Developers') <= Cardinality(Developers) /\ Cardinality(Developers) \in Nat
      /\ Cardinality(Developers') \in Nat
  BY Finite
<1>4. used'.lost \in Nat
  BY NumbersNext
<1> QED BY <1>1, <1>2, <1>3, <1>4, Numbers DEF Paid

LEMMA AllowedStays ==
  ASSUME Allowed, UNCHANGED <<run.attempts, run.transients>>,
         \A f \in firing' : \E g \in firing : \A s : StillTo(f, s) => StillTo(g, s)
  PROVE  Allowed'
  BY DEF Allowed, StillTo

LEMMA CurrentStays ==
  ASSUME NEW w, Current(w), UNCHANGED <<run.attempts, run.transients>>,
         \A k \in {"trigger", "route", "review"} : \A x \in Places(w, k)' :
            /\ x \in Places(w, k)
            /\ UNCHANGED <<loop[x].role, loop[x].attempts, loop[x].transients, loop[x].verdict>>
  PROVE  Current(w)'
  BY DEF Current

-----------------------------------------------------------------------------
(* The spend, action by action.                                            *)

LEMMA Spared ==
  ASSUME NEW r \in LoopRules \cup RunRules
  PROVE  /\ Does(r) # <<"developer">>
         /\ (\E i \in 1..Len(Does(r)) : Does(r)[i] = "attempt") => r \in {"04", "06c", "07b"}
         /\ (\E i \in 1..Len(Does(r)) : Does(r)[i] = "transient") => r = "06f"
<1>1. CASE r \in {"04", "06c", "07b"}
  <2>1. \E d \in {"dispatched", "routed"} : Does(r) = <<d, "attempt", "developer">>
    BY <1>1, Table
  <2>2. ~(\E i \in 1..Len(Does(r)) : Does(r)[i] = "transient") /\ Does(r) # <<"developer">>
    BY <2>1, InTuple, Tuples
  <2> QED BY <1>1, <2>2
<1>2. CASE r = "06f"
  <2>1. Does(r) = <<"routed", "transient", "developer">>
    BY <1>2, Table
  <2>2. ~(\E i \in 1..Len(Does(r)) : Does(r)[i] = "attempt") /\ Does(r) # <<"developer">>
    BY <2>1, InTuple, Tuples
  <2> QED BY <1>2, <2>2
<1>3. CASE r \in Cleaning
  <2>1. Does(r) = <<"unclean">>
    BY <1>3, Table
  <2>2. /\ ~(\E i \in 1..Len(Does(r)) : Does(r)[i] = "attempt")
        /\ ~(\E i \in 1..Len(Does(r)) : Does(r)[i] = "transient")
    BY <2>1, InTuple
  <2> QED BY <2>1, <2>2
<1>4. CASE r \notin Cleaning \cup {"04", "06c", "07b", "06f"}
  <2>1. \E d \in {"dispatched", "routed", "park"} : \E x \in {"reviewer", "park", "park-routed"} \cup Stations : Does(r) = <<d, x>>
    BY <1>4, Table DEF LoopRules, RunRules, Cleaning, Surrender, Stations
  <2>2. /\ ~(\E i \in 1..Len(Does(r)) : Does(r)[i] = "attempt")
        /\ ~(\E i \in 1..Len(Does(r)) : Does(r)[i] = "transient")
        /\ Does(r) # <<"developer">>
    BY <2>1, InTuple, Tuples DEF Stations
  <2> QED BY <2>2
<1> QED BY <1>1, <1>2, <1>3, <1>4

LEMMA Owing ==
  ASSUME Typed, NEW f \in firing
  PROVE  /\ Head(f.todo) = "attempt" => f.todo = <<"attempt", "developer">>
         /\ Head(f.todo) = "transient" => f.todo = <<"transient", "developer">>
         /\ Head(f.todo) = "developer" => f.todo = <<"developer">>
         /\ Len(f.todo) > 1 /\ Tail(f.todo) = <<"developer">> => Head(f.todo) \in {"attempt", "transient"}
<1>1. Rest(f.rule, f.todo) /\ f.rule \in LoopRules \cup RunRules
  BY FiringFacts
<1>2. CASE f.todo = Does(f.rule) /\ f.rule \notin Cleaning \cup Surrender
  <2>1. Head(f.todo) \in {"dispatched", "routed"}
    BY <1>1, <1>2, Tuples DEF Rest, Guard
  <2>2. CASE f.rule \in {"04", "06c", "07b", "06f"}
    <3>1. \E d \in {"dispatched", "routed"} : \E a \in {"attempt", "transient"} : f.todo = <<d, a, "developer">>
      BY <1>2, <2>2, Table
    <3> QED BY <2>1, <3>1, Tuples
  <2>3. CASE f.rule \notin {"04", "06c", "07b", "06f"}
    <3>1. \E d \in {"dispatched", "routed"} : \E x \in {"reviewer", "park"} \cup Stations : f.todo = <<d, x>>
      BY <1>1, <1>2, <2>3, Table DEF LoopRules, RunRules, Cleaning, Surrender, Stations
    <3>2. Tail(f.todo) # <<"developer">>
      BY <3>1, Tuples DEF Stations
    <3> QED BY <2>1, <3>2
  <2> QED BY <2>2, <2>3
<1>3. CASE f.rule \in Cleaning
  <2>1. f.todo = <<"unclean">>
    BY <1>1, <1>3 DEF Rest, Cleaning, Surrender
  <2> QED BY <2>1, Tuples, Longer
<1>4. CASE f.rule \in Surrender
  <2>1. f.todo = <<"park", "park-routed">> \/ f.todo = <<"park-routed">>
    BY <1>1, <1>4 DEF Rest, Cleaning, Surrender
  <2>2. <<"park-routed">> # <<"developer">>
    BY Tuples
  <2>3. CASE f.todo = <<"park", "park-routed">>
    BY <2>2, <2>3, Tuples
  <2>4. CASE f.todo = <<"park-routed">>
    BY <2>4, Tuples, Longer
  <2> QED BY <2>1, <2>3, <2>4
<1>5. CASE f.rule \notin Cleaning \cup Surrender /\ f.todo # Does(f.rule)
  <2>1. \/ f.todo = <<"attempt", "developer">> \/ f.todo = <<"transient", "developer">>
        \/ \E x \in Roles \cup Stations \cup {"park"} : f.todo = <<x>>
    BY <1>1, <1>5 DEF Rest, Roles, Stations
  <2>2. CASE f.todo = <<"attempt", "developer">> \/ f.todo = <<"transient", "developer">>
    BY <2>2, Tuples
  <2>3. CASE \E x \in Roles \cup Stations \cup {"park"} : f.todo = <<x>>
    <3>1. PICK x \in Roles \cup Stations \cup {"park"} : f.todo = <<x>>
      BY <2>3
    <3>2. Head(f.todo) = x /\ ~(Len(f.todo) > 1)
      BY <3>1, Tuples, Longer
    <3>3. x # "attempt" /\ x # "transient"
      BY DEF Roles, Stations
    <3> QED BY <3>1, <3>2, <3>3
  <2> QED BY <2>1, <2>2, <2>3
<1> QED BY <1>2, <1>3, <1>4, <1>5

LEMMA FireSpend ==
  ASSUME Shape, Shape', NEW w \in Worlds, Relay(w), Spend(w),
         NEW r, NEW e, <<r, e>> \in RuleOn, Fire(r, e)
  PROVE  Spend(w)'
<1> DEFINE n == [rule |-> r, on |-> e, todo |-> Does(r)]
<1>1. /\ <<r, e>> \notin matched /\ When(r, e) /\ matched' = matched \cup {<<r, e>>}
      /\ firing' = firing \cup {n} /\ UNCHANGED <<run, loop, used>>
  BY DEF Fire
<1>2. r \in LoopRules \cup RunRules /\ n.todo = Does(r) /\ (r \in LoopRules => e \in Loops)
  BY RuleOnFacts
<1>3. Paid'
  <2>1. \A f \in firing' : f.todo = <<"developer">> => \E g \in firing : g.todo = <<"developer">>
    BY <1>1, <1>2, Spared
  <2> QED BY <1>1, <2>1, Numbers, PaidStays DEF Spend, Developers
<1>4. Current(w)'
  <2>1. \A k \in LoopKinds : Places(w, k)' \subseteq Places(w, k)
    BY <1>1, FactsFrame
  <2> QED BY <1>1, <2>1, CurrentStays DEF Spend, LoopKinds
<1>5. Judged
  BY RelayParts
<1>6. StillTo(n, "attempt") => run.attempts < Budget
  <2> SUFFICES ASSUME StillTo(n, "attempt") PROVE run.attempts < Budget
    OBVIOUS
  <2>1. r \in {"04", "06c", "07b"} /\ r \in LoopRules /\ e \in Loops /\ r \notin Cleaning
    BY <1>2, Spared DEF StillTo, LoopRules, Cleaning
  <2>2. e \in Places(w, Origin(r))
    BY <1>1, <1>5, <2>1, FireOrigin
  <2>3. CASE r = "04"
    <3>1. e \in Places(w, "trigger")
      BY <2>2, <2>3, Origins
    <3>2. loop[e].role = "coordinator"
      BY <1>1, <2>1, <2>3, WhenLoop DEF Dispatch
    <3> QED BY <3>1, <3>2 DEF Spend, Current
  <2>4. CASE r = "06c"
    <3>1. e \in Places(w, "route")
      BY <2>2, <2>4, Origins DEF Routing
    <3>2. loop[e].attempts < Budget
      BY <1>1, <2>1, <2>4, WhenLoop DEF RouteRetry
    <3> QED BY <3>1, <3>2 DEF Spend, Current
  <2>5. CASE r = "07b"
    <3>1. e \in Places(w, "review")
      BY <2>2, <2>5, Origins DEF Reviewing
    <3>2. loop[e].attempts < Budget /\ loop[e].verdict # "none"
      BY <1>1, <2>1, <2>5, WhenLoop DEF ReviewRetry
    <3> QED BY <3>1, <3>2 DEF Spend, Current
  <2> QED BY <2>1, <2>3, <2>4, <2>5
<1>7. StillTo(n, "transient") => run.transients < TransientCap
  <2> SUFFICES ASSUME StillTo(n, "transient") PROVE run.transients < TransientCap
    OBVIOUS
  <2>1. r = "06f" /\ e \in Loops /\ r \notin Cleaning
    BY <1>2, Spared DEF StillTo, LoopRules, Cleaning
  <2>2. e \in Places(w, "route")
    BY <1>1, <1>5, <2>1, FireOrigin, Origins DEF Routing
  <2>3. loop[e].transients < TransientCap
    BY <1>1, <2>1, WhenLoop DEF RouteTransientRetry
  <2> QED BY <2>2, <2>3 DEF Spend, Current
<1>8. Allowed'
  BY <1>1, <1>6, <1>7 DEF Spend, Allowed, StillTo
<1> QED BY <1>3, <1>4, <1>8 DEF Spend

LEMMA MarkSpend ==
  ASSUME Shape, Shape', NEW w \in Worlds, Spend(w), NEW f \in firing, AddMark(f)
  PROVE  Spend(w)'
<1>1. /\ Advance(f) /\ RuleState /\ Typed /\ f.on \in Loops \cup {Run} /\ used' = used
      /\ Head(f.todo) \in Marks /\ AddsMark(f.on, Head(f.todo))
  BY ShapeParts, FiringFacts DEF AddMark, AddsMark
<1>2. /\ UNCHANGED <<run.attempts, run.transients>>
      /\ \A k \in Loops : UNCHANGED <<loop[k].role, loop[k].attempts, loop[k].transients, loop[k].verdict>>
  BY <1>1, MarkEffect
<1>3. \A k \in {"trigger", "route", "review"} : Places(w, k)' \subseteq Places(w, k)
  BY <1>1, MarkPlaces
<1>4. Current(w)'
  BY <1>2, <1>3, CurrentStays, InLoops DEF Spend, LoopKinds
<1>5. \A x \in firing' : (x \in firing /\ x # f) \/ (x = Rested(f) /\ Len(f.todo) > 1 /\ x.todo = Tail(f.todo))
  BY <1>1, AdvanceFacts
<1>6. Head(f.todo) \notin {"attempt", "transient"}
  BY <1>1 DEF Marks
<1>7. Paid'
  <2>1. \A x \in firing' : x.todo = <<"developer">> => \E g \in firing : g.todo = <<"developer">>
    BY <1>1, <1>5, <1>6, Owing
  <2> QED BY <1>1, <1>2, <2>1, Numbers, PaidStays DEF Spend, Developers
<1>8. Allowed'
  BY <1>1, <1>2, <1>5, RestedStill, AllowedStays DEF Spend
<1> QED BY <1>4, <1>7, <1>8 DEF Spend

(* Whoever adds to a ledger holds the baton, and nobody else is owed a     *)
(* developer or may add to it.                                             *)
LEMMA LedgerHolder ==
  ASSUME Shape, NEW w \in Worlds, Relay(w), NEW f \in firing,
         Head(f.todo) \in {"attempt", "transient", "developer"}
  PROVE  /\ f \in Places(w, "carrier")
         /\ \A g \in firing : g # f => /\ g.todo # <<"developer">>
                                       /\ ~StillTo(g, "attempt") /\ ~StillTo(g, "transient")
<1>1. Typed
  BY ShapeParts
<1>2. f \in Places(w, "carrier")
  <2>1. f.todo # Does(f.rule) /\ f.rule \notin Cleaning \cup Surrender
    BY <1>1, NextStep DEF Roles
  <2> QED BY <2>1, CarrierHolds
<1>3. \A g \in firing : g # f => g.rule \in Cleaning \cup Surrender
  BY <1>2, OnlyHolder
<1>4. ASSUME NEW g \in firing, g.rule \in Cleaning \cup Surrender
      PROVE  g.todo # <<"developer">> /\ ~StillTo(g, "attempt") /\ ~StillTo(g, "transient")
  BY <1>1, <1>4, StillRules DEF Cleaning, Surrender
<1> QED BY <1>2, <1>3, <1>4

LEMMA LedgerSpend ==
  ASSUME Shape, Shape', NEW w \in Worlds, Relay(w), Spend(w), NEW f \in firing, AddToRun(f)
  PROVE  Spend(w)'
<1>1. /\ Advance(f) /\ RuleState /\ UNCHANGED <<loop, used>> /\ Typed /\ EngineFrame
      /\ \/ /\ Head(f.todo) = "attempt" /\ run'.attempts = run.attempts + 1
            /\ run'.transients = run.transients
         \/ /\ Head(f.todo) = "transient" /\ run'.transients = run.transients + 1
            /\ run'.attempts = run.attempts
         \/ /\ Head(f.todo) = "park" /\ run'.transients = run.transients
            /\ run'.attempts = run.attempts
  BY ShapeParts, AddToRunEffect DEF EngineFrame
<1>2. \A k \in {"trigger", "route", "review"} : Places(w, k)' \subseteq Places(w, k)
  BY <1>1, AllLoops DEF LoopKinds
<1>3. \A x \in firing' : (x \in firing /\ x # f) \/ (x = Rested(f) /\ Len(f.todo) > 1 /\ x.todo = Tail(f.todo))
  BY <1>1, AdvanceFacts
<1>4. Developers' = Developers
  BY <1>1 DEF Developers
<1>5. CASE Head(f.todo) = "park"
  <2>0. UNCHANGED <<run.attempts, run.transients>>
    BY <1>1, <1>5
  <2>1. \A x \in firing' : x.todo = <<"developer">> => \E g \in firing : g.todo = <<"developer">>
    BY <1>1, <1>3, <1>5, Owing
  <2>2. Paid'
    BY <1>1, <1>4, <2>0, <2>1, Numbers, PaidStays DEF Spend
  <2>3. Allowed'
    BY <1>1, <1>3, <2>0, RestedStill, AllowedStays DEF Spend
  <2>4. Current(w)'
    BY <1>1, <1>2, <2>0, CurrentStays DEF Spend
  <2> QED BY <2>2, <2>3, <2>4 DEF Spend
<1>6. CASE Head(f.todo) \in {"attempt", "transient"}
  <2>1. /\ f \in Places(w, "carrier")
        /\ \A g \in firing : g # f => /\ g.todo # <<"developer">>
                                      /\ ~StillTo(g, "attempt") /\ ~StillTo(g, "transient")
    BY <1>6, LedgerHolder
  <2>2. \A k \in {"trigger", "route", "review"} : Places(w, k)' = {}
    <3>1. \A i \in Kinds : \A x \in Places(w, i) : i = "carrier"
      BY <2>1, RelayParts, Alone DEF Kinds
    <3> QED BY <1>2, <3>1 DEF Kinds
  <2>3. Current(w)'
    BY <2>2 DEF Current
  <2>4. f.todo = <<"attempt", "developer">> \/ f.todo = <<"transient", "developer">>
    BY <1>1, <1>6, Owing
  <2>5. f.todo # <<"developer">> /\ Tail(f.todo) = <<"developer">>
    <3>1. PICK a : f.todo = <<a, "developer">>
      BY <2>4
    <3> QED BY <3>1, Tuples
  <2>6. Owed = 0 /\ Owed' \in {0, 1}
    BY <2>1, <2>5, OwedFacts
  <2>7. Allowed'
    <3>1. \A s : (\E i \in 1..Len(<<"developer">>) : <<"developer">>[i] = s) => s = "developer"
      BY InTuple
    <3>2. ASSUME NEW x \in firing' PROVE ~StillTo(x, "attempt") /\ ~StillTo(x, "transient")
      <4>1. CASE x \in firing /\ x # f
        BY <2>1, <4>1
      <4>2. CASE x.todo = Tail(f.todo)
        BY <2>5, <3>1, <4>2 DEF StillTo
      <4> QED BY <1>3, <4>1, <4>2
    <3> QED BY <3>2 DEF Allowed, StillTo
  <2>8. Cardinality(Developers) \in Nat
    BY Finite
  <2>9. CASE Head(f.todo) = "attempt"
    <3>1. run'.attempts = run.attempts + 1 /\ run'.transients = run.transients /\ used' = used
      BY <1>1, <2>9
    <3>2. run.attempts < Budget
      BY <1>1, <2>9, StillRules DEF Spend, Allowed
    <3>3. Paid'
      BY <1>4, <2>6, <2>8, <3>1, <3>2, Numbers DEF Spend, Paid
    <3> QED BY <2>3, <2>7, <3>3 DEF Spend
  <2>10. CASE Head(f.todo) = "transient"
    <3>1. run'.transients = run.transients + 1 /\ run'.attempts = run.attempts /\ used' = used
      BY <1>1, <2>10
    <3>2. run.transients < TransientCap
      BY <1>1, <2>10, StillRules DEF Spend, Allowed
    <3>3. Paid'
      BY <1>4, <2>6, <2>8, <3>1, <3>2, Numbers DEF Spend, Paid
    <3> QED BY <2>3, <2>7, <3>3 DEF Spend
  <2> QED BY <1>6, <2>9, <2>10
<1> QED BY <1>1, <1>5, <1>6

LEMMA SpawnSpend ==
  ASSUME Shape, Shape', NEW w \in Worlds, Relay(w), Spend(w), NEW f \in firing, SpawnLoop(f)
  PROVE  Spend(w)'
<1>1. /\ Advance(f) /\ UNCHANGED <<run, used>> /\ Typed /\ Head(f.todo) \in Roles
      /\ ~(Len(f.todo) > 1)
  BY ShapeParts, SpawnEffect, NextStep
<1>2. PICK l \in Loops : OnlyLoop(l) /\ loop'[l].role = Head(f.todo)
  BY <1>1, SpawnEffect
<1>3. firing' = firing \ {f}
  BY <1>1, AdvanceFacts
<1>4. Allowed'
  BY <1>1, <1>3, AllowedStays DEF Spend
<1>5. Current(w)'
  <2>1. \A i \in Kinds : \A x \in Places(w, i)' : i = "live"
    BY RelayParts, SpawnBaton
  <2> QED BY <2>1 DEF Current, Kinds
<1>6. Paid'
  <2>1. CASE Head(f.todo) = "reviewer"
    <3>1. Developers' \subseteq Developers
      BY <1>2, <2>1 DEF Developers, OnlyLoop
    <3> QED BY <1>1, <1>3, <3>1, Numbers, PaidStays DEF Spend
  <2>2. CASE Head(f.todo) = "developer"
    <3>1. f.todo = <<"developer">> /\ \A g \in firing : g # f => g.todo # <<"developer">>
      BY <1>1, <2>2, Owing, LedgerHolder
    <3>2. Owed = 1 /\ Owed' = 0
      BY <1>3, <3>1, OwedFacts
    <3>3. Developers' \subseteq Developers \cup {l}
      BY <1>2 DEF Developers, OnlyLoop
    <3>4. /\ Cardinality(Developers') <= Cardinality(Developers) + 1
          /\ Cardinality(Developers) \in Nat /\ Cardinality(Developers') \in Nat
      BY <3>3, Finite
    <3> QED BY <1>1, <3>2, <3>4, Numbers DEF Spend, Paid
  <2> QED BY <1>1, <2>1, <2>2 DEF Roles
<1> QED BY <1>4, <1>5, <1>6 DEF Spend

LEMMA PublishSpend ==
  ASSUME Shape, Shape', NEW w \in Worlds, Relay(w), Spend(w), NEW f \in firing, PublishDispatch(f)
  PROVE  Spend(w)'
<1>1. /\ Advance(f) /\ UNCHANGED <<run, used, loop>> /\ Typed /\ Head(f.todo) \in Stations
      /\ ~(Len(f.todo) > 1)
  BY ShapeParts, PublishEffect, NextStep
<1>2. firing' = firing \ {f}
  BY <1>1, AdvanceFacts
<1>3. Paid' /\ Allowed'
  BY <1>1, <1>2, Numbers, PaidStays, AllowedStays DEF Spend, Developers
<1>4. Current(w)'
  <2>1. \A i \in Kinds : \A x \in Places(w, i)' : i = "queue"
    BY RelayParts, PublishBaton
  <2> QED BY <2>1 DEF Current, Kinds
<1> QED BY <1>3, <1>4 DEF Spend

LEMMA LoseSpend ==
  ASSUME Shape, Shape', NEW w \in Worlds, Spend(w), NEW f \in firing, LoseAction(f)
  PROVE  Spend(w)'
<1>1. Advance(f) /\ UNCHANGED <<run, loop, matched>> /\ Typed /\ used'.lost = used.lost + 1
  <2>1. used \in Usage /\ used' = [used EXCEPT !.lost = @ + 1]
    BY ShapeParts, TypeParts DEF LoseAction, Lose
  <2>2. used'.lost = used.lost + 1
    BY <2>1 DEF Usage
  <2> QED BY <2>2, ShapeParts DEF LoseAction
<1>2. \A x \in firing' : (x \in firing /\ x # f) \/ (x = Rested(f) /\ Len(f.todo) > 1 /\ x.todo = Tail(f.todo))
  BY <1>1, AdvanceFacts
<1>3. Allowed'
  BY <1>1, <1>2, RestedStill, AllowedStays DEF Spend
<1>4. Current(w)'
  <2>1. \A k \in LoopKinds : Places(w, k)' \subseteq Places(w, k)
    BY <1>1, FactsFrame
  <2> QED BY <1>1, <2>1, CurrentStays DEF Spend, LoopKinds
<1>5. Paid'
  <2>1. Developers' = Developers /\ Cardinality(Developers) \in Nat
    BY <1>1, Finite DEF Developers
  <2> QED BY <1>1, <2>1, OwedFacts, Numbers DEF Spend, Paid
<1> QED BY <1>3, <1>4, <1>5 DEF Spend

(* The tools and the stations keep who the developers are.                 *)
LEMMA LoopsAfter ==
  ASSUME NEW l \in Loops, OnlyLoop(l), loop'[l].role = loop[l].role
  PROVE  Developers' = Developers
  BY DEF Developers, OnlyLoop

LEMMA PatchSpend ==
  ASSUME Shape, Shape', NEW w \in Worlds, Relay(w), Spend(w), NEW l \in Loops, Patching(l)
  PROVE  Spend(w)'
<1>1. /\ OnlyLoop(l) /\ SameLoop(l) /\ UNCHANGED <<run.attempts, run.transients, firing>>
      /\ used'.lost = used.lost
  BY ShapeParts, PatchingEffect
<1>2. \A k \in Kinds : Places(w, k)' \subseteq Places(w, k)
  BY RelayParts, PatchBaton
<1>3. \A k \in Loops : UNCHANGED <<loop[k].role, loop[k].attempts, loop[k].transients, loop[k].verdict>>
  BY <1>1 DEF OnlyLoop, SameLoop
<1>4. Paid' /\ Allowed'
  BY <1>1, <1>3, LoopsAfter, Numbers, PaidStays, AllowedStays DEF Spend
<1>5. Current(w)'
  BY <1>1, <1>2, <1>3, CurrentStays, InLoops DEF Spend, LoopKinds, Kinds
<1> QED BY <1>4, <1>5 DEF Spend

LEMMA SubmitSpend ==
  ASSUME Shape, Shape', NEW w \in Worlds, Relay(w), Spend(w), NEW l \in Loops, NEW b \in BOOLEAN,
         SubmitReview(l, b)
  PROVE  Spend(w)'
<1>1. /\ OnlyLoop(l) /\ SameLoop(l) /\ UNCHANGED <<run.attempts, run.transients, firing>>
      /\ used'.lost = used.lost
  BY ShapeParts, SubmitEffect
<1>2. \A k \in Kinds : Places(w, k)' \subseteq Places(w, k)
  BY RelayParts, SubmitBaton
<1>3. \A k \in Loops : UNCHANGED <<loop[k].role, loop[k].attempts, loop[k].transients, loop[k].verdict>>
  BY <1>1 DEF OnlyLoop, SameLoop
<1>4. Paid' /\ Allowed'
  BY <1>1, <1>3, LoopsAfter, Numbers, PaidStays, AllowedStays DEF Spend
<1>5. Current(w)'
  BY <1>1, <1>2, <1>3, CurrentStays, InLoops DEF Spend, LoopKinds, Kinds
<1> QED BY <1>4, <1>5 DEF Spend

LEMMA MirrorSpend ==
  ASSUME Shape, Shape', NEW w \in Worlds, Relay(w), Spend(w), NEW l \in Loops, MirrorVerdict(l)
  PROVE  Spend(w)'
<1>1. /\ OnlyLoop(l) /\ loop[l].pc = "mirroring" /\ LoopShape(l) /\ UNCHANGED <<run, firing>>
      /\ used'.lost = used.lost /\ loop'[l].role = loop[l].role
      /\ loop'[l].attempts = run.attempts \/ loop'[l].verdict = loop[l].verdict
  BY ShapeParts, MirrorEffect DEF SameLoop
<1>2. \A i \in Kinds : \A x \in Places(w, i)' : x = l /\ i \in {"live", "review"}
  BY RelayParts, MirrorBaton
<1>3. Paid' /\ Allowed'
  BY <1>1, LoopsAfter, Numbers, PaidStays, AllowedStays DEF Spend
<1>4. loop[l].verdict = "none"
  BY <1>1 DEF LoopShape
<1>5. Current(w)'
  BY <1>1, <1>2, <1>4 DEF Current, Kinds
<1> QED BY <1>3, <1>5 DEF Spend

LEMMA EndSpend ==
  ASSUME Shape, Shape', NEW w \in Worlds, Relay(w), Spend(w), NEW l \in Loops, NEW t \in BOOLEAN,
         EndLoop(l, t)
  PROVE  Spend(w)'
<1>1. /\ OnlyLoop(l) /\ loop[l].pc \in {"working", "mirrored"} /\ LoopShape(l)
      /\ UNCHANGED <<run, firing, used>>
      /\ UNCHANGED <<loop[l].role, loop[l].attempts, loop[l].transients, loop[l].verdict>>
  BY ShapeParts, EndEffect
<1>2. Paid' /\ Allowed'
  BY <1>1, LoopsAfter, Numbers, PaidStays, AllowedStays DEF Spend
<1>3. /\ loop[l].pc = "working" => \A i \in Kinds : \A x \in Places(w, i)' :
           /\ x = l
           /\ i = IF loop[l].role = "developer" THEN "trigger" ELSE "review"
      /\ loop[l].pc = "mirrored" => \A i \in Kinds : Places(w, i)' \subseteq Places(w, i)
  BY RelayParts, EndBaton
<1>4. CASE loop[l].pc = "working"
  <2>1. loop[l].verdict = "none"
    BY <1>1, <1>4 DEF LoopShape
  <2>2. Current(w)'
    BY <1>1, <1>3, <1>4, <2>1 DEF Current, Kinds
  <2> QED BY <1>2, <2>2 DEF Spend
<1>5. CASE loop[l].pc = "mirrored"
  <2>1. \A k \in Loops : UNCHANGED <<loop[k].role, loop[k].attempts, loop[k].transients, loop[k].verdict>>
    BY <1>1 DEF OnlyLoop
  <2>2. Current(w)'
    BY <1>1, <1>3, <1>5, <2>1, CurrentStays, InLoops DEF Spend, LoopKinds, Kinds
  <2> QED BY <1>2, <2>2 DEF Spend
<1> QED BY <1>1, <1>4, <1>5

LEMMA TakeSpend ==
  ASSUME Shape, Shape', NEW w \in Worlds, Relay(w), Spend(w), NEW s \in Stations, Take(s)
  PROVE  Spend(w)'
<1>1. UNCHANGED <<run, loop, firing, used>>
  BY ShapeParts, TakeEffect
<1>2. Paid' /\ Allowed'
  BY <1>1, Numbers, PaidStays, AllowedStays DEF Spend, Developers
<1>3. \A i \in Kinds : \A x \in Places(w, i)' : i = "job"
  BY RelayParts, TakeBaton
<1>4. Current(w)'
  BY <1>3 DEF Current, Kinds
<1> QED BY <1>2, <1>4 DEF Spend

LEMMA StampFailedSpend ==
  ASSUME Shape, Shape', NEW w \in Worlds, Relay(w), Spend(w), NEW s \in Stations,
         StampDispatchFailed(s)
  PROVE  Spend(w)'
<1>1. /\ AddsMark(job[s].on, "failed") /\ job[s].on \in Loops \cup {Run}
      /\ UNCHANGED <<firing, used>> /\ Typed
  BY ShapeParts, StampFailedEffect
<1>2. UNCHANGED <<run.attempts, run.transients>> /\ \A k \in Loops : loop'[k].role = loop[k].role
  BY <1>1, MarkEffect
<1>3. Developers' = Developers
  BY <1>2 DEF Developers
<1>4. Paid' /\ Allowed'
  BY <1>1, <1>2, <1>3, Numbers, PaidStays, AllowedStays DEF Spend
<1>5. \A i \in Kinds : \A x \in Places(w, i)' : i \in {"failed", "failed-run"}
  BY RelayParts, StampFailedBaton
<1>6. Current(w)'
  BY <1>5 DEF Current, Kinds
<1> QED BY <1>4, <1>6 DEF Spend

LEMMA HandlingSpend ==
  ASSUME Shape, Shape', NEW w \in Worlds, Relay(w), Spend(w), NEW s \in Stations, Handling(s)
  PROVE  Spend(w)'
<1>1. UNCHANGED <<loop, firing, run.attempts, run.transients>> /\ used'.lost >= used.lost
  BY ShapeParts, HandlingEffect
<1>2. \A k \in Kinds : Places(w, k)' \subseteq Places(w, k)
  BY RelayParts, HandlingBaton
<1>3. used.lost <= used'.lost
  BY <1>1, Numbers, NumbersNext
<1>4. Paid' /\ Allowed'
  BY <1>1, <1>3, PaidStays, AllowedStays DEF Spend, Developers
<1>5. Current(w)'
  BY <1>1, <1>2, CurrentStays DEF Spend, Kinds
<1> QED BY <1>4, <1>5 DEF Spend

LEMMA FloorsSpend ==
  ASSUME Shape, Shape', NEW w \in Worlds, Relay(w), Spend(w), NEW b \in BOOLEAN, RunFloors(b)
  PROVE  Spend(w)'
<1>1. /\ job["floors"].on \in Finished /\ job["floors"].on \in Loops
      /\ \A i \in Kinds : \A x \in Places(w, i)' :
           \/ i = "route" /\ x = job["floors"].on
           \/ loop' = loop /\ i = "job" /\ x = "floors"
  BY RelayParts, FloorsBaton DEF Finished
<1> DEFINE l == job["floors"].on
<1>2. /\ UNCHANGED <<run, firing, used>>
      /\ \/ /\ OnlyLoop(l) /\ loop'[l].role = loop[l].role
            /\ loop'[l].attempts = run.attempts /\ loop'[l].transients = run.transients
            /\ loop'[l].passed # "none"
         \/ loop' = loop
  BY <1>1, ShapeParts, FloorsEffect
<1>3. Developers' = Developers
  <2>1. loop' = loop => Developers' = Developers
    BY DEF Developers
  <2> QED BY <1>1, <1>2, <2>1, LoopsAfter
<1>4. Paid' /\ Allowed'
  BY <1>2, <1>3, Numbers, PaidStays, AllowedStays DEF Spend
<1>5. CASE loop' = loop
  <2>1. EngineFrame
    BY <1>1, ShapeParts, FloorsEffect DEF EngineFrame
  <2>2. \A k \in LoopKinds : Places(w, k)' \subseteq Places(w, k)
    BY <1>5, <2>1, AllLoops
  <2>3. Current(w)'
    BY <1>2, <1>5, <2>2, CurrentStays DEF Spend, LoopKinds
  <2> QED BY <1>4, <2>3 DEF Spend
<1>6. CASE OnlyLoop(l) /\ loop'[l].attempts = run.attempts /\ loop'[l].transients = run.transients /\ loop' # loop
  <2>1. \A i \in Kinds : \A x \in Places(w, i)' : i = "route" /\ x = l
    BY <1>1, <1>6
  <2>2. Current(w)'
    BY <1>2, <1>6, <2>1 DEF Current, Kinds
  <2> QED BY <1>4, <2>2 DEF Spend
<1> QED BY <1>2, <1>5, <1>6

LEMMA DecideSpend ==
  ASSUME Shape, Shape', NEW w \in Worlds, Relay(w), Spend(w), NEW o \in {"pass", "fail"},
         StampVerify(o)
  PROVE  Spend(w)'
<1>1. UNCHANGED <<run.attempts, run.transients, loop, firing, used>>
  BY ShapeParts, DecideEffect
<1>2. Paid' /\ Allowed'
  BY <1>1, Numbers, PaidStays, AllowedStays DEF Spend, Developers
<1>3. \A i \in Kinds : \A x \in Places(w, i)' : i = "verdict"
  BY RelayParts, DecideBaton
<1>4. Current(w)'
  BY <1>3 DEF Current, Kinds
<1> QED BY <1>2, <1>4 DEF Spend

LEMMA DeliverSpend ==
  ASSUME Shape, Shape', NEW w \in Worlds, Relay(w), Spend(w), StampPR
  PROVE  Spend(w)'
<1>1. UNCHANGED <<run.attempts, run.transients, loop, firing, used>>
  BY ShapeParts, StampPREffect
<1>2. Paid' /\ Allowed'
  BY <1>1, Numbers, PaidStays, AllowedStays DEF Spend, Developers
<1>3. Nobody(w)'
  BY RelayParts, DeliverBaton
<1>4. Current(w)'
  BY <1>3 DEF Current, Kinds, Nobody
<1> QED BY <1>2, <1>4 DEF Spend

LEMMA RestartSpend ==
  ASSUME Shape, Shape', NEW w \in Worlds, Relay(w), Spend(w), Restart, World(w)'
  PROVE  Spend(w)'
<1>1. UNCHANGED <<run, loop>> /\ firing' = {} /\ used'.lost = used.lost
  <2>1. used \in Usage
    BY ShapeParts, TypeParts
  <2> QED BY <2>1 DEF Restart, Usage
<1>2. Paid' /\ Allowed'
  BY <1>1, Numbers, PaidStays, AllowedStays DEF Spend, Developers
<1>3. \A k \in Kinds : Places(w, k)' \subseteq Places(w, k)
  BY RelayParts, RestartBaton
<1>4. Current(w)'
  BY <1>1, <1>3, CurrentStays DEF Spend, Kinds
<1> QED BY <1>2, <1>4 DEF Spend

LEMMA StepSpend ==
  ASSUME Shape, Shape', [Next]_vars, NEW w \in Worlds, BatonInv(w), SpendInv(w)
  PROVE  SpendInv(w)'
<1> SUFFICES ASSUME World(w)' PROVE Spend(w)'
  BY DEF SpendInv
<1>1. CASE UNCHANGED vars
  <2>1. Spend(w)
    BY <1>1 DEF World, vars, SpendInv
  <2>2. UNCHANGED <<run, loop, firing, matched, used>>
    BY <1>1 DEF vars
  <2>3. Paid' /\ Allowed'
    BY <2>1, <2>2, Numbers, PaidStays, AllowedStays DEF Spend, Developers
  <2>4. \A k \in LoopKinds : Places(w, k)' \subseteq Places(w, k)
    BY <2>2, FactsFrame
  <2>5. Current(w)'
    BY <2>1, <2>2, <2>4, CurrentStays DEF Spend, LoopKinds
  <2> QED BY <2>3, <2>5 DEF Spend
<1>2. CASE Next
  <2>0. Relay(w) /\ Spend(w)
    BY <1>2, WorldStep DEF BatonInv, SpendInv
  <2>1. CASE \E r, e : <<r, e>> \in RuleOn /\ Fire(r, e)
    BY <2>0, <2>1, FireSpend
  <2>2. CASE \E f \in firing : AddMark(f) \/ AddToRun(f) \/ SpawnLoop(f) \/ PublishDispatch(f)
    BY <2>0, <2>2, MarkSpend, LedgerSpend, SpawnSpend, PublishSpend
  <2>3. CASE \E f \in firing : LoseAction(f)
    BY <2>0, <2>3, LoseSpend
  <2>4. CASE \E l \in Loops : Patching(l) \/ MirrorVerdict(l)
    BY <2>0, <2>4, PatchSpend, MirrorSpend
  <2>5. CASE \E l \in Loops : \E b \in BOOLEAN : SubmitReview(l, b) \/ EndLoop(l, b)
    BY <2>0, <2>5, SubmitSpend, EndSpend
  <2>6. CASE \E s \in Stations : Take(s) \/ StampDispatchFailed(s) \/ Handling(s)
    BY <2>0, <2>6, TakeSpend, StampFailedSpend, HandlingSpend
  <2>7. CASE \E b \in BOOLEAN : RunFloors(b)
    BY <2>0, <2>7, FloorsSpend
  <2>8. CASE \E o \in {"pass", "fail"} : StampVerify(o)
    BY <2>0, <2>8, DecideSpend
  <2>9. CASE StampPR \/ Restart
    BY <2>0, <2>9, DeliverSpend, RestartSpend
  <2> QED BY <1>2, <2>1, <2>2, <2>3, <2>4, <2>5, <2>6, <2>7, <2>8, <2>9, Moves
<1> QED BY <1>1, <1>2

LEMMA InitSpend ==
  ASSUME Init, NEW w \in Worlds
  PROVE  Spend(w)
<1>1. /\ firing = {} /\ run.attempts = 0 /\ run.transients = 0 /\ used.lost = 0
      /\ \A l \in Loops : /\ loop[l].role \in {"coordinator", "none"}
                          /\ loop[l].passed = "none" /\ loop[l].verdict = "none"
  BY DEF Init, Unborn
<1>2. Budget \in Nat \ {0} /\ TransientCap \in Nat
  BY LoopAssumption
<1>3. Developers = {}
  BY <1>1 DEF Developers
<1>4. Cardinality(Developers) = 0 /\ Owed = 0
  BY <1>1, <1>3, FS_EmptySet, OwedFacts
<1>5. Paid /\ Allowed
  BY <1>1, <1>2, <1>4 DEF Paid, Allowed
<1>6. Current(w)
  <2>1. Places(w, "route") = {} /\ \A x : x \in Places(w, "review") => x \in Loops
    BY <1>1, At DEF RouteAt
  <2> QED BY <1>1, <1>2, <2>1 DEF Current
<1> QED BY <1>5, <1>6 DEF Spend

LEMMA SpendAlways == Spec => [](\A w \in Worlds : SpendInv(w))
<1>1. Init => \A w \in Worlds : SpendInv(w)
  BY InitSpend DEF SpendInv
<1>2. Shape /\ (\A w \in Worlds : BatonInv(w)) /\ Shape' /\ [Next]_vars
        /\ (\A w \in Worlds : SpendInv(w)) => (\A w \in Worlds : SpendInv(w))'
  <2> SUFFICES ASSUME Shape, \A w \in Worlds : BatonInv(w), Shape', [Next]_vars,
                      \A w \in Worlds : SpendInv(w), NEW w \in Worlds
               PROVE  SpendInv(w)'
    BY DEF Worlds
  <2> QED BY StepSpend
<1> QED BY <1>1, <1>2, BatonAlways, PTL DEF Spec

(* Every developer loop was paid for by an entry in the run's attempt or   *)
(* transient ledger that rules 04, 06c, 06f and 07b made before spawning   *)
(* it, or by an entry that failed; the rules compare facts that are the    *)
(* run's own, so neither ledger passes its cap.                            *)
THEOREM SpendIsBounded == Spec => []SpendWithinBudget
<1>1. Shape /\ (\A w \in Worlds : SpendInv(w)) => SpendWithinBudget
  <2> SUFFICES ASSUME Shape, \A w \in Worlds : SpendInv(w), OneKindOfFault
               PROVE  Cardinality(Developers) <= Budget + TransientCap + used.lost
    BY DEF SpendWithinBudget
  <2>1. World("remembered") \/ World("marked")
    BY DEF OneKindOfFault, World
  <2>2. Paid
    BY <2>1 DEF SpendInv, Spend, Worlds
  <2>3. Cardinality(Developers) \in Nat
    BY Finite
  <2> QED BY <2>2, <2>3, OwedFacts, Numbers DEF Paid
<1> QED BY <1>1, BatonAlways, SpendAlways, PTL

-----------------------------------------------------------------------------
(* What is delivered.  The checkout moves only under the one developer, so *)
(* the recorded commit is its HEAD but between a commit and its stamp; a   *)
(* review, and whatever follows it, is of a recorded commit that was       *)
(* measured green; what the clean room passed is that commit.              *)

Kept ==
  /\ (\A l \in Loops : loop[l].pc # "stamping") => head = run.recorded
  /\ \A l \in Loops : loop[l].pc \in {"stamping", "measuring"} => loop[l].tree = head
  /\ run.green => proof.green = run.measured

(* Something relies on the measurement: a passed attempt, its review, or   *)
(* the proof of it.                                                        *)
Relying(w) ==
  \/ \E l \in Places(w, "route") : loop[l].passed = "true"
  \/ \E l \in Live : loop[l].role = "reviewer"
  \/ Places(w, "review") # {}
  \/ \E f \in firing : f.rule \in {"06a", "07a"}
  \/ "verify" \in Queued \cup Busy
Earned(w) == Relying(w) => MeasuredPassed

(* Something relies on the clean room's verdict.                           *)
Shipping == \/ \E f \in firing : f.rule = "08a"
            \/ "delivery" \in Queued \cup Busy
            \/ forge.tip # 0
Cleared ==
  /\ job["verify"].pc = "cloned" => job["verify"].tree = head
  /\ Shipping => run.verify = "pass"
  /\ run.verify = "pass" => MeasuredPassed /\ proof.clean = head /\ run.recorded = head
  /\ forge.tip # 0 => forge.tip = run.recorded

Proven(w) == Kept /\ Earned(w) /\ Cleared
ProvenInv(w) == World(w) /\ used.unrecorded = 0 => Proven(w)

LEMMA KeptStays ==
  ASSUME Kept, UNCHANGED <<head, run.recorded, run.green, run.measured, proof.green>>,
         \A l \in Loops : loop'[l].pc \in {"stamping", "measuring"} => loop'[l].pc = loop[l].pc /\ loop'[l].tree = loop[l].tree,
         \A l \in Loops : loop[l].pc = "stamping" => loop'[l].pc = loop[l].pc
  PROVE  Kept'
  BY DEF Kept

LEMMA ReliesOn ==
  ASSUME NEW w, Earned(w), UNCHANGED <<run.recorded, run.green, run.measured>>,
         Relying(w)' => Relying(w)
  PROVE  Earned(w)'
  BY DEF Earned, MeasuredPassed

LEMMA RelyingStays ==
  ASSUME NEW w,
         \A k \in {"live", "route", "review"} : Places(w, k)' \subseteq Places(w, k),
         \A l \in Loops : loop'[l].role = loop[l].role /\ loop'[l].passed = loop[l].passed,
         \A f \in firing' : f.rule \in {"06a", "07a"} => \E g \in firing : g.rule = f.rule,
         "verify" \in Queued' \cup Busy' => "verify" \in Queued \cup Busy
  PROVE  Relying(w)' => Relying(w)
<1>1. \A l : (l \in Live' => l \in Live) /\ (l \in Live => l \in Loops) /\ (l \in Places(w, "route") => l \in Loops)
  BY At, AtNext DEF Live
<1> QED BY <1>1 DEF Relying

LEMMA ClearedStays ==
  ASSUME Cleared, UNCHANGED <<head, run.recorded, run.green, run.measured, run.verify, proof.clean, forge.tip>>,
         Shipping' => Shipping,
         job'["verify"].pc = "cloned" => job["verify"].pc = "cloned" /\ job'["verify"].tree = job["verify"].tree
  PROVE  Cleared'
  BY DEF Cleared, MeasuredPassed

LEMMA ShippingStays ==
  ASSUME forge'.tip = forge.tip,
         \A f \in firing' : f.rule = "08a" => \E g \in firing : g.rule = f.rule,
         "delivery" \in Queued' \cup Busy' => "delivery" \in Queued \cup Busy
  PROVE  Shipping' => Shipping
  BY DEF Shipping

(* While a loop or the clean room is at work nothing is being delivered.   *)
LEMMA NotShipping ==
  ASSUME Shape, NEW w \in Worlds, Relay(w), Cleared, NEW k \in {"live", "job"}, NEW a \in Places(w, k),
         k = "job" => a = "verify"
  PROVE  /\ run.verify # "pass" /\ ~Shipping
         /\ \A f \in firing : f.rule \notin {"06a", "07a", "08a"}
<1>1. Baton(w) /\ k \in Kinds /\ "queue" \in Kinds /\ "job" \in Kinds
  BY RelayParts DEF Kinds
<1>2. \A g \in firing : g.rule \in Cleaning \cup Surrender
  BY OnlyHolder
<1>3. \A f \in firing : f.rule \notin {"06a", "07a", "08a"}
  BY <1>2 DEF Cleaning, Surrender
<1>4. run.verify # "pass"
  BY <1>1, Alone DEF LatePlace
<1> QED BY <1>3, <1>4 DEF Cleared

LEMMA FireProven ==
  ASSUME Shape, NEW w \in Worlds, Relay(w), Proven(w), NEW r, NEW e, <<r, e>> \in RuleOn, Fire(r, e)
  PROVE  Proven(w)'
<1> DEFINE n == [rule |-> r, on |-> e, todo |-> Does(r)]
<1>1. /\ <<r, e>> \notin matched /\ When(r, e) /\ matched' = matched \cup {<<r, e>>}
      /\ firing' = firing \cup {n} /\ UNCHANGED <<head, run, forge, loop, queue, job, proof>>
  BY DEF Fire
<1>2. n.rule = r /\ Judged /\ (r \in LoopRules => e \in Loops) /\ (r \in RunRules => e = Run)
  BY RelayParts, RuleOnFacts
<1>3. Kept'
  BY <1>1, KeptStays DEF Proven
<1>4. r = "06a" => Relying(w)
  <2> SUFFICES ASSUME r = "06a" PROVE Relying(w)
    OBVIOUS
  <2>1. e \in Loops /\ e \in Places(w, "route")
    BY <1>1, <1>2, FireOrigin, Origins DEF LoopRules, Cleaning, Routing
  <2>2. loop[e].passed = "true"
    BY <1>1, <2>1, WhenLoop DEF RouteAdvance
  <2> QED BY <2>1, <2>2 DEF Relying
<1>5. r = "07a" => Relying(w)
  <2> SUFFICES ASSUME r = "07a" PROVE Relying(w)
    OBVIOUS
  <2>1. e \in Places(w, "review")
    BY <1>1, <1>2, FireOrigin, Origins DEF Cleaning, Reviewing
  <2> QED BY <2>1 DEF Relying
<1>6. Earned(w)'
  <2>1. \A k \in LoopKinds : Places(w, k)' \subseteq Places(w, k)
    BY <1>1, FactsFrame
  <2>2. CASE r \in {"06a", "07a"}
    BY <1>1, <1>4, <1>5, <2>2 DEF Proven, Earned, MeasuredPassed
  <2>3. CASE r \notin {"06a", "07a"}
    <3>1. Relying(w)' => Relying(w)
      BY <1>1, <1>2, <2>1, <2>3, RelyingStays DEF LoopKinds, Queued, Busy
    <3> QED BY <1>1, <3>1, ReliesOn DEF Proven
  <2> QED BY <2>2, <2>3
<1>7. Cleared'
  <2>1. CASE r = "08a"
    <3>1. run.verify = "pass"
      <4>1. e = Run
        BY <1>2, <2>1 DEF RunRules
      <4> QED BY <1>1, <2>1, <4>1, WhenRun DEF DeliverRun
    <3> QED BY <1>1, <3>1 DEF Proven, Cleared, MeasuredPassed
  <2>2. CASE r # "08a"
    <3>1. Shipping' => Shipping
      BY <1>1, <1>2, <2>2, ShippingStays DEF Queued, Busy
    <3> QED BY <1>1, <3>1, ClearedStays DEF Proven
  <2> QED BY <2>1, <2>2
<1> QED BY <1>3, <1>6, <1>7 DEF Proven

LEMMA MarkProven ==
  ASSUME Shape, NEW w \in Worlds, Proven(w), NEW f \in firing, AddMark(f)
  PROVE  Proven(w)'
<1>1. /\ Advance(f) /\ RuleState /\ Typed /\ f.on \in Loops \cup {Run}
      /\ UNCHANGED <<head, forge, queue, job, proof>>
      /\ Head(f.todo) \in Marks /\ AddsMark(f.on, Head(f.todo))
  BY ShapeParts, FiringFacts DEF AddMark, AddsMark
<1>2. /\ UNCHANGED <<run.recorded, run.green, run.measured, run.verify>>
      /\ \A k \in Loops : UNCHANGED <<loop[k].role, loop[k].passed, loop[k].pc, loop[k].tree>>
  BY <1>1, MarkEffect
<1>3. \A k \in {"live", "route", "review"} : Places(w, k)' \subseteq Places(w, k)
  BY <1>1, MarkPlaces
<1>4. \A x \in firing' : \E g \in firing : g.rule = x.rule
  BY <1>1, Advanced
<1>5. Kept'
  BY <1>1, <1>2, KeptStays DEF Proven
<1>6. Earned(w)'
  <2>1. Relying(w)' => Relying(w)
    BY <1>1, <1>2, <1>3, <1>4, RelyingStays DEF Queued, Busy
  <2> QED BY <1>2, <2>1, ReliesOn DEF Proven
<1>7. Cleared'
  <2>1. Shipping' => Shipping
    BY <1>1, <1>4, ShippingStays DEF Queued, Busy
  <2> QED BY <1>1, <1>2, <2>1, ClearedStays DEF Proven
<1> QED BY <1>5, <1>6, <1>7 DEF Proven

LEMMA LedgerProven ==
  ASSUME Shape, NEW w \in Worlds, Proven(w), NEW f \in firing, AddToRun(f)
  PROVE  Proven(w)'
<1>1. /\ Advance(f) /\ RuleState /\ UNCHANGED <<head, forge, loop, queue, job, proof>>
      /\ UNCHANGED <<run.recorded, run.green, run.measured, run.verify>> /\ EngineFrame
  BY ShapeParts, AddToRunEffect DEF EngineFrame
<1>2. \A k \in {"live", "route", "review"} : Places(w, k)' \subseteq Places(w, k)
  BY <1>1, AllLoops DEF LoopKinds
<1>3. \A x \in firing' : \E g \in firing : g.rule = x.rule
  BY <1>1, Advanced
<1>4. Kept'
  BY <1>1, KeptStays DEF Proven
<1>5. Earned(w)'
  <2>1. Relying(w)' => Relying(w)
    BY <1>1, <1>2, <1>3, RelyingStays DEF Queued, Busy
  <2> QED BY <1>1, <2>1, ReliesOn DEF Proven
<1>6. Cleared'
  <2>1. Shipping' => Shipping
    BY <1>1, <1>3, ShippingStays DEF Queued, Busy
  <2> QED BY <1>1, <2>1, ClearedStays DEF Proven
<1> QED BY <1>4, <1>5, <1>6 DEF Proven

LEMMA LoseProven ==
  ASSUME Shape, NEW w \in Worlds, Proven(w), NEW f \in firing, LoseAction(f)
  PROVE  Proven(w)'
<1>1. Advance(f) /\ UNCHANGED <<head, run, forge, loop, matched, queue, job, proof>>
  BY DEF LoseAction
<1>2. \A k \in {"live", "route", "review"} : Places(w, k)' \subseteq Places(w, k)
  BY <1>1, FactsFrame DEF LoopKinds
<1>3. \A x \in firing' : \E g \in firing : g.rule = x.rule
  BY <1>1, Advanced
<1>4. Kept'
  BY <1>1, KeptStays DEF Proven
<1>5. Earned(w)'
  <2>1. Relying(w)' => Relying(w)
    BY <1>1, <1>2, <1>3, RelyingStays DEF Queued, Busy
  <2> QED BY <1>1, <2>1, ReliesOn DEF Proven
<1>6. Cleared'
  <2>1. Shipping' => Shipping
    BY <1>1, <1>3, ShippingStays DEF Queued, Busy
  <2> QED BY <1>1, <2>1, ClearedStays DEF Proven
<1> QED BY <1>4, <1>5, <1>6 DEF Proven

LEMMA ReviewerRule ==
  ASSUME Typed, NEW f \in firing, Head(f.todo) = "reviewer"
  PROVE  f.rule = "06a"
<1>1. Rest(f.rule, f.todo) /\ f.todo # Does(f.rule) /\ f.rule \notin Cleaning \cup Surrender
  BY FiringFacts, NextStep DEF Roles
<1>2. \/ f.todo = <<"reviewer">> /\ f.rule = "06a"
      \/ f.todo = <<"attempt", "developer">> \/ f.todo = <<"transient", "developer">>
      \/ \E x \in {"developer", "park"} \cup Stations : f.todo = <<x>>
  BY <1>1 DEF Rest, Stations
<1>3. f.todo # <<"attempt", "developer">> /\ f.todo # <<"transient", "developer">>
  BY Tuples
<1>4. \A x \in {"developer", "park"} \cup Stations : f.todo # <<x>>
  BY Tuples DEF Stations
<1> QED BY <1>2, <1>3, <1>4

LEMMA SpawnProven ==
  ASSUME Shape, NEW w \in Worlds, Relay(w), Proven(w), NEW f \in firing, SpawnLoop(f)
  PROVE  Proven(w)'
<1>1. /\ Advance(f) /\ UNCHANGED <<head, run, forge, queue, job, proof>> /\ Typed
      /\ Head(f.todo) \in Roles
  BY ShapeParts, SpawnEffect
<1>2. PICK l \in Loops : OnlyLoop(l) /\ loop'[l].role = Head(f.todo) /\ loop[l].pc = "unborn" /\ loop'[l].pc = "working"
  BY <1>1, SpawnEffect
<1>3. \A i \in Kinds : \A x \in Places(w, i)' : i = "live" /\ x = l
  <2>1. PICK k \in Loops : \A i \in Kinds : \A x \in Places(w, i)' : i = "live" /\ x = k
    BY RelayParts, SpawnBaton
  <2>2. l \in Places(w, "live")'
    BY <1>2, AtNext DEF Live
  <2> QED BY <2>1, <2>2 DEF Kinds
<1>4. \A x \in firing' : \E g \in firing : g.rule = x.rule
  BY <1>1, Advanced
<1>5. Kept'
  BY <1>1, <1>2, KeptStays DEF Proven, OnlyLoop
<1>6. Earned(w)'
  <2>1. Head(f.todo) = "reviewer" => Relying(w)
    BY <1>1, ReviewerRule DEF Relying
  <2>2. Relying(w)' => Relying(w)
    <3> SUFFICES ASSUME Relying(w)' PROVE Relying(w)
      OBVIOUS
    <3>1. Places(w, "route")' = {} /\ Places(w, "review")' = {} /\ \A x \in Live' : x = l
      BY <1>3, AtNext DEF Kinds
    <3>2. \/ loop'[l].role = "reviewer" \/ (\E g \in firing' : g.rule \in {"06a", "07a"})
          \/ "verify" \in Queued \cup Busy
      BY <1>1, <3>1 DEF Relying, Queued, Busy
    <3> QED BY <1>2, <1>4, <2>1, <3>2 DEF Relying
  <2> QED BY <1>1, <2>2, ReliesOn DEF Proven
<1>7. Cleared'
  <2>1. Shipping' => Shipping
    BY <1>1, <1>4, ShippingStays DEF Queued, Busy
  <2> QED BY <1>1, <2>1, ClearedStays DEF Proven
<1> QED BY <1>5, <1>6, <1>7 DEF Proven

LEMMA PublishProven ==
  ASSUME Shape, NEW w \in Worlds, Relay(w), Proven(w), NEW f \in firing, PublishDispatch(f)
  PROVE  Proven(w)'
<1>1. /\ Advance(f) /\ UNCHANGED <<head, run, forge, loop, matched, job, proof>> /\ Typed
      /\ Head(f.todo) \in Stations
      /\ \A s \in Stations : s # Head(f.todo) => queue'[s] = queue[s]
  BY ShapeParts, PublishEffect
<1>2. /\ Head(f.todo) = "verify" => f.rule = "07a"
      /\ Head(f.todo) = "delivery" => f.rule = "08a"
  BY <1>1, NextStep
<1>3. \A x \in firing' : \E g \in firing : g.rule = x.rule
  BY <1>1, Advanced
<1>4. /\ "verify" \in Queued' \cup Busy' => "verify" \in Queued \cup Busy \/ f.rule = "07a"
      /\ "delivery" \in Queued' \cup Busy' => "delivery" \in Queued \cup Busy \/ f.rule = "08a"
  BY <1>1, <1>2 DEF Queued, Busy
<1>5. Kept'
  BY <1>1, KeptStays DEF Proven
<1>6. Earned(w)'
  <2>1. \A k \in {"live", "route", "review"} : Places(w, k)' \subseteq Places(w, k)
    BY <1>1, FactsFrame DEF LoopKinds
  <2>2. CASE f.rule = "07a"
    BY <1>1, <2>2 DEF Proven, Earned, Relying, MeasuredPassed
  <2>3. CASE f.rule # "07a"
    <3>1. Relying(w)' => Relying(w)
      BY <1>1, <1>3, <1>4, <2>1, <2>3, RelyingStays
    <3> QED BY <1>1, <3>1, ReliesOn DEF Proven
  <2> QED BY <2>2, <2>3
<1>7. Cleared'
  <2>1. Shipping' => Shipping
    <3>1. CASE f.rule = "08a"
      BY <3>1 DEF Shipping
    <3>2. CASE f.rule # "08a"
      BY <1>1, <1>3, <1>4, <3>2, ShippingStays
    <3> QED BY <3>1, <3>2
  <2> QED BY <1>1, <2>1, ClearedStays DEF Proven
<1> QED BY <1>5, <1>6, <1>7 DEF Proven

(* A developer at work is alone with the checkout.                         *)
LEMMA LiveAlone ==
  ASSUME Shape, NEW w \in Worlds, Relay(w), NEW l \in Live
  PROVE  /\ \A k \in Live : k = l
         /\ \A s \in Stations : queue[s] = <<>> /\ job[s].pc = "idle"
         /\ \A k \in Kinds \ {"live"} : Places(w, k) = {}
<1>1. l \in Places(w, "live") /\ "live" \in Kinds /\ Baton(w)
  BY At, RelayParts DEF Kinds
<1>2. \A i \in Kinds : \A x \in Places(w, i) : i = "live" /\ x = l
  BY <1>1, Alone
<1>3. \A k \in Live : k = l
  BY <1>1, <1>2, At
<1>4. \A s \in Stations : queue[s] = <<>> /\ job[s].pc = "idle"
  BY <1>2, At DEF Kinds
<1> QED BY <1>2, <1>3, <1>4

LEMMA PatchKept ==
  ASSUME Shape, NEW w \in Worlds, Relay(w), Kept, NEW l \in Loops, Patching(l), used'.unrecorded = 0
  PROVE  Kept'
<1>1. /\ Typed /\ LoopShape(l) /\ loop \in [Loops -> LoopFacts] /\ loop[l] \in LoopFacts
      /\ run \in RunFacts /\ used \in Usage /\ proof \in [green : Nat, clean : Nat] /\ head \in Nat
  BY ShapeParts, TypeParts
<1>2. OnlyLoop(l) /\ l \in Live
  BY <1>1, PatchingEffect DEF Live
<1>3. \A k \in Loops : k # l => loop'[k].pc \notin {"stamping", "measuring"} /\ loop[k].pc \notin {"stamping", "measuring"}
  BY <1>2, LiveAlone DEF Live, OnlyLoop
<1>4. CASE ApplyPatch(l)
  <2>1. /\ head' = head + 1 /\ run' = run /\ proof' = proof
        /\ loop'[l].pc = "stamping" /\ loop'[l].tree = head + 1
    BY <1>1, <1>4 DEF ApplyPatch, LoopFacts
  <2> QED BY <1>3, <2>1 DEF Kept
<1>5. CASE RecordCommit(l)
  <2>1. loop[l].pc = "stamping" /\ head' = head /\ proof' = proof /\ loop'[l].pc = "working"
    BY <1>1, <1>5 DEF RecordCommit, LoopFacts
  <2>2. run' = [run EXCEPT !.recorded = loop[l].tree]
    <3>1. used' # [used EXCEPT !.errors = @ + 1, !.unrecorded = @ + 1]
      <4>1. used.unrecorded \in Nat
        BY <1>1 DEF Usage
      <4>2. [used EXCEPT !.errors = @ + 1, !.unrecorded = @ + 1].unrecorded = used.unrecorded + 1
        BY <1>1 DEF Usage
      <4>3. used.unrecorded + 1 # 0
        BY <4>1
      <4> QED BY <4>2, <4>3
    <3> QED BY <1>5, <3>1 DEF RecordCommit
  <2>3. run'.recorded = loop[l].tree /\ run'.green = run.green /\ run'.measured = run.measured
    BY <1>1, <2>2 DEF RunFacts
  <2>4. loop[l].tree = head
    BY <2>1 DEF Kept
  <2> QED BY <1>3, <2>1, <2>3, <2>4 DEF Kept
<1>6. CASE \E b \in BOOLEAN : Measure(l, b)
  <2>1. /\ head' = head /\ run' = run /\ proof' = proof /\ loop[l].pc = "working"
        /\ loop'[l].pc = "measuring" /\ loop'[l].tree = head
    BY <1>1, <1>6 DEF Measure, LoopFacts
  <2>2. head = run.recorded
    BY <1>3, <2>1 DEF Kept
  <2> QED BY <1>3, <2>1, <2>2 DEF Kept
<1>7. CASE RecordMeasurement(l)
  <2>1. loop[l].pc = "measuring" /\ head' = head /\ loop'[l].pc = "working"
    BY <1>1, <1>7 DEF RecordMeasurement, LoopFacts
  <2>2. head = run.recorded /\ loop[l].tree = head
    BY <1>3, <2>1 DEF Kept
  <2>3. CASE run' = run /\ proof' = proof
    BY <1>3, <2>1, <2>2, <2>3 DEF Kept
  <2>4. CASE /\ run' = [run EXCEPT !.green = loop[l].green, !.measured = run.recorded]
             /\ proof' = IF loop[l].green THEN [proof EXCEPT !.green = loop[l].tree] ELSE proof
    <3>1. run'.green = loop[l].green /\ run'.measured = run.recorded /\ run'.recorded = run.recorded
      BY <1>1, <2>4 DEF RunFacts
    <3>2. loop[l].green => proof'.green = loop[l].tree
      BY <1>1, <2>4
    <3> QED BY <1>3, <2>1, <2>2, <3>1, <3>2 DEF Kept
  <2> QED BY <1>7, <2>3, <2>4 DEF RecordMeasurement
<1> QED BY <1>4, <1>5, <1>6, <1>7 DEF Patching

LEMMA PatchProven ==
  ASSUME Shape, NEW w \in Worlds, Relay(w), Proven(w), NEW l \in Loops, Patching(l), used'.unrecorded = 0
  PROVE  Proven(w)'
<1>1. /\ SameRun /\ loop[l].role = "developer" /\ loop'[l].role = "developer"
      /\ UNCHANGED <<forge, firing, queue, job>>
  BY ShapeParts, PatchingEffect DEF SameLoop
<1>2. l \in Live /\ \A k \in Kinds : Places(w, k)' \subseteq Places(w, k)
  BY RelayParts, PatchBaton
<1>3. /\ \A s \in Stations : queue[s] = <<>> /\ job[s].pc = "idle"
      /\ \A k \in Kinds \ {"live"} : Places(w, k)' = {}
      /\ \A k \in Live' : k = l
  <2>1. /\ \A s \in Stations : queue[s] = <<>> /\ job[s].pc = "idle"
        /\ \A k \in Kinds \ {"live"} : Places(w, k) = {}
        /\ \A k \in Live : k = l
    BY <1>2, LiveAlone
  <2>2. \A k \in Live' : k \in Live
    BY <1>2, At, AtNext DEF Kinds
  <2> QED BY <1>2, <2>1, <2>2
<1>4. run.verify # "pass" /\ ~Shipping /\ \A f \in firing : f.rule \notin {"06a", "07a", "08a"}
  BY <1>2, At, NotShipping DEF Proven
<1>5. ~Relying(w)'
  BY <1>1, <1>3, <1>4 DEF Relying, Queued, Busy, Kinds
<1>6. ~Shipping'
  BY <1>1, <1>4 DEF Shipping, Queued, Busy
<1>7. Cleared'
  <2>1. job'["verify"].pc = "idle" /\ run'.verify # "pass" /\ forge'.tip = 0
    BY <1>1, <1>3, <1>4 DEF SameRun, Shipping, Stations
  <2> QED BY <1>6, <2>1 DEF Cleared
<1> QED BY <1>5, <1>7, PatchKept DEF Proven, Earned

LEMMA SubmitProven ==
  ASSUME Shape, NEW w \in Worlds, Relay(w), Proven(w), NEW l \in Loops, NEW b \in BOOLEAN,
         SubmitReview(l, b)
  PROVE  Proven(w)'
<1>1. /\ OnlyLoop(l) /\ loop[l].role = "reviewer" /\ loop[l].pc = "working"
      /\ loop'[l].pc \in {"working", "mirroring"}
      /\ UNCHANGED <<head, forge, firing, queue, job, proof>>
      /\ UNCHANGED <<run.recorded, run.green, run.measured, run.verify>>
  BY ShapeParts, SubmitEffect
<1>2. Kept'
  BY <1>1, KeptStays DEF Proven, OnlyLoop
<1>3. Earned(w)'
  <2>1. Relying(w)
    BY <1>1 DEF Relying, Live
  <2> QED BY <1>1, <2>1, ReliesOn DEF Proven
<1>4. Cleared'
  <2>1. Shipping' => Shipping
    BY <1>1, ShippingStays DEF Queued, Busy
  <2> QED BY <1>1, <2>1, ClearedStays DEF Proven
<1> QED BY <1>2, <1>3, <1>4 DEF Proven

LEMMA MirrorProven ==
  ASSUME Shape, NEW w \in Worlds, Relay(w), Proven(w), NEW l \in Loops, MirrorVerdict(l)
  PROVE  Proven(w)'
<1>1. /\ OnlyLoop(l) /\ loop[l].pc = "mirroring" /\ LoopShape(l)
      /\ loop'[l].pc \in {"mirrored", "working"}
      /\ UNCHANGED <<head, run, forge, firing, queue, job, proof>>
  BY ShapeParts, MirrorEffect
<1>2. Kept'
  BY <1>1, KeptStays DEF Proven, OnlyLoop
<1>3. Earned(w)'
  <2>1. Relying(w)
    BY <1>1 DEF Relying, Live, LoopShape
  <2> QED BY <1>1, <2>1, ReliesOn DEF Proven
<1>4. Cleared'
  <2>1. Shipping' => Shipping
    BY <1>1, ShippingStays DEF Queued, Busy
  <2> QED BY <1>1, <2>1, ClearedStays DEF Proven
<1> QED BY <1>2, <1>3, <1>4 DEF Proven

LEMMA EndProven ==
  ASSUME Shape, NEW w \in Worlds, Relay(w), Proven(w), NEW l \in Loops, NEW t \in BOOLEAN,
         EndLoop(l, t)
  PROVE  Proven(w)'
<1>1. /\ OnlyLoop(l) /\ loop[l].pc \in {"working", "mirrored"} /\ LoopShape(l)
      /\ loop'[l].pc = "ended" /\ UNCHANGED <<head, run, forge, firing, queue, job, proof>>
      /\ UNCHANGED <<loop[l].role, loop[l].passed>>
  BY ShapeParts, EndEffect
<1>2. Kept'
  BY <1>1, KeptStays DEF Proven, OnlyLoop
<1>3. /\ loop[l].pc = "working" => \A i \in Kinds : \A x \in Places(w, i)' :
           /\ x = l
           /\ i = IF loop[l].role = "developer" THEN "trigger" ELSE "review"
      /\ loop[l].pc = "mirrored" => \A i \in Kinds : Places(w, i)' \subseteq Places(w, i)
  BY RelayParts, EndBaton
<1>4. Relying(w)' => Relying(w)
  <2>1. CASE loop[l].pc = "mirrored"
    <3>1. \A k \in Loops : loop'[k].role = loop[k].role /\ loop'[k].passed = loop[k].passed
      BY <1>1 DEF OnlyLoop
    <3> QED BY <1>1, <1>3, <2>1, <3>1, RelyingStays DEF Kinds, Queued, Busy
  <2>2. CASE loop[l].pc = "working" /\ loop[l].role = "reviewer"
    BY <2>2 DEF Relying, Live
  <2>3. CASE loop[l].pc = "working" /\ loop[l].role = "developer"
    <3>1. Places(w, "route")' = {} /\ Places(w, "review")' = {} /\ Places(w, "live")' = {}
      BY <1>3, <2>3 DEF Kinds
    <3>2. Live' = {}
      BY <3>1, AtNext
    <3> QED BY <1>1, <3>1, <3>2 DEF Relying, Queued, Busy
  <2> QED BY <1>1, <2>1, <2>2, <2>3 DEF LoopShape, Roles
<1>5. Earned(w)'
  BY <1>1, <1>4, ReliesOn DEF Proven
<1>6. Cleared'
  <2>1. Shipping' => Shipping
    BY <1>1, ShippingStays DEF Queued, Busy
  <2> QED BY <1>1, <2>1, ClearedStays DEF Proven
<1> QED BY <1>2, <1>5, <1>6 DEF Proven

LEMMA TakeProven ==
  ASSUME Shape, NEW w \in Worlds, Relay(w), Proven(w), NEW s \in Stations, Take(s)
  PROVE  Proven(w)'
<1>1. /\ UNCHANGED <<head, run, forge, loop, firing, matched, proof>>
      /\ queue[s] # <<>> /\ job'[s].pc = "start" /\ OnlyJob(s)
      /\ \A t \in Stations : t # s => queue'[t] = queue[t]
  BY ShapeParts, TakeEffect
<1>2. Queued' \cup Busy' \subseteq Queued \cup Busy
  BY <1>1 DEF Queued, Busy, OnlyJob
<1>3. Kept'
  BY <1>1, KeptStays DEF Proven
<1>4. Earned(w)'
  <2>1. \A k \in {"live", "route", "review"} : Places(w, k)' \subseteq Places(w, k)
    BY <1>1, FactsFrame DEF LoopKinds
  <2>2. Relying(w)' => Relying(w)
    BY <1>1, <1>2, <2>1, RelyingStays
  <2> QED BY <1>1, <2>2, ReliesOn DEF Proven
<1>5. Cleared'
  <2>1. Shipping' => Shipping
    BY <1>1, <1>2, ShippingStays
  <2>2. job'["verify"].pc = "cloned" => job'["verify"] = job["verify"]
    BY <1>1 DEF OnlyJob, Stations
  <2> QED BY <1>1, <2>1, <2>2, ClearedStays DEF Proven
<1> QED BY <1>3, <1>4, <1>5 DEF Proven

LEMMA StampFailedProven ==
  ASSUME Shape, NEW w \in Worlds, Proven(w), NEW s \in Stations, StampDispatchFailed(s)
  PROVE  Proven(w)'
<1>1. /\ AddsMark(job[s].on, "failed") /\ job[s].on \in Loops \cup {Run} /\ PutsDown(s)
      /\ UNCHANGED <<head, forge, firing, queue, proof>> /\ RuleState /\ Typed
  BY ShapeParts, StampFailedEffect
<1>2. /\ UNCHANGED <<run.recorded, run.green, run.measured, run.verify>>
      /\ \A k \in Loops : UNCHANGED <<loop[k].role, loop[k].passed, loop[k].pc, loop[k].tree>>
  BY <1>1, MarkEffect
<1>3. Queued' \cup Busy' \subseteq Queued \cup Busy
  BY <1>1 DEF Queued, Busy, PutsDown, OnlyJob, NoJob
<1>4. Kept'
  BY <1>1, <1>2, KeptStays DEF Proven
<1>5. Earned(w)'
  <2>1. \A k \in {"live", "route", "review"} : Places(w, k)' \subseteq Places(w, k)
    BY <1>1, MarkPlaces
  <2>2. Relying(w)' => Relying(w)
    BY <1>1, <1>2, <1>3, <2>1, RelyingStays
  <2> QED BY <1>2, <2>2, ReliesOn DEF Proven
<1>6. Cleared'
  <2>1. Shipping' => Shipping
    BY <1>1, <1>3, ShippingStays
  <2>2. job'["verify"].pc = "cloned" => job'["verify"] = job["verify"]
    BY <1>1 DEF PutsDown, OnlyJob, Stations, NoJob
  <2> QED BY <1>1, <1>2, <2>1, <2>2, ClearedStays DEF Proven
<1> QED BY <1>4, <1>5, <1>6 DEF Proven

LEMMA HandlingCleared ==
  ASSUME Shape, NEW w \in Worlds, Relay(w), Cleared, NEW s \in Stations, Handling(s)
  PROVE  Cleared' /\ UNCHANGED <<proof.green>>
<1>1. /\ Typed /\ UNCHANGED <<head, firing, queue>>
      /\ UNCHANGED <<run.recorded, run.green, run.measured>>
      /\ job \in [Stations -> JobFacts] /\ forge \in [tip : Nat, prs : Nat]
      /\ "verify" \in Stations /\ "delivery" \in Stations /\ job[s] \in JobFacts
      /\ Queued' = Queued
  BY ShapeParts, TypeParts, HandlingEffect DEF Stations, Queued
<1>2. Busy' \subseteq Busy
  <2>1. \A i \in Kinds : Places(w, i)' \subseteq Places(w, i)
    BY RelayParts, HandlingBaton
  <2> QED BY <2>1, At, AtNext DEF Kinds, Busy
<1>3. CASE HandleError(s)
  <2>1. UNCHANGED <<run, forge, proof>> /\ job' = Failing(s)
    BY <1>3 DEF HandleError
  <2>2. job'["verify"].pc = "cloned" => job'["verify"] = job["verify"]
    BY <1>1, <2>1, JobTypes
  <2> QED BY <1>1, <1>2, <2>1, <2>2, ShippingStays, ClearedStays
<1>4. CASE DropDispatch(s)
  <2>1. UNCHANGED <<run, forge, proof>> /\ job' = [job EXCEPT ![s] = NoJob]
    BY <1>4 DEF DropDispatch
  <2>2. job'["verify"].pc = "cloned" => job'["verify"] = job["verify"]
    BY <1>1, <2>1, JobEffects DEF PutsDown, OnlyJob
  <2> QED BY <1>1, <1>2, <2>1, <2>2, ShippingStays, ClearedStays
<1>5. CASE CloneForVerify
  <2>1. UNCHANGED <<run, forge, proof>> /\ job'["verify"].tree = head
    BY <1>1, <1>5 DEF CloneForVerify, JobFacts
  <2>2. Shipping' => Shipping
    BY <1>1, <1>2, <2>1, ShippingStays
  <2> QED BY <1>1, <2>1, <2>2 DEF Cleared, MeasuredPassed
<1>6. CASE StampVerify("retry")
  <2>1. /\ UNCHANGED <<forge, proof>> /\ job' = Failing("verify") /\ job["verify"].pc = "cloned"
        /\ run' = [run EXCEPT !.verify = "retry"]
    BY <1>6 DEF StampVerify
  <2>2. run'.verify = "retry"
    BY <1>1, <2>1, TypeParts DEF RunFacts
  <2>3. "verify" \in Places(w, "job")
    BY <1>1, <2>1, At
  <2>4. ~Shipping
    BY <2>3, NotShipping
  <2>5. ~Shipping'
    BY <1>1, <1>2, <2>1, <2>4, ShippingStays
  <2>6. job'["verify"].pc # "cloned"
    BY <1>1, <2>1, JobTypes
  <2> QED BY <2>1, <2>2, <2>5, <2>6 DEF Cleared, Shipping
<1>7. CASE OpenPR
  <2>1. UNCHANGED <<run, proof>> /\ forge'.tip = forge.tip /\ job'["verify"] = job["verify"]
    BY <1>1, <1>7 DEF OpenPR
  <2>2. Shipping' => Shipping
    BY <1>1, <1>2, <2>1, ShippingStays
  <2> QED BY <1>1, <2>1, <2>2, ClearedStays
<1>8. CASE Push
  <2>1. UNCHANGED <<run, proof>> /\ job["delivery"].pc = "start"
    BY <1>8 DEF Push
  <2>2. job'["verify"] = job["verify"]
    <3>1. CASE job' = Failing("delivery")
      BY <1>1, <3>1, JobTypes
    <3>2. CASE job' = [job EXCEPT !["delivery"] = NoJob] \/ job' = [job EXCEPT !["delivery"].pc = "pushed"]
      BY <1>1, <3>2
    <3> QED BY <1>8, <3>1, <3>2 DEF Push
  <2>3. forge'.tip = forge.tip \/ forge'.tip = run.recorded
    BY <1>1, <1>8 DEF Push
  <2>4. run.verify = "pass"
    BY <1>1, <2>1 DEF Cleared, Shipping, Busy
  <2> QED BY <1>1, <2>1, <2>2, <2>3, <2>4 DEF Cleared, MeasuredPassed
<1> QED BY <1>3, <1>4, <1>5, <1>6, <1>7, <1>8 DEF Handling

LEMMA HandlingProven ==
  ASSUME Shape, NEW w \in Worlds, Relay(w), Proven(w), NEW s \in Stations, Handling(s)
  PROVE  Proven(w)'
<1>1. UNCHANGED <<head, loop, firing, queue, run.recorded, run.green, run.measured>>
  BY ShapeParts, HandlingEffect
<1>2. Cleared' /\ UNCHANGED <<proof.green>>
  BY HandlingCleared DEF Proven
<1>3. \A k \in Kinds : Places(w, k)' \subseteq Places(w, k)
  BY RelayParts, HandlingBaton
<1>4. Queued' \cup Busy' \subseteq Queued \cup Busy
  BY <1>3, At, AtNext DEF Kinds, Queued, Busy
<1>5. Kept'
  BY <1>1, <1>2, KeptStays DEF Proven
<1>6. Earned(w)'
  <2>1. Relying(w)' => Relying(w)
    BY <1>1, <1>3, <1>4, RelyingStays DEF Kinds
  <2> QED BY <1>1, <2>1, ReliesOn DEF Proven
<1> QED BY <1>2, <1>5, <1>6 DEF Proven

LEMMA FloorsProven ==
  ASSUME Shape, NEW w \in Worlds, Relay(w), Proven(w), NEW b \in BOOLEAN, RunFloors(b)
  PROVE  Proven(w)'
<1>1. /\ job["floors"].on \in Finished /\ job["floors"].on \in Loops
      /\ \A i \in Kinds : \A x \in Places(w, i)' :
           \/ i = "route" /\ x = job["floors"].on
           \/ loop' = loop /\ i = "job" /\ x = "floors"
  BY RelayParts, FloorsBaton DEF Finished
<1> DEFINE l == job["floors"].on
<1>2. /\ UNCHANGED <<head, run, forge, firing, queue, proof>>
      /\ OnlyJob("floors")
      /\ \/ /\ OnlyLoop(l) /\ loop'[l].passed = (IF MeasuredPassed THEN "true" ELSE "false")
            /\ loop'[l].pc = loop[l].pc /\ loop'[l].tree = loop[l].tree
         \/ loop' = loop
  BY <1>1, ShapeParts, FloorsEffect DEF PutsDown, Holds
<1>3. Kept'
  BY <1>2, KeptStays DEF Proven, OnlyLoop
<1>4. job'["verify"] = job["verify"] /\ job'["delivery"] = job["delivery"]
  BY <1>2 DEF OnlyJob, Stations
<1>5. MeasuredPassed' <=> MeasuredPassed
  BY <1>2 DEF MeasuredPassed
<1>6. Earned(w)'
  <2> SUFFICES ASSUME Relying(w)' PROVE MeasuredPassed
    BY <1>5 DEF Earned
  <2>1. Places(w, "review")' = {} /\ Places(w, "live")' = {}
    BY <1>1 DEF Kinds
  <2>2. Live' = {}
    BY <2>1, AtNext
  <2>3. \/ \E k \in Places(w, "route")' : loop'[k].passed = "true"
        \/ \E f \in firing : f.rule \in {"06a", "07a"}
        \/ "verify" \in Queued \cup Busy
    BY <1>2, <1>4, <2>1, <2>2 DEF Relying, Queued, Busy
  <2>4. ASSUME NEW k \in Places(w, "route")', loop'[k].passed = "true" PROVE MeasuredPassed
    <3>1. k = l \/ loop' = loop
      BY <1>1 DEF Kinds
    <3>2. CASE loop' = loop
      <4>1. EngineFrame
        BY <1>1, ShapeParts, FloorsEffect DEF EngineFrame
      <4>2. k \in Places(w, "route")
        BY <3>2, <4>1, AllLoops DEF LoopKinds
      <4> QED BY <2>4, <3>2, <4>2 DEF Proven, Earned, Relying
    <3>3. CASE loop' # loop
      BY <1>2, <2>4, <3>1, <3>3
    <3> QED BY <3>2, <3>3
  <2> QED BY <2>3, <2>4 DEF Proven, Earned, Relying
<1>7. Cleared'
  <2>1. Shipping' => Shipping
    BY <1>2, <1>4, ShippingStays DEF Queued, Busy
  <2> QED BY <1>2, <1>4, <2>1, ClearedStays DEF Proven
<1> QED BY <1>3, <1>6, <1>7 DEF Proven

LEMMA DecideProven ==
  ASSUME Shape, NEW w \in Worlds, Relay(w), Proven(w), NEW o \in {"pass", "fail"}, StampVerify(o)
  PROVE  Proven(w)'
<1>1. /\ job["verify"].pc = "cloned" /\ PutsDown("verify") /\ run'.verify = o
      /\ UNCHANGED <<head, forge, loop, firing, queue>>
      /\ UNCHANGED <<run.recorded, run.green, run.measured>>
      /\ proof'.green = proof.green
      /\ proof'.clean = IF o = "pass" THEN job["verify"].tree ELSE proof.clean
      /\ "verify" \in Stations
  BY ShapeParts, DecideEffect DEF Stations
<1>2. "verify" \in Places(w, "job")
  BY <1>1, At
<1>3. MeasuredPassed
  BY <1>1 DEF Proven, Earned, Relying, Busy
<1>4. head = run.recorded
  <2>1. \A i \in Kinds : \A x \in Places(w, i) : i = "job"
    BY <1>2, RelayParts, Alone DEF Kinds
  <2>2. Live = {}
    BY <2>1, At DEF Kinds
  <2>3. \A l \in Loops : loop[l].pc # "stamping"
    BY <2>2 DEF Live
  <2> QED BY <2>3 DEF Proven, Kept
<1>5. job["verify"].tree = head
  BY <1>1 DEF Proven, Cleared
<1>6. ~Shipping
  BY <1>2, NotShipping DEF Proven
<1>7. ~Shipping'
  BY <1>1, <1>6 DEF Shipping, Queued, Busy, PutsDown, OnlyJob
<1>8. Kept'
  BY <1>1, KeptStays DEF Proven
<1>9. Earned(w)'
  BY <1>1, <1>3 DEF Earned, MeasuredPassed
<1>10. Cleared'
  <2>1. job'["verify"].pc # "cloned" /\ forge'.tip = 0
    BY <1>1, <1>6 DEF PutsDown, NoJob, Shipping
  <2>2. MeasuredPassed'
    BY <1>1, <1>3 DEF MeasuredPassed
  <2> QED BY <1>1, <1>4, <1>5, <1>7, <2>1, <2>2 DEF Cleared
<1> QED BY <1>8, <1>9, <1>10 DEF Proven

LEMMA DeliverProven ==
  ASSUME Shape, NEW w \in Worlds, Relay(w), Proven(w), StampPR
  PROVE  Proven(w)'
<1>1. /\ PutsDown("delivery") /\ UNCHANGED <<head, forge, loop, firing, queue, proof>>
      /\ UNCHANGED <<run.recorded, run.green, run.measured, run.verify>> /\ EngineFrame
  BY ShapeParts, StampPREffect DEF EngineFrame
<1>2. Queued' \cup Busy' \subseteq Queued \cup Busy
  BY <1>1 DEF Queued, Busy, PutsDown, OnlyJob, NoJob
<1>3. Kept'
  BY <1>1, KeptStays DEF Proven
<1>4. Earned(w)'
  <2>1. \A k \in {"live", "route", "review"} : Places(w, k)' \subseteq Places(w, k)
    BY <1>1, AllLoops DEF LoopKinds
  <2>2. Relying(w)' => Relying(w)
    BY <1>1, <1>2, <2>1, RelyingStays
  <2> QED BY <1>1, <2>2, ReliesOn DEF Proven
<1>5. Cleared'
  <2>1. Shipping' => Shipping
    BY <1>1, <1>2, ShippingStays
  <2>2. job'["verify"] = job["verify"]
    BY <1>1 DEF PutsDown, OnlyJob, Stations
  <2> QED BY <1>1, <2>1, <2>2, ClearedStays DEF Proven
<1> QED BY <1>3, <1>4, <1>5 DEF Proven

LEMMA RestartProven ==
  ASSUME Shape, NEW w \in Worlds, Relay(w), Proven(w), Restart, World(w)'
  PROVE  Proven(w)'
<1>1. /\ UNCHANGED <<head, run, forge, loop, proof>> /\ firing' = {}
      /\ queue' = [s \in Stations |-> <<>>] /\ job' = [s \in Stations |-> NoJob]
  BY DEF Restart
<1>2. Queued' = {} /\ Busy' = {} /\ job'["verify"].pc # "cloned"
  BY <1>1 DEF Queued, Busy, NoJob, Stations
<1>3. \A k \in Kinds : Places(w, k)' \subseteq Places(w, k)
  BY RelayParts, RestartBaton
<1>4. Kept'
  BY <1>1, KeptStays DEF Proven
<1>5. Earned(w)'
  <2>1. Relying(w)' => Relying(w)
    BY <1>1, <1>2, <1>3, RelyingStays DEF Kinds
  <2> QED BY <1>1, <2>1, ReliesOn DEF Proven
<1>6. Cleared'
  <2>1. Shipping' => Shipping
    BY <1>1, <1>2, ShippingStays
  <2> QED BY <1>1, <1>2, <2>1, ClearedStays DEF Proven
<1> QED BY <1>4, <1>5, <1>6 DEF Proven

LEMMA UnrecordedGrows ==
  ASSUME Shape, Next, used'.unrecorded = 0
  PROVE  used.unrecorded = 0
<1>0. Typed /\ used \in Usage /\ used.unrecorded \in Nat
  BY ShapeParts, TypeParts DEF Usage
<1>1. Error \/ Lose => used'.unrecorded = used.unrecorded
  BY <1>0 DEF Error, Lose, Usage
<1>2. CASE \E r, e : <<r, e>> \in RuleOn /\ Fire(r, e)
  BY <1>2 DEF Fire
<1>3. CASE \E f \in firing : \/ AddMark(f) \/ AddToRun(f) \/ SpawnLoop(f)
                             \/ PublishDispatch(f) \/ LoseAction(f)
  BY <1>1, <1>3 DEF AddMark, AddToRun, SpawnLoop, PublishDispatch, LoseAction
<1>4. CASE \E l \in Loops : Patching(l)
  <2>1. PICK l \in Loops : Patching(l)
    BY <1>4
  <2>2. CASE RecordCommit(l)
    <3>1. CASE used' = used
      BY <3>1
    <3>2. CASE used' = [used EXCEPT !.errors = @ + 1, !.unrecorded = @ + 1]
      <4>1. used'.unrecorded = used.unrecorded + 1
        BY <1>0, <3>2 DEF Usage
      <4>2. used.unrecorded + 1 # 0
        BY <1>0
      <4> QED BY <4>1, <4>2
    <3> QED BY <2>2, <3>1, <3>2 DEF RecordCommit
  <2>3. CASE ApplyPatch(l) \/ RecordMeasurement(l) \/ \E b \in BOOLEAN : Measure(l, b)
    BY <1>1, <2>3 DEF ApplyPatch, RecordMeasurement, Measure
  <2> QED BY <2>1, <2>2, <2>3 DEF Patching
<1>5. CASE \E l \in Loops : MirrorVerdict(l)
  BY <1>0, <1>5, MirrorEffect
<1>6. CASE \E l \in Loops : \E b \in BOOLEAN : SubmitReview(l, b)
  BY <1>0, <1>6, SubmitEffect
<1>7. CASE \E l \in Loops : \E b \in BOOLEAN : EndLoop(l, b)
  BY <1>7 DEF EndLoop
<1>8. CASE \E s \in Stations : Take(s) \/ StampDispatchFailed(s)
  BY <1>8 DEF Take, StampDispatchFailed
<1>9. CASE \E s \in Stations : Handling(s)
  BY <1>0, <1>9, HandlingEffect
<1>10. CASE (\E b \in BOOLEAN : RunFloors(b)) \/ StampPR
  BY <1>10 DEF RunFloors, StampPR
<1>11. CASE \E o \in {"pass", "fail"} : StampVerify(o)
  BY <1>0, <1>11, DecideEffect
<1>12. CASE Restart
  BY <1>0, <1>12 DEF Restart, Usage
<1> QED BY <1>2, <1>3, <1>4, <1>5, <1>6, <1>7, <1>8, <1>9, <1>10, <1>11, <1>12, Moves

LEMMA StepProven ==
  ASSUME Shape, [Next]_vars, NEW w \in Worlds, BatonInv(w), ProvenInv(w)
  PROVE  ProvenInv(w)'
<1> SUFFICES ASSUME World(w)', used'.unrecorded = 0 PROVE Proven(w)'
  BY DEF ProvenInv
<1>1. CASE UNCHANGED vars
  <2>1. Proven(w) /\ UNCHANGED <<head, run, forge, loop, firing, matched, queue, job, proof>>
    BY <1>1 DEF World, vars, ProvenInv
  <2>2. \A k \in {"live", "route", "review"} : Places(w, k)' \subseteq Places(w, k)
    BY <2>1, FactsFrame DEF LoopKinds
  <2>3. Relying(w)' => Relying(w)
    BY <2>1, <2>2, RelyingStays DEF Queued, Busy
  <2>4. Shipping' => Shipping
    BY <2>1, ShippingStays DEF Queued, Busy
  <2> QED BY <2>1, <2>3, <2>4, KeptStays, ReliesOn, ClearedStays DEF Proven
<1>2. CASE Next
  <2>0. Relay(w) /\ Proven(w)
    BY <1>2, WorldStep, UnrecordedGrows DEF BatonInv, ProvenInv
  <2>1. CASE \E r, e : <<r, e>> \in RuleOn /\ Fire(r, e)
    BY <2>0, <2>1, FireProven
  <2>2. CASE \E f \in firing : AddMark(f) \/ AddToRun(f) \/ SpawnLoop(f) \/ PublishDispatch(f)
    BY <2>0, <2>2, MarkProven, LedgerProven, SpawnProven, PublishProven
  <2>3. CASE \E f \in firing : LoseAction(f)
    BY <2>0, <2>3, LoseProven
  <2>4. CASE \E l \in Loops : Patching(l) \/ MirrorVerdict(l)
    BY <2>0, <2>4, PatchProven, MirrorProven
  <2>5. CASE \E l \in Loops : \E b \in BOOLEAN : SubmitReview(l, b) \/ EndLoop(l, b)
    BY <2>0, <2>5, SubmitProven, EndProven
  <2>6. CASE \E s \in Stations : Take(s) \/ StampDispatchFailed(s) \/ Handling(s)
    BY <2>0, <2>6, TakeProven, StampFailedProven, HandlingProven
  <2>7. CASE \E b \in BOOLEAN : RunFloors(b)
    BY <2>0, <2>7, FloorsProven
  <2>8. CASE \E o \in {"pass", "fail"} : StampVerify(o)
    BY <2>0, <2>8, DecideProven
  <2>9. CASE StampPR \/ Restart
    BY <2>0, <2>9, DeliverProven, RestartProven
  <2> QED BY <1>2, <2>1, <2>2, <2>3, <2>4, <2>5, <2>6, <2>7, <2>8, <2>9, Moves
<1> QED BY <1>1, <1>2

LEMMA InitProven ==
  ASSUME Init, NEW w \in Worlds
  PROVE  Proven(w)
<1>1. /\ head = 0 /\ run.recorded = 0 /\ ~run.green /\ run.verify = "none" /\ forge.tip = 0
      /\ firing = {} /\ Queued = {} /\ Busy = {}
      /\ \A l \in Loops : /\ loop[l].role \in {"coordinator", "none"} /\ loop[l].passed = "none"
                          /\ loop[l].pc \in {"unborn", "ended"}
  BY DEF Init, Unborn, Queued, Busy, NoJob
<1>2. job["verify"].pc = "idle"
  BY DEF Init, NoJob, Stations
<1>3. ~Relying(w)
  <2>1. Places(w, "route") = {} /\ Places(w, "review") = {} /\ Live = {}
    BY <1>1, At DEF RouteAt, ReviewAt, Live
  <2> QED BY <1>1, <2>1 DEF Relying
<1>4. ~Shipping
  BY <1>1 DEF Shipping
<1> QED BY <1>1, <1>2, <1>3, <1>4 DEF Proven, Kept, Earned, Cleared

LEMMA ProvenAlways == Spec => [](\A w \in Worlds : ProvenInv(w))
<1>1. Init => \A w \in Worlds : ProvenInv(w)
  BY InitProven DEF ProvenInv
<1>2. Shape /\ (\A w \in Worlds : BatonInv(w)) /\ [Next]_vars
        /\ (\A w \in Worlds : ProvenInv(w)) => (\A w \in Worlds : ProvenInv(w))'
  <2> SUFFICES ASSUME Shape, \A w \in Worlds : BatonInv(w), [Next]_vars,
                      \A w \in Worlds : ProvenInv(w), NEW w \in Worlds
               PROVE  ProvenInv(w)'
    BY DEF Worlds
  <2> QED BY StepProven
<1> QED BY <1>1, <1>2, BatonAlways, PTL DEF Spec

(* When every commit of apply_patch was recorded, what delivery pushed is  *)
(* the very tree that measure_task last measured green and that the clean  *)
(* room proved: nothing moves the checkout between the measurement, the    *)
(* review, the proof and the push.                                         *)
THEOREM DeliveredHolds == Spec => []DeliveredIsProven
<1>1. (\A w \in Worlds : ProvenInv(w)) => DeliveredIsProven
  <2> SUFFICES ASSUME \A w \in Worlds : ProvenInv(w), OneKindOfFault, used.unrecorded = 0, forge.tip # 0
               PROVE  forge.tip = proof.green /\ forge.tip = proof.clean
    BY DEF DeliveredIsProven
  <2>1. World("remembered") \/ World("marked")
    BY DEF OneKindOfFault, World
  <2>2. Kept /\ Cleared
    BY <2>1 DEF ProvenInv, Proven, Worlds
  <2> QED BY <2>2 DEF Kept, Cleared, Shipping, MeasuredPassed
<1> QED BY <1>1, ProvenAlways, PTL
-----------------------------------------------------------------------------
(* Whose turn it is.  The abstract attempt needs more of the state than    *)
(* the baton does: what a firing and a mark of a loop say of the loop,     *)
(* that a reported failure leaves nothing but giving up, and that the run  *)
(* still carries the verdict that what follows an approval relies on.      *)

Reviewed == {l \in Loops : loop[l].role = "reviewer" /\ loop[l].pc \in {"mirrored", "ended"}}
FiredOn(f) ==
  /\ f.rule = "04" => loop[f.on].role = "coordinator"
  /\ f.rule \in Routing => loop[f.on].passed # "none"
  /\ f.rule \in Reviewing => f.on \in Reviewed
MarkedLoop(l) ==
  /\ Has(l, "dispatched") => loop[l].role = "coordinator" \/ l \in Finished
  /\ Has(l, "routed") => loop[l].passed # "none" \/ l \in Reviewed
  /\ loop[l].pc = "unborn" => loop[l].role = "none"
Grounds == (\A f \in firing : FiredOn(f)) /\ (\A l \in Loops : MarkedLoop(l))

Failed == "failed" \in run.marks \/ \E l \in Loops : Has(l, "failed")
GivingUp == \/ "park-routed" \in run.marks \/ \E l \in Loops : Has(l, "park-routed")
            \/ \E f \in firing : f.rule \in Surrender
FailedPlace(k, x) == k \in {"failed", "failed-run"} \/ (k = "carrier" /\ x.rule \in Surrender)

ApprovedPlace(k, x) ==
  \/ k = "review" /\ loop[x].verdict = "approved"
  \/ k = "live" /\ loop[x].pc = "mirroring" /\ loop[x].green
  \/ k = "carrier" /\ x.rule = "07a"
  \/ k \in {"queue", "job"} /\ x = "verify"

Sound(k, x) == /\ Failed => FailedPlace(k, x)
               /\ ApprovedPlace(k, x) => run.verdict = "approved"
Sounds(w) == \A k \in Kinds : \A x \in Places(w, k) : Sound(k, x)

Closes == "routed" \in run.marks \/ \E f \in firing : f.rule \in Closing
Closed == Closes => run.verify \in {"pass", "fail"}
GaveUp(w) == w = "marked" => \A f \in firing : f.todo = <<"park-routed">> => run.parked
Opened == forge.prs \in {0, 1} /\ (job["delivery"].pc = "opened" => forge.prs = 1)

Turning(w) == Grounds /\ Sounds(w) /\ Closed /\ (GivingUp => Failed) /\ GaveUp(w) /\ Opened

(* Frames.                                                                 *)
Descends == \A g \in firing' : \E h \in firing : h.rule = g.rule /\ h.on = g.on
SameMarks == run'.marks = run.marks /\ \A l \in Loops : loop'[l].marks = loop[l].marks
LoopGrows(l) ==
  /\ loop[l].role = "coordinator" => loop'[l].role = "coordinator"
  /\ loop[l].passed # "none" => loop'[l].passed # "none"
  /\ l \in Reviewed => l \in Reviewed'
  /\ l \in Finished => l \in Finished'
  /\ loop'[l].pc = "unborn" => loop[l].pc = "unborn" /\ loop'[l].role = loop[l].role

LEMMA OnLoops ==
  ASSUME Typed, NEW f \in firing
  PROVE  f.rule \in {"04"} \cup Routing \cup Reviewing => f.on \in Loops
<1>1. {"04"} \cup Routing \cup Reviewing \subseteq LoopRules
  BY DEF LoopRules, Routing, Reviewing
<1> QED BY <1>1, FiringFacts

LEMMA GroundsKept ==
  ASSUME Typed, Grounds, Descends, \A l \in Loops : LoopGrows(l),
         \A l \in Loops : \A m \in {"dispatched", "routed"} :
           m \in loop'[l].marks => m \in loop[l].marks
  PROVE  Grounds'
<1>1. ASSUME NEW g \in firing' PROVE FiredOn(g)'
  <2>1. PICK h \in firing : h.rule = g.rule /\ h.on = g.on
    BY DEF Descends
  <2>2. FiredOn(h) /\ (h.rule \in {"04"} \cup Routing \cup Reviewing => h.on \in Loops)
    BY OnLoops DEF Grounds
  <2>3. h.on \in Loops => LoopGrows(h.on)
    OBVIOUS
  <2> QED BY <2>1, <2>2, <2>3 DEF FiredOn, LoopGrows
<1>2. ASSUME NEW l \in Loops PROVE MarkedLoop(l)'
  BY DEF Grounds, MarkedLoop, LoopGrows, Has
<1> QED BY <1>1, <1>2 DEF Grounds

LEMMA SameFailed ==
  ASSUME SameMarks, Descends
  PROVE  (Failed' <=> Failed) /\ (GivingUp' => GivingUp)
<1>1. \A l \in Loops : \A m : Has(l, m)' <=> Has(l, m)
  BY DEF SameMarks, Has
<1> QED BY <1>1 DEF SameMarks, Descends, Failed, GivingUp

LEMMA SameClosed ==
  ASSUME Closed, run'.marks = run.marks, Descends,
         run'.verify = run.verify
  PROVE  Closed'
  BY DEF Closed, Closes, Descends

(* Of the steps that leave the marks alone.                                *)
LEMMA TurningStays ==
  ASSUME Typed, NEW w, Turning(w), Descends, SameMarks, \A l \in Loops : LoopGrows(l),
         Sounds(w)', Closed', GaveUp(w)', Opened'
  PROVE  Turning(w)'
<1>1. Grounds'
  BY GroundsKept DEF Turning, SameMarks
<1>2. GivingUp' => Failed'
  BY SameFailed DEF Turning
<1> QED BY <1>1, <1>2 DEF Turning

LEMMA TurningParts ==
  \A w : Turning(w) => /\ Grounds /\ Sounds(w) /\ Closed /\ (GivingUp => Failed)
                       /\ GaveUp(w) /\ Opened
  BY DEF Turning

LEMMA SameFirings == firing' \subseteq firing => Descends
  BY DEF Descends

LEMMA AdvanceDescends ==
  ASSUME Typed, NEW f \in firing, Advance(f)
  PROVE  Descends
<1>1. /\ firing' = (firing \ {f}) \cup (IF Len(f.todo) > 1 THEN {Rested(f)} ELSE {})
      /\ Rested(f).rule = f.rule /\ Rested(f).on = f.on
  BY AdvanceFacts
<1> QED BY <1>1 DEF Descends

LEMMA SameGrows ==
  ASSUME NEW l \in Loops, UNCHANGED <<loop[l].role, loop[l].pc, loop[l].passed>>
  PROVE  LoopGrows(l)
  BY DEF LoopGrows, Reviewed, Finished

LEMMA SameOpened == Opened /\ forge' = forge /\ job' = job => Opened'
  BY DEF Opened

LEMMA OtherOpened ==
  ASSUME Opened, forge' = forge, job'["delivery"].pc = "opened" => job["delivery"].pc = "opened"
  PROVE  Opened'
  BY DEF Opened

LEMMA KeptGaveUp ==
  ASSUME NEW w, GaveUp(w), firing' \subseteq firing, run'.parked = run.parked
  PROVE  GaveUp(w)'
  BY DEF GaveUp

(* The note of having parked follows the parking.                          *)
LEMMA LastMark ==
  ASSUME Typed, NEW f \in firing, Len(f.todo) > 1, Tail(f.todo) = <<"park-routed">>
  PROVE  Head(f.todo) = "park" /\ f.rule \in Surrender
<1>1. Rest(f.rule, f.todo) /\ f.rule \in LoopRules \cup RunRules
  BY FiringFacts
<1>2. CASE f.rule \in Surrender
  <2>1. f.todo \in {<<"park", "park-routed">>, <<"park-routed">>}
    BY <1>1, <1>2, Tuples DEF Rest, Surrender, Cleaning
  <2>2. f.todo # <<"park-routed">>
    BY Longer
  <2> QED BY <2>1, <2>2, <1>2, Tuples
<1>3. CASE f.rule \notin Surrender
  <2>1. "park-routed" \notin {"developer", "reviewer", "floors", "verify", "delivery", "park"}
    OBVIOUS
  <2>2. ASSUME NEW a, NEW b, f.todo = <<a, b>> PROVE b = "park-routed"
    BY <2>2, Tuples
  <2>3. ASSUME NEW a, NEW b, NEW c, f.todo = <<a, b, c>> PROVE FALSE
    <3>1. Tail(f.todo) = <<b, c>>
      BY <2>3, Tuples
    <3> QED BY <3>1, Tuples
  <2>4. ASSUME NEW a, f.todo = <<a>> PROVE FALSE
    BY <2>4, Longer
  <2>5. \/ \E a : f.todo = <<a>>
        \/ \E a, b, c : f.todo = <<a, b, c>>
        \/ \E a : \E b \in {"developer", "reviewer", "floors", "verify", "delivery", "park"} :
             f.todo = <<a, b>>
    <3>1. CASE f.todo = Does(f.rule)
      BY <1>1, <1>3, <3>1, Table DEF LoopRules, RunRules, Cleaning, Surrender
    <3>2. CASE f.todo # Does(f.rule)
      BY <1>1, <1>3, <3>2 DEF Rest
    <3> QED BY <3>1, <3>2
  <2> QED BY <2>1, <2>2, <2>3, <2>4, <2>5
<1> QED BY <1>2, <1>3

(* A firing that goes on: only after parking is the last mark left.        *)
LEMMA AdvanceGaveUp ==
  ASSUME Typed, NEW w, GaveUp(w), NEW f \in firing, Advance(f),
         Head(f.todo) = "park" => run'.parked, run.parked => run'.parked
  PROVE  GaveUp(w)'
<1>1. firing' = (firing \ {f}) \cup (IF Len(f.todo) > 1 THEN {Rested(f)} ELSE {})
      /\ Rested(f).todo = Tail(f.todo)
  BY AdvanceFacts
<1>2. Len(f.todo) > 1 /\ Tail(f.todo) = <<"park-routed">> => Head(f.todo) = "park"
  BY LastMark
<1>3. GaveUp(w)'
  <2> SUFFICES ASSUME w = "marked", NEW g \in firing', g.todo = <<"park-routed">> PROVE run'.parked
    BY DEF GaveUp
  <2>1. CASE g \in firing
    BY <2>1 DEF GaveUp
  <2>2. CASE g = Rested(f) /\ Len(f.todo) > 1
    BY <1>1, <1>2, <2>2
  <2> QED BY <1>1, <2>1, <2>2
<1> QED BY <1>3
-----------------------------------------------------------------------------
(* Who has the work is told by the one place of the baton.                 *)

LEMMA HolderAt ==
  ASSUME NEW w, Baton(w), NEW k \in Kinds, NEW x \in Places(w, k)
  PROVE  Holder(w) = Party(k, x)
<1>1. \A j \in Kinds : \A y \in Places(w, j) : j = k /\ y = x
  BY Alone
<1>2. Hands(w) = {Party(k, x)}
  <2>1. \A p \in Hands(w) : p = Party(k, x)
    BY <1>1 DEF Hands
  <2>2. Party(k, x) \in Hands(w)
    BY DEF Hands
  <2> QED BY <2>1, <2>2
<1> QED BY <1>2 DEF Holder

LEMMA HolderAtNext ==
  ASSUME NEW w, Baton(w)', NEW k \in Kinds, NEW x, x \in Places(w, k)'
  PROVE  Holder(w)' = Party(k, x)'
<1>1. \A j \in Kinds : \A y \in Places(w, j)' : j = k /\ y = x
  BY DEF Baton, One, Sole
<1>2. Hands(w)' = {Party(k, x)'}
  <2>1. \A p \in Hands(w)' : p = Party(k, x)'
    BY <1>1 DEF Hands
  <2>2. Party(k, x)' \in Hands(w)'
    BY DEF Hands
  <2> QED BY <2>1, <2>2
<1> QED BY <1>2 DEF Holder

LEMMA HolderNone ==
  ASSUME NEW w
  PROVE  /\ Nobody(w) => Holder(w) = "nobody"
         /\ Nobody(w)' => Holder(w)' = "nobody"
<1>1. (Nobody(w) => Hands(w) = {}) /\ (Nobody(w)' => Hands(w)' = {})
  BY DEF Nobody, Hands
<1> QED BY <1>1 DEF Holder

(* A step after which the work is where it was, or nowhere as before.      *)
LEMMA HolderKept ==
  ASSUME NEW w, Baton(w), Baton(w)',
         \A k \in Kinds : Places(w, k)' \subseteq Places(w, k),
         \A k \in Kinds : \A x \in Places(w, k) : x \in Places(w, k)' /\ Party(k, x)' = Party(k, x)
  PROVE  Holder(w)' = Holder(w)
<1>1. CASE Nobody(w)
  <2>1. Nobody(w)'
    BY <1>1 DEF Nobody
  <2> QED BY <1>1, <2>1, HolderNone
<1>2. CASE ~Nobody(w)
  <2>1. PICK k \in Kinds : \E y \in Places(w, k) : TRUE
    BY <1>2 DEF Nobody
  <2>2. PICK x : x \in Places(w, k)
    BY <2>1
  <2>3. Holder(w) = Party(k, x)
    BY <2>2, HolderAt
  <2>4. x \in Places(w, k)' /\ Party(k, x)' = Party(k, x)
    BY <2>2
  <2>5. Holder(w)' = Party(k, x)'
    BY <2>4, HolderAtNext
  <2> QED BY <2>3, <2>4, <2>5
<1> QED BY <1>1, <1>2

(* The parties.                                                            *)
LEMMA Parties ==
  ASSUME NEW x
  PROVE  /\ Party("live", x) = loop[x].role
         /\ Party("trigger", x) = IF loop[x].role = "coordinator" THEN "developer" ELSE "floors"
         /\ Party("route", x) = RoutedTo(x)
         /\ Party("review", x) = ReviewedTo(x)
         /\ Party("verdict", x) = IF run.verify = "fail" THEN "human"
                                  ELSE IF run.verdict = "approved" THEN "delivery" ELSE "nobody"
         /\ Party("carrier", x) = Starts(x)
         /\ Party("queue", x) = x /\ Party("job", x) = x
         /\ Party("failed", x) = "human" /\ Party("failed-run", x) = "human"
<1>1. Party("live", x) = loop[x].role
  BY DEF Party
<1>2. Party("trigger", x) = IF loop[x].role = "coordinator" THEN "developer" ELSE "floors"
  BY DEF Party
<1>3. Party("route", x) = RoutedTo(x)
  BY DEF Party
<1>4. Party("review", x) = ReviewedTo(x)
  BY DEF Party
<1>5. Party("verdict", x) = IF run.verify = "fail" THEN "human"
                            ELSE IF run.verdict = "approved" THEN "delivery" ELSE "nobody"
  BY DEF Party
<1>6. Party("carrier", x) = Starts(x)
  BY DEF Party
<1>7. Party("queue", x) = x /\ Party("job", x) = x
  BY DEF Party
<1>8. Party("failed", x) = "human" /\ Party("failed-run", x) = "human"
  BY DEF Party
<1> QED BY <1>1, <1>2, <1>3, <1>4, <1>5, <1>6, <1>7, <1>8

LEMMA PartiesNext ==
  ASSUME NEW x
  PROVE  /\ Party("live", x)' = loop'[x].role
         /\ Party("trigger", x)' = IF loop'[x].role = "coordinator" THEN "developer" ELSE "floors"
         /\ Party("route", x)' = RoutedTo(x)'
         /\ Party("review", x)' = ReviewedTo(x)'
         /\ Party("verdict", x)' = IF run'.verify = "fail" THEN "human"
                                   ELSE IF run'.verdict = "approved" THEN "delivery" ELSE "nobody"
         /\ Party("carrier", x)' = Starts(x)
         /\ Party("queue", x)' = x /\ Party("job", x)' = x
         /\ Party("failed", x)' = "human" /\ Party("failed-run", x)' = "human"
<1>1. Party("live", x)' = loop'[x].role
  BY DEF Party
<1>2. Party("trigger", x)' = IF loop'[x].role = "coordinator" THEN "developer" ELSE "floors"
  BY DEF Party
<1>3. Party("route", x)' = RoutedTo(x)'
  BY DEF Party
<1>4. Party("review", x)' = ReviewedTo(x)'
  BY DEF Party
<1>5. Party("verdict", x)' = IF run'.verify = "fail" THEN "human"
                             ELSE IF run'.verdict = "approved" THEN "delivery" ELSE "nobody"
  BY DEF Party
<1>6. Party("carrier", x)' = Starts(x)
  <2>1. Party("carrier", x)' = Starts(x)'
    BY DEF Party
  <2>2. Starts(x)' = Starts(x)
    BY DEF Starts
  <2> QED BY <2>1, <2>2
<1>7. Party("queue", x)' = x /\ Party("job", x)' = x
  BY DEF Party
<1>8. Party("failed", x)' = "human" /\ Party("failed-run", x)' = "human"
  BY DEF Party
<1> QED BY <1>1, <1>2, <1>3, <1>4, <1>5, <1>6, <1>7, <1>8

LEMMA StartsWhom ==
  ASSUME NEW f, f.todo # <<"park-routed">>
  PROVE  /\ f.rule \in {"04", "06c", "06f", "07b"} => Starts(f) = "developer"
         /\ f.rule = "05" => Starts(f) = "floors"
         /\ f.rule = "06a" => Starts(f) = "reviewer"
         /\ f.rule = "07a" => Starts(f) = "verify"
         /\ f.rule = "08a" => Starts(f) = "delivery"
         /\ f.rule \in {"06d", "06g", "07c", "07d", "08b"} \cup Surrender => Starts(f) = "human"
<1>1. f.rule \in {"04", "06c", "06f", "07b"} => Starts(f) = "developer"
  BY DEF Starts
<1>2. f.rule = "05" => Starts(f) = "floors"
  BY DEF Starts
<1>3. f.rule = "06a" => Starts(f) = "reviewer"
  BY DEF Starts
<1>4. f.rule = "07a" => Starts(f) = "verify"
  BY DEF Starts
<1>5. f.rule = "08a" => Starts(f) = "delivery"
  BY DEF Starts
<1>6. f.rule \in {"06d", "06g", "07c", "07d", "08b"} \cup Surrender => Starts(f) = "human"
  BY DEF Starts, Surrender
<1> QED BY <1>1, <1>2, <1>3, <1>4, <1>5, <1>6

(* A rule starts whom the place it fires from calls for.                   *)
LEMMA StartsFrom ==
  ASSUME Shape, Judged, NEW f, <<f.rule, f.on>> \in RuleOn, f.rule \notin Cleaning,
         When(f.rule, f.on), f.todo # <<"park-routed">>
  PROVE  Party(Origin(f.rule), f.on) = Starts(f)
<1> DEFINE e == f.on
<1>0. /\ f.rule \in LoopRules \cup RunRules
      /\ f.rule \in LoopRules => e \in Loops
      /\ f.rule \in RunRules => e = Run
  BY RuleOnFacts
<1>1. CASE f.rule = "04"
  <2>1. Origin(f.rule) = "trigger" /\ Dispatch(e)
    BY <1>0, <1>1, Origins, WhenLoop DEF LoopRules
  <2> QED BY <1>1, <2>1, Parties, StartsWhom DEF Dispatch
<1>2. CASE f.rule = "05"
  <2>1. Origin(f.rule) = "trigger" /\ FloorsTrigger(e)
    BY <1>0, <1>2, Origins, WhenLoop DEF LoopRules
  <2> QED BY <1>2, <2>1, Parties, StartsWhom DEF FloorsTrigger
<1>3. CASE f.rule \in Routing
  <2>0. Origin(f.rule) = "route" /\ e \in Loops
    BY <1>0, <1>3, Origins, RuleGroups
  <2>1. /\ loop[e].attempts \in Nat /\ loop[e].transients \in Nat /\ loop[e].transient \in BOOLEAN
        /\ Budget \in Nat /\ TransientCap \in Nat
    BY <2>0, ShapeParts, TypeParts, LoopAssumption DEF LoopFacts
  <2>9. /\ loop[e].attempts >= Budget => ~(loop[e].attempts < Budget)
        /\ loop[e].transients >= TransientCap => ~(loop[e].transients < TransientCap)
    BY <2>1
  <2>2. Has(e, "unclean") => ~(loop[e].passed = "true" /\ ~loop[e].rejected)
    BY <2>0 DEF Judged, Unclean
  <2>3. CASE f.rule = "06a"
    <3>1. RouteAdvance(e)
      BY <2>0, <2>3, WhenLoop
    <3>2. RoutedTo(e) = "reviewer"
      BY <3>1 DEF RouteAdvance, RoutedTo
    <3> QED BY <2>0, <2>3, <3>2, Parties, StartsWhom
  <2>4. CASE f.rule = "06c"
    <3>1. RouteRetry(e)
      BY <2>0, <2>4, WhenLoop
    <3>2. RoutedTo(e) = "developer"
      BY <2>2, <3>1 DEF RouteRetry, Unrouted, RoutedTo
    <3> QED BY <2>0, <2>4, <3>2, Parties, StartsWhom
  <2>5. CASE f.rule = "06d"
    <3>1. RouteEscalate(e) /\ ~(loop[e].attempts < Budget)
      BY <2>0, <2>5, <2>9, WhenLoop DEF RouteEscalate
    <3>2. RoutedTo(e) = "human"
      BY <2>2, <3>1 DEF RouteEscalate, Unrouted, RoutedTo
    <3> QED BY <2>0, <2>5, <3>2, Parties, StartsWhom
  <2>6. CASE f.rule = "06f"
    <3>1. RouteTransientRetry(e)
      BY <2>0, <2>6, WhenLoop
    <3>2. RoutedTo(e) = "developer"
      BY <2>2, <3>1 DEF RouteTransientRetry, Unrouted, RoutedTo
    <3> QED BY <2>0, <2>6, <3>2, Parties, StartsWhom
  <2>7. CASE f.rule = "06g"
    <3>1. RouteTransientPark(e) /\ ~(loop[e].transients < TransientCap)
      BY <2>0, <2>7, <2>9, WhenLoop DEF RouteTransientPark
    <3>2. RoutedTo(e) = "human"
      BY <2>2, <3>1 DEF RouteTransientPark, Unrouted, RoutedTo
    <3> QED BY <2>0, <2>7, <3>2, Parties, StartsWhom
  <2> QED BY <1>3, <2>3, <2>4, <2>5, <2>6, <2>7 DEF Routing
<1>4. CASE f.rule \in Reviewing
  <2>0. Origin(f.rule) = "review" /\ e \in Loops
    BY <1>0, <1>4, Origins, RuleGroups
  <2>1. loop[e].attempts \in Nat /\ Budget \in Nat
    BY <2>0, ShapeParts, TypeParts, LoopAssumption DEF LoopFacts
  <2>2. CASE f.rule = "07a"
    <3>1. ReviewApproved(e)
      BY <2>0, <2>2, WhenLoop
    <3>2. ReviewedTo(e) = "verify"
      BY <3>1 DEF ReviewApproved, ReviewedTo
    <3> QED BY <2>0, <2>2, <3>2, Parties, StartsWhom
  <2>3. CASE f.rule = "07b"
    <3>1. ReviewRetry(e)
      BY <2>0, <2>3, WhenLoop
    <3>2. ReviewedTo(e) = "developer"
      BY <3>1 DEF ReviewRetry, ReviewedTo
    <3> QED BY <2>0, <2>3, <3>2, Parties, StartsWhom
  <2>4. CASE f.rule = "07c"
    <3>1. ReviewPark(e) /\ ~(loop[e].attempts < Budget)
      BY <2>0, <2>1, <2>4, WhenLoop DEF ReviewPark
    <3>2. ReviewedTo(e) = "human"
      BY <3>1 DEF ReviewPark, ReviewedTo
    <3> QED BY <2>0, <2>4, <3>2, Parties, StartsWhom
  <2>5. CASE f.rule = "07d"
    <3>1. ReviewNoVerdict(e)
      BY <2>0, <2>5, WhenLoop
    <3>2. ReviewedTo(e) = "human"
      BY <3>1 DEF ReviewNoVerdict, ReviewedTo
    <3> QED BY <2>0, <2>5, <3>2, Parties, StartsWhom
  <2> QED BY <1>4, <2>2, <2>3, <2>4, <2>5 DEF Reviewing
<1>5. CASE f.rule \in Closing
  <2>0. Origin(f.rule) = "verdict" /\ e = Run
    BY <1>0, <1>5, Origins, RuleGroups
  <2>1. CASE f.rule = "08a"
    <3>1. DeliverRun
      BY <2>0, <2>1, WhenRun
    <3> QED BY <2>0, <2>1, <3>1, Parties, StartsWhom DEF DeliverRun
  <2>2. CASE f.rule = "08b"
    <3>1. ParkRun
      BY <2>0, <2>2, WhenRun
    <3> QED BY <2>0, <2>2, <3>1, Parties, StartsWhom DEF ParkRun
  <2> QED BY <1>5, <2>1, <2>2 DEF Closing
<1>6. CASE f.rule \in Surrender
  <2>1. Origin(f.rule) \in {"failed", "failed-run"}
    BY <1>6, Origins DEF Surrender
  <2> QED BY <1>6, <2>1, Parties, StartsWhom
<1> QED BY <1>0, <1>1, <1>2, <1>3, <1>4, <1>5, <1>6, RuleGroups DEF Surrender

(* A firing that goes on starts whom it would have started.                *)
LEMMA RestedStarts ==
  ASSUME Typed, NEW f \in firing, Len(f.todo) > 1, Advance(f)
  PROVE  /\ Starts(Rested(f)) = Starts(f) \/ (f.rule \in Surrender /\ Starts(Rested(f)) = "nobody")
         /\ f.rule \notin Surrender => Starts(Rested(f)) = Starts(f)
<1>1. /\ Rested(f).rule = f.rule /\ Rested(f).todo = Tail(f.todo)
      /\ f.todo # <<"park-routed">>
  BY AdvanceFacts, Longer
<1>2. CASE Tail(f.todo) = <<"park-routed">>
  <2>1. f.rule \in Surrender
    BY <1>2, LastMark
  <2> QED BY <1>1, <1>2, <2>1 DEF Starts
<1>3. CASE Tail(f.todo) # <<"park-routed">>
  BY <1>1, <1>3 DEF Starts
<1> QED BY <1>2, <1>3

LEMMA RestedCarries ==
  ASSUME Typed, NEW f \in firing, Len(f.todo) > 1, Advance(f), NEW w \in Worlds,
         f.rule \notin Cleaning, w = "marked" => f.rule \notin Surrender
  PROVE  Rested(f) \in Places(w, "carrier")'
<1>1. /\ firing' = (firing \ {f}) \cup (IF Len(f.todo) > 1 THEN {Rested(f)} ELSE {})
      /\ Rested(f).rule = f.rule /\ Rested(f).todo = Tail(f.todo)
  BY AdvanceFacts
<1>2. Tail(f.todo) # Does(f.rule)
  BY FiringFacts, TailLeft
<1>3. Carries(w, Rested(f))
  BY <1>1, <1>2 DEF Carries, Worlds
<1> QED BY <1>1, <1>3, AtNext
-----------------------------------------------------------------------------
(* One step after another.                                                 *)

LEMMA SoundsStay ==
  ASSUME NEW w, Sounds(w), Failed' => Failed, run'.verdict = run.verdict,
         \A k \in Kinds : \A x \in Places(w, k)' :
           x \in Places(w, k) /\ (ApprovedPlace(k, x)' => ApprovedPlace(k, x))
  PROVE  Sounds(w)'
<1> SUFFICES ASSUME NEW k \in Kinds, NEW x, x \in Places(w, k)' PROVE Sound(k, x)'
  BY DEF Sounds
<1>1. Sound(k, x) /\ (ApprovedPlace(k, x)' => ApprovedPlace(k, x))
  BY DEF Sounds
<1>2. FailedPlace(k, x)' <=> FailedPlace(k, x)
  BY DEF FailedPlace
<1> QED BY <1>1, <1>2 DEF Sound

(* The one place that is left is as sound as the one the baton came from.  *)
LEMMA SoundsPass ==
  ASSUME NEW w, Sounds(w), NEW k \in Kinds, NEW x \in Places(w, k), ~FailedPlace(k, x),
         NEW j, NEW y, \A i \in Kinds : \A z \in Places(w, i)' : i = j /\ z = y,
         Failed' => Failed, ApprovedPlace(j, y)' => run'.verdict = "approved"
  PROVE  Sounds(w)' /\ ~Failed
<1>1. ~Failed /\ ~Failed'
  BY DEF Sounds, Sound
<1> QED BY <1>1 DEF Sounds, Sound

LEMMA FiringStarts ==
  ASSUME NEW r \in LoopRules \cup RunRules
  PROVE  Does(r) # <<"park-routed">>
<1>1. \/ Does(r) = <<"unclean">>
      \/ \E a, b : Does(r) = <<a, b>> \/ \E d : Does(r) = <<a, b, d>>
  BY Table DEF LoopRules, RunRules, Cleaning, Surrender
<1>2. <<"unclean">> # <<"park-routed">>
  <2>1. Head(<<"unclean">>) = "unclean" /\ Head(<<"park-routed">>) = "park-routed"
    BY Tuples
  <2> QED BY <2>1
<1> QED BY <1>1, <1>2, Tuples

LEMMA OpenShrinks ==
  ASSUME NEW w, NEW R, NEW e, matched' \subseteq matched
  PROVE  Open(w, R, e) => Open(w, R, e)'
  BY DEF Open

(* A loop left alone stays where it is.                                    *)
LEMMA LoopPersists ==
  ASSUME NEW w, matched' \subseteq matched, NEW l \in Loops, SameLoop(l), loop'[l].pc = loop[l].pc
  PROVE  \A k \in LoopKinds : l \in Places(w, k) => l \in Places(w, k)' /\ Party(k, l)' = Party(k, l)
<1>0. UNCHANGED <<loop[l].role, loop[l].pc, loop[l].marks, loop[l].passed, loop[l].rejected,
                  loop[l].transient, loop[l].verdict, loop[l].attempts, loop[l].transients>>
  BY DEF SameLoop
<1>1. l \in Places(w, "live") => l \in Places(w, "live")'
  BY <1>0, At, AtNext DEF Live
<1>2. l \in Places(w, "trigger") => l \in Places(w, "trigger")'
  BY <1>0, At, AtNext, OpenShrinks DEF TriggerAt, Dispatch, FloorsTrigger, Has
<1>3. l \in Places(w, "route") => l \in Places(w, "route")'
  BY <1>0, At, AtNext, OpenShrinks DEF RouteAt, Has
<1>4. l \in Places(w, "review") => l \in Places(w, "review")'
  BY <1>0, At, AtNext, OpenShrinks DEF ReviewAt, Has
<1>5. l \in Places(w, "failed") => l \in Places(w, "failed")'
  BY <1>0, At, AtNext, OpenShrinks DEF FailedAt, StationFailedLoop, Has
<1>6. RoutedTo(l)' = RoutedTo(l)
  BY <1>0 DEF RoutedTo
<1>7. ReviewedTo(l)' = ReviewedTo(l)
  BY <1>0 DEF ReviewedTo
<1>8. \A k \in LoopKinds : Party(k, l)' = Party(k, l)
  BY <1>0, <1>6, <1>7, Parties, PartiesNext DEF LoopKinds
<1> QED BY <1>1, <1>2, <1>3, <1>4, <1>5, <1>8 DEF LoopKinds

(* The facts on the run, where they stay.                                  *)
LEMMA RunPersists ==
  ASSUME NEW w, matched' \subseteq matched, SameRun
  PROVE  \A k \in RunKinds : \A x \in Places(w, k) : x \in Places(w, k)' /\ Party(k, x)' = Party(k, x)
<1>0. UNCHANGED <<run.verify, run.verdict, run.marks, run.parked, run.pr>>
  BY DEF SameRun
<1>1. \A x : x \in Places(w, "verdict") => x \in Places(w, "verdict")'
  BY <1>0, At, AtNext, OpenShrinks DEF VerdictAt
<1>2. \A x : x \in Places(w, "failed-run") => x \in Places(w, "failed-run")'
  BY <1>0, At, AtNext, OpenShrinks DEF FailedRunAt, StationFailedRun
<1>3. \A x : Party("verdict", x)' = Party("verdict", x) /\ Party("failed-run", x)' = Party("failed-run", x)
  BY <1>0, Parties, PartiesNext
<1> QED BY <1>1, <1>2, <1>3 DEF RunKinds

LEMMA HeldPersists ==
  ASSUME NEW w
  PROVE  /\ firing \subseteq firing' => \A x \in Places(w, "carrier") :
              x \in Places(w, "carrier")' /\ Party("carrier", x)' = Party("carrier", x)
         /\ queue' = queue => \A x \in Places(w, "queue") :
              x \in Places(w, "queue")' /\ Party("queue", x)' = Party("queue", x)
         /\ job' = job => \A x \in Places(w, "job") :
              x \in Places(w, "job")' /\ Party("job", x)' = Party("job", x)
<1>1. \A x : Carries(w, x) => Carries(w, x)
  OBVIOUS
<1> QED BY <1>1, At, AtNext, Parties, PartiesNext
-----------------------------------------------------------------------------
LEMMA FireTurning ==
  ASSUME Shape, NEW w \in Worlds, Relay(w), Turning(w), NEW r, NEW e, <<r, e>> \in RuleOn, Fire(r, e)
  PROVE  Turning(w)'
<1> DEFINE F == [rule |-> r, on |-> e, todo |-> Does(r)]
<1>0. /\ Baton(w) /\ Judged /\ Typed /\ <<r, e>> \notin matched /\ When(r, e)
      /\ matched' = matched \cup {<<r, e>>} /\ firing' = firing \cup {F}
      /\ UNCHANGED <<head, run, forge, loop, queue, job, proof, used>>
  BY RelayParts, ShapeParts DEF Fire
<1>r. /\ r \in LoopRules \cup RunRules
      /\ r \in LoopRules => e \in Loops
      /\ r \in RunRules => e = Run
  BY RuleOnFacts
<1>1. r \notin Cleaning => Origin(r) \in Kinds /\ e \in Places(w, Origin(r))
  BY <1>0, FireOrigin
<1>2. Grounds /\ Sounds(w) /\ Closed /\ (GivingUp => Failed) /\ GaveUp(w) /\ Opened
  BY TurningParts
<1>3. Grounds'
  <2>1. FiredOn(F)'
    <3>1. r = "04" => loop[e].role = "coordinator"
      BY <1>0, <1>r, WhenLoop DEF Dispatch, LoopRules
    <3>2. r \in Routing => loop[e].passed # "none"
      <4> SUFFICES ASSUME r \in Routing PROVE loop[e].passed # "none"
        OBVIOUS
      <4>1. Origin(r) = "route" /\ r \notin Cleaning
        BY Origins, RuleGroups
      <4> QED BY <1>1, <4>1, At DEF RouteAt
    <3>3. r \in Reviewing => e \in Reviewed
      <4> SUFFICES ASSUME r \in Reviewing PROVE e \in Reviewed
        OBVIOUS
      <4>1. Origin(r) = "review" /\ r \notin Cleaning
        BY Origins, RuleGroups
      <4> QED BY <1>1, <4>1, At DEF ReviewAt, Reviewed
    <3> QED BY <1>0, <3>1, <3>2, <3>3 DEF FiredOn, Reviewed
  <2>2. ASSUME NEW g \in firing PROVE FiredOn(g)'
    BY <1>0, <1>2 DEF Grounds, FiredOn, Reviewed
  <2>3. \A l \in Loops : MarkedLoop(l)'
    BY <1>0, <1>2 DEF Grounds, MarkedLoop, Has, Finished, Reviewed
  <2> QED BY <1>0, <2>1, <2>2, <2>3 DEF Grounds
<1>4. Failed' <=> Failed
  BY <1>0 DEF Failed, Has
<1>5. Sounds(w)'
  <2> SUFFICES ASSUME NEW k \in Kinds, NEW x, x \in Places(w, k)' PROVE Sound(k, x)'
    BY DEF Sounds
  <2>1. CASE x \in Places(w, k)
    <3>1. Sound(k, x)
      BY <1>2, <2>1 DEF Sounds
    <3> QED BY <1>0, <1>4, <3>1 DEF Sound, FailedPlace, ApprovedPlace
  <2>2. CASE x \notin Places(w, k)
    <3>1. \A j \in LoopKinds \cup RunKinds : Places(w, j)' \subseteq Places(w, j)
      BY <1>0, FactsFrame
    <3>2. k = "carrier"
      BY <1>0, <2>2, <3>1, KindsAre, QueueFrame, JobFrame
    <3>3. x \in firing' /\ Carries(w, x)
      BY <3>2, AtNext
    <3>4. x = F /\ Carries(w, F)
      BY <1>0, <2>2, <3>2, <3>3, At
    <3>5. r \notin Cleaning
      BY <3>4 DEF Carries
    <3>6. Sound(Origin(r), e)
      BY <1>1, <1>2, <3>5 DEF Sounds
    <3>7. Failed => r \in Surrender
      <4> SUFFICES ASSUME Failed PROVE r \in Surrender
        OBVIOUS
      <4>1. FailedPlace(Origin(r), e)
        BY <3>6 DEF Sound
      <4>2. Origin(r) \in {"failed", "failed-run"}
        BY <4>1, <3>5, <1>r, Origins, RuleGroups DEF FailedPlace
      <4> QED BY <4>2, <3>5, <1>r, Origins, RuleGroups DEF Surrender
    <3>8. r = "07a" => run.verdict = "approved"
      <4> SUFFICES ASSUME r = "07a" PROVE run.verdict = "approved"
        OBVIOUS
      <4>1. Origin(r) = "review" /\ e \in Loops
        BY <1>r, Origins DEF Reviewing, LoopRules
      <4>2. loop[e].verdict = "approved"
        BY <1>0, <4>1, WhenLoop DEF ReviewApproved
      <4>3. ApprovedPlace("review", e)
        BY <4>2 DEF ApprovedPlace
      <4> QED BY <3>6, <4>1, <4>3 DEF Sound
    <3> QED BY <1>0, <1>4, <3>2, <3>4, <3>7, <3>8 DEF Sound, FailedPlace, ApprovedPlace
  <2> QED BY <2>1, <2>2
<1>6. Closed'
  <2>1. r \in Closing => run.verify \in {"pass", "fail"}
    BY <1>0, <1>r, WhenRun DEF Closing, RunRules, DeliverRun, ParkRun
  <2>2. Closes' => Closes \/ r \in Closing
    BY <1>0 DEF Closes
  <2> QED BY <1>0, <1>2, <2>1, <2>2 DEF Closed
<1>7. GivingUp' => Failed'
  <2>1. r \in Surrender => Failed
    <3>1. r = "failed-loop" => Failed
      BY <1>0, <1>r, WhenLoop DEF LoopRules, StationFailedLoop, Failed
    <3>2. r = "failed-run" => Failed
      BY <1>0, <1>r, WhenRun DEF RunRules, StationFailedRun, Failed
    <3> QED BY <3>1, <3>2 DEF Surrender
  <2>2. GivingUp' => GivingUp \/ r \in Surrender
    BY <1>0 DEF GivingUp, Has
  <2> QED BY <1>2, <1>4, <2>1, <2>2
<1>8. GaveUp(w)'
  <2>1. Does(r) # <<"park-routed">>
    BY <1>r, FiringStarts
  <2> QED BY <1>0, <1>2, <2>1 DEF GaveUp
<1>9. Opened'
  BY <1>0, <1>2, SameOpened
<1> QED BY <1>3, <1>5, <1>6, <1>7, <1>8, <1>9 DEF Turning

LEMMA FireTurn ==
  ASSUME Shape, NEW w \in Worlds, Relay(w), NEW r, NEW e, <<r, e>> \in RuleOn, Fire(r, e)
  PROVE  Holder(w)' = Holder(w)
<1> DEFINE F == [rule |-> r, on |-> e, todo |-> Does(r)]
<1>0. /\ Baton(w) /\ Judged /\ Typed /\ <<r, e>> \notin matched /\ When(r, e)
      /\ matched' = matched \cup {<<r, e>>} /\ firing' = firing \cup {F}
      /\ UNCHANGED <<head, run, forge, loop, queue, job, proof, used>>
  BY RelayParts, ShapeParts DEF Fire
<1>r. /\ r \in LoopRules \cup RunRules
      /\ r \in LoopRules => e \in Loops
      /\ r \in RunRules => e = Run
  BY RuleOnFacts
<1>b. Baton(w)'
  BY FireRelay, RelayParts DEF Relay
<1>1. CASE w = "remembered" /\ r \notin Cleaning
  <2>1. Origin(r) \in Kinds /\ e \in Places(w, Origin(r))
    BY <1>0, <1>1, FireOrigin
  <2>2. F \in Places(w, "carrier")'
    <3>1. Carries(w, F)
      BY <1>1 DEF Carries
    <3> QED BY <1>0, <3>1, AtNext
  <2>3. Party(Origin(r), e) = Starts(F)
    <3>1. F.rule = r /\ F.on = e /\ F.todo # <<"park-routed">>
      BY <1>r, FiringStarts
    <3> HIDE DEF F
    <3>2. /\ <<F.rule, F.on>> \in RuleOn /\ F.rule \notin Cleaning /\ When(F.rule, F.on)
      BY <1>0, <1>1, <3>1
    <3>3. Party(Origin(F.rule), F.on) = Starts(F)
      BY <1>0, <3>1, <3>2, StartsFrom
    <3> QED BY <3>1, <3>3
  <2>4. "carrier" \in Kinds
    BY DEF Kinds
  <2>5. Holder(w) = Party(Origin(r), e)
    BY <1>0, <2>1, HolderAt
  <2>6. Holder(w)' = Party("carrier", F)'
    BY <1>b, <2>2, <2>4, HolderAtNext
  <2>7. Party("carrier", F)' = Starts(F)
    BY PartiesNext
  <2> QED BY <2>3, <2>5, <2>6, <2>7
<1>2. CASE w = "marked" \/ r \in Cleaning
  <2>1. ~Carries(w, F)
    BY <1>2 DEF Carries, Worlds
  <2>2. \A k \in LoopKinds \cup RunKinds : Places(w, k)' \subseteq Places(w, k)
    BY <1>0, FactsFrame
  <2>3. \A x \in Places(w, "carrier")' : x \in Places(w, "carrier")
    BY <1>0, <2>1, At, AtNext
  <2>4. \A k \in Kinds : Places(w, k)' \subseteq Places(w, k)
    BY <1>0, <2>2, <2>3, KindsAre, QueueFrame, JobFrame
  <2>5. \A R, d : R \cap Cleaning = {} /\ Open(w, R, d) => Open(w, R, d)'
    BY <1>0, <1>2 DEF Open
  <2>6. \A R \in {{"04"}, {"05"}, Routing, Reviewing, {"failed-loop"}, Closing, {"failed-run"}} :
          R \cap Cleaning = {}
    BY DEF Cleaning, Routing, Reviewing, Closing
  <2>7. ASSUME NEW k \in LoopKinds \cup RunKinds, NEW x \in Places(w, k)
        PROVE  x \in Places(w, k)'
    <3>1. CASE k \in {"live", "trigger"}
      BY <1>0, <2>5, <2>6, <2>7, <3>1, At, AtNext DEF Live, TriggerAt, Dispatch, FloorsTrigger, Has
    <3>2. CASE k \in {"route", "review"}
      BY <1>0, <2>5, <2>6, <2>7, <3>2, At, AtNext DEF RouteAt, ReviewAt, Has
    <3>3. CASE k \in {"failed", "verdict"}
      BY <1>0, <2>5, <2>6, <2>7, <3>3, At, AtNext DEF FailedAt, StationFailedLoop, VerdictAt, Has
    <3>4. CASE k = "failed-run"
      BY <1>0, <2>5, <2>6, <2>7, <3>4, At, AtNext DEF FailedRunAt, StationFailedRun
    <3> QED BY <3>1, <3>2, <3>3, <3>4 DEF LoopKinds, RunKinds
  <2>8. ASSUME NEW k \in Kinds, NEW x \in Places(w, k)
        PROVE  x \in Places(w, k)' /\ Party(k, x)' = Party(k, x)
    <3>1. x \in Places(w, k)'
      BY <1>0, <2>7, <2>8, KindsAre, HeldPersists
    <3>2. RoutedTo(x)' = RoutedTo(x) /\ ReviewedTo(x)' = ReviewedTo(x)
      BY <1>0 DEF RoutedTo, ReviewedTo
    <3>3. Party(k, x)' = Party(k, x)
      BY <1>0, <3>2, Parties, PartiesNext DEF Kinds
    <3> QED BY <3>1, <3>3
  <2> QED BY <1>0, <1>b, <2>4, <2>8, HolderKept
<1> QED BY <1>1, <1>2 DEF Worlds
-----------------------------------------------------------------------------
(* What a firing that goes on leaves of the places of firings.             *)
LEMMA CarriersSound ==
  ASSUME Shape, NEW w \in Worlds, Relay(w), Turning(w), NEW f \in firing, Advance(f),
         Failed' => Failed, run'.verdict = run.verdict,
         NEW x, x \in Places(w, "carrier")'
  PROVE  Sound("carrier", x)'
<1>0. Typed /\ Sounds(w) /\ "carrier" \in Kinds /\ Judged /\ Baton(w) /\ (w = "marked" => Remembered)
  BY ShapeParts, TurningParts, RelayParts DEF Kinds
<1>1. Rested(f).rule = f.rule /\ Rested(f).on = f.on
  BY <1>0, AdvanceFacts
<1>2. \/ x = Rested(f) /\ Len(f.todo) > 1 /\ Carries(w, x)
      \/ x \in Places(w, "carrier") /\ x # f
  BY CarriersAfter
<1>3. \A y : y.rule = x.rule /\ Sound("carrier", y) => Sound("carrier", x)'
  BY DEF Sound, FailedPlace, ApprovedPlace
<1>4. CASE x \in Places(w, "carrier")
  <2>1. Sound("carrier", x)
    BY <1>0, <1>4 DEF Sounds
  <2> QED BY <1>3, <2>1
<1>5. CASE x = Rested(f) /\ Carries(w, x) /\ f \in Places(w, "carrier")
  <2>1. Sound("carrier", f)
    BY <1>0, <1>5 DEF Sounds
  <2> QED BY <1>1, <1>3, <1>5, <2>1
<1>6. CASE x = Rested(f) /\ Carries(w, x) /\ f \notin Places(w, "carrier")
  <2>1. w = "marked" /\ f.rule \notin Cleaning \cup Surrender /\ f.todo = Does(f.rule)
    BY <1>1, <1>6, At DEF Carries, Worlds
  <2>2. Waiting(f)
    BY <2>1 DEF Waiting, Pending, Moot, Surrender
  <2>3. Origin(f.rule) \in Kinds /\ f.on \in Places(w, Origin(f.rule)) /\ When(f.rule, f.on)
    BY <1>0, <2>1, <2>2, WaitingPlace
  <2>4. Sound(Origin(f.rule), f.on)
    BY <1>0, <2>3 DEF Sounds
  <2>5. f.rule \in LoopRules \cup RunRules /\ (f.rule \in LoopRules => f.on \in Loops)
    BY <1>0, FiringFacts
  <2>6. ~FailedPlace(Origin(f.rule), f.on)
    BY <2>1, <2>5, Origins, RuleGroups DEF FailedPlace, Surrender
  <2>7. f.rule = "07a" => run.verdict = "approved"
    <3> SUFFICES ASSUME f.rule = "07a" PROVE run.verdict = "approved"
      OBVIOUS
    <3>1. Origin(f.rule) = "review" /\ f.on \in Loops
      BY <2>5, Origins DEF Reviewing, LoopRules
    <3>2. loop[f.on].verdict = "approved"
      BY <2>3, <3>1, WhenLoop DEF ReviewApproved
    <3>3. ApprovedPlace("review", f.on)
      BY <3>2 DEF ApprovedPlace
    <3> QED BY <2>4, <3>1, <3>3 DEF Sound
  <2>8. ~Failed
    BY <2>4, <2>6 DEF Sound
  <2> QED BY <1>1, <1>6, <2>7, <2>8 DEF Sound, ApprovedPlace
<1> QED BY <1>2, <1>4, <1>5, <1>6

LEMMA MarkTurning ==
  ASSUME Shape, NEW w \in Worlds, Relay(w), Turning(w), NEW f \in firing, AddMark(f)
  PROVE  Turning(w)'
<1>p. PICK e, m : e = f.on /\ m = Head(f.todo)
  OBVIOUS
<1>1. /\ m \in Marks /\ AddsMark(e, m) /\ Advance(f) /\ RuleState
      /\ UNCHANGED <<forge, queue, job>>
  BY <1>p DEF AddMark, AddsMark
<1>2. /\ Typed /\ e \in Loops \cup {Run} /\ <<f.rule, e>> \in RuleOn
      /\ f.rule \in LoopRules \cup RunRules
      /\ f.rule \in LoopRules => e \in Loops
      /\ f.rule \in RunRules => e = Run
  BY <1>p, ShapeParts, FiringFacts
<1>3. Grounds /\ Sounds(w) /\ Closed /\ (GivingUp => Failed) /\ GaveUp(w) /\ Opened
  BY TurningParts
<1>4. /\ e = Run => run'.marks = run.marks \cup {m} /\ loop' = loop
      /\ e # Run => loop'[e].marks = loop[e].marks \cup {m} /\ run' = run
      /\ UNCHANGED <<run.verdict, run.verify, run.parked>>
      /\ \A k \in Loops :
           /\ k # e => loop'[k] = loop[k]
           /\ UNCHANGED <<loop[k].role, loop[k].pc, loop[k].passed, loop[k].verdict, loop[k].green>>
  BY <1>1, <1>2, MarkEffect
<1>5. Descends
  BY <1>1, <1>2, AdvanceDescends
<1>6. m # "failed" /\ (m \in {"dispatched", "routed"} => m = Guard(f.rule) /\ f.rule \notin Surrender)
  BY <1>p, <1>1, <1>2, NextStep, Tuples DEF Marks
<1>7. Grounds'
  <2>1. ASSUME NEW g \in firing' PROVE FiredOn(g)'
    <3>1. PICK h \in firing : h.rule = g.rule /\ h.on = g.on
      BY <1>5 DEF Descends
    <3>2. FiredOn(h) /\ (h.rule \in {"04"} \cup Routing \cup Reviewing => h.on \in Loops)
      BY <1>2, <1>3, OnLoops DEF Grounds
    <3> QED BY <1>4, <3>1, <3>2 DEF FiredOn, Reviewed
  <2>2. ASSUME NEW l \in Loops PROVE MarkedLoop(l)'
    <3>1. MarkedLoop(l)
      BY <1>3 DEF Grounds
    <3>2. m \in {"dispatched", "routed"} /\ l = e =>
            IF m = "dispatched" THEN loop[l].role = "coordinator" \/ l \in Finished
                                ELSE loop[l].passed # "none" \/ l \in Reviewed
      <4> SUFFICES ASSUME m \in {"dispatched", "routed"}, l = e
                   PROVE  IF m = "dispatched" THEN loop[l].role = "coordinator" \/ l \in Finished
                                              ELSE loop[l].passed # "none" \/ l \in Reviewed
        OBVIOUS
      <4>1. FiredOn(f) /\ e # Run /\ f.rule \in LoopRules
        BY <1>2, <1>3, LoopAssumption DEF Grounds, Loops, Run
      <4>2. CASE f.rule \in {"04", "05"}
        <5>1. m = "dispatched"
          BY <1>6, <4>2 DEF Guard
        <5>2. f.rule = "05" => e \in Finished
          BY <1>p, ShapeParts DEF Addressed
        <5> QED BY <1>p, <4>1, <4>2, <5>1, <5>2 DEF FiredOn
      <4>3. CASE f.rule \in Routing \cup Reviewing
        <5>1. m = "routed"
          BY <1>6, <4>3 DEF Guard, Routing, Reviewing, Cleaning, Surrender
        <5> QED BY <1>p, <4>1, <4>3, <5>1 DEF FiredOn
      <4>4. CASE f.rule \in Cleaning
        BY <1>6, <4>4 DEF Guard, Cleaning
      <4> QED BY <1>6, <4>1, <4>2, <4>3, <4>4, RuleGroups DEF Surrender
    <3>3. \A n \in {"dispatched", "routed"} : Has(l, n)' => Has(l, n) \/ (n = m /\ l = e)
      BY <1>4 DEF Has
    <3> QED BY <1>4, <3>1, <3>2, <3>3 DEF MarkedLoop, Finished, Reviewed
  <2> QED BY <2>1, <2>2 DEF Grounds
<1>8. Failed' <=> Failed
  <2>1. \A l \in Loops : Has(l, "failed")' <=> Has(l, "failed")
    BY <1>4, <1>6 DEF Has
  <2>2. "failed" \in run'.marks <=> "failed" \in run.marks
    BY <1>4, <1>6, <1>2
  <2> QED BY <2>1, <2>2 DEF Failed
<1>9. Sounds(w)'
  <2> SUFFICES ASSUME NEW k \in Kinds, NEW x, x \in Places(w, k)' PROVE Sound(k, x)'
    BY DEF Sounds
  <2>1. CASE k = "carrier"
    BY <1>1, <1>4, <1>8, <2>1, CarriersSound
  <2>2. CASE k # "carrier"
    <3>1. x \in Places(w, k)
      <4>1. \A j \in LoopKinds \cup RunKinds : Places(w, j)' \subseteq Places(w, j)
        BY <1>1, <1>2, <1>6, MarkPlaces DEF LoopKinds, RunKinds
      <4> QED BY <1>1, <2>2, <4>1, QueueFrame, JobFrame, KindsAre
    <3>2. Sound(k, x)
      BY <1>3, <3>1 DEF Sounds
    <3>3. k \in {"live", "review"} => x \in Loops
      BY <3>1, At DEF Live
    <3> QED BY <1>4, <1>8, <2>2, <3>2, <3>3 DEF Sound, FailedPlace, ApprovedPlace
  <2> QED BY <2>1, <2>2
<1>10. Closed'
  <2>1. "routed" \in run'.marks => Closes
    <3>1. CASE e = Run /\ m = "routed"
      <4>1. f.rule \in RunRules
        <5>1. Run \notin Loops
          BY LoopAssumption DEF Loops, Run
        <5> QED BY <1>2, <3>1, <5>1
      <4> QED BY <1>6, <3>1, <4>1, RuleGroups DEF Closes, Surrender
    <3> QED BY <1>2, <1>4, <3>1 DEF Closes
  <2>2. Closes' => Closes
    BY <1>5, <2>1 DEF Closes, Descends
  <2> QED BY <1>3, <1>4, <2>2 DEF Closed
<1>11. GivingUp' => Failed'
  <2>1. m = "park-routed" => f.rule \in Surrender
    <3>1. f.rule \in Cleaning => m = "unclean"
      BY <1>p, <1>2, NextStep, Table, Tuples
    <3>2. f.rule \notin Surrender => m = Guard(f.rule)
      BY <1>p, <1>1, <1>2, NextStep
    <3> QED BY <3>1, <3>2 DEF Guard
  <2>2. \A l \in Loops : Has(l, "park-routed")' => Has(l, "park-routed") \/ m = "park-routed"
    BY <1>4 DEF Has
  <2>3. "park-routed" \in run'.marks => "park-routed" \in run.marks \/ m = "park-routed"
    BY <1>2, <1>4
  <2>4. GivingUp' => GivingUp
    BY <1>5, <2>1, <2>2, <2>3 DEF GivingUp, Descends
  <2> QED BY <1>3, <1>8, <2>4
<1>12. GaveUp(w)'
  BY <1>p, <1>1, <1>2, <1>3, <1>4, AdvanceGaveUp DEF Marks
<1>13. Opened'
  BY <1>1, <1>3, SameOpened
<1> QED BY <1>7, <1>9, <1>10, <1>11, <1>12, <1>13 DEF Turning
-----------------------------------------------------------------------------
LEMMA MarkTurn ==
  ASSUME Shape, NEW w \in Worlds, Relay(w), Turning(w), ~run.parked, NEW f \in firing, AddMark(f)
  PROVE  Holder(w)' = Holder(w)
<1>p. PICK e, m : e = f.on /\ m = Head(f.todo)
  OBVIOUS
<1>1. /\ m \in Marks /\ AddsMark(e, m) /\ Advance(f) /\ RuleState
      /\ UNCHANGED <<forge, queue, job>> /\ matched' \subseteq matched
  BY <1>p DEF AddMark, AddsMark, RuleState
<1>2. /\ Typed /\ e \in Loops \cup {Run} /\ <<f.rule, e>> \in RuleOn
      /\ f.rule \in LoopRules \cup RunRules /\ "carrier" \in Kinds
  BY <1>p, ShapeParts, FiringFacts DEF Kinds
<1>3. Baton(w) /\ Judged /\ (w = "marked" => Remembered) /\ GaveUp(w)
  BY RelayParts, TurningParts
<1>4. Baton(w)'
  BY MarkRelay, RelayParts DEF Relay
<1>5. \A k \in Kinds \ {"carrier"} : Places(w, k)' \subseteq Places(w, k)
  <2>1. m # "failed"
    BY <1>1 DEF Marks
  <2>2. \A k \in LoopKinds \cup RunKinds : Places(w, k)' \subseteq Places(w, k)
    BY <1>1, <1>2, <2>1, MarkPlaces DEF LoopKinds, RunKinds
  <2> QED BY <1>1, <2>2, QueueFrame, JobFrame, KindsAre
<1>6. CASE f.rule \in Cleaning
  <2>1. m = "unclean" /\ ~(Len(f.todo) > 1)
    BY <1>p, <1>2, <1>6, NextStep, Table, Tuples
  <2>2. /\ e = Run => run'.marks = run.marks \cup {m} /\ loop' = loop
        /\ e # Run => loop'[e].marks = loop[e].marks \cup {m} /\ run' = run
        /\ UNCHANGED <<run.verdict, run.verify, run.parked, run.pr>>
        /\ \A k \in Loops :
             /\ k # e => loop'[k] = loop[k]
             /\ UNCHANGED <<loop[k].role, loop[k].pc, loop[k].transient, loop[k].passed,
                            loop[k].rejected, loop[k].attempts, loop[k].transients,
                            loop[k].verdict>>
    BY <1>1, <1>2, MarkEffect
  <2>3. \A l \in Loops : \A n \in {"dispatched", "routed", "failed", "park-routed"} :
          Has(l, n)' <=> Has(l, n)
    BY <2>1, <2>2 DEF Has
  <2>4. \A n \in {"routed", "failed", "park-routed"} : n \in run'.marks <=> n \in run.marks
    BY <1>2, <2>1, <2>2
  <2>5. ASSUME NEW k \in LoopKinds \cup RunKinds, NEW x \in Places(w, k)
        PROVE  x \in Places(w, k)'
    <3>1. CASE k = "live"
      BY <2>2, <2>5, <3>1, At, AtNext DEF Live
    <3>2. CASE k = "trigger"
      BY <1>1, <2>2, <2>3, <2>5, <3>2, At, AtNext, OpenShrinks DEF TriggerAt, Dispatch, FloorsTrigger
    <3>3. CASE k = "route"
      BY <1>1, <2>2, <2>3, <2>5, <3>3, At, AtNext, OpenShrinks DEF RouteAt
    <3>4. CASE k = "review"
      BY <1>1, <2>2, <2>3, <2>5, <3>4, At, AtNext, OpenShrinks DEF ReviewAt
    <3>5. CASE k = "failed"
      BY <1>1, <2>2, <2>3, <2>5, <3>5, At, AtNext, OpenShrinks DEF FailedAt, StationFailedLoop
    <3>6. CASE k = "verdict"
      BY <1>1, <2>2, <2>4, <2>5, <3>6, At, AtNext, OpenShrinks DEF VerdictAt
    <3>7. CASE k = "failed-run"
      BY <1>1, <2>2, <2>4, <2>5, <3>7, At, AtNext, OpenShrinks DEF FailedRunAt, StationFailedRun
    <3> QED BY <2>5, <3>1, <3>2, <3>3, <3>4, <3>5, <3>6, <3>7 DEF LoopKinds, RunKinds
  <2>6. \A x \in Places(w, "carrier") : x \in Places(w, "carrier")'
    <3>1. firing' = firing \ {f}
      BY <1>1, <1>2, <2>1, AdvanceFacts
    <3> QED BY <1>6, <3>1, At, AtNext DEF Carries
  <2>7. Places(w, "carrier")' \subseteq Places(w, "carrier")
    BY <1>1, <1>6, CarriersAfter
  <2>8. ASSUME NEW k \in Kinds, NEW x \in Places(w, k)
        PROVE  x \in Places(w, k)' /\ Party(k, x)' = Party(k, x)
    <3>1. x \in Places(w, k)'
      BY <1>1, <2>5, <2>6, <2>8, KindsAre, HeldPersists
    <3>2. x \in Loops => RoutedTo(x)' = RoutedTo(x) /\ ReviewedTo(x)' = ReviewedTo(x)
      BY <2>2 DEF RoutedTo, ReviewedTo
    <3>3. k \in LoopKinds => x \in Loops
      BY <2>8, InLoops
    <3>4. Party(k, x)' = Party(k, x)
      BY <2>2, <3>2, <3>3, Parties, PartiesNext DEF Kinds, LoopKinds
    <3> QED BY <3>1, <3>4
  <2> QED BY <1>3, <1>4, <1>5, <2>7, <2>8, HolderKept
<1>7. CASE f.rule \in Surrender
  <2>1. f.todo = <<"park-routed">>
    BY <1>p, <1>1, <1>2, <1>7, NextStep
  <2>2. w = "remembered"
    BY <1>3, <2>1 DEF GaveUp, Worlds
  <2>3. f \in Places(w, "carrier")
    BY <1>7, <2>2, At DEF Carries, Cleaning, Surrender
  <2>4. Nobody(w)'
    <3>1. \A x \in Places(w, "carrier")' : x \in Places(w, "carrier") /\ x # f
      BY <1>1, <2>1, Longer, CarriersAfter
    <3>2. \A k \in Kinds : Places(w, k)' = {}
      BY <1>2, <1>3, <1>5, <2>3, <3>1, Alone
    <3> QED BY <3>2 DEF Nobody
  <2>5. Holder(w) = Starts(f)
    BY <1>2, <1>3, <2>3, HolderAt, Parties
  <2>6. Starts(f) = "nobody"
    BY <2>1 DEF Starts
  <2> QED BY <2>4, <2>5, <2>6, HolderNone
<1>8. CASE f.rule \notin Cleaning \cup Surrender
  <2>1. f.todo = Does(f.rule) /\ Len(f.todo) > 1
    <3>1. f.todo = Does(f.rule)
      BY <1>p, <1>1, <1>2, <1>8, NextStep
    <3>2. Rest(f.rule, f.todo)
      BY <1>2, FiringFacts
    <3> QED BY <1>8, <3>1, <3>2 DEF Rest
  <2>2. Rested(f) \in Places(w, "carrier")' /\ Starts(Rested(f)) = Starts(f)
    BY <1>1, <1>2, <1>8, <2>1, RestedCarries, RestedStarts
  <2>3. Holder(w)' = Starts(f)
    BY <1>2, <1>4, <2>2, HolderAtNext, PartiesNext
  <2>4. CASE w = "remembered"
    <3>1. f \in Places(w, "carrier")
      BY <1>8, <2>4, At DEF Carries
    <3> QED BY <1>2, <1>3, <2>3, <3>1, HolderAt, Parties
  <2>5. CASE w = "marked"
    <3>1. Waiting(f)
      BY <1>8, <2>1 DEF Waiting, Pending, Moot, Surrender
    <3>2. Origin(f.rule) \in Kinds /\ f.on \in Places(w, Origin(f.rule)) /\ When(f.rule, f.on)
      BY <1>3, <2>5, <3>1, WaitingPlace
    <3>3. Party(Origin(f.rule), f.on) = Starts(f)
      BY <1>p, <1>2, <1>3, <1>8, <2>1, <3>2, Longer, StartsFrom
    <3> QED BY <1>3, <2>3, <3>2, <3>3, HolderAt
  <2> QED BY <2>4, <2>5 DEF Worlds
<1> QED BY <1>6, <1>7, <1>8

LEMMA LedgerTurning ==
  ASSUME Shape, NEW w \in Worlds, Relay(w), Turning(w), NEW f \in firing, AddToRun(f)
  PROVE  Turning(w)'
<1>1. /\ Advance(f) /\ RuleState /\ UNCHANGED <<head, forge, loop, queue, job, proof, used>>
      /\ UNCHANGED <<run.verdict, run.verify, run.marks, run.pr>>
      /\ run.parked => run'.parked
      /\ Head(f.todo) = "park" => run'.parked
      /\ run'.parked = run.parked \/ run'.parked
  <2>1. Typed /\ "attempt" # "park" /\ "transient" # "park"
    BY ShapeParts
  <2> QED BY <2>1, AddToRunEffect
<1>2. Typed /\ Grounds /\ Sounds(w) /\ Closed /\ GaveUp(w) /\ Opened
  BY TurningParts, ShapeParts
<1>3. Descends /\ SameMarks
  BY <1>1, <1>2, AdvanceDescends DEF SameMarks
<1>4. Failed' <=> Failed
  BY <1>3, SameFailed
<1>5. Sounds(w)'
  <2> SUFFICES ASSUME NEW k \in Kinds, NEW x, x \in Places(w, k)' PROVE Sound(k, x)'
    BY DEF Sounds
  <2>1. CASE k = "carrier"
    BY <1>1, <1>4, <2>1, CarriersSound
  <2>2. CASE k = "failed-run"
    BY <2>2 DEF Sound, FailedPlace, ApprovedPlace
  <2>3. CASE k \notin {"carrier", "failed-run"}
    <3>1. x \in Places(w, k)
      <4>1. EngineFrame
        BY <1>1 DEF EngineFrame
      <4>2. k \in LoopKinds \/ k \in {"verdict", "queue", "job"}
        BY <2>3, KindsAre DEF RunKinds
      <4> QED BY <1>1, <4>1, <4>2, AllLoops, VerdictFrame, QueueFrame, JobFrame
    <3>2. Sound(k, x)
      BY <1>2, <3>1 DEF Sounds
    <3> QED BY <1>1, <1>4, <2>3, <3>2 DEF Sound, FailedPlace, ApprovedPlace
  <2> QED BY <2>1, <2>2, <2>3
<1>6. Closed'
  BY <1>1, <1>2, <1>3, SameClosed
<1>7. GaveUp(w)'
  BY <1>1, <1>2, AdvanceGaveUp
<1>8. \A l \in Loops : LoopGrows(l)
  BY <1>1, SameGrows
<1>9. Opened'
  BY <1>1, <1>2, SameOpened
<1> QED BY <1>2, <1>3, <1>5, <1>6, <1>7, <1>8, <1>9, TurningStays

LEMMA LedgerTurn ==
  ASSUME Shape, NEW w \in Worlds, Relay(w), NEW f \in firing, AddToRun(f), ~run.parked
  PROVE  /\ ~run'.parked => Holder(w)' = Holder(w)
         /\ run'.parked => Holder(w) = "human"
<1>0. /\ Typed /\ Baton(w) /\ Judged /\ (w = "marked" => Remembered) /\ "carrier" \in Kinds
      /\ Advance(f)
  BY ShapeParts, RelayParts, AddToRunEffect DEF Kinds
<1>1. Baton(w)'
  BY LedgerRelay, RelayParts DEF Relay
<1>2. ASSUME Head(f.todo) \in {"attempt", "transient"}
      PROVE  Holder(w)' = Holder(w)
  <2>1. f.todo # Does(f.rule) /\ f.rule \notin Surrender /\ f.rule \notin Cleaning
    BY <1>0, <1>2, NextStep
  <2>2. f \in Places(w, "carrier")
    BY <2>1, At DEF Carries, Worlds
  <2>3. Len(f.todo) > 1
    BY <1>0, <1>2, Owing, Longer
  <2>4. Rested(f) \in Places(w, "carrier")' /\ Starts(Rested(f)) = Starts(f)
    BY <1>0, <2>1, <2>3, RestedCarries, RestedStarts
  <2>5. Holder(w)' = Starts(f)
    BY <1>0, <1>1, <2>4, HolderAtNext, PartiesNext
  <2> QED BY <1>0, <2>2, <2>5, HolderAt, Parties
<1>3. ASSUME Head(f.todo) = "park"
      PROVE  Holder(w) = "human"
  <2>1. f.rule \in LoopRules \cup RunRules /\ Rest(f.rule, f.todo) /\ <<f.rule, f.on>> \in RuleOn
    BY <1>0, FiringFacts
  <2>2. f.todo # <<"park-routed">>
    BY <1>3, Tuples
  <2>3. CASE f.rule \in Surrender
    <3>1. Starts(f) = "human"
      BY <2>2, <2>3, StartsWhom
    <3>2. CASE w = "remembered"
      <4>1. f \in Places(w, "carrier")
        BY <2>3, <3>2, At DEF Carries, Surrender, Cleaning
      <4> QED BY <1>0, <3>1, <4>1, HolderAt, Parties
    <3>3. CASE w = "marked"
      <4>1. Waiting(f)
        BY <2>3 DEF Waiting, Pending, Moot, Surrender, Cleaning
      <4>2. Origin(f.rule) \in Kinds /\ f.on \in Places(w, Origin(f.rule))
        BY <1>0, <3>3, <4>1, WaitingPlace
      <4>3. Origin(f.rule) \in {"failed", "failed-run"}
        BY <2>3, Origins DEF Surrender
      <4> QED BY <1>0, <4>2, <4>3, HolderAt, Parties
    <3> QED BY <3>2, <3>3 DEF Worlds
  <2>4. CASE f.rule \notin Surrender
    <3>1. f.todo # Does(f.rule) /\ f.rule \notin Cleaning
      BY <1>0, <1>3, <2>4, NextStep
    <3>2. f.rule \in {"06d", "06g", "07c", "07d", "08b"}
      BY <1>3, <2>1, <2>4, <3>1, Tuples DEF Rest
    <3>3. Starts(f) = "human"
      BY <2>2, <3>2, StartsWhom
    <3>4. f \in Places(w, "carrier")
      BY <2>4, <3>1, At DEF Carries, Worlds
    <3> QED BY <1>0, <3>3, <3>4, HolderAt, Parties
  <2> QED BY <2>3, <2>4
<1>4. /\ ~run'.parked => Head(f.todo) \in {"attempt", "transient"}
      /\ run'.parked => Head(f.todo) = "park"
  BY <1>0, AddToRunEffect
<1> QED BY <1>2, <1>3, <1>4
-----------------------------------------------------------------------------
LEMMA SpawnTurning ==
  ASSUME Shape, NEW w \in Worlds, Relay(w), Turning(w), NEW f \in firing, SpawnLoop(f)
  PROVE  Turning(w)'
<1>1. /\ Advance(f) /\ UNCHANGED <<head, run, forge, queue, job, proof, used>>
      /\ Head(f.todo) \in Roles
      /\ Typed /\ Baton(w) /\ "carrier" \in Kinds
  BY ShapeParts, RelayParts, SpawnEffect DEF Kinds
<1>2. PICK l \in Loops : /\ OnlyLoop(l) /\ loop[l].pc = "unborn"
                         /\ loop'[l].role = Head(f.todo) /\ loop'[l].pc = "working"
                         /\ loop'[l].passed = "none" /\ ~loop'[l].rejected
                         /\ loop'[l].verdict = "none" /\ loop'[l].marks = {}
  BY <1>1, SpawnEffect
<1>3. f \in Places(w, "carrier") /\ \E k \in Loops : \A i \in Kinds : \A x \in Places(w, i)' : i = "live" /\ x = k
  BY <1>1, SpawnBaton
<1>4. Grounds /\ Sounds(w) /\ Closed /\ (GivingUp => Failed) /\ GaveUp(w) /\ Opened
  BY TurningParts
<1>5. ~FailedPlace("carrier", f)
  <2>1. f.rule \notin Surrender
    BY <1>1, NextStep
  <2> QED BY <2>1 DEF FailedPlace
<1>6. Descends
  BY <1>1, AdvanceDescends
<1>7. \A k \in Loops : LoopGrows(k)
  <2>1. LoopGrows(l)
    <3>1. loop[l].role = "none" /\ loop[l].passed = "none"
      BY <1>2, <1>4, ShapeParts DEF Grounds, MarkedLoop, LoopShape
    <3> QED BY <1>2, <3>1 DEF LoopGrows, Reviewed, Finished
  <2>2. \A k \in Loops : k # l => LoopGrows(k)
    BY <1>2, SameGrows DEF OnlyLoop
  <2> QED BY <2>1, <2>2
<1>8. \A k \in Loops : \A m : m \in loop'[k].marks => m \in loop[k].marks
  BY <1>2 DEF OnlyLoop
<1>9. Grounds'
  BY <1>1, <1>4, <1>6, <1>7, <1>8, GroundsKept
<1>10. Failed' => Failed
  BY <1>1, <1>8 DEF Failed, Has
<1>11. Sounds(w)' /\ ~Failed
  <2>1. PICK k \in Loops : \A i \in Kinds : \A x \in Places(w, i)' : i = "live" /\ x = k
    BY <1>3
  <2>2. l \in Places(w, "live")'
    BY <1>2, AtNext DEF Live
  <2>3. k = l
    BY <2>1, <2>2 DEF Kinds
  <2>4. ~ApprovedPlace("live", l)'
    BY <1>2 DEF ApprovedPlace
  <2> QED BY <1>1, <1>3, <1>4, <1>5, <1>10, <2>1, <2>3, <2>4, SoundsPass
<1>12. GivingUp' => GivingUp
  BY <1>1, <1>6, <1>8 DEF GivingUp, Has, Descends
<1>13. Closed'
  BY <1>1, <1>4, <1>6, SameClosed
<1>14. GaveUp(w)'
  <2>1. Head(f.todo) # "park"
    BY <1>1 DEF Roles
  <2> QED BY <1>1, <1>4, <2>1, AdvanceGaveUp
<1>15. Opened'
  BY <1>1, <1>4, SameOpened
<1> QED BY <1>4, <1>9, <1>11, <1>12, <1>13, <1>14, <1>15 DEF Turning

LEMMA SpawnTurn ==
  ASSUME Shape, NEW w \in Worlds, Relay(w), NEW f \in firing, SpawnLoop(f)
  PROVE  Holder(w)' = Holder(w)
<1>1. /\ Head(f.todo) \in Roles /\ Typed /\ Baton(w) /\ "carrier" \in Kinds /\ "live" \in Kinds
  BY ShapeParts, RelayParts, SpawnEffect DEF Kinds
<1>2. PICK l \in Loops : loop'[l].role = Head(f.todo) /\ loop'[l].pc = "working"
  BY <1>1, SpawnEffect
<1>3. Baton(w)' /\ f \in Places(w, "carrier")
  BY <1>1, SpawnBaton
<1>4. l \in Places(w, "live")'
  BY <1>2, AtNext DEF Live
<1>5. Holder(w)' = Head(f.todo)
  BY <1>1, <1>2, <1>3, <1>4, HolderAtNext, PartiesNext
<1>6. Starts(f) = Head(f.todo)
  <2>1. f.rule \in LoopRules \cup RunRules /\ Rest(f.rule, f.todo) /\ f.todo # Does(f.rule)
        /\ f.rule \notin Surrender /\ f.rule \notin Cleaning
    BY <1>1, FiringFacts, NextStep
  <2>2. f.todo # <<"park-routed">>
    BY <1>1, Tuples DEF Roles
  <2>3. \/ Head(f.todo) = "developer" /\ f.rule \in {"04", "06c", "06f", "07b"}
        \/ Head(f.todo) = "reviewer" /\ f.rule = "06a"
    BY <1>1, <2>1, Tuples DEF Rest, Roles
  <2> QED BY <2>2, <2>3, StartsWhom
<1> QED BY <1>1, <1>3, <1>5, <1>6, HolderAt, Parties

LEMMA PublishTurning ==
  ASSUME Shape, NEW w \in Worlds, Relay(w), Turning(w), NEW f \in firing, PublishDispatch(f)
  PROVE  Turning(w)'
<1>1. /\ Advance(f) /\ UNCHANGED <<head, run, forge, loop, matched, job, proof, used>>
      /\ Head(f.todo) \in Stations /\ Typed /\ Baton(w) /\ "carrier" \in Kinds
  BY ShapeParts, RelayParts, PublishEffect DEF Kinds
<1>2. /\ f \in Places(w, "carrier")
      /\ \A i \in Kinds : \A x \in Places(w, i)' : i = "queue" /\ x = Head(f.todo)
  BY <1>1, PublishBaton
<1>3. Grounds /\ Sounds(w) /\ Closed /\ GaveUp(w) /\ Opened
  BY TurningParts
<1>4. Descends /\ SameMarks
  BY <1>1, AdvanceDescends DEF SameMarks
<1>5. Sounds(w)'
  <2>1. ~FailedPlace("carrier", f)
    BY <1>1, NextStep DEF FailedPlace
  <2>2. ApprovedPlace("queue", Head(f.todo))' => run'.verdict = "approved"
    <3> SUFFICES ASSUME ApprovedPlace("queue", Head(f.todo))' PROVE run'.verdict = "approved"
      OBVIOUS
    <3>1. Head(f.todo) = "verify"
      BY DEF ApprovedPlace
    <3>2. f.rule = "07a"
      BY <1>1, <3>1, NextStep
    <3>3. ApprovedPlace("carrier", f)
      BY <3>2 DEF ApprovedPlace
    <3>4. Sound("carrier", f)
      BY <1>1, <1>2, <1>3 DEF Sounds
    <3> QED BY <1>1, <3>3, <3>4 DEF Sound
  <2>3. Failed' => Failed
    BY <1>4, SameFailed
  <2>4. PICK s : s = Head(f.todo)
    OBVIOUS
  <2>5. ApprovedPlace("queue", s)' => ApprovedPlace("queue", Head(f.todo))'
    <3>1. ApprovedPlace("queue", s)' => s = "verify"
      BY DEF ApprovedPlace
    <3> QED BY <2>2, <2>4, <3>1 DEF ApprovedPlace
  <2>6. \A i \in Kinds : \A x \in Places(w, i)' : i = "queue" /\ x = s
    BY <1>2, <2>4
  <2> QED BY <1>1, <1>2, <1>3, <2>1, <2>2, <2>3, <2>5, <2>6, SoundsPass
<1>6. Closed'
  BY <1>1, <1>3, <1>4, SameClosed
<1>7. GaveUp(w)'
  <2>1. Head(f.todo) # "park"
    BY <1>1 DEF Stations
  <2> QED BY <1>1, <1>3, <2>1, AdvanceGaveUp
<1>8. \A l \in Loops : LoopGrows(l)
  BY <1>1, SameGrows
<1>9. Opened'
  BY <1>1, <1>3, SameOpened
<1> QED BY <1>1, <1>4, <1>5, <1>6, <1>7, <1>8, <1>9, TurningStays

LEMMA PublishTurn ==
  ASSUME Shape, NEW w \in Worlds, Relay(w), NEW f \in firing, PublishDispatch(f)
  PROVE  Holder(w)' = Holder(w)
<1>1. /\ Head(f.todo) \in Stations /\ Typed /\ Baton(w) /\ "carrier" \in Kinds /\ "queue" \in Kinds
      /\ queue'[Head(f.todo)] = Append(queue[Head(f.todo)], f.on)
  BY ShapeParts, RelayParts, PublishEffect DEF Kinds
<1>2. Baton(w)' /\ f \in Places(w, "carrier")
  BY <1>1, PublishBaton
<1>3. PICK s \in Stations : s = Head(f.todo)
  BY <1>1
<1>4. queue'[s] # <<>>
  <2>1. queue[s] \in Seq(Loops \cup {Run}) /\ f.on \in Loops \cup {Run}
    BY <1>1, TypeParts, FiringFacts
  <2>2. Append(queue[s], f.on) # <<>>
    BY <2>1
  <2> QED BY <1>1, <1>3, <2>2
<1>5. s \in Places(w, "queue")'
  BY <1>4, AtNext
<1>6. Starts(f) = s
  <2>1. f.todo # <<"park-routed">>
    BY <1>1, Tuples DEF Stations
  <2> QED BY <1>1, <1>3, <2>1, NextStep, StartsWhom
<1> QED BY <1>1, <1>2, <1>5, <1>6, HolderAt, HolderAtNext, Parties, PartiesNext
-----------------------------------------------------------------------------
(* A live loop's work: it goes on, hands its verdict over, or ends.        *)

LEMMA LiveOnly ==
  ASSUME NEW w \in Worlds, Baton(w), NEW l \in Live
  PROVE  /\ l \in Places(w, "live") /\ ~run.pr /\ ~run.parked
         /\ \A k \in Kinds : \A x \in Places(w, k) : k = "live" /\ x = l
         /\ Holder(w) = loop[l].role
<1>1. l \in Places(w, "live") /\ "live" \in Kinds
  BY At DEF Kinds
<1>2. ~ParkedPlace("live", l)
  BY DEF ParkedPlace
<1> QED BY <1>1, <1>2, Alone, HolderAt, Parties

LEMMA PatchTurning ==
  ASSUME Shape, NEW w \in Worlds, Relay(w), Turning(w), NEW l \in Loops, Patching(l)
  PROVE  Turning(w)' /\ Holder(w)' = "developer" /\ Holder(w) = "developer"
<1>1. /\ OnlyLoop(l) /\ SameLoop(l) /\ SameRun /\ loop[l].role = "developer"
      /\ loop'[l].pc \in {"working", "stamping", "measuring"}
      /\ loop[l].pc \in {"working", "stamping", "measuring"}
      /\ UNCHANGED <<forge, firing, matched, queue, job>> /\ Typed /\ Baton(w)
  BY ShapeParts, RelayParts, PatchingEffect
<1>2. Baton(w)' /\ (\A k \in Kinds : Places(w, k)' \subseteq Places(w, k)) /\ l \in Live
  BY <1>1, PatchBaton
<1>3. Grounds /\ Sounds(w) /\ Closed /\ GaveUp(w) /\ Opened
  BY TurningParts
<1>4. l \in Places(w, "live") /\ Holder(w) = "developer"
      /\ \A k \in Kinds : \A x \in Places(w, k) : k = "live" /\ x = l
  BY <1>1, <1>2, LiveOnly
<1>5. l \in Places(w, "live")' /\ "live" \in Kinds /\ loop'[l].role = "developer"
  BY <1>1, AtNext DEF Live, SameLoop, Kinds
<1>6. Holder(w)' = "developer"
  BY <1>2, <1>5, HolderAtNext, PartiesNext
<1>7. Descends /\ SameMarks
  <2>1. Descends
    BY <1>1, SameFirings
  <2>2. SameMarks
    BY <1>1 DEF SameMarks, SameRun, OnlyLoop, SameLoop
  <2> QED BY <2>1, <2>2
<1>8. Sounds(w)'
  <2>1. ~FailedPlace("live", l) /\ ~ApprovedPlace("live", l)'
    BY <1>1 DEF FailedPlace, ApprovedPlace
  <2>2. \A k \in Kinds : \A x \in Places(w, k)' : k = "live" /\ x = l
    BY <1>2, <1>4
  <2>3. Failed' => Failed
    BY <1>7, SameFailed
  <2> QED BY <1>3, <1>4, <1>5, <2>1, <2>2, <2>3, SoundsPass
<1>9. \A k \in Loops : LoopGrows(k)
  <2>1. LoopGrows(l)
    BY <1>1 DEF LoopGrows, SameLoop, Reviewed, Finished
  <2>2. \A k \in Loops : k # l => LoopGrows(k)
    BY <1>1, SameGrows DEF OnlyLoop
  <2> QED BY <2>1, <2>2
<1>10. Closed'
  BY <1>1, <1>3, <1>7, SameClosed DEF SameRun
<1>11. GaveUp(w)'
  BY <1>1, <1>3, KeptGaveUp DEF SameRun
<1>12. Opened'
  BY <1>1, <1>3, SameOpened
<1> QED BY <1>1, <1>4, <1>6, <1>7, <1>8, <1>9, <1>10, <1>11, <1>12, TurningStays

LEMMA SubmitTurning ==
  ASSUME Shape, NEW w \in Worlds, Relay(w), Turning(w), NEW l \in Loops, NEW b \in BOOLEAN,
         SubmitReview(l, b)
  PROVE  Turning(w)' /\ Holder(w)' = Holder(w)
<1>1. /\ OnlyLoop(l) /\ SameLoop(l) /\ loop[l].role = "reviewer" /\ loop[l].pc = "working"
      /\ loop'[l].pc \in {"working", "mirroring"}
      /\ UNCHANGED <<head, forge, firing, queue, job, proof>>
      /\ UNCHANGED <<run.verify, run.pr, run.parked, run.marks>> /\ Typed /\ Baton(w)
  BY ShapeParts, RelayParts, SubmitEffect
<1>2. Baton(w)' /\ (\A k \in Kinds : Places(w, k)' \subseteq Places(w, k)) /\ l \in Live
  BY <1>1, SubmitBaton
<1>3. Grounds /\ Sounds(w) /\ Closed /\ GaveUp(w) /\ Opened
  BY TurningParts
<1>4. l \in Places(w, "live") /\ Holder(w) = "reviewer"
      /\ \A k \in Kinds : \A x \in Places(w, k) : k = "live" /\ x = l
  BY <1>1, <1>2, LiveOnly
<1>5. l \in Places(w, "live")' /\ "live" \in Kinds /\ loop'[l].role = "reviewer"
  BY <1>1, AtNext DEF Live, SameLoop, Kinds
<1>6. Holder(w)' = "reviewer"
  BY <1>2, <1>5, HolderAtNext, PartiesNext
<1>7. Descends /\ SameMarks
  <2>1. Descends
    BY <1>1, SameFirings
  <2>2. SameMarks
    BY <1>1 DEF SameMarks, OnlyLoop, SameLoop
  <2> QED BY <2>1, <2>2
<1>8. Sounds(w)'
  <2>1. ~FailedPlace("live", l)
    BY DEF FailedPlace
  <2>2. ApprovedPlace("live", l)' => run'.verdict = "approved"
    <3>1. CASE loop' = loop
      BY <1>1, <3>1 DEF ApprovedPlace
    <3>2. CASE /\ run' = [run EXCEPT !.verdict = Verdict(run.green /\ ~b)]
               /\ loop' = [loop EXCEPT ![l].pc = "mirroring", ![l].green = run.green /\ ~b]
      <4>1. loop \in [Loops -> LoopFacts] /\ run \in RunFacts
        BY <1>1, TypeParts
      <4>2. loop[l] \in LoopFacts
        BY <4>1
      <4>3. loop'[l].green = (run.green /\ ~b)
        <5>1. loop'[l] = [loop[l] EXCEPT !.pc = "mirroring", !.green = run.green /\ ~b]
          BY <3>2, <4>1
        <5> QED BY <4>2, <5>1 DEF LoopFacts
      <4>4. run'.verdict = Verdict(run.green /\ ~b)
        BY <3>2, <4>1 DEF RunFacts
      <4>5. ApprovedPlace("live", l)' => loop'[l].green
        BY DEF ApprovedPlace
      <4> QED BY <4>3, <4>4, <4>5 DEF Verdict
    <3> QED BY <3>1, <3>2 DEF SubmitReview
  <2>3. \A k \in Kinds : \A x \in Places(w, k)' : k = "live" /\ x = l
    BY <1>2, <1>4
  <2>4. Failed' => Failed
    BY <1>7, SameFailed
  <2> QED BY <1>3, <1>4, <1>5, <2>1, <2>2, <2>3, <2>4, SoundsPass
<1>9. \A k \in Loops : LoopGrows(k)
  <2>1. LoopGrows(l)
    BY <1>1 DEF LoopGrows, SameLoop, Reviewed, Finished
  <2>2. \A k \in Loops : k # l => LoopGrows(k)
    BY <1>1, SameGrows DEF OnlyLoop
  <2> QED BY <2>1, <2>2
<1>10. Closed'
  BY <1>1, <1>3, <1>7, SameClosed
<1>11. GaveUp(w)'
  BY <1>1, <1>3, KeptGaveUp
<1>12. Opened'
  BY <1>1, <1>3, SameOpened
<1> QED BY <1>1, <1>4, <1>6, <1>7, <1>8, <1>9, <1>10, <1>11, <1>12, TurningStays

(* A review that no rule has matched yet.                                  *)
LEMMA Unreviewed ==
  ASSUME Shape, Grounds, NEW l \in Loops, loop[l].role = "reviewer",
         loop[l].pc \in {"working", "mirroring"}
  PROVE  /\ ~Has(l, "routed") /\ loop[l].verdict = "none"
         /\ \A r \in Reviewing : <<r, l>> \notin matched
<1>1. LoopShape(l) /\ MarkedLoop(l) /\ MatchedHolds
  BY ShapeParts DEF Grounds
<1>2. loop[l].verdict = "none" /\ ~Has(l, "routed")
  BY <1>1 DEF LoopShape, MarkedLoop, Reviewed
<1>3. ASSUME NEW r \in Reviewing, <<r, l>> \in matched PROVE FALSE
  <2>1. When(r, l)
    BY <1>1, <1>3 DEF MatchedHolds
  <2> QED BY <1>2, <1>3, <2>1, WhenLoop
          DEF Reviewing, ReviewApproved, ReviewRetry, ReviewPark, ReviewNoVerdict
<1> QED BY <1>2, <1>3

LEMMA ReviewWhom ==
  ASSUME NEW l
  PROVE  ReviewedTo(l)' \in {"verify", "developer", "human"}
         /\ (loop'[l].verdict = "none" => ReviewedTo(l)' = "human")
  BY DEF ReviewedTo

LEMMA MirrorTurning ==
  ASSUME Shape, NEW w \in Worlds, Relay(w), Turning(w), NEW l \in Loops, MirrorVerdict(l)
  PROVE  /\ Turning(w)' /\ ~run.pr /\ ~run.parked
         /\ Holder(w) = "reviewer" /\ Holder(w)' \in {"reviewer", "verify", "developer", "human"}
<1>1. /\ OnlyLoop(l) /\ loop[l].pc = "mirroring"
      /\ UNCHANGED <<head, run, forge, firing, queue, job, proof>>
      /\ UNCHANGED <<loop[l].role, loop[l].marks, loop[l].passed>> /\ Typed /\ Baton(w)
      /\ loop[l].role = "reviewer" /\ matched' \subseteq matched
      /\ \/ loop'[l].pc = "mirrored"
         \/ SameLoop(l) /\ loop'[l].pc = "working"
  BY ShapeParts, RelayParts, MirrorEffect DEF LoopShape, RuleState
<1>2. /\ Baton(w)' /\ l \in Live
      /\ \A i \in Kinds : \A x \in Places(w, i)' : x = l /\ i \in {"live", "review"}
  BY <1>1, MirrorBaton
<1>3. Grounds /\ Sounds(w) /\ Closed /\ GaveUp(w) /\ Opened
  BY TurningParts
<1>4. l \in Places(w, "live") /\ Holder(w) = "reviewer" /\ ~run.pr /\ ~run.parked
      /\ "live" \in Kinds /\ "review" \in Kinds
  BY <1>1, <1>2, LiveOnly DEF Kinds
<1>5. ASSUME loop'[l].pc = "mirrored"
      PROVE  l \in Places(w, "review")'
  <2>1. ~Has(l, "routed") /\ \A r \in Reviewing : <<r, l>> \notin matched
    BY <1>1, <1>3, Unreviewed
  <2>2. ReviewAt(w, l)'
    BY <1>1, <1>5, <2>1 DEF ReviewAt, Has, Open
  <2> QED BY <2>2, AtNext
<1>6. ASSUME loop'[l].pc = "working"
      PROVE  l \in Places(w, "live")'
  BY <1>6, AtNext DEF Live
<1>7. Holder(w)' \in {"reviewer", "verify", "developer", "human"}
  <2>1. CASE loop'[l].pc = "mirrored"
    BY <1>2, <1>4, <1>5, <2>1, HolderAtNext, PartiesNext, ReviewWhom
  <2>2. CASE loop'[l].pc = "working"
    BY <1>1, <1>2, <1>4, <1>6, <2>2, HolderAtNext, PartiesNext
  <2> QED BY <1>1, <2>1, <2>2
<1>8. Descends /\ SameMarks
  BY <1>1, SameFirings DEF SameMarks, OnlyLoop
<1>9. Sounds(w)'
  <2>1. ~FailedPlace("live", l) /\ (Failed' => Failed)
    BY <1>8, SameFailed DEF FailedPlace
  <2>2. CASE loop'[l].pc = "mirrored"
    <3>1. \A i \in Kinds : \A x \in Places(w, i)' : i = "review" /\ x = l
      BY <1>2, <2>2, AtNext DEF Live
    <3>2. ApprovedPlace("review", l)' => run'.verdict = "approved"
      <4> SUFFICES ASSUME loop'[l].verdict = "approved" PROVE run'.verdict = "approved"
        BY DEF ApprovedPlace
      <4>1. loop \in [Loops -> LoopFacts]
        BY <1>1, TypeParts
      <4>2. loop' = [loop EXCEPT ![l] = VerdictMirror(l)]
        <5>1. loop' = [loop EXCEPT ![l].pc = "working", ![l].green = FALSE] => loop'[l].pc = "working"
          <6>1. loop[l] \in LoopFacts
            BY <4>1
          <6>2. loop' = [loop EXCEPT ![l].pc = "working", ![l].green = FALSE] =>
                  loop'[l] = [loop[l] EXCEPT !.pc = "working", !.green = FALSE]
            BY <4>1
          <6> QED BY <6>1, <6>2 DEF LoopFacts
        <5> QED BY <2>2, <5>1 DEF MirrorVerdict
      <4>3. loop'[l] = VerdictMirror(l) /\ loop[l] \in LoopFacts
        BY <4>1, <4>2
      <4>4. loop'[l].verdict = Verdict(loop[l].green)
        BY <4>3 DEF VerdictMirror, LoopFacts
      <4>5. loop[l].green
        BY <4>4 DEF Verdict
      <4>6. ApprovedPlace("live", l)
        BY <1>1, <4>5 DEF ApprovedPlace
      <4>7. Sound("live", l)
        BY <1>3, <1>4 DEF Sounds
      <4> QED BY <1>1, <4>6, <4>7 DEF Sound
    <3> QED BY <1>3, <1>4, <2>1, <3>1, <3>2, SoundsPass
  <2>3. CASE loop'[l].pc = "working"
    <3>1. \A i \in Kinds : \A x \in Places(w, i)' : i = "live" /\ x = l
      BY <1>2, <2>3, AtNext DEF ReviewAt
    <3>2. ~ApprovedPlace("live", l)'
      BY <2>3 DEF ApprovedPlace
    <3> QED BY <1>3, <1>4, <2>1, <3>1, <3>2, SoundsPass
  <2> QED BY <1>1, <2>2, <2>3
<1>10. \A k \in Loops : LoopGrows(k)
  <2>1. LoopGrows(l)
    BY <1>1 DEF LoopGrows, Reviewed, Finished
  <2>2. \A k \in Loops : k # l => LoopGrows(k)
    BY <1>1, SameGrows DEF OnlyLoop
  <2> QED BY <2>1, <2>2
<1>11. Closed' /\ GaveUp(w)' /\ Opened'
  BY <1>1, <1>3, <1>8, SameClosed, KeptGaveUp, SameOpened
<1> QED BY <1>1, <1>4, <1>7, <1>8, <1>9, <1>10, <1>11, TurningStays
-----------------------------------------------------------------------------
LEMMA EndTurning ==
  ASSUME Shape, NEW w \in Worlds, Relay(w), Turning(w), NEW l \in Loops, NEW t \in BOOLEAN,
         EndLoop(l, t)
  PROVE  Turning(w)'
<1>1. /\ OnlyLoop(l) /\ loop[l].pc \in {"working", "mirrored"} /\ loop'[l].pc = "ended"
      /\ UNCHANGED <<head, run, forge, firing, queue, job, proof, used>> /\ RuleState
      /\ UNCHANGED <<loop[l].role, loop[l].marks, loop[l].passed, loop[l].verdict>>
      /\ Typed /\ Baton(w) /\ LoopShape(l)
  BY ShapeParts, RelayParts, EndEffect
<1>2. /\ Baton(w)'
      /\ loop[l].pc = "working" => \A i \in Kinds : \A x \in Places(w, i)' :
           /\ x = l
           /\ i = IF loop[l].role = "developer" THEN "trigger" ELSE "review"
      /\ loop[l].pc = "mirrored" => \A i \in Kinds : Places(w, i)' \subseteq Places(w, i)
  BY <1>1, EndBaton
<1>3. Grounds /\ Sounds(w) /\ Closed /\ GaveUp(w) /\ Opened
  BY TurningParts
<1>4. Descends /\ SameMarks
  BY <1>1, SameFirings DEF SameMarks, OnlyLoop
<1>5. Sounds(w)'
  <2>1. Failed' => Failed
    BY <1>4, SameFailed
  <2>2. CASE loop[l].pc = "working"
    <3>1. l \in Places(w, "live") /\ "live" \in Kinds /\ ~FailedPlace("live", l)
      BY <1>1, <2>2, At DEF Live, Kinds, FailedPlace
    <3>2. PICK j : j = IF loop[l].role = "developer" THEN "trigger" ELSE "review"
      OBVIOUS
    <3>3. ~ApprovedPlace(j, l)'
      <4>1. loop'[l].verdict = "none"
        BY <1>1, <2>2 DEF LoopShape
      <4> QED BY <3>2, <4>1 DEF ApprovedPlace
    <3>4. \A i \in Kinds : \A x \in Places(w, i)' : i = j /\ x = l
      BY <1>2, <2>2, <3>2
    <3> QED BY <1>3, <2>1, <3>1, <3>3, <3>4, SoundsPass
  <2>3. CASE loop[l].pc = "mirrored"
    <3>1. ASSUME NEW k \in Kinds, NEW x, x \in Places(w, k)', ApprovedPlace(k, x)'
          PROVE  ApprovedPlace(k, x)
      <4>1. k \in {"live", "review"} => x \in Loops
        BY <3>1, InLoops DEF LoopKinds
      <4>2. k = "live" => x # l
        BY <1>1, <3>1, AtNext DEF Live
      <4> QED BY <1>1, <3>1, <4>1, <4>2 DEF ApprovedPlace, OnlyLoop
    <3> QED BY <1>1, <1>2, <1>3, <2>1, <2>3, <3>1, SoundsStay
  <2> QED BY <1>1, <2>2, <2>3
<1>6. \A k \in Loops : LoopGrows(k)
  <2>1. LoopGrows(l)
    BY <1>1 DEF LoopGrows, Reviewed, Finished
  <2>2. \A k \in Loops : k # l => LoopGrows(k)
    BY <1>1, SameGrows DEF OnlyLoop
  <2> QED BY <2>1, <2>2
<1>7. Closed' /\ GaveUp(w)' /\ Opened'
  BY <1>1, <1>3, <1>4, SameClosed, KeptGaveUp, SameOpened
<1> QED BY <1>1, <1>4, <1>5, <1>6, <1>7, TurningStays

LEMMA EndTurn ==
  ASSUME Shape, NEW w \in Worlds, Relay(w), Grounds, NEW l \in Loops, NEW t \in BOOLEAN,
         EndLoop(l, t)
  PROVE  \/ Holder(w)' = Holder(w)
         \/ Holder(w) = "developer" /\ Holder(w)' = "floors"
         \/ Holder(w) = "reviewer" /\ Holder(w)' = "human"
<1>1. /\ OnlyLoop(l) /\ loop[l].pc \in {"working", "mirrored"} /\ loop'[l].pc = "ended"
      /\ UNCHANGED <<head, run, forge, firing, queue, job, proof, used>> /\ RuleState
      /\ UNCHANGED <<loop[l].role, loop[l].marks, loop[l].passed, loop[l].rejected,
                     loop[l].verdict, loop[l].attempts, loop[l].transients>>
      /\ Typed /\ Baton(w) /\ LoopShape(l) /\ MatchedHolds /\ matched' \subseteq matched
  BY ShapeParts, RelayParts, EndEffect DEF RuleState
<1>2. /\ Baton(w)'
      /\ loop[l].pc = "mirrored" => \A i \in Kinds : Places(w, i)' \subseteq Places(w, i)
  BY <1>1, EndBaton
<1>3. CASE loop[l].pc = "working" /\ loop[l].role = "developer"
  <2>1. Holder(w) = "developer"
    BY <1>1, <1>3, LiveOnly DEF Live
  <2>2. ~Has(l, "dispatched")
    BY <1>3 DEF Grounds, MarkedLoop, Finished
  <2>3. <<"05", l>> \notin matched
    <3> SUFFICES ASSUME <<"05", l>> \in matched PROVE FALSE
      OBVIOUS
    <3>1. When("05", l)
      BY <1>1 DEF MatchedHolds
    <3> QED BY <1>3, <3>1, WhenLoop DEF FloorsTrigger
  <2>4. TriggerAt(w, l)'
    BY <1>1, <1>3, <2>2, <2>3 DEF TriggerAt, FloorsTrigger, Has, Open
  <2>5. l \in Places(w, "trigger")' /\ "trigger" \in Kinds
    BY <2>4, AtNext DEF Kinds
  <2> QED BY <1>1, <1>2, <1>3, <2>1, <2>5, HolderAtNext, PartiesNext
<1>4. CASE loop[l].pc = "working" /\ loop[l].role = "reviewer"
  <2>1. Holder(w) = "reviewer"
    BY <1>1, <1>4, LiveOnly DEF Live
  <2>2. ~Has(l, "routed") /\ loop[l].verdict = "none"
        /\ \A r \in Reviewing : <<r, l>> \notin matched
    BY <1>4, Unreviewed
  <2>3. ReviewAt(w, l)'
    BY <1>1, <1>4, <2>2 DEF ReviewAt, Has, Open
  <2>4. l \in Places(w, "review")' /\ "review" \in Kinds
    BY <2>3, AtNext DEF Kinds
  <2> QED BY <1>1, <1>2, <2>1, <2>2, <2>4, HolderAtNext, PartiesNext, ReviewWhom
<1>5. CASE loop[l].pc = "mirrored"
  <2>1. loop[l].role = "reviewer" /\ loop[l].passed = "none"
    BY <1>1, <1>5 DEF LoopShape
  <2>2. ASSUME NEW k \in LoopKinds, l \in Places(w, k)
        PROVE  l \in Places(w, k)' /\ Party(k, l)' = Party(k, l)
    <3>1. k \in {"review", "failed"}
      BY <1>5, <2>1, <2>2, At DEF LoopKinds, Live, TriggerAt, Dispatch, FloorsTrigger, RouteAt
    <3>2. CASE k = "review"
      <4>1. ReviewAt(w, l)'
        BY <1>1, <2>2, <3>2, At, OpenShrinks DEF ReviewAt, Has
      <4>2. ReviewedTo(l)' = ReviewedTo(l)
        BY <1>1 DEF ReviewedTo
      <4> QED BY <3>2, <4>1, <4>2, AtNext, Parties, PartiesNext
    <3>3. CASE k = "failed"
      <4>1. FailedAt(w, l)'
        BY <1>1, <2>2, <3>3, At, OpenShrinks DEF FailedAt, StationFailedLoop, Has
      <4> QED BY <3>3, <4>1, AtNext, Parties, PartiesNext
    <3> QED BY <3>1, <3>2, <3>3
  <2>3. ASSUME NEW k \in Kinds, NEW x \in Places(w, k)
        PROVE  x \in Places(w, k)' /\ Party(k, x)' = Party(k, x)
    <3>1. CASE k \in LoopKinds /\ x # l
      <4>1. x \in Loops
        BY <2>3, <3>1, InLoops
      <4>2. loop'[x] = loop[x]
        BY <1>1, <3>1, <4>1 DEF OnlyLoop
      <4>3. SameLoop(x)
        BY <4>2 DEF SameLoop
      <4> QED BY <1>1, <2>3, <3>1, <4>1, <4>2, <4>3, LoopPersists
    <3>2. CASE k \in LoopKinds /\ x = l
      BY <2>2, <2>3, <3>2
    <3>3. CASE k \in RunKinds
      BY <1>1, <2>3, <3>3, RunPersists DEF SameRun
    <3>4. CASE k \in {"carrier", "queue", "job"}
      BY <1>1, <2>3, <3>4, HeldPersists
    <3> QED BY <3>1, <3>2, <3>3, <3>4, KindsAre
  <2> QED BY <1>1, <1>2, <1>5, <2>3, HolderKept
<1> QED BY <1>1, <1>3, <1>4, <1>5 DEF LoopShape, Roles

-----------------------------------------------------------------------------
(* A station's work.                                                       *)

LEMMA TakeTurning ==
  ASSUME Shape, NEW w \in Worlds, Relay(w), Turning(w), NEW s \in Stations, Take(s)
  PROVE  Turning(w)' /\ Holder(w)' = Holder(w)
<1>1. /\ UNCHANGED <<head, run, forge, loop, firing, matched, proof, used>>
      /\ job'[s].pc = "start" /\ OnlyJob(s) /\ Typed /\ Baton(w) /\ Short
      /\ "queue" \in Kinds /\ "job" \in Kinds
  BY ShapeParts, RelayParts, TakeEffect DEF Kinds
<1>2. /\ Baton(w)' /\ s \in Places(w, "queue")
      /\ \A i \in Kinds : \A x \in Places(w, i)' : i = "job" /\ x = s
  BY <1>1, TakeBaton
<1>3. Grounds /\ Sounds(w) /\ Closed /\ GaveUp(w) /\ Opened
  BY TurningParts
<1>4. s \in Places(w, "job")'
  BY <1>1, AtNext
<1>5. Holder(w)' = Holder(w)
  BY <1>1, <1>2, <1>4, HolderAt, HolderAtNext, Parties, PartiesNext
<1>6. Descends /\ SameMarks
  BY <1>1, SameFirings DEF SameMarks
<1>7. Sounds(w)'
  <2>1. ~FailedPlace("queue", s) /\ (Failed' => Failed)
    BY <1>6, SameFailed DEF FailedPlace
  <2>2. ApprovedPlace("job", s)' => run'.verdict = "approved"
    <3>1. ApprovedPlace("job", s)' => ApprovedPlace("queue", s)
      BY DEF ApprovedPlace
    <3>2. Sound("queue", s)
      BY <1>1, <1>2, <1>3 DEF Sounds
    <3> QED BY <1>1, <3>1, <3>2 DEF Sound
  <2> QED BY <1>1, <1>2, <1>3, <2>1, <2>2, SoundsPass
<1>8. \A k \in Loops : LoopGrows(k)
  BY <1>1, SameGrows
<1>9. Closed' /\ GaveUp(w)'
  BY <1>1, <1>3, <1>6, SameClosed, KeptGaveUp
<1>10. Opened'
  BY <1>1, <1>3, OtherOpened DEF OnlyJob, Stations
<1> QED BY <1>1, <1>5, <1>6, <1>7, <1>8, <1>9, <1>10, TurningStays

LEMMA JobOnly ==
  ASSUME NEW w \in Worlds, Baton(w), NEW s \in Stations, job[s].pc # "idle"
  PROVE  /\ s \in Places(w, "job") /\ ~run.pr /\ ~run.parked /\ Holder(w) = s
         /\ \A k \in Kinds : \A x \in Places(w, k) : k = "job" /\ x = s
<1>1. s \in Places(w, "job") /\ "job" \in Kinds
  BY At DEF Kinds
<1>2. ~ParkedPlace("job", s)
  BY DEF ParkedPlace
<1> QED BY <1>1, <1>2, Alone, HolderAt, Parties

LEMMA StampFailedTurning ==
  ASSUME Shape, NEW w \in Worlds, Relay(w), Turning(w), NEW s \in Stations, StampDispatchFailed(s)
  PROVE  Turning(w)' /\ ~run.pr /\ ~run.parked /\ Holder(w) = s /\ Holder(w)' = "human"
<1>p. PICK e : e = job[s].on
  OBVIOUS
<1>1. /\ AddsMark(e, "failed") /\ e \in Loops \cup {Run}
      /\ job[s].pc = "failed" /\ PutsDown(s) /\ RuleState
      /\ UNCHANGED <<head, forge, firing, queue, proof, used>> /\ Typed /\ Baton(w)
      /\ MatchedHolds /\ matched' \subseteq matched
  BY <1>p, ShapeParts, RelayParts, StampFailedEffect DEF RuleState
<1>2. /\ Baton(w)' /\ \A i \in Kinds : \A x \in Places(w, i)' : i \in {"failed", "failed-run"}
  BY <1>1, StampFailedBaton
<1>3. Grounds /\ Sounds(w) /\ Closed /\ (GivingUp => Failed) /\ GaveUp(w) /\ Opened
  BY TurningParts
<1>4. /\ e = Run => run'.marks = run.marks \cup {"failed"} /\ loop' = loop
      /\ e # Run => loop'[e].marks = loop[e].marks \cup {"failed"} /\ run' = run
      /\ UNCHANGED <<run.verdict, run.verify, run.parked, run.pr>>
      /\ \A k \in Loops :
           /\ k # e => loop'[k] = loop[k]
           /\ UNCHANGED <<loop[k].role, loop[k].pc, loop[k].passed>>
  BY <1>1, MarkEffect
<1>5. s \in Places(w, "job") /\ ~run.pr /\ ~run.parked /\ Holder(w) = s
  BY <1>1, JobOnly
<1>6. ~Failed /\ ~GivingUp
  <2>1. Sound("job", s)
    BY <1>3, <1>5 DEF Sounds, Kinds
  <2>2. ~Failed
    BY <2>1 DEF Sound, FailedPlace
  <2> QED BY <1>3, <2>2
<1>7. Holder(w)' = "human"
  <2>1. CASE e = Run
    <3>1. <<"failed-run", Run>> \notin matched
      <4> SUFFICES ASSUME <<"failed-run", Run>> \in matched PROVE FALSE
        OBVIOUS
      <4>1. When("failed-run", Run)
        BY <1>1 DEF MatchedHolds
      <4> QED BY <1>6, <4>1, WhenRun DEF StationFailedRun, Failed
    <3>2. "park-routed" \notin run'.marks /\ "failed" \in run'.marks
      BY <1>4, <1>6, <2>1 DEF GivingUp
    <3>3. FailedRunAt(w)'
      BY <1>1, <1>4, <1>5, <3>1, <3>2 DEF FailedRunAt, StationFailedRun, Open
    <3>4. Run \in Places(w, "failed-run")' /\ "failed-run" \in Kinds
      BY <3>3, AtNext DEF Kinds
    <3> QED BY <1>2, <3>4, HolderAtNext, PartiesNext
  <2>2. CASE e # Run
    <3>1. e \in Loops
      BY <1>1, <2>2
    <3>2. <<"failed-loop", e>> \notin matched
      <4> SUFFICES ASSUME <<"failed-loop", e>> \in matched PROVE FALSE
        OBVIOUS
      <4>1. When("failed-loop", e)
        BY <1>1 DEF MatchedHolds
      <4> QED BY <1>6, <3>1, <4>1, WhenLoop DEF StationFailedLoop, Failed
    <3>3. ~Has(e, "park-routed")' /\ Has(e, "failed")'
      BY <1>4, <1>6, <2>2, <3>1 DEF GivingUp, Has
    <3>4. FailedAt(w, e)'
      BY <1>1, <3>2, <3>3 DEF FailedAt, StationFailedLoop, Open
    <3>5. e \in Places(w, "failed")' /\ "failed" \in Kinds
      BY <3>1, <3>4, AtNext DEF Kinds
    <3> QED BY <1>2, <3>5, HolderAtNext, PartiesNext
  <2> QED BY <2>1, <2>2
<1>8. Descends
  BY <1>1, SameFirings
<1>9. Grounds'
  <2>1. \A l \in Loops : LoopGrows(l)
    BY <1>4, SameGrows
  <2>2. \A l \in Loops : \A m \in {"dispatched", "routed"} : m \in loop'[l].marks => m \in loop[l].marks
    BY <1>4
  <2> QED BY <1>1, <1>3, <1>8, <2>1, <2>2, GroundsKept
<1>10. Sounds(w)'
  <2> SUFFICES ASSUME NEW k \in Kinds, NEW x, x \in Places(w, k)' PROVE Sound(k, x)'
    BY DEF Sounds
  <2>1. k \in {"failed", "failed-run"}
    BY <1>2
  <2> QED BY <2>1 DEF Sound, FailedPlace, ApprovedPlace
<1>11. Closed'
  <2>1. "routed" \in run'.marks => "routed" \in run.marks
    BY <1>1, <1>4
  <2>2. Closes' => Closes
    BY <1>1, <2>1 DEF Closes
  <2> QED BY <1>3, <1>4, <2>2 DEF Closed
<1>12. Failed'
  BY <1>1, <1>4 DEF Failed, Has
<1>13. GaveUp(w)'
  BY <1>1, <1>3, <1>4, KeptGaveUp
<1>14. Opened'
  BY <1>1, <1>3, OtherOpened DEF PutsDown, OnlyJob, NoJob, Stations
<1> QED BY <1>5, <1>7, <1>9, <1>10, <1>11, <1>12, <1>13, <1>14 DEF Turning
-----------------------------------------------------------------------------
LEMMA HandlingTurning ==
  ASSUME Shape, NEW w \in Worlds, Relay(w), Turning(w), NEW s \in Stations, Handling(s)
  PROVE  /\ Turning(w)' /\ ~run.pr /\ ~run.parked /\ Holder(w) = s
         /\ job'[s].pc # "idle" => Holder(w)' = s
         /\ job'[s].pc = "idle" => Holder(w)' = "nobody"
<1>1. /\ job[s].pc # "idle" /\ (Holds(s) \/ PutsDown(s))
      /\ UNCHANGED <<head, loop, firing, queue>>
      /\ UNCHANGED <<run.verdict, run.pr, run.parked, run.marks>>
      /\ \/ run'.verify = run.verify
         \/ s = "verify"
      /\ Typed /\ Baton(w) /\ Late(w) /\ "job" \in Kinds
  BY ShapeParts, RelayParts, HandlingEffect DEF Baton, Kinds
<1>2. Baton(w)' /\ \A i \in Kinds : Places(w, i)' \subseteq Places(w, i)
  BY <1>1, HandlingBaton
<1>3. Grounds /\ Sounds(w) /\ Closed /\ GaveUp(w) /\ Opened
  BY TurningParts
<1>4. /\ s \in Places(w, "job") /\ ~run.pr /\ ~run.parked /\ Holder(w) = s
      /\ \A k \in Kinds : \A x \in Places(w, k) : k = "job" /\ x = s
  BY <1>1, JobOnly
<1>5. job'[s].pc # "idle" => Holder(w)' = s
  <2> SUFFICES ASSUME job'[s].pc # "idle" PROVE Holder(w)' = s
    OBVIOUS
  <2>1. s \in Places(w, "job")'
    BY AtNext
  <2> QED BY <1>1, <1>2, <2>1, HolderAtNext, PartiesNext
<1>6. job'[s].pc = "idle" => Holder(w)' = "nobody"
  <2> SUFFICES ASSUME job'[s].pc = "idle" PROVE Holder(w)' = "nobody"
    OBVIOUS
  <2>1. s \notin Places(w, "job")'
    BY AtNext
  <2>2. Nobody(w)'
    BY <1>2, <1>4, <2>1 DEF Nobody
  <2> QED BY <2>2, HolderNone
<1>7. Descends /\ SameMarks
  BY <1>1, SameFirings DEF SameMarks
<1>8. Sounds(w)'
  <2>1. Failed' => Failed
    BY <1>7, SameFailed
  <2>2. \A k \in Kinds : \A x \in Places(w, k)' : ApprovedPlace(k, x)' => ApprovedPlace(k, x)
    BY <1>1 DEF ApprovedPlace
  <2> QED BY <1>1, <1>2, <1>3, <2>1, <2>2, SoundsStay
<1>9. \A k \in Loops : LoopGrows(k)
  BY <1>1, SameGrows
<1>10. Closed'
  <2>1. CASE run'.verify = run.verify
    BY <1>1, <1>3, <1>7, <2>1, SameClosed
  <2>2. CASE s = "verify"
    <3>1. ~LatePlace("job", s)
      BY <2>2 DEF LatePlace
    <3>2. ~Closes
      BY <1>1, <1>3, <1>4, <3>1 DEF Closed, Late
    <3> QED BY <1>1, <3>2 DEF Closed, Closes
  <2> QED BY <1>1, <2>1, <2>2
<1>11. GaveUp(w)'
  BY <1>1, <1>3, KeptGaveUp
<1>12. Opened'
  <2>1. CASE Push \/ OpenPR
    <3>1. job \in [Stations -> JobFacts] /\ forge \in [tip : Nat, prs : Nat] /\ "delivery" \in Stations
      BY <1>1, TypeParts DEF Stations
    <3>2. CASE OpenPR
      <4>1. forge'.prs = IF forge.prs = 0 THEN 1 ELSE forge.prs
        BY <3>1, <3>2 DEF OpenPR
      <4> QED BY <1>3, <4>1 DEF Opened
    <3>3. CASE Push
      <4>1. forge'.prs = forge.prs
        BY <3>1, <3>3 DEF Push
      <4>2. job'["delivery"].pc # "opened"
        <5>1. job' = Failing("delivery") => job'["delivery"].pc \in {"start", "failed"}
          BY <1>1, <3>1, JobEffects
        <5>2. job' = [job EXCEPT !["delivery"] = NoJob] => job'["delivery"].pc = "idle"
          BY <1>1, <3>1, JobEffects
        <5>3. job' = [job EXCEPT !["delivery"].pc = "pushed"] => job'["delivery"].pc = "pushed"
          BY <3>1 DEF JobFacts
        <5> QED BY <3>3, <5>1, <5>2, <5>3 DEF Push
      <4> QED BY <1>3, <4>1, <4>2 DEF Opened
    <3> QED BY <2>1, <3>2, <3>3
  <2>2. CASE HandleError(s) \/ DropDispatch(s)
    <3>1. forge' = forge
      BY <2>2 DEF HandleError, DropDispatch
    <3>2. job'[s].pc # "opened"
      <4>1. job' = Failing(s) => job'[s].pc \in {"start", "failed"}
        BY <1>1, JobEffects
      <4>2. job' = [job EXCEPT ![s] = NoJob] => job'[s].pc = "idle"
        BY <1>1, JobEffects
      <4> QED BY <2>2, <4>1, <4>2 DEF HandleError, DropDispatch
    <3>3. OnlyJob(s)
      BY <1>1 DEF Holds, PutsDown
    <3> QED BY <1>3, <3>1, <3>2, <3>3, OtherOpened DEF OnlyJob, Stations
  <2>3. CASE s = "verify" /\ (CloneForVerify \/ StampVerify("retry"))
    <3>1. forge' = forge
      BY <2>3 DEF CloneForVerify, StampVerify
    <3>2. OnlyJob(s)
      BY <1>1 DEF Holds, PutsDown
    <3> QED BY <1>3, <2>3, <3>1, <3>2, OtherOpened DEF OnlyJob, Stations
  <2> QED BY <2>1, <2>2, <2>3 DEF Handling
<1> QED BY <1>1, <1>4, <1>5, <1>6, <1>7, <1>8, <1>9, <1>10, <1>11, <1>12, TurningStays

LEMMA RoutesWhom == ASSUME NEW l PROVE RoutedTo(l)' \in {"reviewer", "developer", "human"}
  BY DEF RoutedTo

LEMMA FloorsTurning ==
  ASSUME Shape, NEW w \in Worlds, Relay(w), Turning(w), NEW b \in BOOLEAN, RunFloors(b)
  PROVE  /\ Turning(w)' /\ ~run.pr /\ ~run.parked /\ Holder(w) = "floors"
         /\ Holder(w)' \in {"floors", "reviewer", "developer", "human"}
<1>0. /\ Typed /\ Baton(w) /\ Judged /\ Unjudged(w) /\ MatchedHolds
      /\ "job" \in Kinds /\ "route" \in Kinds /\ "floors" \in Stations
  BY ShapeParts, RelayParts DEF Kinds, Stations
<1>1. /\ Baton(w)' /\ "floors" \in Places(w, "job") /\ job["floors"].on \in Finished
      /\ \A i \in Kinds : \A x \in Places(w, i)' :
           \/ i = "route" /\ x = job["floors"].on
           \/ loop' = loop /\ i = "job" /\ x = "floors"
  BY <1>0, FloorsBaton
<1>2. PICK l \in Loops : l = job["floors"].on /\ l \in Finished
  BY <1>1 DEF Finished
<1>3. /\ job["floors"].pc = "start" /\ RuleState /\ matched' \subseteq matched
      /\ UNCHANGED <<head, run, forge, firing, queue, proof, used>>
      /\ \/ /\ OnlyLoop(l) /\ PutsDown("floors") /\ loop'[l].passed \in {"true", "false"}
            /\ UNCHANGED <<loop[l].role, loop[l].pc, loop[l].marks>>
         \/ loop' = loop /\ Holds("floors")
  BY <1>0, <1>2, FloorsEffect DEF RuleState
<1>4. Grounds /\ Sounds(w) /\ Closed /\ GaveUp(w) /\ Opened
  BY TurningParts
<1>5. "floors" \in Places(w, "job") /\ ~run.pr /\ ~run.parked /\ Holder(w) = "floors"
  BY <1>0, <1>3, JobOnly
<1>6. loop[l].passed = "none"
  BY <1>0, <1>2, <1>3 DEF Unjudged
<1>7. Holder(w)' \in {"floors", "reviewer", "developer", "human"}
  <2>1. CASE loop' = loop /\ Holds("floors")
    <3>1. "floors" \in Places(w, "job")'
      BY <1>0, <2>1, AtNext DEF Holds
    <3> QED BY <1>0, <1>1, <3>1, HolderAtNext, PartiesNext
  <2>2. CASE OnlyLoop(l) /\ loop'[l].passed \in {"true", "false"}
             /\ UNCHANGED <<loop[l].role, loop[l].pc, loop[l].marks>>
    <3>1. ~Has(l, "routed")
      BY <1>2, <1>4, <1>6 DEF Grounds, MarkedLoop, Reviewed, Finished
    <3>2. ASSUME NEW r \in Routing, <<r, l>> \in matched PROVE FALSE
      <4>1. When(r, l)
        BY <1>0, <3>2 DEF MatchedHolds
      <4>2. ~Has(l, "unclean")
        <5>1. ~Unclean(l)
          BY <1>6, ShapeParts DEF Unclean, LoopShape
        <5> QED BY <1>0, <5>1 DEF Judged
      <4> QED BY <1>6, <3>2, <4>1, <4>2, WhenLoop
              DEF Routing, RouteAdvance, RouteRetry, RouteEscalate, RouteTransientRetry,
                  RouteTransientPark, Unrouted
    <3>3. RouteAt(w, l)'
      BY <1>3, <2>2, <3>1, <3>2 DEF RouteAt, Has, Open
    <3>4. l \in Places(w, "route")'
      BY <3>3, AtNext
    <3> QED BY <1>0, <1>1, <3>4, HolderAtNext, PartiesNext, RoutesWhom
  <2> QED BY <1>3, <2>1, <2>2
<1>8. Descends /\ SameMarks
  BY <1>3, SameFirings DEF SameMarks, OnlyLoop
<1>9. Sounds(w)'
  <2>1. ~Failed
    <3>1. Sound("job", "floors")
      BY <1>0, <1>4, <1>5 DEF Sounds
    <3> QED BY <3>1 DEF Sound, FailedPlace
  <2>2. ~Failed'
    BY <1>8, <2>1, SameFailed
  <2>3. \A i \in Kinds : \A x \in Places(w, i)' : ~ApprovedPlace(i, x)'
    BY <1>1 DEF ApprovedPlace
  <2> QED BY <2>2, <2>3 DEF Sounds, Sound
<1>10. \A k \in Loops : LoopGrows(k)
  <2>1. LoopGrows(l)
    BY <1>3, <1>6 DEF LoopGrows, Reviewed, Finished
  <2>2. \A k \in Loops : k # l => LoopGrows(k)
    BY <1>3, SameGrows DEF OnlyLoop
  <2> QED BY <2>1, <2>2
<1>11. Closed' /\ GaveUp(w)'
  BY <1>3, <1>4, <1>8, SameClosed, KeptGaveUp
<1>12. Opened'
  BY <1>3, <1>4, OtherOpened DEF Holds, PutsDown, OnlyJob, Stations
<1> QED BY <1>0, <1>5, <1>7, <1>8, <1>9, <1>10, <1>11, <1>12, TurningStays

LEMMA DecideTurning ==
  ASSUME Shape, NEW w \in Worlds, Relay(w), Turning(w), NEW o \in {"pass", "fail"}, StampVerify(o)
  PROVE  /\ Turning(w)' /\ ~run.pr /\ ~run.parked /\ Holder(w) = "verify"
         /\ Holder(w)' \in {"human", "delivery"}
<1>1. /\ job["verify"].pc = "cloned" /\ PutsDown("verify") /\ RuleState /\ matched' \subseteq matched
      /\ UNCHANGED <<head, forge, loop, firing, queue, used>> /\ run'.verify = o
      /\ UNCHANGED <<run.verdict, run.pr, run.parked, run.marks>>
      /\ Typed /\ Baton(w) /\ Late(w) /\ MatchedHolds
      /\ "job" \in Kinds /\ "verdict" \in Kinds /\ "verify" \in Stations
  BY ShapeParts, RelayParts, DecideEffect DEF Kinds, Stations, Baton, RuleState
<1>2. /\ Baton(w)' /\ \A i \in Kinds : \A x \in Places(w, i)' : i = "verdict" /\ x = Run
  BY <1>1, DecideBaton
<1>3. Grounds /\ Sounds(w) /\ Closed /\ GaveUp(w) /\ Opened
  BY TurningParts
<1>4. "verify" \in Places(w, "job") /\ ~run.pr /\ ~run.parked /\ Holder(w) = "verify"
  BY <1>1, JobOnly
<1>5. Sound("job", "verify") /\ ~FailedPlace("job", "verify") /\ run.verdict = "approved"
  <2>1. Sound("job", "verify")
    BY <1>1, <1>3, <1>4 DEF Sounds
  <2> QED BY <2>1 DEF Sound, FailedPlace, ApprovedPlace
<1>6. run.verify \notin {"pass", "fail"}
  BY <1>1, <1>4 DEF Late, LatePlace
<1>7. "routed" \notin run.marks /\ \A r \in Closing : <<r, Run>> \notin matched
  <2>1. "routed" \notin run.marks
    BY <1>3, <1>6 DEF Closed, Closes
  <2>2. ASSUME NEW r \in Closing, <<r, Run>> \in matched PROVE FALSE
    <3>1. When(r, Run)
      BY <1>1, <2>2 DEF MatchedHolds
    <3> QED BY <1>6, <2>2, <3>1, WhenRun DEF Closing, DeliverRun, ParkRun
  <2> QED BY <2>1, <2>2
<1>8. VerdictAt(w)'
  BY <1>1, <1>7 DEF VerdictAt, Open
<1>9. Run \in Places(w, "verdict")'
  BY <1>8, AtNext
<1>10. Holder(w)' \in {"human", "delivery"}
  BY <1>1, <1>2, <1>5, <1>9, HolderAtNext, PartiesNext
<1>11. Descends /\ SameMarks
  BY <1>1, SameFirings DEF SameMarks
<1>12. Sounds(w)'
  <2>1. Failed' => Failed
    BY <1>11, SameFailed
  <2>2. ~ApprovedPlace("verdict", Run)'
    BY DEF ApprovedPlace
  <2> QED BY <1>1, <1>2, <1>3, <1>4, <1>5, <2>1, <2>2, SoundsPass
<1>13. \A k \in Loops : LoopGrows(k)
  BY <1>1, SameGrows
<1>14. Closed'
  BY <1>1 DEF Closed
<1>15. GaveUp(w)'
  BY <1>1, <1>3, KeptGaveUp
<1>16. Opened'
  BY <1>1, <1>3, OtherOpened DEF PutsDown, OnlyJob, Stations
<1> QED BY <1>1, <1>4, <1>10, <1>11, <1>12, <1>13, <1>14, <1>15, <1>16, TurningStays

LEMMA DeliverTurning ==
  ASSUME Shape, NEW w \in Worlds, Relay(w), Turning(w), StampPR
  PROVE  Turning(w)' /\ ~run.pr /\ ~run.parked /\ Holder(w) = "delivery" /\ forge.prs = 1
<1>1. /\ job["delivery"].pc = "opened" /\ PutsDown("delivery")
      /\ UNCHANGED <<head, forge, loop, firing, queue, proof, used>>
      /\ UNCHANGED <<run.verdict, run.verify, run.parked, run.marks>>
      /\ Typed /\ Baton(w) /\ "delivery" \in Stations
  BY ShapeParts, RelayParts, StampPREffect DEF Stations
<1>2. Baton(w)' /\ Nobody(w)'
  BY <1>1, DeliverBaton
<1>3. Grounds /\ Sounds(w) /\ Closed /\ GaveUp(w) /\ Opened
  BY TurningParts
<1>4. ~run.pr /\ ~run.parked /\ Holder(w) = "delivery"
  BY <1>1, JobOnly
<1>5. Descends /\ SameMarks
  BY <1>1, SameFirings DEF SameMarks
<1>6. Sounds(w)'
  BY <1>2 DEF Sounds, Nobody
<1>7. \A k \in Loops : LoopGrows(k)
  BY <1>1, SameGrows
<1>8. Closed' /\ GaveUp(w)'
  BY <1>1, <1>3, <1>5, SameClosed, KeptGaveUp
<1>9. Opened' /\ forge.prs = 1
  BY <1>1, <1>3 DEF Opened, PutsDown, NoJob
<1> QED BY <1>1, <1>4, <1>5, <1>6, <1>7, <1>8, <1>9, TurningStays
-----------------------------------------------------------------------------
(* Mishaps.                                                                *)

LEMMA HolderAmong ==
  ASSUME NEW w, Baton(w)', NEW p, \A k \in Kinds : \A x \in Places(w, k)' : Party(k, x)' \in {p, "nobody"}
  PROVE  Holder(w)' \in {p, "nobody"}
<1>1. CASE Nobody(w)'
  BY <1>1, HolderNone
<1>2. CASE ~Nobody(w)'
  <2>1. PICK k \in Kinds : \E y \in Places(w, k)' : TRUE
    BY <1>2 DEF Nobody
  <2>2. PICK x : x \in Places(w, k)'
    BY <2>1
  <2>3. Holder(w)' = Party(k, x)'
    BY <2>2, HolderAtNext
  <2> QED BY <2>2, <2>3
<1> QED BY <1>1, <1>2

LEMMA SameParty ==
  ASSUME loop' = loop, run' = run
  PROVE  \A k \in Kinds : \A x : Party(k, x)' = Party(k, x)
<1> SUFFICES ASSUME NEW k \in Kinds, NEW x PROVE Party(k, x)' = Party(k, x)
  OBVIOUS
<1>1. RoutedTo(x)' = RoutedTo(x) /\ ReviewedTo(x)' = ReviewedTo(x)
  BY DEF RoutedTo, ReviewedTo
<1> QED BY <1>1, Parties, PartiesNext DEF Kinds

LEMMA LoseTurning ==
  ASSUME Shape, Relay("remembered"), Turning("remembered"), NEW f \in firing, LoseAction(f)
  PROVE  Turning("remembered")' /\ Holder("remembered")' \in {Holder("remembered"), "nobody"}
<1> DEFINE w == "remembered"
<1>1. /\ Advance(f) /\ UNCHANGED <<head, run, forge, loop, matched, queue, job, proof>>
      /\ Typed /\ Baton(w) /\ w \in Worlds /\ "carrier" \in Kinds
  BY ShapeParts, RelayParts DEF LoseAction, Worlds, Kinds
<1>2. Grounds /\ Sounds(w) /\ Closed /\ Opened
  BY TurningParts
<1>3. Baton(w)'
  BY <1>1, LoseBaton
<1>4. Descends /\ SameMarks
  BY <1>1, AdvanceDescends DEF SameMarks
<1>5. \A k \in Kinds \ {"carrier"} : Places(w, k)' \subseteq Places(w, k)
  BY <1>1, FactsFrame, QueueFrame, JobFrame, KindsAre
<1>6. Sounds(w)'
  <2>1. Failed' => Failed
    BY <1>4, SameFailed
  <2> SUFFICES ASSUME NEW k \in Kinds, NEW x, x \in Places(w, k)' PROVE Sound(k, x)'
    BY DEF Sounds
  <2>2. CASE k = "carrier"
    BY <1>1, <2>1, <2>2, CarriersSound
  <2>3. CASE k # "carrier"
    <3>1. Sound(k, x)
      BY <1>2, <1>5, <2>3 DEF Sounds
    <3> QED BY <1>1, <2>1, <3>1 DEF Sound, FailedPlace, ApprovedPlace
  <2> QED BY <2>2, <2>3
<1>7. \A k \in Loops : LoopGrows(k)
  BY <1>1, SameGrows
<1>8. Closed' /\ GaveUp(w)' /\ Opened'
  BY <1>1, <1>2, <1>4, SameClosed, SameOpened DEF GaveUp
<1>9. Holder(w)' \in {Holder(w), "nobody"}
  <2> SUFFICES ASSUME NEW k \in Kinds, NEW x, x \in Places(w, k)'
               PROVE  Party(k, x)' \in {Holder(w), "nobody"}
    BY <1>3, HolderAmong
  <2>1. CASE x \in Places(w, k)
    BY <1>1, <2>1, HolderAt, SameParty
  <2>2. CASE x \notin Places(w, k)
    <3>1. k = "carrier" /\ x = Rested(f) /\ Len(f.todo) > 1 /\ Carries(w, x)
      BY <1>1, <1>5, <2>2, CarriersAfter
    <3>2. f \in Places(w, "carrier")
      <4>1. f.rule \notin Cleaning
        BY <1>1, <3>1, CarriersAfter DEF Carries
      <4> QED BY <4>1, At DEF Carries
    <3>3. Holder(w) = Starts(f)
      BY <1>1, <3>2, HolderAt, Parties
    <3>4. Starts(x) \in {Starts(f), "nobody"}
      BY <1>1, <3>1, RestedStarts
    <3> QED BY <3>1, <3>3, <3>4, PartiesNext
  <2> QED BY <2>1, <2>2
<1> QED BY <1>1, <1>4, <1>6, <1>7, <1>8, <1>9, TurningStays

(* The first action that fails: from here on RULE_STATE tells.             *)
LEMMA SwitchTurn ==
  ASSUME Shape, Relay("marked"), Relay("remembered"), GaveUp("marked"), ~run.parked,
         NEW f \in firing, LoseAction(f)
  PROVE  Holder("remembered")' \in {Holder("marked"), "nobody"}
<1> DEFINE p == Holder("marked")
<1>1. /\ Advance(f) /\ UNCHANGED <<head, run, forge, loop, matched, queue, job, proof>>
      /\ Typed /\ Judged /\ Baton("remembered") /\ Baton("marked") /\ Remembered
      /\ "carrier" \in Kinds
  BY ShapeParts, RelayParts DEF LoseAction, Kinds
<1>2. Baton("remembered")'
  BY <1>1, LoseBaton
<1>3. \A k \in Kinds \ {"carrier"} : Places("remembered", k)' \subseteq Places("remembered", k)
  BY <1>1, FactsFrame, QueueFrame, JobFrame, KindsAre
<1>4. ASSUME NEW g \in firing, g.rule \notin Cleaning
      PROVE  Starts(g) \in {p, "nobody"}
  <2>1. CASE g \in Places("marked", "carrier")
    BY <1>1, <2>1, HolderAt, Parties
  <2>2. CASE g \notin Places("marked", "carrier")
    <3>1. g.rule \in Surrender \/ g.todo = Does(g.rule)
      BY <1>4, <2>2, At DEF Carries
    <3>2. Waiting(g)
      BY <1>4, <3>1 DEF Waiting, Pending, Moot
    <3>3. Origin(g.rule) \in Kinds /\ g.on \in Places("marked", Origin(g.rule)) /\ When(g.rule, g.on)
      BY <1>1, <3>2, WaitingPlace
    <3>4. CASE g.todo = <<"park-routed">>
      BY <3>4 DEF Starts
    <3>5. CASE g.todo # <<"park-routed">>
      <4>1. <<g.rule, g.on>> \in RuleOn
        BY <1>1, FiringFacts
      <4>2. Party(Origin(g.rule), g.on) = Starts(g)
        BY <1>1, <1>4, <3>3, <3>5, <4>1, StartsFrom
      <4> QED BY <1>1, <3>3, <4>2, HolderAt
    <3> QED BY <3>4, <3>5
  <2> QED BY <2>1, <2>2
<1>5. ASSUME NEW k \in Kinds \ {"carrier"} PROVE Places("remembered", k) \subseteq Places("marked", k)
  <2>1. \A R, e : Open("marked", R, e)
    BY DEF Open
  <2>2. CASE k \in {"live", "trigger"}
    BY <2>1, <2>2, At DEF TriggerAt
  <2>3. CASE k \in {"route", "review"}
    BY <2>1, <2>3, At DEF RouteAt, ReviewAt
  <2>4. CASE k \in {"failed", "verdict", "failed-run"}
    BY <2>1, <2>4, At DEF FailedAt, VerdictAt, FailedRunAt
  <2>5. CASE k \in {"queue", "job"}
    BY <2>5, At
  <2> QED BY <2>2, <2>3, <2>4, <2>5 DEF Kinds
<1>6. ASSUME NEW k \in Kinds, NEW x, x \in Places("remembered", k)'
      PROVE  Party(k, x)' \in {p, "nobody"}
  <2>1. CASE k # "carrier"
    <3>1. x \in Places("marked", k)
      BY <1>3, <1>5, <1>6, <2>1
    <3>2. Party(k, x) = p
      BY <1>1, <3>1, HolderAt
    <3> QED BY <1>1, <3>2, SameParty
  <2>2. CASE k = "carrier"
    <3>1. \/ x = Rested(f) /\ Len(f.todo) > 1 /\ Carries("remembered", x)
          \/ x \in Places("remembered", "carrier") /\ x # f
      BY <1>1, <1>6, <2>2, CarriersAfter
    <3>2. CASE x \in Places("remembered", "carrier")
      <4>1. x \in firing /\ x.rule \notin Cleaning
        BY <3>2, At DEF Carries
      <4> QED BY <1>4, <2>2, <4>1, PartiesNext
    <3>3. CASE x = Rested(f) /\ Len(f.todo) > 1 /\ Carries("remembered", x)
      <4>1. f.rule \notin Cleaning
        BY <1>1, <3>3, CarriersAfter DEF Carries
      <4>2. Starts(x) \in {Starts(f), "nobody"}
        BY <1>1, <3>3, RestedStarts
      <4>3. Starts(f) \in {p, "nobody"}
        BY <1>4, <4>1
      <4> QED BY <2>2, <4>2, <4>3, PartiesNext
    <3> QED BY <3>1, <3>2, <3>3
  <2> QED BY <2>1, <2>2
<1> QED BY <1>2, <1>6, HolderAmong

LEMMA RestartTurning ==
  ASSUME Shape, NEW w \in Worlds, Relay(w), Turning(w), Restart, World(w)'
  PROVE  Turning(w)' /\ Holder(w)' \in {Holder(w), "nobody"}
<1>1. /\ firing' = {} /\ job' = [s \in Stations |-> NoJob]
      /\ UNCHANGED <<head, run, forge, loop, proof>> /\ Typed /\ Baton(w)
  BY ShapeParts, RelayParts DEF Restart
<1>2. Baton(w)' /\ \A i \in Kinds : Places(w, i)' \subseteq Places(w, i)
  BY <1>1, RestartBaton
<1>3. Grounds /\ Sounds(w) /\ Closed /\ Opened
  BY TurningParts
<1>4. Descends /\ SameMarks
  BY <1>1 DEF Descends, SameMarks
<1>5. Sounds(w)'
  <2>1. Failed' => Failed
    BY <1>4, SameFailed
  <2>2. \A k \in Kinds : \A x \in Places(w, k)' : ApprovedPlace(k, x)' => ApprovedPlace(k, x)
    BY <1>1 DEF ApprovedPlace
  <2> QED BY <1>1, <1>2, <1>3, <2>1, <2>2, SoundsStay
<1>6. \A k \in Loops : LoopGrows(k)
  BY <1>1, SameGrows
<1>7. Closed'
  BY <1>1, <1>3, <1>4, SameClosed
<1>8. GaveUp(w)' /\ Opened'
  BY <1>1, <1>3 DEF GaveUp, Opened, Stations, NoJob
<1>9. Holder(w)' \in {Holder(w), "nobody"}
  <2>1. \A k \in Kinds : \A x \in Places(w, k)' : Party(k, x)' = Holder(w)
    BY <1>1, <1>2, HolderAt, SameParty
  <2> QED BY <1>2, <2>1, HolderAmong
<1> QED BY <1>1, <1>4, <1>5, <1>6, <1>7, <1>8, <1>9, TurningStays

-----------------------------------------------------------------------------
TurnInv(w) == World(w) => Turning(w)

LEMMA StepTurning ==
  ASSUME Shape, [Next]_vars, NEW w \in Worlds, BatonInv(w), TurnInv(w)
  PROVE  TurnInv(w)'
<1> SUFFICES ASSUME World(w)' PROVE Turning(w)'
  BY DEF TurnInv
<1>1. CASE UNCHANGED vars
  <2>1. World(w)
    BY <1>1 DEF World, vars
  <2>2. Turning(w) /\ Relay(w)
    BY <2>1 DEF TurnInv, BatonInv
  <2>3. UNCHANGED <<run, forge, loop, firing, matched, queue, job>> /\ Typed
    BY <1>1, ShapeParts DEF vars
  <2>4. \A k \in Kinds : Places(w, k)' \subseteq Places(w, k)
    BY <2>3, FactsFrame, CarrierFrame, QueueFrame, JobFrame, KindsAre
  <2>5. Descends /\ SameMarks /\ Sounds(w) /\ Closed /\ GaveUp(w) /\ Opened
    BY <2>2, <2>3, SameFirings, TurningParts DEF SameMarks
  <2>6. Sounds(w)'
    <3>1. \A k \in Kinds : \A x \in Places(w, k)' : ApprovedPlace(k, x)' => ApprovedPlace(k, x)
      BY <2>3 DEF ApprovedPlace
    <3> QED BY <2>3, <2>4, <2>5, <3>1, SameFailed, SoundsStay
  <2>7. Closed' /\ GaveUp(w)' /\ Opened'
    BY <2>3, <2>5, SameClosed, KeptGaveUp, SameOpened
  <2>8. \A k \in Loops : LoopGrows(k)
    BY <2>3, SameGrows
  <2> QED BY <2>2, <2>3, <2>5, <2>6, <2>7, <2>8, TurningStays
<1>2. CASE Next
  <2>0. Relay(w) /\ Turning(w)
    BY <1>2, WorldStep DEF BatonInv, TurnInv
  <2>1. CASE \E r, e : <<r, e>> \in RuleOn /\ Fire(r, e)
    BY <2>0, <2>1, FireTurning
  <2>2. CASE \E f \in firing : AddMark(f) \/ AddToRun(f) \/ SpawnLoop(f) \/ PublishDispatch(f)
    BY <2>0, <2>2, MarkTurning, LedgerTurning, SpawnTurning, PublishTurning
  <2>3. CASE \E f \in firing : LoseAction(f)
    <3>1. PICK f \in firing : LoseAction(f)
      BY <2>3
    <3>2. w = "remembered"
      BY <3>1, LostIsUnmarked
    <3> QED BY <2>0, <3>1, <3>2, LoseTurning
  <2>4. CASE \E l \in Loops : Patching(l) \/ MirrorVerdict(l)
    BY <2>0, <2>4, PatchTurning, MirrorTurning
  <2>5. CASE \E l \in Loops : \E b \in BOOLEAN : SubmitReview(l, b) \/ EndLoop(l, b)
    BY <2>0, <2>5, SubmitTurning, EndTurning
  <2>6. CASE \E s \in Stations : Take(s) \/ StampDispatchFailed(s) \/ Handling(s)
    BY <2>0, <2>6, TakeTurning, StampFailedTurning, HandlingTurning
  <2>7. CASE \E b \in BOOLEAN : RunFloors(b)
    BY <2>0, <2>7, FloorsTurning
  <2>8. CASE \E o \in {"pass", "fail"} : StampVerify(o)
    BY <2>0, <2>8, DecideTurning
  <2>9. CASE StampPR \/ Restart
    BY <2>0, <2>9, DeliverTurning, RestartTurning
  <2> QED BY <1>2, <2>1, <2>2, <2>3, <2>4, <2>5, <2>6, <2>7, <2>8, <2>9, Moves
<1> QED BY <1>1, <1>2

LEMMA InitTurning ==
  ASSUME Init, NEW w \in Worlds
  PROVE  Turning(w) /\ Holder(w) = "developer"
<1>1. /\ firing = {} /\ matched = {} /\ queue = [s \in Stations |-> <<>>]
      /\ job = [s \in Stations |-> NoJob] /\ ~run.parked /\ ~run.pr /\ run.verify = "none"
      /\ run.marks = {} /\ 1 \in Loops /\ forge.prs = 0
      /\ \A l \in Loops : /\ loop[l].marks = {} /\ loop[l].verdict = "none"
                          /\ loop[l].pc \in {"unborn", "ended"}
                          /\ loop[l].pc = "unborn" => loop[l].role = "none"
      /\ loop[1].role = "coordinator"
  BY LoopAssumption DEF Init, Unborn, Loops
<1>2. Grounds
  BY <1>1 DEF Grounds, MarkedLoop, Has
<1>3. ~Failed /\ ~GivingUp /\ Closed /\ GaveUp(w)
  BY <1>1 DEF Failed, GivingUp, Closed, Closes, GaveUp, Has
<1>4. Opened
  BY <1>1 DEF Opened, Stations, NoJob
<1>5. Sounds(w)
  <2> SUFFICES ASSUME NEW k \in Kinds, NEW x \in Places(w, k) PROVE ~ApprovedPlace(k, x)
    BY <1>3 DEF Sounds, Sound
  <2>1. k \in {"live", "review"} => x \in Loops
    BY InLoops DEF LoopKinds
  <2>2. x \notin Places(w, "carrier") /\ x \notin Places(w, "queue") /\ x \notin Places(w, "job")
    BY <1>1, At DEF NoJob
  <2> QED BY <1>1, <2>1, <2>2 DEF ApprovedPlace
<1>6. Holder(w) = "developer"
  <2>1. TriggerAt(w, 1)
    BY <1>1 DEF TriggerAt, Dispatch, Has, Open
  <2>2. 1 \in Places(w, "trigger") /\ "trigger" \in Kinds
    BY <1>1, <2>1, At DEF Kinds
  <2>3. Baton(w)
    BY InitRelay, RelayParts
  <2> QED BY <1>1, <2>2, <2>3, HolderAt, Parties
<1> QED BY <1>2, <1>3, <1>4, <1>5, <1>6 DEF Turning
-----------------------------------------------------------------------------
(* The steps of the attempt.                                               *)

(* RULE_STATE is lost at restarts only.                                    *)
Counted == used.forgot <= used.restarts
Turned  == Shape /\ Counted /\ \A w \in Worlds : BatonInv(w) /\ TurnInv(w)
Calm    == UNCHANGED <<used.lost, used.restarts, used.forgot>>

LEMMA UsedFacts ==
  ASSUME Shape
  PROVE  used \in Usage /\ used.lost \in Nat /\ used.restarts \in Nat /\ used.forgot \in Nat
  BY ShapeParts, TypeParts DEF Usage

LEMMA CalmUse ==
  ASSUME Shape, \/ used' = used \/ Error
                \/ used' = [used EXCEPT !.errors = @ + 1, !.unrecorded = @ + 1]
  PROVE  Calm
  BY UsedFacts DEF Calm, Error, Usage

(* What the mishaps of a step are, and what it does to the outcome.        *)
Steady == Calm /\ UNCHANGED <<head, forge, run.parked, run.pr>>

LEMMA FiringSteady ==
  ASSUME Shape, NEW f \in firing,
         AddMark(f) \/ SpawnLoop(f) \/ PublishDispatch(f)
  PROVE  Steady
<1>1. CASE AddMark(f)
  <2>1. used' = used /\ UNCHANGED <<head, forge>>
    BY <1>1 DEF AddMark
  <2>2. PICK e, m : e = f.on /\ m = Head(f.todo)
    OBVIOUS
  <2>3. AddsMark(e, m) /\ Typed /\ e \in Loops \cup {Run}
    BY <1>1, <2>2, ShapeParts, FiringFacts DEF AddMark, AddsMark
  <2>4. UNCHANGED <<run.parked, run.pr>>
    BY <2>3, MarkEffect
  <2> QED BY <2>1, <2>4, CalmUse DEF Steady
<1>2. CASE SpawnLoop(f) \/ PublishDispatch(f)
  BY <1>2, CalmUse DEF SpawnLoop, PublishDispatch, Steady
<1> QED BY <1>1, <1>2

LEMMA ToolSteady ==
  ASSUME Shape, NEW l \in Loops, NEW b \in BOOLEAN,
         MirrorVerdict(l) \/ SubmitReview(l, b) \/ EndLoop(l, b)
  PROVE  Steady
<1>0. Typed
  BY ShapeParts
<1>1. CASE MirrorVerdict(l)
  <2>1. UNCHANGED <<head, forge, run>> /\ (used' = used \/ Error)
    BY <1>1 DEF MirrorVerdict
  <2> QED BY <2>1, CalmUse DEF Steady
<1>2. CASE SubmitReview(l, b)
  <2>1. used' = used \/ Error
    BY <1>2 DEF SubmitReview
  <2> QED BY <1>0, <1>2, <2>1, SubmitEffect, CalmUse DEF Steady
<1>3. CASE EndLoop(l, b)
  BY <1>3, CalmUse DEF EndLoop, Steady
<1> QED BY <1>1, <1>2, <1>3

LEMMA StationSteady ==
  ASSUME Shape, NEW s \in Stations,
         \/ Take(s) \/ StampDispatchFailed(s)
         \/ \E b \in BOOLEAN : RunFloors(b)
         \/ \E o \in {"pass", "fail", "retry"} : StampVerify(o)
         \/ CloneForVerify \/ HandleError(s)
  PROVE  Steady
<1>0. Typed /\ run \in RunFacts
  BY ShapeParts, TypeParts
<1>1. CASE Take(s) \/ (\E b \in BOOLEAN : RunFloors(b)) \/ CloneForVerify
  BY <1>1, CalmUse DEF Take, RunFloors, CloneForVerify, Steady
<1>2. CASE StampDispatchFailed(s)
  <2>1. used' = used /\ UNCHANGED <<head, forge>>
    BY <1>2 DEF StampDispatchFailed
  <2>2. PICK e : e = job[s].on
    OBVIOUS
  <2>3. AddsMark(e, "failed") /\ e \in Loops \cup {Run}
    BY <1>0, <1>2, <2>2, StampFailedEffect
  <2>4. UNCHANGED <<run.parked, run.pr>>
    BY <1>0, <2>3, MarkEffect
  <2> QED BY <2>1, <2>4, CalmUse DEF Steady
<1>3. CASE \E o \in {"pass", "fail", "retry"} : StampVerify(o)
  <2>1. PICK o \in {"pass", "fail", "retry"} : StampVerify(o)
    BY <1>3
  <2>2. run' = [run EXCEPT !.verify = o] /\ UNCHANGED <<head, forge>> /\ (used' = used \/ Error)
    BY <2>1 DEF StampVerify
  <2>3. UNCHANGED <<run.parked, run.pr>>
    BY <1>0, <2>2 DEF RunFacts
  <2> QED BY <2>2, <2>3, CalmUse DEF Steady
<1>4. CASE HandleError(s)
  <2>1. Error /\ UNCHANGED <<head, forge, run>>
    BY <1>4 DEF HandleError
  <2> QED BY <2>1, CalmUse DEF Steady
<1> QED BY <1>1, <1>2, <1>3, <1>4

LEMMA TurnIs ==
  /\ ~OneKindOfFault => Turn = "anybody"
  /\ OneKindOfFault /\ (run.parked \/ run.pr) => Turn = "nobody"
  /\ OneKindOfFault /\ ~run.parked /\ ~run.pr /\ used.lost = 0 => Turn = Holder("marked")
  /\ OneKindOfFault /\ ~run.parked /\ ~run.pr /\ used.lost # 0 => Turn = Holder("remembered")
<1>1. run.parked => Outcome = "parked"
  BY DEF Outcome
<1>2. ~run.parked /\ run.pr => Outcome = "delivered"
  BY DEF Outcome
<1>3. ~run.parked /\ ~run.pr => Outcome = "open"
  BY DEF Outcome
<1> QED BY <1>1, <1>2, <1>3 DEF Turn

LEMMA TurnIsNext ==
  /\ ~OneKindOfFault' => Turn' = "anybody"
  /\ OneKindOfFault' /\ (run'.parked \/ run'.pr) => Turn' = "nobody"
  /\ OneKindOfFault' /\ ~run'.parked /\ ~run'.pr /\ used'.lost = 0 => Turn' = Holder("marked")'
  /\ OneKindOfFault' /\ ~run'.parked /\ ~run'.pr /\ used'.lost # 0 => Turn' = Holder("remembered")'
<1>1. run'.parked => Outcome' = "parked"
  BY DEF Outcome
<1>2. ~run'.parked /\ run'.pr => Outcome' = "delivered"
  BY DEF Outcome
<1>3. ~run'.parked /\ ~run'.pr => Outcome' = "open"
  BY DEF Outcome
<1> QED BY <1>1, <1>2, <1>3 DEF Turn

LEMMA Outcomes ==
  /\ run.parked => Outcome = "parked"
  /\ ~run.parked /\ run.pr => Outcome = "delivered"
  /\ ~run.parked /\ ~run.pr => Outcome = "open"
  /\ run'.parked => Outcome' = "parked"
  /\ ~run'.parked /\ run'.pr => Outcome' = "delivered"
  /\ ~run'.parked /\ ~run'.pr => Outcome' = "open"
  /\ UNCHANGED <<run.parked, run.pr>> => Outcome' = Outcome
  BY DEF Outcome

(* The argument that tells whose turn it is.                               *)
LEMMA Standing ==
  ASSUME Turned, OneKindOfFault
  PROVE  \E w \in Worlds : /\ World(w) /\ Relay(w) /\ Turning(w)
                           /\ w = "marked" <=> used.lost = 0
                           /\ ~run.parked /\ ~run.pr => Turn = Holder(w)
                           /\ Calm /\ ~run'.parked /\ ~run'.pr => Turn' = Holder(w)'
<1>1. CASE used.lost = 0
  <2>1. "marked" \in Worlds /\ World("marked")
    BY <1>1 DEF Worlds, World
  <2>2. Relay("marked") /\ Turning("marked")
    BY <2>1 DEF Turned, BatonInv, TurnInv
  <2>3. Calm => OneKindOfFault' /\ used'.lost = 0
    BY <1>1 DEF Calm, OneKindOfFault
  <2> QED BY <1>1, <2>1, <2>2, <2>3, TurnIs, TurnIsNext
<1>2. CASE used.lost # 0
  <2>1. "remembered" \in Worlds /\ World("remembered")
    BY <1>2 DEF Worlds, World, OneKindOfFault
  <2>2. Relay("remembered") /\ Turning("remembered")
    BY <2>1 DEF Turned, BatonInv, TurnInv
  <2>3. Calm => OneKindOfFault' /\ used'.lost # 0
    BY <1>2 DEF Calm, OneKindOfFault
  <2> QED BY <1>2, <2>1, <2>2, <2>3, TurnIs, TurnIsNext
<1> QED BY <1>1, <1>2

Step == [Attempt!Next]_(Attempt!vars)

(* A step that leaves all but the turn: the work stays or is handed on.    *)
LEMMA SteadyStep ==
  ASSUME Turned, OneKindOfFault, Steady,
         \A w \in Worlds : Relay(w) /\ Turning(w) /\ ~run.parked /\ ~run.pr =>
           Holder(w)' = Holder(w) \/ <<Holder(w), Holder(w)'>> \in Attempt!Handovers
  PROVE  Step
<1>1. Outcome' = Outcome /\ Mishaps' = Mishaps /\ UNCHANGED <<head, forge>>
  BY Outcomes DEF Steady, Calm, Mishaps
<1>2. PICK w \in Worlds : /\ Relay(w) /\ Turning(w)
                          /\ ~run.parked /\ ~run.pr => Turn = Holder(w)
                          /\ Calm /\ ~run'.parked /\ ~run'.pr => Turn' = Holder(w)'
  BY Standing
<1>3. Turn' = Turn \/ <<Turn, Turn'>> \in Attempt!Handovers
  <2>1. CASE run.parked \/ run.pr
    <3>1. Turn = "nobody"
      BY <2>1, TurnIs
    <3>2. OneKindOfFault' /\ (run'.parked \/ run'.pr)
      BY <2>1 DEF Steady, Calm, OneKindOfFault
    <3>3. Turn' = "nobody"
      BY <3>2, TurnIsNext
    <3> QED BY <3>1, <3>3
  <2>2. CASE ~(run.parked \/ run.pr)
    <3>1. Turn = Holder(w) /\ Turn' = Holder(w)'
      BY <1>2, <2>2 DEF Steady
    <3>2. Holder(w)' = Holder(w) \/ <<Holder(w), Holder(w)'>> \in Attempt!Handovers
      BY <1>2, <2>2
    <3> QED BY <3>1, <3>2
  <2> QED BY <2>1, <2>2
<1> QED BY <1>1, <1>3 DEF Step, Attempt!Next, Attempt!HandOn, Attempt!vars
-----------------------------------------------------------------------------
(* The steps that leave all but the turn.                                  *)
LEMMA EngineStep ==
  ASSUME Turned, OneKindOfFault,
         \/ \E r, e : <<r, e>> \in RuleOn /\ Fire(r, e)
         \/ \E f \in firing : AddMark(f) \/ SpawnLoop(f) \/ PublishDispatch(f)
  PROVE  Step
<1>0. Shape
  BY DEF Turned
<1>1. CASE \E r, e : <<r, e>> \in RuleOn /\ Fire(r, e)
  <2>1. PICK r, e : <<r, e>> \in RuleOn /\ Fire(r, e)
    BY <1>1
  <2>2. Steady
    BY <1>0, <2>1, CalmUse DEF Fire, Steady
  <2> QED BY <1>0, <2>1, <2>2, FireTurn, SteadyStep
<1>2. CASE \E f \in firing : AddMark(f) \/ SpawnLoop(f) \/ PublishDispatch(f)
  <2>1. PICK f \in firing : AddMark(f) \/ SpawnLoop(f) \/ PublishDispatch(f)
    BY <1>2
  <2>2. Steady
    BY <1>0, <2>1, FiringSteady
  <2>3. ASSUME NEW w \in Worlds, Relay(w), Turning(w), ~run.parked PROVE Holder(w)' = Holder(w)
    BY <1>0, <2>1, <2>3, MarkTurn, SpawnTurn, PublishTurn
  <2> QED BY <2>2, <2>3, SteadyStep
<1> QED BY <1>1, <1>2

LEMMA ToolStep ==
  ASSUME Turned, OneKindOfFault, NEW l \in Loops, NEW b \in BOOLEAN,
         MirrorVerdict(l) \/ SubmitReview(l, b) \/ EndLoop(l, b)
  PROVE  Step
<1>0. Shape
  BY DEF Turned
<1>1. Steady
  BY <1>0, ToolSteady
<1>2. ASSUME NEW w \in Worlds, Relay(w), Turning(w)
      PROVE  Holder(w)' = Holder(w) \/ <<Holder(w), Holder(w)'>> \in Attempt!Handovers
  <2>1. CASE MirrorVerdict(l)
    <3>1. Holder(w) = "reviewer" /\ Holder(w)' \in {"reviewer", "verify", "developer", "human"}
      BY <1>0, <1>2, <2>1, MirrorTurning
    <3> QED BY <3>1 DEF Attempt!Handovers
  <2>2. CASE SubmitReview(l, b)
    BY <1>0, <1>2, <2>2, SubmitTurning
  <2>3. CASE EndLoop(l, b)
    <3>1. \/ Holder(w)' = Holder(w)
          \/ Holder(w) = "developer" /\ Holder(w)' = "floors"
          \/ Holder(w) = "reviewer" /\ Holder(w)' = "human"
      BY <1>0, <1>2, <2>3, TurningParts, EndTurn
    <3> QED BY <3>1 DEF Attempt!Handovers
  <2> QED BY <2>1, <2>2, <2>3
<1> QED BY <1>1, <1>2, SteadyStep

LEMMA StationStep ==
  ASSUME Turned, OneKindOfFault, NEW s \in Stations,
         \/ Take(s) \/ StampDispatchFailed(s)
         \/ \E b \in BOOLEAN : RunFloors(b)
         \/ \E o \in {"pass", "fail"} : StampVerify(o)
  PROVE  Step
<1>0. Shape
  BY DEF Turned
<1>1. Steady
  BY <1>0, StationSteady
<1>2. ASSUME NEW w \in Worlds, Relay(w), Turning(w)
      PROVE  Holder(w)' = Holder(w) \/ <<Holder(w), Holder(w)'>> \in Attempt!Handovers
  <2>1. CASE Take(s)
    BY <1>0, <1>2, <2>1, TakeTurning
  <2>2. CASE StampDispatchFailed(s)
    <3>1. Holder(w) = s /\ Holder(w)' = "human"
      BY <1>0, <1>2, <2>2, StampFailedTurning
    <3> QED BY <3>1 DEF Attempt!Handovers, Stations
  <2>3. CASE \E b \in BOOLEAN : RunFloors(b)
    <3>1. Holder(w) = "floors" /\ Holder(w)' \in {"floors", "reviewer", "developer", "human"}
      BY <1>0, <1>2, <2>3, FloorsTurning
    <3> QED BY <3>1 DEF Attempt!Handovers
  <2>4. CASE \E o \in {"pass", "fail"} : StampVerify(o)
    <3>1. Holder(w) = "verify" /\ Holder(w)' \in {"human", "delivery"}
      BY <1>0, <1>2, <2>4, DecideTurning
    <3> QED BY <3>1 DEF Attempt!Handovers
  <2> QED BY <2>1, <2>2, <2>3, <2>4
<1> QED BY <1>1, <1>2, SteadyStep

(* The steps that do more.                                                 *)
LEMMA LedgerStep ==
  ASSUME Turned, OneKindOfFault, NEW f \in firing, AddToRun(f)
  PROVE  Step
<1>0. /\ Shape /\ Typed /\ run \in RunFacts
  BY ShapeParts, TypeParts DEF Turned
<1>1. /\ Calm /\ UNCHANGED <<head, forge>>
  BY <1>0, CalmUse DEF AddToRun
<1>2. run'.pr = run.pr /\ (run.parked => run'.parked)
  BY <1>0 DEF AddToRun, RunFacts
<1>3. OneKindOfFault' /\ Mishaps' = Mishaps
  BY <1>1 DEF Calm, OneKindOfFault, Mishaps
<1>4. CASE run'.parked = run.parked
  <2>1. Steady
    BY <1>1, <1>2, <1>4 DEF Steady
  <2>2. ASSUME NEW w \in Worlds, Relay(w), ~run.parked PROVE Holder(w)' = Holder(w)
    BY <1>0, <1>4, <2>2, LedgerTurn
  <2> QED BY <2>1, <2>2, SteadyStep
<1>5. CASE run'.parked # run.parked
  <2>1. ~run.parked /\ run'.parked
    BY <1>0, <1>2, <1>5 DEF AddToRun, RunFacts
  <2>2. PICK w \in Worlds : Relay(w) /\ (~run.parked /\ ~run.pr => Turn = Holder(w))
    BY Standing
  <2>3. Holder(w) = "human"
    BY <1>0, <2>1, <2>2, LedgerTurn
  <2>4. ~run.pr
    <3>1. ASSUME run.pr PROVE FALSE
      <4>1. Nobody(w)
        BY <2>2, <3>1, RelayParts DEF Baton
      <4> QED BY <2>3, <4>1, HolderNone
    <3> QED BY <3>1
  <2>5. Turn = "human" /\ Turn' = "nobody"
    BY <1>3, <2>1, <2>2, <2>3, <2>4, TurnIsNext
  <2>6. Outcome = "open" /\ Outcome' = "parked"
    BY <2>1, <2>4, Outcomes
  <2> QED BY <1>1, <1>3, <2>5, <2>6 DEF Step, Attempt!Next, Attempt!Park
<1> QED BY <1>4, <1>5

LEMMA PatchStep ==
  ASSUME Turned, OneKindOfFault, NEW l \in Loops, Patching(l)
  PROVE  Step
<1>0. /\ Shape /\ Typed /\ LoopShape(l) /\ run \in RunFacts
  BY ShapeParts, TypeParts DEF Turned
<1>1. /\ forge' = forge /\ SameRun /\ l \in Live
      /\ head' \in {head, head + 1}
  <2>1. head' \in {head, head + 1}
    BY DEF Patching, ApplyPatch, RecordCommit, RecordMeasurement, Measure
  <2> QED BY <1>0, <2>1, PatchingEffect DEF Live
<1>2. Calm
  <2>1. used' = used \/ Error \/ used' = [used EXCEPT !.errors = @ + 1, !.unrecorded = @ + 1]
    BY DEF Patching, ApplyPatch, RecordCommit, RecordMeasurement, Measure
  <2> QED BY <1>0, <2>1, CalmUse
<1>3. UNCHANGED <<run.parked, run.pr>>
  BY <1>1 DEF SameRun
<1>4. OneKindOfFault' /\ Mishaps' = Mishaps /\ Outcome' = Outcome
  BY <1>2, <1>3, Outcomes DEF Calm, OneKindOfFault, Mishaps
<1>5. PICK w \in Worlds : /\ Relay(w) /\ Turning(w)
                          /\ ~run.parked /\ ~run.pr => Turn = Holder(w)
                          /\ ~run'.parked /\ ~run'.pr => Turn' = Holder(w)'
  BY <1>2, Standing
<1>6. ~run.parked /\ ~run.pr
  BY <1>1, <1>5, RelayParts, LiveOnly
<1>7. Turn = "developer" /\ Turn' = "developer"
  BY <1>0, <1>3, <1>5, <1>6, PatchTurning
<1> QED BY <1>1, <1>4, <1>7 DEF Step, Attempt!Next, Attempt!Commit, Attempt!vars

LEMMA DeliverStep ==
  ASSUME Turned, OneKindOfFault, StampPR
  PROVE  Step
<1>0. /\ Shape /\ Typed /\ run \in RunFacts
  BY ShapeParts, TypeParts DEF Turned
<1>1. /\ UNCHANGED <<head, forge, used>> /\ run'.pr /\ run'.parked = run.parked
  BY <1>0 DEF StampPR, RunFacts
<1>2. OneKindOfFault' /\ Mishaps' = Mishaps
  BY <1>1 DEF OneKindOfFault, Mishaps
<1>3. PICK w \in Worlds : /\ Relay(w) /\ Turning(w)
                          /\ ~run.parked /\ ~run.pr => Turn = Holder(w)
  BY Standing
<1>4. ~run.pr /\ ~run.parked /\ Holder(w) = "delivery" /\ forge.prs = 1
  BY <1>0, <1>3, DeliverTurning
<1>5. Turn = "delivery" /\ Turn' = "nobody" /\ Outcome = "open" /\ Outcome' = "delivered"
  BY <1>1, <1>2, <1>3, <1>4, TurnIsNext, Outcomes
<1> QED BY <1>1, <1>2, <1>4, <1>5 DEF Step, Attempt!Next, Attempt!Deliver
-----------------------------------------------------------------------------
LEMMA HandlingStep ==
  ASSUME Turned, OneKindOfFault, NEW s \in Stations, Handling(s), ~DropDispatch(s)
  PROVE  Step
<1>0. /\ Shape /\ Typed /\ run \in RunFacts /\ job \in [Stations -> JobFacts]
      /\ forge \in [tip : Nat, prs : Nat]
  BY ShapeParts, TypeParts DEF Turned
<1>1. PICK w \in Worlds : /\ Relay(w) /\ Turning(w)
                          /\ ~run.parked /\ ~run.pr => Turn = Holder(w)
                          /\ Calm /\ ~run'.parked /\ ~run'.pr => Turn' = Holder(w)'
  BY Standing
<1>2. /\ ~run.pr /\ ~run.parked /\ Holder(w) = s
      /\ job'[s].pc # "idle" => Holder(w)' = s
  BY <1>0, <1>1, HandlingTurning
<1>3. UNCHANGED <<head, run.parked, run.pr>>
  BY <1>0, HandlingEffect
<1>4. Calm
  <2>1. used' = used \/ Error
    BY DEF Handling, HandleError, CloneForVerify, StampVerify, Push, OpenPR
  <2> QED BY <1>0, <2>1, CalmUse
<1>5. job'[s].pc # "idle"
  <2>1. CASE job' = Failing(s)
    BY <1>0, <2>1, JobEffects
  <2>2. CASE job' # Failing(s)
    <3>1. \E c \in {"cloned", "pushed", "opened"} : job'[s].pc = c
      BY <1>0, <1>2, <2>2 DEF Handling, HandleError, CloneForVerify, StampVerify, Push, OpenPR, JobFacts
    <3> QED BY <3>1
  <2> QED BY <2>1, <2>2
<1>6. Turn = s /\ Turn' = s
  BY <1>1, <1>2, <1>3, <1>4, <1>5
<1>7. OneKindOfFault' /\ Mishaps' = Mishaps /\ Outcome' = Outcome
  BY <1>3, <1>4, Outcomes DEF Calm, OneKindOfFault, Mishaps
<1>8. CASE forge' = forge
  BY <1>3, <1>6, <1>7, <1>8 DEF Step, Attempt!vars
<1>9. CASE forge' # forge
  <2>1. s = "delivery"
    BY <1>9 DEF Handling, HandleError, CloneForVerify, StampVerify
  <2>2. \/ forge'.tip # forge.tip /\ forge' = [forge EXCEPT !.tip = forge'.tip]
        \/ forge.prs = 0 /\ forge' = [forge EXCEPT !.prs = 1]
    BY <1>0, <1>9 DEF Handling, HandleError, CloneForVerify, StampVerify, Push, OpenPR
  <2> QED BY <1>3, <1>6, <1>7, <2>1, <2>2 DEF Step, Attempt!Next, Attempt!Publish
<1> QED BY <1>8, <1>9

(* A mishap that leaves one kind of fault loses the work at most, one that *)
(* makes two kinds is not the first.                                       *)
LEMMA MishapStep ==
  ASSUME Turned, OneKindOfFault, UNCHANGED <<head, forge, run>>, Mishaps' = Mishaps + 1,
         ~OneKindOfFault' => Mishaps > 0,
         OneKindOfFault' /\ ~run.parked /\ ~run.pr => Turn' \in {Turn, "nobody"}
  PROVE  Step
<1>1. Outcome' = Outcome
  BY Outcomes
<1>2. CASE ~OneKindOfFault'
  BY <1>1, <1>2, TurnIsNext DEF Step, Attempt!Next, Attempt!Mishap
<1>3. CASE OneKindOfFault'
  <2>1. Turn' \in {Turn, "nobody"}
    BY <1>3, TurnIsNext
  <2> QED BY <1>1, <2>1 DEF Step, Attempt!Next, Attempt!Mishap
<1> QED BY <1>2, <1>3

(* An action lost: RULE_STATE has told until now, or tells from now on.    *)
LEMMA LostUse ==
  ASSUME Shape, Counted, Lose
  PROVE  /\ used'.lost = used.lost + 1 /\ used'.restarts = used.restarts
         /\ used'.forgot = used.forgot /\ Mishaps' = Mishaps + 1
         /\ used'.lost # 0 /\ Mishaps \in Nat
         /\ ~OneKindOfFault' => Mishaps > 0
<1>1. used \in Usage /\ used.lost \in Nat /\ used.restarts \in Nat /\ used.forgot \in Nat
  BY UsedFacts
<1>2. /\ used'.lost = used.lost + 1 /\ used'.restarts = used.restarts
      /\ used'.forgot = used.forgot
  BY <1>1 DEF Lose, Usage
<1>3. Mishaps' = Mishaps + 1 /\ used'.lost # 0 /\ Mishaps \in Nat
  BY <1>1, <1>2 DEF Mishaps
<1>4. ~OneKindOfFault' => Mishaps > 0
  BY <1>1, <1>2 DEF Counted, OneKindOfFault, Mishaps
<1> QED BY <1>2, <1>3, <1>4

LEMMA LoseStep ==
  ASSUME Turned, OneKindOfFault, NEW f \in firing, LoseAction(f)
  PROVE  Step
<1>0. Shape /\ Counted /\ Lose /\ UNCHANGED <<head, forge, run>>
  BY DEF Turned, LoseAction
<1>1. /\ used'.forgot = used.forgot /\ used'.lost # 0 /\ Mishaps' = Mishaps + 1
      /\ ~OneKindOfFault' => Mishaps > 0
  BY <1>0, LostUse
<1>2. ASSUME OneKindOfFault', ~run.parked, ~run.pr PROVE Turn' \in {Turn, "nobody"}
  <2>1. World("remembered") /\ "remembered" \in Worlds
    BY <1>1, <1>2 DEF OneKindOfFault, World, Worlds
  <2>2. Relay("remembered") /\ Turning("remembered")
    BY <2>1 DEF Turned, BatonInv, TurnInv
  <2>3. Turn' = Holder("remembered")'
    BY <1>0, <1>1, <1>2, TurnIsNext
  <2>4. CASE used.lost = 0
    <3>1. World("marked") /\ "marked" \in Worlds
      BY <2>4 DEF World, Worlds
    <3>2. Relay("marked") /\ GaveUp("marked")
      BY <3>1, TurningParts DEF Turned, BatonInv, TurnInv
    <3>3. Holder("remembered")' \in {Holder("marked"), "nobody"}
      BY <1>0, <1>2, <2>2, <3>2, SwitchTurn
    <3> QED BY <1>2, <2>3, <2>4, <3>3, TurnIs
  <2>5. CASE used.lost # 0
    <3>1. Holder("remembered")' \in {Holder("remembered"), "nobody"}
      BY <1>0, <2>2, LoseTurning
    <3> QED BY <1>2, <2>3, <2>5, <3>1, TurnIs
  <2> QED BY <2>4, <2>5
<1> QED BY <1>0, <1>1, <1>2, MishapStep

LEMMA DropStep ==
  ASSUME Turned, OneKindOfFault, NEW s \in Stations, DropDispatch(s)
  PROVE  Step
<1>0. /\ Shape /\ Counted /\ Lose /\ UNCHANGED <<head, forge, run>>
      /\ job' = [job EXCEPT ![s] = NoJob] /\ job \in [Stations -> JobFacts]
  BY ShapeParts, TypeParts DEF Turned, DropDispatch
<1>1. /\ used'.forgot = used.forgot /\ used'.lost # 0 /\ Mishaps' = Mishaps + 1
      /\ ~OneKindOfFault' => Mishaps > 0
  BY <1>0, LostUse
<1>2. ASSUME OneKindOfFault', ~run.parked, ~run.pr PROVE Turn' = "nobody"
  <2>1. World("remembered") /\ "remembered" \in Worlds
    BY <1>1, <1>2 DEF OneKindOfFault, World, Worlds
  <2>2. Relay("remembered") /\ Turning("remembered")
    BY <2>1 DEF Turned, BatonInv, TurnInv
  <2>3. job'[s].pc = "idle"
    BY <1>0 DEF NoJob
  <2>4. Handling(s)
    BY DEF Handling
  <2>5. Holder("remembered")' = "nobody"
    BY <1>0, <2>1, <2>2, <2>3, <2>4, HandlingTurning
  <2> QED BY <1>0, <1>1, <1>2, <2>5, TurnIsNext
<1> QED BY <1>0, <1>1, <1>2, MishapStep

LEMMA RestartUse ==
  ASSUME Shape, Restart
  PROVE  /\ used'.lost = used.lost /\ used'.restarts = used.restarts + 1
         /\ used'.forgot \in {used.forgot, used.forgot + 1} /\ Mishaps' = Mishaps + 1
<1>1. used \in Usage /\ used.lost \in Nat /\ used.restarts \in Nat /\ used.forgot \in Nat
  BY UsedFacts
<1>2. /\ used'.lost = used.lost /\ used'.restarts = used.restarts + 1
      /\ used'.forgot \in {used.forgot, used.forgot + 1}
  BY <1>1 DEF Restart, Usage
<1> QED BY <1>1, <1>2 DEF Mishaps

LEMMA RestartStep ==
  ASSUME Turned, OneKindOfFault, Restart
  PROVE  Step
<1>0. Shape /\ UNCHANGED <<head, forge, run>>
  BY DEF Turned, Restart
<1>1. /\ used'.lost = used.lost /\ Mishaps' = Mishaps + 1
      /\ used.lost \in Nat /\ used.restarts \in Nat
  BY <1>0, RestartUse, UsedFacts
<1>2. ~OneKindOfFault' => Mishaps > 0
  BY <1>1 DEF OneKindOfFault, Mishaps
<1>3. ASSUME OneKindOfFault', ~run.parked, ~run.pr PROVE Turn' \in {Turn, "nobody"}
  <2>1. PICK w \in Worlds : w = "marked" <=> used.lost = 0
    BY DEF Worlds
  <2>2. World(w)'
    BY <1>1, <1>3, <2>1 DEF World, OneKindOfFault, Worlds
  <2>3. World(w)
    BY <1>0, <2>2, WorldStep DEF Next
  <2>4. Relay(w) /\ Turning(w)
    BY <2>3 DEF Turned, BatonInv, TurnInv
  <2>5. Holder(w)' \in {Holder(w), "nobody"}
    BY <1>0, <2>2, <2>4, RestartTurning
  <2>6. Turn = Holder(w)
    BY <1>3, <2>1, TurnIs DEF Worlds
  <2>7. Turn' = Holder(w)'
    BY <1>0, <1>1, <1>3, <2>1, TurnIsNext DEF Worlds
  <2> QED BY <2>5, <2>6, <2>7
<1> QED BY <1>0, <1>1, <1>2, <1>3, MishapStep
-----------------------------------------------------------------------------
(* What a step does to the mishaps.                                        *)
LEMMA CalmStep ==
  ASSUME Shape, Next
  PROVE  \/ Calm
         \/ (\E f \in firing : LoseAction(f)) \/ (\E s \in Stations : DropDispatch(s))
         \/ Restart
<1>0. Typed /\ \A l \in Loops : LoopShape(l)
  BY ShapeParts
<1>1. ASSUME \/ used' = used \/ Error
             \/ used' = [used EXCEPT !.errors = @ + 1, !.unrecorded = @ + 1]
      PROVE  Calm
  BY <1>1, CalmUse
<1>2. CASE \E r, e : <<r, e>> \in RuleOn /\ Fire(r, e)
  BY <1>1, <1>2 DEF Fire
<1>3. CASE \E f \in firing : \/ AddMark(f) \/ AddToRun(f) \/ SpawnLoop(f)
                             \/ PublishDispatch(f) \/ LoseAction(f)
  BY <1>1, <1>3 DEF AddMark, AddToRun, SpawnLoop, PublishDispatch
<1>4. CASE \E l \in Loops : Patching(l) \/ MirrorVerdict(l)
  BY <1>1, <1>4 DEF Patching, ApplyPatch, RecordCommit, RecordMeasurement, Measure, MirrorVerdict
<1>5. CASE \E l \in Loops : \E b \in BOOLEAN : SubmitReview(l, b) \/ EndLoop(l, b)
  BY <1>1, <1>5 DEF SubmitReview, EndLoop
<1>6. CASE \E s \in Stations : Take(s) \/ StampDispatchFailed(s)
  BY <1>1, <1>6 DEF Take, StampDispatchFailed
<1>7. CASE \E s \in Stations : Handling(s)
  BY <1>1, <1>7 DEF Handling, HandleError, CloneForVerify, StampVerify, Push, OpenPR
<1>8. CASE (\E b \in BOOLEAN : RunFloors(b)) \/ (\E o \in {"pass", "fail"} : StampVerify(o)) \/ StampPR
  BY <1>1, <1>8 DEF RunFloors, StampVerify, StampPR
<1> QED BY <1>2, <1>3, <1>4, <1>5, <1>6, <1>7, <1>8, Moves

LEMMA StepCounted ==
  ASSUME Shape, Counted, [Next]_vars
  PROVE  Counted' /\ used.restarts <= used'.restarts
<1>0. used.lost \in Nat /\ used.restarts \in Nat /\ used.forgot \in Nat
  BY UsedFacts
<1>1. CASE UNCHANGED vars
  BY <1>0, <1>1 DEF vars, Counted
<1>2. CASE Calm
  BY <1>0, <1>2 DEF Calm, Counted
<1>3. CASE (\E f \in firing : LoseAction(f)) \/ (\E s \in Stations : DropDispatch(s))
  <2>1. Lose
    BY <1>3 DEF LoseAction, DropDispatch
  <2>2. used'.restarts = used.restarts /\ used'.forgot = used.forgot
    BY <2>1, LostUse
  <2> QED BY <1>0, <2>2 DEF Counted
<1>4. CASE Restart
  <2>1. used'.restarts = used.restarts + 1 /\ used'.forgot \in {used.forgot, used.forgot + 1}
    BY <1>4, RestartUse
  <2> QED BY <1>0, <2>1 DEF Counted
<1> QED BY <1>1, <1>2, <1>3, <1>4, CalmStep

(* Once two kinds of fault have happened nothing is promised.              *)
LEMMA ChaosStep ==
  ASSUME Turned, ~OneKindOfFault, Next
  PROVE  Step
<1>1. Shape /\ Counted /\ used.lost \in Nat /\ used.restarts \in Nat /\ used.forgot \in Nat
  BY UsedFacts DEF Turned
<1>2. Mishaps > 1
  BY <1>1 DEF OneKindOfFault, Counted, Mishaps
<1>3. ~OneKindOfFault'
  <2>1. used.lost <= used'.lost /\ used.forgot <= used'.forgot
    BY <1>1, UsedGrows
  <2>2. used.lost > 0 /\ used.forgot > 0
    BY <1>1 DEF OneKindOfFault
  <2>3. used'.lost # 0 /\ used'.forgot # 0
    BY <1>1, <2>1, <2>2
  <2> QED BY <2>3 DEF OneKindOfFault
<1>4. Turn = "anybody" /\ Turn' = "anybody"
  BY <1>3, TurnIs, TurnIsNext
<1> QED BY <1>2, <1>4 DEF Step, Attempt!Next, Attempt!Chaos

LEMMA StillStep ==
  ASSUME UNCHANGED vars
  PROVE  Step
<1>1. UNCHANGED <<head, forge, run, loop, firing, matched, queue, job, used>>
  BY DEF vars
<1>2. Outcome' = Outcome /\ Mishaps' = Mishaps
  BY <1>1, Outcomes DEF Mishaps
<1>3. ASSUME NEW w, NEW k \in Kinds PROVE Places(w, k)' = Places(w, k)
  <2>1. ASSUME NEW x PROVE x \in Places(w, k)' <=> x \in Places(w, k)
    <3>1. \A i \in {"live", "carrier", "queue", "job"} : x \in Places(w, i)' <=> x \in Places(w, i)
      BY <1>1, At, AtNext DEF Live, Carries
    <3>2. /\ TriggerAt(w, x)' <=> TriggerAt(w, x)
          /\ RouteAt(w, x)' <=> RouteAt(w, x)
          /\ ReviewAt(w, x)' <=> ReviewAt(w, x)
          /\ FailedAt(w, x)' <=> FailedAt(w, x)
      BY <1>1 DEF TriggerAt, Dispatch, FloorsTrigger, RouteAt, ReviewAt, FailedAt,
                  StationFailedLoop, Open, Has
    <3>3. (VerdictAt(w)' <=> VerdictAt(w)) /\ (FailedRunAt(w)' <=> FailedRunAt(w))
      BY <1>1 DEF VerdictAt, FailedRunAt, StationFailedRun, Open
    <3>4. \A i \in LoopKinds \cup RunKinds : x \in Places(w, i)' <=> x \in Places(w, i)
      BY <3>1, <3>2, <3>3, At, AtNext DEF LoopKinds, RunKinds
    <3> QED BY <3>1, <3>4 DEF Kinds, LoopKinds, RunKinds
  <2> QED BY <2>1
<1>4. ASSUME NEW w PROVE Holder(w)' = Holder(w)
  <2>1. ASSUME NEW p PROVE p \in Hands(w)' <=> p \in Hands(w)
    <3>1. \A k \in Kinds : {Party(k, x) : x \in Places(w, k)}' = {Party(k, x) : x \in Places(w, k)}
      BY <1>1, <1>3, SameParty
    <3> QED BY <3>1 DEF Hands
  <2>2. Hands(w)' = Hands(w)
    BY <2>1
  <2> QED BY <2>2 DEF Holder
<1>5. Turn' = Turn
  BY <1>1, <1>2, <1>4 DEF Turn, OneKindOfFault
<1> QED BY <1>1, <1>2, <1>5 DEF Step, Attempt!vars

LEMMA StepAttempt == Turned /\ [Next]_vars => Step
<1> SUFFICES ASSUME Turned, [Next]_vars PROVE Step
  OBVIOUS
<1>1. CASE UNCHANGED vars
  BY <1>1, StillStep
<1>2. CASE Next /\ ~OneKindOfFault
  BY <1>2, ChaosStep
<1>3. CASE Next /\ OneKindOfFault
  <2>1. CASE \E r, e : <<r, e>> \in RuleOn /\ Fire(r, e)
    BY <1>3, <2>1, EngineStep
  <2>2. CASE \E f \in firing : AddMark(f) \/ SpawnLoop(f) \/ PublishDispatch(f)
    BY <1>3, <2>2, EngineStep
  <2>3. CASE \E f \in firing : AddToRun(f) \/ LoseAction(f)
    BY <1>3, <2>3, LedgerStep, LoseStep
  <2>4. CASE \E l \in Loops : Patching(l) \/ MirrorVerdict(l)
    BY <1>3, <2>4, PatchStep, ToolStep
  <2>5. CASE \E l \in Loops : \E b \in BOOLEAN : SubmitReview(l, b) \/ EndLoop(l, b)
    BY <1>3, <2>5, ToolStep
  <2>6. CASE \E s \in Stations : Take(s) \/ StampDispatchFailed(s)
    BY <1>3, <2>6, StationStep
  <2>7. CASE \E s \in Stations : Handling(s)
    BY <1>3, <2>7, HandlingStep, DropStep
  <2>8. CASE (\E b \in BOOLEAN : RunFloors(b)) \/ \E o \in {"pass", "fail"} : StampVerify(o)
    <3>1. "floors" \in Stations
      BY DEF Stations
    <3> QED BY <1>3, <2>8, <3>1, StationStep
  <2>9. CASE StampPR \/ Restart
    BY <1>3, <2>9, DeliverStep, RestartStep
  <2> QED BY <1>3, <2>1, <2>2, <2>3, <2>4, <2>5, <2>6, <2>7, <2>8, <2>9, Moves
<1> QED BY <1>1, <1>2, <1>3

LEMMA InitAttempt == Init => Attempt!Init
<1> SUFFICES ASSUME Init PROVE Attempt!Init
  OBVIOUS
<1>1. /\ used.lost = 0 /\ used.restarts = 0 /\ ~run.parked /\ ~run.pr
      /\ head = 0 /\ forge = [tip |-> 0, prs |-> 0]
  BY DEF Init
<1>2. Outcome = "open" /\ Mishaps = 0 /\ OneKindOfFault
  BY <1>1, Outcomes DEF Mishaps, OneKindOfFault
<1>3. Turn = "developer"
  BY <1>1, <1>2, TurnIs, InitTurning DEF Worlds
<1> QED BY <1>1, <1>2, <1>3 DEF Attempt!Init

LEMMA TurnedAlways == Spec => []Turned
<1>1. Init => Turned
  <2> SUFFICES ASSUME Init PROVE Turned
    OBVIOUS
  <2>1. Counted
    BY DEF Init, Counted
  <2>2. \A w \in Worlds : BatonInv(w) /\ TurnInv(w)
    BY InitRelay, InitTurning DEF BatonInv, TurnInv
  <2> QED BY <2>1, <2>2, InitShape DEF Turned
<1>2. Turned /\ [Next]_vars => Turned'
  <2> SUFFICES ASSUME Turned, [Next]_vars PROVE Turned'
    OBVIOUS
  <2>1. Shape /\ Counted /\ \A w \in Worlds : BatonInv(w) /\ TurnInv(w)
    BY DEF Turned
  <2>2. Shape' /\ Counted'
    BY <2>1, StepShape, StepCounted
  <2>3. ASSUME NEW w \in Worlds PROVE BatonInv(w)' /\ TurnInv(w)'
    BY <2>1, StepRelay, StepTurning
  <2> QED BY <2>2, <2>3 DEF Turned, Worlds
<1> QED BY <1>1, <1>2, PTL DEF Spec

(* The rules, dispatches, handlers and tools of the loop, with every fault *)
(* the model has, do no more than the plain sequence of turns: the work is *)
(* in one pair of hands, it is handed on by the table alone, and a run     *)
(* ends delivered by delivery or parked by a firing that gives it up.      *)
THEOREM WorkIsHandedOnHolds == Spec => WorkIsHandedOn
<1>1. Init /\ [][Next]_vars /\ []Turned => Attempt!Spec
  BY InitAttempt, StepAttempt, PTL DEF Attempt!Spec, Step
<1> QED BY <1>1, TurnedAlways, PTL DEF Spec, WorkIsHandedOn
=============================================================================
