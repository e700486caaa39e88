-------------------------------- MODULE Floors --------------------------------
(***************************************************************************)
(* The structural floors: what a developer's attempt must show before it   *)
(* is reviewed.                                                            *)
(*                                                                         *)
(* The attempt is the declared target files as they stand in the run's     *)
(* checkout: production source, a test file with one test function, and a  *)
(* test file of helpers.  apply_patch commits what it writes; the test     *)
(* run that follows may rewrite files behind the commit.  Of a function's  *)
(* body the floors tell apart whether it fails at most on a constant       *)
(* condition, or on a computed value, or skips, and which helpers it hands *)
(* its *testing.T to.                                                      *)
(***************************************************************************)
EXTENDS FiniteSets, SequencesExt

CONSTANTS Rewritable   \* target files a test run may rewrite

Targets == {"source", "test", "helpers"}
Helpers == {"check", "must"}
Authored == Helpers \cup {"TestIt"}

Bodies(kinds, callees) == [own : kinds, hands : SUBSET callees]
Contents == [source  |-> [is : {"absent", "broken", "stub", "whole"}],
             test    |-> [is : {"absent", "broken"}] \cup
               [is : {"whole"}, body : Bodies({"dead", "live", "skips"}, Helpers),
                double : {"none"}] \cup
               [is : {"whole"}, body : Bodies({"live"}, {}), double : {"alone"}],
             helpers |-> [is : {"absent", "broken"}] \cup
               [is : {"whole"}, check : Bodies({"dead", "live"}, {"must"}),
                must : Bodies({"dead", "live"}, {"check"})]]

VARIABLES
  tree,    \* the target files in the working tree
  commit,  \* the target files as committed
  verdict  \* of the floors on the tree as it is: "none" until they run
floorVars == <<tree, commit, verdict>>

Nothing == [f \in Targets |-> [is |-> "absent"]]
FloorInit == tree = Nothing /\ commit = Nothing /\ verdict = "none"

(* One file of a patch: the tree is reset to the commit, the file written  *)
(* and committed.                                                          *)
Patch ==
  /\ \E f \in Targets : \E c \in Contents[f] : commit' = [commit EXCEPT ![f] = c]
  /\ tree' = commit' /\ verdict' = "none"

(* A test run rewrites a target in the working tree; of several rewrites   *)
(* the last is taken.                                                      *)
Rewrite ==
  /\ tree = commit
  /\ \E f \in Rewritable : \E c \in Contents[f] : tree' = [tree EXCEPT ![f] = c]
  /\ verdict' = "none" /\ UNCHANGED commit

-----------------------------------------------------------------------------
(* The floors, on an attempt: the files present and the dirty paths.       *)
Present(a) == {f \in Targets : a.files[f].is # "absent"}
Parsed(a)  == {f \in Present(a) : a.files[f].is # "broken"}

PresenceOfWork(a) == Present(a) # {}

TestsMustExist(a) == "source" \in Present(a) => "test" \in Parsed(a)

(* buildFuncIndex: the authored functions, by name.                        *)
Index(a) == (IF "test" \in Parsed(a) THEN {"TestIt"} ELSE {}) \cup
            (IF "helpers" \in Parsed(a) THEN Helpers ELSE {})
Body(a, g) == IF g = "TestIt" THEN a.files["test"].body ELSE a.files["helpers"][g]

(* deadFailCalls, hasComputedArg: a failing call or an assertion counts    *)
(* only on a computed value.                                               *)
OwnAssertionAny(body) == body.own # "skips"
OwnAssertion(body)    == body.own = "live"

(* funcAsserts: depth-first through the helpers handed t, each visited     *)
(* once in the whole search.                                               *)
RECURSIVE FuncAsserts(_, _, _)
FuncAsserts(a, g, visited) ==
  IF g \notin Index(a) \ visited THEN [asserts |-> FALSE, visited |-> visited]
  ELSE FoldLeft(LAMBDA r, h : LET s == FuncAsserts(a, h, r.visited)
                              IN  [s EXCEPT !.asserts = @ \/ r.asserts],
                [asserts |-> OwnAssertion(Body(a, g)), visited |-> visited \cup {g}],
                SetToSeq(Body(a, g).hands))

VacuousTest(a) ==
  "test" \in Parsed(a) =>
    Body(a, "TestIt").own = "skips" \/ FuncAsserts(a, "TestIt", {}).asserts

StubArtifact(a) == "source" \in Parsed(a) => a.files["source"].is # "stub"

SourceBuild(a) == Parsed(a) = Present(a)

(* A double is "alone" in a test that names no target symbol; the symbols  *)
(* are those of the production targets that parse.                         *)
AntiMock(a) ==
  {"source", "test"} \subseteq Parsed(a) => a.files["test"].double # "alone"

CleanTree(a) == a.dirty = {}

CheckAll(a) ==
  /\ PresenceOfWork(a) /\ TestsMustExist(a) /\ VacuousTest(a) /\ StubArtifact(a)
  /\ SourceBuild(a) /\ AntiMock(a) /\ CleanTree(a)

(* Attempts.Resolve: the contents from the working tree, then git status.  *)
Resolve == [files |-> tree, dirty |-> {f \in Targets : tree[f] # commit[f]}]

RunFloors ==
  /\ verdict = "none"
  /\ verdict' = IF CheckAll(Resolve) THEN "accepted" ELSE "rejected"
  /\ UNCHANGED <<tree, commit>>

FloorNext == Patch \/ Rewrite \/ RunFloors
FloorSpec == FloorInit /\ [][FloorNext]_floorVars

-----------------------------------------------------------------------------
(* The tree holds file contents, and a verdict is one of three.            *)
TypeOK ==
  /\ \A f \in Targets : tree[f] \in Contents[f] /\ commit[f] \in Contents[f]
  /\ verdict \in {"none", "accepted", "rejected"}

(* A test can fail when no set of functions closed under handing on t and  *)
(* holding the test is without a failing call on a computed value.         *)
CanFail(a, g) ==
  \A R \in SUBSET Index(a) :
    g \in R /\ (\A h \in R : Body(a, h).hands \cap Index(a) \subseteq R) =>
      \E h \in R : Body(a, h).own = "live"

(* Production source is accepted only with a committed test beside it that *)
(* parses and either skips or can really fail, through whatever chain of   *)
(* helpers; seven floors each judge a part of this, and each of them       *)
(* passes what it cannot parse or does not find (CheckAll).                *)
GreenIsTested ==
  verdict = "accepted" =>
    LET a == [files |-> commit, dirty |-> {}]
    IN  /\ Present(a) # {}
        /\ "source" \in Present(a) => "test" \in Parsed(a)
        /\ "test" \in Present(a) =>
             /\ "test" \in Parsed(a)
             /\ Body(a, "TestIt").own = "skips" \/ CanFail(a, "TestIt")
=============================================================================
