------------------------------ MODULE TaskSpecs -------------------------------
(***************************************************************************)
(* From what create_change is given to the frozen task.spec: the payload's *)
(* sections become the change's tasks, with a rich record under the flat   *)
(* index each took; the document is stored as one scalar; the projector    *)
(* joins records and tasks again by walking the sections, checks the       *)
(* schema of each, and freezes one task.                                   *)
(*                                                                         *)
(* A list is missing, empty or not: JSON keeps the three apart.  A budget  *)
(* is the empty set when missing.                                          *)
(***************************************************************************)
EXTENDS Integers, FiniteSets, SequencesExt

CONSTANTS
  Budgets,     \* what an author may ask for: sets of at most one number
  MaxSections, \* bound: sections of a payload
  MaxItems     \* bound: tasks of a section

ASSUME TaskSpecsAssumption ==
  /\ Budgets \subseteq SUBSET Int /\ MaxSections \in Nat /\ MaxItems \in Nat

VARIABLES
  payload,   \* the arguments of create_change: sections of tasks
  document,  \* openspec.change.document: thin texts and rich records
  spec,      \* task.spec
  stage      \* how far the change has come
specVars == <<payload, document, spec, stage>>

Lists == {"missing", "empty", "some"}
Tasks == [goal : {"blank", "said"}, assumptions : Lists, non_goals : Lists,
          target_files : SUBSET {"blank", "code", "test"},
          test_command : {"blank", "go test", "other"}, budget : Budgets]
Whole == [goal |-> "said", assumptions |-> "some", non_goals |-> "some",
          target_files |-> {"code", "test"}, test_command |-> "go test", budget |-> {3}]

SpecInit ==
  /\ payload = <<>> /\ document = [sections |-> <<>>, rich |-> <<>>]
  /\ spec = Whole /\ stage = "none"

(* An author's call: any task, alone or after whole ones.                  *)
Supply ==
  /\ stage = "none" /\ stage' = "called"
  /\ \E t \in Tasks : \E shape \in SeqOf(0..MaxItems, MaxSections) :
       payload' = [s \in DOMAIN shape |->
                    [i \in 1..shape[s] |-> IF i = shape[s] THEN t ELSE Whole]]
  /\ UNCHANGED <<document, spec>>

(* MarshalDocument: RichTask has no omitempty, so empty is not missing.    *)
StoredOmittingEmpty(list) == IF list = "empty" THEN "missing" ELSE list
Stored(list)              == list

(* toChange and toRichTasks, one walk over the sections.                   *)
CreateChange ==
  /\ stage = "called" /\ stage' = "authored"
  /\ LET flat == FlattenSeq(payload)
     IN  document' =
           [sections |-> [s \in DOMAIN payload |-> [i \in DOMAIN payload[s] |-> payload[s][i].goal]],
            rich |-> [i \in DOMAIN flat |->
              [index |-> i - 1,
               task |-> [flat[i] EXCEPT !.assumptions = Stored(@), !.non_goals = Stored(@)]]]]
  /\ UNCHANGED <<payload, spec>>

(* rawTasksFromDocument: the goal is the thin text at the same index.      *)
RawTasks ==
  LET texts == FlattenSeq(document.sections)
  IN  [i \in DOMAIN document.rich |->
        [document.rich[i].task EXCEPT !.goal = texts[document.rich[i].index + 1]]]

(* schemaGaps: nothing required is missing.                                *)
Gapless(t) ==
  /\ t.goal # "blank" /\ t.assumptions # "missing" /\ t.non_goals # "missing"
  /\ t.target_files \ {"blank"} # {} /\ t.test_command # "blank" /\ t.budget # {}

ClampBudget(n) == IF n < 1 THEN 1 ELSE IF n > 5 THEN 5 ELSE n

(* testFileContractViolations: a go test needs a test file it may write.   *)
TestIsWritable(t) == t.test_command = "go test" => "test" \in t.target_files

(* A gap in any task, a test out of reach, or more or less than one task   *)
(* refuses the whole projection.                                           *)
Project ==
  /\ stage = "authored"
  /\ LET raw == RawTasks
     IN  IF Len(raw) = 1 /\ \A i \in DOMAIN raw : Gapless(raw[i]) /\ TestIsWritable(raw[i])
         THEN /\ spec' = [raw[1] EXCEPT !.budget = {ClampBudget(n) : n \in @}]
              /\ stage' = "frozen"
         ELSE stage' = "refused" /\ UNCHANGED spec
  /\ UNCHANGED <<payload, document>>

SpecNext == Supply \/ CreateChange \/ Project
TaskSpec == SpecInit /\ [][SpecNext]_specVars

-----------------------------------------------------------------------------
(* A payload is the author's tasks and whole ones, the document no larger. *)
TasksTypeOK ==
  /\ stage \in {"none", "called", "authored", "frozen", "refused"}
  /\ \A s \in DOMAIN payload : \A i \in DOMAIN payload[s] : payload[s][i] \in Tasks \cup {Whole}
  /\ Len(document.sections) <= MaxSections
  /\ Len(document.rich) <= MaxSections * MaxItems

(* A frozen task is what the author supplied, its budget brought into      *)
(* [1,5], and a change is refused exactly when something was left out: no  *)
(* step on the way loses or confuses a field, an empty list stays an       *)
(* answer, and one of several tasks never stands for all (Project).        *)
FrozenAsAuthored ==
  LET authored == FlattenSeq(payload)
      t == authored[1]
      complete == /\ Len(authored) = 1
                  /\ "missing" \notin {t.assumptions, t.non_goals}
                  /\ "blank" \notin {t.goal, t.test_command}
                  /\ t.budget # {}
                  /\ t.target_files \cap {"code", "test"} # {}
                  /\ t.test_command = "go test" => "test" \in t.target_files
  IN  /\ stage \in {"frozen", "refused"} => (stage = "frozen" <=> complete)
      /\ stage = "frozen" =>
           /\ [spec EXCEPT !.budget = t.budget] = t
           /\ spec.budget \subseteq 1..5 /\ (t.budget \subseteq 1..5 => spec.budget = t.budget)
=============================================================================
