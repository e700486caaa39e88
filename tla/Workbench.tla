------------------------------ MODULE Workbench ------------------------------
(***************************************************************************)
(* Where a run's code is built and measured: its checkout, the warm        *)
(* container its developer loops measure in, and the throwaway containers  *)
(* of the cold proofs, over a docker daemon that may refuse, answer into   *)
(* the void or lose a container at any moment.                             *)
(*                                                                         *)
(* Three workers share one run: the provision station (materialise, prove  *)
(* the baseline cold, stand the warm container up, stamp readiness), the   *)
(* verify station (clone, prove cold, stamp the verdict) and measure_task  *)
(* (one command in the warm container).  A station's handler is retried,   *)
(* so all of them may run again, and a re-provision may replace the warm   *)
(* container while a measurement runs in it.  Runs do not share state.     *)
(***************************************************************************)
EXTENDS Naturals, FiniteSets, FiniteSetsExt

CONSTANTS
  CacheHomes,    \* cache-home variables the manifest declares
  MaxBoxes,      \* bound: containers docker holds at once, leaked ones included
  MaxProvisions, \* bound: provision handler attempts
  MaxProofs,     \* bound: verify handler attempts
  MaxMeasures,   \* bound: measure_task calls
  MaxFaults      \* bound: docker, git and graph faults, and restarts

ASSUME WorkbenchAssumption ==
  /\ IsFiniteSet(CacheHomes) /\ CacheHomes # {} /\ MaxBoxes \in Nat \ {0}
  /\ {MaxProvisions, MaxProofs, MaxMeasures, MaxFaults} \subseteq Nat

Boxes   == 1..MaxBoxes
NoBox   == 0
Workers == {"provision", "verify", "measure"}
None    == "none"

VARIABLES
  box,      \* docker: each container's state
  volumes,  \* docker: the cache volumes that exist, by container and home
  dirs,     \* the host's checkout directories
  roots,    \* Checkouts: the recorded warm checkout and verify clone, 0 if none
  warm,     \* Sandboxes.warm: the recorded container
  hand,     \* per worker: what its current call holds
  benchFacts, \* sandbox.ready, the verify verdict, the measurement, on the run
  orphans,  \* history: containers whose removal failed or whose start was lost
  calls     \* what the bounds have been spent on

benchVars == <<box, volumes, dirs, roots, warm, hand, benchFacts, orphans, calls>>

Idle == [pc |-> "idle", goal |-> None, dir |-> 0, box |-> NoBox, made |-> {},
         prior |-> NoBox, exit |-> None, exits |-> {}, ev |-> None]
NoVerdict == [outcome |-> None, exits |-> {}]

BenchInit ==
  /\ box = [b \in Boxes |-> "absent"]
  /\ volumes = {} /\ dirs = {} /\ warm = NoBox /\ orphans = {}
  /\ roots = [checkout |-> 0, verify |-> 0]
  /\ hand = [w \in Workers |-> Idle]
  /\ benchFacts = [ready |-> FALSE, verdict |-> NoVerdict, measured |-> NoVerdict]
  /\ calls = [provision |-> 0, verify |-> 0, measure |-> 0, fault |-> 0]

Call(w) == calls' = [calls EXCEPT ![w] = @ + 1]
Charge  == calls.fault < MaxFaults /\ calls' = [calls EXCEPT !.fault = @ + 1]
Uncharged == UNCHANGED calls

(* The first container name and directory nobody uses.                     *)
VolumesOf(b) == {b} \X CacheHomes
FreeBox == {b \in Boxes : /\ box[b] = "absent" /\ volumes \cap VolumesOf(b) = {}
                          /\ \A w \in Workers : hand[w].box # b /\ hand[w].prior # b}
NewDir  == Min((1..(MaxBoxes + 2)) \ dirs)

Goes(w, pc) == hand' = [hand EXCEPT ![w].pc = pc]
Drop(w)     == hand' = [hand EXCEPT ![w] = Idle]

-----------------------------------------------------------------------------
(* Starting a call.                                                        *)

(* Provision: a run already stamped ready is left alone, unless the read   *)
(* of that fact fails; otherwise the source is copied into a new directory *)
(* that replaces the recorded one only once it is whole.                   *)
Materialize(d) ==
  /\ roots' = [roots EXCEPT !.checkout = d]
  /\ dirs' = (dirs \cup {d}) \ {roots.checkout}

Provision ==
  /\ hand["provision"].pc = "idle" /\ calls.provision < MaxProvisions
  /\ \/ ~benchFacts.ready /\ Call("provision")
     \/ /\ benchFacts.ready /\ calls.fault < MaxFaults
        /\ calls' = [calls EXCEPT !.provision = @ + 1, !.fault = @ + 1]
  /\ LET d == NewDir
     IN  /\ Materialize(d)
         /\ hand' = [hand EXCEPT !["provision"] =
              [Idle EXCEPT !.pc = "begin", !.goal = "baseline", !.dir = d]]
  /\ UNCHANGED <<box, volumes, warm, benchFacts, orphans>>

(* RunVerify: the committed checkout is cloned outside the lock; a clone   *)
(* whose source was removed meanwhile fails, and records nothing.          *)
CloneForVerify ==
  /\ hand["verify"].pc = "idle" /\ calls.verify < MaxProofs /\ benchFacts.ready
  /\ Call("verify")
  /\ \/ /\ roots.checkout # 0
        /\ hand' = [hand EXCEPT !["verify"] =
             [Idle EXCEPT !.pc = "clone", !.goal = "verify", !.dir = roots.checkout]]
     \/ roots.checkout = 0 /\ UNCHANGED hand
  /\ UNCHANGED <<box, volumes, dirs, roots, warm, benchFacts, orphans>>

Clone ==
  /\ hand["verify"].pc = "clone"
  /\ IF hand["verify"].dir \in dirs
     THEN LET d == NewDir
          IN  /\ dirs' = (dirs \cup {d}) \ {roots.verify}
              /\ roots' = [roots EXCEPT !.verify = d]
              /\ hand' = [hand EXCEPT !["verify"].pc = "begin", !["verify"].dir = d]
     ELSE Drop("verify") /\ UNCHANGED <<dirs, roots>>
  /\ UNCHANGED <<box, volumes, warm, benchFacts, orphans, calls>>

(* ProveBaseline and ProveArtifact before any container: a missing run     *)
(* field, an unreadable tree, a secret without a value or an image that    *)
(* does not build is an error; a smuggled download in the artifact is a    *)
(* definitive fail.                                                        *)
BeginBox(w) ==
  /\ hand[w].pc = "begin"
  /\ \/ \E b \in FreeBox :
          /\ b = Min(FreeBox)
          /\ hand' = [hand EXCEPT ![w].pc = "volumes", ![w].box = b]
          /\ UNCHANGED <<benchFacts, calls>>
     \/ Charge /\ Drop(w) /\ UNCHANGED benchFacts
     \/ /\ hand[w].goal = "verify" /\ Uncharged /\ Drop(w)
        /\ benchFacts' = [benchFacts EXCEPT !.verdict =
                       [outcome |-> "fail", exits |-> {<<"scan", "nonzero">>}]]
  /\ UNCHANGED <<box, volumes, dirs, roots, warm, orphans>>

-----------------------------------------------------------------------------
(* ContainerRunner.Up: one fresh volume per cache home, then docker run.   *)

CreateVolume(w) ==
  /\ hand[w].pc = "volumes"
  /\ LET v == <<hand[w].box, CHOOSE h \in CacheHomes : <<hand[w].box, h>> \notin hand[w].made>>
     IN  /\ hand[w].made # VolumesOf(hand[w].box)
         /\ \/ /\ volumes' = volumes \cup {v}
               /\ hand' = [hand EXCEPT ![w].made = @ \cup {v}]
               /\ Uncharged
            \/ /\ Charge /\ Goes(w, "rollback")
               /\ \/ UNCHANGED volumes              \* refused
                  \/ volumes' = volumes \cup {v}    \* created, the answer lost
  /\ UNCHANGED <<box, dirs, roots, warm, benchFacts, orphans>>

(* docker run -d creates the container, then starts it.  It fails outright *)
(* on a missing bind source, after creating when the start fails, and it   *)
(* may succeed without the client hearing of it.                           *)
RunDetached(w) ==
  /\ hand[w].pc = "volumes" /\ hand[w].made = VolumesOf(hand[w].box)
  /\ LET b == hand[w].box
         become(s) == box' = [box EXCEPT ![b] = s]
     IN  \/ /\ hand[w].dir \in dirs /\ become("running") /\ Uncharged /\ Goes(w, "up")
            /\ UNCHANGED orphans
         \/ /\ hand[w].dir \notin dirs \/ calls.fault < MaxFaults
            /\ IF hand[w].dir \in dirs THEN Charge ELSE Uncharged
            /\ Goes(w, "rollback") /\ UNCHANGED <<box, orphans>>
         \/ /\ hand[w].dir \in dirs /\ Charge /\ Goes(w, "rollback")
            /\ \E s \in {"created", "running"} : become(s)
            /\ orphans' = orphans \cup {b}
  /\ UNCHANGED <<volumes, dirs, roots, warm, benchFacts>>

(* The rollback removes the volumes Up knows of; docker keeps one that a   *)
(* container, started or not, refers to.                                   *)
Removable(b, vs) == IF box[b] = "absent" THEN vs ELSE {}
(* What the caller makes of a failed Up: a provision blocks, a proof is a  *)
(* retry (Gather's transport evidence).                                    *)
Decide(ev) ==
  CASE ev = "fault"                     -> "retry"
    [] ev \in {"unresolved", "red"} -> "fail"
    [] OTHER                            -> "pass"

Judged(w, ev) ==
  IF hand[w].goal = "verify"
  THEN benchFacts' = [benchFacts EXCEPT
                        !.verdict = [outcome |-> Decide(ev), exits |-> hand[w].exits]]
  ELSE UNCHANGED benchFacts

Rollback(w) ==
  /\ hand[w].pc = "rollback"
  /\ \/ volumes' = volumes \ Removable(hand[w].box, hand[w].made) /\ Uncharged
     \/ hand[w].made # {} /\ Charge /\ UNCHANGED volumes
  /\ Judged(w, "fault")
  /\ Drop(w)
  /\ UNCHANGED <<box, dirs, roots, warm, orphans>>

-----------------------------------------------------------------------------
(* Exec: a command in a container, and what the runner makes of its end.   *)

(* The cold proof runs the resolve command, then the build or the tests;   *)
(* measure_task resolves the warm container, failing closed without one,   *)
(* and runs the task's test command in it.                                 *)
Measure ==
  /\ hand["measure"].pc = "idle" /\ calls.measure < MaxMeasures /\ benchFacts.ready
  /\ Call("measure")
  /\ hand' = IF warm = NoBox THEN hand
             ELSE [hand EXCEPT !["measure"] =
                     [Idle EXCEPT !.pc = "measuring", !.goal = "measure", !.box = warm]]
  /\ UNCHANGED <<box, volumes, dirs, roots, warm, benchFacts, orphans>>

ColdStep(w) ==
  /\ hand[w].pc = "up" /\ hand[w].goal \in {"baseline", "verify"}
  /\ Goes(w, "resolving")
  /\ UNCHANGED <<box, volumes, dirs, roots, warm, benchFacts, orphans, calls>>

(* The command ends by itself, or with the container it ran in.            *)
CommandEnds(w) ==
  /\ hand[w].pc \in {"resolving", "proving", "measuring"} /\ hand[w].exit = None
  /\ \E e \in IF box[hand[w].box] = "running" THEN {"zero", "nonzero"} ELSE {"killed"} :
       hand' = [hand EXCEPT ![w].exit = e, ![w].exits = @ \cup {<<hand[w].pc, e>>}]
  /\ UNCHANGED <<box, volumes, dirs, roots, warm, benchFacts, orphans, calls>>

(* Exit zero is always the command's; another exit is, if the container is *)
(* still alive when asked.                                                 *)
AnswerByExit(w) == IF hand[w].exit = "zero" THEN "ok" ELSE "red"
Answer(w) ==
  CASE hand[w].exit = "zero"            -> "ok"
    [] hand[w].exit # "zero" /\ box[hand[w].box] = "running" -> "red"
    [] OTHER                            -> "fault"

(* The step's deadline, or a docker phrasing in the command's own output,  *)
(* turns any failing answer into a fault.                                  *)
Answers(w, a) == \/ a = Answer(w) /\ Uncharged
                 \/ a = "fault" /\ Answer(w) = "red" /\ Charge

MeasureEnds ==
  /\ hand["measure"].pc = "measuring" /\ hand["measure"].exit # None
  /\ \E a \in {"ok", "red", "fault"} :
       /\ Answers("measure", a)
       /\ benchFacts' = [benchFacts EXCEPT !.measured =
                      [outcome |-> a, exits |-> hand["measure"].exits]]
  /\ Drop("measure")
  /\ UNCHANGED <<box, volumes, dirs, roots, warm, orphans>>

(* gatherRaw: a failing resolve is the artifact's unless its output names  *)
(* a network fault (ClassifyResolve); a failing proof is always its own.   *)
ResolveEnds(w) ==
  /\ hand[w].pc = "resolving" /\ hand[w].exit # None
  /\ \/ /\ Answers(w, "ok")
        /\ hand' = [hand EXCEPT ![w].pc = "proving", ![w].exit = None]
     \/ \E ev \in {"unresolved", "fault"} :
          /\ Answers(w, IF ev = "unresolved" THEN "red" ELSE "fault")
          /\ hand' = [hand EXCEPT ![w].pc = "down", ![w].ev = ev]
  /\ UNCHANGED <<box, volumes, dirs, roots, warm, benchFacts, orphans>>

ProveEnds(w) ==
  /\ hand[w].pc = "proving" /\ hand[w].exit # None
  /\ \E ev \in {"green", "red", "fault"} :
       /\ Answers(w, IF ev = "green" THEN "ok" ELSE ev)
       /\ hand' = [hand EXCEPT ![w].pc = "down", ![w].ev = ev]
  /\ UNCHANGED <<box, volumes, dirs, roots, warm, benchFacts, orphans>>

-----------------------------------------------------------------------------
(* ContainerRunner.Down: best effort, the container and then its volumes.  *)
Removes(b) ==
  \/ /\ box' = [box EXCEPT ![b] = "absent"]
     /\ volumes' = volumes \ VolumesOf(b)
     /\ UNCHANGED <<orphans, calls>>
  \/ /\ Charge /\ orphans' = orphans \cup {b}
     /\ UNCHANGED <<box, volumes>>

(* The cold proof's deferred Down; then the baseline's outcome decides     *)
(* whether the warm container is stood up, the artifact's is stamped.      *)
ColdDown(w) ==
  /\ hand[w].pc = "down"
  /\ Removes(hand[w].box)
  /\ Judged(w, hand[w].ev)
  /\ hand' = IF hand[w].goal = "baseline" /\ Decide(hand[w].ev) = "pass"
             THEN [hand EXCEPT ![w] = [Idle EXCEPT !.pc = "begin", !.goal = "warm",
                                                   !.dir = hand[w].dir]]
             ELSE [hand EXCEPT ![w] = Idle]
  /\ UNCHANGED <<dirs, roots, warm>>

(* Sandboxes.Provision: recorded under the lock, the one it replaces torn  *)
(* down outside it.                                                        *)
ReplacedForgotten(prior) == NoBox
Replaced(prior) == prior

Record ==
  /\ hand["provision"].pc = "up" /\ hand["provision"].goal = "warm"
  /\ hand' = [hand EXCEPT !["provision"].pc = "recorded", !["provision"].prior = Replaced(warm)]
  /\ warm' = hand["provision"].box
  /\ UNCHANGED <<box, volumes, dirs, roots, benchFacts, orphans, calls>>

DownPrior ==
  /\ hand["provision"].pc = "recorded"
  /\ IF hand["provision"].prior = NoBox THEN UNCHANGED <<box, volumes, orphans, calls>>
     ELSE Removes(hand["provision"].prior)
  /\ hand' = [hand EXCEPT !["provision"].pc = "ready", !["provision"].prior = NoBox]
  /\ UNCHANGED <<dirs, roots, warm, benchFacts>>

(* The readiness stamp lands, or fails, or lands with its answer lost: the *)
(* handler is then retried.                                                *)
Ready ==
  /\ hand["provision"].pc = "ready"
  /\ \/ Uncharged /\ benchFacts' = [benchFacts EXCEPT !.ready = TRUE]
     \/ Charge /\ UNCHANGED benchFacts
  /\ Drop("provision")
  /\ UNCHANGED <<box, volumes, dirs, roots, warm, orphans>>

-----------------------------------------------------------------------------
(* A container dies (out of memory, killed, the daemon restarted).         *)
Die(b) ==
  /\ box[b] = "running" /\ Charge
  /\ box' = [box EXCEPT ![b] = "dead"]
  /\ UNCHANGED <<volumes, dirs, roots, warm, hand, benchFacts, orphans>>

(* CloseAll on Stop forgets and removes what is recorded; a handler that   *)
(* StopAll could not stop may still be at work and record afterwards.      *)
CloseAll ==
  /\ warm # NoBox /\ Charge
  /\ \/ /\ box' = [box EXCEPT ![warm] = "absent"]
        /\ volumes' = volumes \ VolumesOf(warm)
        /\ UNCHANGED orphans
     \/ orphans' = orphans \cup {warm} /\ UNCHANGED <<box, volumes>>
  /\ warm' = NoBox
  /\ UNCHANGED <<dirs, roots, hand, benchFacts>>

(* The process ends: both registries and every call in hand are memory.    *)
Exit ==
  /\ Charge
  /\ orphans' = orphans \cup {b \in Boxes : box[b] # "absent"}
  /\ warm' = NoBox /\ roots' = [checkout |-> 0, verify |-> 0]
  /\ hand' = [w \in Workers |-> Idle]
  /\ UNCHANGED <<box, volumes, dirs, benchFacts>>

BenchNext ==
  \/ Provision \/ CloneForVerify \/ Clone \/ Measure \/ MeasureEnds
  \/ Record \/ DownPrior \/ Ready \/ CloseAll \/ Exit
  \/ \E w \in Workers : \/ BeginBox(w) \/ CreateVolume(w) \/ RunDetached(w) \/ Rollback(w)
                        \/ ColdStep(w) \/ CommandEnds(w) \/ ResolveEnds(w)
                        \/ ProveEnds(w) \/ ColdDown(w)
  \/ \E b \in Boxes : Die(b)

BenchSpec == BenchInit /\ [][BenchNext]_benchVars

-----------------------------------------------------------------------------
(* The state stays within its types.                                       *)
BenchTypeOK ==
  /\ box \in [Boxes -> {"absent", "created", "running", "dead"}]
  /\ volumes \subseteq Boxes \X CacheHomes
  /\ roots.checkout \in dirs \cup {0} /\ roots.verify \in dirs \cup {0}
  /\ warm \in Boxes \cup {NoBox} /\ orphans \subseteq Boxes
  /\ \A w \in Workers : hand[w].box \in Boxes \cup {NoBox}
  /\ benchFacts.ready \in BOOLEAN

(* A verdict on the run is the doing of the commands it claims to judge: a *)
(* red measurement or a failed proof never comes from a container that was *)
(* killed or replaced under the command, and a pass never without both     *)
(* commands having exited zero (Exec's liveness check, gatherRaw, Decide). *)
VerdictIsTheCommands ==
  /\ benchFacts.measured.outcome = "ok" => <<"measuring", "zero">> \in benchFacts.measured.exits
  /\ benchFacts.measured.outcome = "red" => <<"measuring", "nonzero">> \in benchFacts.measured.exits
  /\ benchFacts.verdict.outcome = "pass" =>
       {<<"resolving", "zero">>, <<"proving", "zero">>} \subseteq benchFacts.verdict.exits
  /\ benchFacts.verdict.outcome = "fail" =>
       {<<"scan", "nonzero">>, <<"resolving", "nonzero">>, <<"proving", "nonzero">>}
         \cap benchFacts.verdict.exits # {}

(* A run accumulates no containers: one that runs is the recorded warm     *)
(* container or in a worker's hand, unless docker failed to remove it, its *)
(* start was reported as a failure, or the process ended under it          *)
(* (Sandboxes.Provision tears the one it replaces down).                   *)
NothingAccumulates ==
  \A b \in Boxes : box[b] = "running" =>
    \/ b \in orphans \cup {warm}
    \/ \E w \in {"provision", "verify"} : b \in {hand[w].box, hand[w].prior}
=============================================================================
