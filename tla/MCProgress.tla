------------------------------ MODULE MCProgress ------------------------------
(***************************************************************************)
(* What must eventually happen, under the fairness of each component: the  *)
(* classifier lane reopens, a command on the thread is heard.  A behaviour *)
(* picks one component and stays with it, as in MCServices.                *)
(***************************************************************************)
EXTENDS Integers, Sequences, FiniteSets

CONSTANTS m1, m2, m3, l1, NoMsg

VARIABLES
  part,
  phase, decision, anchored, slot, marker, attempted, budgetNoted, intent, classified,
  bridge, spawn, budget, loop, seen, used,
  transport, clock, runs, thread, cursor, tick, lane, resolved, answered, outages

(* Three comments, one older than the gate, and no failed action; with a   *)
(* budget of one no second loop is ever born.                              *)
Lane == INSTANCE ClassifierLane WITH
  Messages <- {m1, m2, m3}, Permitted <- {m1, m2, m3}, Fresh <- {m1, m2}, Loops <- {l1},
  Budget <- 1, MaxRepeats <- 1, MaxFaults <- 0, MaxLosses <- 0

(* Two runs of one issue, a comment, two failed calls or restarts.         *)
Poll == INSTANCE Poller WITH
  IssueRuns <- {1, 2}, Skew <- 1, MaxComments <- 1, MaxTime <- 2, MaxDeliver <- 3, MaxOutages <- 2

laneVars == <<phase, decision, anchored, slot, marker, attempted, budgetNoted, intent, classified,
              bridge, spawn, budget, loop, seen, used>>
pollVars == <<transport, clock, runs, thread, cursor, tick, lane, resolved, answered, outages>>
all      == <<part, laneVars, pollVars>>

-----------------------------------------------------------------------------
Init ==
  /\ part \in {"lane", "poll"}
  /\ Lane!Init
  /\ Poll!PollInit /\ (part # "poll" => transport = "poll")

OnLane(A) == part = "lane" /\ A
OnPoll(A) == part = "poll" /\ A

Next ==
  \/ OnLane(Lane!Next)     /\ UNCHANGED <<part, pollVars>>
  \/ OnPoll(Poll!PollNext) /\ UNCHANGED <<part, laneVars>>

(* The fairness of ClassifierLane and Poller, each in its own behaviours;  *)
(* the reasons are given there.                                            *)
LaneFairness ==
  /\ WF_laneVars(OnLane(Lane!AnchorGatedRun)) /\ WF_laneVars(OnLane(Lane!SpawnNext))
  /\ WF_laneVars(OnLane(Lane!BudgetNext))
  /\ WF_laneVars(OnLane(Lane!ToolNext(l1)))    /\ SF_laneVars(OnLane(Lane!EndNext(l1)))
  /\ WF_laneVars(OnLane(Lane!ReleaseNext(l1))) /\ WF_laneVars(OnLane(Lane!FaultNote(l1)))

PollFairness ==
  /\ WF_pollVars(OnPoll(Poll!Polling))
  /\ \A c \in Poll!Comments : WF_pollVars(OnPoll(Poll!Work(c)))

FairSpec == Init /\ [][Next]_all /\ LaneFairness /\ PollFairness

-----------------------------------------------------------------------------
(* ClassifierLane: a marker is eventually released.                        *)
LaneReopens == Lane!LaneReopens

(* ClassifierLane: a pending message at an open gate is not left lying.    *)
PendingNeverStuck == Lane!PendingNeverStuck

(* Poller: a command for a gate is heard.                                  *)
GateIsHeard == Poll!GateIsHeard
=============================================================================
