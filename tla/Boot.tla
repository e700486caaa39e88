-------------------------------- MODULE Boot --------------------------------
(***************************************************************************)
(* Bringing the process up and down.                                       *)
(*                                                                         *)
(* A boot loads the configuration and swaps in the experiment's rule pack, *)
(* connects, wires every registry and component and seeds the personas,    *)
(* each step releasing on failure what the earlier ones opened; a stop     *)
(* releases everything although one release fails or hangs.  The personas  *)
(* bucket outlives the process.                                            *)
(***************************************************************************)
EXTENDS Naturals, FiniteSets

CONSTANTS
  Packs,    \* the rules the bootstrap lists, by name
  MaxBoots  \* bound: boots in a row, on the same persistent bucket

ASSUME BootAssumption == MaxBoots \in Nat

(* A rule file: the baseline X.json or its variant X-semsource.json.       *)
Variant(b)  == <<b, "semsource">>
Baseline(b) == <<b, "baseline">>
RuleFiles == Packs \X {"baseline", "semsource"}

Settings ==
  [source : {"fixture", "forge", "both", "neither", "forge without url"},
   condition : {"", "baseline", "semsource", "unknown"}, endpoint : BOOLEAN,
   listed : SUBSET RuleFiles, onDisk : SUBSET Packs,
   fragments : {"old", "new", "missing"}]

VARIABLES
  settings,
  step,     \* where the boot, or the stop, is
  rules,    \* the rule files handed to the rule component
  bucket,   \* the persona fragments in their bucket
  open,     \* what is open: connection, configuration manager, services, sandboxes
  wedged,   \* whether StopAll was abandoned
  boots

bootVars == <<settings, step, rules, bucket, open, wedged, boots>>

Resources == {"nats", "manager", "services", "sandboxes"}

(* What an operator may hand to a boot: every source and condition, and    *)
(* the packs that differ in what is listed and lies on disk.               *)
BootInit ==
  /\ settings \in {s \in Settings :
       \/ s.source = "fixture" /\ s.endpoint /\ s.condition # "unknown"
       \/ s.listed = {Baseline(b) : b \in Packs} /\ s.onDisk = Packs /\ s.fragments = "new"}
  /\ bucket \in {"none", "old"} /\ step = "down" /\ rules = {} /\ open = {}
  /\ wedged = FALSE /\ boots = 0

BootTo(s) == step' = s
Kept == UNCHANGED <<settings, boots>>

(* An error tail closes what the steps before it opened.                   *)
BootFails == BootTo("failed") /\ open' = {}

Launch ==
  /\ step \in {"down", "failed"} /\ boots < MaxBoots /\ boots' = boots + 1
  /\ BootTo("load") /\ rules' = {} /\ open' = {} /\ wedged' = FALSE
  /\ UNCHANGED <<settings, bucket>>

-----------------------------------------------------------------------------
(* loadRuntimeConfig, with experiment.LoadConfig and the variant pack.     *)

Semsource == settings.condition = "semsource"
Swap(f) == IF f[1] \in settings.onDisk /\ Semsource THEN Variant(f[1]) ELSE f

ConfigHolds == /\ settings.condition # "unknown" /\ (Semsource => settings.endpoint)
               /\ settings.listed \cap {Variant(b) : b \in Packs} = {}
               /\ (Semsource => \E f \in settings.listed : Swap(f) # f)

Load ==
  /\ step = "load"
  /\ IF ConfigHolds THEN BootTo("connect") /\ rules' = {Swap(f) : f \in settings.listed}
     ELSE BootTo("failed") /\ UNCHANGED rules
  /\ Kept /\ UNCHANGED <<bucket, open, wedged>>

(* connectRuntimeNATS: a connection that is not confirmed in time is an    *)
(* error, and nobody closes it.                                            *)
Connect(answer) ==
  /\ step = "connect"
  /\ BootTo(IF answer = "confirmed" THEN "streams" ELSE "unconnected")
  /\ open' = IF answer = "refused" THEN open ELSE open \cup {"nats"}
  /\ Kept /\ UNCHANGED <<rules, bucket, wedged>>

(* EnsureStreams, then the configuration manager.                          *)
EnsureStreams(ok) ==
  /\ step = "streams" /\ Kept /\ UNCHANGED <<rules, bucket, wedged>>
  /\ IF ok THEN BootTo("manager") /\ UNCHANGED open ELSE BootFails

StartManager(ok) ==
  /\ step = "manager" /\ Kept /\ UNCHANGED <<rules, bucket, wedged>>
  /\ IF ok THEN BootTo("wire") /\ open' = open \cup {"manager"} ELSE BootFails

(* wireServices: exactly one source at most, every writer of the           *)
(* vocabulary, component, tool and service registered.                     *)
SourceHolds == settings.source \in {"fixture", "forge", "neither"}

Wire(ok) ==
  /\ step = "wire" /\ Kept /\ UNCHANGED <<rules, bucket, wedged>>
  /\ IF ok /\ SourceHolds THEN BootTo("personas") /\ UNCHANGED open ELSE BootFails

(* seedPersonas: the loader tolerates a missing tree; the boot compares    *)
(* what the bucket holds with what this boot meant to seed.                *)
Seeded(taken) == IF taken /\ settings.fragments # "missing" THEN settings.fragments ELSE bucket
SeedHolds(b) == settings.fragments # "missing" /\ b = settings.fragments

SeedPersonas(taken) ==
  /\ step = "personas" /\ Kept /\ UNCHANGED <<rules, wedged>>
  /\ bucket' = Seeded(taken)
  /\ IF SeedHolds(bucket') THEN BootTo("wired") /\ UNCHANGED open ELSE BootFails

-----------------------------------------------------------------------------
(* Run: start, serve, stop.                                                *)

Start(ok) ==
  /\ step = "wired" /\ open' = open \cup {"services"} /\ Kept /\ UNCHANGED <<rules, bucket, wedged>>
  /\ BootTo(IF ok THEN "up" ELSE "stop services")

Serve ==
  /\ step = "up" /\ open' = open \cup {"sandboxes"}
  /\ Kept /\ UNCHANGED <<step, rules, bucket, wedged>>

Interrupt ==
  /\ step = "up" /\ BootTo("stop services")
  /\ Kept /\ UNCHANGED <<rules, bucket, open, wedged>>

(* StopAll is abandoned when it does not return.                           *)
AfterWedgeReturn == "down"
AfterWedge == "reap"

StopServices(returns) ==
  /\ step = "stop services" /\ Kept /\ UNCHANGED <<rules, bucket>>
  /\ open' = IF returns THEN open \ {"services"} ELSE open
  /\ wedged' = ~returns
  /\ BootTo(IF returns THEN "reap" ELSE AfterWedge)

(* Sandboxes, manager, connection: each is released whatever became of     *)
(* the others.                                                             *)
Release ==
  /\ step = "reap" /\ BootTo("down") /\ open' = open \cap {"services"}
  /\ Kept /\ UNCHANGED <<rules, bucket, wedged>>

BootNext ==
  \/ Launch \/ Load \/ Serve \/ Interrupt \/ Release
  \/ \E a \in {"confirmed", "refused", "unconfirmed"} : Connect(a)
  \/ \E ok \in BOOLEAN : \/ EnsureStreams(ok) \/ StartManager(ok) \/ Wire(ok)
                         \/ SeedPersonas(ok) \/ Start(ok) \/ StopServices(ok)

BootSpec == BootInit /\ [][BootNext]_bootVars

-----------------------------------------------------------------------------
(* Properties.                                                             *)

BootTypeOK ==
  /\ settings \in Settings /\ rules \subseteq RuleFiles /\ open \subseteq Resources
  /\ step \in {"down", "load", "connect", "streams", "manager", "wire", "personas", "wired", "up",
               "stop services", "reap", "failed", "unconnected"}
  /\ bucket \in {"none", "old", "new"} /\ wedged \in BOOLEAN /\ boots \in 0..MaxBoots

(* A process that serves routes on the personas its own tree holds, not on *)
(* those of an earlier boot, and on one pack: no rule beside its variant,  *)
(* variants exactly under the condition that is stamped on the runs.  A    *)
(* boot that failed and a process that stopped hold nothing, the services  *)
(* of a wedged StopAll aside.                                              *)
ServesWhatItLoaded ==
  /\ step = "up" => /\ bucket = settings.fragments
                    /\ \A b \in Packs : ~({Baseline(b), Variant(b)} \subseteq rules)
                    /\ Semsource <=> \E b \in Packs : Variant(b) \in rules
  /\ step = "failed" => open = {}
  /\ step = "down" => open \subseteq (IF wedged THEN {"services"} ELSE {})
=============================================================================
