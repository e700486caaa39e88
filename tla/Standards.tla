------------------------------ MODULE Standards ------------------------------
(***************************************************************************)
(* The standards a target repository declares, and the checks it gates on. *)
(*                                                                         *)
(* When a run is provisioned, the standards file of its checkout is        *)
(* captured for the run and synchronised into the lesson graph: a source   *)
(* entity for the file's content, a record per standard born and promoted, *)
(* and the repository's other records retired.  Every one of these is a    *)
(* graph write of its own that may fail, land unheard, or be cut off by a  *)
(* restart; the station then runs the whole handler again.  Later the      *)
(* floors station runs the checks of the captured file in the run's        *)
(* sandbox, which the developer's patches cannot reach.                    *)
(*                                                                         *)
(* A file's content is a law: the standards it declares and its required   *)
(* check, if any.  A record's identity includes the digest of repository   *)
(* and content, so each law has records of its own.                        *)
(***************************************************************************)
EXTENDS Naturals, FiniteSets

CONSTANTS
  Repos, Runs,
  RepoOf,        \* run.issue.ref: the repository each run works on
  Laws,          \* the contents that parse
  Declares,      \* the standards each law declares
  Gate,          \* its required check: "none", "plain", or "proven" by a control
  HandleTries,   \* maxHandleAttempts
  MaxPushes,     \* bound: commits that change a standards file
  MaxUpsets      \* bound: graph faults, restarts and manual retirements

ASSUME StandardsAssumption ==
  /\ Runs # {} /\ RepoOf \in [Runs -> Repos]
  /\ {"absent", "broken", "irregular", "unknown", "undone"} \cap Laws = {}
  /\ Gate \in [Laws -> {"none", "plain", "proven"}]
  /\ DOMAIN Declares = Laws
  /\ HandleTries \in Nat \ {0} /\ MaxPushes \in Nat /\ MaxUpsets \in Nat

NoFile == "absent"
Broken == "broken"        \* does not parse
Irregular == "irregular"  \* a symlink, not a regular file, outside the checkout, too large
Files  == Laws \cup {NoFile, Broken, Irregular}
Ids(l) == IF l \in Laws THEN Declares[l] ELSE {}
(* lessonIdentity: category, roles, text and the source the record cites.  *)
Records == UNION {{<<r, l, s>> : s \in Declares[l]} : r \in Repos, l \in Laws}

VARIABLES
  file,      \* the standards file at each repository's head
  sources,   \* source entities, by repository and law
  status,    \* agent.lesson.status per record
  sync,      \* the provision station's call
  snapshot,  \* Snapshots.m: the captured file per run
  run,       \* per run: its progress, and what its gate ran
  stands,    \* history: what the last finished synchronisation declared
  captured,  \* history: the file each run was provisioned under
  spent

lawVars == <<file, sources, status, sync, snapshot, run, stands, captured, spent>>

NoRun   == CHOOSE r \in Runs : TRUE
NoSync  == [on |-> NoRun, pc |-> "idle", law |-> NoFile, todo |-> {}, try |-> 0]
Unknown == "unknown"
Undone  == "undone"

LawInit ==
  /\ file \in [Repos -> Laws \cup {NoFile}]
  /\ sources = {} /\ status = [k \in Records |-> "none"]
  /\ sync = NoSync
  /\ snapshot = [r \in Runs |-> Unknown] /\ captured = [r \in Runs |-> Unknown]
  /\ run = [r \in Runs |-> [state |-> "new", under |-> Unknown, ran |-> {}]]
  /\ stands = [p \in Repos |-> Unknown]
  /\ spent = [pushes |-> 0, upsets |-> 0]

Live(p) == {k \in Records : k[1] = p /\ status[k] \in {"active", "proposed"}}
Declared(p, l) == {<<p, l, s>> : s \in Ids(l)}
Upset == spent.upsets < MaxUpsets /\ spent' = [spent EXCEPT !.upsets = @ + 1]

-----------------------------------------------------------------------------
(* The repository moves on; an operator retires a record by hand.          *)
Push(p) ==
  /\ spent.pushes < MaxPushes
  /\ spent' = [spent EXCEPT !.pushes = @ + 1]
  /\ \E f \in Files : file' = [file EXCEPT ![p] = f]
  /\ UNCHANGED <<sources, status, sync, snapshot, run, stands, captured>>

OperatorRetires(k) ==
  /\ status[k] = "active" /\ Upset
  /\ status' = [status EXCEPT ![k] = "retired"]
  /\ stands' = [stands EXCEPT ![k[1]] = Undone]
  /\ UNCHANGED <<file, sources, sync, snapshot, run, captured>>

-----------------------------------------------------------------------------
(* Provisioning: ProvisionSync.Sync on the new checkout's file.            *)

(* How a call ends: the run is blocked, or goes on; an error runs the      *)
(* handler again, from the current checkout, until its attempts are spent. *)
Ends(r, state) ==
  /\ run' = [run EXCEPT ![r].state = IF @ = "new" THEN state ELSE @]
  /\ sync' = NoSync
SyncFails == IF sync.try < HandleTries
         THEN sync' = [sync EXCEPT !.pc = "again"] /\ UNCHANGED run
         ELSE Ends(sync.on, "failed")

(* A run is provisioned once, and again when the read that should tell it  *)
(* is ready fails.                                                         *)
Take(r) ==
  /\ sync.pc = "idle"
  /\ \/ run[r].state = "new" /\ UNCHANGED spent
     \/ run[r].state = "ready" /\ Upset
  /\ sync' = [NoSync EXCEPT !.on = r, !.pc = "again"]
  /\ UNCHANGED <<file, sources, status, snapshot, run, stands, captured>>

(* A file that is not a regular one within its bound is not captured: what *)
(* an earlier call captured stays in force.  One that does not parse is    *)
(* captured, and then blocks.  Both are the repository's fault.            *)
Capture ==
  /\ sync.pc = "again"
  /\ LET r == sync.on
         p == RepoOf[r]
         f == file[p]
     IN  /\ IF f = Irregular THEN UNCHANGED <<snapshot, captured>>
            ELSE /\ snapshot' = [snapshot EXCEPT ![r] = f]
                 /\ captured' = [captured EXCEPT ![r] = f]
         /\ IF f \in {Broken, Irregular} THEN Ends(r, "blocked") /\ UNCHANGED stands
            ELSE /\ sync' = [sync EXCEPT !.pc = IF f = NoFile THEN "retire" ELSE "source",
                                         !.law = f, !.todo = Ids(f), !.try = @ + 1]
                 /\ stands' = [stands EXCEPT ![p] = Unknown]
                 /\ UNCHANGED run
  /\ UNCHANGED <<file, sources, status, spent>>

(* The repository of the run or its file cannot be read.                   *)
CannotRead ==
  /\ sync.pc = "again" /\ Upset
  /\ IF sync.try + 1 < HandleTries
     THEN sync' = [sync EXCEPT !.try = @ + 1] /\ UNCHANGED run
     ELSE Ends(sync.on, "failed")
  /\ UNCHANGED <<file, sources, status, snapshot, stands, captured>>

(* A strict create: a conflict is the entity being there already.          *)
Source ==
  /\ sync.pc = "source"
  /\ LET src == <<RepoOf[sync.on], sync.law>>
     IN  \/ /\ sources' = sources \cup {src}
            /\ sync' = [sync EXCEPT !.pc = "records"]
            /\ UNCHANGED <<run, spent>>
         \/ /\ Upset /\ SyncFails
            /\ \E landed \in BOOLEAN :
                 sources' = IF landed THEN sources \cup {src} ELSE sources
  /\ UNCHANGED <<file, status, snapshot, stands, captured>>

(* CreateLesson leaves an existing record as it is.                        *)
Born(k) == IF status[k] = "none" THEN [status EXCEPT ![k] = "proposed"] ELSE status
Birth ==
  /\ sync.pc = "records" /\ sync.todo # {}
  /\ \E s \in sync.todo :
       LET k == <<RepoOf[sync.on], sync.law, s>>
       IN  \/ /\ status' = Born(k)
              /\ sync' = [sync EXCEPT !.pc = "promote", !.todo = {s} \cup @]
              /\ UNCHANGED <<run, spent>>
           \/ /\ Upset /\ SyncFails
              /\ status' \in {status, Born(k)}
  /\ UNCHANGED <<file, sources, snapshot, stands, captured>>

(* An active record is left alone; a proposed one is activated and a       *)
(* retired one resurrected, unless the curator cannot resolve its source.  *)
Activated(k) == [status EXCEPT ![k] = "active"]
Promote ==
  /\ sync.pc = "promote"
  /\ \E s \in sync.todo :
       LET k == <<RepoOf[sync.on], sync.law, s>>
       IN  /\ status[k] # "none"
           /\ \/ /\ <<k[1], k[2]>> \in sources
                 /\ status' = Activated(k)
                 /\ sync' = [sync EXCEPT !.pc = "records", !.todo = @ \ {s}]
                 /\ UNCHANGED <<run, spent>>
              \/ /\ Upset /\ SyncFails
                 /\ status' \in {status, Activated(k)}
  /\ UNCHANGED <<file, sources, snapshot, stands, captured>>

(* retireRemoved: this repository's live records that are not declared; a  *)
(* record belongs to it if the source it cites names it.                   *)
Retirable == {k \in Records : status[k] \in {"active", "proposed"}}
CitesAny(k) == TRUE
Cites(k) == <<k[1], k[2]>> \in sources /\ k[1] = RepoOf[sync.on]
Removed ==
  {k \in Retirable : Cites(k) /\ k \notin Declared(RepoOf[sync.on], sync.law)}

Retire ==
  /\ sync.pc = "retire" \/ (sync.pc = "records" /\ sync.todo = {})
  /\ Removed # {}
  /\ \E k \in Removed :
       \/ /\ status' = [status EXCEPT ![k] = "retired"]
          /\ sync' = [sync EXCEPT !.pc = "retire"]
          /\ UNCHANGED <<run, spent>>
       \/ /\ Upset /\ SyncFails
          /\ status' \in {status, [status EXCEPT ![k] = "retired"]}
  /\ UNCHANGED <<file, sources, snapshot, stands, captured>>

(* The call returns, and the provisioning goes on to the sandbox.          *)
Synced ==
  /\ sync.pc = "retire" \/ (sync.pc = "records" /\ sync.todo = {})
  /\ Removed = {}
  /\ stands' = [stands EXCEPT ![RepoOf[sync.on]] = IF @ = Undone THEN @ ELSE sync.law]
  /\ Ends(sync.on, "ready")
  /\ UNCHANGED <<file, sources, status, snapshot, captured, spent>>

-----------------------------------------------------------------------------
(* The floors station's repository checks (Checks.Run, runOne).            *)

(* What the captured file asks for.  A run for which nothing was captured, *)
(* or a file that does not parse, leaves the lane unanswered, which is an  *)
(* error and not a file without checks.                                    *)
Lookup(r) == snapshot[r]
GateOfMalformed(l) == CASE l \in Laws -> Gate[l]
                        [] l = Unknown -> "unanswered"
                        [] OTHER -> "none"
GateOf(l) == CASE l \in Laws -> Gate[l]
               [] l = NoFile -> "none"
               [] OTHER -> "unanswered"

(* The control runs first: one that exits zero is an error, one that       *)
(* cannot run rejects, and in both cases the command is not run.  The      *)
(* command rejects unless it runs and exits zero.                          *)
Outcomes(asked) == IF asked THEN {"zero", "nonzero", "fault"} ELSE {"unasked"}
Finding(kind, control, command) ==
  IF kind = "unanswered" \/ control = "zero" THEN "error"
  ELSE IF control # "fault" /\ (kind = "none" \/ command = "zero") THEN "passed"
  ELSE "rejected"

(* A lane that has a check to run is unanswered too when the run's sandbox *)
(* cannot be resolved.                                                     *)
RunChecks(r) ==
  /\ run[r].state = "ready"
  /\ LET gate == GateOf(Lookup(r))
     IN  \E kind \in {gate} \cup (IF gate = "none" THEN {} ELSE {"unanswered"}) :
         \E control \in Outcomes(kind = "proven") :
         \E command \in Outcomes(kind = "plain" \/ control = "nonzero") :
           run' = [run EXCEPT ![r] =
                     [state |-> Finding(kind, control, command), under |-> captured[r],
                      ran   |-> {<<"control", control>>, <<"command", command>>}]]
  /\ UNCHANGED <<file, sources, status, sync, snapshot, stands, captured, spent>>

(* Another attempt of the developer, or of the station.                    *)
NextAttempt(r) ==
  /\ run[r].state \in {"rejected", "error"}
  /\ run' = [run EXCEPT ![r] = [state |-> "ready", under |-> Unknown, ran |-> {}]]
  /\ UNCHANGED <<file, sources, status, sync, snapshot, stands, captured, spent>>

(* A restart forgets the snapshots and the call; the dispatch is gone.     *)
RestartStation ==
  /\ Upset
  /\ snapshot' = [r \in Runs |-> Unknown]
  /\ IF sync.pc = "idle" THEN UNCHANGED <<sync, run>> ELSE Ends(sync.on, "failed")
  /\ UNCHANGED <<file, sources, status, stands, captured>>

LawNext ==
  \/ Capture \/ CannotRead \/ Source \/ Birth \/ Promote \/ Retire \/ Synced \/ RestartStation
  \/ \E p \in Repos : Push(p)
  \/ \E k \in Records : OperatorRetires(k)
  \/ \E r \in Runs : Take(r) \/ RunChecks(r) \/ NextAttempt(r)

LawSpec == LawInit /\ [][LawNext]_lawVars

-----------------------------------------------------------------------------
(* The state stays within its types.                                       *)
LawTypeOK ==
  /\ file \in [Repos -> Files] /\ sources \subseteq Repos \X Laws
  /\ status \in [Records -> {"none", "proposed", "active", "retired"}]
  /\ sync \in [on : Runs, law : Files, todo : SUBSET UNION {Declares[l] : l \in Laws},
               pc : {"idle", "again", "source", "records", "promote", "retire"},
               try : 0..HandleTries]
  /\ snapshot \in [Runs -> Files \cup {Unknown}] /\ captured \in [Runs -> Files \cup {Unknown}]
  /\ run \in [Runs ->
       [state : {"new", "ready", "blocked", "failed", "passed", "rejected", "error"},
        under : Files \cup {Unknown},
        ran : SUBSET ({"command", "control"} \X {"zero", "nonzero", "fault", "unasked"})]]
  /\ stands \in [Repos -> Files \cup {Unknown, Undone}]
  /\ spent \in [pushes : 0..MaxPushes, upsets : 0..MaxUpsets]

(* A synchronisation that returned left exactly the standards its file     *)
(* declares: all active, nothing of an earlier file alive, not even a      *)
(* record whose birth was cut off before its promotion; and no other       *)
(* repository's synchronisation, failed or finished, disturbs them since   *)
(* (Syncer.Sync, retireRemoved, evidenceMatchesRepo).                      *)
TheFileIsTheLaw ==
  \A p \in Repos : stands[p] \notin {Unknown, Undone} =>
    /\ Live(p) = Declared(p, stands[p])
    /\ \A k \in Live(p) : status[k] = "active"

(* An attempt passes the repository's gate only if the file the run was    *)
(* last provisioned under could be read for what it requires, and the      *)
(* check it requires ran and exited zero, and its control ran and did not: *)
(* whatever happened to the file, the snapshots, the sandbox or the        *)
(* process since (Checks.Run refuses a run without a snapshot, and one     *)
(* whose snapshot does not parse).                                         *)
PassedMeansGated ==
  \A r \in Runs : run[r].state = "passed" =>
    /\ run[r].under \in Laws \cup {NoFile}
    /\ run[r].under \in Laws =>
         /\ Gate[run[r].under] # "none" => <<"command", "zero">> \in run[r].ran
         /\ Gate[run[r].under] = "proven" => <<"control", "nonzero">> \in run[r].ran
=============================================================================
