----------------------------- MODULE ChangeFolder -----------------------------
(***************************************************************************)
(* openspec.WriteChange: a change written as a folder, file by file, over  *)
(* whatever an earlier write left there.  A write that fails or dies       *)
(* half-way is only mended by a later one.  The checkout's other files are *)
(* not touched.                                                            *)
(***************************************************************************)
EXTENDS Naturals, SequencesExt

CONSTANTS
  Deltas,     \* capabilities that changes have a delta for, in their order
  MaxWrites,  \* bound: calls
  MaxFails    \* bound: file system errors and crashes

Documents == <<"proposal", "design", "tasks">>
Order  == Documents \o Deltas
Artifacts == ToSet(Order)
Absent == 0
Torn   == MaxWrites + 1

ASSUME FolderAssumption ==
  /\ Deltas \in Seq(ToSet(Deltas))
  /\ MaxWrites \in Nat /\ MaxFails \in Nat

VARIABLES
  folder,  \* per artifact: the write it is of, Absent, or Torn
  write,   \* the call at work, or the last one
  fails    \* errors so far
folderVars == <<folder, write, fails>>

FolderInit ==
  /\ folder = [a \in Artifacts |-> Absent]
  /\ write = [number |-> 0, change |-> {}, todo |-> {}, pc |-> "failed"]
  /\ fails = 0

(* write_change, after Hydrate: an empty change is refused.                *)
BeginWrite ==
  /\ write.pc \in {"ok", "failed"} /\ write.number < MaxWrites
  /\ \E change \in SUBSET Artifacts \ {{}} :
       write' = [number |-> write.number + 1, change |-> change, pc |-> "clear",
                 todo |-> {i \in DOMAIN Order : i <= Len(Documents) \/ Order[i] \in change}]
  /\ UNCHANGED <<folder, fails>>

(* RemoveAll of specs/, whatever capabilities it holds.                    *)
ClearedOfChange == ToSet(Deltas) \cap write.change
Cleared         == ToSet(Deltas)

ClearSpecs ==
  /\ write.pc = "clear"
  /\ folder' = [a \in Artifacts |-> IF a \in Cleared THEN Absent ELSE folder[a]]
  /\ write' = [write EXCEPT !.pc = "write"] /\ UNCHANGED fails

(* writeOrRemove and writeCapabilitySpec, the artifacts in their order.    *)
IsNext(i) == i \in write.todo /\ \A j \in write.todo : i <= j
Content(a) == IF a \in write.change THEN write.number ELSE Absent

WriteNext ==
  /\ write.pc = "write"
  /\ \E i \in write.todo :
       /\ IsNext(i) /\ folder' = [folder EXCEPT ![Order[i]] = Content(Order[i])]
       /\ write' = [write EXCEPT !.todo = @ \ {i}]
  /\ UNCHANGED fails

Done ==
  /\ write.pc = "write" /\ write.todo = {}
  /\ write' = [write EXCEPT !.pc = "ok"] /\ UNCHANGED <<folder, fails>>

(* An error, a refused capability name or a crash: specs/ may be half      *)
(* removed, the file being written truncated.                              *)
FolderFails ==
  /\ write.pc \in {"clear", "write"} /\ fails < MaxFails
  /\ fails' = fails + 1 /\ write' = [write EXCEPT !.pc = "failed"]
  /\ \/ write.pc = "clear" /\ \E s \in SUBSET ToSet(Deltas) :
          folder' = [a \in Artifacts |-> IF a \in s THEN Absent ELSE folder[a]]
     \/ write.pc = "write" /\ \E i \in write.todo :
          /\ IsNext(i) /\ Order[i] \in write.change
          /\ folder' = [folder EXCEPT ![Order[i]] = Torn]
     \/ write.pc = "write" /\ UNCHANGED folder

FolderNext == BeginWrite \/ ClearSpecs \/ WriteNext \/ Done \/ FolderFails
FolderSpec == FolderInit /\ [][FolderNext]_folderVars

-----------------------------------------------------------------------------
(* The state stays within its types.                                       *)
FolderTypeOK ==
  /\ folder \in [Artifacts -> Absent..Torn]
  /\ write \in [number : 0..MaxWrites, change : SUBSET Artifacts, todo : SUBSET DOMAIN Order,
                pc : {"clear", "write", "ok", "failed"}]
  /\ fails \in 0..MaxFails

(* A write that succeeds leaves exactly its change: nothing of an earlier  *)
(* change, whole or torn, survives in the files it manages (WriteChange    *)
(* is authoritative; an empty change never is one, ReadChange).            *)
FolderIsTheChange ==
  write.pc = "ok" =>
    folder = [a \in Artifacts |-> Content(a)]
=============================================================================
