------------------------------ MODULE MCServices ------------------------------
(***************************************************************************)
(* The services around the run, side by side on small instances.  They     *)
(* meet only through the graph and the run's files, which each module has  *)
(* its own part of, so a behaviour picks one of them and stays with it:    *)
(* the run explores the sum of their state spaces, not the product.        *)
(***************************************************************************)
EXTENDS GraphWriter, ChangeFolder, FrontDoor, Poller, UserNotes, Boot, Workbench, Standards,
        TaskSpecs

VARIABLES
  part,  \* the service this behaviour is about
  tree, commit, verdict,
  doc

Floor == INSTANCE Floors WITH Rewritable <- {"helpers"}

(* The lines each kind of document is made of; one heading of each kind    *)
(* also comes indented, which the parsers take for prose.                  *)
Plain(ls)      == {[kind |-> l[1], text |-> l[2], indent |-> FALSE] : l \in ls}
Indented(k, t) == {[kind |-> k, text |-> t, indent |-> TRUE]}
DocLines ==
  [spec     |-> Plain({<<"title", "t">>, <<"section", "purpose">>, <<"section", "requirements">>,
                       <<"entry", "r">>, <<"scenario", "s">>, <<"bullet", "b">>,
                       <<"note", "previously">>}) \cup Indented("entry", "r"),
   delta    |-> Plain({<<"section", "other">>, <<"section", "added">>, <<"section", "modified">>,
                       <<"section", "removed">>, <<"entry", "r">>, <<"scenario", "s">>,
                       <<"bullet", "b">>, <<"note", "previously">>, <<"note", "rationale">>})
                  \cup Indented("scenario", "s"),
   proposal |-> Plain({<<"title", "t">>, <<"section", "intent">>, <<"section", "scope">>,
                       <<"section", "approach">>, <<"section", "other">>, <<"label", "in">>,
                       <<"label", "out">>, <<"bullet", "b">>}) \cup Indented("section", "scope"),
   design   |-> Plain({<<"section", "technical">>, <<"section", "decisions">>,
                       <<"section", "filechanges">>, <<"section", "other">>, <<"entry", "d">>,
                       <<"file", "f">>, <<"bullet", "b">>}) \cup Indented("entry", "d"),
   tasks    |-> Plain({<<"title", "t">>, <<"section", "a">>, <<"section", "b">>,
                       <<"bullet", "one">>, <<"bullet", "two">>, <<"prose", "p">>})
                  \cup Indented("section", "a")]
Docs == INSTANCE OpenSpec WITH Lines <- DocLines, MaxLines <- 4

(* The adapter's contract has facts on both entities, the classifier's on  *)
(* the run alone; rules remove the fact both lanes share.                  *)
WriterGroup == "adapter"    :> ("run" :> {"pending", "author"} @@ "loop" :> {"author"})
            @@ "classifier" :> ("run" :> {"reading"} @@ "loop" :> {})
DeltaNames  == <<"a", "b">>

(* Two runs, each on its repository; one content of the file is gated by a *)
(* proven check, the other by a plain one.                                 *)
RunRepo  == 1 :> "p1" @@ 2 :> "p2"
LawDeclares == "l1" :> {"s1", "s2"} @@ "l2" :> {"s2"}
LawGate  == "l1" :> "proven" @@ "l2" :> "plain"

-----------------------------------------------------------------------------
floorVars == <<tree, commit, verdict>>
docVars   == <<doc>>

(* A service that starts in one of several states does so in its own       *)
(* behaviours only; in the others it rests in one of them.  Comments are   *)
(* polled, for only then is there a cursor; MCProgress has the webhook too.*)
Resting(p, v, x) == part # p => v = x

Init ==
  /\ part \in {"door", "poll", "notes", "boot", "bench", "law", "floors", "docs", "tasks",
               "writer", "folder"}
  /\ DoorInit
  /\ Resting("door", event, [d \in {"d1"} |-> CHOOSE e \in Events : TRUE])
  /\ PollInit /\ transport = "poll"
  /\ NotesInit
  /\ Resting("notes", channel, TRUE)
  /\ Resting("notes", told, [ref |-> "good", present |-> TRUE, anchored |-> TRUE,
                            awaiting |-> FALSE, decided |-> FALSE, spent |-> 0])
  /\ BootInit
  /\ Resting("boot", bucket, "none")
  /\ Resting("boot", settings, [source |-> "fixture", condition |-> "", endpoint |-> TRUE,
                               listed |-> {}, onDisk |-> {}, fragments |-> "new"])
  /\ LawInit
  /\ Resting("law", file, [p \in {"p1", "p2"} |-> "l2"]) /\ file["p2"] = "l2"
  /\ BenchInit /\ Floor!FloorInit /\ Docs!DocInit /\ SpecInit
  /\ WriterInit /\ FolderInit

Next ==
  \/ part = "door" /\ DoorNext /\ UNCHANGED <<part, pollVars, noteVars, bootVars, benchVars, lawVars,
       floorVars, docVars, specVars, writerVars, folderVars>>
  \/ part = "poll" /\ PollNext /\ UNCHANGED <<part, doorVars, noteVars, bootVars, benchVars, lawVars,
       floorVars, docVars, specVars, writerVars, folderVars>>
  \/ part = "notes" /\ NoteNext /\ UNCHANGED <<part, doorVars, pollVars, bootVars, benchVars, lawVars,
       floorVars, docVars, specVars, writerVars, folderVars>>
  \/ part = "boot" /\ BootNext /\ UNCHANGED <<part, doorVars, pollVars, noteVars, benchVars, lawVars,
       floorVars, docVars, specVars, writerVars, folderVars>>
  \/ part = "bench" /\ BenchNext /\ UNCHANGED <<part, doorVars, pollVars, noteVars, bootVars, lawVars,
       floorVars, docVars, specVars, writerVars, folderVars>>
  \/ part = "law" /\ LawNext /\ UNCHANGED <<part, doorVars, pollVars, noteVars, bootVars, benchVars,
       floorVars, docVars, specVars, writerVars, folderVars>>
  \/ part = "floors" /\ Floor!FloorNext /\ UNCHANGED <<part, doorVars, pollVars, noteVars, bootVars, benchVars,
       lawVars, docVars, specVars, writerVars, folderVars>>
  \/ part = "docs" /\ Docs!DocNext /\ UNCHANGED <<part, doorVars, pollVars, noteVars, bootVars, benchVars,
       lawVars, floorVars, specVars, writerVars, folderVars>>
  \/ part = "tasks" /\ SpecNext /\ UNCHANGED <<part, doorVars, pollVars, noteVars, bootVars, benchVars,
       lawVars, floorVars, docVars, writerVars, folderVars>>
  \/ part = "writer" /\ WriterNext /\ UNCHANGED <<part, doorVars, pollVars, noteVars, bootVars, benchVars,
       lawVars, floorVars, docVars, specVars, folderVars>>
  \/ part = "folder" /\ FolderNext /\ UNCHANGED <<part, doorVars, pollVars, noteVars, bootVars, benchVars,
       lawVars, floorVars, docVars, specVars, writerVars>>

all == <<part, doorVars, pollVars, noteVars, bootVars, benchVars, lawVars,
         floorVars, docVars, specVars, writerVars, folderVars>>
Spec == Init /\ [][Next]_all

-----------------------------------------------------------------------------
(* Each service keeps its types.                                           *)
TypeOK ==
  CASE part = "door"   -> DoorTypeOK  [] part = "poll"  -> PollTypeOK
    [] part = "notes"  -> NotesTypeOK [] part = "boot"  -> BootTypeOK
    [] part = "bench"  -> BenchTypeOK [] part = "law"   -> LawTypeOK
    [] part = "floors" -> Floor!TypeOK [] part = "docs"  -> Docs!TypeOK
    [] part = "tasks"  -> TasksTypeOK [] part = "writer" -> WriterTypeOK
    [] part = "folder" -> FolderTypeOK

(* Floors: an attempt whose floors pass has a test that can fail.          *)
GreenIsTested == part = "floors" => Floor!GreenIsTested

(* OpenSpec: a rendered document reads back as what was rendered.          *)
RoundTrip == part = "docs" => Docs!RoundTrip
=============================================================================
