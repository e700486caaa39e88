------------------------------- MODULE OpenSpec -------------------------------
(***************************************************************************)
(* The OpenSpec markdown of specs and changes: parsed leniently, line by   *)
(* line, and rendered canonically.                                         *)
(*                                                                         *)
(* A line is a record of its kind and text, blank lines left out.  A       *)
(* heading counts only at the start of its line, while every line kept as  *)
(* prose is kept without its indentation: an indented heading is prose     *)
(* that reads as a heading once it has been written back.  Steps, task     *)
(* numbers and check boxes render to what they were parsed from.           *)
(***************************************************************************)
EXTENDS Naturals, SequencesExt

CONSTANTS
  Lines,      \* per kind of document, the lines it is made of
  MaxLines    \* bound: lines of a document

Kinds == {"spec", "delta", "proposal", "design", "tasks"}

VARIABLES doc   \* a document: its kind and its lines
docVars == <<doc>>

-----------------------------------------------------------------------------
(* Lines and what the parsers make of them.                                *)
Line(k, t) == [kind |-> k, text |-> t, indent |-> FALSE]
Trim(l)    == [l EXCEPT !.indent = FALSE]
Is(l, k)   == l.kind = k /\ ~(l.indent /\ k \in {"title", "section", "entry", "scenario"})

AtLast(s, Op(_)) == [s EXCEPT ![Len(s)] = Op(@)]
Flat(s, Op(_))   == FlattenSeq([i \in DOMAIN s |-> Op(s[i])])
When(c, s)       == IF c THEN s ELSE <<>>

(* ParseSpec and ParseDelta share their requirement grammar: open is what  *)
(* the next line belongs to.  A delta dispatches a requirement by the      *)
(* section it stands in; outside one it is dropped.                        *)
Blank(delta) == [delta |-> delta, title |-> "", section |-> "none", purpose |-> <<>>,
                 reqs |-> <<>>, open |-> "none"]
Requirement(name, section) ==
  [name |-> name, section |-> section, statement |-> <<>>, scenarios |-> <<>>,
   notes |-> [n \in {"previously", "rationale"} |-> ""]]

SpecLine(p, l) ==
  CASE Is(l, "scenario") ->
         IF p.open = "none" THEN p
         ELSE [p EXCEPT !.open = "scenario", !.reqs =
                AtLast(@, LAMBDA r : [r EXCEPT !.scenarios = Append(@, [name |-> l.text, steps |-> <<>>])])]
    [] Is(l, "entry") ->
         [p EXCEPT !.reqs = Append(@, Requirement(l.text, p.section)), !.open = "statement"]
    [] Is(l, "section") -> [p EXCEPT !.section = l.text, !.open = "none"]
    [] Is(l, "title") -> [p EXCEPT !.title = l.text]
    [] p.delta /\ Is(l, "note") /\ p.open # "none" ->
         [p EXCEPT !.reqs = AtLast(@, LAMBDA r : [r EXCEPT !.notes[l.text] = "said"])]
    [] Is(l, "bullet") /\ p.open = "scenario" ->
         [p EXCEPT !.reqs = AtLast(@, LAMBDA r :
            [r EXCEPT !.scenarios = AtLast(@, LAMBDA s : [s EXCEPT !.steps = Append(@, l.text)])])]
    [] OTHER ->
         IF ~p.delta /\ p.section = "purpose" THEN [p EXCEPT !.purpose = Append(@, Trim(l))]
         ELSE IF p.open = "statement"
         THEN [p EXCEPT !.reqs = AtLast(@, LAMBDA r : [r EXCEPT !.statement = Append(@, Trim(l))])]
         ELSE p

In(p, section) == SelectSeq(p.reqs, LAMBDA r : r.section = section)

ParseSpec(lines) ==
  LET p == FoldLeft(SpecLine, Blank(FALSE), lines)
  IN  [title |-> p.title, purpose |-> p.purpose,
       requirements |-> [i \in DOMAIN p.reqs |-> [p.reqs[i] EXCEPT !.section = "requirements"]]]

ParseDelta(lines) ==
  LET p == FoldLeft(SpecLine, Blank(TRUE), lines)
      Keep(s, note) == [i \in DOMAIN s |-> [s[i] EXCEPT !.notes =
                          [n \in DOMAIN @ |-> IF n = note THEN @[n] ELSE ""]]]
      removed == In(p, "removed")
  IN  [title |-> p.title, added |-> Keep(In(p, "added"), "none"),
       modified |-> Keep(In(p, "modified"), "previously"),
       removed |-> Keep([i \in DOMAIN removed |->
         [removed[i] EXCEPT !.statement = <<>>, !.scenarios = <<>>]], "rationale")]

Title(t) == When(t # "", <<Line("title", t)>>)

RenderScenario(s) ==
  <<Line("scenario", s.name)>> \o [i \in DOMAIN s.steps |-> Line("bullet", s.steps[i])]

RenderRequirement(r) ==
  <<Line("entry", r.name)>> \o r.statement
    \o When(r.notes["previously"] # "", <<Line("note", "previously")>>)
    \o When(r.notes["rationale"] # "", <<Line("note", "rationale")>>)
    \o Flat(r.scenarios, RenderScenario)

Section(name, reqs) ==
  When(reqs # <<>>, <<Line("section", name)>> \o Flat(reqs, RenderRequirement))

RenderSpec(s) ==
  Title(s.title) \o When(s.purpose # <<>>, <<Line("section", "purpose")>> \o s.purpose)
    \o <<Line("section", "requirements")>> \o Flat(s.requirements, RenderRequirement)

RenderDelta(d) ==
  Title(d.title) \o Section("added", d.added) \o Section("modified", d.modified)
    \o Section("removed", d.removed)

-----------------------------------------------------------------------------
(* ParseProposal and ParseDesign: known sections, and extra ones kept as   *)
(* heading and body.  What stands before the first section is dropped.     *)
Sections == [proposal |-> {"intent", "scope", "approach"},
             design |-> {"technical", "decisions", "dataflow", "filechanges"}]
Sheet(kind) == [kind |-> kind, title |-> "", section |-> "none", open |-> FALSE, extra |-> <<>>,
                text |-> [s \in {"intent", "approach", "technical", "dataflow"} |-> <<>>],
                scope |-> [o \in BOOLEAN |-> <<>>], decisions |-> <<>>, files |-> <<>>]

Headed(name) == [name |-> name, body |-> <<>>]
IntoBody(s, l) == AtLast(s, LAMBDA h : [h EXCEPT !.body = Append(@, Trim(l))])

SheetProse(p, l) ==
  CASE p.section \in DOMAIN p.text -> [p EXCEPT !.text[p.section] = Append(@, Trim(l))]
    [] p.section = "scope" ->
         IF Is(l, "label") THEN [p EXCEPT !.open = l.text = "out"]
         ELSE IF Is(l, "bullet") THEN [p EXCEPT !.scope[p.open] = Append(@, l.text)] ELSE p
    [] p.section = "decisions" ->
         IF p.decisions # <<>> /\ p.open THEN [p EXCEPT !.decisions = IntoBody(@, l)] ELSE p
    [] p.section = "filechanges" ->
         IF Is(l, "file") THEN [p EXCEPT !.files = Append(@, l.text)] ELSE p
    [] p.section = "none" -> p
    [] OTHER -> [p EXCEPT !.extra = IntoBody(@, l)]

(* open: in the scope, the out-of-scope side; in the decisions, a decision *)
(* that takes the prose.                                                   *)
SheetLine(p, l) ==
  CASE Is(l, "entry") /\ p.section = "decisions" ->
         [p EXCEPT !.decisions = Append(@, Headed(l.text)), !.open = TRUE]
    [] Is(l, "section") ->
         [p EXCEPT !.section = l.text, !.open = FALSE,
                   !.extra = @ \o When(l.text \notin Sections[p.kind], <<Headed(l.text)>>)]
    [] Is(l, "title") -> [p EXCEPT !.title = l.text]
    [] OTHER -> SheetProse(p, l)

ParseSheet(kind, lines) ==
  [FoldLeft(SheetLine, Sheet(kind), lines) EXCEPT !.section = "none", !.open = FALSE]

Under(k, h)      == <<Line(k, h.name)>> \o h.body
Prose(name, s)   == When(s # <<>>, <<Line("section", name)>> \o s)
Bullets(k, s)    == [i \in DOMAIN s |-> Line(k, s[i])]
UnderSection(h)  == Under("section", h)
UnderDecision(h) == Under("entry", h)

(* renderBullets under the labels that say which side of the scope.        *)
ScopeLabelOutSecond(p) == When(p.scope[FALSE] # <<>>, <<Line("label", "out")>>)
ScopeLabelOut(p)       == <<Line("label", "out")>>

RenderScope(p) ==
  When(p.scope[FALSE] # <<>>, <<Line("label", "in")>> \o Bullets("bullet", p.scope[FALSE]))
    \o When(p.scope[TRUE] # <<>>, ScopeLabelOut(p) \o Bullets("bullet", p.scope[TRUE]))

RenderProposal(p) ==
  Title(p.title) \o Prose("intent", p.text["intent"]) \o Prose("scope", RenderScope(p))
    \o Prose("approach", p.text["approach"]) \o Flat(p.extra, UnderSection)

RenderDesign(p) ==
  Title(p.title) \o Prose("technical", p.text["technical"])
    \o Prose("decisions", Flat(p.decisions, UnderDecision))
    \o Prose("dataflow", p.text["dataflow"])
    \o Prose("filechanges", Bullets("file", p.files)) \o Flat(p.extra, UnderSection)

(* ParseTasks: every bullet is a task; those before any heading stand in   *)
(* an unnamed section.                                                     *)
TaskLine(p, l) ==
  CASE Is(l, "section") -> [p EXCEPT !.sections = Append(@, Headed(l.text))]
    [] Is(l, "title") -> [p EXCEPT !.title = l.text]
    [] Is(l, "bullet") ->
         [p EXCEPT !.sections = IntoBody(IF @ = <<>> THEN <<Headed("")>> ELSE @, l)]
    [] OTHER -> p

ParseTasks(lines) == FoldLeft(TaskLine, [title |-> "", sections |-> <<>>], lines)
RenderTasks(t) ==
  LET UnderName(h) == When(h.name # "", <<Line("section", h.name)>>) \o h.body
  IN  Title(t.title) \o Flat(t.sections, UnderName)

Parse(kind, lines) ==
  CASE kind = "spec" -> ParseSpec(lines) [] kind = "delta" -> ParseDelta(lines)
    [] kind = "tasks" -> ParseTasks(lines) [] OTHER -> ParseSheet(kind, lines)

Render(kind, p) ==
  CASE kind = "spec" -> RenderSpec(p)   [] kind = "delta" -> RenderDelta(p)
    [] kind = "tasks" -> RenderTasks(p) [] kind = "proposal" -> RenderProposal(p)
    [] kind = "design" -> RenderDesign(p)

-----------------------------------------------------------------------------
DocInit == doc = [kind |-> "spec", lines |-> <<>>]

(* A document of any kind, line by line.                                   *)
AddLine ==
  /\ Len(doc.lines) < MaxLines
  /\ \E k \in IF doc.lines = <<>> THEN Kinds ELSE {doc.kind} : \E l \in Lines[k] :
       doc' = [kind |-> k, lines |-> Append(doc.lines, l)]

DocNext == AddLine
DocSpec == DocInit /\ [][DocNext]_docVars

(* A document is a sequence of its kind's lines.                           *)
TypeOK == doc.kind \in Kinds /\ doc.lines \in Seq(Lines[doc.kind])

(* What is rendered reads back as what was rendered: at once when no       *)
(* heading is indented, and from the first rendering on for any document   *)
(* (RenderSpec's contract of semantic stability, and its siblings').       *)
RoundTrip ==
  LET Again(p) == Parse(doc.kind, Render(doc.kind, p))
      parsed   == Parse(doc.kind, doc.lines)
  IN  /\ Again(Again(parsed)) = Again(parsed)
      /\ (\A i \in DOMAIN doc.lines : ~doc.lines[i].indent) => Again(parsed) = parsed
=============================================================================
