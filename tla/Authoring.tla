------------------------------- MODULE Authoring -------------------------------
(***************************************************************************)
(* Writing one Phase 1 question: the organisers' builders (web             *)
(* admin/puzzle-builder and admin/hack-builder), the list with its menu    *)
(* (admin/phase1-lists) and the engine that stores, proves and publishes   *)
(* the question (engine/phase1/authoring, self_tests, solutions).          *)
(*                                                                         *)
(* A question is a puzzle, which has options and a key, or a hacking       *)
(* question, which has flawed copies, one per language.  A save and a test *)
(* are requests: they are sent, reach the engine, and are answered.        *)
(***************************************************************************)
EXTENDS Integers, FiniteSets, SequencesExt

CONSTANTS
  Sections,             \* which kinds of question are written: "puzzles", "hacking"
  Authors,              \* organisers with a builder open
  Words,                \* what may be written into an option; "" is a blank one
  Languages, Codes,     \* flawed programs, each broken by the input of its name
  None,
  \* Bounds of an instance, not of the program: what a behaviour may spend, one of several
  \* budgets, and the options of a puzzle.
  Budgets, MaxOptions

ASSUME AuthoringAssumption ==
  /\ Sections \subseteq {"puzzles", "hacking"} /\ Sections # {}
  /\ Languages # {} /\ Codes # {}
  /\ None \notin Nat
  /\ MaxOptions \in Nat
  /\ \A b \in Budgets : {b.edits, b.saves, b.tests, b.attempts, b.jobs, b.faults} \subseteq Nat

VARIABLES
  section,      \* which table the question is in
  q,            \* p1_question, or p1_hack_question with its p1_hack_solution
  builder,      \* a page per author
  update,       \* the save of that page under way
  test,         \* the self-test of that page under way
  \* For the properties only.
  shown,        \* the contents a passed test was run on
  raced,        \* a test was written over a question saved since it was read
  written,      \* what each author's form must show
  left          \* what is left of the budget

ghosts == <<shown, raced, written>>
authoring == <<section, q, builder, update, test, ghosts, left>>

Spend(kind) == left[kind] > 0 /\ left' = [left EXCEPT ![kind] = @ - 1]

-----------------------------------------------------------------------------
(* What a question holds.                                                   *)

\* A puzzle to choose one option of ("mcq_single"), whose key is an index into the options
\* that are not blank, or to answer in writing ("long_text").  One that is not graded
\* "auto" has a model answer instead.
Puzzle(kind, grading, options, key) ==
  [kind |-> kind, grading |-> grading, options |-> options, key |-> key]

\* A copy of a hacking question; a new one has no id yet.
Copy(id, lang, code) == [id |-> id, lang |-> lang, code |-> code]

Clean(options) == SelectSeq(options, LAMBDA o : o # "")

\* contentIssues and gradingIssues.
PuzzleIssues(f) ==
  \/ /\ f.kind = "mcq_single"
     /\ \/ Len(Clean(f.options)) < 2
        \/ Cardinality(ToSet(Clean(f.options))) < Len(Clean(f.options))
        \/ f.grading = "auto" /\ (f.key = None \/ f.key > Len(Clean(f.options)))
  \/ f.kind = "long_text" /\ f.grading = "auto"

\* sourceIssues.
HackIssues(f) ==
  \/ f = << >>
  \/ \E i \in DOMAIN f : f[i].code = None
  \/ Cardinality({f[i].lang : i \in DOMAIN f}) < Len(f)

Issues(f) == IF section = "puzzles" THEN PuzzleIssues(f) ELSE HackIssues(f)

\* toPayload: only the options of a choice, without the blank ones, and the key only of
\* what is graded by it.
Payload(f) ==
  IF section = "puzzles"
    THEN Puzzle(f.kind, f.grading, IF f.kind = "mcq_single" THEN Clean(f.options) ELSE << >>,
                IF f.grading = "auto" THEN f.key ELSE None)
    ELSE f

\* fromPuzzle, fromHack: the form of a stored question; without options it has two blanks.
Form(content) ==
  IF section = "puzzles" /\ content.options = << >> THEN [content EXCEPT !.options = <<"", "">>]
  ELSE content

Published == q.there /\ q.published
StateOf(r) ==
  IF r.voided THEN "void" ELSE IF r.published THEN "live" ELSE IF r.ready THEN "ready" ELSE "draft"

-----------------------------------------------------------------------------
(* The engine.                                                              *)

CopyIds == {q.content[i].id : i \in DOMAIN q.content}
Same(c) == \E i \in DOMAIN q.content : q.content[i] = c

\* Mutant: a copy given back keeps its proof, whatever became of its code.
KeptById(wanted) == {wanted[i].id : i \in DOMAIN wanted} \cap q.proven

\* A copy keeps its proof when it comes back with its id and its code.
Kept(wanted) == {c.id : c \in {d \in ToSet(wanted) : Same(d)}} \cap q.proven

\* replace: a copy without an id, or whose id is gone, is a new row.
Replaced(wanted) ==
  [i \in DOMAIN wanted |->
     IF wanted[i].id \in CopyIds THEN wanted[i]
     ELSE [wanted[i] EXCEPT !.id = q.nextId + Cardinality({j \in 1..i-1 : wanted[j].id \notin CopyIds})]]

\* refresh_ready: every copy is proven.
Ready(content, proven) == content # << >> /\ {content[i].id : i \in DOMAIN content} \subseteq proven

\* update: a puzzle loses its readiness, a hacking question's follows its copies.
\* Whether it is published does not change.
Updated(payload) ==
  IF section = "puzzles"
    THEN [q EXCEPT !.content = payload, !.ready = FALSE]
    ELSE LET new == Replaced(payload)
             kept == Kept(payload)
         IN  [q EXCEPT !.content = new, !.proven = kept, !.ready = Ready(new, kept),
                       !.nextId = @ + Cardinality({i \in DOMAIN payload : payload[i].id \notin CopyIds})]

\* score_auto: full marks or none.
Scores(content, answer) == content.grading = "manual" \/ content.key = answer

\* record_proof of one copy; the copy may be gone by now.
Recorded(id, passed) ==
  LET now == IF passed THEN q.proven \cup ({id} \cap CopyIds) ELSE q.proven \ {id}
  IN  [q EXCEPT !.proven = now, !.ready = Ready(q.content, now)]

-----------------------------------------------------------------------------
(* The builder.                                                             *)

NoUpdate == [at |-> "none", payload |-> None]
NoTest == [at |-> "none", id |-> None, input |-> None, content |-> None]

Dirty(a) == builder[a].form # builder[a].initial
Editing(a) == builder[a].open /\ Spend("edits")

\* The form changes, by the author's hand.
Edit(a, form) ==
  /\ form # builder[a].form
  /\ builder' = [builder EXCEPT ![a].form = form]
  /\ written' = [written EXCEPT ![a] = form]
  /\ UNCHANGED <<section, q, update, test, shown, raced>>

\* StringListEditor: write an option, add a blank one, remove one.  The key stays.
EditOptions(a) ==
  /\ section = "puzzles" /\ Editing(a) /\ builder[a].form.kind = "mcq_single"
  /\ LET f == builder[a].form IN
       \/ \E i \in DOMAIN f.options, w \in Words : Edit(a, [f EXCEPT !.options[i] = w])
       \/ Len(f.options) < MaxOptions /\ Edit(a, [f EXCEPT !.options = Append(@, "")])
       \/ \E i \in DOMAIN f.options : Edit(a, [f EXCEPT !.options = RemoveAt(@, i)])

\* The first step: how participants answer.  A written answer is not graded automatically.
EditKind(a) ==
  /\ section = "puzzles" /\ Editing(a)
  /\ \/ Edit(a, [builder[a].form EXCEPT !.kind = "mcq_single"])
     \/ Edit(a, [builder[a].form EXCEPT !.kind = "long_text", !.grading = "manual"])

\* The grading step: who decides, and the correct option.
EditKey(a) ==
  /\ section = "puzzles" /\ Editing(a)
  /\ LET f == builder[a].form IN
       \/ \E g \in {"auto", "manual"} : (g = "auto" => f.kind # "long_text") /\ Edit(a, [f EXCEPT !.grading = g])
       \/ f.grading = "auto" /\ \E i \in DOMAIN Clean(f.options) : Edit(a, [f EXCEPT !.key = i])

Spare(f) == Languages \ {f[i].lang : i \in DOMAIN f}

\* SolutionsEditor: paste code, add a language, remove one.
EditCopies(a) ==
  /\ section = "hacking" /\ Editing(a)
  /\ LET f == builder[a].form IN
       \/ \E i \in DOMAIN f, c \in Codes : Edit(a, [f EXCEPT ![i].code = c])
       \/ \E l \in Spare(f), c \in Codes : Edit(a, Append(f, Copy(None, l, c)))
       \/ Len(f) > 1 /\ \E i \in DOMAIN f : Edit(a, RemoveAt(f, i))

\* The page is opened; the question is read once.
OpenBuilder(a) ==
  /\ q.there /\ ~builder[a].open
  /\ builder' = [builder EXCEPT ![a] = [open |-> TRUE, form |-> Form(q.content),
                                         initial |-> Form(q.content), row |-> q]]
  /\ written' = [written EXCEPT ![a] = Form(q.content)]
  /\ UNCHANGED <<section, q, update, test, shown, raced, left>>

\* The footer: Discard and Save while there is something to save, Save without issues.
CanSave(a) == builder[a].open /\ Dirty(a) /\ update[a].at = "none" /\ ~Issues(builder[a].form)

Discard(a) ==
  /\ builder[a].open /\ Dirty(a) /\ update[a].at = "none"
  /\ builder' = [builder EXCEPT ![a].form = builder[a].initial]
  /\ written' = [written EXCEPT ![a] = builder[a].initial]
  /\ UNCHANGED <<section, q, update, test, shown, raced, left>>

Save(a) ==
  /\ CanSave(a) /\ Spend("saves")
  /\ update' = [update EXCEPT ![a] = [at |-> "sent", payload |-> Payload(builder[a].form)]]
  /\ UNCHANGED <<section, q, builder, test, ghosts>>

\* The engine's update, with the row locked; a question that is gone is refused.
SaveStored(a) ==
  /\ update[a].at = "sent"
  /\ IF q.there
       THEN /\ q' = Updated(update[a].payload)
            /\ update' = [update EXCEPT ![a].at = "stored"]
       ELSE /\ UNCHANGED q
            /\ update' = [update EXCEPT ![a] = NoUpdate]
  /\ UNCHANGED <<section, builder, test, ghosts, left>>

\* Mutant: the saved values replace the form.
MergedOver(b, new) == [b EXCEPT !.form = new, !.initial = new, !.row = q]

\* The saved values replace the form, unless the author has unsaved edits.
Merged(b, new) ==
  [b EXCEPT !.form = IF @ = b.initial THEN new ELSE @, !.initial = new, !.row = q]

\* onSaved: the question is read again.
Reload(a) ==
  builder' = [builder EXCEPT ![a] = IF q.there THEN Merged(@, Form(q.content)) ELSE [@ EXCEPT !.open = FALSE]]

\* What the author sees stays what was typed; with nothing unsaved it follows the question.
StillWritten(a) ==
  written' = [written EXCEPT ![a] = IF q.there /\ @ = builder[a].initial THEN Form(q.content) ELSE @]

SaveAnswered(a) ==
  /\ update[a].at = "stored"
  /\ update' = [update EXCEPT ![a] = NoUpdate]
  /\ Reload(a) /\ StillWritten(a)
  /\ UNCHANGED <<section, q, test, shown, raced, left>>

\* A test is sent, of the saved version as this page last read it.
Test(a, id, input) ==
  /\ test[a].at = "none" /\ Spend("tests")
  /\ test' = [test EXCEPT ![a] = [NoTest EXCEPT !.at = "sent", !.id = id, !.input = input]]
  /\ UNCHANGED <<section, q, builder, update, ghosts>>

\* PuzzleVerify: the intended answer, chosen among the options; a model answer has none to give.
RunSelfTest(a) ==
  /\ builder[a].open /\ section = "puzzles"
  /\ LET content == builder[a].row.content IN
       \/ content.grading = "manual" /\ Test(a, None, None)
       \/ content.grading = "auto" /\ \E i \in DOMAIN content.options : Test(a, None, i)

\* ProveCopy: the input that breaks one copy.
ProveCopy(a) ==
  /\ builder[a].open /\ section = "hacking"
  /\ \E i \in DOMAIN builder[a].row.content, c \in Codes : Test(a, builder[a].row.content[i].id, c)

\* The engine reads the question and hands it to the judge.
TestReads(a) ==
  /\ test[a].at = "sent"
  /\ test' = [test EXCEPT ![a] =
       IF ~q.there \/ (section = "hacking" /\ @.id \notin CopyIds) THEN NoTest
       ELSE [@ EXCEPT !.at = "judged",
               !.content = IF section = "puzzles" THEN q.content
                           ELSE CHOOSE c \in ToSet(q.content) : c.id = test[a].id]]
  /\ UNCHANGED <<section, q, builder, update, ghosts, left>>

Passed(t) == IF section = "puzzles" THEN Scores(t.content, t.input) ELSE t.content.code = t.input

\* And writes what it found, in a second transaction, of whatever the row holds by now.
TestWrites(a) ==
  /\ test[a].at = "judged"
  /\ q' = IF ~q.there THEN q
          ELSE IF section = "puzzles" THEN [q EXCEPT !.ready = Passed(test[a])]
          ELSE Recorded(test[a].id, Passed(test[a]))
  /\ shown' = IF Passed(test[a]) THEN shown \cup {test[a].content} ELSE shown
  /\ raced' = (raced \/ test[a].content \notin (IF section = "puzzles" THEN {q.content} ELSE ToSet(q.content)))
  /\ test' = [test EXCEPT ![a].at = "written"]
  /\ UNCHANGED <<section, builder, update, written, left>>

\* onChanged.
TestAnswered(a) ==
  /\ test[a].at = "written"
  /\ test' = [test EXCEPT ![a] = NoTest]
  /\ Reload(a) /\ StillWritten(a)
  /\ UNCHANGED <<section, q, update, shown, raced, left>>

-----------------------------------------------------------------------------
(* The controls of one question, on the list and under Verify & publish.    *)

\* The menu of a puzzle in the list.
PuzzleMenu(r) ==
  (CASE StateOf(r) = "live" -> {"unpublish"} [] StateOf(r) = "ready" -> {"publish"} [] OTHER -> {})
    \cup (IF r.voided THEN {} ELSE {"void"})
    \cup (IF r.published THEN {} ELSE {"delete"})

\* The menu of a hacking question, which cannot be deleted.
HackMenu(r) ==
  (CASE StateOf(r) = "live" -> {"unpublish"} [] StateOf(r) = "ready" -> {"publish"} [] OTHER -> {})
    \cup (IF r.voided THEN {} ELSE {"void"})

\* The buttons under Verify & publish of a puzzle.
PuzzleControls(r) ==
  (IF r.published THEN {"unpublish"} ELSE IF r.ready /\ ~r.voided THEN {"publish"} ELSE {})
    \cup (IF r.voided THEN {} ELSE {"void"})
    \cup (IF r.published THEN {} ELSE {"delete"})

\* And of a hacking question.
HackControls(r) ==
  (IF r.published THEN {"unpublish"} ELSE IF r.ready /\ ~r.voided THEN {"publish"} ELSE {})
    \cup (IF r.voided THEN {} ELSE {"void"})

Menu(r) == IF section = "puzzles" THEN PuzzleMenu(r) ELSE HackMenu(r)
VerifyControls(r) == IF section = "puzzles" THEN PuzzleControls(r) ELSE HackControls(r)

Accepts(control) ==
  q.there /\ CASE control = "publish" -> q.ready
               [] control = "delete" -> ~q.published
               [] OTHER -> TRUE

Acted(control) ==
  CASE control = "publish" -> [q EXCEPT !.published = TRUE]
    [] control = "unpublish" -> [q EXCEPT !.published = FALSE]
    [] control = "void" -> [q EXCEPT !.voided = TRUE]
    [] control = "delete" -> [q EXCEPT !.there = FALSE]

\* An author acts on what the page last read; the engine checks it against the row.  The
\* page reads the question again.
Control(a, control) ==
  /\ builder[a].open
  /\ control \in VerifyControls(builder[a].row) \cup Menu(builder[a].row)
  /\ Accepts(control)
  /\ q' = Acted(control)
  /\ builder' = [builder EXCEPT ![a] = IF control = "delete" THEN [@ EXCEPT !.open = FALSE]
                                        ELSE [Merged(@, Form(q.content)) EXCEPT !.row = q']]
  /\ StillWritten(a)
  /\ UNCHANGED <<section, update, test, shown, raced, left>>

Controls == {"publish", "unpublish", "void", "delete"}

Author(a) ==
  \/ OpenBuilder(a) \/ EditKind(a) \/ EditOptions(a) \/ EditKey(a) \/ EditCopies(a)
  \/ Discard(a)
  \/ Save(a) \/ SaveStored(a) \/ SaveAnswered(a)
  \/ RunSelfTest(a) \/ ProveCopy(a) \/ TestReads(a) \/ TestWrites(a) \/ TestAnswered(a)
  \/ \E c \in Controls : Control(a, c)

-----------------------------------------------------------------------------

NewQuestion(content) ==
  [there |-> TRUE, published |-> FALSE, ready |-> FALSE, voided |-> FALSE, content |-> content,
   proven |-> {}, nextId |-> IF section = "hacking" THEN Len(content) + 1 ELSE 1]

\* create: a draft, as the wizard's last step sends it.
AuthoringInit ==
  /\ section \in Sections
  /\ q = NewQuestion(IF section = "puzzles" THEN Puzzle("mcq_single", "auto", SetToSeq(Words \ {""}), 1)
                     ELSE <<Copy(1, CHOOSE l \in Languages : TRUE, CHOOSE c \in Codes : TRUE)>>)
  /\ builder = [a \in Authors |-> [open |-> FALSE, form |-> q.content, initial |-> q.content, row |-> q]]
  /\ update = [a \in Authors |-> NoUpdate]
  /\ test = [a \in Authors |-> NoTest]
  /\ shown = {} /\ raced = FALSE
  /\ written = [a \in Authors |-> q.content]
  /\ left \in Budgets
=============================================================================
