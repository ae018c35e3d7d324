-------------------------------- MODULE Grading --------------------------------
(***************************************************************************)
(* The evaluator's page (web grade/page), the engine's grade and the       *)
(* standings made of the marks, on top of Section A.  One participant's    *)
(* answers are marked, so the card on screen is always theirs: a card is   *)
(* keyed by the participant and survives a change of question.             *)
(***************************************************************************)
EXTENDS Puzzles

CONSTANTS
  MaxMarks,         \* bound: how much is typed
  Marks             \* what may be typed into a field, too many points included

ASSUME GradingAssumption == MaxMarks \in Nat /\ Marks \subseteq Nat

VARIABLES
  gpage,        \* the page: which question is shown, the rows it has loaded
  gcard,        \* AnswerCard: the marks in its fields
  gtimer,       \* its pending save
  gsends,       \* grades under way
  marked,       \* what the evaluator typed, for the properties only
  slips, marks  \* what went wrong, and the bound

grader == <<gpage, gcard, gtimer, gsends, marked, slips, marks>>
vars == <<puzzleVars, grader>>

Full == 1                       \* points and explain_points of every question
NoMark == [q |-> None, manual |-> None, explain |-> None, flagged |-> None, n |-> 0]

ByHand(q) == q \notin Validated

-----------------------------------------------------------------------------
(* The states of an answer, as the page lists them.                         *)

Done(q, r) == (ByHand(q) => r.manual # None) /\ r.explain # None
Blank(q, r) == (ByHand(q) => r.answer = None) /\ r.why = None

StateOf(q, r) ==
  IF r.flagged THEN "flagged"
  ELSE IF Done(q, r) THEN "done"
  ELSE IF r.manual # None \/ r.explain # None THEN "partial"
  ELSE IF Blank(q, r) THEN "blank"
  ELSE "todo"

\* The queue lists what has been answered.
InQueue == {q \in Questions : gpage.rows[q].exists}
Blanks == {q \in InQueue : q = gpage.q /\ StateOf(q, gpage.rows[q]) = "blank"}

-----------------------------------------------------------------------------
(* The engine.                                                              *)

\* grade: fields left out keep what they had.
Graded(r, b) ==
  IF ~r.exists THEN r
  ELSE [r EXCEPT !.manual = IF b.manual = None THEN @ ELSE b.manual,
                 !.explain = IF b.explain = None THEN @ ELSE b.explain,
                 !.flagged = IF b.flagged = None THEN @ ELSE b.flagged]

Refused(b) ==
  \/ b.manual # None /\ (~ByHand(b.q) \/ b.manual > Full)
  \/ b.explain # None /\ b.explain > Full

-----------------------------------------------------------------------------
(* The page.                                                                *)

gEngine == <<phase, finished, scoring, page, sends, ghosts>>

CardFor(q, r) == [manual |-> r.manual, explain |-> r.explain, flagged |-> r.flagged]

\* Opening the page reads the queue and mounts the card of the question shown.  The queue
\* may be opened at any time; an instance opens it when the section is over, its scores are
\* in, nothing of it is on its way and nothing went wrong with it.
OpenQueue(q) ==
  /\ gpage.at = "gone"
  /\ phase = "closed" /\ sheet.at = "gone" /\ detached = {} /\ sends = {} /\ excuse = {}
  /\ collected = {} /\ \A r \in Questions : row[r].state \notin {"pending", "queued"}
  /\ row[q].exists
  /\ gpage' = [at |-> "shown", q |-> q, rows |-> row, stale |-> FALSE]
  /\ gcard' = CardFor(q, row[q])
  /\ UNCHANGED <<gEngine, row, gtimer, gsends, marked, slips, marks>>

\* load, after a save.
ReloadQueue ==
  /\ gpage.at = "shown" /\ gpage.stale
  /\ gpage' = [gpage EXCEPT !.rows = row, !.stale = FALSE]
  /\ UNCHANGED <<gEngine, row, gcard, gtimer, gsends, marked, slips, marks>>

\* Another question; the same participant's card stays as it is.
ChooseQuestion(q) ==
  /\ gpage.at = "shown" /\ q \in InQueue /\ q # gpage.q
  /\ gpage' = [gpage EXCEPT !.q = q]
  /\ slips' = slips \cup {"same card"}
  /\ UNCHANGED <<gEngine, row, gcard, gtimer, gsends, marked, marks>>

\* Mutant: the flag is sent as it was loaded.
BodyAsLoaded(c) ==
  [q |-> gpage.q, manual |-> IF ByHand(gpage.q) THEN c.manual ELSE None,
   explain |-> c.explain, flagged |-> gpage.rows[gpage.q].flagged, n |-> marks + 1]

\* What save sends: the fields as they were when it was scheduled.
Body(c) ==
  [q |-> gpage.q, manual |-> IF ByHand(gpage.q) THEN c.manual ELSE None,
   explain |-> c.explain, flagged |-> c.flagged, n |-> marks + 1]

TypeMark ==
  /\ gpage.at = "shown" /\ marks < MaxMarks
  /\ marks' = marks + 1
  /\ \E m \in Marks :
       \/ /\ ByHand(gpage.q) /\ gcard' = [gcard EXCEPT !.manual = m]
          /\ marked' = [marked EXCEPT ![gpage.q].manual = m]
       \/ /\ gcard' = [gcard EXCEPT !.explain = m]
          /\ marked' = [marked EXCEPT ![gpage.q].explain = m]
  /\ gtimer' = Body(gcard')
  /\ UNCHANGED <<gEngine, row, gpage, gsends, slips>>

\* The flag is saved at once; a pending save still holds the old one.
Flag ==
  /\ gpage.at = "shown" /\ marks < MaxMarks
  /\ marks' = marks + 1
  /\ gcard' = [gcard EXCEPT !.flagged = ~@]
  /\ marked' = [marked EXCEPT ![gpage.q].flagged = gcard'.flagged]
  /\ gsends' = gsends \cup {Body(gcard')}
  /\ slips' = IF gtimer # NoMark THEN slips \cup {"flagged early"} ELSE slips
  /\ UNCHANGED <<gEngine, row, gpage, gtimer>>

MarkTimerFires ==
  /\ gtimer # NoMark
  /\ gsends' = gsends \cup {gtimer}
  /\ gtimer' = NoMark
  /\ UNCHANGED <<gEngine, row, gpage, gcard, marked, slips, marks>>

\* "Mark all blanks 0", of the question shown.
ZeroBlanks ==
  /\ gpage.at = "shown" /\ marks < MaxMarks /\ Blanks # {}
  /\ marks' = marks + 1
  /\ gsends' = gsends \cup
       {[q |-> q, manual |-> IF ByHand(q) THEN 0 ELSE None, explain |-> 0, flagged |-> None, n |-> marks + 1] :
          q \in Blanks}
  /\ marked' = [q \in Questions |->
       IF q \in Blanks THEN [marked[q] EXCEPT !.manual = IF ByHand(q) THEN 0 ELSE @, !.explain = 0] ELSE marked[q]]
  /\ slips' = slips \cup {"zeroed"}
  /\ UNCHANGED <<gEngine, row, gpage, gcard, gtimer>>

\* A grade reaches the engine, is stored or refused, and is answered.
GradeArrives(b) ==
  /\ b \in gsends
  /\ gsends' = gsends \ {b}
  /\ IF Refused(b) THEN /\ slips' = slips \cup {"refused"}
                        /\ UNCHANGED <<row, gpage>>
     ELSE /\ row' = [row EXCEPT ![b.q] = Graded(row[b.q], b)]
          /\ gpage' = [gpage EXCEPT !.stale = gpage.at = "shown"]
          /\ slips' = IF \E o \in gsends : o.q = b.q /\ o.n < b.n THEN slips \cup {"overtaken"} ELSE slips
  /\ UNCHANGED <<gEngine, gcard, gtimer, marked, marks>>

Evaluator ==
  \/ ReloadQueue \/ TypeMark \/ Flag \/ MarkTimerFires \/ ZeroBlanks
  \/ \E q \in Questions : OpenQueue(q) \/ ChooseQuestion(q)
  \/ \E b \in gsends : GradeArrives(b)

-----------------------------------------------------------------------------

Init ==
  /\ PuzzlesInit
  /\ gpage = [at |-> "gone", q |-> CHOOSE q \in Questions : TRUE, rows |-> row, stale |-> FALSE]
  /\ gcard = [manual |-> None, explain |-> None, flagged |-> FALSE]
  /\ gtimer = NoMark /\ gsends = {}
  /\ marked = [q \in Questions |-> [manual |-> None, explain |-> None, flagged |-> FALSE]]
  /\ slips = {} /\ marks = 0

Next ==
  \/ (Participant \/ Scheduler) /\ UNCHANGED grader
  \/ Evaluator

Spec == Init /\ [][Next]_vars

\* The scheduler runs every second; requests on their way arrive.
Fairness ==
  /\ \A q \in Questions : WF_vars(SendOne(q) /\ UNCHANGED grader) /\ WF_vars(Collect(q) /\ UNCHANGED grader)
  /\ WF_vars((\E c \in collected : Settle(c)) /\ UNCHANGED grader)

FairSpec == Spec /\ Fairness

-----------------------------------------------------------------------------
(* What the section promises.                                               *)

Mark == Marks \cup {None}

\* Every variable holds what its column, its state or its field may hold.
TypeOK ==
  /\ phase \in {"open", "over", "closed"} /\ finished \in BOOLEAN
  /\ \A q \in Questions :
       /\ row[q].answer \in Answers \cup {None} /\ row[q].why \in Reasons \cup {None}
       /\ row[q].state \in {"none", "pending", "queued", "done", "error"}
       /\ row[q].job \in 0..Len(job)
       /\ {row[q].manual, row[q].explain} \subseteq 0..Full \cup {None}
  /\ sheet.at \in {"gone", "loading", "shown"} /\ sheet.current \in Questions
  /\ card.status \in {"idle", "saving", "saved", "failed"}
  /\ gpage.q \in Questions /\ {gcard.manual, gcard.explain} \subseteq Mark

Quiet == timer = NoSave /\ detached = {} /\ sends = {}
Stands(q) == row[q].answer = typed[q].answer /\ row[q].why = typed[q].why

\* When nothing is on its way, what was typed last is what the engine holds, for every
\* question: however the saves of one card, of the next and of the one before it interleave,
\* unless a request was refused or overtaken, or the browser was reloaded before it was sent,
\* or the one timer a card has was started again by its other field.
AnswersKept == Quiet /\ excuse = {} => \A q \in Questions : Stands(q)

\* US-P4-03: "GIVEN an answer or explanation being typed, THEN it is persisted automatically"
\* (docs/requirements-phase1.md:372): whatever was typed, once nothing is on its way and no
\* request was refused, overtaken or left behind by a reload, the engine holds it.
TypedIsPersisted == Quiet /\ excuse \subseteq {"overtyped"} => \A q \in Questions : Stands(q)

\* A score is the score of the answer as it stands at the end: no answer is saved after the
\* section's answers were sent to be scored, no late job scores a resent answer, and a validator
\* that did not run never scores zero.
ScoreIsOfTheAnswer ==
  \A q \in Validated : row[q].state = "done" => row[q].auto = Worth(row[q].answer)

\* The marks the engine holds are those typed for that question, once they have arrived: unless
\* one was refused or overtaken, the flag was pressed before the marks were sent, or the card
\* of another question was still on screen.
MarksAreTheirs ==
  gtimer = NoMark /\ gsends = {} /\ slips = {} =>
    \A q \in Questions : row[q].exists =>
      /\ marked[q].manual # None => row[q].manual = marked[q].manual
      /\ marked[q].explain # None => row[q].explain = marked[q].explain
      /\ row[q].flagged = marked[q].flagged

\* Once the section is closed, every answer a validator checks gets its score or is flagged for
\* a person, whatever the judge forgets and however often it fails.
EveryAnswerScored ==
  \A q \in Validated : phase = "closed" /\ row[q].exists ~> row[q].state \in {"done", "error"}

\* Every score and every mark belongs to the answer it stands beside: a validator's to the
\* answer as it was at the close, an evaluator's to the question it was typed for.
MarkedAsGiven == TypeOK /\ ScoreIsOfTheAnswer /\ MarksAreTheirs
=============================================================================
