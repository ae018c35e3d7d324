-------------------------------- MODULE Puzzles --------------------------------
(***************************************************************************)
(* Section A of Phase 1: the page on which one participant answers the     *)
(* puzzles (web contest/section-a with phase1/puzzle-card), the engine     *)
(* that stores the answers (engine/phase1/puzzles), the close of the       *)
(* section and the scoring that follows it (engine/phase1/validator_jobs). *)
(*                                                                         *)
(* The page saves by itself: an edit starts a timer, the timer sends a     *)
(* request, the request reaches the engine and its answer comes back, each *)
(* a step of its own.  Requests overtake one another.                      *)
(***************************************************************************)
EXTENDS Integers, FiniteSets, Sequences, Functions

CONSTANTS
  Questions,        \* published puzzles; all of them ask for reasoning too
  Validated,        \* those a validator scores; the others are marked by hand
  Answers, Reasons, \* well-formed answers, and explanations
  \* Bounds of an instance, not of the program.
  MaxEdits, MaxOpens, MaxJobs, MaxFaults,
  Faults            \* which faults happen: "request", "answer", "judge", "forget", "IE"

CONSTANTS None, Malformed

\* There is a puzzle, and None is no value of any field.
ASSUME PuzzlesAssumption ==
  /\ Questions # {} /\ Validated \subseteq Questions
  /\ {MaxEdits, MaxOpens, MaxJobs, MaxFaults} \subseteq Nat
  /\ None \notin Questions /\ None \notin Answers /\ None \notin Reasons
  /\ None \notin Nat /\ None \notin BOOLEAN

VARIABLES
  phase,        \* "open", "over" once phase_ends_at has passed, "closed" after p1_puzzles
  finished,     \* p1_puzzles_finished_at is set
  row,          \* p1_answer of this participant
  job,          \* the judge's jobs: the answer each one checks
  collected,    \* what pollers have learnt of a job and not written yet
  sheet,        \* the page: what it has loaded, which question it shows
  card,         \* LiveQuestion of that question
  timer,        \* its pending save
  detached,     \* pending saves of cards that are gone
  sends,        \* saves under way
  reads         \* a load of the section is under way

\* What was typed and what went wrong, kept for the properties only.
VARIABLES typed, excuse, edits, faults

engine == <<phase, finished, row>>
scoring == <<job, collected>>
page == <<sheet, card, timer, detached, reads>>
ghosts == <<typed, excuse, edits, faults>>
puzzleVars == <<engine, scoring, page, sends, ghosts>>

Fault(kind) == kind \in Faults /\ faults < MaxFaults /\ faults' = faults + 1

-----------------------------------------------------------------------------
(* The engine's rows.                                                       *)

NoRow == [exists |-> FALSE, answer |-> None, why |-> None, auto |-> None, manual |-> None,
          explain |-> None, flagged |-> FALSE, state |-> "none", job |-> 0]

\* A save names the fields it changes: the others are None.
NoSave == [q |-> None, answer |-> None, why |-> None, n |-> 0]

\* Mutant: the fields a save does not name are cleared.
StoredWhole(r, s) ==
  [r EXCEPT !.exists = TRUE, !.answer = s.answer, !.why = s.why,
            !.auto = IF s.answer = None THEN @ ELSE None]

\* save_answer's upsert; nothing here is scored on save (no answer key).
Stored(r, s) ==
  [r EXCEPT !.exists = TRUE,
            !.answer = IF s.answer = None THEN @ ELSE s.answer,
            !.auto = IF s.answer = None THEN @ ELSE None,
            !.why = IF s.why = None THEN @ ELSE s.why]

\* _check_section_open, under the contest's shared lock.
SectionOpen == phase = "open" /\ ~finished

-----------------------------------------------------------------------------
(* The page.                                                                *)

Loaded == [open |-> phase = "open",
           answers |-> [q \in Questions |-> [answer |-> row[q].answer, why |-> row[q].why]]]

NoSheet == [at |-> "gone", opened |-> 0, finished |-> FALSE, current |-> CHOOSE q \in Questions : TRUE,
            data |-> [open |-> TRUE, answers |-> [q \in Questions |-> [answer |-> None, why |-> None]]]]
NoCard == [answer |-> None, why |-> None, status |-> "idle"]

\* LiveQuestion as it is mounted, and its two fields that may be blank.
CardOf(data, q) == [answer |-> data.answers[q].answer, why |-> data.answers[q].why, status |-> "idle"]

Locked == ~sheet.data.open \/ sheet.finished

\* A card goes away; its timer and its requests do not.
Detach ==
  /\ detached' = IF timer = NoSave THEN detached ELSE detached \cup {timer}
  /\ timer' = NoSave
  /\ sends' = {[s EXCEPT !.mine = FALSE] : s \in sends}

\* The phase's screen is mounted and asks for the section.  A reload of the browser
\* takes the timers with it.
OpenSheet ==
  /\ phase # "closed" /\ sheet.opened < MaxOpens
  /\ sheet' = [sheet EXCEPT !.at = "loading", !.opened = @ + 1, !.finished = finished]
  /\ reads' = TRUE
  /\ excuse' = IF timer # NoSave \/ detached # {} THEN excuse \cup {"reloaded"} ELSE excuse
  /\ timer' = NoSave /\ detached' = {}
  /\ sends' = {[s EXCEPT !.mine = FALSE] : s \in sends}
  /\ UNCHANGED <<engine, scoring, card, typed, edits, faults>>

\* load: read and shown in one step, for what a card sends never depends on it.  The
\* first one mounts the current question's card.
Load ==
  /\ reads
  /\ reads' = FALSE
  /\ sheet' = [sheet EXCEPT !.at = "shown", !.data = Loaded]
  /\ card' = IF sheet.at = "loading" THEN CardOf(Loaded, sheet.current) ELSE card
  /\ UNCHANGED <<engine, scoring, timer, detached, sends, ghosts>>

\* The rail, the arrows: another question, whose card is a new one.
ShowQuestion(q) ==
  /\ sheet.at = "shown" /\ q # sheet.current
  /\ sheet' = [sheet EXCEPT !.current = q]
  /\ card' = CardOf(sheet.data, q)
  /\ Detach
  /\ UNCHANGED <<engine, scoring, reads, ghosts>>

\* schedule: one timer, restarted by every edit of the card, with this edit's field.
Schedule(save) ==
  /\ edits < MaxEdits
  /\ edits' = edits + 1
  /\ excuse' = IF \/ timer.answer # None /\ save.answer = None
                  \/ timer.why # None /\ save.why = None
                 THEN excuse \cup {"overtyped"} ELSE excuse
  /\ timer' = save

\* onAnswer: a malformed answer is shown and not saved.
TypeAnswer(a) ==
  /\ sheet.at = "shown" /\ ~Locked /\ a # card.answer
  /\ IF a = Malformed
       THEN /\ edits < MaxEdits /\ edits' = edits + 1
            /\ card' = [card EXCEPT !.answer = a]
            /\ UNCHANGED <<timer, typed, excuse>>
       ELSE /\ card' = [card EXCEPT !.answer = a, !.status = "saving"]
            /\ Schedule([NoSave EXCEPT !.q = sheet.current, !.answer = a, !.n = edits + 1])
            /\ typed' = [typed EXCEPT ![sheet.current].answer = a]
  /\ UNCHANGED <<engine, scoring, sheet, detached, reads, sends, faults>>

\* onExplanation.
TypeReason(w) ==
  /\ sheet.at = "shown" /\ ~Locked /\ w # card.why
  /\ card' = [card EXCEPT !.why = w, !.status = "saving"]
  /\ Schedule([NoSave EXCEPT !.q = sheet.current, !.why = w, !.n = edits + 1])
  /\ typed' = [typed EXCEPT ![sheet.current].why = w]
  /\ UNCHANGED <<engine, scoring, sheet, detached, reads, sends, faults>>

Send(s, mine) == sends' = sends \cup {[save |-> s, mine |-> mine]}

\* 700 ms after the last edit: timers fire in the order in which they were started.
TimerFires ==
  \/ /\ timer # NoSave /\ detached = {}
     /\ Send(timer, TRUE)
     /\ timer' = NoSave
     /\ UNCHANGED <<engine, scoring, sheet, card, detached, reads, ghosts>>
  \/ \E s \in detached :
       /\ \A o \in detached : s.n <= o.n
       /\ Send(s, FALSE)
       /\ detached' = detached \ {s}
       /\ UNCHANGED <<engine, scoring, sheet, card, timer, reads, ghosts>>

Overtakes(s) == \E o \in sends : o.save.q = s.save.q /\ o.save.n < s.save.n

\* The card, while it is there, says what became of its request.
Says(s, status) == card' = IF s.mine THEN [card EXCEPT !.status = status] ELSE card

\* The request reaches the engine, before or after those sent with it, and is stored or
\* refused; the section is loaded again.
SaveArrives(s) ==
  /\ s \in sends /\ sends' = sends \ {s}
  /\ IF SectionOpen
       THEN /\ row' = [row EXCEPT ![s.save.q] = Stored(row[s.save.q], s.save)]
            /\ excuse' = IF Overtakes(s) THEN excuse \cup {"overtaken"} ELSE excuse
            /\ \/ Says(s, "saved") /\ reads' = (sheet.at # "gone") /\ UNCHANGED faults
               \/ Says(s, "failed") /\ Fault("answer") /\ UNCHANGED reads
       ELSE /\ excuse' = excuse \cup {"refused"}
            /\ Says(s, "failed")
            /\ UNCHANGED <<row, reads, faults>>
  /\ UNCHANGED <<phase, finished, scoring, sheet, timer, detached, typed, edits>>

\* Or it is lost on the way.
SaveLost(s) ==
  /\ s \in sends /\ sends' = sends \ {s}
  /\ Fault("request")
  /\ excuse' = excuse \cup {"refused"}
  /\ Says(s, "failed")
  /\ UNCHANGED <<engine, scoring, sheet, timer, detached, reads, typed, edits>>

\* "Finish": a second press moves the time only.  The page knows once it is answered.
Finish ==
  /\ sheet.at = "shown" /\ ~Locked /\ phase # "closed"
  /\ finished' = TRUE
  /\ sheet' = [sheet EXCEPT !.finished = TRUE]
  /\ reads' = TRUE
  /\ UNCHANGED <<phase, row, scoring, card, timer, detached, sends, ghosts>>

\* The page hears of the next phase and shows another screen.
LeaveSheet ==
  /\ phase = "closed" /\ sheet.at # "gone"
  /\ sheet' = NoSheet /\ card' = NoCard
  /\ reads' = FALSE
  /\ Detach
  /\ UNCHANGED <<engine, scoring, ghosts>>

Participant ==
  \/ OpenSheet \/ Load \/ TimerFires \/ Finish \/ LeaveSheet
  \/ \E q \in Questions : ShowQuestion(q)
  \/ \E a \in Answers \cup {Malformed} : TypeAnswer(a)
  \/ \E w \in Reasons : TypeReason(w)
  \/ \E s \in sends : SaveArrives(s) \/ SaveLost(s)

-----------------------------------------------------------------------------
(* The close, and the scores of the answers a validator checks.             *)

\* The time is over; nobody may answer although the phase stays.
TimeUp ==
  /\ phase = "open"
  /\ phase' = "over"
  /\ UNCHANGED <<finished, row, scoring, page, sends, ghosts>>

\* Mutant: only rows that hold an answer are scored.
ToScoreAnswered(r) == r.answer # None

ToScore(r) == r.exists

\* advance, away from p1_puzzles, with the contest locked; queue_validator_scoring.
CloseSection ==
  /\ phase \in {"open", "over"}
  /\ phase' = "closed"
  /\ row' = [q \in Questions |->
       IF q \in Validated /\ ToScore(row[q]) THEN [row[q] EXCEPT !.state = "pending", !.job = 0] ELSE row[q]]
  /\ UNCHANGED <<finished, scoring, page, sends, ghosts>>

\* The points of an answer: a well-formed one is one valid entry.
Worth(a) == IF a = None THEN 0 ELSE 1

\* _send_one_validator_job, with the row locked.
SendOne(q) ==
  /\ row[q].state = "pending"
  /\ IF row[q].answer = None
       THEN /\ row' = [row EXCEPT ![q].state = "done", ![q].auto = 0]
            /\ UNCHANGED job
       ELSE /\ Len(job) < MaxJobs
            /\ job' = Append(job, row[q].answer)
            /\ row' = [row EXCEPT ![q].state = "queued", ![q].job = Len(job) + 1]
  /\ UNCHANGED <<phase, finished, collected, page, sends, ghosts>>

\* The judge is asked for a job, and forgets it or answers.  IE: the validator did not run.
Collect(q) ==
  /\ row[q].state = "queued"
  /\ \E outcome \in {"checked", "IE", "gone"} :
       /\ CASE outcome = "checked" -> UNCHANGED faults
            [] outcome = "IE" -> Fault("IE")
            [] outcome = "gone" -> Fault("forget")
       /\ collected' = collected \cup {[q |-> q, job |-> row[q].job, outcome |-> outcome]}
  /\ UNCHANGED <<engine, job, page, sends, typed, excuse, edits>>

WaitsFor(r, c) == r.state = "queued" /\ r.job = c.job

\* What _collect_validator_job writes.
Scored(r, c) ==
  CASE c.outcome = "gone" -> [r EXCEPT !.state = "pending", !.job = 0]
    [] c.outcome = "IE" -> [r EXCEPT !.state = "error"]
    [] OTHER -> [r EXCEPT !.state = "done", !.auto = Worth(job[c.job])]

\* _set_score.
Settle(c) ==
  /\ c \in collected
  /\ collected' = collected \ {c}
  /\ row' = IF WaitsFor(row[c.q], c) THEN [row EXCEPT ![c.q] = Scored(row[c.q], c)] ELSE row
  /\ UNCHANGED <<phase, finished, job, page, sends, ghosts>>

Scheduler ==
  \/ TimeUp \/ CloseSection
  \/ \E q \in Questions : SendOne(q) \/ Collect(q)
  \/ \E c \in collected : Settle(c)

-----------------------------------------------------------------------------

PuzzlesInit ==
  /\ phase = "open" /\ finished = FALSE
  /\ row = [q \in Questions |-> NoRow]
  /\ job = << >> /\ collected = {}
  /\ sheet = NoSheet /\ card = NoCard
  /\ timer = NoSave /\ detached = {} /\ sends = {} /\ reads = FALSE
  /\ typed = [q \in Questions |-> [answer |-> None, why |-> None]]
  /\ excuse = {} /\ edits = 0 /\ faults = 0
=============================================================================
