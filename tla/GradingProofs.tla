----------------------------- MODULE GradingProofs -----------------------------
(***************************************************************************)
(* Section A for any number of puzzles, answers, edits, jobs and grades:   *)
(* what was typed is what is stored, what is scored is what is stored, and *)
(* what was marked is what counts.  The saves under way are put in one     *)
(* order, the order in which they were typed; likewise the grades.         *)
(***************************************************************************)
EXTENDS Grading, SequenceTheorems, TLAPS

AnswerT == Answers \cup {None}
ReasonT == Reasons \cup {None}
PointsT == 0..Full \cup {None}
RowT == [exists : BOOLEAN, answer : AnswerT, why : ReasonT, auto : {None, 0, 1},
         manual : PointsT, explain : PointsT, flagged : BOOLEAN,
         state : {"none", "pending", "queued", "done", "error"}, job : Nat]
SaveT == [q : Questions, answer : AnswerT, why : ReasonT, n : Nat]
FieldsT == [answer : AnswerT, why : ReasonT]

\* The types of Section A.
SheetTypes ==
  /\ phase \in {"open", "over", "closed"} /\ finished \in BOOLEAN
  /\ row \in [Questions -> RowT]
  /\ job \in Seq(Answers)
  /\ collected \subseteq [q : Questions, job : Nat, outcome : {"checked", "IE", "gone"}]
  /\ sheet \in [at : {"gone", "loading", "shown"}, opened : Nat, finished : BOOLEAN,
                current : Questions,
                data : [open : BOOLEAN, answers : [Questions -> FieldsT]]]
  /\ card \in [answer : AnswerT \cup {Malformed}, why : ReasonT,
               status : {"idle", "saving", "saved", "failed"}]
  /\ timer = NoSave \/ timer \in SaveT
  /\ detached \subseteq SaveT
  /\ sends \subseteq [save : SaveT, mine : BOOLEAN]
  /\ typed \in [Questions -> FieldsT]
  /\ edits \in Nat

\* The types of the evaluator's page.
CardT == [manual : Mark, explain : Mark, flagged : BOOLEAN]
MarkedT == [manual : Mark \cup {0}, explain : Mark \cup {0}, flagged : BOOLEAN]
BodyT == [q : Questions, manual : Mark \cup {0}, explain : Mark \cup {0},
          flagged : BOOLEAN \cup {None}, n : Nat]
GraderTypes ==
  /\ gpage \in [at : {"gone", "shown"}, q : Questions, rows : [Questions -> RowT], stale : BOOLEAN]
  /\ gcard \in CardT
  /\ gtimer = NoMark \/ gtimer \in BodyT
  /\ gsends \subseteq BodyT
  /\ marked \in [Questions -> MarkedT]
  /\ marks \in Nat

-----------------------------------------------------------------------------
(* The scores.                                                              *)

\* Nothing is scored before the close; a row that waits, waits for a job that checks its
\* answer.
ScoringInv ==
  \A q \in Questions :
    /\ phase # "closed" => row[q].state = "none"
    /\ row[q].job <= Len(job)
    /\ row[q].state = "queued" => row[q].job \in 1..Len(job) /\ job[row[q].job] = row[q].answer
    /\ row[q].state = "done" => row[q].auto = Worth(row[q].answer)

-----------------------------------------------------------------------------
(* The saves.                                                               *)

\* All that is under way: of this card, of cards that are gone, and sent.
Pending == {s.save : s \in sends} \cup detached \cup (IF timer = NoSave THEN {} ELSE {timer})

\* They left in the order in which they were typed, and will.
SavesInOrder ==
  /\ \A s \in Pending : s.n \in 1..edits
  /\ \A s, o \in Pending : s.n = o.n => s = o
  /\ \A s, o \in sends : s.save.n = o.save.n => s = o
  /\ \A s \in sends : \A d \in detached : s.save.n < d.n
  /\ timer # NoSave => /\ timer.q = sheet.current
                       /\ \A d \in detached : d.n < timer.n
                       /\ \A s \in sends : s.save.n < timer.n

\* The pending saves of one field of one question, and what the newest of them holds.
AnswersOf(q) == {s \in Pending : s.q = q /\ s.answer # None}
ReasonsOf(q) == {s \in Pending : s.q = q /\ s.why # None}
Newest(S) == {s \in S : \A o \in S : o.n <= s.n}

\* The last value typed is in the newest save, or in the row when there is none.
NothingForgotten ==
  excuse = {} =>
    \A q \in Questions :
      /\ AnswersOf(q) = {} => row[q].answer = typed[q].answer
      /\ \A s \in Newest(AnswersOf(q)) : s.answer = typed[q].answer
      /\ ReasonsOf(q) = {} => row[q].why = typed[q].why
      /\ \A s \in Newest(ReasonsOf(q)) : s.why = typed[q].why

-----------------------------------------------------------------------------
(* The marks.                                                               *)

Unmarked == [manual |-> None, explain |-> None, flagged |-> FALSE]
MarksOf(r) == [manual |-> r.manual, explain |-> r.explain, flagged |-> r.flagged]

\* The grades under way, the scheduled one included.
Grades == gsends \cup (IF gtimer = NoMark THEN {} ELSE {gtimer})

Q == gpage.q

\* Before the queue is opened nobody has marked anything.
NothingMarked ==
  gpage.at = "gone" =>
    /\ Grades = {}
    /\ \A q \in Questions : marked[q] = Unmarked /\ MarksOf(row[q]) = Unmarked

\* While nothing slips, every grade is of the question shown, they leave in the order in
\* which they were typed, the newest says what the card says and so does the row when
\* there is none; and what was typed is on the card.
MarksInOrder ==
  slips = {} /\ gpage.at = "shown" =>
    /\ row[Q].exists
    /\ \A q \in Questions \ {Q} : marked[q] = Unmarked /\ row[q].flagged = FALSE
    /\ \A b \in Grades : b.q = Q /\ b.n \in 1..marks /\ (~ByHand(Q) => b.manual = None)
    /\ \A b, o \in Grades : b.n = o.n => b = o
    /\ gtimer # NoMark => \A b \in gsends : b.n < gtimer.n
    /\ ~ByHand(Q) => marked[Q].manual = None
    /\ marked[Q].manual # None => gcard.manual = marked[Q].manual
    /\ marked[Q].explain # None => gcard.explain = marked[Q].explain
    /\ gcard.flagged = marked[Q].flagged
    /\ gcard.manual = None => row[Q].manual = None /\ \A b \in Grades : b.manual = None
    /\ gcard.explain = None => row[Q].explain = None /\ \A b \in Grades : b.explain = None
    /\ \A b \in Newest(Grades) : /\ ByHand(Q) => b.manual = gcard.manual
                                 /\ b.explain = gcard.explain
                                 /\ b.flagged = gcard.flagged
    /\ Grades = {} => /\ ByHand(Q) => row[Q].manual = gcard.manual
                      /\ row[Q].explain = gcard.explain
                      /\ row[Q].flagged = gcard.flagged

GradingInductive ==
  /\ SheetTypes /\ GraderTypes
  /\ ScoringInv /\ SavesInOrder /\ NothingForgotten
  /\ NothingMarked /\ MarksInOrder

-----------------------------------------------------------------------------
(* What is under way, and what a step may do to it.                         *)

LEMMA NoneIsNoValue ==
  /\ None \notin Questions /\ None \notin Answers /\ None \notin Reasons
  /\ None \notin Nat /\ None \notin BOOLEAN
  /\ NoSave \notin SaveT /\ NoMark \notin BodyT
BY PuzzlesAssumption DEF NoSave, NoMark, SaveT, BodyT

\* Pending saves have their type, and the timer's is not among the others.
LEMMA PendingTypes ==
  ASSUME SheetTypes, SavesInOrder
  PROVE  /\ Pending \subseteq SaveT
         /\ \A s \in Pending : s.n \in Nat /\ s.n <= edits
         /\ \A s \in sends : s.save \in Pending /\ s.save \in SaveT
         /\ timer # NoSave => timer \in Pending /\ timer \in SaveT
         /\ edits \in Nat
<1>1. /\ timer = NoSave \/ timer \in SaveT
      /\ detached \subseteq SaveT /\ sends \subseteq [save : SaveT, mine : BOOLEAN]
      /\ edits \in Nat
  BY DEF SheetTypes
<1>2. Pending \subseteq SaveT
  BY <1>1 DEF Pending
<1> QED BY <1>1, <1>2 DEF Pending, SavesInOrder

\* Steps that change neither what is under way nor what is stored of the answers.
SavesStay ==
  /\ Pending' = Pending /\ typed' = typed
  /\ excuse' = {} => excuse = {}
  /\ \A q \in Questions : row'[q].answer = row[q].answer /\ row'[q].why = row[q].why

LEMMA NothingForgottenStays ==
  ASSUME NothingForgotten, SavesStay
  PROVE  NothingForgotten'
BY DEF NothingForgotten, SavesStay, AnswersOf, ReasonsOf, Newest

\* A card that goes away takes nothing along.
LEMMA DetachKeepsSaves ==
  ASSUME SheetTypes, SavesInOrder, Detach, edits' = edits
  PROVE  Pending' = Pending /\ SavesInOrder' /\ timer' = NoSave
         /\ detached' \subseteq SaveT /\ sends' \subseteq [save : SaveT, mine : BOOLEAN]
<1>1. /\ timer = NoSave \/ timer \in SaveT
      /\ detached \subseteq SaveT /\ sends \subseteq [save : SaveT, mine : BOOLEAN]
  BY DEF SheetTypes
<1>2. /\ \A s \in sends' : \E o \in sends : s.save = o.save /\ s = [o EXCEPT !.mine = FALSE]
      /\ \A o \in sends : \E s \in sends' : s.save = o.save
      /\ sends' \subseteq [save : SaveT, mine : BOOLEAN]
  <2>1. \A o \in sends : o \in [save : SaveT, mine : BOOLEAN]
    BY <1>1
  <2> HIDE DEF SaveT
  <2>2. ASSUME NEW o \in [save : SaveT, mine : BOOLEAN]
        PROVE  /\ [o EXCEPT !.mine = FALSE].save = o.save
               /\ [o EXCEPT !.mine = FALSE] \in [save : SaveT, mine : BOOLEAN]
    OBVIOUS
  <2>3. sends' = {[s EXCEPT !.mine = FALSE] : s \in sends}
    BY DEF Detach
  <2>4. \A o \in sends : /\ [o EXCEPT !.mine = FALSE].save = o.save
                         /\ [o EXCEPT !.mine = FALSE] \in [save : SaveT, mine : BOOLEAN]
                         /\ [o EXCEPT !.mine = FALSE] \in sends'
    BY <2>1, <2>2, <2>3
  <2>5. \A s \in sends' : \E o \in sends : s = [o EXCEPT !.mine = FALSE]
    BY <2>3
  <2> QED BY <2>4, <2>5
<1>3. timer' = NoSave /\ detached' = detached \cup (IF timer = NoSave THEN {} ELSE {timer})
  BY DEF Detach
<1>4. Pending' = Pending
  <2>1. {s.save : s \in sends'} = {s.save : s \in sends}
    BY <1>2
  <2> QED BY <1>3, <2>1 DEF Pending
<1>5. \A s, o \in sends' : s.save.n = o.save.n => s = o
  BY <1>2 DEF SavesInOrder
<1>6. \A s \in sends' : \A d \in detached' : s.save.n < d.n
  BY <1>2, <1>3 DEF SavesInOrder
<1> QED BY <1>1, <1>2, <1>3, <1>4, <1>5, <1>6 DEF SavesInOrder

\* An edit starts the timer again: what it held is gone, the new save is the newest.
LEMMA ScheduleReplaces ==
  ASSUME SheetTypes, SavesInOrder, NEW save \in SaveT, Schedule(save),
         save.n = edits + 1, save.q = sheet.current,
         UNCHANGED <<sheet, detached, sends>>
  PROVE  /\ Pending' = (Pending \ {timer}) \cup {save}
         /\ SavesInOrder'
         /\ edits' = edits + 1 /\ timer' = save
         /\ excuse' = {} => /\ excuse = {}
                            /\ save.answer = None => timer.answer = None
                            /\ save.why = None => timer.why = None
<1>1. /\ Pending \subseteq SaveT /\ edits \in Nat
      /\ \A s \in Pending : s.n \in Nat /\ s.n <= edits
      /\ \A s \in sends : s.save \in Pending
      /\ timer # NoSave => timer \in Pending
  BY PendingTypes
<1>2. edits' = edits + 1 /\ timer' = save /\ save # NoSave
  BY NoneIsNoValue DEF Schedule
<1>3. \A s \in sends : s.save # timer
  BY <1>1, NoneIsNoValue DEF SavesInOrder
<1>4. \A d \in detached : d # timer
  BY <1>1, NoneIsNoValue DEF SavesInOrder, Pending
<1>5. Pending' = (Pending \ {timer}) \cup {save}
  BY <1>2, <1>3, <1>4 DEF Pending
<1>6. \A s \in Pending' : s.n \in 1..edits'
  BY <1>1, <1>2, <1>5 DEF SavesInOrder
<1>7. \A s, o \in Pending' : s.n = o.n => s = o
  BY <1>1, <1>2, <1>5 DEF SavesInOrder
<1>8. /\ \A d \in detached : d.n < save.n
      /\ \A s \in sends : s.save.n < save.n
  <2>1. \A s \in Pending : s.n < save.n
    BY <1>1
  <2> QED BY <1>1, <2>1 DEF Pending
<1>9. SavesInOrder'
  BY <1>2, <1>6, <1>7, <1>8 DEF SavesInOrder
<1>10. excuse' = {} => /\ excuse = {}
                       /\ save.answer = None => timer.answer = None
                       /\ save.why = None => timer.why = None
  BY DEF Schedule
<1> QED BY <1>2, <1>5, <1>9, <1>10

-----------------------------------------------------------------------------
(* What the operations do to one row.                                       *)

\* A stored save leaves a row, and touches the answers only.
LEMMA StoredRow ==
  ASSUME NEW r \in RowT, NEW s \in SaveT
  PROVE  /\ Stored(r, s) \in RowT
         /\ Stored(r, s).exists
         /\ Stored(r, s).state = r.state /\ Stored(r, s).job = r.job
         /\ MarksOf(Stored(r, s)) = MarksOf(r)
         /\ Stored(r, s).answer = (IF s.answer = None THEN r.answer ELSE s.answer)
         /\ Stored(r, s).why = (IF s.why = None THEN r.why ELSE s.why)
<1>1. Stored(r, s) = [r EXCEPT !.exists = TRUE,
            !.answer = IF s.answer = None THEN r.answer ELSE s.answer,
            !.auto = IF s.answer = None THEN r.auto ELSE None,
            !.why = IF s.why = None THEN r.why ELSE s.why]
  BY DEF Stored, RowT
<1> QED BY <1>1 DEF RowT, SaveT, MarksOf

\* Nor does the scoring touch the marks.
LEMMA ScoredRow ==
  ASSUME NEW r \in RowT, NEW c \in [q : Questions, job : Nat, outcome : {"checked", "IE", "gone"}]
  PROVE  /\ Scored(r, c) \in RowT
         /\ MarksOf(Scored(r, c)) = MarksOf(r)
         /\ Scored(r, c).exists = r.exists
         /\ Scored(r, c).answer = r.answer /\ Scored(r, c).why = r.why
         /\ \/ Scored(r, c).state = "pending" /\ Scored(r, c).job = 0
            \/ Scored(r, c).state = "error" /\ Scored(r, c).job = r.job
            \/ /\ Scored(r, c).state = "done" /\ Scored(r, c).job = r.job
               /\ Scored(r, c).auto = Worth(job[c.job])
<1>1. Worth(job[c.job]) \in {0, 1}
  BY DEF Worth
<1>2. CASE c.outcome = "gone"
  BY <1>2 DEF Scored, RowT, MarksOf
<1>3. CASE c.outcome = "IE"
  BY <1>3 DEF Scored, RowT, MarksOf
<1>4. CASE c.outcome = "checked"
  BY <1>1, <1>4 DEF Scored, RowT, MarksOf
<1> QED BY <1>2, <1>3, <1>4

\* A grade touches nothing but the marks.
LEMMA GradedRow ==
  ASSUME NEW r \in RowT, NEW b \in BodyT, ~Refused(b)
  PROVE  /\ Graded(r, b) \in RowT
         /\ Graded(r, b).exists = r.exists /\ Graded(r, b).state = r.state
         /\ Graded(r, b).job = r.job /\ Graded(r, b).auto = r.auto
         /\ Graded(r, b).answer = r.answer /\ Graded(r, b).why = r.why
         /\ r.exists =>
              /\ Graded(r, b).manual = (IF b.manual = None THEN r.manual ELSE b.manual)
              /\ Graded(r, b).explain = (IF b.explain = None THEN r.explain ELSE b.explain)
              /\ Graded(r, b).flagged = (IF b.flagged = None THEN r.flagged ELSE b.flagged)
<1>1. /\ b.manual # None => b.manual \in 0..Full
      /\ b.explain # None => b.explain \in 0..Full
      /\ b.flagged # None => b.flagged \in BOOLEAN
  <2>1. /\ b.manual # None => b.manual \in Nat /\ ~(b.manual > Full)
        /\ b.explain # None => b.explain \in Nat /\ ~(b.explain > Full)
    <3>1. b.manual \in Mark \cup {0} /\ b.explain \in Mark \cup {0}
      BY DEF BodyT
    <3>2. \A m \in Mark \cup {0} : m # None => m \in Nat
      BY GradingAssumption DEF Mark
    <3> QED BY <3>1, <3>2 DEF Refused
  <2>2. b.flagged # None => b.flagged \in BOOLEAN
    BY DEF BodyT
  <2> QED BY <2>1, <2>2 DEF Full
<1>2. CASE ~r.exists
  BY <1>2 DEF Graded
<1>3. CASE r.exists
  <2>1. Graded(r, b) = [r EXCEPT !.manual = IF b.manual = None THEN r.manual ELSE b.manual,
                 !.explain = IF b.explain = None THEN r.explain ELSE b.explain,
                 !.flagged = IF b.flagged = None THEN r.flagged ELSE b.flagged]
    BY <1>3 DEF Graded, RowT
  <2> QED BY <1>1, <1>3, <2>1 DEF RowT, PointsT
<1> QED BY <1>2, <1>3

-----------------------------------------------------------------------------
(* Types.                                                                   *)

LEMMA InitTypes ==
  ASSUME Init
  PROVE  SheetTypes /\ GraderTypes
<1>1. PuzzlesInit
  BY DEF Init
<1>2. /\ None \in AnswerT /\ None \in ReasonT /\ None \in PointsT
      /\ (CHOOSE q \in Questions : TRUE) \in Questions
  BY PuzzlesAssumption DEF AnswerT, ReasonT, PointsT
<1>3. row \in [Questions -> RowT]
  <2>1. NoRow \in RowT
    BY <1>2 DEF NoRow, RowT
  <2> QED BY <1>1, <2>1 DEF PuzzlesInit
<1>4. [answer |-> None, why |-> None] \in FieldsT
  BY <1>2 DEF FieldsT
<1>5. sheet \in [at : {"gone", "loading", "shown"}, opened : Nat, finished : BOOLEAN,
                current : Questions,
                data : [open : BOOLEAN, answers : [Questions -> FieldsT]]]
  BY <1>1, <1>2, <1>4 DEF PuzzlesInit, NoSheet
<1>6. card \in [answer : AnswerT \cup {Malformed}, why : ReasonT,
               status : {"idle", "saving", "saved", "failed"}]
  BY <1>1, <1>2 DEF PuzzlesInit, NoCard
<1>7. job \in Seq(Answers)
  BY <1>1 DEF PuzzlesInit
<1>8. SheetTypes
  BY <1>1, <1>3, <1>4, <1>5, <1>6, <1>7 DEF PuzzlesInit, SheetTypes
<1>9. gpage \in [at : {"gone", "shown"}, q : Questions, rows : [Questions -> RowT], stale : BOOLEAN]
  BY <1>2, <1>3 DEF Init
<1>10. gcard \in CardT /\ marked \in [Questions -> MarkedT]
  BY DEF Init, CardT, MarkedT, Mark
<1>11. GraderTypes
  BY <1>9, <1>10 DEF Init, GraderTypes
<1> QED BY <1>8, <1>11

\* The participant's page.
LEMMA ParticipantTypes ==
  ASSUME SheetTypes, SavesInOrder, Participant
  PROVE  SheetTypes'
<1> DEFINE SheetT == [at : {"gone", "loading", "shown"}, opened : Nat, finished : BOOLEAN,
                current : Questions,
                data : [open : BOOLEAN, answers : [Questions -> FieldsT]]]
           CardOfT == [answer : AnswerT \cup {Malformed}, why : ReasonT,
               status : {"idle", "saving", "saved", "failed"}]
           SendT == [save : SaveT, mine : BOOLEAN]
           CollectedT == [q : Questions, job : Nat, outcome : {"checked", "IE", "gone"}]
<1>1. /\ phase \in {"open", "over", "closed"} /\ finished \in BOOLEAN
      /\ row \in [Questions -> RowT] /\ job \in Seq(Answers)
      /\ collected \subseteq CollectedT
      /\ sheet \in SheetT /\ card \in CardOfT
      /\ timer = NoSave \/ timer \in SaveT
      /\ detached \subseteq SaveT /\ sends \subseteq SendT
      /\ typed \in [Questions -> FieldsT] /\ edits \in Nat
  BY DEF SheetTypes
<1> SUFFICES
      /\ phase' \in {"open", "over", "closed"} /\ finished' \in BOOLEAN
      /\ row' \in [Questions -> RowT] /\ job' \in Seq(Answers)
      /\ collected' \subseteq CollectedT
      /\ sheet' \in SheetT /\ card' \in CardOfT
      /\ timer' = NoSave \/ timer' \in SaveT
      /\ detached' \subseteq SaveT /\ sends' \subseteq SendT
      /\ typed' \in [Questions -> FieldsT] /\ edits' \in Nat
  BY DEF SheetTypes
<1>2. Detach => timer' = NoSave /\ detached' \subseteq SaveT /\ sends' \subseteq SendT
  <2>1. \A o \in SendT : [o EXCEPT !.mine = FALSE] \in SendT
    <3> HIDE DEF SaveT
    <3> QED OBVIOUS
  <2> QED BY <1>1, <2>1 DEF Detach
<1>3. ASSUME NEW q \in Questions, NEW d, d \in [open : BOOLEAN, answers : [Questions -> FieldsT]]
      PROVE  CardOf(d, q) \in CardOfT
  BY <1>3 DEF CardOf, FieldsT
<1>4. Loaded \in [open : BOOLEAN, answers : [Questions -> FieldsT]]
  <2>1. \A q \in Questions : [answer |-> row[q].answer, why |-> row[q].why] \in FieldsT
    BY <1>1 DEF RowT, FieldsT
  <2> QED BY <2>1 DEF Loaded
<1>5. NoSheet \in SheetT /\ NoCard \in CardOfT
  <2>1. /\ None \in AnswerT /\ None \in ReasonT
        /\ (CHOOSE q \in Questions : TRUE) \in Questions
    BY PuzzlesAssumption DEF AnswerT, ReasonT
  <2> QED BY <2>1 DEF NoSheet, NoCard, FieldsT
<1>6. CASE OpenSheet
  <2>1. sheet' \in SheetT
    <3>1. sheet' = [sheet EXCEPT !.at = "loading", !.opened = sheet.opened + 1, !.finished = finished]
      BY <1>1, <1>6 DEF OpenSheet
    <3>2. sheet \in SheetT /\ finished \in BOOLEAN
      BY <1>1
    <3>3. sheet.opened + 1 \in Nat
      BY <3>2
    <3>4. ASSUME NEW b \in BOOLEAN, NEW n \in Nat
          PROVE  [sheet EXCEPT !.at = "loading", !.opened = n, !.finished = b] \in SheetT
      BY <3>2
    <3> HIDE DEF SheetT
    <3> QED BY <3>1, <3>2, <3>3, <3>4
  <2>2. sends' \subseteq SendT
    <3>1. \A o \in SendT : [o EXCEPT !.mine = FALSE] \in SendT
      <4> HIDE DEF SaveT
      <4> QED OBVIOUS
    <3> QED BY <1>1, <1>6, <3>1 DEF OpenSheet
  <2> HIDE DEF SheetT, CardOfT, SendT, CollectedT
  <2> QED BY <1>1, <1>6, <2>1, <2>2 DEF OpenSheet, engine, scoring
<1>7. CASE Load
  <2>1. sheet' \in SheetT
    BY <1>1, <1>4, <1>7 DEF Load
  <2>2. card' \in CardOfT
    <3>1. sheet.current \in Questions
      BY <1>1
    <3> QED BY <1>1, <1>3, <1>4, <1>7, <3>1 DEF Load
  <2> HIDE DEF SheetT, CardOfT, SendT, CollectedT
  <2> QED BY <1>1, <1>7, <2>1, <2>2 DEF Load, engine, scoring, ghosts
<1>8. CASE TimerFires
  <2>1. timer # NoSave => [save |-> timer, mine |-> TRUE] \in SendT
    BY <1>1
  <2>2. \A s \in detached : [save |-> s, mine |-> FALSE] \in SendT
    BY <1>1
  <2>3. sends' \subseteq SendT
    <3>1. \A o \in sends : o \in SendT
      BY <1>1
    <3>2. \A o \in sends' :
            \/ o \in sends
            \/ timer # NoSave /\ o = [save |-> timer, mine |-> TRUE]
            \/ \E s \in detached : o = [save |-> s, mine |-> FALSE]
      BY <1>8 DEF TimerFires, Send
    <3> HIDE DEF SendT
    <3> QED BY <2>1, <2>2, <3>1, <3>2
  <2> HIDE DEF SheetT, CardOfT, SendT, CollectedT
  <2>4. timer' = NoSave \/ timer' \in SaveT
    BY <1>1, <1>8 DEF TimerFires, page
  <2>5. detached' \subseteq SaveT
    BY <1>1, <1>8 DEF TimerFires
  <2> QED BY <1>1, <1>8, <2>3, <2>4, <2>5 DEF TimerFires, engine, scoring, ghosts
<1>9. CASE Finish
  <2>1. sheet' \in SheetT
    BY <1>1, <1>9 DEF Finish
  <2> HIDE DEF SheetT, CardOfT, SendT, CollectedT
  <2> QED BY <1>1, <1>9, <2>1 DEF Finish, scoring, ghosts
<1>10. CASE LeaveSheet
  <2> HIDE DEF SheetT, CardOfT, SendT, CollectedT
  <2> QED BY <1>1, <1>2, <1>5, <1>10 DEF LeaveSheet, engine, scoring, ghosts
<1>11. ASSUME NEW q \in Questions, ShowQuestion(q)
       PROVE  SheetTypes'
  <2>1. sheet' \in SheetT
    BY <1>1, <1>11 DEF ShowQuestion
  <2>2. card' \in CardOfT
    BY <1>1, <1>3, <1>11 DEF ShowQuestion
  <2> HIDE DEF SheetT, CardOfT, SendT, CollectedT
  <2>3. /\ phase' \in {"open", "over", "closed"} /\ finished' \in BOOLEAN
        /\ row' \in [Questions -> RowT] /\ job' \in Seq(Answers)
        /\ collected' \subseteq CollectedT
        /\ typed' \in [Questions -> FieldsT] /\ edits' \in Nat
    BY <1>1, <1>11 DEF ShowQuestion, engine, scoring, ghosts
  <2>4. timer' = NoSave /\ detached' \subseteq SaveT /\ sends' \subseteq SendT
    BY <1>2, <1>11 DEF ShowQuestion
  <2> QED BY <2>1, <2>2, <2>3, <2>4 DEF SheetTypes, SheetT, CardOfT, SendT, CollectedT
<1>12. ASSUME NEW a \in Answers \cup {Malformed}, TypeAnswer(a)
       PROVE  SheetTypes'
  <2>1. card' \in CardOfT
    BY <1>1, <1>12 DEF TypeAnswer, AnswerT
  <2>2. sheet.current \in Questions
    BY <1>1
  <2>3. a # Malformed => [NoSave EXCEPT !.q = sheet.current, !.answer = a, !.n = edits + 1] \in SaveT
    <3>1. None \in AnswerT /\ None \in ReasonT /\ (a # Malformed => a \in AnswerT) /\ edits + 1 \in Nat
      BY <1>1 DEF AnswerT, ReasonT
    <3> QED BY <2>2, <3>1 DEF NoSave, SaveT
  <2>4. timer' = NoSave \/ timer' \in SaveT
    BY <1>1, <1>12, <2>3 DEF TypeAnswer, Schedule
  <2>5. typed' \in [Questions -> FieldsT]
    BY <1>1, <1>12, <2>2 DEF TypeAnswer, FieldsT, AnswerT
  <2>6. edits' \in Nat
    BY <1>1, <1>12 DEF TypeAnswer, Schedule
  <2> HIDE DEF SheetT, CardOfT, SendT, CollectedT
  <2>7. /\ phase' \in {"open", "over", "closed"} /\ finished' \in BOOLEAN
        /\ row' \in [Questions -> RowT] /\ job' \in Seq(Answers)
        /\ collected' \subseteq CollectedT
        /\ sheet' \in SheetT
        /\ detached' \subseteq SaveT /\ sends' \subseteq SendT
    BY <1>1, <1>12 DEF TypeAnswer, engine, scoring
  <2> QED BY <2>1, <2>4, <2>5, <2>6, <2>7 DEF SheetTypes, SheetT, CardOfT, SendT, CollectedT
<1>13. ASSUME NEW w \in Reasons, TypeReason(w)
       PROVE  SheetTypes'
  <2>1. card' \in CardOfT
    BY <1>1, <1>13 DEF TypeReason, ReasonT
  <2>2. sheet.current \in Questions
    BY <1>1
  <2>3. [NoSave EXCEPT !.q = sheet.current, !.why = w, !.n = edits + 1] \in SaveT
    <3>1. None \in AnswerT /\ None \in ReasonT /\ (w \in ReasonT) /\ edits + 1 \in Nat
      BY <1>1 DEF AnswerT, ReasonT
    <3> QED BY <2>2, <3>1 DEF NoSave, SaveT
  <2>4. timer' \in SaveT
    BY <1>1, <1>13, <2>3 DEF TypeReason, Schedule
  <2>5. typed' \in [Questions -> FieldsT]
    BY <1>1, <1>13, <2>2 DEF TypeReason, FieldsT, ReasonT
  <2>6. edits' \in Nat
    BY <1>1, <1>13 DEF TypeReason, Schedule
  <2> HIDE DEF SheetT, CardOfT, SendT, CollectedT
  <2>7. /\ phase' \in {"open", "over", "closed"} /\ finished' \in BOOLEAN
        /\ row' \in [Questions -> RowT] /\ job' \in Seq(Answers)
        /\ collected' \subseteq CollectedT
        /\ sheet' \in SheetT
        /\ detached' \subseteq SaveT /\ sends' \subseteq SendT
    BY <1>1, <1>13 DEF TypeReason, engine, scoring
  <2> QED BY <2>1, <2>4, <2>5, <2>6, <2>7 DEF SheetTypes, SheetT, CardOfT, SendT, CollectedT
<1>14. ASSUME NEW s \in sends, SaveArrives(s) \/ SaveLost(s)
       PROVE  SheetTypes'
  <2>1. s.save \in SaveT /\ s.save.q \in Questions
    BY <1>1 DEF SaveT
  <2>2. card' \in CardOfT
    <3>1. \A status \in {"saved", "failed"} : Says(s, status) => card' \in CardOfT
      BY <1>1 DEF Says
    <3> QED BY <1>14, <3>1 DEF SaveArrives, SaveLost
  <2>3. row' \in [Questions -> RowT]
    <3>1. Stored(row[s.save.q], s.save) \in RowT
      BY <1>1, <2>1, StoredRow
    <3> HIDE DEF RowT
    <3> QED BY <1>1, <1>14, <2>1, <3>1 DEF SaveArrives, SaveLost, engine
  <2> HIDE DEF SheetT, CardOfT, SendT, CollectedT
  <2>4. /\ phase' \in {"open", "over", "closed"} /\ finished' \in BOOLEAN
        /\ job' \in Seq(Answers)
        /\ collected' \subseteq CollectedT
        /\ sheet' \in SheetT
        /\ timer' = NoSave \/ timer' \in SaveT
        /\ detached' \subseteq SaveT /\ sends' \subseteq SendT
        /\ typed' \in [Questions -> FieldsT] /\ edits' \in Nat
    BY <1>1, <1>14 DEF SaveArrives, SaveLost, engine, scoring
  <2> QED BY <2>2, <2>3, <2>4 DEF SheetTypes, SheetT, CardOfT, SendT, CollectedT
<1> QED BY <1>6, <1>7, <1>8, <1>9, <1>10, <1>11, <1>12, <1>13, <1>14 DEF Participant, SheetTypes

\* The close and the scores.
LEMMA SchedulerTypes ==
  ASSUME SheetTypes, Scheduler
  PROVE  SheetTypes'
<1> DEFINE CollectedT == [q : Questions, job : Nat, outcome : {"checked", "IE", "gone"}]
<1>1. /\ phase \in {"open", "over", "closed"}
      /\ row \in [Questions -> RowT] /\ job \in Seq(Answers) /\ Len(job) \in Nat
      /\ collected \subseteq CollectedT
  BY DEF SheetTypes
<1>2. UNCHANGED <<finished, page, sends, typed, edits>>
  BY DEF Scheduler, TimeUp, CloseSection, SendOne, Collect, Settle, ghosts, engine
<1> SUFFICES
      /\ phase' \in {"open", "over", "closed"}
      /\ row' \in [Questions -> RowT] /\ job' \in Seq(Answers)
      /\ collected' \subseteq CollectedT
  BY <1>2 DEF SheetTypes, page
<1>3. CASE TimeUp
  <2> HIDE DEF CollectedT
  <2> QED BY <1>1, <1>3 DEF TimeUp, scoring
<1>4. CASE CloseSection
  <2>1. \A q \in Questions : row[q] \in RowT /\ [row[q] EXCEPT !.state = "pending", !.job = 0] \in RowT
    BY <1>1 DEF RowT
  <2> HIDE DEF CollectedT, RowT
  <2> QED BY <1>1, <1>4, <2>1 DEF CloseSection, scoring
<1>5. ASSUME NEW q \in Questions, SendOne(q)
      PROVE  row' \in [Questions -> RowT] /\ job' \in Seq(Answers) /\ phase' = phase /\ collected' = collected
  <2>1. row[q] \in RowT
    BY <1>1
  <2>2. CASE row[q].answer = None
    <3>1. [row[q] EXCEPT !.state = "done", !.auto = 0] \in RowT
      BY <2>1 DEF RowT
    <3>2. row' = [row EXCEPT ![q] = [row[q] EXCEPT !.state = "done", !.auto = 0]] /\ UNCHANGED <<job, phase, collected>>
      BY <1>5, <2>2 DEF SendOne
    <3> HIDE DEF RowT
    <3> QED BY <1>1, <3>1, <3>2
  <2>3. CASE row[q].answer # None
    <3>1. row[q].answer \in Answers
      BY <2>1, <2>3 DEF RowT, AnswerT
    <3>2. [row[q] EXCEPT !.state = "queued", !.job = Len(job) + 1] \in RowT
      <4>1. \A n \in Nat : [row[q] EXCEPT !.state = "queued", !.job = n] \in RowT
        BY <2>1 DEF RowT
      <4>2. Len(job) + 1 \in Nat
        BY <1>1
      <4> HIDE DEF RowT
      <4> QED BY <4>1, <4>2
    <3>3. /\ row' = [row EXCEPT ![q] = [row[q] EXCEPT !.state = "queued", !.job = Len(job) + 1]]
          /\ job' = Append(job, row[q].answer) /\ UNCHANGED <<phase, collected>>
      BY <1>5, <2>3 DEF SendOne
    <3> HIDE DEF RowT
    <3> QED BY <1>1, <3>1, <3>2, <3>3
  <2> QED BY <2>2, <2>3
<1>6. ASSUME NEW q \in Questions, Collect(q)
      PROVE  collected' \subseteq CollectedT /\ UNCHANGED <<engine, job>>
  <2>1. row[q].job \in Nat
    BY <1>1 DEF RowT
  <2>2. \A o \in {"checked", "IE", "gone"} : [q |-> q, job |-> row[q].job, outcome |-> o] \in CollectedT
    BY <2>1
  <2> HIDE DEF CollectedT
  <2> QED BY <1>1, <1>6, <2>2 DEF Collect
<1>7. ASSUME NEW c \in collected, Settle(c)
      PROVE  row' \in [Questions -> RowT] /\ collected' \subseteq CollectedT /\ UNCHANGED <<phase, job>>
  <2>1. c \in CollectedT /\ c.q \in Questions
    BY <1>1
  <2>2. Scored(row[c.q], c) \in RowT
    BY <1>1, <2>1, ScoredRow
  <2> HIDE DEF CollectedT, RowT
  <2> QED BY <1>1, <1>7, <2>1, <2>2 DEF Settle
<1> HIDE DEF CollectedT
<1> QED BY <1>1, <1>3, <1>4, <1>5, <1>6, <1>7 DEF Scheduler, engine

\* A grade is a grade of the question shown.
LEMMA BodyTypes ==
  ASSUME GraderTypes, NEW c \in CardT
  PROVE  /\ Body(c) \in BodyT /\ Body(c) # NoMark
         /\ Body(c).q = gpage.q /\ Body(c).n = marks + 1
         /\ Body(c).manual = (IF ByHand(gpage.q) THEN c.manual ELSE None)
         /\ Body(c).explain = c.explain /\ Body(c).flagged = c.flagged
         /\ gpage.q \in Questions
<1>1. gpage.q \in Questions /\ marks \in Nat
  BY DEF GraderTypes
<1>2. c.manual \in Mark /\ c.explain \in Mark /\ c.flagged \in BOOLEAN
  BY DEF CardT
<1>3. None \in Mark
  BY DEF Mark
<1> HIDE DEF Mark
<1>4. Body(c) \in BodyT
  <2>1. (IF ByHand(gpage.q) THEN c.manual ELSE None) \in Mark \cup {0}
    BY <1>2, <1>3
  <2> QED BY <1>1, <1>2, <2>1 DEF Body, BodyT
<1>5. Body(c) # NoMark
  BY <1>4, NoneIsNoValue
<1> QED BY <1>1, <1>4, <1>5 DEF Body

LEMMA EvaluatorTypes ==
  ASSUME SheetTypes, GraderTypes, NothingMarked, Evaluator
  PROVE  SheetTypes' /\ GraderTypes'
<1> DEFINE GpageT == [at : {"gone", "shown"}, q : Questions, rows : [Questions -> RowT], stale : BOOLEAN]
<1>1. /\ row \in [Questions -> RowT] /\ gpage \in GpageT /\ gcard \in CardT
      /\ gtimer = NoMark \/ gtimer \in BodyT
      /\ gsends \subseteq BodyT /\ marked \in [Questions -> MarkedT] /\ marks \in Nat
  BY DEF SheetTypes, GraderTypes
<1>2. UNCHANGED gEngine
  BY DEF Evaluator, OpenQueue, ReloadQueue, ChooseQuestion, TypeMark, Flag, MarkTimerFires,
         ZeroBlanks, GradeArrives
<1> SUFFICES
      /\ row' \in [Questions -> RowT] /\ gpage' \in GpageT /\ gcard' \in CardT
      /\ gtimer' = NoMark \/ gtimer' \in BodyT
      /\ gsends' \subseteq BodyT /\ marked' \in [Questions -> MarkedT] /\ marks' \in Nat
  BY <1>2 DEF SheetTypes, GraderTypes, gEngine, scoring, page, ghosts
<1>3. ASSUME NEW q \in Questions, OpenQueue(q)
      PROVE  gpage' \in GpageT /\ gcard' \in CardT /\ UNCHANGED <<row, gtimer, gsends, marked, marks>>
  <2>1. MarksOf(row[q]) = Unmarked
    BY <1>3 DEF OpenQueue, NothingMarked
  <2>2. CardFor(q, row[q]) = Unmarked
    BY <2>1 DEF CardFor, MarksOf
  <2>3. Unmarked \in CardT
    BY DEF Unmarked, CardT, Mark
  <2>4. [at |-> "shown", q |-> q, rows |-> row, stale |-> FALSE] \in GpageT
    <3> HIDE DEF RowT
    <3> QED BY <1>1
  <2> HIDE DEF GpageT
  <2> QED BY <1>3, <2>2, <2>3, <2>4 DEF OpenQueue
<1>4. CASE ReloadQueue
  <2>1. [gpage EXCEPT !.rows = row, !.stale = FALSE] \in GpageT
    <3> HIDE DEF RowT
    <3> QED BY <1>1
  <2> HIDE DEF GpageT
  <2> QED BY <1>1, <1>4, <2>1 DEF ReloadQueue
<1>5. ASSUME NEW q \in Questions, ChooseQuestion(q)
      PROVE  gpage' \in GpageT /\ UNCHANGED <<row, gcard, gtimer, gsends, marked, marks>>
  <2>1. [gpage EXCEPT !.q = q] \in GpageT
    <3> HIDE DEF RowT
    <3> QED BY <1>1
  <2> HIDE DEF GpageT
  <2> QED BY <1>5, <2>1 DEF ChooseQuestion
<1>6. CASE TypeMark
  <2>1. gpage.q \in Questions
    BY <1>1
  <2>2. PICK m \in Marks :
       \/ /\ ByHand(gpage.q) /\ gcard' = [gcard EXCEPT !.manual = m]
          /\ marked' = [marked EXCEPT ![gpage.q].manual = m]
       \/ /\ gcard' = [gcard EXCEPT !.explain = m]
          /\ marked' = [marked EXCEPT ![gpage.q].explain = m]
    BY <1>6 DEF TypeMark
  <2>3. m \in Mark
    BY DEF Mark
  <2>4. gcard' \in CardT
    <3> HIDE DEF Mark
    <3> QED BY <1>1, <2>2, <2>3 DEF CardT
  <2>5. marked' \in [Questions -> MarkedT]
    <3> HIDE DEF Mark
    <3> QED BY <1>1, <2>1, <2>2, <2>3 DEF MarkedT
  <2>6. gtimer' = Body(gcard') /\ marks' = marks + 1 /\ UNCHANGED <<row, gpage, gsends>>
    BY <1>6 DEF TypeMark
  <2>7. Body(gcard') \in BodyT
    BY <2>4, BodyTypes
  <2> HIDE DEF GpageT
  <2> QED BY <1>1, <2>4, <2>5, <2>6, <2>7
<1>7. CASE Flag
  <2>1. gpage.q \in Questions
    BY <1>1
  <2>2. gcard' = [gcard EXCEPT !.flagged = ~gcard.flagged]
    BY <1>7 DEF Flag
  <2>3. gcard' \in CardT /\ gcard'.flagged \in BOOLEAN
    BY <1>1, <2>2 DEF CardT
  <2>4. marked' \in [Questions -> MarkedT]
    <3>1. marked' = [marked EXCEPT ![gpage.q].flagged = gcard'.flagged]
      BY <1>7 DEF Flag
    <3> QED BY <1>1, <2>1, <2>3, <3>1 DEF MarkedT
  <2>5. gsends' = gsends \cup {Body(gcard')} /\ marks' = marks + 1 /\ UNCHANGED <<row, gpage, gtimer>>
    BY <1>7 DEF Flag
  <2>6. Body(gcard') \in BodyT
    BY <2>3, BodyTypes
  <2> HIDE DEF GpageT
  <2> QED BY <1>1, <2>3, <2>4, <2>5, <2>6
<1>8. CASE MarkTimerFires
  <2> HIDE DEF GpageT
  <2> QED BY <1>1, <1>8 DEF MarkTimerFires
<1>9. CASE ZeroBlanks
  <2>1. \A q \in Blanks : q \in Questions
    BY DEF Blanks, InQueue
  <2>2. None \in Mark
    BY DEF Mark
  <2>3. ASSUME NEW q \in Questions
        PROVE  [q |-> q, manual |-> IF ByHand(q) THEN 0 ELSE None, explain |-> 0, flagged |-> None, n |-> marks + 1] \in BodyT
    <3>1. (IF ByHand(q) THEN 0 ELSE None) \in Mark \cup {0}
      BY <2>2
    <3> HIDE DEF Mark
    <3> QED BY <1>1, <3>1 DEF BodyT
  <2>4. gsends' \subseteq BodyT
    <3> HIDE DEF BodyT
    <3> QED BY <1>1, <1>9, <2>1, <2>3 DEF ZeroBlanks
  <2>5. ASSUME NEW q \in Questions
        PROVE  [marked[q] EXCEPT !.manual = IF ByHand(q) THEN 0 ELSE @, !.explain = 0] \in MarkedT
    <3>1. marked[q] \in MarkedT
      BY <1>1
    <3> HIDE DEF Mark
    <3> QED BY <3>1 DEF MarkedT
  <2>6. marked' \in [Questions -> MarkedT]
    <3>1. \A q \in Questions : marked[q] \in MarkedT
      BY <1>1
    <3>2. marked' = [q \in Questions |->
       IF q \in Blanks THEN [marked[q] EXCEPT !.manual = IF ByHand(q) THEN 0 ELSE @, !.explain = 0] ELSE marked[q]]
      BY <1>9 DEF ZeroBlanks
    <3> HIDE DEF MarkedT
    <3> QED BY <2>5, <3>1, <3>2
  <2>7. marks' = marks + 1 /\ UNCHANGED <<row, gpage, gcard, gtimer>>
    BY <1>9 DEF ZeroBlanks
  <2> HIDE DEF GpageT
  <2> QED BY <1>1, <2>4, <2>6, <2>7
<1>10. ASSUME NEW b \in gsends, GradeArrives(b)
       PROVE  /\ row' \in [Questions -> RowT] /\ gpage' \in GpageT
              /\ gsends' \subseteq BodyT /\ UNCHANGED <<gcard, gtimer, marked, marks>>
  <2>1. b \in BodyT /\ b.q \in Questions
    BY <1>1 DEF BodyT
  <2>2. ~Refused(b) => Graded(row[b.q], b) \in RowT
    BY <1>1, <2>1, GradedRow
  <2>3. \A t \in BOOLEAN : [gpage EXCEPT !.stale = t] \in GpageT
    <3> HIDE DEF RowT
    <3> QED BY <1>1
  <2> HIDE DEF GpageT, RowT
  <2> QED BY <1>1, <1>10, <2>1, <2>2, <2>3 DEF GradeArrives
<1> HIDE DEF GpageT
<1>11. CASE \E q \in Questions : OpenQueue(q) \/ ChooseQuestion(q)
  BY <1>1, <1>3, <1>5, <1>11
<1>12. CASE \E b \in gsends : GradeArrives(b)
  BY <1>1, <1>10, <1>12
<1> QED BY <1>4, <1>6, <1>7, <1>8, <1>9, <1>11, <1>12 DEF Evaluator

-----------------------------------------------------------------------------
(* The scores are the scores of the answers.                                *)

\* What one row promises.
ScoredRight(p, jobs, r) ==
  /\ p # "closed" => r.state = "none"
  /\ r.job <= Len(jobs)
  /\ r.state = "queued" => r.job \in 1..Len(jobs) /\ jobs[r.job] = r.answer
  /\ r.state = "done" => r.auto = Worth(r.answer)

LEMMA ScoringByRow == ScoringInv <=> \A q \in Questions : ScoredRight(phase, job, row[q])
BY DEF ScoringInv, ScoredRight

\* While the section is open nothing is scored, so a save changes no scored answer.
LEMMA ParticipantKeepsScores ==
  ASSUME SheetTypes, ScoringInv, Participant
  PROVE  ScoringInv'
<1>1. row \in [Questions -> RowT] /\ sends \subseteq [save : SaveT, mine : BOOLEAN]
  BY DEF SheetTypes
<1>2. phase' = phase /\ job' = job
  BY DEF Participant, OpenSheet, Load, TimerFires, Finish, LeaveSheet, ShowQuestion, TypeAnswer,
         TypeReason, SaveArrives, SaveLost, engine, scoring
<1>3. CASE row' = row
  BY <1>2, <1>3 DEF ScoringInv
<1>4. CASE row' # row
  <2>1. PICK s \in sends : SaveArrives(s)
    BY <1>4 DEF Participant, OpenSheet, Load, TimerFires, Finish, LeaveSheet, ShowQuestion, TypeAnswer,
         TypeReason, SaveLost, engine, scoring
  <2>2. phase # "closed" /\ row' = [row EXCEPT ![s.save.q] = Stored(row[s.save.q], s.save)]
    BY <1>4, <2>1 DEF SaveArrives, SectionOpen
  <2>3. s.save \in SaveT /\ s.save.q \in Questions
    BY <1>1 DEF SaveT
  <2>4. /\ Stored(row[s.save.q], s.save).state = row[s.save.q].state
        /\ Stored(row[s.save.q], s.save).job = row[s.save.q].job
    BY <1>1, <2>3, StoredRow
  <2>5. \A q \in Questions : row'[q].state = row[q].state /\ row'[q].job = row[q].job
    BY <1>1, <2>2, <2>3, <2>4
  <2> QED BY <1>2, <2>2, <2>5 DEF ScoringInv
<1> QED BY <1>3, <1>4

\* A job checks the answer of its row, which no longer changes.
LEMMA SchedulerKeepsScores ==
  ASSUME SheetTypes, ScoringInv, Scheduler
  PROVE  ScoringInv'
<1>1. /\ row \in [Questions -> RowT] /\ job \in Seq(Answers) /\ Len(job) \in Nat
      /\ collected \subseteq [q : Questions, job : Nat, outcome : {"checked", "IE", "gone"}]
  BY DEF SheetTypes
<1>2. CASE TimeUp
  BY <1>2 DEF TimeUp, scoring, ScoringInv
<1>3. CASE CloseSection
  <2>1. ASSUME NEW q \in Questions
        PROVE  ScoredRight(phase', job', row'[q])
    <3>1. row[q] \in RowT /\ ScoredRight(phase, job, row[q]) /\ row[q].state = "none"
      BY <1>1, <1>3, ScoringByRow DEF CloseSection, ScoredRight
    <3>2. row'[q] = row[q] \/ row'[q] = [row[q] EXCEPT !.state = "pending", !.job = 0]
      BY <1>3 DEF CloseSection
    <3>3. phase' = "closed" /\ job' = job
      BY <1>3 DEF CloseSection, scoring
    <3>4. row'[q] = row[q] \/ (row'[q].state = "pending" /\ row'[q].job = 0)
      BY <3>1, <3>2 DEF RowT
    <3> QED BY <1>1, <3>1, <3>3, <3>4 DEF ScoredRight
  <2> QED BY <2>1 DEF ScoringInv, ScoredRight
<1>4. ASSUME NEW q \in Questions, SendOne(q)
      PROVE  ScoringInv'
  <2>1. row[q] \in RowT /\ phase' = phase
    BY <1>1, <1>4 DEF SendOne
  <2>2. phase = "closed"
    BY <1>4 DEF SendOne, ScoringInv
  <2>3. CASE row[q].answer = None
    <3>1. /\ row' = [row EXCEPT ![q] = [row[q] EXCEPT !.state = "done", !.auto = 0]]
          /\ job' = job
      BY <1>4, <2>3 DEF SendOne
    <3>2. ScoredRight(phase', job', row'[q])
      <4>1. row'[q] = [row[q] EXCEPT !.state = "done", !.auto = 0]
        BY <1>1, <3>1
      <4>2. ScoredRight(phase, job, row[q])
        BY ScoringByRow
      <4> QED BY <1>1, <2>1, <2>2, <2>3, <3>1, <4>1, <4>2 DEF ScoredRight, Worth, RowT
    <3>3. \A r \in Questions \ {q} : row'[r] = row[r]
      BY <1>1, <3>1
    <3> QED BY <2>1, <3>1, <3>2, <3>3 DEF ScoringInv, ScoredRight
  <2>4. CASE row[q].answer # None
    <3>1. /\ row' = [row EXCEPT ![q] = [row[q] EXCEPT !.state = "queued", !.job = Len(job) + 1]]
          /\ job' = Append(job, row[q].answer)
      BY <1>4, <2>4 DEF SendOne
    <3>2. row[q].answer \in Answers
      BY <2>1, <2>4 DEF RowT, AnswerT
    <3>3. /\ Len(job') = Len(job) + 1 /\ job'[Len(job) + 1] = row[q].answer
          /\ \A i \in 1..Len(job) : job'[i] = job[i]
      BY <1>1, <3>1, <3>2
    <3>4. /\ row'[q].state = "queued" /\ row'[q].job = Len(job) + 1
          /\ row'[q].answer = row[q].answer
      BY <1>1, <2>1, <3>1 DEF RowT
    <3>5. \A r \in Questions \ {q} : row'[r] = row[r] /\ row[r].job \in Nat
      BY <1>1, <3>1 DEF RowT
    <3>6. ASSUME NEW r \in Questions
          PROVE  /\ row'[r].job <= Len(job')
                 /\ row'[r].state = "queued" =>
                      row'[r].job \in 1..Len(job') /\ job'[row'[r].job] = row'[r].answer
                 /\ row'[r].state = "done" => row'[r].auto = Worth(row'[r].answer)
      <4>1. CASE r = q
        BY <1>1, <3>3, <3>4, <4>1
      <4>2. CASE r # q
        BY <1>1, <3>3, <3>5, <4>2 DEF ScoringInv
      <4> QED BY <4>1, <4>2
    <3> QED BY <2>1, <2>2, <3>6 DEF ScoringInv, Worth
  <2> QED BY <2>3, <2>4
<1>5. ASSUME NEW q \in Questions, Collect(q)
      PROVE  ScoringInv'
  BY <1>5 DEF Collect, engine, ScoringInv
<1>6. ASSUME NEW c \in collected, Settle(c)
      PROVE  ScoringInv'
  <2>1. c \in [q : Questions, job : Nat, outcome : {"checked", "IE", "gone"}] /\ c.q \in Questions
    BY <1>1
  <2>2. phase' = phase /\ job' = job
    BY <1>6 DEF Settle
  <2>3. CASE ~WaitsFor(row[c.q], c)
    BY <1>6, <2>2, <2>3 DEF Settle, ScoringInv
  <2>4. CASE WaitsFor(row[c.q], c)
    <3> DEFINE r == row[c.q]
    <3>1. r \in RowT /\ ScoredRight(phase, job, r) /\ r.state = "queued" /\ r.job = c.job
      BY <1>1, <2>1, <2>4, ScoringByRow DEF WaitsFor
    <3>2. row' = [row EXCEPT ![c.q] = Scored(r, c)]
      BY <1>6, <2>4 DEF Settle
    <3> HIDE DEF r
    <3>3. /\ Scored(r, c).answer = r.answer
          /\ \/ Scored(r, c).state = "pending" /\ Scored(r, c).job = 0
             \/ Scored(r, c).state = "error" /\ Scored(r, c).job = r.job
             \/ /\ Scored(r, c).state = "done" /\ Scored(r, c).job = r.job
                /\ Scored(r, c).auto = Worth(job[c.job])
      BY <2>1, <3>1, ScoredRow
    <3>4. ScoredRight(phase, job, Scored(r, c))
      BY <1>1, <3>1, <3>3 DEF ScoredRight
    <3>5. row'[c.q] = Scored(r, c) /\ \A q \in Questions \ {c.q} : row'[q] = row[q]
      BY <1>1, <2>1, <3>2
    <3> QED BY <2>2, <3>4, <3>5 DEF ScoringInv, ScoredRight
  <2> QED BY <2>3, <2>4
<1> QED BY <1>2, <1>3, <1>4, <1>5, <1>6 DEF Scheduler

\* Marking leaves the answers and their scores alone.
LEMMA EvaluatorKeepsRows ==
  ASSUME SheetTypes, GraderTypes, Evaluator
  PROVE  /\ UNCHANGED gEngine
         /\ \A q \in Questions :
              /\ row'[q].exists = row[q].exists /\ row'[q].state = row[q].state
              /\ row'[q].job = row[q].job /\ row'[q].auto = row[q].auto
              /\ row'[q].answer = row[q].answer /\ row'[q].why = row[q].why
<1>1. row \in [Questions -> RowT] /\ gsends \subseteq BodyT
  BY DEF SheetTypes, GraderTypes
<1>2. UNCHANGED gEngine
  BY DEF Evaluator, OpenQueue, ReloadQueue, ChooseQuestion, TypeMark, Flag, MarkTimerFires,
         ZeroBlanks, GradeArrives
<1>3. CASE row' = row
  BY <1>2, <1>3
<1>4. CASE row' # row
  <2>1. PICK b \in gsends : GradeArrives(b)
    BY <1>4 DEF Evaluator, OpenQueue, ReloadQueue, ChooseQuestion, TypeMark, Flag, MarkTimerFires,
         ZeroBlanks
  <2>2. b \in BodyT /\ b.q \in Questions /\ ~Refused(b)
        /\ row' = [row EXCEPT ![b.q] = Graded(row[b.q], b)]
    BY <1>1, <1>4, <2>1 DEF GradeArrives, BodyT
  <2>3. row[b.q] \in RowT
    BY <1>1, <2>2
  <2>4. /\ Graded(row[b.q], b).exists = row[b.q].exists /\ Graded(row[b.q], b).state = row[b.q].state
        /\ Graded(row[b.q], b).job = row[b.q].job /\ Graded(row[b.q], b).auto = row[b.q].auto
        /\ Graded(row[b.q], b).answer = row[b.q].answer /\ Graded(row[b.q], b).why = row[b.q].why
    BY <2>2, <2>3, GradedRow
  <2> QED BY <1>1, <1>2, <2>2, <2>4
<1> QED BY <1>3, <1>4

-----------------------------------------------------------------------------
(* What was typed last is not forgotten.                                    *)

\* The oldest is taken from a set: the newest stays, or was the oldest.
LEMMA OldestTaken ==
  ASSUME NEW S, NEW s \in S, \A o \in S : o.n \in Nat, \A o \in S \ {s} : s.n < o.n
  PROVE  /\ Newest(S \ {s}) \subseteq Newest(S)
         /\ S \ {s} = {} => s \in Newest(S)
BY DEF Newest

\* One younger than all is added.
LEMMA YoungestAdded ==
  ASSUME NEW S, NEW s, s.n \in Nat, \A o \in S : o.n \in Nat /\ o.n < s.n
  PROVE  Newest(S \cup {s}) = {s}
BY DEF Newest

\* A save leaves the timer: nothing changes in what is under way.
LEMMA TimerFiresKeepsSaves ==
  ASSUME SheetTypes, SavesInOrder, TimerFires
  PROVE  Pending' = Pending /\ SavesInOrder'
<1>1. /\ timer = NoSave \/ timer \in SaveT
      /\ detached \subseteq SaveT /\ sends \subseteq [save : SaveT, mine : BOOLEAN]
      /\ edits \in Nat
  BY DEF SheetTypes
<1>2. /\ \A s \in Pending : s.n \in Nat /\ s.n <= edits
      /\ \A s \in sends : s.save \in Pending
      /\ timer # NoSave => timer \in Pending
      /\ detached \subseteq Pending
  BY PendingTypes DEF Pending
<1>3. UNCHANGED <<sheet, edits>>
  BY <1>1 DEF TimerFires, ghosts
<1>4. CASE timer # NoSave /\ detached = {} /\ Send(timer, TRUE) /\ timer' = NoSave /\ detached' = detached
  <2> DEFINE new == [save |-> timer, mine |-> TRUE]
  <2>1. sends' = sends \cup {new} /\ new.save = timer
    BY <1>4 DEF Send
  <2> HIDE DEF new
  <2>2. Pending' = Pending
    BY <1>4, <2>1 DEF Pending
  <2>3. \A s \in sends : s.save.n < timer.n /\ s.save.n \in Nat /\ timer.n \in Nat
    BY <1>2, <1>4 DEF SavesInOrder
  <2>4. \A s, o \in sends' : s.save.n = o.save.n => s = o
    BY <2>1, <2>3 DEF SavesInOrder
  <2> QED BY <1>3, <1>4, <2>2, <2>4 DEF SavesInOrder
<1>5. ASSUME NEW d \in detached, \A o \in detached : d.n <= o.n,
             Send(d, FALSE), detached' = detached \ {d}, timer' = timer
      PROVE  Pending' = Pending /\ SavesInOrder'
  <2> DEFINE new == [save |-> d, mine |-> FALSE]
  <2>1. sends' = sends \cup {new} /\ new.save = d
    BY <1>5 DEF Send
  <2> HIDE DEF new
  <2>2. Pending' = Pending
    BY <1>5, <2>1 DEF Pending
  <2>3. \A s \in sends : s.save.n < d.n /\ s.save.n \in Nat /\ d.n \in Nat
    BY <1>2 DEF SavesInOrder
  <2>4. \A s, o \in sends' : s.save.n = o.save.n => s = o
    BY <2>1, <2>3 DEF SavesInOrder
  <2>5. \A o \in detached' : d.n < o.n
    <3>1. \A o \in detached : o.n \in Nat /\ d.n \in Nat /\ (o.n = d.n => o = d)
      BY <1>2 DEF SavesInOrder
    <3> QED BY <1>5, <3>1
  <2>6. \A s \in sends' : \A o \in detached' : s.save.n < o.n
    BY <1>5, <2>1, <2>5 DEF SavesInOrder
  <2>7. timer' # NoSave => \A s \in sends' : s.save.n < timer.n
    BY <1>5, <2>1 DEF SavesInOrder
  <2> QED BY <1>3, <1>5, <2>2, <2>4, <2>6, <2>7 DEF SavesInOrder
<1> QED BY <1>4, <1>5 DEF TimerFires

\* An edit of one field, when no other field waits in the timer.
LEMMA EditKeepsSaves ==
  ASSUME SheetTypes, SavesInOrder, NothingForgotten, NEW save \in SaveT, Schedule(save),
         save.n = edits + 1, save.q = sheet.current,
         UNCHANGED <<sheet, detached, sends, row>>,
         \/ /\ save.answer # None /\ save.why = None
            /\ typed' = [typed EXCEPT ![sheet.current].answer = save.answer]
         \/ /\ save.why # None /\ save.answer = None
            /\ typed' = [typed EXCEPT ![sheet.current].why = save.why]
  PROVE  SavesInOrder' /\ NothingForgotten'
<1>1. /\ Pending' = (Pending \ {timer}) \cup {save}
      /\ SavesInOrder'
      /\ excuse' = {} => /\ excuse = {}
                         /\ save.answer = None => timer.answer = None
                         /\ save.why = None => timer.why = None
  BY ScheduleReplaces
<1>2. /\ \A s \in Pending : s.n \in Nat /\ s.n <= edits
      /\ edits \in Nat
      /\ timer # NoSave => timer.q = sheet.current
      /\ typed \in [Questions -> FieldsT] /\ sheet.current \in Questions
  BY PendingTypes DEF SheetTypes, SavesInOrder
<1>3. \A S \in SUBSET (Pending \ {timer}) : Newest(S \cup {save}) = {save}
  <2> SUFFICES ASSUME NEW S \in SUBSET (Pending \ {timer})
               PROVE  Newest(S \cup {save}) = {save}
    OBVIOUS
  <2>1. save.n \in Nat /\ \A o \in S : o.n \in Nat /\ o.n < save.n
    BY <1>2
  <2> QED BY <2>1, YoungestAdded
<1>4. NoSave \notin Pending
  BY NoneIsNoValue, PendingTypes
<1> SUFFICES ASSUME excuse' = {}, NEW q \in Questions
             PROVE  /\ AnswersOf(q)' = {} => row[q].answer = typed'[q].answer
                    /\ \A s \in Newest(AnswersOf(q)') : s.answer = typed'[q].answer
                    /\ ReasonsOf(q)' = {} => row[q].why = typed'[q].why
                    /\ \A s \in Newest(ReasonsOf(q)') : s.why = typed'[q].why
  BY <1>1 DEF NothingForgotten, Newest
<1>5. /\ AnswersOf(q) = {} => row[q].answer = typed[q].answer
      /\ \A s \in Newest(AnswersOf(q)) : s.answer = typed[q].answer
      /\ ReasonsOf(q) = {} => row[q].why = typed[q].why
      /\ \A s \in Newest(ReasonsOf(q)) : s.why = typed[q].why
  BY <1>1 DEF NothingForgotten
<1>6. typed[q] \in FieldsT
  BY <1>2
<1>7. CASE q # sheet.current
  <2>1. AnswersOf(q)' = AnswersOf(q) /\ ReasonsOf(q)' = ReasonsOf(q)
    BY <1>1, <1>2, <1>4, <1>7 DEF AnswersOf, ReasonsOf
  <2>2. typed'[q] = typed[q]
    BY <1>2, <1>7
  <2> QED BY <1>5, <2>1, <2>2
<1>8. CASE q = sheet.current /\ save.answer # None
  <2>1. save.why = None /\ typed'[q].answer = save.answer /\ typed'[q].why = typed[q].why
    BY <1>2, <1>6, <1>8 DEF FieldsT
  <2>2. ReasonsOf(q)' = ReasonsOf(q)
    BY <1>1, <2>1 DEF ReasonsOf
  <2>3. AnswersOf(q)' = {s \in Pending \ {timer} : s.q = q /\ s.answer # None} \cup {save}
    BY <1>1, <1>8 DEF AnswersOf
  <2>4. Newest(AnswersOf(q)') = {save}
    <3>1. {s \in Pending \ {timer} : s.q = q /\ s.answer # None} \in SUBSET (Pending \ {timer})
      OBVIOUS
    <3> HIDE DEF Newest
    <3> QED BY <1>3, <2>3, <3>1
  <2> QED BY <1>5, <2>1, <2>2, <2>3, <2>4
<1>9. CASE q = sheet.current /\ save.why # None
  <2>1. save.answer = None /\ typed'[q].why = save.why /\ typed'[q].answer = typed[q].answer
    BY <1>2, <1>6, <1>9 DEF FieldsT
  <2>2. AnswersOf(q)' = AnswersOf(q)
    BY <1>1, <2>1 DEF AnswersOf
  <2>3. ReasonsOf(q)' = {s \in Pending \ {timer} : s.q = q /\ s.why # None} \cup {save}
    BY <1>1, <1>9 DEF ReasonsOf
  <2>4. Newest(ReasonsOf(q)') = {save}
    <3>1. {s \in Pending \ {timer} : s.q = q /\ s.why # None} \in SUBSET (Pending \ {timer})
      OBVIOUS
    <3> HIDE DEF Newest
    <3> QED BY <1>3, <2>3, <3>1
  <2> QED BY <1>5, <2>1, <2>2, <2>3, <2>4
<1> QED BY <1>7, <1>8, <1>9

\* A save arrives, before none of its question that was typed earlier.
LEMMA ArrivalKeepsSaves ==
  ASSUME SheetTypes, SavesInOrder, NothingForgotten, NEW m \in sends, SaveArrives(m) \/ SaveLost(m)
  PROVE  SavesInOrder' /\ NothingForgotten'
<1> DEFINE s == m.save
<1>1. /\ row \in [Questions -> RowT] /\ s \in SaveT /\ s.q \in Questions
      /\ sends' = sends \ {m} /\ UNCHANGED <<sheet, timer, detached, typed, edits>>
  BY DEF SheetTypes, SaveT, SaveArrives, SaveLost
<1>2. /\ \A o \in Pending : o.n \in Nat /\ o.n <= edits
      /\ \A o \in sends : o.save \in Pending
      /\ timer # NoSave => timer \in Pending
      /\ detached \subseteq Pending /\ s \in Pending
  BY PendingTypes DEF Pending
<1>3. /\ \A o \in sends : o # m => o.save # s
      /\ \A d \in detached : s.n < d.n
      /\ timer # NoSave => s.n < timer.n
  BY DEF SavesInOrder
<1>4. Pending' = Pending \ {s}
  BY <1>1, <1>2, <1>3 DEF Pending
<1>5. SavesInOrder'
  BY <1>1, <1>4 DEF SavesInOrder
<1> SUFFICES ASSUME excuse' = {} PROVE NothingForgotten'
  BY <1>5 DEF NothingForgotten
<1>6. /\ excuse = {} /\ ~Overtakes(m)
      /\ row' = [row EXCEPT ![s.q] = Stored(row[s.q], s)]
  BY DEF SaveArrives, SaveLost
<1>7. \A o \in Pending \ {s} : o.q = s.q => s.n < o.n
  <2>1. \A o \in sends : o.save.q = s.q /\ o # m => s.n < o.save.n
    BY <1>2, <1>6 DEF Overtakes, SavesInOrder
  <2> QED BY <1>3, <2>1 DEF Pending
<1>8. /\ Stored(row[s.q], s).answer = (IF s.answer = None THEN row[s.q].answer ELSE s.answer)
      /\ Stored(row[s.q], s).why = (IF s.why = None THEN row[s.q].why ELSE s.why)
  BY <1>1, StoredRow
<1> HIDE DEF s
<1> SUFFICES ASSUME NEW q \in Questions
             PROVE  /\ AnswersOf(q)' = {} => row'[q].answer = typed[q].answer
                    /\ \A o \in Newest(AnswersOf(q)') : o.answer = typed[q].answer
                    /\ ReasonsOf(q)' = {} => row'[q].why = typed[q].why
                    /\ \A o \in Newest(ReasonsOf(q)') : o.why = typed[q].why
  BY <1>1 DEF NothingForgotten, Newest
<1>9. /\ AnswersOf(q) = {} => row[q].answer = typed[q].answer
      /\ \A o \in Newest(AnswersOf(q)) : o.answer = typed[q].answer
      /\ ReasonsOf(q) = {} => row[q].why = typed[q].why
      /\ \A o \in Newest(ReasonsOf(q)) : o.why = typed[q].why
  BY <1>6 DEF NothingForgotten
<1>10. AnswersOf(q)' = AnswersOf(q) \ {s} /\ ReasonsOf(q)' = ReasonsOf(q) \ {s}
  BY <1>4 DEF AnswersOf, ReasonsOf
<1>11. CASE q # s.q
  <2>1. s \notin AnswersOf(q) /\ s \notin ReasonsOf(q) /\ row'[q] = row[q]
    BY <1>1, <1>6, <1>11 DEF AnswersOf, ReasonsOf
  <2> QED BY <1>9, <1>10, <2>1
<1>12. CASE q = s.q
  <2>1. /\ row'[q].answer = (IF s.answer = None THEN row[q].answer ELSE s.answer)
        /\ row'[q].why = (IF s.why = None THEN row[q].why ELSE s.why)
    BY <1>1, <1>6, <1>8, <1>12
  <2>2. /\ AnswersOf(q)' = {} => row'[q].answer = typed[q].answer
        /\ \A o \in Newest(AnswersOf(q)') : o.answer = typed[q].answer
    <3>1. CASE s.answer = None
      BY <1>9, <1>10, <2>1, <3>1 DEF AnswersOf
    <3>2. CASE s.answer # None
      <4>1. /\ s \in AnswersOf(q) /\ \A o \in AnswersOf(q) : o.n \in Nat
            /\ \A o \in AnswersOf(q) \ {s} : s.n < o.n
        BY <1>2, <1>7, <1>12, <3>2 DEF AnswersOf
      <4>2. /\ Newest(AnswersOf(q) \ {s}) \subseteq Newest(AnswersOf(q))
            /\ AnswersOf(q) \ {s} = {} => s \in Newest(AnswersOf(q))
        BY <4>1, OldestTaken
      <4> QED BY <1>9, <1>10, <2>1, <3>2, <4>2
    <3> QED BY <3>1, <3>2
  <2>3. /\ ReasonsOf(q)' = {} => row'[q].why = typed[q].why
        /\ \A o \in Newest(ReasonsOf(q)') : o.why = typed[q].why
    <3>1. CASE s.why = None
      BY <1>9, <1>10, <2>1, <3>1 DEF ReasonsOf
    <3>2. CASE s.why # None
      <4>1. /\ s \in ReasonsOf(q) /\ \A o \in ReasonsOf(q) : o.n \in Nat
            /\ \A o \in ReasonsOf(q) \ {s} : s.n < o.n
        BY <1>2, <1>7, <1>12, <3>2 DEF ReasonsOf
      <4>2. /\ Newest(ReasonsOf(q) \ {s}) \subseteq Newest(ReasonsOf(q))
            /\ ReasonsOf(q) \ {s} = {} => s \in Newest(ReasonsOf(q))
        BY <4>1, OldestTaken
      <4> QED BY <1>9, <1>10, <2>1, <3>2, <4>2
    <3> QED BY <3>1, <3>2
  <2> QED BY <2>2, <2>3
<1> QED BY <1>11, <1>12

\* Nothing the participant, the network or the phase does forgets what was typed, except
\* what the excuses name.
LEMMA ParticipantKeepsSaves ==
  ASSUME SheetTypes, SavesInOrder, NothingForgotten, Participant
  PROVE  SavesInOrder' /\ NothingForgotten'
<1>1. row \in [Questions -> RowT] /\ edits \in Nat /\ sheet.current \in Questions
  BY DEF SheetTypes
<1>2. ASSUME UNCHANGED <<row, detached, sends, typed, excuse, edits>>, timer' = timer,
             sheet'.current = sheet.current
      PROVE  SavesInOrder' /\ NothingForgotten'
  <2>1. Pending' = Pending
    BY <1>2 DEF Pending
  <2>2. SavesStay
    BY <1>2, <2>1 DEF SavesStay
  <2> QED BY <1>2, <2>1, <2>2, NothingForgottenStays DEF SavesInOrder
<1>3. ASSUME Detach, UNCHANGED <<row, typed, excuse, edits>>
      PROVE  SavesInOrder' /\ NothingForgotten'
  <2>1. Pending' = Pending /\ SavesInOrder'
    BY <1>3, DetachKeepsSaves
  <2>2. SavesStay
    BY <1>3, <2>1 DEF SavesStay
  <2> QED BY <2>1, <2>2, NothingForgottenStays
<1>4. CASE OpenSheet
  <2> DEFINE gone == timer # NoSave \/ detached # {}
  <2>1. /\ timer' = NoSave /\ detached' = {} /\ sends' = {[s EXCEPT !.mine = FALSE] : s \in sends}
        /\ UNCHANGED <<row, typed, edits>>
        /\ excuse' = IF gone THEN excuse \cup {"reloaded"} ELSE excuse
    BY <1>4 DEF OpenSheet, engine
  <2>2. CASE ~gone
    <3>1. Detach
      BY <2>1, <2>2 DEF Detach
    <3> QED BY <1>3, <2>1, <2>2, <3>1
  <2>3. CASE gone
    <3>1. NothingForgotten'
      BY <2>1, <2>3 DEF NothingForgotten
    <3>2. \A o \in sends : o \in [save : SaveT, mine : BOOLEAN]
      BY DEF SheetTypes
    <3>3. \A s \in sends' : \E o \in sends : s.save = o.save /\ s = [o EXCEPT !.mine = FALSE]
      <4> HIDE DEF SaveT
      <4>1. \A o \in [save : SaveT, mine : BOOLEAN] : [o EXCEPT !.mine = FALSE].save = o.save
        OBVIOUS
      <4> QED BY <2>1, <3>2, <4>1
    <3>4. Pending' \subseteq Pending
      BY <2>1, <3>3 DEF Pending
    <3>5. ASSUME NEW s \in sends', NEW o \in sends', s.save.n = o.save.n
          PROVE  s = o
      <4>1. PICK x \in sends : s.save = x.save /\ s = [x EXCEPT !.mine = FALSE]
        BY <3>3
      <4>2. PICK y \in sends : o.save = y.save /\ o = [y EXCEPT !.mine = FALSE]
        BY <3>3
      <4>3. x = y
        BY <3>5, <4>1, <4>2 DEF SavesInOrder
      <4> QED BY <4>1, <4>2, <4>3
    <3> QED BY <2>1, <3>1, <3>4, <3>5 DEF SavesInOrder
  <2> QED BY <2>2, <2>3
<1>5. CASE Load
  BY <1>2, <1>5 DEF Load, engine, ghosts, SheetTypes
<1>6. CASE TimerFires
  <2>1. Pending' = Pending /\ SavesInOrder'
    BY <1>6, TimerFiresKeepsSaves
  <2>2. SavesStay
    BY <1>6, <2>1 DEF SavesStay, TimerFires, engine, ghosts
  <2> QED BY <2>1, <2>2, NothingForgottenStays
<1>7. CASE Finish
  BY <1>2, <1>7 DEF Finish, ghosts, SheetTypes
<1>8. CASE LeaveSheet
  BY <1>3, <1>8 DEF LeaveSheet, engine, ghosts
<1>9. ASSUME NEW q \in Questions, ShowQuestion(q)
      PROVE  SavesInOrder' /\ NothingForgotten'
  BY <1>3, <1>9 DEF ShowQuestion, engine, ghosts
<1>10. ASSUME NEW a \in Answers \cup {Malformed}, TypeAnswer(a)
       PROVE  SavesInOrder' /\ NothingForgotten'
  <2>1. UNCHANGED <<sheet, detached, sends, row>>
    BY <1>10 DEF TypeAnswer, engine
  <2>2. CASE a = Malformed
    <3>1. edits' = edits + 1 /\ UNCHANGED <<timer, typed, excuse>>
      BY <1>10, <2>2 DEF TypeAnswer
    <3>2. Pending' = Pending
      BY <2>1, <3>1 DEF Pending
    <3>3. SavesStay
      BY <2>1, <3>1, <3>2 DEF SavesStay
    <3>4. \A s \in Pending : s.n \in 1..edits'
      BY <1>1, <3>1 DEF SavesInOrder
    <3> QED BY <2>1, <3>1, <3>2, <3>3, <3>4, NothingForgottenStays DEF SavesInOrder
  <2>3. CASE a # Malformed
    <3> DEFINE save == [NoSave EXCEPT !.q = sheet.current, !.answer = a, !.n = edits + 1]
    <3>1. a \in Answers /\ a # None
      BY <2>3, NoneIsNoValue
    <3>2. /\ save \in SaveT /\ save.n = edits + 1 /\ save.q = sheet.current
          /\ save.answer = a /\ save.why = None
      <4>1. /\ None \in AnswerT /\ None \in ReasonT /\ a \in AnswerT /\ edits + 1 \in Nat
        BY <1>1, <3>1 DEF AnswerT, ReasonT
      <4> QED BY <1>1, <4>1 DEF NoSave, SaveT
    <3>3. Schedule(save) /\ typed' = [typed EXCEPT ![sheet.current].answer = a]
      BY <1>10, <2>3 DEF TypeAnswer
    <3> HIDE DEF save
    <3> QED BY <2>1, <3>1, <3>2, <3>3, EditKeepsSaves
  <2> QED BY <2>2, <2>3
<1>11. ASSUME NEW w \in Reasons, TypeReason(w)
       PROVE  SavesInOrder' /\ NothingForgotten'
  <2> DEFINE save == [NoSave EXCEPT !.q = sheet.current, !.why = w, !.n = edits + 1]
  <2>1. UNCHANGED <<sheet, detached, sends, row>>
    BY <1>11 DEF TypeReason, engine
  <2>2. w # None
    BY NoneIsNoValue
  <2>3. /\ save \in SaveT /\ save.n = edits + 1 /\ save.q = sheet.current
        /\ save.why = w /\ save.answer = None
    <3>1. /\ None \in AnswerT /\ w \in ReasonT /\ edits + 1 \in Nat
      BY <1>1 DEF AnswerT, ReasonT
    <3> QED BY <1>1, <3>1 DEF NoSave, SaveT
  <2>4. Schedule(save) /\ typed' = [typed EXCEPT ![sheet.current].why = w]
    BY <1>11 DEF TypeReason
  <2> HIDE DEF save
  <2> QED BY <2>1, <2>2, <2>3, <2>4, EditKeepsSaves
<1>12. ASSUME NEW s \in sends, SaveArrives(s) \/ SaveLost(s)
       PROVE  SavesInOrder' /\ NothingForgotten'
  BY <1>12, ArrivalKeepsSaves
<1> QED BY <1>4, <1>5, <1>6, <1>7, <1>8, <1>9, <1>10, <1>11, <1>12 DEF Participant

\* Closing, scoring and marking change no answer.
LEMMA OthersKeepSaves ==
  ASSUME SheetTypes, GraderTypes, SavesInOrder, NothingForgotten, Scheduler \/ Evaluator
  PROVE  SavesInOrder' /\ NothingForgotten'
<1>1. UNCHANGED <<sheet, timer, detached, sends, typed, excuse, edits>>
  BY EvaluatorKeepsRows DEF Scheduler, TimeUp, CloseSection, SendOne, Collect, Settle,
     page, ghosts, gEngine
<1>2. /\ row \in [Questions -> RowT]
      /\ collected \subseteq [q : Questions, job : Nat, outcome : {"checked", "IE", "gone"}]
  BY DEF SheetTypes
<1>3. \A q \in Questions : row'[q].answer = row[q].answer /\ row'[q].why = row[q].why
  <2>1. CASE Evaluator
    BY <2>1, EvaluatorKeepsRows
  <2>2. CASE row' = row
    BY <2>2
  <2>3. CASE CloseSection
    BY <1>2, <2>3 DEF CloseSection, RowT
  <2>4. ASSUME NEW q \in Questions, SendOne(q)
        PROVE  \A r \in Questions : row'[r].answer = row[r].answer /\ row'[r].why = row[r].why
    <3>1. row[q] \in RowT
      BY <1>2
    <3>2. CASE row' = [row EXCEPT ![q] = [row[q] EXCEPT !.state = "done", !.auto = 0]]
      BY <1>2, <3>1, <3>2 DEF RowT
    <3>3. CASE row' = [row EXCEPT ![q] = [row[q] EXCEPT !.state = "queued", !.job = Len(job) + 1]]
      BY <1>2, <3>1, <3>3 DEF RowT
    <3> QED BY <2>4, <3>2, <3>3 DEF SendOne
  <2>5. ASSUME NEW c \in collected, Settle(c)
        PROVE  \A r \in Questions : row'[r].answer = row[r].answer /\ row'[r].why = row[r].why
    <3>1. /\ c \in [q : Questions, job : Nat, outcome : {"checked", "IE", "gone"}]
          /\ c.q \in Questions /\ row[c.q] \in RowT
      BY <1>2
    <3>2. Scored(row[c.q], c).answer = row[c.q].answer /\ Scored(row[c.q], c).why = row[c.q].why
      BY <3>1, ScoredRow
    <3> QED BY <1>2, <2>5, <3>1, <3>2 DEF Settle
  <2>6. (TimeUp \/ \E q \in Questions : Collect(q)) => row' = row
    BY DEF TimeUp, Collect, engine
  <2> QED BY <2>1, <2>2, <2>3, <2>4, <2>5, <2>6 DEF Scheduler
<1>4. Pending' = Pending
  BY <1>1 DEF Pending
<1>5. SavesStay
  BY <1>1, <1>3, <1>4 DEF SavesStay
<1> QED BY <1>1, <1>4, <1>5, NothingForgottenStays DEF SavesInOrder

-----------------------------------------------------------------------------
(* The marks stay with their question.                                      *)

\* Answering, closing and scoring leave the marks alone.
LEMMA OthersKeepMarks ==
  ASSUME SheetTypes, GraderTypes, NothingMarked, MarksInOrder, Participant \/ Scheduler, UNCHANGED grader
  PROVE  NothingMarked' /\ MarksInOrder'
<1>1. /\ row \in [Questions -> RowT] /\ sends \subseteq [save : SaveT, mine : BOOLEAN]
      /\ collected \subseteq [q : Questions, job : Nat, outcome : {"checked", "IE", "gone"}]
  BY DEF SheetTypes
<1>2. \A q \in Questions : /\ MarksOf(row'[q]) = MarksOf(row[q])
                           /\ row[q].exists => row'[q].exists
  <2>1. CASE row' = row
    BY <2>1
  <2>2. CASE Participant /\ row' # row
    <3>1. PICK s \in sends : SaveArrives(s)
      BY <2>2 DEF Participant, OpenSheet, Load, TimerFires, Finish, LeaveSheet, ShowQuestion, TypeAnswer,
           TypeReason, SaveLost, engine, scoring
    <3>2. s.save \in SaveT /\ s.save.q \in Questions
          /\ row' = [row EXCEPT ![s.save.q] = Stored(row[s.save.q], s.save)]
      BY <1>1, <2>2, <3>1 DEF SaveArrives, SaveT
    <3>3. /\ MarksOf(Stored(row[s.save.q], s.save)) = MarksOf(row[s.save.q])
          /\ Stored(row[s.save.q], s.save).exists
      BY <1>1, <3>2, StoredRow
    <3> QED BY <1>1, <3>2, <3>3
  <2>3. CASE CloseSection
    BY <1>1, <2>3 DEF CloseSection, RowT, MarksOf
  <2>4. ASSUME NEW q \in Questions, SendOne(q)
        PROVE  \A r \in Questions : MarksOf(row'[r]) = MarksOf(row[r]) /\ row'[r].exists = row[r].exists
    <3>1. row[q] \in RowT
      BY <1>1
    <3>2. CASE row' = [row EXCEPT ![q] = [row[q] EXCEPT !.state = "done", !.auto = 0]]
      BY <1>1, <3>1, <3>2 DEF RowT, MarksOf
    <3>3. CASE row' = [row EXCEPT ![q] = [row[q] EXCEPT !.state = "queued", !.job = Len(job) + 1]]
      BY <1>1, <3>1, <3>3 DEF RowT, MarksOf
    <3> QED BY <2>4, <3>2, <3>3 DEF SendOne
  <2>5. ASSUME NEW c \in collected, Settle(c)
        PROVE  \A r \in Questions : MarksOf(row'[r]) = MarksOf(row[r]) /\ row'[r].exists = row[r].exists
    <3>1. /\ c \in [q : Questions, job : Nat, outcome : {"checked", "IE", "gone"}]
          /\ c.q \in Questions /\ row[c.q] \in RowT
      BY <1>1
    <3>2. MarksOf(Scored(row[c.q], c)) = MarksOf(row[c.q]) /\ Scored(row[c.q], c).exists = row[c.q].exists
      BY <3>1, ScoredRow
    <3> QED BY <1>1, <2>5, <3>1, <3>2 DEF Settle
  <2>6. (TimeUp \/ \E q \in Questions : Collect(q)) => row' = row
    BY DEF TimeUp, Collect, engine
  <2> QED BY <2>1, <2>2, <2>3, <2>4, <2>5, <2>6 DEF Scheduler
<1>3. UNCHANGED <<gpage, gcard, gtimer, gsends, marked, slips, marks>>
  BY DEF grader
<1>4. Grades' = Grades /\ Q' = Q
  BY <1>3 DEF Grades, Q
<1>5. NothingMarked'
  BY <1>2, <1>3, <1>4 DEF NothingMarked
<1>6. \A q \in Questions : /\ row'[q].manual = row[q].manual /\ row'[q].explain = row[q].explain
                           /\ row'[q].flagged = row[q].flagged
  BY <1>2 DEF MarksOf
<1>7. Q \in Questions
  BY DEF Q, GraderTypes
<1> HIDE DEF Q, Grades
<1> QED BY <1>2, <1>3, <1>4, <1>5, <1>6, <1>7 DEF MarksInOrder, Newest, ByHand

\* What a step of the evaluator's page may not do, said of what is under way.
LEMMA TypeMarkKeepsMarks ==
  ASSUME SheetTypes, GraderTypes, NothingMarked, MarksInOrder, TypeMark
  PROVE  NothingMarked' /\ MarksInOrder'
<1>1. /\ Q \in Questions /\ gcard \in CardT /\ marks \in Nat /\ gcard' \in CardT
      /\ marked \in [Questions -> MarkedT]
      /\ gsends \subseteq BodyT /\ (gtimer = NoMark \/ gtimer \in BodyT)
  BY EvaluatorTypes DEF GraderTypes, Q, Evaluator
<1>2. PICK m \in Marks :
       \/ /\ ByHand(Q) /\ gcard' = [gcard EXCEPT !.manual = m]
          /\ marked' = [marked EXCEPT ![Q].manual = m]
       \/ /\ gcard' = [gcard EXCEPT !.explain = m]
          /\ marked' = [marked EXCEPT ![Q].explain = m]
  BY DEF TypeMark, Q
<1>3. /\ gpage.at = "shown" /\ gtimer' = Body(gcard') /\ marks' = marks + 1
      /\ UNCHANGED <<row, gpage, gsends, slips>> /\ Q' = Q
  BY DEF TypeMark, Q
<1> DEFINE new == Body(gcard')
<1>4. /\ new # NoMark /\ new.q = Q /\ new.n = marks + 1
      /\ new.manual = (IF ByHand(Q) THEN gcard'.manual ELSE None)
      /\ new.explain = gcard'.explain /\ new.flagged = gcard'.flagged
  BY <1>1, BodyTypes DEF Q
<1> HIDE DEF new
<1>5. NothingMarked'
  BY <1>3 DEF NothingMarked
<1> SUFFICES ASSUME slips = {} PROVE MarksInOrder'
  BY <1>3, <1>5 DEF MarksInOrder
<1>6. /\ m # None
      /\ \/ /\ ByHand(Q) /\ gcard'.manual = m /\ gcard'.explain = gcard.explain
            /\ marked'[Q].manual = m /\ marked'[Q].explain = marked[Q].explain
         \/ /\ gcard'.manual = gcard.manual /\ gcard'.explain = m
            /\ marked'[Q].manual = marked[Q].manual /\ marked'[Q].explain = m
      /\ gcard'.flagged = gcard.flagged /\ marked'[Q].flagged = marked[Q].flagged
      /\ \A q \in Questions \ {Q} : marked'[q] = marked[q]
  <2>1. m # None
    BY GradingAssumption, NoneIsNoValue
  <2>2. marked[Q] \in MarkedT
    BY <1>1
  <2> HIDE DEF Q
  <2> QED BY <1>1, <1>2, <2>1, <2>2 DEF CardT, MarkedT
<1>7. Grades' = gsends \cup {new} /\ gsends \subseteq Grades
  BY <1>3, <1>4 DEF Grades, new
<1>8. \A b \in gsends : b.n \in Nat /\ b.n < new.n /\ b.n \in 1..marks
  BY <1>1, <1>3, <1>4, <1>7 DEF MarksInOrder
<1>9. new.n \in Nat /\ new.n \in 1..(marks + 1)
  BY <1>1, <1>4
<1>10. Newest(Grades') = {new}
  BY <1>7, <1>8, <1>9, YoungestAdded
<1>11. \A b \in Grades' : b.q = Q /\ b.n \in 1..(marks + 1) /\ (~ByHand(Q) => b.manual = None)
  BY <1>1, <1>3, <1>4, <1>7, <1>8, <1>9 DEF MarksInOrder
<1>12. \A b, o \in Grades' : b.n = o.n => b = o
  BY <1>3, <1>7, <1>8, <1>9 DEF MarksInOrder
<1>13. \A b \in gsends : /\ gcard.manual = None => b.manual = None
                         /\ gcard.explain = None => b.explain = None
  BY <1>3, <1>7 DEF MarksInOrder
<1>14. \A b \in Newest(Grades)' : b = new
  BY <1>10 DEF Newest
<1> HIDE DEF Q, Grades
<1>15. Grades' # {} /\ gpage' = gpage /\ slips' = slips /\ marks' = marks + 1
  BY <1>3, <1>7
<1>16. /\ row'[Q].exists
       /\ \A q \in Questions \ {Q} : marked'[q] = Unmarked /\ row'[q].flagged = FALSE
       /\ ~ByHand(Q) => marked'[Q].manual = None
       /\ marked'[Q].manual # None => gcard'.manual = marked'[Q].manual
       /\ marked'[Q].explain # None => gcard'.explain = marked'[Q].explain
       /\ gcard'.flagged = marked'[Q].flagged
  BY <1>3, <1>6 DEF MarksInOrder
<1>17. /\ gcard'.manual = None => row'[Q].manual = None /\ \A b \in Grades' : b.manual = None
       /\ gcard'.explain = None => row'[Q].explain = None /\ \A b \in Grades' : b.explain = None
  BY <1>3, <1>4, <1>6, <1>7, <1>13 DEF MarksInOrder
<1>18. gtimer' # NoMark => \A b \in gsends' : b.n < gtimer'.n
  BY <1>3, <1>8 DEF new
<1> QED BY <1>3, <1>4, <1>11, <1>12, <1>14, <1>15, <1>16, <1>17, <1>18 DEF MarksInOrder, ByHand

\* The flag is sent at once: it follows the others while no mark waits in the timer.
LEMMA FlagKeepsMarks ==
  ASSUME SheetTypes, GraderTypes, NothingMarked, MarksInOrder, Flag
  PROVE  NothingMarked' /\ MarksInOrder'
<1>1. /\ Q \in Questions /\ gcard \in CardT /\ marks \in Nat /\ gcard' \in CardT
      /\ marked \in [Questions -> MarkedT]
      /\ gsends \subseteq BodyT /\ (gtimer = NoMark \/ gtimer \in BodyT)
  BY EvaluatorTypes DEF GraderTypes, Q, Evaluator
<1> DEFINE new == Body(gcard')
<1>2. /\ gpage.at = "shown" /\ marks' = marks + 1
      /\ gcard' = [gcard EXCEPT !.flagged = ~gcard.flagged]
      /\ marked' = [marked EXCEPT ![Q].flagged = gcard'.flagged]
      /\ gsends' = gsends \cup {new}
      /\ UNCHANGED <<row, gpage, gtimer>> /\ Q' = Q
      /\ slips' = {} => slips = {} /\ gtimer = NoMark
  BY DEF Flag, Q
<1>3. /\ new # NoMark /\ new.q = Q /\ new.n = marks + 1
      /\ new.manual = (IF ByHand(Q) THEN gcard'.manual ELSE None)
      /\ new.explain = gcard'.explain /\ new.flagged = gcard'.flagged
  BY <1>1, BodyTypes DEF Q
<1> HIDE DEF new
<1>4. NothingMarked'
  BY <1>2 DEF NothingMarked
<1> SUFFICES ASSUME slips = {}, gtimer = NoMark PROVE MarksInOrder'
  BY <1>2, <1>4 DEF MarksInOrder
<1>5. /\ gcard'.manual = gcard.manual /\ gcard'.explain = gcard.explain
      /\ marked'[Q].manual = marked[Q].manual /\ marked'[Q].explain = marked[Q].explain
      /\ marked'[Q].flagged = gcard'.flagged
      /\ \A q \in Questions \ {Q} : marked'[q] = marked[q]
  <2>1. marked[Q] \in MarkedT
    BY <1>1
  <2> HIDE DEF Q
  <2> QED BY <1>1, <1>2, <2>1 DEF CardT, MarkedT
<1>6. Grades' = gsends \cup {new} /\ gsends = Grades
  BY <1>2, <1>3 DEF Grades
<1>7. \A b \in gsends : b.n \in Nat /\ b.n < new.n /\ b.n \in 1..marks
  BY <1>1, <1>2, <1>3, <1>6 DEF MarksInOrder
<1>8. new.n \in Nat /\ new.n \in 1..(marks + 1)
  BY <1>1, <1>3
<1>9. Newest(Grades') = {new}
  BY <1>6, <1>7, <1>8, YoungestAdded
<1>10. \A b \in Grades' : b.q = Q /\ b.n \in 1..(marks + 1) /\ (~ByHand(Q) => b.manual = None)
  BY <1>1, <1>2, <1>3, <1>6, <1>7, <1>8 DEF MarksInOrder
<1>11. \A b, o \in Grades' : b.n = o.n => b = o
  BY <1>2, <1>6, <1>7, <1>8 DEF MarksInOrder
<1>12. \A b \in Newest(Grades)' : b = new
  BY <1>9 DEF Newest
<1> HIDE DEF Q, Grades
<1>13. Grades' # {}
  BY <1>6
<1>14. /\ row'[Q].exists
       /\ \A q \in Questions \ {Q} : marked'[q] = Unmarked /\ row'[q].flagged = FALSE
       /\ ~ByHand(Q) => marked'[Q].manual = None
       /\ marked'[Q].manual # None => gcard'.manual = marked'[Q].manual
       /\ marked'[Q].explain # None => gcard'.explain = marked'[Q].explain
  BY <1>2, <1>5 DEF MarksInOrder
<1>15. /\ gcard'.manual = None => row'[Q].manual = None /\ \A b \in Grades' : b.manual = None
       /\ gcard'.explain = None => row'[Q].explain = None /\ \A b \in Grades' : b.explain = None
  BY <1>2, <1>3, <1>5, <1>6 DEF MarksInOrder
<1> QED BY <1>2, <1>3, <1>5, <1>10, <1>11, <1>12, <1>13, <1>14, <1>15 DEF MarksInOrder, ByHand

\* The oldest grade arrives.
LEMMA ArrivalKeepsMarks ==
  ASSUME SheetTypes, GraderTypes, NothingMarked, MarksInOrder, NEW b \in gsends, GradeArrives(b)
  PROVE  NothingMarked' /\ MarksInOrder'
<1>1. /\ Q \in Questions /\ gcard \in CardT /\ row \in [Questions -> RowT]
      /\ b \in BodyT /\ gpage.at \in {"gone", "shown"}
  BY DEF SheetTypes, GraderTypes, Q
<1>2. gpage.at = "shown"
  BY <1>1 DEF NothingMarked, Grades
<1>3. /\ gsends' = gsends \ {b} /\ UNCHANGED <<gcard, gtimer, marked, marks>>
      /\ gpage'.at = gpage.at /\ gpage'.q = gpage.q
      /\ slips' = {} => /\ slips = {} /\ ~Refused(b)
                        /\ row' = [row EXCEPT ![b.q] = Graded(row[b.q], b)]
                        /\ ~(\E o \in gsends : o.q = b.q /\ o.n < b.n)
  BY DEF GradeArrives, GraderTypes
<1>4. NothingMarked'
  BY <1>2, <1>3 DEF NothingMarked
<1> SUFFICES ASSUME slips' = {} PROVE MarksInOrder'
  BY <1>4 DEF MarksInOrder
<1>5. b \in Grades /\ b.q = Q /\ b.n \in Nat
  BY <1>2, <1>3 DEF Grades, MarksInOrder
<1>6. /\ gsends \subseteq Grades /\ (gtimer # NoMark => gtimer \in Grades /\ b.n < gtimer.n)
      /\ \A o \in Grades : o \in gsends \/ (o = gtimer /\ gtimer # NoMark)
      /\ \A o \in Grades : o.n \in Nat /\ o.q = Q
      /\ \A o, p \in Grades : o.n = p.n => o = p
  BY <1>2, <1>3 DEF Grades, MarksInOrder
<1>7. Grades' = Grades \ {b}
  BY <1>3, <1>5, <1>6 DEF Grades
<1>8. \A o \in Grades \ {b} : b.n < o.n
  BY <1>3, <1>5, <1>6
<1>9. /\ Newest(Grades \ {b}) \subseteq Newest(Grades)
      /\ Grades \ {b} = {} => b \in Newest(Grades)
  BY <1>5, <1>6, <1>8, OldestTaken
<1>10. Q' = Q
  BY <1>3 DEF Q
<1>11. row[Q].exists /\ row[Q] \in RowT
  BY <1>1, <1>2, <1>3 DEF MarksInOrder
<1> HIDE DEF Q, Grades
<1>12. /\ row'[Q].exists
       /\ row'[Q].manual = (IF b.manual = None THEN row[Q].manual ELSE b.manual)
       /\ row'[Q].explain = (IF b.explain = None THEN row[Q].explain ELSE b.explain)
       /\ row'[Q].flagged = (IF b.flagged = None THEN row[Q].flagged ELSE b.flagged)
       /\ \A q \in Questions \ {Q} : row'[q] = row[q]
  <2>1. row' = [row EXCEPT ![Q] = Graded(row[Q], b)] /\ ~Refused(b)
    BY <1>3, <1>5
  <2>2. row'[Q] = Graded(row[Q], b) /\ \A q \in Questions \ {Q} : row'[q] = row[q]
    BY <1>1, <2>1
  <2> QED BY <1>1, <1>11, <2>1, <2>2, GradedRow
<1>13. /\ gcard.manual = None => row'[Q].manual = None
       /\ gcard.explain = None => row'[Q].explain = None
  BY <1>2, <1>3, <1>5, <1>12 DEF MarksInOrder
<1>14. b \in Newest(Grades) => /\ ByHand(Q) => row'[Q].manual = gcard.manual
                               /\ row'[Q].explain = gcard.explain
                               /\ row'[Q].flagged = gcard.flagged
  <2>1. gcard.flagged # None
    BY <1>1, NoneIsNoValue DEF CardT
  <2> QED BY <1>2, <1>3, <1>12, <2>1 DEF MarksInOrder
<1>15. \A o \in Newest(Grades)' : o \in Newest(Grades)
  BY <1>7, <1>9 DEF Newest
<1>16. Grades' = {} => b \in Newest(Grades)
  BY <1>7, <1>9
<1>17. gtimer' # NoMark => \A o \in gsends' : o.n < gtimer'.n
  BY <1>2, <1>3 DEF MarksInOrder
<1>18. \A q \in Questions \ {Q} : marked[q] = Unmarked /\ row'[q].flagged = FALSE
  BY <1>2, <1>3, <1>12 DEF MarksInOrder
<1>19. /\ \A o \in Grades' : o.q = Q /\ o.n \in 1..marks /\ (~ByHand(Q) => o.manual = None)
       /\ \A o, p \in Grades' : o.n = p.n => o = p
       /\ ~ByHand(Q) => marked[Q].manual = None
       /\ marked[Q].manual # None => gcard.manual = marked[Q].manual
       /\ marked[Q].explain # None => gcard.explain = marked[Q].explain
       /\ gcard.flagged = marked[Q].flagged
       /\ gcard.manual = None => \A o \in Grades' : o.manual = None
       /\ gcard.explain = None => \A o \in Grades' : o.explain = None
       /\ \A o \in Newest(Grades) : /\ ByHand(Q) => o.manual = gcard.manual
                                    /\ o.explain = gcard.explain
                                    /\ o.flagged = gcard.flagged
  BY <1>2, <1>3, <1>7 DEF MarksInOrder
<1> QED BY <1>3, <1>10, <1>12, <1>13, <1>14, <1>15, <1>16, <1>17, <1>18, <1>19 DEF MarksInOrder, ByHand

\* The evaluator's page, while nothing slips.
LEMMA EvaluatorKeepsMarks ==
  ASSUME SheetTypes, GraderTypes, NothingMarked, MarksInOrder, Evaluator
  PROVE  NothingMarked' /\ MarksInOrder'
<1>1. gpage \in [at : {"gone", "shown"}, q : Questions, rows : [Questions -> RowT], stale : BOOLEAN]
  BY DEF GraderTypes
<1>2. ASSUME NEW q \in Questions, OpenQueue(q)
      PROVE  NothingMarked' /\ MarksInOrder'
  <2>1. /\ gpage.at = "gone" /\ row[q].exists
        /\ gpage'.at = "shown" /\ gpage'.q = q /\ gcard' = CardFor(q, row[q])
        /\ UNCHANGED <<row, gtimer, gsends, marked, slips, marks>>
    BY <1>2 DEF OpenQueue
  <2>2. Grades' = {} /\ Q' = q
    BY <2>1 DEF NothingMarked, Grades, Q
  <2>3. \A r \in Questions : /\ marked[r] = Unmarked /\ row[r].manual = None
                             /\ row[r].explain = None /\ row[r].flagged = FALSE
    BY <2>1 DEF NothingMarked, MarksOf, Unmarked
  <2>4. gcard'.manual = None /\ gcard'.explain = None /\ gcard'.flagged = FALSE
    BY <2>1, <2>3 DEF CardFor
  <2>5. \A r \in Questions : marked[r].manual = None /\ marked[r].explain = None /\ marked[r].flagged = FALSE
    BY <2>3 DEF Unmarked
  <2>6. gtimer' # NoMark => \A b \in gsends' : b.n < gtimer'.n
    BY <2>2 DEF Grades
  <2> HIDE DEF Q, Grades
  <2> QED BY <2>1, <2>2, <2>3, <2>4, <2>5, <2>6 DEF NothingMarked, MarksInOrder, Newest
<1>3. CASE ReloadQueue
  <2>1. /\ gpage'.at = gpage.at /\ gpage'.q = gpage.q
        /\ UNCHANGED <<row, gcard, gtimer, gsends, marked, slips, marks>>
    BY <1>1, <1>3 DEF ReloadQueue
  <2>2. Grades' = Grades /\ Q' = Q
    BY <2>1 DEF Grades, Q
  <2> HIDE DEF Q, Grades
  <2> QED BY <2>1, <2>2 DEF NothingMarked, MarksInOrder, Newest, ByHand
<1>4. ASSUME NEW q \in Questions, ChooseQuestion(q)
      PROVE  NothingMarked' /\ MarksInOrder'
  BY <1>1, <1>4 DEF ChooseQuestion, NothingMarked, MarksInOrder
<1>5. CASE MarkTimerFires
  <2>1. /\ gtimer # NoMark /\ gsends' = gsends \cup {gtimer} /\ gtimer' = NoMark
        /\ UNCHANGED <<row, gpage, gcard, marked, slips, marks>>
    BY <1>5 DEF MarkTimerFires
  <2>2. Grades' = Grades /\ Q' = Q
    BY <2>1 DEF Grades, Q
  <2> HIDE DEF Q, Grades
  <2> QED BY <2>1, <2>2 DEF NothingMarked, MarksInOrder, Newest, ByHand
<1>6. CASE ZeroBlanks
  BY <1>1, <1>6 DEF ZeroBlanks, NothingMarked, MarksInOrder
<1> QED BY <1>2, <1>3, <1>4, <1>5, <1>6, TypeMarkKeepsMarks, FlagKeepsMarks, ArrivalKeepsMarks DEF Evaluator

-----------------------------------------------------------------------------
(* The whole section.                                                       *)

LEMMA GradingInit ==
  ASSUME Init
  PROVE  GradingInductive
<1>1. /\ phase = "open" /\ row = [q \in Questions |-> NoRow] /\ job = << >>
      /\ timer = NoSave /\ detached = {} /\ sends = {}
      /\ typed = [q \in Questions |-> [answer |-> None, why |-> None]]
      /\ gtimer = NoMark /\ gsends = {} /\ gpage.at = "gone"
      /\ marked = [q \in Questions |-> Unmarked]
  BY DEF Init, PuzzlesInit, Unmarked
<1>2. Pending = {} /\ Grades = {}
  BY <1>1 DEF Pending, Grades
<1>3. ScoringInv
  BY <1>1 DEF ScoringInv, NoRow
<1>4. SavesInOrder
  BY <1>1, <1>2 DEF SavesInOrder
<1>5. NothingForgotten
  BY <1>1, <1>2 DEF NothingForgotten, AnswersOf, ReasonsOf, Newest, NoRow
<1>6. NothingMarked /\ MarksInOrder
  BY <1>1, <1>2 DEF NothingMarked, MarksInOrder, NoRow, MarksOf, Unmarked
<1> QED BY <1>3, <1>4, <1>5, <1>6, InitTypes DEF GradingInductive

LEMMA GradingStep ==
  ASSUME GradingInductive, [Next]_vars
  PROVE  GradingInductive'
<1>1. SheetTypes /\ GraderTypes /\ ScoringInv /\ SavesInOrder /\ NothingForgotten
      /\ NothingMarked /\ MarksInOrder
  BY DEF GradingInductive
<1>2. CASE Participant /\ UNCHANGED grader
  <2>1. GraderTypes'
    BY <1>1, <1>2 DEF GraderTypes, grader
  <2> QED BY <1>1, <1>2, <2>1, ParticipantTypes, ParticipantKeepsScores, ParticipantKeepsSaves,
             OthersKeepMarks DEF GradingInductive
<1>3. CASE Scheduler /\ UNCHANGED grader
  <2>1. GraderTypes'
    BY <1>1, <1>3 DEF GraderTypes, grader
  <2> QED BY <1>1, <1>3, <2>1, SchedulerTypes, SchedulerKeepsScores, OthersKeepSaves,
             OthersKeepMarks DEF GradingInductive
<1>4. CASE Evaluator
  <2>1. ScoringInv'
    <3>1. /\ phase' = phase /\ job' = job
          /\ \A q \in Questions :
              /\ row'[q].state = row[q].state /\ row'[q].job = row[q].job
              /\ row'[q].auto = row[q].auto /\ row'[q].answer = row[q].answer
      BY <1>1, <1>4, EvaluatorKeepsRows DEF gEngine, scoring
    <3> QED BY <1>1, <3>1 DEF ScoringInv
  <2> QED BY <1>1, <1>4, <2>1, EvaluatorTypes, OthersKeepSaves, EvaluatorKeepsMarks DEF GradingInductive
<1>5. CASE UNCHANGED vars
  <2>1. UNCHANGED <<phase, finished, row, job, collected, sheet, card, timer, detached, reads,
                    sends, typed, excuse, edits, faults,
                    gpage, gcard, gtimer, gsends, marked, slips, marks>>
    BY <1>5 DEF vars, puzzleVars, engine, scoring, page, ghosts, grader
  <2>2. Pending' = Pending /\ Grades' = Grades /\ Q' = Q
    BY <2>1 DEF Pending, Grades, Q
  <2>3. SheetTypes' /\ GraderTypes'
    BY <1>1, <2>1 DEF SheetTypes, GraderTypes
  <2>4. ScoringInv' /\ SavesInOrder'
    BY <1>1, <2>1, <2>2 DEF ScoringInv, SavesInOrder
  <2>5. NothingForgotten'
    BY <1>1, <2>1, <2>2, NothingForgottenStays DEF SavesStay
  <2>6. NothingMarked'
    BY <1>1, <2>1, <2>2 DEF NothingMarked
  <2>7. MarksInOrder'
    <3> HIDE DEF Q, Grades
    <3> QED BY <1>1, <2>1, <2>2 DEF MarksInOrder, Newest, ByHand
  <2> QED BY <2>3, <2>4, <2>5, <2>6, <2>7 DEF GradingInductive
<1> QED BY <1>2, <1>3, <1>4, <1>5 DEF Next

\* The saves and the grades stay in order, and what waits stays for what is stored: the
\* reason why the two theorems below hold.
THEOREM SectionCorrect == Spec => []GradingInductive
<1>1. Init => GradingInductive
  BY GradingInit
<1>2. GradingInductive /\ [Next]_vars => GradingInductive'
  BY GradingStep
<1> QED BY <1>1, <1>2, PTL DEF Spec

\* Whatever was typed last is what the engine holds when nothing is on its way, however many
\* questions, edits and reloads there were (section-a, puzzle-card and save_answer).
THEOREM WhatWasTypedIsKept == Spec => []AnswersKept
<1>1. GradingInductive => AnswersKept
  <2> SUFFICES ASSUME GradingInductive, Quiet, excuse = {}, NEW q \in Questions
               PROVE  Stands(q)
    BY DEF AnswersKept
  <2>1. Pending = {}
    BY DEF Quiet, Pending
  <2> QED BY <2>1 DEF GradingInductive, NothingForgotten, AnswersOf, ReasonsOf, Stands
<1> QED BY <1>1, SectionCorrect, PTL

\* Every score is the score of the answer it stands beside and every mark the one that was
\* typed for its question (validator_jobs, grade and the evaluator's page).
THEOREM MarksAreAsGiven == Spec => []MarkedAsGiven
<1>1. GradingInductive => TypeOK
  <2> SUFFICES ASSUME GradingInductive PROVE TypeOK
    OBVIOUS
  <2>1. SheetTypes /\ GraderTypes /\ ScoringInv
    BY DEF GradingInductive
  <2>2. ASSUME NEW q \in Questions
        PROVE  /\ row[q].answer \in Answers \cup {None} /\ row[q].why \in Reasons \cup {None}
               /\ row[q].state \in {"none", "pending", "queued", "done", "error"}
               /\ row[q].job \in 0..Len(job)
               /\ {row[q].manual, row[q].explain} \subseteq 0..Full \cup {None}
    <3>1. row[q] \in RowT /\ Len(job) \in Nat
      BY <2>1 DEF SheetTypes
    <3>2. row[q].job \in Nat /\ row[q].job <= Len(job)
      BY <2>1, <3>1 DEF RowT, ScoringInv
    <3> QED BY <3>1, <3>2 DEF RowT, AnswerT, ReasonT, PointsT
  <2>3. /\ phase \in {"open", "over", "closed"} /\ finished \in BOOLEAN
        /\ sheet.at \in {"gone", "loading", "shown"} /\ sheet.current \in Questions
        /\ card.status \in {"idle", "saving", "saved", "failed"}
    BY <2>1 DEF SheetTypes
  <2>4. gpage.q \in Questions /\ {gcard.manual, gcard.explain} \subseteq Mark
    BY <2>1 DEF GraderTypes, CardT
  <2> QED BY <2>2, <2>3, <2>4 DEF TypeOK
<1>2. GradingInductive => ScoreIsOfTheAnswer
  BY PuzzlesAssumption DEF GradingInductive, ScoringInv, ScoreIsOfTheAnswer
<1>3. GradingInductive => MarksAreTheirs
  <2> SUFFICES ASSUME GradingInductive, gtimer = NoMark, gsends = {}, slips = {},
                      NEW q \in Questions, row[q].exists
               PROVE  /\ marked[q].manual # None => row[q].manual = marked[q].manual
                      /\ marked[q].explain # None => row[q].explain = marked[q].explain
                      /\ row[q].flagged = marked[q].flagged
    BY DEF MarksAreTheirs
  <2>1. Grades = {} /\ gpage.at \in {"gone", "shown"} /\ NothingMarked /\ MarksInOrder
    BY DEF Grades, GradingInductive, GraderTypes
  <2>2. CASE gpage.at = "gone"
    <3>1. /\ marked[q].manual = None /\ marked[q].explain = None
          /\ marked[q].flagged = FALSE /\ row[q].flagged = FALSE
      <4>1. marked[q] = Unmarked /\ MarksOf(row[q]).flagged = Unmarked.flagged
        BY <2>1, <2>2 DEF NothingMarked
      <4>2. MarksOf(row[q]).flagged = row[q].flagged /\ Unmarked.flagged = FALSE
        BY Zenon DEF MarksOf, Unmarked
      <4>3. row[q].flagged = FALSE
        BY <4>1, <4>2, Zenon
      <4>4. marked[q].manual = None /\ marked[q].explain = None /\ marked[q].flagged = FALSE
        BY <4>1 DEF Unmarked
      <4> QED BY <4>3, <4>4
    <3> QED BY <3>1, Zenon
  <2>3. CASE gpage.at = "shown" /\ q # Q
    <3>1. /\ marked[q].manual = None /\ marked[q].explain = None
          /\ marked[q].flagged = FALSE /\ row[q].flagged = FALSE
      BY <2>1, <2>3 DEF MarksInOrder, Unmarked
    <3> QED BY <3>1, Zenon
  <2>4. CASE gpage.at = "shown" /\ q = Q
    <3>1. /\ ~ByHand(Q) => marked[Q].manual = None
          /\ marked[Q].manual # None => gcard.manual = marked[Q].manual
          /\ marked[Q].explain # None => gcard.explain = marked[Q].explain
          /\ gcard.flagged = marked[Q].flagged
          /\ ByHand(Q) => row[Q].manual = gcard.manual
          /\ row[Q].explain = gcard.explain
          /\ row[Q].flagged = gcard.flagged
      BY <2>1, <2>4 DEF MarksInOrder
    <3> HIDE DEF Q, ByHand
    <3> QED BY <2>4, <3>1
  <2>5. gpage.at = "gone" \/ gpage.at = "shown"
    BY <2>1
  <2> QED BY <2>2, <2>3, <2>4, <2>5
<1>4. GradingInductive => MarkedAsGiven
  BY <1>1, <1>2, <1>3 DEF MarkedAsGiven
<1> QED BY <1>4, SectionCorrect, PTL
=============================================================================
