-------------------------------- MODULE Hacking --------------------------------
(***************************************************************************)
(* Section B: one participant attacks the copies of a hacking question     *)
(* (web contest/section-b), the engine takes the attempts, sends them to   *)
(* the judge and scores them (engine/phase1/hacking, hack_jobs), while the *)
(* organisers write the question (Authoring).                              *)
(***************************************************************************)
EXTENDS Authoring, TLC

CONSTANT Faults         \* those that happen: "refused", "down", "forgotten", "IE", "crash"

VARIABLES
  open,         \* the phase is p1_hacking and its time is not over
  finished,     \* p1_hacking_finished_at is set
  cooling,      \* less than COOLDOWN_MS since the last attempt ended
  attempt,      \* p1_hack_attempt of this participant, in order
  job,          \* the judge's jobs
  collected,    \* results pollers have fetched and not written yet
  page,         \* SectionB: what it has loaded
  removed       \* for the properties: an attempt's copy went before it was sent

hacking == <<open, finished, cooling, attempt, job, collected, page, removed>>
vars == <<authoring, hacking>>

Points == 1
Penalty == 1

Fault(kind) == kind \in Faults /\ Spend("faults")

\* Where the organisers stand, while the participant and the scheduler act.
writing == <<section, q, builder, update, test, ghosts>>

-----------------------------------------------------------------------------
(* The engine: an attempt.                                                  *)

NewAttempt(copy, input) ==
  [copy |-> copy, input |-> input, state |-> "pending", job |-> 0, outcome |-> "none", points |-> 0]

InFlight == \E i \in DOMAIN attempt : attempt[i].state # "done"

\* _check_may_attempt, with the participant's row locked; the last attempt is looked at.
MayAttempt ==
  ~finished /\ ~cooling /\ (attempt = << >> \/ Last(attempt).state = "done")

\* submit.  Nobody is blacked out before the marketplace opens.
Takes(copy) ==
  /\ open /\ Published /\ section = "hacking"
  /\ \E i \in DOMAIN q.content : q.content[i].id = copy
  /\ MayAttempt

CopyOf(i) == CHOOSE c \in ToSet(q.content) : c.id = attempt[i].copy

\* Attempts on a copy that is removed forget which one it was.
Forgotten(content) ==
  LET ids == {content[i].id : i \in DOMAIN content}
  IN  [i \in DOMAIN attempt |-> IF attempt[i].copy \in ids THEN attempt[i] ELSE [attempt[i] EXCEPT !.copy = None]]

\* Mutant: every hack scores.
PointsForEach(i, outcome) ==
  CASE outcome = "missed" -> 0 - Penalty
    [] outcome = "hacked" -> Points
    [] OTHER -> 0

\* _points: the first hack scores, a miss costs the penalty.
PointsFor(i, outcome) ==
  CASE outcome = "missed" -> 0 - Penalty
    [] outcome = "hacked" /\ \A k \in DOMAIN attempt : attempt[k].outcome # "hacked" -> Points
    [] OTHER -> 0

Ended(i, outcome, points) ==
  [attempt EXCEPT ![i].state = "done", ![i].outcome = outcome, ![i].points = points]

-----------------------------------------------------------------------------
(* hack_jobs: the scheduler, and the request that submitted.                *)

Pending == {i \in DOMAIN attempt : attempt[i].state = "pending"}

\* send_one, with the oldest pending attempt locked.  Without its copy it cannot be
\* sent: _broken is called without a message, which raises, and nothing is written.
SendOne ==
  /\ Pending # {}
  /\ LET i == CHOOSE k \in Pending : \A m \in Pending : k <= m IN
       /\ attempt[i].copy # None
       /\ \/ /\ Len(job) < left.jobs
             /\ job' = Append(job, [code |-> CopyOf(i).code, input |-> attempt[i].input])
             /\ \/ attempt' = [attempt EXCEPT ![i].state = "queued", ![i].job = Len(job')] /\ UNCHANGED left
                \/ Fault("crash") /\ UNCHANGED attempt
             /\ UNCHANGED cooling
          \/ /\ Fault("refused")
             /\ attempt' = Ended(i, "IE", 0) /\ cooling' = TRUE
             /\ UNCHANGED job
          \/ Fault("down") /\ UNCHANGED <<attempt, job, cooling>>
  /\ UNCHANGED <<writing, open, finished, collected, page, removed>>

Judged(j) == IF j.input = None THEN "invalid" ELSE IF j.code = j.input THEN "hacked" ELSE "missed"

\* poll asks the judge for the job of an attempt that waits.
Collect(i) ==
  /\ i \in DOMAIN attempt /\ attempt[i].state = "queued"
  /\ \E outcome \in {Judged(job[attempt[i].job]), "IE", "gone"} :
       /\ CASE outcome = "IE" -> Fault("IE")
            [] outcome = "gone" -> Fault("forgotten")
            [] OTHER -> UNCHANGED left
       /\ collected' = collected \cup {[attempt |-> i, job |-> attempt[i].job, outcome |-> outcome]}
  /\ UNCHANGED <<writing, open, finished, cooling, attempt, job, page, removed>>

Resent(i) == [attempt EXCEPT ![i].state = "pending", ![i].job = 0]

\* Mutant: the attempt may be settled already.
WaitsForSettled(c) == attempt[c.attempt].job = c.job

WaitsFor(c) == attempt[c.attempt].state # "done" /\ attempt[c.attempt].job = c.job

\* settle, or send it again; then the page hears of it.
Settle(c) ==
  /\ c \in collected /\ collected' = collected \ {c}
  /\ IF ~WaitsFor(c) THEN UNCHANGED <<attempt, cooling, page>>
     ELSE IF c.outcome = "gone"
       THEN /\ attempt' = Resent(c.attempt)
            /\ UNCHANGED <<cooling, page>>
       ELSE /\ attempt' = Ended(c.attempt, c.outcome, PointsFor(c.attempt, c.outcome))
            /\ cooling' = TRUE
            /\ page' = [page EXCEPT !.stale = @ \/ page.at = "shown"]
  /\ UNCHANGED <<authoring, open, finished, job, removed>>

Scheduler == SendOne \/ (\E i \in DOMAIN attempt : Collect(i)) \/ (\E c \in collected : Settle(c))

CooledDown == cooling /\ cooling' = FALSE
              /\ UNCHANGED <<authoring, open, finished, attempt, job, collected, page, removed>>

TimeUp == open /\ section = "hacking" /\ open' = FALSE
          /\ UNCHANGED <<authoring, finished, cooling, attempt, job, collected, page, removed>>

-----------------------------------------------------------------------------
(* The participant's page.                                                  *)

\* section_for, and what the page makes of the attempts it lists.
SectionFor ==
  [open |-> open, copies |-> IF Published /\ ~q.voided THEN CopyIds ELSE {}, inFlight |-> InFlight]

NoPage == [at |-> "gone", stale |-> FALSE, busy |-> FALSE, data |-> SectionFor]

\* load, when it is mounted and whenever a hack or hacking event is heard.  An instance
\* opens the section once there is something to see and all its tests have been run.
LoadSection ==
  /\ section = "hacking"
  /\ \/ page.at = "gone" /\ Published /\ left.tests = 0 /\ \A a \in Authors : test[a].at = "none"
     \/ page.stale
  /\ page' = [page EXCEPT !.at = "shown", !.stale = FALSE, !.data = SectionFor]
  /\ UNCHANGED <<authoring, open, finished, cooling, attempt, job, collected, removed>>

PageLocked == ~page.data.open \/ finished

\* The button under the test input, for the copy on screen (in the participant's
\* language, or the first one).
SubmitButton(copy) ==
  /\ page.at = "shown" /\ ~page.busy /\ ~page.data.inFlight /\ ~PageLocked
  /\ copy \in page.data.copies

\* The press: the request is on its way and the button shows that it is busy; answered,
\* taken or refused, the section is loaded again (a refusal leaves it as it was).
Submit(copy, input) ==
  /\ SubmitButton(copy)
  /\ Len(attempt) < left.attempts
  /\ IF Takes(copy)
       THEN /\ attempt' = Append(attempt, NewAttempt(copy, input))
            /\ page' = [page EXCEPT !.busy = TRUE]
       ELSE UNCHANGED <<attempt, page>>
  /\ UNCHANGED <<authoring, open, finished, cooling, job, collected, removed>>

SubmitAnswered ==
  /\ page.busy
  /\ page' = [page EXCEPT !.busy = FALSE, !.data = SectionFor]
  /\ UNCHANGED <<authoring, open, finished, cooling, attempt, job, collected, removed>>

\* "Submit & finish", asked once more; an attempt under way still counts.
FinishSection ==
  /\ page.at = "shown" /\ ~PageLocked /\ open
  /\ finished' = TRUE
  /\ UNCHANGED <<authoring, open, cooling, attempt, job, collected, page, removed>>

Participant ==
  \/ LoadSection \/ SubmitAnswered \/ FinishSection
  \/ \E c \in 1..q.nextId, input \in Codes \cup {None} : Submit(c, input)

-----------------------------------------------------------------------------

\* Every change of Section B is announced, and takes the attempts of a removed copy along.
Organiser ==
  /\ \E a \in Authors : Author(a)
  /\ attempt' = IF q' = q THEN attempt ELSE Forgotten(q'.content)
  /\ removed' = (removed \/ \E i \in DOMAIN attempt : attempt[i].state = "pending" /\ attempt'[i].copy = None)
  /\ page' = [page EXCEPT !.stale = @ \/ (page.at = "shown" /\ q' # q)]
  /\ UNCHANGED <<open, finished, cooling, job, collected>>

Init ==
  /\ AuthoringInit
  /\ open = TRUE /\ finished = FALSE /\ cooling = FALSE
  /\ attempt = << >> /\ job = << >> /\ collected = {}
  /\ page = NoPage
  /\ removed = FALSE

Next == Organiser \/ Participant \/ Scheduler \/ CooledDown \/ TimeUp

Spec == Init /\ [][Next]_vars

\* The scheduler runs every second.
Fairness ==
  /\ WF_vars(SendOne) /\ WF_vars(\E i \in DOMAIN attempt : Collect(i))
  /\ WF_vars(\E c \in collected : Settle(c))

FairSpec == Spec /\ Fairness

-----------------------------------------------------------------------------
(* What Section B promises.                                                 *)

\* Every variable holds what its column or its state may hold, and nobody has points
\* for what was not judged.
TypeOK ==
  /\ section \in Sections /\ q.proven \subseteq 1..q.nextId
  /\ \A i \in DOMAIN attempt :
       /\ attempt[i].state \in {"pending", "queued", "done"}
       /\ attempt[i].job \in 0..Len(job)
       /\ attempt[i].state = "queued" <=> attempt[i].job # 0 /\ attempt[i].state # "done"
       /\ attempt[i].state # "done" => attempt[i].outcome = "none" /\ attempt[i].points = 0
  /\ \A a \in Authors : builder[a].form # << >>

\* A question that is ready was shown to work exactly as it stands: its key, or the input
\* that breaks each copy, was tested on what is stored now, unless it was saved while the
\* judge was testing it.
ReadyIsProven ==
  q.there /\ q.ready /\ ~raced =>
    IF section = "puzzles" THEN q.content \in shown ELSE ToSet(q.content) \subseteq shown

\* What an author has written stays on screen until it is saved or discarded, and with
\* nothing unsaved the form shows the question as it was last read, whoever saves, tests or
\* publishes meanwhile.
NothingWrittenIsLost ==
  \A a \in Authors : builder[a].open => builder[a].form = written[a]

\* Every control on a page that has just been read is taken by the engine, in the list and
\* under Verify & publish, and both offer the same.
ControlsWork ==
  \A a \in Authors : builder[a].open /\ builder[a].row = q =>
    /\ \A c \in Menu(q) \cup VerifyControls(q) : Accepts(c)
    /\ Menu(q) = VerifyControls(q) \/ q.voided

\* A page that has just loaded the section offers to submit only what the engine takes, but
\* for the moment after the last attempt; and one attempt at a time is judged, however often
\* the button is pressed and whatever the page has missed.
OneAttemptAtATime ==
  /\ Cardinality({i \in DOMAIN attempt : attempt[i].state # "done"}) <= 1
  /\ page.at = "shown" /\ page.data = SectionFor =>
       \A c \in 1..q.nextId : SubmitButton(c) => Takes(c) \/ cooling

\* The section's points: one successful hack of the question at most scores, whatever is
\* judged twice, and no miss of a settled attempt is taken back.
FirstHackScoresOnce ==
  Cardinality({i \in DOMAIN attempt : attempt[i].points > 0}) <= 1

Settled(i) == [state |-> attempt[i].state, outcome |-> attempt[i].outcome, points |-> attempt[i].points]

\* A settled attempt never changes, but for the copy it was aimed at: no result that comes
\* late, or twice, is written over it.
SettledStands ==
  [][\A i \in DOMAIN attempt : attempt[i].state = "done" => Settled(i)' = Settled(i)]_vars

\* The attempts an instance has room for.
AttemptIds == 1..CHOOSE n \in {b.attempts : b \in Budgets} : \A b \in Budgets : b.attempts <= n
JobsSpent == Len(job) = left.jobs
Taken(i) == i \in DOMAIN attempt
Done(i) == Taken(i) /\ attempt[i].state = "done"

\* Every attempt is judged in the end, whatever the judge refuses, forgets or breaks, as long
\* as its copy is not removed before it is sent.
EveryAttemptEnds ==
  \A i \in AttemptIds :
    Taken(i) ~> (JobsSpent \/ removed \/ Done(i))

\* A participant attacks with one attempt at a time and scores a question once.
AttemptsCount == TypeOK /\ OneAttemptAtATime /\ FirstHackScoresOnce

\* The organisers' pages neither lose what is written on them nor offer what is refused.
BuildersAgree == NothingWrittenIsLost /\ ControlsWork

\* Every attempt is settled, and once and for all.
AttemptsSettle == SettledStands /\ EveryAttemptEnds
=============================================================================
