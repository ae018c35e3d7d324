---------------------------- MODULE WorkspaceProofs ----------------------------
(***************************************************************************)
(* What holds of a participant's question page and of the engine behind    *)
(* it, for any number of languages, drafts, submissions, runs, hints and   *)
(* failures.  The steps are told apart by what they touch: submissions,    *)
(* practice runs, hints, what the page asked for, and the drafts.  Each    *)
(* has an invariant of its own.                                            *)
(***************************************************************************)
EXTENDS Workspace, SequenceTheorems, FiniteSetTheorems, TLAPS

-----------------------------------------------------------------------------
(* Submissions.                                                             *)

SubmissionRow == [state : {"pending", "running", "done"}, judgement : Nat \X (Nat \ {0}), ac : BOOLEAN]
Rejudged == \E i \in DOMAIN submission : submission[i].judgement[2] > 1

\* One is judged at a time until an organiser has them all judged again.
SubmissionInv ==
  /\ submission \in Seq(SubmissionRow)
  /\ \A i \in DOMAIN submission : submission[i].ac => submission[i].state = "done"
  /\ (\A i, j \in Unjudged : i = j) \/ Rejudged

-----------------------------------------------------------------------------
(* Practice runs.                                                           *)

RunRow == [state : {"pending", "queued", "running", "done"}, job : BOOLEAN, verdict : {"AC", "IE", None}]
JobStates == {"none", "queued", "running", "done", "gone"}

RunTypes ==
  /\ run \in Seq(RunRow) /\ job \in Seq(JobStates) /\ Len(job) = Len(run)
  /\ \A i \in DOMAIN run : run[i].job => job[i] # "none"
  /\ starting # None => starting.run \in DOMAIN run
  /\ \A c \in collected :
       /\ c.run \in DOMAIN run /\ c.was \in {"pending", "queued", "running"}
       /\ c.job \in JobStates \ {"none"}

\* No call to the judge outlives UNSENT_AFTER, and one tick collects at a time.
Punctual == Faults \cap {"slow", "overlap"} = {}

\* One run at a time is unfinished; while the call to the judge is under way it is that one,
\* and what a tick has learnt and not written is about that one, as it stands.
OneRunInv ==
  /\ \A i, j \in Live : i = j
  /\ starting # None => run[starting.run].state = "pending" /\ ~run[starting.run].job
  /\ \A c \in collected : run[c.run].job /\ c.was = run[c.run].state
  /\ \A c, d \in collected : c = d

-----------------------------------------------------------------------------
(* Hints.                                                                   *)

GhostTypes ==
  DOMAIN ghost = {"stale", "behind", "confirmed"} /\ ghost.behind \in BOOLEAN

\* Every request under way is for a hint that a dialog named.
HintInv ==
  /\ hint \in [bought : Nat, paid : Nat] /\ HintsAsConfirmed
  /\ GhostTypes /\ buying \in Seq(ghost.confirmed)

-----------------------------------------------------------------------------
(* Drafts, and the editor they are made in.                                 *)

Text == [lang : Languages, n : Nat]
Save == {s \in [lang : Languages, text : Text] : s.text.lang = s.lang}

\* What is kept of a language is code of that language, saved before now.
KeptIn(d) ==
  /\ d \in [Languages -> {None} \cup [text : Text, at : Nat]]
  /\ \A l \in Languages : d[l] # None => d[l].text.lang = l /\ d[l].at < clock

\* Of the drafts, one is the newest.
DraftsOf(d) ==
  /\ KeptIn(d)
  /\ Saved(d) # {} => \E l \in Saved(d) : \A m \in Saved(d) : d[m].at <= d[l].at

Page == [at : {"closed", "loading", "open", "error"}, hidden : BOOLEAN, language : Languages, source : Text,
         code : [Languages -> {None} \cup Text]]

EditorInv ==
  /\ clock \in Nat /\ KeptIn(local) /\ DraftsOf(draft)
  /\ page \in Page /\ page.source.lang = page.language
  /\ \A l \in Languages : page.code[l] # None => page.code[l].lang = l
  /\ timer \in Save \cup {None} /\ puts \in Seq(Save)

\* What another machine will find, once what is to be saved is saved.
NewestSave ==
  IF timer # None THEN timer
  ELSE IF puts # << >> THEN Last(puts)
  ELSE LET there == LastIn(draft) IN
       [lang |-> there, text |-> IF draft[there] = None THEN Template(there) ELSE draft[there].text]

OnScreen == [lang |-> page.language, text |-> page.source]

Unsaved(l) == (timer # None /\ timer.lang = l) \/ \E i \in DOMAIN puts : puts[i].lang = l

\* The newest of what is to be saved is what is on screen.
ScreenInv == page.at = "open" => NewestSave = OnScreen

\* A page that opens has nothing to save, and is answered with the drafts as they are.
OpeningInv ==
  page.at = "loading" =>
    \A i \in DOMAIN loads :
      loads[i].at = "answered" => timer = None /\ puts = << >> /\ loads[i].now.draft = draft

\* Where this browser's copy is newer than the draft, a save of that language is to come.
LocalInv ==
  \A l \in Languages : local[l] # None /\ draft[l] # None /\ local[l].at > draft[l].at => Unsaved(l)

SwapInv == ~ghost.behind => ScreenInv /\ OpeningInv /\ LocalInv

-----------------------------------------------------------------------------
(* What the page asked for and follows.                                     *)

Snapshot == [history : Seq(SubmissionRow), cooling : BOOLEAN, revealed : Nat,
             draft : [Languages -> {None} \cup [text : Text, at : Nat]]]

\* A load answers with the question as it was at some moment before.
Load == {x \in [at : {"sent", "answered"}, now : Snapshot \cup {None}] :
           x.at = "answered" =>
             x.now \in Snapshot /\ Len(x.now.history) <= Len(submission) /\ DraftsOf(x.now.draft)}

LoadsInv == loads \in Seq(Load)

IsFollow(f) ==
  /\ DOMAIN f = {"url", "value", "done", "timer", "flight", "answer"}
  /\ f.flight \in {"none", "sent", "answered", "aborted"}

FollowedRows(k) == Len(IF k = "judgement" THEN submission ELSE run)

FollowInv ==
  /\ DOMAIN follow = Followings
  /\ \A k \in Followings : IsFollow(follow[k]) /\ follow[k].url \in 0..FollowedRows(k)

\* A closed page has asked for nothing and hears nothing.
ClosedInv ==
  page.at = "closed" =>
    /\ loads = << >> /\ event = << >> /\ buying = << >> /\ posting = "none"
    /\ follow.judgement.url = 0 /\ follow.judgement.flight = "none" /\ ~follow.judgement.timer

-----------------------------------------------------------------------------
(* The inductive invariant.                                                 *)

WorkspaceInv ==
  /\ SubmissionInv /\ cooling \in BOOLEAN /\ HintInv
  /\ RunTypes /\ (Punctual => OneRunInv)
  /\ EditorInv /\ LoadsInv /\ FollowInv /\ ClosedInv /\ SwapInv

-----------------------------------------------------------------------------
(* Submissions are judged, judged again, cancelled and made.                *)

\* The steps that write a submission.
LEMMA SubmissionSteps ==
  ASSUME [Next]_vars
  PROVE  \/ UNCHANGED <<submission, cooling>> \/ CooledDown
         \/ \E i \in DOMAIN submission : Judge(i)
         \/ Rejudge \/ Submit \/ Cancel
<1>1. CASE UNCHANGED vars
  BY <1>1 DEF vars, engine
<1>2. CASE Participant
  <2>1. CASE Open \/ Leave \/ CloseTab \/ Hide \/ Show
    BY <2>1 DEF Open, Leave, CloseTab, Closed, Hide, Show, engine
  <2>2. CASE Type \/ Reset \/ StartRun \/ BuyHint \/ \E l \in Languages : Switch(l)
    BY <2>2, Zenon DEF Type, Reset, Change, StartRun, BuyHint, Switch, engine
  <2> QED BY <1>2, <2>1, <2>2, Zenon DEF Participant
<1>3. CASE Browser
  <2>1. CASE Loading \/ \E i \in DOMAIN loads : LoadFails(i)
    BY <2>1, Zenon DEF Loading, LoadServed, LoadAnswered, LoadFails, engine
  <2>2. CASE \E k \in Followings : Polling(k) \/ PollFails(k)
    BY <2>2, Zenon DEF Polling, PollServed, PollAnswered, PollAborted, PollTimer, PollFails, engine
  <2>3. CASE EventHeard \/ Posted \/ HintBought
    BY <2>3 DEF EventHeard, Posted, HintBought, engine
  <2>4. CASE DraftTimer \/ \E i \in DOMAIN puts : PutArrives(i) \/ PutLost(i)
    BY <2>4, Zenon DEF DraftTimer, PutArrives, PutLost, engine
  <2> QED BY <1>3, <2>1, <2>2, <2>3, <2>4, Zenon DEF Browser
<1>4. CASE Engine
  <2>2. CASE RunSent \/ \E i \in DOMAIN run : GiveUp(i) \/ JudgeRuns(i) \/ CollectRun(i)
    BY <2>2, Zenon DEF RunSent, GiveUp, JudgeRuns, CollectRun, engine
  <2>3. CASE \E c \in collected : WriteRun(c)
    BY <2>3, Zenon DEF WriteRun, engine
  <2> QED BY <1>4, <2>2, <2>3, Zenon DEF Engine
<1> QED BY <1>1, <1>2, <1>3, <1>4, Zenon DEF Next

\* What a step may do to the submissions, whoever takes it.
LEMMA SubmissionStep ==
  ASSUME SubmissionInv, [Next]_vars
  PROVE  /\ SubmissionInv' /\ Len(submission) <= Len(submission')
         /\ Rejudge \/ \A i \in DOMAIN submission : i \in DOMAIN submission' /\ (submission[i].ac => submission'[i].ac)
<1>0. /\ submission \in Seq(SubmissionRow) /\ DOMAIN submission = 1..Len(submission) /\ Len(submission) \in Nat
      /\ \A i \in DOMAIN submission : submission[i] \in SubmissionRow
  BY ElementOfSeq DEF SubmissionInv
<1>1. CASE UNCHANGED submission
  BY <1>0, <1>1 DEF SubmissionInv, Unjudged, Rejudged
<1>2. ASSUME NEW i \in DOMAIN submission, Judge(i)
      PROVE  /\ SubmissionInv' /\ Len(submission) <= Len(submission')
             /\ \A k \in DOMAIN submission : k \in DOMAIN submission' /\ (submission[k].ac => submission'[k].ac)
  <2>1. i \in Unjudged
    BY <1>2 DEF Judge
  <2>2. PICK s \in {"running", "done"}, ac \in BOOLEAN :
          /\ ac => s = "done"
          /\ submission' = [submission EXCEPT ![i].state = s, ![i].ac = ac]
    <3>1. CASE submission' = [submission EXCEPT ![i].state = "running"]
      <4>1. ~submission[i].ac /\ submission[i].ac \in BOOLEAN
        BY <1>0, <2>1 DEF SubmissionInv, Unjudged, SubmissionRow
      <4>2. submission' = [submission EXCEPT ![i].state = "running", ![i].ac = FALSE]
        <5>1. [submission[i] EXCEPT !.state = "running"] = [submission[i] EXCEPT !.state = "running", !.ac = FALSE]
          BY <1>0, <4>1 DEF SubmissionRow
        <5> QED BY <1>0, <3>1, <5>1
      <4> QED BY <4>2
    <3>2. CASE submission' = [submission EXCEPT ![i].state = "done",
                   ![i].ac = submission[i].state = "running" /\ submission[i].judgement \in Accepted]
      <4> DEFINE ok == submission[i].state = "running" /\ submission[i].judgement \in Accepted
      <4>1. ok \in BOOLEAN /\ submission' = [submission EXCEPT ![i].state = "done", ![i].ac = ok]
        BY <3>2
      <4> HIDE DEF ok
      <4> QED BY <4>1
    <3> QED BY <1>2, <3>1, <3>2 DEF Judge
  <2>3. /\ DOMAIN submission' = DOMAIN submission /\ Len(submission') = Len(submission)
        /\ submission' \in Seq(SubmissionRow)
        /\ submission'[i].state = s /\ submission'[i].ac = ac /\ submission'[i].judgement = submission[i].judgement
        /\ \A k \in DOMAIN submission : k # i => submission'[k] = submission[k]
    <3> DEFINE r == [submission[i] EXCEPT !.state = s, !.ac = ac]
    <3>1. r \in SubmissionRow /\ r.state = s /\ r.ac = ac /\ r.judgement = submission[i].judgement
      BY <1>0 DEF SubmissionRow
    <3>2. submission' = [submission EXCEPT ![i] = r]
      BY <2>2
    <3> HIDE DEF r
    <3> QED BY <1>0, <3>1, <3>2
  <2>4. Unjudged' \subseteq Unjudged
    BY <2>1, <2>3 DEF Unjudged
  <2>5. Rejudged => Rejudged'
    <3> SUFFICES ASSUME NEW k \in DOMAIN submission, submission[k].judgement[2] > 1
                 PROVE  submission'[k].judgement[2] > 1 /\ k \in DOMAIN submission'
      BY DEF Rejudged
    <3>1. submission'[k].judgement = submission[k].judgement
      BY <2>3
    <3> QED BY <2>3, <3>1
  <2>6. \A k \in DOMAIN submission' : submission'[k].ac => submission'[k].state = "done"
    BY <2>2, <2>3 DEF SubmissionInv
  <2>7. \A k \in DOMAIN submission : submission[k].ac => submission'[k].ac
    BY <2>1, <2>3 DEF SubmissionInv, Unjudged
  <2>8. SubmissionInv'
    BY <2>3, <2>4, <2>5, <2>6 DEF SubmissionInv
  <2> QED BY <1>0, <2>3, <2>7, <2>8
<1>3. CASE Rejudge
  <2> DEFINE new(i) == [state |-> "pending", judgement |-> <<i, submission[i].judgement[2] + 1>>, ac |-> FALSE]
  <2>1. submission' = [i \in DOMAIN submission |-> new(i)] /\ \E i \in DOMAIN submission : TRUE
    BY <1>3 DEF Rejudge
  <2>2. \A i \in DOMAIN submission : new(i) \in SubmissionRow /\ new(i).judgement[2] > 1 /\ ~new(i).ac
    <3> SUFFICES ASSUME NEW i \in DOMAIN submission
                 PROVE  new(i) \in SubmissionRow /\ new(i).judgement[2] > 1 /\ ~new(i).ac
      OBVIOUS
    <3>1. submission[i].judgement[2] \in Nat \ {0} /\ i \in Nat
      BY <1>0 DEF SubmissionRow
    <3>2. submission[i].judgement[2] + 1 \in Nat \ {0} /\ submission[i].judgement[2] + 1 > 1
      BY <3>1
    <3> QED BY <3>1, <3>2 DEF SubmissionRow
  <2> HIDE DEF new
  <2>3. submission' \in Seq(SubmissionRow) /\ Len(submission') = Len(submission)
        /\ DOMAIN submission' = DOMAIN submission /\ \A i \in DOMAIN submission : submission'[i] = new(i)
    <3>1. submission' \in [1..Len(submission) -> SubmissionRow]
      BY <1>0, <2>1, <2>2
    <3> QED BY <1>0, <2>1, <3>1
  <2>4. Rejudged'
    BY <2>1, <2>2, <2>3 DEF Rejudged
  <2> QED BY <1>0, <1>3, <2>2, <2>3, <2>4 DEF SubmissionInv
<1>4. CASE Submit
  <2> DEFINE r == [state |-> "pending", judgement |-> <<Len(submission) + 1, 1>>, ac |-> FALSE]
  <2>1. CASE ~Takes
    BY <1>1, <1>4, <2>1 DEF Submit
  <2>2. CASE Takes
    <3>1. submission' = Append(submission, r) /\ Unjudged = {}
      BY <1>4, <2>2 DEF Submit, Takes
    <3>2. r \in SubmissionRow /\ ~r.ac
      BY <1>0 DEF SubmissionRow
    <3> HIDE DEF r
    <3>3. /\ submission' \in Seq(SubmissionRow) /\ Len(submission') = Len(submission) + 1
          /\ DOMAIN submission' = 1..Len(submission) + 1 /\ submission'[Len(submission) + 1] = r
          /\ \A i \in DOMAIN submission : submission'[i] = submission[i]
      BY <1>0, <3>1, <3>2
    <3>4. \A i \in Unjudged' : i = Len(submission) + 1
      BY <1>0, <3>1, <3>3 DEF Unjudged
    <3>5. \A i \in DOMAIN submission' : submission'[i].ac => submission'[i].state = "done"
      BY <1>0, <3>2, <3>3 DEF SubmissionInv
    <3>6. SubmissionInv'
      BY <3>3, <3>4, <3>5 DEF SubmissionInv
    <3> QED BY <1>0, <3>3, <3>6
  <2> QED BY <2>1, <2>2
<1>5. CASE Cancel
  <2>1. CASE Unjudged = {}
    BY <1>1, <1>5, <2>1 DEF Cancel, engine
  <2>2. CASE Unjudged # {}
    <3>1. submission' = [i \in DOMAIN submission |-> [submission[i] EXCEPT !.state = "done"]]
      BY <1>5, <2>2 DEF Cancel
    <3>2. \A i \in DOMAIN submission : [submission[i] EXCEPT !.state = "done"] \in SubmissionRow
      BY <1>0 DEF SubmissionRow
    <3>3. submission' \in Seq(SubmissionRow) /\ Len(submission') = Len(submission)
      <4>1. submission' \in [1..Len(submission) -> SubmissionRow]
        BY <1>0, <3>1, <3>2
      <4> QED BY <1>0, <3>1, <4>1
    <3>4. DOMAIN submission' = DOMAIN submission
          /\ \A i \in DOMAIN submission : submission'[i].state = "done" /\ submission'[i].ac = submission[i].ac
      BY <1>0, <3>1 DEF SubmissionRow
    <3>5. Unjudged' = {}
      BY <3>4 DEF Unjudged
    <3> QED BY <1>0, <3>3, <3>4, <3>5 DEF SubmissionInv
  <2> QED BY <2>1, <2>2
<1>6. CASE UNCHANGED <<submission, cooling>> \/ CooledDown
  BY <1>1, <1>6 DEF CooledDown
<1> QED BY <1>1, <1>2, <1>3, <1>4, <1>5, <1>6, SubmissionSteps

LEMMA CoolingStep ==
  ASSUME cooling \in BOOLEAN, [Next]_vars
  PROVE  cooling' \in BOOLEAN
<1>1. CASE UNCHANGED <<submission, cooling>> \/ CooledDown \/ Rejudge \/ Submit
  BY <1>1 DEF CooledDown, Rejudge, Submit
<1>2. CASE Cancel \/ \E i \in DOMAIN submission : Judge(i)
  BY <1>2 DEF Cancel, Judge, engine
<1> QED BY <1>1, <1>2, SubmissionSteps

\* A solved question stays solved, whatever is submitted, cancelled or judged late; only a
\* rejudge takes it back.
LEMMA SolvedStep ==
  ASSUME SubmissionInv, [Next]_vars
  PROVE  NothingLeft => NothingLeft' \/ Rejudge
<1> SUFFICES ASSUME NothingLeft, ~Rejudge PROVE NothingLeft'
  OBVIOUS
<1>1. Solved(submission)
  BY DEF NothingLeft, Progress
<1>2. Solved(submission)'
  BY <1>1, SubmissionStep DEF Solved
<1> QED BY <1>2 DEF NothingLeft, Progress

-----------------------------------------------------------------------------
(* Practice runs are started, sent, collected and given up.                 *)

\* The steps that write a practice run, its job, or what is under way of it.
LEMMA RunSteps ==
  ASSUME [Next]_vars
  PROVE  \/ UNCHANGED runs
         \/ UNCHANGED <<run, job, collected>> /\ starting' = IF starting = None THEN None ELSE [starting EXCEPT !.mine = FALSE]
         \/ StartRun \/ RunSent
         \/ \E i \in DOMAIN run : GiveUp(i) \/ JudgeRuns(i) \/ CollectRun(i)
         \/ \E c \in collected : WriteRun(c)
<1>1. CASE UNCHANGED vars
  BY <1>1 DEF vars
<1>2. CASE Participant
  <2>1. CASE Open \/ Hide \/ Show
    BY <2>1 DEF Open, Hide, Show
  <2>2. CASE Leave \/ CloseTab
    BY <2>2 DEF Leave, CloseTab, Closed
  <2>3. CASE Type \/ Reset \/ BuyHint \/ \E l \in Languages : Switch(l)
    BY <2>3, Zenon DEF Type, Reset, Change, BuyHint, Switch
  <2>4. CASE Submit \/ Cancel
    BY <2>4 DEF Submit, Cancel
  <2> QED BY <1>2, <2>1, <2>2, <2>3, <2>4, Zenon DEF Participant
<1>3. CASE Browser
  <2>1. CASE Loading \/ \E i \in DOMAIN loads : LoadFails(i)
    BY <2>1, Zenon DEF Loading, LoadServed, LoadAnswered, LoadFails
  <2>2. CASE \E k \in Followings : Polling(k) \/ PollFails(k)
    BY <2>2, Zenon DEF Polling, PollServed, PollAnswered, PollAborted, PollTimer, PollFails
  <2>3. CASE EventHeard \/ Posted \/ HintBought
    BY <2>3 DEF EventHeard, Posted, HintBought
  <2>4. CASE DraftTimer \/ \E i \in DOMAIN puts : PutArrives(i) \/ PutLost(i)
    BY <2>4, Zenon DEF DraftTimer, PutArrives, PutLost
  <2> QED BY <1>3, <2>1, <2>2, <2>3, <2>4, Zenon DEF Browser
<1>4. CASE Engine
  <2>1. CASE CooledDown \/ Rejudge \/ \E i \in DOMAIN submission : Judge(i)
    BY <2>1, Zenon DEF CooledDown, Rejudge, Judge
  <2> QED BY <1>4, <2>1, Zenon DEF Engine
<1> QED BY <1>1, <1>2, <1>3, <1>4, Zenon DEF Next

\* A row of the runs is rewritten: the rows stay what they are, and the others as they were.
LEMMA RunRewritten ==
  ASSUME run \in Seq(RunRow), NEW i \in DOMAIN run, NEW r \in RunRow, run' = [run EXCEPT ![i] = r]
  PROVE  /\ run' \in Seq(RunRow) /\ Len(run') = Len(run) /\ DOMAIN run' = DOMAIN run
         /\ run'[i] = r /\ \A k \in DOMAIN run : k # i => run'[k] = run[k]
  OBVIOUS

\* What a tick writes of a run is a row, with the job it had.
LEMMA FinishedRow ==
  ASSUME NEW r \in RunRow, NEW c, c.was \in {"pending", "queued", "running"}, c.job \in JobStates \ {"none"}
  PROVE  Finished(r, c) \in RunRow /\ Finished(r, c).job = r.job
<1>1. CASE c.job \in {"done", "gone"}
  BY <1>1 DEF Finished, RunRow
<1>2. CASE c.job \in {"queued", "running"}
  <2>1. CASE c.job = c.was
    BY <1>2, <2>1 DEF Finished
  <2>2. CASE c.job # c.was
    BY <1>2, <2>2 DEF Finished, RunRow
  <2> QED BY <2>1, <2>2
<1> QED BY <1>1, <1>2 DEF JobStates

LEMMA RunTypesStep ==
  ASSUME RunTypes, [Next]_vars
  PROVE  RunTypes' /\ Len(run) <= Len(run')
<1>0. /\ run \in Seq(RunRow) /\ DOMAIN run = 1..Len(run) /\ Len(run) \in Nat
      /\ job \in Seq(JobStates) /\ DOMAIN job = 1..Len(run) /\ Len(job) = Len(run)
      /\ \A i \in DOMAIN run : run[i] \in RunRow /\ job[i] \in JobStates
  BY ElementOfSeq DEF RunTypes
<1>1. CASE UNCHANGED runs
  BY <1>1 DEF RunTypes, runs
<1>2. CASE UNCHANGED <<run, job, collected>> /\ starting' = IF starting = None THEN None ELSE [starting EXCEPT !.mine = FALSE]
  BY <1>2 DEF RunTypes
<1>3. CASE StartRun
  <2>1. CASE Live # {}
    BY <1>1, <1>3, <2>1 DEF StartRun, runs
  <2>2. CASE Live = {}
    <3> DEFINE r == [state |-> "pending", job |-> FALSE, verdict |-> None]
    <3>1. /\ run' = Append(run, r) /\ job' = Append(job, "none") /\ collected' = collected
          /\ starting' = [run |-> Len(run'), mine |-> TRUE]
      BY <1>3, <2>2 DEF StartRun
    <3>2. r \in RunRow /\ ~r.job /\ "none" \in JobStates
      BY DEF RunRow, JobStates
    <3> HIDE DEF r
    <3>3. /\ run' \in Seq(RunRow) /\ Len(run') = Len(run) + 1 /\ DOMAIN run' = 1..Len(run) + 1
          /\ run'[Len(run) + 1] = r /\ \A i \in DOMAIN run : run'[i] = run[i]
      BY <1>0, <3>1, <3>2
    <3>4. /\ job' \in Seq(JobStates) /\ Len(job') = Len(run) + 1
          /\ \A i \in DOMAIN run : job'[i] = job[i]
      BY <1>0, <3>1, <3>2
    <3>5. \A i \in DOMAIN run' : run'[i].job => job'[i] # "none"
      BY <1>0, <3>2, <3>3, <3>4 DEF RunTypes
    <3> QED BY <1>0, <3>1, <3>3, <3>4, <3>5 DEF RunTypes
  <2> QED BY <2>1, <2>2
<1>4. CASE RunSent
  <2> DEFINE i == starting.run
  <2>1. i \in DOMAIN run /\ collected' = collected /\ starting' = None
    BY <1>4 DEF RunSent, RunTypes
  <2> HIDE DEF i
  <2>2. CASE run' = [run EXCEPT ![i].state = "queued", ![i].job = TRUE] /\ job' = [job EXCEPT ![i] = "queued"]
    <3> DEFINE r == [run[i] EXCEPT !.state = "queued", !.job = TRUE]
    <3>1. r \in RunRow /\ run' = [run EXCEPT ![i] = r]
      BY <1>0, <2>1, <2>2 DEF RunRow
    <3> HIDE DEF r
    <3>2. run' \in Seq(RunRow) /\ Len(run') = Len(run) /\ \A k \in DOMAIN run : k # i => run'[k] = run[k]
      BY <1>0, <2>1, <3>1, RunRewritten
    <3>3. /\ job' \in Seq(JobStates) /\ Len(job') = Len(run) /\ job'[i] = "queued"
          /\ \A k \in DOMAIN run : k # i => job'[k] = job[k]
      BY <1>0, <2>1, <2>2 DEF JobStates
    <3>4. \A k \in DOMAIN run' : run'[k].job => job'[k] # "none"
      BY <1>0, <3>2, <3>3 DEF RunTypes
    <3>5. \A c \in collected' : c.run \in DOMAIN run' /\ c.was \in {"pending", "queued", "running"}
                                /\ c.job \in JobStates \ {"none"}
      BY <1>0, <2>1, <3>2 DEF RunTypes
    <3> QED BY <1>0, <2>1, <3>2, <3>3, <3>4, <3>5 DEF RunTypes
  <2>3. CASE run' = [run EXCEPT ![i].state = "done", ![i].verdict = "IE"] /\ job' = job
    <3> DEFINE r == [run[i] EXCEPT !.state = "done", !.verdict = "IE"]
    <3>1. r \in RunRow /\ r.job = run[i].job /\ run' = [run EXCEPT ![i] = r]
      BY <1>0, <2>1, <2>3 DEF RunRow
    <3> HIDE DEF r
    <3>2. /\ run' \in Seq(RunRow) /\ Len(run') = Len(run) /\ run'[i] = r
          /\ \A k \in DOMAIN run : k # i => run'[k] = run[k]
      BY <1>0, <2>1, <3>1, RunRewritten
    <3> QED BY <1>0, <2>1, <2>3, <3>1, <3>2 DEF RunTypes
  <2>4. CASE run' = run /\ job' = job
    BY <2>1, <2>4 DEF RunTypes
  <2> QED BY <1>4, <2>2, <2>3, <2>4 DEF RunSent, i
<1>5. ASSUME NEW i \in DOMAIN run, GiveUp(i)
      PROVE  RunTypes' /\ Len(run) <= Len(run')
  <2> DEFINE r == [run[i] EXCEPT !.state = "done", !.verdict = "IE"]
  <2>1. /\ r \in RunRow /\ r.job = run[i].job /\ run' = [run EXCEPT ![i] = r]
        /\ UNCHANGED <<starting, job, collected>>
    BY <1>0, <1>5 DEF RunRow, GiveUp
  <2> HIDE DEF r
  <2>2. /\ run' \in Seq(RunRow) /\ Len(run') = Len(run) /\ run'[i] = r
        /\ \A k \in DOMAIN run : k # i => run'[k] = run[k]
    BY <1>0, <2>1, RunRewritten
  <2> QED BY <1>0, <2>1, <2>2 DEF RunTypes
<1>6. ASSUME NEW i \in DOMAIN run, JudgeRuns(i)
      PROVE  RunTypes' /\ Len(run) <= Len(run')
  <2>1. PICK s \in JobStates \ {"none"} : job' = [job EXCEPT ![i] = s]
    BY <1>6 DEF JudgeRuns, JobStates
  <2>2. job' \in Seq(JobStates) /\ Len(job') = Len(job) /\ UNCHANGED <<run, starting, collected>>
    BY <1>0, <1>6, <2>1 DEF JudgeRuns
  <2> QED BY <1>0, <2>1, <2>2 DEF RunTypes
<1>7. ASSUME NEW i \in DOMAIN run, CollectRun(i)
      PROVE  RunTypes' /\ Len(run) <= Len(run')
  <2>1. /\ run[i].state \in {"pending", "queued", "running"}
        /\ job[i] \in JobStates \ {"none"}
    BY <1>0, <1>7 DEF CollectRun, Live, RunRow, RunTypes
  <2> QED BY <1>7, <2>1 DEF CollectRun, RunTypes
<1>8. ASSUME NEW c \in collected, WriteRun(c)
      PROVE  RunTypes' /\ Len(run) <= Len(run')
  <2> DEFINE i == c.run
             r == Finished(run[i], c)
  <2>1. /\ i \in DOMAIN run /\ c.was \in {"pending", "queued", "running"} /\ c.job \in JobStates \ {"none"}
        /\ run' = [run EXCEPT ![i] = r] /\ collected' \subseteq collected /\ UNCHANGED <<starting, job>>
    BY <1>8 DEF WriteRun, RunTypes
  <2>2. r \in RunRow /\ r.job = run[i].job
    BY <1>0, <2>1, FinishedRow
  <2> HIDE DEF i, r
  <2>3. /\ run' \in Seq(RunRow) /\ Len(run') = Len(run) /\ run'[i] = r
        /\ \A k \in DOMAIN run : k # i => run'[k] = run[k]
    BY <1>0, <2>1, <2>2, RunRewritten
  <2> QED BY <1>0, <2>1, <2>2, <2>3 DEF RunTypes
<1> QED BY <1>1, <1>2, <1>3, <1>4, <1>5, <1>6, <1>7, <1>8, RunSteps

\* With no call outliving its time and no tick overtaking another, one run is unfinished at
\* a time, and a finished one is never written again.
LEMMA OneRunStep ==
  ASSUME RunTypes, OneRunInv, Punctual, [Next]_vars
  PROVE  OneRunInv' /\ \A i \in DOMAIN run : run[i].state = "done" => run'[i] = run[i]
<1>0. /\ run \in Seq(RunRow) /\ DOMAIN run = 1..Len(run) /\ Len(run) \in Nat
      /\ \A i \in DOMAIN run : run[i] \in RunRow
      /\ ~Fault("slow") /\ ~Fault("overlap")
  BY ElementOfSeq DEF RunTypes, Punctual, Fault
<1>1. CASE UNCHANGED runs
  BY <1>1 DEF OneRunInv, Live, runs
<1>2. CASE UNCHANGED <<run, job, collected>> /\ starting' = IF starting = None THEN None ELSE [starting EXCEPT !.mine = FALSE]
  <2>1. Live' = Live /\ (starting' # None => starting # None /\ starting'.run = starting.run)
    BY <1>2 DEF Live
  <2> QED BY <1>2, <2>1 DEF OneRunInv
<1>3. CASE StartRun
  <2>1. CASE Live # {}
    BY <1>1, <1>3, <2>1 DEF StartRun, runs
  <2>2. CASE Live = {}
    <3> DEFINE r == [state |-> "pending", job |-> FALSE, verdict |-> None]
    <3>1. /\ run' = Append(run, r) /\ collected' = collected
          /\ starting' = [run |-> Len(run'), mine |-> TRUE]
      BY <1>3, <2>2 DEF StartRun
    <3>2. r \in RunRow /\ r.state = "pending" /\ ~r.job
      BY DEF RunRow
    <3> HIDE DEF r
    <3>3. /\ Len(run') = Len(run) + 1 /\ DOMAIN run' = 1..Len(run) + 1
          /\ run'[Len(run) + 1] = r /\ \A i \in DOMAIN run : run'[i] = run[i]
      BY <1>0, <3>1, <3>2
    <3>4. Live' = {Len(run) + 1}
      BY <1>0, <2>2, <3>2, <3>3 DEF Live
    <3>5. collected = {}
      BY <2>2 DEF OneRunInv, RunTypes, Live
    <3> QED BY <3>1, <3>2, <3>3, <3>4, <3>5 DEF OneRunInv
  <2> QED BY <2>1, <2>2
<1>4. CASE RunSent
  <2> DEFINE i == starting.run
  <2>1. i \in DOMAIN run /\ run[i].state = "pending" /\ ~run[i].job /\ collected' = collected /\ starting' = None
    BY <1>4 DEF RunSent, RunTypes, OneRunInv
  <2>2. PICK r \in RunRow : run' = [run EXCEPT ![i] = r] \/ run' = run
    <3> HIDE DEF i
    <3> DEFINE sent == [run[i] EXCEPT !.state = "queued", !.job = TRUE]
               refused == [run[i] EXCEPT !.state = "done", !.verdict = "IE"]
    <3>1. run[i] \in RunRow /\ sent \in RunRow /\ refused \in RunRow
      BY <1>0, <2>1 DEF RunRow
    <3>2. \/ run' = [run EXCEPT ![i] = sent]
          \/ run' = [run EXCEPT ![i] = refused]
          \/ run' = run
      BY <1>4 DEF RunSent, i
    <3> HIDE DEF sent, refused
    <3> QED BY <3>1, <3>2
  <2> HIDE DEF i
  <2>3. DOMAIN run' = DOMAIN run /\ \A k \in DOMAIN run : k # i => run'[k] = run[k]
    BY <2>1, <2>2
  <2>4. i \in Live /\ Live' \subseteq Live
    BY <2>1, <2>3 DEF Live
  <2>5. collected = {}
    <3> SUFFICES ASSUME NEW c \in collected PROVE FALSE
      OBVIOUS
    <3>1. c.run \in Live /\ run[c.run].job
      BY DEF OneRunInv, RunTypes, Live
    <3> QED BY <2>1, <2>4, <3>1 DEF OneRunInv
  <2>6. OneRunInv'
    BY <2>1, <2>4, <2>5 DEF OneRunInv
  <2> QED BY <2>1, <2>3, <2>6
<1>5. ASSUME NEW i \in DOMAIN run, GiveUp(i)
      PROVE  OneRunInv' /\ \A k \in DOMAIN run : run[k].state = "done" => run'[k] = run[k]
  <2>1. /\ i \in Live /\ ~run[i].job /\ ~(starting # None /\ starting.run = i)
        /\ run' = [run EXCEPT ![i].state = "done", ![i].verdict = "IE"] /\ UNCHANGED <<starting, collected>>
    BY <1>0, <1>5 DEF GiveUp, NeverSent
  <2>2. DOMAIN run' = DOMAIN run /\ run'[i].state = "done" /\ \A k \in DOMAIN run : k # i => run'[k] = run[k]
    BY <1>0, <2>1 DEF RunRow
  <2>3. Live' = {} /\ Live = {i}
    BY <2>1, <2>2 DEF Live, OneRunInv
  <2>4. collected = {} /\ starting = None
    <3>1. \A c \in collected : c.run \in Live /\ run[c.run].job
      BY DEF OneRunInv, RunTypes, Live
    <3>2. starting # None => starting.run \in Live
      BY DEF OneRunInv, RunTypes, Live
    <3> QED BY <2>1, <2>3, <3>1, <3>2
  <2>5. OneRunInv'
    BY <2>1, <2>3, <2>4 DEF OneRunInv
  <2> QED BY <2>1, <2>2, <2>5 DEF Live
<1>6. ASSUME NEW i \in DOMAIN run, JudgeRuns(i)
      PROVE  UNCHANGED <<run, starting, collected>>
  BY <1>6 DEF JudgeRuns
<1>7. ASSUME NEW i \in DOMAIN run, CollectRun(i)
      PROVE  OneRunInv' /\ run' = run
  BY <1>0, <1>7 DEF CollectRun, OneRunInv, Live
<1>8. ASSUME NEW c \in collected, WriteRun(c)
      PROVE  OneRunInv' /\ \A k \in DOMAIN run : run[k].state = "done" => run'[k] = run[k]
  <2> DEFINE i == c.run
             r == Finished(run[i], c)
  <2>1. /\ i \in Live /\ run[i].job /\ run[i].state # "done" /\ collected = {c} /\ collected' = {}
        /\ run' = [run EXCEPT ![i] = r] /\ starting' = starting
    BY <1>8 DEF WriteRun, RunTypes, OneRunInv, Live
  <2> HIDE DEF i, r
  <2>2. i \in DOMAIN run /\ DOMAIN run' = DOMAIN run /\ \A k \in DOMAIN run : k # i => run'[k] = run[k]
    BY <2>1 DEF Live
  <2>3. Live' \subseteq Live
    BY <2>1, <2>2 DEF Live
  <2>4. starting = None
    BY <2>1 DEF OneRunInv, RunTypes, Live
  <2>5. OneRunInv'
    BY <2>1, <2>3, <2>4 DEF OneRunInv
  <2> QED BY <2>1, <2>2, <2>5
<1>9. ASSUME UNCHANGED <<run, starting, collected>>
      PROVE  OneRunInv'
  BY <1>9 DEF OneRunInv, Live
<1> QED BY <1>1, <1>2, <1>3, <1>4, <1>5, <1>6, <1>7, <1>8, <1>9, RunSteps

-----------------------------------------------------------------------------
(* Hints are confirmed and bought.                                          *)

\* The other steps buy and confirm nothing; leaving the page forgets what was under way.
LEMMA HintSteps ==
  ASSUME GhostTypes, [Next]_vars
  PROVE  \/ BuyHint \/ HintBought
         \/ /\ hint' = hint /\ buying' \in {buying, << >>}
            /\ ghost'.confirmed = ghost.confirmed /\ GhostTypes'
<1> DEFINE Other == /\ hint' = hint /\ buying' \in {buying, << >>}
                    /\ ghost'.confirmed = ghost.confirmed /\ GhostTypes'
<1>1. ASSUME UNCHANGED <<hint, buying, ghost>> PROVE Other
  BY <1>1 DEF GhostTypes
<1>2. ASSUME UNCHANGED <<hint, buying>>, NEW b, ghost' = [ghost EXCEPT !.behind = @ \/ b] PROVE Other
  <2>1. (ghost.behind \/ b) \in BOOLEAN
    OBVIOUS
  <2> QED BY <1>2, <2>1 DEF GhostTypes
<1>3. ASSUME UNCHANGED <<hint, buying>>, NEW b, ghost' = [ghost EXCEPT !.stale = b] PROVE Other
  BY <1>3 DEF GhostTypes
<1>4. CASE UNCHANGED vars
  BY <1>1, <1>4 DEF vars, engine, following
<1>5. CASE Participant
  <2>1. CASE Open \/ Hide \/ Show
    BY <1>1, <2>1 DEF Open, Hide, Show, engine
  <2>2. CASE Leave
    <3>1. hint' = hint /\ buying' = << >> /\ ghost' = ghost
      BY <2>2 DEF Leave, Closed
    <3> QED BY <3>1 DEF GhostTypes
  <2>3. CASE CloseTab
    <3>1. hint' = hint /\ buying' = << >> /\ ghost' = [ghost EXCEPT !.behind = @ \/ timer # None]
      BY <2>3 DEF CloseTab, Closed, Lose
    <3>2. (ghost.behind \/ timer # None) \in BOOLEAN
      OBVIOUS
    <3> QED BY <3>1, <3>2 DEF GhostTypes
  <2>4. CASE Type \/ Reset
    BY <1>2, <2>4 DEF Type, Reset, Change, Lose, engine, following
  <2>5. ASSUME NEW l \in Languages, Switch(l) PROVE Other
    BY <1>2, <2>5 DEF Switch, Lose, engine, following
  <2>6. CASE Submit \/ Cancel \/ StartRun
    BY <1>1, <2>6 DEF Submit, Cancel, StartRun, engine, following
  <2> HIDE DEF Other
  <2> QED BY <1>5, <2>1, <2>2, <2>3, <2>4, <2>5, <2>6, Zenon DEF Participant, Other
<1>6. CASE Browser
  <2>1. ASSUME NEW i \in DOMAIN loads, LoadServed(i) PROVE Other
    BY <1>2, <2>1 DEF LoadServed, engine
  <2>2. ASSUME NEW i \in DOMAIN loads, LoadAnswered(i) PROVE Other
    <3>1. UNCHANGED <<hint, buying>> /\ \E b : ghost' = [ghost EXCEPT !.stale = b]
      BY <2>2, Zenon DEF LoadAnswered, engine
    <3> QED BY <1>3, <3>1, Zenon
  <2>3. ASSUME NEW i \in DOMAIN loads, LoadFails(i) PROVE Other
    BY <1>1, <2>3 DEF LoadFails, engine
  <2>4. ASSUME NEW k \in Followings, Polling(k) \/ PollFails(k) PROVE Other
    BY <1>1, <2>4 DEF Polling, PollServed, PollAnswered, PollAborted, PollTimer, PollFails, engine
  <2>5. CASE EventHeard \/ Posted
    BY <1>1, <2>5 DEF EventHeard, Posted, engine
  <2>6. CASE DraftTimer
    BY <1>1, <2>6 DEF DraftTimer, engine, following
  <2>7. ASSUME NEW i \in DOMAIN puts, PutArrives(i) \/ PutLost(i) PROVE Other
    BY <1>2, <2>7 DEF PutArrives, PutLost, Lose, engine, following
  <2> HIDE DEF Other
  <2> QED BY <1>6, <2>1, <2>2, <2>3, <2>4, <2>5, <2>6, <2>7, Zenon DEF Browser, Loading, Other
<1>7. CASE Engine
  <2>1. CASE CooledDown \/ Rejudge \/ RunSent
    BY <1>1, <2>1 DEF CooledDown, Rejudge, RunSent, engine, following
  <2>2. ASSUME NEW i, Judge(i) \/ GiveUp(i) \/ JudgeRuns(i) \/ CollectRun(i) PROVE Other
    BY <1>1, <2>2 DEF Judge, GiveUp, JudgeRuns, CollectRun, engine, following
  <2>3. ASSUME NEW c \in collected, WriteRun(c) PROVE Other
    BY <1>1, <2>3 DEF WriteRun, engine, following
  <2> HIDE DEF Other
  <2> QED BY <1>7, <2>1, <2>2, <2>3, Zenon DEF Engine, Other
<1> QED BY <1>4, <1>5, <1>6, <1>7, Zenon DEF Next

\* A hint is paid for when it is the next one, and every one under way was confirmed.
LEMMA HintStep ==
  ASSUME HintInv, [Next]_vars
  PROVE  HintInv'
<1>0. hint.bought \in Nat /\ DOMAIN hint = {"bought", "paid"} /\ hint.paid = hint.bought
      /\ 1..hint.bought \subseteq ghost.confirmed /\ GhostTypes /\ buying \in Seq(ghost.confirmed)
  BY DEF HintInv, HintsAsConfirmed
<1>1. CASE BuyHint
  <2> DEFINE idx == view.revealed + 1
  <2>1. /\ buying' = Append(buying, idx) /\ ghost' = [ghost EXCEPT !.confirmed = @ \cup {idx}] /\ hint' = hint
    BY <1>1 DEF BuyHint, engine
  <2> HIDE DEF idx
  <2>2. GhostTypes' /\ ghost'.confirmed = ghost.confirmed \cup {idx}
    BY <2>1 DEF HintInv, GhostTypes
  <2>3. buying' \in Seq(ghost'.confirmed)
    <3>1. \A i \in 1..Len(buying) : buying[i] \in ghost.confirmed
      BY <1>0, ElementOfSeq
    <3>2. buying \in Seq(ghost'.confirmed)
      BY <1>0, <2>2, <3>1
    <3>3. idx \in ghost'.confirmed
      BY <2>2
    <3> QED BY <2>1, <3>2, <3>3, AppendProperties
  <2> QED BY <1>0, <2>1, <2>2, <2>3 DEF HintInv, HintsAsConfirmed
<1>2. CASE HintBought
  <2> DEFINE idx == Head(buying)
  <2>1. idx \in ghost.confirmed /\ buying' \in Seq(ghost.confirmed) /\ hint' = Revealed(hint, idx) /\ ghost' = ghost
    BY <1>0, <1>2 DEF HintBought
  <2> HIDE DEF idx
  <2>2. CASE idx = hint.bought + 1
    <3>1. hint' = [bought |-> hint.bought + 1, paid |-> hint.bought + 1]
      BY <1>0, <2>1, <2>2 DEF Revealed
    <3>2. 1..(hint.bought + 1) = (1..hint.bought) \cup {idx}
      BY <1>0, <2>2
    <3> QED BY <1>0, <2>1, <3>1, <3>2 DEF HintInv, HintsAsConfirmed, GhostTypes
  <2>3. CASE idx # hint.bought + 1
    <3>1. hint' = hint
      BY <2>1, <2>3 DEF Revealed
    <3> QED BY <1>0, <2>1, <3>1 DEF HintInv, HintsAsConfirmed, GhostTypes
  <2> QED BY <2>2, <2>3
<1>3. CASE /\ hint' = hint /\ buying' \in {buying, << >>}
           /\ ghost'.confirmed = ghost.confirmed /\ GhostTypes'
  <2>1. buying' \in Seq(ghost.confirmed)
    <3>1. << >> \in Seq(ghost.confirmed)
      OBVIOUS
    <3>2. buying' = buying \/ buying' = << >>
      BY <1>3
    <3> QED BY <1>0, <3>1, <3>2, Zenon
  <2>2. buying' \in Seq(ghost'.confirmed)
    BY <1>3, <2>1, Zenon
  <2> QED BY <1>0, <1>3, <2>2 DEF HintInv, HintsAsConfirmed
<1> QED BY <1>0, <1>1, <1>2, <1>3, HintSteps, Zenon

-----------------------------------------------------------------------------
(* The page, its editor and its loads.                                      *)

\* One removed, the others stay in order.
LEMMA RemoveAtSeq ==
  ASSUME NEW S, NEW s \in Seq(S), NEW i \in DOMAIN s
  PROVE  /\ RemoveAt(s, i) \in Seq(S) /\ Len(RemoveAt(s, i)) = Len(s) - 1
         /\ \A j \in 1..(Len(s) - 1) : RemoveAt(s, i)[j] = IF j < i THEN s[j] ELSE s[j + 1]
<1> DEFINE a == SubSeq(s, 1, i - 1)
           b == SubSeq(s, i + 1, Len(s))
<1>1. Len(s) \in Nat /\ i \in 1..Len(s)
  OBVIOUS
<1>2. /\ a \in Seq(S) /\ Len(a) = i - 1 /\ \A j \in 1..(i - 1) : a[j] = s[j]
  BY <1>1, SubSeqProperties
<1>3. /\ b \in Seq(S) /\ Len(b) = Len(s) - i /\ \A j \in 1..(Len(s) - i) : b[j] = s[i + j]
  BY <1>1, SubSeqProperties
<1> HIDE DEF a, b
<1>4. RemoveAt(s, i) = a \o b
  BY DEF RemoveAt, a, b
<1>5. a \o b \in Seq(S) /\ Len(a \o b) = Len(s) - 1
  BY <1>1, <1>2, <1>3, ConcatProperties
<1>6. ASSUME NEW j \in 1..(Len(s) - 1)
      PROVE  (a \o b)[j] = IF j < i THEN s[j] ELSE s[j + 1]
  <2>1. (a \o b)[j] = IF j <= Len(a) THEN a[j] ELSE b[j - Len(a)]
    BY <1>1, <1>2, <1>3, <1>5, ConcatProperties
  <2>2. CASE j < i
    <3>1. j \in 1..(i - 1) /\ j <= Len(a)
      BY <1>1, <1>2, <2>2
    <3> QED BY <1>2, <2>1, <2>2, <3>1
  <2>3. CASE ~(j < i)
    <3>1. j - Len(a) \in 1..(Len(s) - i) /\ i + (j - Len(a)) = j + 1 /\ ~(j <= Len(a))
      BY <1>1, <1>2, <2>3
    <3> QED BY <1>3, <2>1, <2>3, <3>1
  <2> QED BY <2>2, <2>3
<1> QED BY <1>4, <1>5, <1>6

\* What the other steps ask of the page: to load the question, at most.
Aside ==
  /\ UNCHANGED <<editor, drafts>> /\ ghost'.behind = ghost.behind
  /\ loads' = loads \/ loads' = Append(loads, [at |-> "sent", now |-> None])

\* The steps that write the editor, the drafts or a load.
LEMMA PageSteps ==
  ASSUME [Next]_vars, GhostTypes
  PROVE  \/ Aside
         \/ Open \/ Leave \/ CloseTab \/ Hide \/ Show \/ Type \/ Reset \/ DraftTimer
         \/ \E l \in Languages : Switch(l)
         \/ \E i \in DOMAIN loads : LoadServed(i) \/ LoadAnswered(i) \/ LoadFails(i)
         \/ \E i \in DOMAIN puts : PutArrives(i) \/ PutLost(i)
<1>1. ASSUME UNCHANGED <<editor, drafts, ghost>>, UNCHANGED loads \/ AskLoad
      PROVE  Aside
  BY <1>1 DEF Aside, AskLoad
<1>2. CASE UNCHANGED vars
  BY <1>1, <1>2 DEF vars, following
<1>3. CASE Submit \/ Cancel \/ StartRun
  BY <1>1, <1>3 DEF Submit, Cancel, StartRun, following
<1>4. CASE BuyHint
  <2>1. UNCHANGED <<editor, drafts, loads>>
        /\ ghost' = [ghost EXCEPT !.confirmed = @ \cup {view.revealed + 1}]
    BY <1>4 DEF BuyHint
  <2> QED BY <2>1 DEF Aside, GhostTypes
<1>5. CASE EventHeard \/ Posted \/ HintBought
  BY <1>1, <1>5 DEF EventHeard, Posted, HintBought
<1>6. ASSUME NEW k, Polling(k) \/ PollFails(k) PROVE Aside
  <2>1. CASE PollAnswered(k)
    <3>1. UNCHANGED <<editor, drafts, ghost>> /\ (UNCHANGED loads \/ AskLoad)
      BY <2>1, Zenon DEF PollAnswered
    <3> QED BY <1>1, <3>1
  <2> QED BY <1>1, <1>6, <2>1 DEF Polling, PollServed, PollAborted, PollTimer, PollFails
<1>7. CASE CooledDown \/ Rejudge \/ RunSent
  BY <1>1, <1>7 DEF CooledDown, Rejudge, RunSent, following
<1>8. ASSUME NEW i, Judge(i) \/ GiveUp(i) \/ JudgeRuns(i) \/ CollectRun(i) PROVE Aside
  BY <1>1, <1>8 DEF Judge, GiveUp, JudgeRuns, CollectRun, following
<1>9. ASSUME NEW c, WriteRun(c) PROVE Aside
  BY <1>1, <1>9 DEF WriteRun, following
<1> QED
  BY <1>2, <1>3, <1>4, <1>5, <1>6, <1>7, <1>8, <1>9, Zenon
  DEF Next, Participant, Browser, Engine, Loading

\* Time passes: what was kept of a language is still from before now.
LEMMA KeptStays ==
  ASSUME clock \in Nat, clock' \in Nat, clock <= clock', NEW d
  PROVE  /\ KeptIn(d) => d \in [Languages -> {None} \cup [text : Text, at : Nat]]
                         /\ \A l \in Languages : d[l] # None => d[l].text.lang = l /\ d[l].at < clock'
         /\ Saved(d) \in SUBSET Languages
<1>1. ASSUME KeptIn(d), NEW l \in Languages, d[l] # None
      PROVE  d[l].text.lang = l /\ d[l].at < clock'
  <2>1. d[l] \in [text : Text, at : Nat] /\ d[l].at < clock /\ d[l].text.lang = l
    BY <1>1 DEF KeptIn
  <2> QED BY <2>1
<1> QED BY <1>1 DEF KeptIn, Saved

\* A language is saved: it is the newest of the drafts.
LEMMA SavedNow ==
  ASSUME clock \in Nat, NEW d, KeptIn(d), NEW s \in Save
  PROVE  LET saved == [d EXCEPT ![s.lang] = [text |-> s.text, at |-> clock]] IN
         /\ saved \in [Languages -> {None} \cup [text : Text, at : Nat]]
         /\ \A l \in Languages : saved[l] # None => saved[l].text.lang = l /\ saved[l].at < clock + 1
         /\ s.lang \in Languages /\ saved[s.lang] # None /\ saved[s.lang].text = s.text
         /\ \A l \in Saved(saved) : l = s.lang \/ saved[l].at < saved[s.lang].at
         /\ LastIn(saved) = s.lang
<1> DEFINE row == [text |-> s.text, at |-> clock]
           saved == [d EXCEPT ![s.lang] = row]
<1>1. s.lang \in Languages /\ s.text \in Text /\ s.text.lang = s.lang
  BY DEF Save
<1>2. row \in [text : Text, at : Nat] /\ row.text = s.text /\ row.at = clock /\ row # None
  <2>1. row \in [text : Text, at : Nat]
    BY <1>1
  <2>2. None \notin [text : Text, at : Nat]
    BY WorkspaceAssumption DEF Text
  <2> QED BY <2>1, <2>2
<1> HIDE DEF row
<1>3. d \in [Languages -> {None} \cup [text : Text, at : Nat]]
      /\ \A l \in Languages : d[l] # None => d[l].text.lang = l /\ d[l].at < clock /\ d[l].at \in Nat
  BY DEF KeptIn
<1>4. /\ saved \in [Languages -> {None} \cup [text : Text, at : Nat]]
      /\ saved[s.lang] = row /\ \A l \in Languages : l # s.lang => saved[l] = d[l]
  BY <1>1, <1>2, <1>3
<1> HIDE DEF saved
<1>5. ASSUME NEW l \in Languages, saved[l] # None
      PROVE  saved[l].text.lang = l /\ saved[l].at < clock + 1
  <2>1. CASE l = s.lang
    BY <1>1, <1>2, <1>4, <2>1
  <2>2. CASE l # s.lang
    <3>1. d[l] # None /\ saved[l] = d[l]
      BY <1>4, <1>5, <2>2
    <3>2. d[l].text.lang = l /\ d[l].at < clock /\ d[l].at \in Nat
      BY <1>3, <3>1
    <3> QED BY <3>1, <3>2
  <2> QED BY <2>1, <2>2
<1>6. \A l \in Saved(saved) : l = s.lang \/ saved[l].at < clock
  BY <1>3, <1>4 DEF Saved
<1>7. s.lang \in Saved(saved) /\ Saved(saved) # {}
  BY <1>1, <1>2, <1>4 DEF Saved
<1>8. LastIn(saved) = s.lang
  <2>1. \A m \in Saved(saved) : saved[m].at <= saved[s.lang].at
    <3> SUFFICES ASSUME NEW m \in Saved(saved) PROVE saved[m].at <= saved[s.lang].at
      OBVIOUS
    <3>1. CASE m = s.lang
      BY <1>2, <1>4, <3>1
    <3>2. CASE m # s.lang
      <4>1. saved[m] \in [text : Text, at : Nat]
        BY <1>4 DEF Saved
      <4>2. saved[m].at \in Nat /\ saved[m].at < clock
        BY <1>6, <3>2, <4>1
      <4> QED BY <1>2, <1>4, <4>2
    <3> QED BY <3>1, <3>2
  <2>2. ASSUME NEW l \in Saved(saved), \A m \in Saved(saved) : saved[m].at <= saved[l].at, l # s.lang
        PROVE  FALSE
    <3>1. saved[l] \in [text : Text, at : Nat] /\ saved[l].at < clock
      BY <1>4, <1>6, <2>2 DEF Saved
    <3>2. clock <= saved[l].at
      BY <1>2, <1>4, <1>7, <2>2
    <3> QED BY <3>1, <3>2
  <2> QED BY <1>7, <2>1, <2>2 DEF LastIn
<1>9. \A l \in Saved(saved) : l = s.lang \/ saved[l].at < saved[s.lang].at
  BY <1>2, <1>4, <1>6
<1> QED BY <1>1, <1>2, <1>4, <1>5, <1>8, <1>9 DEF saved, row

\* A page that keeps to its languages, whatever was typed, switched or found.
PageOf(p) ==
  /\ p \in Page /\ p.source.lang = p.language
  /\ \A l \in Languages : p.code[l] # None => p.code[l].lang = l

LEMMA NothingKept ==
  ASSUME clock \in Nat
  PROVE  KeptIn([l \in Languages |-> None]) /\ PageOf(ClosedPage)
<1>1. Template(Preferred) \in Text /\ Template(Preferred).lang = Preferred
  BY WorkspaceAssumption DEF Template, Text
<1> QED BY <1>1, WorkspaceAssumption DEF KeptIn, PageOf, Page, ClosedPage

\* The code of a language in the editor is code of that language.
LEMMA CodeOfLanguage ==
  ASSUME NEW code \in [Languages -> {None} \cup Text], NEW l \in Languages, code[l] # None => code[l].lang = l
  PROVE  CodeOr(code, l) \in Text /\ CodeOr(code, l).lang = l
<1>1. Template(l) \in Text /\ Template(l).lang = l
  BY DEF Template, Text
<1> QED BY <1>1 DEF CodeOr

LEMMA OpenedPage ==
  ASSUME clock \in Nat, page \in Page, KeptIn(local), NEW d, DraftsOf(d)
  PROVE  PageOf(Opened(d))
<1> DEFINE code == [l \in Languages |-> Kept(d, l)]
           last == LastIn(d)
           source == CodeOr(code, last)
<1>1. last \in Languages
  <2>1. CASE Saved(d) = {}
    BY <2>1, WorkspaceAssumption DEF LastIn
  <2>2. CASE Saved(d) # {}
    BY <2>2 DEF LastIn, DraftsOf, Saved
  <2> QED BY <2>1, <2>2
<1>2. ASSUME NEW l \in Languages
      PROVE  Kept(d, l) \in {None} \cup Text /\ (Kept(d, l) # None => Kept(d, l).lang = l)
  <2>1. /\ d[l] # None => d[l] \in [text : Text, at : Nat] /\ d[l].text.lang = l
        /\ local[l] # None => local[l] \in [text : Text, at : Nat] /\ local[l].text.lang = l
    BY DEF DraftsOf, KeptIn
  <2>2. /\ d[l] # None => d[l].text \in Text
        /\ local[l] # None => local[l].text \in Text
    BY <2>1
  <2> QED BY <2>1, <2>2 DEF Kept
<1>3. code \in [Languages -> {None} \cup Text] /\ \A l \in Languages : code[l] # None => code[l].lang = l
  BY <1>2
<1>4. Opened(d) = [page EXCEPT !.at = "open", !.language = last, !.source = source, !.code = code]
  BY DEF Opened
<1> HIDE DEF code, last
<1>5. source \in Text /\ source.lang = last
  BY <1>1, <1>3, CodeOfLanguage
<1> HIDE DEF source
<1> QED BY <1>1, <1>3, <1>4, <1>5 DEF PageOf, Page

\* What the editor, its timer and the drafts hold stays code of its language.
LEMMA EditorStep ==
  ASSUME EditorInv, LoadsInv, GhostTypes, [Next]_vars
  PROVE  EditorInv' /\ clock <= clock'
<1>0. /\ clock \in Nat /\ KeptIn(local) /\ KeptIn(draft) /\ DraftsOf(draft) /\ PageOf(page)
      /\ timer \in Save \cup {None} /\ puts \in Seq(Save) /\ page \in Page
  BY DEF EditorInv, DraftsOf, PageOf
<1>1. ASSUME UNCHANGED drafts
      PROVE  clock' \in Nat /\ KeptIn(local)' /\ DraftsOf(draft)' /\ clock <= clock'
  BY <1>0, <1>1 DEF drafts, KeptIn, DraftsOf, Saved
<1>2. ASSUME UNCHANGED drafts, PageOf(page'), timer' \in Save \cup {None}, puts' \in Seq(Save)
      PROVE  EditorInv' /\ clock <= clock'
  BY <1>1, <1>2 DEF EditorInv, PageOf
<1>3. CASE Aside
  BY <1>0, <1>2, <1>3 DEF Aside, editor
<1>4. CASE Open \/ Hide \/ Show \/ \E i \in DOMAIN loads : LoadFails(i)
  <2>1. /\ UNCHANGED <<drafts, timer, puts>>
        /\ \/ \E at \in {"loading", "error"} : page' = [page EXCEPT !.at = at]
           \/ \E h \in BOOLEAN : page' = [page EXCEPT !.hidden = h]
    BY <1>4 DEF Open, Hide, Show, LoadFails
  <2>2. PageOf(page')
    BY <1>0, <2>1 DEF PageOf, Page
  <2> QED BY <1>0, <1>2, <2>1, <2>2
<1>5. ASSUME NEW i \in DOMAIN loads, LoadAnswered(i)
      PROVE  EditorInv' /\ clock <= clock'
  <2>1. loads[i] \in Load /\ loads[i].at = "answered"
    BY <1>5, ElementOfSeq DEF LoadsInv, LoadAnswered
  <2>2. DraftsOf(loads[i].now.draft)
    BY <2>1 DEF Load
  <2>3. PageOf(Opened(loads[i].now.draft))
    BY <1>0, <2>2, OpenedPage
  <2>4. page' \in {page, Opened(loads[i].now.draft)} /\ UNCHANGED <<drafts, timer, puts>>
    BY <1>5 DEF LoadAnswered
  <2> QED BY <1>0, <1>2, <2>3, <2>4
<1>6. ASSUME NEW i \in DOMAIN loads, LoadServed(i)
      PROVE  EditorInv' /\ clock <= clock'
  BY <1>0, <1>2, <1>6 DEF LoadServed, editor
<1>7. ASSUME NEW text \in Text, text.lang = page.language, Change(text)
      PROVE  EditorInv' /\ clock <= clock'
  <2> DEFINE l == page.language
             save == [lang |-> l, text |-> text]
  <2>1. l \in Languages /\ save \in Save /\ save.lang = l /\ save.text = text
    BY <1>0, <1>7 DEF Page, Save
  <2>2. /\ page' = [page EXCEPT !.source = text, !.code[l] = text]
        /\ local' = [local EXCEPT ![save.lang] = [text |-> save.text, at |-> clock]]
        /\ clock' = clock + 1 /\ timer' = save /\ puts' = puts /\ draft' = draft
    BY <1>7 DEF Change
  <2>3. PageOf(page')
    <3> DEFINE code == [page.code EXCEPT ![l] = text]
    <3>1. code \in [Languages -> {None} \cup Text] /\ \A m \in Languages : code[m] # None => code[m].lang = m
      BY <1>0, <1>7, <2>1 DEF PageOf, Page
    <3>2. page' = [page EXCEPT !.source = text, !.code = code]
      BY <1>0, <2>2 DEF Page
    <3> HIDE DEF code
    <3> QED BY <1>0, <1>7, <3>1, <3>2 DEF PageOf, Page
  <2> HIDE DEF save, l
  <2>4. KeptIn(local)'
    BY <1>0, <2>1, <2>2, SavedNow DEF KeptIn
  <2>5. DraftsOf(draft)'
    <3>1. KeptIn(draft)'
      BY <1>0, <2>2, KeptStays DEF KeptIn
    <3> QED BY <1>0, <2>2, <3>1 DEF DraftsOf, Saved
  <2> QED BY <1>0, <2>1, <2>2, <2>3, <2>4, <2>5 DEF EditorInv, PageOf
<1>8. CASE Type \/ Reset
  <2>1. /\ page.language \in Languages
        /\ [lang |-> page.language, n |-> clock] \in Text /\ Template(page.language) \in Text
        /\ Template(page.language).lang = page.language
    BY <1>0 DEF Page, Text, Template
  <2>2. CASE Type
    BY <1>7, <2>1, <2>2 DEF Type
  <2>3. CASE Reset
    BY <1>7, <2>1, <2>3 DEF Reset
  <2> QED BY <1>8, <2>2, <2>3
<1>9. ASSUME NEW l \in Languages, Switch(l)
      PROVE  EditorInv' /\ clock <= clock'
  <2> DEFINE code == [page.code EXCEPT ![page.language] = page.source]
             next == CodeOr(code, l)
             save == [lang |-> l, text |-> next]
  <2>1. /\ page' = [page EXCEPT !.language = l, !.source = next, !.code = code]
        /\ puts' = Append(puts, save) /\ UNCHANGED <<timer, drafts>>
    BY <1>9 DEF Switch, SwitchPut
  <2>2. code \in [Languages -> {None} \cup Text] /\ \A m \in Languages : code[m] # None => code[m].lang = m
    BY <1>0 DEF PageOf, Page
  <2> HIDE DEF code
  <2>3. next \in Text /\ next.lang = l
    BY <2>2, CodeOfLanguage
  <2> HIDE DEF next
  <2>4. PageOf(page')
    BY <1>0, <2>1, <2>2, <2>3 DEF PageOf, Page
  <2>5. save \in Save
    BY <2>3 DEF Save
  <2>6. puts' \in Seq(Save)
    BY <1>0, <2>1, <2>5, AppendProperties
  <2> QED BY <1>0, <1>2, <2>1, <2>4, <2>6
<1>10. CASE DraftTimer
  <2>1. timer \in Save /\ puts' = Append(puts, timer) /\ timer' = None /\ UNCHANGED <<page, drafts>>
    BY <1>0, <1>10 DEF DraftTimer, DraftToSave
  <2>2. puts' \in Seq(Save)
    BY <1>0, <2>1, AppendProperties
  <2> QED BY <1>0, <1>2, <2>1, <2>2
<1>11. ASSUME NEW i \in DOMAIN puts, PutArrives(i)
       PROVE  EditorInv' /\ clock <= clock'
  <2>1. puts[i] \in Save /\ RemoveAt(puts, i) \in Seq(Save)
    BY <1>0, ElementOfSeq, RemoveAtSeq
  <2>2. /\ draft' = [draft EXCEPT ![puts[i].lang] = [text |-> puts[i].text, at |-> clock]]
        /\ clock' = clock + 1 /\ puts' = RemoveAt(puts, i) /\ UNCHANGED <<page, timer, local>>
    BY <1>11 DEF PutArrives
  <2>3. KeptIn(local)'
    BY <1>0, <2>2, KeptStays DEF KeptIn
  <2> DEFINE s == puts[i]
  <2>4. /\ KeptIn(draft)' /\ s.lang \in Saved(draft')
        /\ \A l \in Saved(draft') : l = s.lang \/ draft'[l].at < draft'[s.lang].at
    BY <1>0, <2>1, <2>2, SavedNow DEF KeptIn, Saved
  <2>5. \A l \in Saved(draft') : draft'[l].at \in Nat /\ draft'[l].at <= draft'[s.lang].at
    <3> SUFFICES ASSUME NEW l \in Saved(draft')
                 PROVE  draft'[l].at \in Nat /\ draft'[l].at <= draft'[s.lang].at
      OBVIOUS
    <3>1. draft'[l] \in [text : Text, at : Nat] /\ draft'[s.lang] \in [text : Text, at : Nat]
      BY <2>4 DEF KeptIn, Saved
    <3> QED BY <2>4, <3>1
  <2>6. DraftsOf(draft)'
    BY <2>4, <2>5 DEF DraftsOf, Saved
  <2> QED BY <1>0, <2>1, <2>2, <2>3, <2>6 DEF EditorInv, PageOf
<1>12. ASSUME NEW i \in DOMAIN puts, PutLost(i)
       PROVE  EditorInv' /\ clock <= clock'
  <2>1. puts' \in Seq(Save) /\ UNCHANGED <<page, timer, drafts>>
    BY <1>0, <1>12, RemoveAtSeq DEF PutLost
  <2> QED BY <1>0, <1>2, <2>1
<1>13. CASE Leave
  BY <1>0, <1>2, <1>13, NothingKept DEF Leave, Closed
<1>14. CASE CloseTab
  <2>1. /\ page' = ClosedPage /\ timer' = None /\ puts' = puts /\ draft' = draft /\ clock' = clock
        /\ local' \in {local, [l \in Languages |-> None]}
    BY <1>14 DEF CloseTab, Closed
  <2>2. KeptIn(local)' /\ DraftsOf(draft)'
    BY <1>0, <2>1, NothingKept DEF KeptIn, DraftsOf, Saved
  <2> QED BY <1>0, <2>1, <2>2, NothingKept DEF EditorInv, PageOf
<1> QED
  BY <1>3, <1>4, <1>5, <1>6, <1>8, <1>9, <1>10, <1>11, <1>12, <1>13, <1>14, PageSteps, Zenon

-----------------------------------------------------------------------------
(* The page asks, and is answered.                                          *)

LEMMA LoadsStep ==
  ASSUME SubmissionInv, cooling \in BOOLEAN, HintInv, EditorInv, LoadsInv, [Next]_vars
  PROVE  LoadsInv'
<1>0. /\ loads \in Seq(Load) /\ GhostTypes
      /\ clock \in Nat /\ clock' \in Nat /\ clock <= clock'
      /\ Len(submission) \in Nat /\ Len(submission') \in Nat /\ Len(submission) <= Len(submission')
  <2>1. SubmissionInv' /\ Len(submission) <= Len(submission')
    BY SubmissionStep
  <2>2. EditorInv' /\ clock <= clock' /\ GhostTypes
    BY EditorStep DEF HintInv
  <2> QED BY <2>1, <2>2 DEF LoadsInv, EditorInv, SubmissionInv
<1>1. ASSUME NEW x \in Load PROVE x \in Load'
  <2>1. ASSUME x.at = "answered"
        PROVE  x.now \in Snapshot /\ Len(x.now.history) <= Len(submission') /\ DraftsOf(x.now.draft)'
    <3>1. x.now \in Snapshot /\ Len(x.now.history) <= Len(submission) /\ DraftsOf(x.now.draft)
      BY <2>1 DEF Load
    <3>2. Len(x.now.history) \in Nat
      BY <3>1 DEF Snapshot
    <3>3. DraftsOf(x.now.draft)'
      BY <1>0, <3>1, KeptStays DEF DraftsOf, KeptIn, Saved
    <3> QED BY <1>0, <3>1, <3>2, <3>3
  <2>2. x \in [at : {"sent", "answered"}, now : Snapshot \cup {None}]
    BY DEF Load
  <2> QED BY <2>1, <2>2 DEF Load
<1>2. loads \in Seq(Load')
  BY <1>0, <1>1, ElementOfSeq
<1>3. [at |-> "sent", now |-> None] \in Load'
  BY DEF Load
<1>4. CASE loads' = loads \/ loads' = << >>
  <2>1. << >> \in Seq(Load')
    OBVIOUS
  <2> QED BY <1>2, <1>4, <2>1, Zenon DEF LoadsInv
<1>5. CASE loads' = Append(loads, [at |-> "sent", now |-> None])
  BY <1>2, <1>3, <1>5, AppendProperties DEF LoadsInv
<1>6. ASSUME NEW i \in DOMAIN loads, LoadServed(i) PROVE LoadsInv'
  <2> DEFINE x == [at |-> "answered", now |-> Now]
  <2>1. loads' = [loads EXCEPT ![i] = x] /\ UNCHANGED <<submission, draft, local, clock>>
    BY <1>6 DEF LoadServed, engine, drafts
  <2>2. Now \in Snapshot /\ DraftsOf(Now.draft) /\ Len(Now.history) = Len(submission)
    BY DEF Now, Snapshot, SubmissionInv, HintInv, EditorInv, DraftsOf, KeptIn
  <2> HIDE DEF Now
  <2>3. x \in Load
    BY <1>0, <2>2 DEF Load
  <2> HIDE DEF x
  <2>4. loads' \in Seq(Load')
    BY <1>1, <1>2, <2>1, <2>3
  <2> QED BY <2>4 DEF LoadsInv
<1>7. ASSUME NEW i \in DOMAIN loads, LoadAnswered(i) \/ LoadFails(i) PROVE LoadsInv'
  <2>1. loads' = RemoveAt(loads, i)
    BY <1>7 DEF LoadAnswered, LoadFails
  <2> QED BY <1>2, <2>1, RemoveAtSeq DEF LoadsInv
<1>8. CASE Open
  BY <1>5, <1>8 DEF Open, AskLoad
<1>9. CASE Leave \/ CloseTab
  BY <1>4, <1>9 DEF Leave, CloseTab, Closed
<1>10. CASE Hide \/ Show \/ Type \/ Reset \/ DraftTimer
  BY <1>4, <1>10 DEF Hide, Show, Type, Reset, Change, DraftTimer, following
<1>11. ASSUME NEW l \in Languages, Switch(l) PROVE LoadsInv'
  BY <1>4, <1>11 DEF Switch, following
<1>12. ASSUME NEW i \in DOMAIN puts, PutArrives(i) \/ PutLost(i) PROVE LoadsInv'
  BY <1>4, <1>12 DEF PutArrives, PutLost, following
<1>13. CASE Aside
  BY <1>4, <1>5, <1>13 DEF Aside
<1> QED
  BY <1>0, <1>6, <1>7, <1>8, <1>9, <1>10, <1>11, <1>12, <1>13, PageSteps, Zenon

-----------------------------------------------------------------------------
(* Jobs are followed.                                                       *)

LEMMA FollowOperators ==
  ASSUME NEW f, IsFollow(f)
  PROVE  /\ IsFollow(Poll(f)) /\ Poll(f).url = f.url
         /\ IsFollow(Poke(f)) /\ Poke(f).url = f.url
         /\ IsFollow(Answered(f)) /\ Answered(f).url = f.url
         /\ IsFollow(Failed(f)) /\ Failed(f).url = f.url
         /\ \A url, initial : IsFollow(Follow(f, url, initial)) /\ Follow(f, url, initial).url = url
<1>1. ASSUME NEW g, IsFollow(g) PROVE IsFollow(Poll(g)) /\ Poll(g).url = g.url
  BY <1>1 DEF Poll, IsFollow
<1>2. IsFollow(Poke(f)) /\ Poke(f).url = f.url
  <2>1. IsFollow([f EXCEPT !.timer = FALSE]) /\ [f EXCEPT !.timer = FALSE].url = f.url
    BY DEF IsFollow
  <2> QED BY <1>1, <2>1 DEF Poke
<1>3. IsFollow(Answered(f)) /\ Answered(f).url = f.url
  BY DEF Answered, IsFollow
<1>4. IsFollow(Failed(f)) /\ Failed(f).url = f.url
  BY DEF Failed, IsFollow
<1>5. ASSUME NEW url, NEW initial
      PROVE  IsFollow(Follow(f, url, initial)) /\ Follow(f, url, initial).url = url
  <2> DEFINE g == [f EXCEPT !.url = url, !.value = initial, !.done = FALSE, !.timer = FALSE, !.answer = None,
                            !.flight = IF @ = "none" THEN "none" ELSE "aborted"]
  <2>1. IsFollow(g) /\ g.url = url
    BY DEF IsFollow
  <2>2. Follow(f, url, initial) = Poll(g)
    BY DEF Follow
  <2> HIDE DEF g
  <2> QED BY <1>1, <2>1, <2>2
<1> QED BY <1>1, <1>2, <1>3, <1>4, <1>5

\* One of the two is followed further, and it still follows a row there is.
LEMMA OneFollowed ==
  ASSUME FollowInv, NEW k \in Followings, NEW f, IsFollow(f), f.url \in 0..FollowedRows(k),
         follow' = [follow EXCEPT ![k] = f]
  PROVE  /\ DOMAIN follow' = Followings
         /\ \A j \in Followings : IsFollow(follow'[j]) /\ follow'[j].url \in 0..FollowedRows(j)
BY DEF FollowInv

\* The judgement followed after a load is one there is.
LEMMA UnendedIsThere ==
  ASSUME NEW history \in Seq(SubmissionRow)
  PROVE  Unended(history) \in 0..Len(history)
BY DEF Unended

LEMMA FollowKept ==
  ASSUME SubmissionInv, RunTypes, LoadsInv, FollowInv, [Next]_vars
  PROVE  /\ DOMAIN follow' = Followings
         /\ \A j \in Followings : IsFollow(follow'[j]) /\ follow'[j].url \in 0..FollowedRows(j)
<1> DEFINE Kept1 == /\ DOMAIN follow' = Followings
                    /\ \A j \in Followings : IsFollow(follow'[j]) /\ follow'[j].url \in 0..FollowedRows(j)
<1>0. /\ Len(submission) \in Nat /\ Len(run) \in Nat /\ DOMAIN follow = Followings
      /\ \A j \in Followings : IsFollow(follow[j]) /\ follow[j].url \in 0..FollowedRows(j) /\ 0 \in 0..FollowedRows(j)
  BY DEF SubmissionInv, RunTypes, FollowInv, FollowedRows
<1>1. ASSUME UNCHANGED follow PROVE Kept1
  BY <1>0, <1>1
<1>2. ASSUME NEW k \in Followings, NEW f, IsFollow(f), f.url \in 0..FollowedRows(k), follow' = [follow EXCEPT ![k] = f]
      PROVE  Kept1
  BY <1>2, OneFollowed
<1>3. ASSUME NEW i \in DOMAIN loads, LoadAnswered(i) PROVE Kept1
  <2> DEFINE h == loads[i].now.history
             f == Followed(h)
  <2>1. loads[i] \in Load /\ loads[i].at = "answered"
    BY <1>3, ElementOfSeq DEF LoadsInv, LoadAnswered
  <2>2. h \in Seq(SubmissionRow) /\ Len(h) <= Len(submission) /\ Len(h) \in Nat
    <3>1. loads[i].now \in Snapshot /\ Len(h) <= Len(submission)
      BY <2>1 DEF Load
    <3>2. h \in Seq(SubmissionRow)
      BY <3>1 DEF Snapshot
    <3> QED BY <3>1, <3>2
  <2>3. follow' = [follow EXCEPT !.judgement = f]
    BY <1>3 DEF LoadAnswered
  <2> HIDE DEF h
  <2>4. Unended(h) \in 0..Len(submission)
    BY <1>0, <2>2, UnendedIsThere
  <2>5. IsFollow(f) /\ f.url \in 0..FollowedRows("judgement")
    <3>1. "judgement" \in Followings /\ IsFollow(follow.judgement)
          /\ follow.judgement.url \in 0..FollowedRows("judgement") /\ FollowedRows("judgement") = Len(submission)
      BY <1>0 DEF Followings, FollowedRows
    <3> QED BY <2>4, <3>1, FollowOperators DEF Followed
  <2> HIDE DEF f
  <2>6. "judgement" \in Followings
    BY DEF Followings
  <2> QED BY <1>2, <2>3, <2>5, <2>6
<1>4. ASSUME NEW k \in Followings, Polling(k) \/ PollFails(k) PROVE Kept1
  <2>1. IsFollow(follow[k]) /\ follow[k].url \in 0..FollowedRows(k)
    BY <1>0
  <2>2. CASE PollServed(k)
    <3> DEFINE f == [follow[k] EXCEPT !.flight = "answered", !.answer = Row(k, follow[k].url)]
    <3>1. IsFollow(f) /\ f.url = follow[k].url /\ follow' = [follow EXCEPT ![k] = f]
      BY <1>0, <2>1, <2>2 DEF IsFollow, PollServed
    <3> HIDE DEF f
    <3> QED BY <1>2, <2>1, <3>1
  <2>3. CASE PollAnswered(k)
    <3>1. follow' = [follow EXCEPT ![k] = Answered(follow[k])]
      BY <2>3 DEF PollAnswered
    <3> QED BY <1>2, <2>1, <3>1, FollowOperators
  <2>4. CASE PollFails(k)
    <3>1. follow' = [follow EXCEPT ![k] = Failed(follow[k])]
      BY <2>4 DEF PollFails
    <3> QED BY <1>2, <2>1, <3>1, FollowOperators
  <2>5. CASE PollAborted(k)
    <3> DEFINE f == [follow[k] EXCEPT !.flight = "none"]
    <3>1. IsFollow(f) /\ f.url = follow[k].url /\ follow' = [follow EXCEPT ![k] = f]
      BY <1>0, <2>1, <2>5 DEF IsFollow, PollAborted
    <3> HIDE DEF f
    <3> QED BY <1>2, <2>1, <3>1
  <2>6. CASE PollTimer(k)
    <3> DEFINE f == [follow[k] EXCEPT !.timer = FALSE]
    <3>1. IsFollow(f) /\ f.url = follow[k].url /\ follow' = [follow EXCEPT ![k] = Poll(f)]
      BY <1>0, <2>1, <2>6 DEF IsFollow, PollTimer
    <3> HIDE DEF f
    <3> QED BY <1>2, <2>1, <3>1, FollowOperators
  <2> QED BY <1>4, <2>2, <2>3, <2>4, <2>5, <2>6 DEF Polling
<1>5. ASSUME EventHeard PROVE Kept1
  <2>1. CASE follow' = [follow EXCEPT !.judgement = Poke(follow.judgement)]
    <3>1. "judgement" \in Followings /\ IsFollow(follow.judgement) /\ follow.judgement.url \in 0..FollowedRows("judgement")
      BY <1>0 DEF Followings
    <3> QED BY <1>2, <2>1, <3>1, FollowOperators
  <2> QED BY <1>1, <1>5, <2>1 DEF EventHeard
<1>6. ASSUME Hide PROVE Kept1
  <2>1. follow' = [k \in DOMAIN follow |-> [follow[k] EXCEPT !.timer = FALSE]]
    BY <1>6 DEF Hide
  <2> QED BY <1>0, <2>1 DEF IsFollow
<1>7. ASSUME Show PROVE Kept1
  <2> DEFINE g(k) == [follow[k] EXCEPT !.timer = FALSE]
             f(k) == IF g(k).done \/ g(k).url = 0 \/ g(k).flight # "none" THEN IF g(k).done THEN follow[k] ELSE g(k)
                     ELSE [g(k) EXCEPT !.flight = "sent"]
  <2>1. follow' = [k \in DOMAIN follow |-> f(k)]
    BY <1>7 DEF Show
  <2>2. \A k \in Followings : IsFollow(g(k)) /\ g(k).url = follow[k].url
    BY <1>0 DEF IsFollow
  <2>3. \A k \in Followings : f(k) \in {follow[k], g(k), [g(k) EXCEPT !.flight = "sent"]}
    OBVIOUS
  <2> HIDE DEF g
  <2>4. \A k \in Followings : IsFollow([g(k) EXCEPT !.flight = "sent"]) /\ [g(k) EXCEPT !.flight = "sent"].url = g(k).url
    BY <2>2 DEF IsFollow
  <2> HIDE DEF f
  <2>5. \A k \in Followings : IsFollow(f(k)) /\ f(k).url = follow[k].url
    BY <1>0, <2>2, <2>3, <2>4
  <2> QED BY <1>0, <2>1, <2>5
<1>8. ASSUME RunSent PROVE Kept1
  <2>1. CASE follow' = [follow EXCEPT !.run = Follow(follow.run, starting.run, None)]
    <3>1. "run" \in Followings /\ IsFollow(follow.run) /\ starting.run \in 0..FollowedRows("run")
      <4>1. starting.run \in 1..Len(run)
        BY <1>8 DEF RunSent, RunTypes
      <4> QED BY <1>0, <4>1 DEF Followings, FollowedRows
    <3> QED BY <1>2, <2>1, <3>1, FollowOperators
  <2> QED BY <1>1, <1>8, <2>1 DEF RunSent, following
<1>9. ASSUME Leave \/ CloseTab PROVE Kept1
  <2>1. follow' = [k \in DOMAIN follow |-> NoFollow]
    BY <1>9 DEF Leave, CloseTab, Closed
  <2>2. IsFollow(NoFollow) /\ NoFollow.url = 0
    BY DEF NoFollow, IsFollow
  <2> QED BY <1>0, <2>1, <2>2
<1>10. ASSUME UNCHANGED vars \/ Open \/ Type \/ Reset \/ Submit \/ Cancel \/ StartRun \/ BuyHint PROVE Kept1
  BY <1>1, <1>10 DEF vars, following, Open, Type, Reset, Change, Submit, Cancel, StartRun, BuyHint
<1>11. ASSUME NEW l \in Languages, Switch(l) PROVE Kept1
  BY <1>1, <1>11 DEF Switch, following
<1>12. ASSUME NEW i, LoadServed(i) \/ LoadFails(i) \/ PutArrives(i) \/ PutLost(i) PROVE Kept1
  BY <1>1, <1>12 DEF LoadServed, LoadFails, PutArrives, PutLost, following
<1>13. ASSUME Posted \/ HintBought \/ DraftTimer \/ Rejudge \/ CooledDown PROVE Kept1
  BY <1>1, <1>13 DEF Posted, HintBought, DraftTimer, Rejudge, CooledDown, following
<1>14. ASSUME NEW i, Judge(i) \/ GiveUp(i) \/ JudgeRuns(i) \/ CollectRun(i) \/ WriteRun(i) PROVE Kept1
  BY <1>1, <1>14 DEF Judge, GiveUp, JudgeRuns, CollectRun, WriteRun, following
<1> HIDE DEF Kept1
<1>15. ASSUME Participant PROVE Kept1
  BY <1>6, <1>7, <1>9, <1>10, <1>11, <1>15, Zenon DEF Participant
<1>16. ASSUME Browser PROVE Kept1
  BY <1>3, <1>4, <1>5, <1>12, <1>13, <1>16, Zenon DEF Browser, Loading
<1>17. ASSUME Engine PROVE Kept1
  BY <1>8, <1>13, <1>14, <1>17, Zenon DEF Engine
<1>18. Kept1
  BY <1>10, <1>15, <1>16, <1>17, Zenon DEF Next
<1> QED BY <1>18 DEF Kept1

LEMMA FollowStep ==
  ASSUME SubmissionInv, RunTypes, LoadsInv, FollowInv, [Next]_vars
  PROVE  FollowInv'
<1>1. /\ Len(submission) \in Nat /\ Len(submission') \in Nat /\ Len(submission) <= Len(submission')
      /\ Len(run) \in Nat /\ Len(run') \in Nat /\ Len(run) <= Len(run')
  BY SubmissionStep, RunTypesStep DEF SubmissionInv, RunTypes
<1>2. \A j \in Followings : 0..FollowedRows(j) \subseteq 0..FollowedRows(j)'
  BY <1>1 DEF FollowedRows
<1> QED BY <1>2, FollowKept DEF FollowInv

\* A closed page stays quiet until it is opened: what it asked for is forgotten, and no event
\* is kept for it.
LEMMA ClosedStep ==
  ASSUME EditorInv, FollowInv, ClosedInv, [Next]_vars
  PROVE  ClosedInv'
<1> DEFINE Quiet == /\ loads = << >> /\ event = << >> /\ buying = << >> /\ posting = "none"
                    /\ follow.judgement.url = 0 /\ follow.judgement.flight = "none" /\ ~follow.judgement.timer
<1>0. DOMAIN follow = Followings /\ IsFollow(follow.judgement) /\ (page.at = "closed" => Quiet)
      /\ page \in Page
  BY DEF EditorInv, FollowInv, Followings, ClosedInv
<1>1. ASSUME page'.at # "closed" PROVE ClosedInv'
  BY <1>1 DEF ClosedInv
<1>2. ASSUME page'.at = page.at, page.at = "closed" => UNCHANGED <<loads, event, buying, posting, follow>>
      PROVE  ClosedInv'
  BY <1>0, <1>2 DEF ClosedInv
<1>3. CASE Open
  BY <1>3, <1>1 DEF Open
<1>4. CASE Leave \/ CloseTab
  <2>1. /\ loads' = << >> /\ event' = << >> /\ buying' = << >> /\ posting' = "none"
        /\ follow' = [k \in DOMAIN follow |-> NoFollow]
    BY <1>4 DEF Leave, CloseTab, Closed
  <2>2. follow'.judgement = NoFollow
    BY <1>0, <2>1 DEF Followings
  <2> QED BY <2>1, <2>2 DEF ClosedInv, NoFollow
<1>5. CASE Hide \/ Type \/ Reset \/ Submit \/ Cancel \/ StartRun \/ BuyHint
  <2>1. page'.at = "open"
    <3>1. CASE Type \/ Reset
      BY <1>0, <3>1 DEF Page, Type, Reset, Change
    <3>2. CASE Submit \/ Cancel \/ StartRun \/ BuyHint
      BY <3>2 DEF Submit, CanSubmit, Shortcut, Cancel, StartRun, BuyHint, HintOffered, editor
    <3> QED BY <1>0, <1>5, <3>1, <3>2 DEF Page, Hide
  <2> QED BY <1>1, <2>1
<1>6. ASSUME NEW l \in Languages, Switch(l) PROVE ClosedInv'
  BY <1>1, <1>6 DEF Switch
<1>7. CASE Show
  <2>1. page'.at = page.at /\ UNCHANGED <<loads, event, buying, posting>>
    BY <1>0, <1>7 DEF Page, Show, engine
  <2>2. CASE page.at # "closed"
    BY <1>1, <2>1, <2>2
  <2>3. CASE page.at = "closed"
    <3> DEFINE f == [follow.judgement EXCEPT !.timer = FALSE]
    <3>1. f.url = 0 /\ f.flight = "none" /\ ~f.timer
      BY <1>0, <2>3 DEF IsFollow
    <3>2. follow'.judgement \in {f, follow.judgement}
      BY <1>0, <1>7, <3>1 DEF Show, Followings
    <3> HIDE DEF f
    <3> QED BY <1>0, <2>1, <2>3, <3>1, <3>2 DEF ClosedInv
  <2> QED BY <2>2, <2>3
<1>8. ASSUME NEW i \in DOMAIN loads, LoadServed(i) \/ LoadAnswered(i) \/ LoadFails(i) PROVE ClosedInv'
  <2>1. page.at # "closed"
    BY <1>0
  <2>2. page'.at # "closed"
    BY <1>0, <1>8, <2>1 DEF Page, LoadServed, LoadAnswered, LoadFails, editor, Opened
  <2> QED BY <1>1, <2>2
<1>9. ASSUME NEW k \in Followings, Polling(k) \/ PollFails(k) PROVE ClosedInv'
  <2>1. page' = page /\ UNCHANGED <<event, buying, posting>>
    BY <1>9 DEF Polling, PollServed, PollAnswered, PollAborted, PollTimer, PollFails, editor, engine
  <2>2. CASE k = "judgement" /\ page.at = "closed"
    BY <1>0, <1>9, <2>2 DEF Polling, PollServed, PollAnswered, PollAborted, PollTimer, PollFails
  <2>3. CASE k # "judgement"
    <3>1. loads' = loads
      BY <1>9, <2>3, Zenon DEF Polling, PollServed, PollAnswered, PollAborted, PollTimer, PollFails
    <3>2. follow'.judgement = follow.judgement
      BY <1>0, <1>9, <2>3 DEF Polling, PollServed, PollAnswered, PollAborted, PollTimer, PollFails, Followings
    <3> QED BY <1>0, <2>1, <3>1, <3>2 DEF ClosedInv
  <2> QED BY <1>1, <2>1, <2>2, <2>3
<1>10. CASE EventHeard \/ Posted \/ HintBought
  <2>1. page.at # "closed" /\ page' = page
    BY <1>0, <1>10 DEF EventHeard, Posted, HintBought, editor
  <2> QED BY <1>1, <2>1
<1>11. CASE DraftTimer \/ CooledDown \/ UNCHANGED vars
  BY <1>2, <1>11 DEF DraftTimer, CooledDown, vars, engine, following, editor
<1>12. ASSUME NEW i, PutArrives(i) \/ PutLost(i) \/ GiveUp(i) \/ JudgeRuns(i) \/ CollectRun(i) \/ WriteRun(i)
       PROVE  ClosedInv'
  BY <1>2, <1>12 DEF PutArrives, PutLost, GiveUp, JudgeRuns, CollectRun, WriteRun, engine, following, editor
<1>13. ASSUME NEW i, Judge(i) PROVE ClosedInv'
  <2>1. page' = page /\ UNCHANGED <<loads, buying, posting, follow>> /\ (page.at = "closed" => event' = event)
    BY <1>13 DEF Judge, Publish, Announce, following, editor
  <2> QED BY <1>2, <2>1
<1>14. CASE Rejudge
  BY <1>2, <1>14 DEF Rejudge, Announce, following, editor
<1>15. CASE RunSent
  <2>1. page' = page /\ UNCHANGED <<loads, event, buying, posting>>
    BY <1>15 DEF RunSent, engine, following, editor
  <2>2. follow'.judgement = follow.judgement
    BY <1>0, <1>15 DEF RunSent, Followings, following
  <2> QED BY <1>0, <2>1, <2>2 DEF ClosedInv
<1>16. CASE Participant
  BY <1>3, <1>4, <1>5, <1>6, <1>7, <1>16, Zenon DEF Participant
<1>17. CASE Browser
  BY <1>8, <1>9, <1>10, <1>11, <1>12, <1>17, Zenon DEF Browser, Loading
<1>18. CASE Engine
  BY <1>11, <1>12, <1>13, <1>14, <1>15, <1>18, Zenon DEF Engine
<1> QED BY <1>11, <1>16, <1>17, <1>18, Zenon DEF Next

-----------------------------------------------------------------------------
(* What another machine will find.                                          *)

LEMMA NoneIsNoSave ==
  None \notin Text /\ None \notin Save
BY WorkspaceAssumption DEF Text, Save

\* A page that opens with nothing to save shows the drafts: this browser has nothing newer.
LEMMA OpensOnTheDraft ==
  ASSUME EditorInv, LocalInv, timer = None, puts = << >>
  PROVE  LET there == LastIn(draft) IN
         /\ Opened(draft).language = there
         /\ Opened(draft).source = IF draft[there] = None THEN Template(there) ELSE draft[there].text
<1> DEFINE code == [l \in Languages |-> Kept(draft, l)]
           there == LastIn(draft)
<1>1. Opened(draft) = [page EXCEPT !.at = "open", !.language = there, !.source = CodeOr(code, there), !.code = code]
  BY DEF Opened
<1>2. /\ DraftsOf(draft) /\ page \in Page /\ KeptIn(local) /\ KeptIn(draft) /\ clock \in Nat
  BY DEF EditorInv, DraftsOf
<1>3. PageOf(Opened(draft))
  BY <1>2, OpenedPage
<1> HIDE DEF code, there
<1>4. Opened(draft).language = there /\ Opened(draft).source = CodeOr(code, there)
  BY <1>1, <1>2 DEF Page
<1>5. there \in Languages
  BY <1>3, <1>4 DEF PageOf, Page
<1>6. code[there] = Kept(draft, there)
  BY <1>5 DEF code
<1>7. CASE draft[there] = None
  BY <1>2, <1>4, <1>5, <1>6, <1>7 DEF Kept, CodeOr, there, KeptIn
<1>8. CASE draft[there] # None
  <2>1. draft[there] \in [text : Text, at : Nat] /\ DOMAIN draft = Languages
    BY <1>2, <1>5, <1>8 DEF KeptIn
  <2>2. ~(local[there] # None /\ local[there].at > draft[there].at)
    BY <1>5, <1>8 DEF LocalInv, Unsaved
  <2>3. code[there] = draft[there].text
    BY <1>5, <1>6, <1>8, <2>1, <2>2 DEF Kept
  <2>4. code[there] # None
    BY <2>1, <2>3, NoneIsNoSave
  <2> QED BY <1>4, <1>8, <2>3, <2>4 DEF CodeOr, there
<1> QED BY <1>7, <1>8 DEF there

\* Loads of a page that opens: those answered stay answered, and nothing is asked twice.
LEMMA OpeningKept ==
  ASSUME LoadsInv, OpeningInv, page.at = "loading", UNCHANGED <<timer, puts, draft>>,
         \A j \in DOMAIN loads' : loads'[j].at = "answered" =>
           \E k \in DOMAIN loads : loads'[j] = loads[k]
  PROVE  OpeningInv'
<1> SUFFICES ASSUME NEW j \in DOMAIN loads', loads'[j].at = "answered"
             PROVE  timer = None /\ puts = << >> /\ loads'[j].now.draft = draft
  BY DEF OpeningInv
<1> QED BY DEF OpeningInv

\* Saves stay in order and none is forgotten; a page that opens after the last one arrived
\* finds them.
LEMMA SwapStep ==
  ASSUME EditorInv, LoadsInv, GhostTypes, ClosedInv, SwapInv, [Next]_vars, ~ghost'.behind
  PROVE  ScreenInv' /\ OpeningInv' /\ LocalInv'
<1> DEFINE Goal == ScreenInv' /\ OpeningInv' /\ LocalInv'
<1>0. /\ clock \in Nat /\ KeptIn(local) /\ KeptIn(draft) /\ DraftsOf(draft) /\ PageOf(page)
      /\ timer \in Save \cup {None} /\ puts \in Seq(Save) /\ page \in Page /\ loads \in Seq(Load)
      /\ DOMAIN ghost = {"stale", "behind", "confirmed"} /\ ghost.behind \in BOOLEAN
  BY DEF EditorInv, DraftsOf, PageOf, LoadsInv, GhostTypes
<1>1. ASSUME ~ghost.behind PROVE ScreenInv /\ OpeningInv /\ LocalInv
  BY <1>1 DEF SwapInv
<1>2. ASSUME UNCHANGED <<timer, puts, draft, local>> PROVE (LocalInv => LocalInv') /\ NewestSave' = NewestSave
  BY <1>2 DEF LocalInv, Unsaved, NewestSave
<1>3. ASSUME ~ghost.behind, UNCHANGED <<timer, puts, draft, local>>, OnScreen' = OnScreen, page'.at = page.at,
             \A j \in DOMAIN loads' : loads'[j].at = "answered" => \E k \in DOMAIN loads : loads'[j] = loads[k]
      PROVE  Goal
  <2>1. OpeningInv'
    <3>1. CASE page.at = "loading"
      BY <1>0, <1>1, <1>3, <3>1, OpeningKept DEF LoadsInv
    <3>2. CASE page.at # "loading"
      BY <1>3, <3>2 DEF OpeningInv
    <3> QED BY <3>1, <3>2
  <2> QED BY <1>1, <1>2, <1>3, <2>1 DEF ScreenInv
<1>4. CASE Aside
  <2>1. ~ghost.behind /\ UNCHANGED <<page, timer, puts, draft, local>>
    BY <1>4 DEF Aside, editor, drafts
  <2>2. \A j \in DOMAIN loads' : loads'[j].at = "answered" => \E k \in DOMAIN loads : loads'[j] = loads[k]
    <3>1. CASE loads' = loads
      BY <3>1
    <3>2. CASE loads' = Append(loads, [at |-> "sent", now |-> None])
      <4>1. \A j \in DOMAIN loads' : (j \in DOMAIN loads /\ loads'[j] = loads[j]) \/ loads'[j].at = "sent"
        BY <1>0, <3>2
      <4> QED BY <4>1
    <3> QED BY <1>4, <3>1, <3>2 DEF Aside
  <2> QED BY <1>3, <2>1, <2>2 DEF OnScreen
<1>5. CASE Open
  <2>1. /\ page'.at = "loading" /\ loads = << >> /\ loads' = Append(loads, [at |-> "sent", now |-> None])
        /\ UNCHANGED <<timer, puts, draft, local>> /\ ~ghost.behind
    BY <1>0, <1>5 DEF Open, AskLoad, ClosedInv, drafts, Page
  <2>2. \A j \in DOMAIN loads' : loads'[j].at = "sent"
    BY <2>1
  <2> QED BY <1>1, <1>2, <2>1, <2>2 DEF ScreenInv, OpeningInv
<1>6. CASE Leave
  <2>1. page'.at = "closed" /\ UNCHANGED <<timer, puts, draft, local>> /\ ~ghost.behind
    BY <1>6 DEF Leave, Closed, ClosedPage, drafts
  <2> QED BY <1>1, <1>2, <2>1 DEF ScreenInv, OpeningInv
<1>7. CASE CloseTab
  <2>1. /\ page'.at = "closed" /\ UNCHANGED <<puts, draft>> /\ timer' = None
        /\ local' \in {local, [l \in Languages |-> None]}
    BY <1>7 DEF CloseTab, Closed, ClosedPage
  <2>2. ~ghost.behind /\ timer = None
    BY <1>0, <1>7 DEF CloseTab, Lose
  <2>3. LocalInv'
    BY <1>1, <2>1, <2>2 DEF LocalInv, Unsaved
  <2> QED BY <2>1, <2>3 DEF ScreenInv, OpeningInv
<1>8. CASE Hide \/ Show
  <2>1. /\ UNCHANGED <<timer, puts, draft, local, loads>> /\ ~ghost.behind
        /\ page'.at = page.at /\ page'.language = page.language /\ page'.source = page.source
    BY <1>0, <1>8 DEF Hide, Show, drafts, Page
  <2> QED BY <1>3, <2>1 DEF OnScreen
<1>9. ASSUME NEW i \in DOMAIN loads, LoadServed(i) PROVE Goal
  <2>1. /\ loads' = [loads EXCEPT ![i] = [at |-> "answered", now |-> Now]]
        /\ UNCHANGED <<page, timer, puts, draft, local>>
        /\ ~ghost.behind /\ (page.at = "loading" => timer = None /\ puts = << >>)
    BY <1>0, <1>9 DEF LoadServed, editor, drafts
  <2>2. \A j \in DOMAIN loads' : j \in DOMAIN loads /\ (loads'[j] = loads[j] \/ loads'[j].now.draft = draft)
    BY <2>1 DEF Now
  <2>3. OpeningInv'
    BY <1>1, <2>1, <2>2 DEF OpeningInv
  <2> QED BY <1>1, <1>2, <2>1, <2>3 DEF ScreenInv, OnScreen
<1>10. ASSUME NEW i \in DOMAIN loads, LoadAnswered(i) PROVE Goal
  <2> DEFINE d == loads[i].now.draft
  <2>1. /\ loads[i].at = "answered" /\ loads' = RemoveAt(loads, i) /\ UNCHANGED <<timer, puts, draft, local>>
        /\ page' = IF page.at = "loading" THEN Opened(d) ELSE page
    BY <1>10 DEF LoadAnswered, drafts
  <2>2. ~ghost.behind
    <3>1. \E b : ghost' = [ghost EXCEPT !.stale = b]
      BY <1>10, Zenon DEF LoadAnswered
    <3> QED BY <1>0, <3>1
  <2>3. CASE page.at = "loading"
    <3>1. timer = None /\ puts = << >> /\ d = draft
      BY <1>1, <2>1, <2>2, <2>3 DEF OpeningInv
    <3>2. page' = Opened(draft)
      BY <2>1, <2>3, <3>1
    <3>3. page'.at = "open"
      BY <1>0, <3>2 DEF Opened, Page
    <3>4. NewestSave' = OnScreen'
      <4>1. NewestSave' = NewestSave
        BY <1>2, <2>1
      <4>2. LET there == LastIn(draft) IN
            NewestSave = [lang |-> there, text |-> IF draft[there] = None THEN Template(there) ELSE draft[there].text]
        BY <3>1 DEF NewestSave
      <4>3. LET there == LastIn(draft) IN
            /\ page'.language = there
            /\ page'.source = IF draft[there] = None THEN Template(there) ELSE draft[there].text
        BY <1>1, <2>2, <3>1, <3>2, OpensOnTheDraft
      <4> QED BY <4>1, <4>2, <4>3 DEF OnScreen
    <3> QED BY <1>1, <1>2, <2>1, <2>2, <3>3, <3>4 DEF ScreenInv, OpeningInv
  <2>4. CASE page.at # "loading"
    <3>1. page' = page
      BY <2>1, <2>4
    <3>2. OpeningInv' /\ ScreenInv'
      BY <1>1, <1>2, <2>1, <2>2, <2>4, <3>1 DEF OpeningInv, ScreenInv, OnScreen
    <3> QED BY <1>1, <1>2, <2>1, <2>2, <3>2
  <2> QED BY <2>3, <2>4
<1>11. ASSUME NEW i \in DOMAIN loads, LoadFails(i) PROVE Goal
  <2>1. page'.at = "error" /\ UNCHANGED <<timer, puts, draft, local>> /\ ~ghost.behind
    BY <1>0, <1>11 DEF LoadFails, drafts, Page
  <2> QED BY <1>1, <1>2, <2>1 DEF ScreenInv, OpeningInv
<1>12. ASSUME NEW text \in Text, text.lang = page.language, Change(text) PROVE Goal
  <2> DEFINE save == [lang |-> page.language, text |-> text]
  <2>1. /\ page'.at = "open" /\ page'.language = page.language /\ page'.source = text
        /\ timer' = save /\ UNCHANGED <<puts, draft>>
        /\ local' = [local EXCEPT ![page.language] = [text |-> text, at |-> clock]]
    BY <1>0, <1>12 DEF Change, Page
  <2>2. ~ghost.behind /\ (timer # None => timer.lang = page.language)
    BY <1>0, <1>12 DEF Change, Lose
  <2>3. save # None
    <3>1. save \in Save
      BY <1>0, <1>12 DEF Save, Page
    <3> QED BY <3>1, NoneIsNoSave
  <2>4. NewestSave' = OnScreen'
    BY <2>1, <2>3 DEF NewestSave, OnScreen
  <2>5. LocalInv'
    <3> SUFFICES ASSUME NEW l \in Languages, local'[l] # None, draft'[l] # None, local'[l].at > draft'[l].at
                 PROVE  Unsaved(l)'
      BY DEF LocalInv
    <3>1. CASE l = page.language
      BY <2>1, <2>3, <3>1 DEF Unsaved
    <3>2. CASE l # page.language
      <4>1. local'[l] = local[l]
        BY <1>0, <2>1, <3>2 DEF KeptIn
      <4>2. \E i \in DOMAIN puts : puts[i].lang = l
        BY <1>1, <2>1, <2>2, <3>2, <4>1 DEF LocalInv, Unsaved
      <4> QED BY <2>1, <4>2 DEF Unsaved
    <3> QED BY <3>1, <3>2
  <2> QED BY <2>1, <2>4, <2>5 DEF ScreenInv, OpeningInv
<1>13. ASSUME Type \/ Reset PROVE Goal
  <2>1. /\ page.language \in Languages
        /\ [lang |-> page.language, n |-> clock] \in Text /\ Template(page.language) \in Text
        /\ Template(page.language).lang = page.language
    BY <1>0 DEF Page, Text, Template
  <2>2. CASE Type
    BY <1>12, <2>1, <2>2 DEF Type
  <2>3. CASE Reset
    BY <1>12, <2>1, <2>3 DEF Reset
  <2> QED BY <1>13, <2>2, <2>3
<1>14. ASSUME NEW x \in Save, puts' = Append(puts, x)
       PROVE  /\ puts' # << >> /\ Last(puts') = x
              /\ \A l : (\E i \in DOMAIN puts : puts[i].lang = l) \/ x.lang = l => \E i \in DOMAIN puts' : puts'[i].lang = l
  <2>1. /\ Len(puts') = Len(puts) + 1 /\ DOMAIN puts' = 1..(Len(puts) + 1) /\ puts'[Len(puts) + 1] = x
        /\ \A i \in DOMAIN puts : i \in DOMAIN puts' /\ puts'[i] = puts[i]
    BY <1>0, <1>14
  <2> QED BY <1>0, <2>1 DEF Last
<1>15. ASSUME NEW l \in Languages, Switch(l) PROVE Goal
  <2> DEFINE next == CodeOr([page.code EXCEPT ![page.language] = page.source], l)
             x == [lang |-> l, text |-> next]
  <2>1. /\ page'.at = "open" /\ page'.language = l /\ page'.source = next
        /\ puts' = Append(puts, x) /\ UNCHANGED <<timer, draft, local>>
    BY <1>0, <1>15 DEF Switch, SwitchPut, drafts, Page
  <2>2. ~ghost.behind /\ timer = None
    BY <1>0, <1>15 DEF Switch, Lose
  <2>3. x \in Save
    <3> DEFINE code == [page.code EXCEPT ![page.language] = page.source]
    <3>1. code \in [Languages -> {None} \cup Text] /\ \A m \in Languages : code[m] # None => code[m].lang = m
      BY <1>0 DEF PageOf, Page
    <3> HIDE DEF code
    <3>2. CodeOr(code, l) \in Text /\ CodeOr(code, l).lang = l
      BY <3>1, CodeOfLanguage
    <3> QED BY <3>2 DEF Save, code
  <2> HIDE DEF x
  <2>4. NewestSave' = x
    BY <1>14, <2>1, <2>2, <2>3 DEF NewestSave
  <2>5. LocalInv'
    BY <1>1, <1>14, <2>1, <2>2, <2>3 DEF LocalInv, Unsaved
  <2> QED BY <2>1, <2>4, <2>5 DEF ScreenInv, OpeningInv, OnScreen, x
<1>16. ASSUME DraftTimer PROVE Goal
  <2>1. /\ timer \in Save /\ timer # None /\ puts' = Append(puts, timer) /\ timer' = None
        /\ UNCHANGED <<page, draft, local, loads>> /\ ~ghost.behind
    BY <1>0, <1>16 DEF DraftTimer, DraftToSave, drafts, following
  <2>2. NewestSave = timer /\ NewestSave' = timer
    BY <1>14, <2>1 DEF NewestSave
  <2>3. LocalInv'
    BY <1>1, <1>14, <2>1 DEF LocalInv, Unsaved
  <2>4. OpeningInv'
    BY <1>1, <2>1 DEF OpeningInv
  <2> QED BY <1>1, <2>1, <2>2, <2>3, <2>4 DEF ScreenInv, OnScreen
<1>17. ASSUME NEW i \in DOMAIN puts, PutArrives(i) PROVE Goal
  <2> DEFINE s == puts[i]
  <2>1. /\ draft' = [draft EXCEPT ![s.lang] = [text |-> s.text, at |-> clock]]
        /\ puts' = RemoveAt(puts, i) /\ UNCHANGED <<page, timer, local, loads>>
    BY <1>17 DEF PutArrives, following
  <2>2. ~ghost.behind /\ ~(i > 1)
    BY <1>0, <1>17 DEF PutArrives, Lose
  <2>3. i = 1 /\ Len(puts) \in Nat /\ Len(puts) > 0 /\ s \in Save
    BY <1>0, <2>2, ElementOfSeq
  <2>4. /\ puts' \in Seq(Save) /\ Len(puts') = Len(puts) - 1 /\ DOMAIN puts' = 1..(Len(puts) - 1)
        /\ \A j \in 1..(Len(puts) - 1) : puts'[j] = puts[j + 1]
    <3>1. /\ puts' \in Seq(Save) /\ Len(puts') = Len(puts) - 1
          /\ \A j \in 1..(Len(puts) - 1) : puts'[j] = IF j < i THEN puts[j] ELSE puts[j + 1]
      BY <1>0, <2>1, RemoveAtSeq
    <3> QED BY <2>3, <3>1
  <2> HIDE DEF s
  <2>5. /\ draft'[s.lang] # None /\ draft'[s.lang].text = s.text /\ LastIn(draft') = s.lang
    <3> DEFINE saved == [draft EXCEPT ![s.lang] = [text |-> s.text, at |-> clock]]
    <3>1. saved[s.lang] # None /\ saved[s.lang].text = s.text /\ LastIn(saved) = s.lang
      BY <1>0, <2>3, SavedNow
    <3>2. draft' = saved
      BY <2>1
    <3> HIDE DEF saved
    <3> QED BY <3>1, <3>2
  <2>6. NewestSave' = NewestSave
    <3>1. CASE timer # None
      BY <2>1, <3>1 DEF NewestSave
    <3>2. CASE timer = None /\ Len(puts) > 1
      <4>1. puts' # << >> /\ puts # << >> /\ Last(puts') = Last(puts)
        BY <2>3, <2>4, <3>2 DEF Last
      <4> QED BY <2>1, <3>2, <4>1 DEF NewestSave
    <3>3. CASE timer = None /\ Len(puts) = 1
      <4>1. puts' = << >> /\ puts # << >> /\ Last(puts) = s
        BY <2>3, <2>4, <3>3 DEF Last, s
      <4>2. NewestSave' = [lang |-> s.lang, text |-> s.text]
        BY <2>1, <2>5, <3>3, <4>1 DEF NewestSave
      <4>3. s = [lang |-> s.lang, text |-> s.text]
        BY <2>3 DEF Save
      <4> QED BY <2>1, <3>3, <4>1, <4>2, <4>3 DEF NewestSave
    <3>4. Len(puts) > 1 \/ Len(puts) = 1
      BY <2>3
    <3> QED BY <3>1, <3>2, <3>3, <3>4
  <2>7. LocalInv'
    <3> SUFFICES ASSUME NEW l \in Languages, local'[l] # None, draft'[l] # None, local'[l].at > draft'[l].at
                 PROVE  Unsaved(l)'
      BY DEF LocalInv
    <3>1. local[l] # None /\ local[l].at < clock /\ local[l].at \in Nat
      BY <1>0, <2>1 DEF KeptIn
    <3>2. l # s.lang
      <4>1. s.lang \in Languages
        BY <2>3 DEF Save
      <4>2. draft'[s.lang] = [text |-> s.text, at |-> clock]
        BY <1>0, <2>1, <4>1 DEF KeptIn
      <4> QED BY <1>0, <2>1, <3>1, <4>2
    <3>3. draft'[l] = draft[l]
      BY <1>0, <2>1, <3>2 DEF KeptIn
    <3>4. Unsaved(l)
      BY <1>1, <2>1, <2>2, <3>3 DEF LocalInv
    <3>5. ASSUME NEW j \in DOMAIN puts, puts[j].lang = l PROVE \E k \in DOMAIN puts' : puts'[k].lang = l
      <4>1. j # 1 /\ j \in 1..Len(puts)
        BY <1>0, <2>3, <3>2, <3>5 DEF s
      <4>2. j - 1 \in DOMAIN puts' /\ puts'[j - 1] = puts[j]
        BY <2>3, <2>4, <4>1
      <4> QED BY <3>5, <4>2
    <3> QED BY <2>1, <3>4, <3>5 DEF Unsaved
  <2>8. OpeningInv'
    <3>1. puts # << >>
      BY <2>3
    <3> QED BY <1>1, <2>1, <2>2, <3>1 DEF OpeningInv
  <2> QED BY <1>1, <2>1, <2>2, <2>6, <2>7, <2>8 DEF ScreenInv, OnScreen
<1>18. ASSUME NEW i \in DOMAIN puts, PutLost(i) PROVE FALSE
  BY <1>0, <1>18 DEF PutLost, Lose
<1> QED
  BY <1>4, <1>5, <1>6, <1>7, <1>8, <1>9, <1>10, <1>11, <1>13, <1>15, <1>16, <1>17, <1>18, PageSteps, Zenon

-----------------------------------------------------------------------------
(* What always holds.                                                       *)

LEMMA WorkspaceStarts ==
  ASSUME Init
  PROVE  WorkspaceInv
<1>1. SubmissionInv /\ cooling \in BOOLEAN
  <2>1. submission = << >> /\ cooling = FALSE
    BY DEF Init
  <2>2. submission \in Seq(SubmissionRow) /\ DOMAIN submission = {}
    BY <2>1
  <2> QED BY <2>1, <2>2 DEF SubmissionInv, Unjudged
<1>2. RunTypes /\ OneRunInv
  <2>1. run = << >> /\ job = << >> /\ starting = None /\ collected = {}
    BY DEF Init
  <2> QED BY <2>1 DEF RunTypes, OneRunInv, Live
<1>3. HintInv
  <2>1. /\ hint = [bought |-> 0, paid |-> 0] /\ buying = << >>
        /\ ghost = [stale |-> FALSE, behind |-> FALSE, confirmed |-> {}]
    BY DEF Init
  <2> QED BY <2>1 DEF HintInv, HintsAsConfirmed, GhostTypes
<1>4. EditorInv
  <2>1. /\ draft = [l \in Languages |-> None] /\ local = [l \in Languages |-> None] /\ clock = 1
        /\ page = ClosedPage /\ timer = None /\ puts = << >>
    BY DEF Init
  <2>2. KeptIn(draft) /\ PageOf(page)
    BY <2>1, NothingKept
  <2>3. Saved(draft) = {}
    BY <2>1 DEF Saved
  <2>4. puts \in Seq(Save)
    BY <2>1
  <2> QED BY <2>1, <2>2, <2>3, <2>4 DEF EditorInv, DraftsOf, PageOf
<1>5. LoadsInv /\ ClosedInv
  <2>1. loads = << >> /\ event = << >> /\ buying = << >> /\ posting = "none" /\ follow.judgement = NoFollow
    BY DEF Init
  <2>2. loads \in Seq(Load)
    BY <2>1
  <2> QED BY <2>1, <2>2 DEF LoadsInv, ClosedInv, NoFollow
<1>6. FollowInv
  <2>1. follow = [judgement |-> NoFollow, run |-> NoFollow]
    BY DEF Init
  <2>2. IsFollow(NoFollow) /\ NoFollow.url = 0
    BY DEF NoFollow, IsFollow
  <2>3. \A k \in Followings : 0 \in 0..FollowedRows(k)
    BY <1>1, <1>2 DEF FollowedRows, SubmissionInv, RunTypes
  <2> QED BY <2>1, <2>2, <2>3 DEF FollowInv, Followings
<1>7. SwapInv
  <2>1. page.at = "closed" /\ \A l \in Languages : local[l] = None
    BY DEF Init, ClosedPage
  <2> QED BY <2>1 DEF SwapInv, ScreenInv, OpeningInv, LocalInv
<1> QED BY <1>1, <1>2, <1>3, <1>4, <1>5, <1>6, <1>7 DEF WorkspaceInv

LEMMA WorkspaceStep ==
  ASSUME WorkspaceInv, [Next]_vars
  PROVE  WorkspaceInv'
<1>0. /\ SubmissionInv /\ cooling \in BOOLEAN /\ HintInv /\ GhostTypes
      /\ RunTypes /\ (Punctual => OneRunInv)
      /\ EditorInv /\ LoadsInv /\ FollowInv /\ ClosedInv /\ SwapInv
  BY DEF WorkspaceInv, HintInv
<1>1. SubmissionInv' /\ cooling' \in BOOLEAN
  BY <1>0, SubmissionStep, CoolingStep
<1>2. HintInv'
  BY <1>0, HintStep
<1>3. RunTypes' /\ (Punctual => OneRunInv')
  BY <1>0, RunTypesStep, OneRunStep
<1>4. EditorInv' /\ LoadsInv'
  BY <1>0, EditorStep, LoadsStep
<1>5. FollowInv' /\ ClosedInv'
  BY <1>0, FollowStep, ClosedStep
<1>6. SwapInv'
  BY <1>0, SwapStep DEF SwapInv
<1> QED BY <1>1, <1>2, <1>3, <1>4, <1>5, <1>6 DEF WorkspaceInv, Punctual

\* The editor, the drafts, the follow-ups and the runs hold what they may, and two languages
\* never mix, in every state of every behaviour.
THEOREM WorkspaceCorrect == Spec => []WorkspaceInv
<1>1. Init => WorkspaceInv
  BY WorkspaceStarts
<1>2. WorkspaceInv /\ [Next]_vars => WorkspaceInv'
  BY WorkspaceStep
<1> QED BY <1>1, <1>2, PTL DEF Spec

\* A set whose elements are all equal has one at most.
LEMMA AtMostOne ==
  ASSUME NEW S, \A i, j \in S : i = j
  PROVE  Cardinality(S) <= 1
<1>1. CASE S = {}
  BY <1>1, FS_EmptySet
<1>2. CASE S # {}
  <2>1. PICK x \in S : S = {x}
    BY <1>2
  <2> QED BY <2>1, FS_Singleton
<1> QED BY <1>1, <1>2

\* The button and the engine see the same submissions: the last one is judged, and only an
\* older one under a rejudge can keep the engine from taking the next.
LEMMA ButtonHolds ==
  ASSUME SubmissionInv
  PROVE  ButtonIsTruthful
<1> SUFFICES ASSUME page.at = "open", posting = "none", view.history = submission, view.cooling = cooling,
                    follow.judgement.value \in {None, Newest(submission)}
             PROVE  /\ Takes => CanSubmit
                    /\ CanSubmit => Takes \/ \E i \in Unjudged : i < Len(submission)
  BY DEF ButtonIsTruthful
<1>0. DOMAIN submission = 1..Len(submission) /\ Len(submission) \in Nat /\ (submission # << >> => Len(submission) > 0)
  BY DEF SubmissionInv
<1>1. Following = IF submission # << >> /\ submission[Len(submission)].state # "done" THEN Len(submission) ELSE 0
  BY DEF Following, Unended, Last
<1>2. Following # 0 => InFlight
  <2> SUFFICES ASSUME Following # 0 PROVE Stage(follow.judgement.value) # "done"
    BY DEF InFlight
  <2>1. submission # << >> /\ submission[Len(submission)].state # "done"
    BY <1>1
  <2>2. Newest(submission) = submission[Len(submission)]
    BY <2>1 DEF Newest, Last
  <2> QED BY <2>1, <2>2 DEF Stage
<1>3. Takes => CanSubmit
  <2> SUFFICES ASSUME Unjudged = {}, ~cooling PROVE CanSubmit
    BY DEF Takes
  <2>1. Following = 0
    BY <1>0, <1>1 DEF Unjudged
  <2> QED BY <2>1 DEF CanSubmit, InFlight
<1>4. ASSUME CanSubmit, ~Takes PROVE \E i \in Unjudged : i < Len(submission)
  <2>1. Following = 0 /\ ~cooling
    BY <1>2, <1>4 DEF CanSubmit
  <2>2. PICK i \in Unjudged : TRUE
    BY <1>4, <2>1 DEF Takes
  <2>3. i \in 1..Len(submission) /\ submission[i].state # "done"
    BY <1>0, <2>2 DEF Unjudged
  <2>4. i # Len(submission)
    <3>1. submission # << >> /\ Len(submission) # 0
      BY <1>0, <2>3
    <3> QED BY <1>1, <2>1, <2>3, <3>1
  <2> QED BY <1>0, <2>2, <2>3, <2>4
<1> QED BY <1>3, <1>4

\* What is pressed does what the page said it would: submissions and practice runs go one at
\* a time, the button is there when it works, and a hint costs what was confirmed; given that
\* no call to the judge outlives UNSENT_AFTER and that the scheduler collects one tick at a
\* time.
THEOREM PressedAsMeant ==
  ASSUME Punctual
  PROVE  Spec => []PressedInGoodFaith
<1>1. ASSUME WorkspaceInv PROVE PressedInGoodFaith
  <2>0. /\ SubmissionInv /\ HintInv /\ RunTypes /\ OneRunInv /\ EditorInv /\ FollowInv
    BY <1>1 DEF WorkspaceInv
  <2>1. TypeOK
    <3>1. /\ page.at \in {"closed", "loading", "open", "error"} /\ page.source.lang = page.language
          /\ \A l \in Languages :
               /\ draft[l] # None => draft[l].text.lang = l
               /\ local[l] # None => local[l].text.lang = l
               /\ page.code[l] # None => page.code[l].lang = l
      BY <2>0 DEF EditorInv, DraftsOf, KeptIn, Page
    <3>2. \A k \in Followings :
            /\ follow[k].flight \in {"none", "sent", "answered", "aborted"}
            /\ follow[k].url \in 0..Len(IF k = "judgement" THEN submission ELSE run)
      BY <2>0 DEF FollowInv, IsFollow, FollowedRows
    <3>3. \A i \in DOMAIN run : run[i].state \in {"pending", "queued", "running", "done"}
      <4>1. \A i \in DOMAIN run : run[i] \in RunRow
        BY <2>0, ElementOfSeq DEF RunTypes
      <4> QED BY <4>1 DEF RunRow
    <3> QED BY <3>1, <3>2, <3>3 DEF TypeOK
  <2>2. OneAtATime
    <3>1. Cardinality(Live) <= 1
      BY <2>0, AtMostOne DEF OneRunInv
    <3>2. Rejudged \/ Cardinality(Unjudged) <= 1
      BY <2>0, AtMostOne DEF SubmissionInv
    <3> QED BY <3>1, <3>2 DEF OneAtATime, Rejudged
  <2>3. ButtonIsTruthful /\ HintsAsConfirmed
    BY <2>0, ButtonHolds DEF HintInv
  <2> QED BY <2>1, <2>2, <2>3 DEF PressedInGoodFaith
<1> QED BY <1>1, WorkspaceCorrect, PTL

\* With no save on its way, another machine opens in the language left selected, on the code
\* left on screen, whatever was typed, switched, saved, lost before or opened elsewhere,
\* unless a save was lost, overtook another, or waited during a switch.
THEOREM AnotherMachineFindsTheCode == Spec => []SwapFindsTheCode
<1>1. ASSUME WorkspaceInv PROVE SwapFindsTheCode
  <2> SUFFICES ASSUME page.at = "open", timer = None, puts = << >>, ~ghost.behind
               PROVE  LET there == LastIn(draft) IN
                      /\ page.language = there
                      /\ page.source = IF draft[there] = None THEN Template(there) ELSE draft[there].text
    BY DEF SwapFindsTheCode
  <2>1. NewestSave = OnScreen
    BY <1>1 DEF WorkspaceInv, SwapInv, ScreenInv
  <2> QED BY <2>1 DEF NewestSave, OnScreen
<1> QED BY <1>1, WorkspaceCorrect, PTL

\* A practice run that has finished is never written again, given the same.
THEOREM FinishedForGood ==
  ASSUME Punctual
  PROVE  Spec => FinishedRunStands
<1>1. WorkspaceInv /\ [Next]_vars => [\A i \in DOMAIN run : run[i].state = "done" => run'[i] = run[i]]_vars
  BY OneRunStep DEF WorkspaceInv
<1> QED BY <1>1, WorkspaceCorrect, PTL DEF Spec, FinishedRunStands

\* A solved question stays solved, whatever is submitted, cancelled or judged after it.
THEOREM SolvedForGood == Spec => SolvedStays
<1>1. WorkspaceInv /\ [Next]_vars => [NothingLeft => NothingLeft' \/ Rejudge]_vars
  BY SolvedStep DEF WorkspaceInv
<1> QED BY <1>1, WorkspaceCorrect, PTL DEF Spec, SolvedStays
=============================================================================
