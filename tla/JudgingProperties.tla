-------------------------- MODULE JudgingProperties ---------------------------
(***************************************************************************)
(* What must be true of submissions and their verdicts.                    *)
(***************************************************************************)
EXTENDS Judging

Row == [by : Participants \cup {Nobody}, question : Questions \cup {Nobody},
        sub : Rows \cup {NoRow}, state : RowStates, job : Jobs \cup {NoJob},
        verdict : Outcomes \cup {Undecided, "refused", "cancelled"},
        cancelled : BOOLEAN, superseded : BOOLEAN]
JobRow == [state : JobStates, of : Rows \cup {NoRow}, result : Outcomes \cup {Undecided}, cancelled : BOOLEAN]

SendState == [at : {"idle", "claimed", "sent", "refused"},
              row : Rows \cup {NoRow}, job : Jobs \cup {NoJob}]
PollState == [row : Rows \cup {NoRow}, job : Jobs \cup {NoJob}, seen : RowStates,
              answer : JobStates \cup Outcomes \cup {Undecided}]
RequestState == [at : {"idle", "submitting", "cancelling", "stopping"},
                 who : Participants \cup {Nobody}, question : Questions \cup {Nobody},
                 rows : SUBSET Rows, jobs : SUBSET Jobs]
RejudgeState == [at : {"idle", "read", "stopping"}, rows : SUBSET Rows, jobs : SUBSET Jobs]

\* Every row, job and thread holds values of its columns' types.
TypeOK ==
  /\ judgement \in [Rows -> Row] /\ last \in 0..MaxRows
  /\ job \in [Jobs -> JobRow] /\ issued \in 0..MaxJobs
  /\ send \in [Senders -> SendState]
  /\ poll \in [Pollers -> PollState]
  /\ request \in [Requests -> RequestState]
  /\ rejudge \in [Organisers -> RejudgeState]
  /\ faults \in Nat

Submissions == {judgement[j].sub : j \in Rows} \ {NoRow}

\* Every submission has one current judgement, never none and never two, however
\* rejudges, cancels and results overlap.
OneCurrentJudgement ==
  \A s \in Submissions : \E j \in Rows : CurrentRows({s}) = {j}

\* A participant never has two submissions of their own making in flight, from
\* however many windows they submit; only a rejudge puts more there.
OneSubmissionInFlight ==
  \A i, j \in Rows :
    /\ InFlight(i) /\ InFlight(j) /\ judgement[i].by = judgement[j].by
    /\ judgement[i].sub = i /\ judgement[j].sub = j
    => i = j

\* A judgement that is done is never decided again: a late result, a cancel and a
\* refusal all leave it as it is.
VerdictIsFinal ==
  [][\A j \in Rows : judgement[j].state = "done" =>
       judgement'[j] = [judgement[j] EXCEPT !.superseded = judgement'[j].superseded]]_vars

\* What lands on a row is what the job it waits for reported: "a verdict is written
\* only if the row is still in flight and still waiting on that job id"
\* (engine/README.md:161).
ResultOfTheJobWaitedFor ==
  [][\A j \in Rows :
       /\ judgement[j].state # "done" /\ judgement'[j].state = "done"
       /\ ~judgement'[j].cancelled
       /\ judgement[j].job # NoJob
       => judgement'[j].verdict = job[judgement[j].job].result]_vars

\* A job stopped on request never gives a verdict: whoever stops a job has first
\* made its row stop waiting for it.
StoppedJobsDoNotCount == \A j \in Rows : judgement[j].verdict # "stopped"

\* "Each judgement goes to the judge exactly once" (engine/README.md:160): the judge
\* never has two jobs of one row to run, although many senders look for work at once
\* and a row whose job was forgotten is sent again.
SentOnce ==
  \A j \in Rows : Cardinality({k \in Jobs : job[k].of = j /\ job[k].state \in {"queued", "running"}}) <= 1

\* Every judgement is decided or superseded in the end, through failures of the
\* judge, lost answers and crashes, whatever waits for whose lock.
EveryJudgementEnds ==
  \A j \in Rows : InFlight(j) ~> ~InFlight(j)

\* However sends, cancels and rejudges overlap, each submission has one current judgement
\* and each participant one submission of their own making in flight.
JudgingInv == TypeOK /\ OneCurrentJudgement /\ OneSubmissionInFlight
=============================================================================
