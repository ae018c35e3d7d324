------------------------------- MODULE Judging --------------------------------
(***************************************************************************)
(* From a submission to its verdict: engine/engine/coding/submissions,     *)
(* judging and rejudge, and the judge's jobs as the engine sees them.      *)
(*                                                                         *)
(* A judgement row is sent to the judge by one of many senders, polled by  *)
(* the scheduler, cancelled by its author and superseded by a rejudge.     *)
(* Each action is one transaction, or the part of one between two points   *)
(* where others can be seen to act; HTTP calls are actions of their own.   *)
(* The author's participant row and a claimed judgement row are locked     *)
(* across several actions.  The cooldown, which only delays a submit, and  *)
(* what the auction and the contest's phase have to say about submitting   *)
(* are left out.                                                           *)
(***************************************************************************)
EXTENDS Integers, FiniteSets, Functions

CONSTANTS
  Participants, Questions,
  Senders,          \* threads that call send_one
  Pollers,          \* threads that call poll_in_flight: two when a scheduler's lock was lost
  Requests,         \* threads serving a participant's submit or cancel
  Organisers,       \* threads serving a rejudge
  Verdicts,         \* what the sandbox can say of a program
  Nobody, Undecided,
  \* Bounds of an instance, not of the program.
  MaxRows, MaxJobs,
  Faults, MaxFaults \* which failures happen, and how many

Rows == 1..MaxRows
Jobs == 1..MaxJobs
NoRow == 0
NoJob == 0
RowStates == {"none", "pending", "queued", "running", "done"}
JobStates == {"none", "queued", "running", "done", "gone"}
Outcomes == Verdicts \cup {"stopped"}   \* "stopped": the task's cancelled() result

ASSUME JudgingAssumption ==
  /\ Nobody \notin Participants
  /\ Undecided \notin Verdicts \cup JobStates \cup {"stopped", "refused", "cancelled"}
  /\ Verdicts \cap (JobStates \cup {"stopped", "refused", "cancelled"}) = {}
  /\ IsFiniteSet(Requests)
  /\ {MaxRows, MaxJobs, MaxFaults} \subseteq Nat

VARIABLES
  judgement,    \* judgement rows with their submission's author and question
  last,         \* the highest judgement id given out
  job,          \* the judge's jobs, in memory
  issued,       \* how many job ids the judge has given out
  send, poll, request, rejudge,   \* what each thread is in the middle of
  faults        \* failures so far (bound only)

rows == <<judgement, last>>
judge == <<job, issued>>
threads == <<send, poll, request, rejudge>>
vars == <<rows, judge, threads, faults>>

Fault(kind) == kind \in Faults /\ faults < MaxFaults /\ faults' = faults + 1

-----------------------------------------------------------------------------
(* Rows.  A submission is known by the id of its first judgement.           *)

Blank == [by |-> Nobody, question |-> Nobody, sub |-> NoRow, state |-> "none",
          job |-> NoJob, verdict |-> Undecided, cancelled |-> FALSE, superseded |-> FALSE]
Pending(p, q, s) ==
  [Blank EXCEPT !.by = p, !.question = q, !.sub = s, !.state = "pending"]

\* Bound: rows left beside those that submits in progress will insert.
RoomFor(n) == last + Cardinality({t \in Requests : request[t].at = "submitting"}) + n <= MaxRows

InFlight(j) == judgement[j].state \in {"pending", "queued", "running"} /\ ~judgement[j].superseded
Current(j) == judgement[j].state # "none" /\ ~judgement[j].superseded
OnTheJudge(j, k) == judgement[j].job = k /\ judgement[j].state \in {"queued", "running"}

(* Locks.                                                                   *)

Claimed(j) == \E w \in Senders : send[w].row = j /\ send[w].at \in {"claimed", "sent"}

Locked(p) ==
  \E t \in Requests : request[t].who = p /\ request[t].at \in {"submitting", "cancelling"}

(* Threads.                                                                 *)

NoSend == [at |-> "idle", row |-> NoRow, job |-> NoJob]
NoPoll == [row |-> NoRow, job |-> NoJob, seen |-> "none", answer |-> "none"]
NoRequest == [at |-> "idle", who |-> Nobody, question |-> Nobody, rows |-> {}, jobs |-> {}]
NoRejudge == [at |-> "idle", rows |-> {}, jobs |-> {}]

\* cancel and rejudge tell the judge after they have committed.
StopJobs(ks) ==
  job' = [k \in Jobs |-> IF k \in ks THEN [job[k] EXCEPT !.cancelled = TRUE] ELSE job[k]]

-----------------------------------------------------------------------------
(* A participant submits or cancels.                                        *)

NothingInFlight(p) == \A j \in Rows : InFlight(j) => judgement[j].by # p

\* submit, up to its insert.
SubmitCheck(t, p, q) ==
  /\ request[t].at = "idle"
  /\ ~Locked(p)
  /\ NothingInFlight(p)
  /\ RoomFor(1)
  /\ request' = [request EXCEPT ![t] = [NoRequest EXCEPT !.at = "submitting", !.who = p,
                                                         !.question = q]]
  /\ UNCHANGED <<rows, judge, send, poll, rejudge, faults>>

SubmitInsert(t) ==
  LET j == last + 1
      r == request[t]
  IN /\ r.at = "submitting"
     /\ j \in Rows
     /\ judgement' = [judgement EXCEPT ![j] = Pending(r.who, r.question, j)]
     /\ last' = j
     /\ request' = [request EXCEPT ![t] = NoRequest]
     /\ UNCHANGED <<judge, send, poll, rejudge, faults>>

\* cancel_in_flight reads what is in flight, and which jobs, once.
CancelRead(t, p) ==
  LET mine == {j \in Rows : InFlight(j) /\ judgement[j].by = p}
  IN /\ request[t].at = "idle"
     /\ ~Locked(p)
     /\ mine # {}
     /\ request' = [request EXCEPT ![t] =
                      [NoRequest EXCEPT !.at = "cancelling", !.who = p, !.rows = mine,
                                        !.jobs = {judgement[j].job : j \in mine} \ {NoJob}]]
     /\ UNCHANGED <<rows, judge, send, poll, rejudge, faults>>

\* The rows read are written by id alone; a claimed one is waited for.
CancelWrite(t) ==
  LET r == request[t]
  IN /\ r.at = "cancelling"
     /\ \A j \in r.rows : ~Claimed(j)
     /\ judgement' = [j \in Rows |->
                        IF j \in r.rows
                        THEN [judgement[j] EXCEPT !.state = "done", !.cancelled = TRUE,
                                                  !.verdict = "cancelled"]
                        ELSE judgement[j]]
     /\ request' = [request EXCEPT ![t].at = "stopping"]
     /\ UNCHANGED <<last, judge, send, poll, rejudge, faults>>

CancelStop(t) ==
  /\ request[t].at = "stopping"
  /\ StopJobs(request[t].jobs)
  /\ request' = [request EXCEPT ![t] = NoRequest]
  /\ UNCHANGED <<rows, issued, send, poll, rejudge, faults>>

-----------------------------------------------------------------------------
(* Sending: one pending row is claimed, the judge is asked while the claim  *)
(* is held, and its answer is written.                                      *)

\* Mutant: the row is not locked while it is sent.
ClaimableByAnyone == {j \in Rows : judgement[j].state = "pending" /\ ~judgement[j].superseded}

Claimable == {j \in Rows : judgement[j].state = "pending" /\ ~judgement[j].superseded /\ ~Claimed(j)}
Oldest(js) == {j \in js : \A i \in js : j <= i}

Claim(w) ==
  /\ send[w].at = "idle"
  /\ \E j \in Oldest(Claimable) : send' = [send EXCEPT ![w] = [NoSend EXCEPT !.at = "claimed", !.row = j]]
  /\ UNCHANGED <<rows, judge, poll, request, rejudge, faults>>

\* The judge takes the work and gives it a fresh id.
NewJob(k, j) ==
  /\ k = issued + 1 /\ k \in Jobs
  /\ issued' = k
  /\ job' = [job EXCEPT ![k] = [state |-> "queued", of |-> j, result |-> Undecided, cancelled |-> FALSE]]

JudgeAccepts(w) ==
  /\ send[w].at = "claimed"
  /\ \E k \in Jobs : NewJob(k, send[w].row) /\ send' = [send EXCEPT ![w] = [send[w] EXCEPT !.at = "sent", !.job = k]]
  /\ UNCHANGED <<rows, poll, request, rejudge, faults>>

RecordJob(w) ==
  LET s == send[w]
  IN /\ s.at = "sent"
     /\ judgement' = [judgement EXCEPT ![s.row] = [judgement[s.row] EXCEPT !.state = "queued", !.job = s.job]]
     /\ send' = [send EXCEPT ![w] = NoSend]
     /\ UNCHANGED <<last, judge, poll, request, rejudge, faults>>

\* Unreachable, 429 or 503, or the answer is lost after the judge took the work.
SendFails(w) ==
  /\ send[w].at = "claimed"
  /\ \/ Fault("busy") /\ UNCHANGED judge
     \/ Fault("lost_reply") /\ \E k \in Jobs : NewJob(k, send[w].row)
  /\ send' = [send EXCEPT ![w] = NoSend]
  /\ UNCHANGED <<rows, poll, request, rejudge>>

\* 400 or 404.  The claim is released before the refusal is written.
JudgeRejects(w) ==
  /\ send[w].at = "claimed"
  /\ Fault("reject")
  /\ send' = [send EXCEPT ![w].at = "refused"]
  /\ UNCHANGED <<rows, judge, poll, request, rejudge>>

\* Mutant: a row that is done can be written again.
WaitingOrDone(j) == ~judgement[j].superseded

Waiting(j) == judgement[j].state # "done" /\ ~judgement[j].superseded

\* _write_result: the participant is locked first, and the row must still wait.
WriteResult(j, waiting, verdict) ==
  /\ ~Locked(judgement[j].by)
  /\ \/ /\ waiting
        /\ ~Claimed(j)
        /\ judgement' = [judgement EXCEPT ![j] = [judgement[j] EXCEPT !.state = "done", !.verdict = verdict]]
     \/ /\ ~waiting
        /\ UNCHANGED judgement

\* The refusal names no job, so the row's job is not compared.
WriteRefusal(w) ==
  /\ send[w].at = "refused"
  /\ WriteResult(send[w].row, Waiting(send[w].row), "refused")
  /\ send' = [send EXCEPT ![w] = NoSend]
  /\ UNCHANGED <<last, judge, poll, request, rejudge, faults>>

-----------------------------------------------------------------------------
(* Polling.                                                                 *)

Answer(k) == IF job[k].state = "done" THEN job[k].result ELSE job[k].state

\* One row of those found in flight...
PollRead(w, j) ==
  /\ poll[w] = NoPoll
  /\ judgement[j].state \in {"queued", "running"} /\ ~judgement[j].superseded
  /\ judgement[j].job # NoJob
  /\ poll' = [poll EXCEPT ![w] = [row |-> j, job |-> judgement[j].job,
                                   seen |-> judgement[j].state, answer |-> "none"]]
  /\ UNCHANGED <<rows, judge, send, request, rejudge, faults>>

\* ...and the judge's answer about its job.
PollAsk(w) ==
  /\ poll[w] # NoPoll /\ poll[w].answer = "none"
  /\ poll' = [poll EXCEPT ![w].answer = Answer(poll[w].job)]
  /\ UNCHANGED <<rows, judge, send, request, rejudge, faults>>

\* Mutant: a forgotten job is left alone.
ResubmitNothing(j, k) == UNCHANGED judgement

\* The job expired or the judge restarted.
Resubmit(j, k) ==
  judgement' = IF OnTheJudge(j, k)
               THEN [judgement EXCEPT ![j] = [judgement[j] EXCEPT !.state = "pending", !.job = NoJob]]
               ELSE judgement

WriteProgress(j, k, seen, reported) ==
  judgement' = IF seen # reported /\ OnTheJudge(j, k)
               THEN [judgement EXCEPT ![j].state = reported] ELSE judgement

\* Mutant: the row need not wait for this very job.
StillWaitingForAnything(j, k) == Waiting(j)

\* Mutant: only the job is compared.
StillOnTheJob(j, k) == judgement[j].job = k

StillWaiting(j, k) == Waiting(j) /\ judgement[j].job = k

PollWrite(w) ==
  LET asked == poll[w]
      j == asked.row
      k == asked.job
  IN /\ asked.answer # "none"
     /\ \/ asked.answer = "gone" /\ Resubmit(j, k)
        \/ asked.answer \in {"queued", "running"} /\ WriteProgress(j, k, asked.seen, asked.answer)
        \/ /\ asked.answer \notin {"gone", "queued", "running"}
           /\ WriteResult(j, StillWaiting(j, k), asked.answer)
     /\ poll' = [poll EXCEPT ![w] = NoPoll]
     /\ UNCHANGED <<last, judge, send, request, rejudge, faults>>

-----------------------------------------------------------------------------
(* Rejudging every submission of a question.                                *)

CurrentRows(subs) == {j \in Rows : Current(j) /\ judgement[j].sub \in subs}

RejudgeRead(o, q) ==
  LET found == {j \in Rows : Current(j) /\ judgement[j].question = q}
  IN /\ rejudge[o].at = "idle"
     /\ found # {}
     /\ rejudge' = [rejudge EXCEPT ![o] = [NoRejudge EXCEPT !.at = "read", !.rows = found]]
     /\ UNCHANGED <<rows, judge, send, poll, request, faults>>

\* Mutant: what was current when the submissions were listed is superseded.
SupersedeWhatWasRead(seen, subs) == seen

\* Each submission's current row, read again and locked.
Superseded(seen, subs) == CurrentRows(subs)

\* A submission is passed over when its row was superseded while this waited for it.
RejudgeWrite(o) ==
  LET seen == rejudge[o].rows
      listed == {judgement[j].sub : j \in seen}
  IN /\ rejudge[o].at = "read"
     /\ \E subs \in SUBSET listed :
          LET old == Superseded(seen, subs)
              fresh == last + 1 .. last + Cardinality(subs)
          IN /\ CurrentRows(listed \ subs) \cap seen = {}
             /\ \A j \in old : ~Claimed(j)
             /\ RoomFor(Cardinality(subs))
             /\ \E sub \in Bijection(fresh, subs) :
                 judgement' =
                   [j \in Rows |->
                      IF j \in old THEN [judgement[j] EXCEPT !.superseded = TRUE]
                      ELSE IF j \in fresh
                      THEN Pending(judgement[sub[j]].by, judgement[sub[j]].question, sub[j])
                      ELSE judgement[j]]
             /\ last' = last + Cardinality(subs)
             /\ rejudge' = [rejudge EXCEPT ![o] =
                  [at |-> "stopping", rows |-> {},
                   jobs |-> {judgement[j].job : j \in {i \in old : judgement[i].state # "done"}}
                              \ {NoJob}]]
     /\ UNCHANGED <<judge, send, poll, request, faults>>

RejudgeStop(o) ==
  /\ rejudge[o].at = "stopping"
  /\ StopJobs(rejudge[o].jobs)
  /\ rejudge' = [rejudge EXCEPT ![o] = NoRejudge]
  /\ UNCHANGED <<rows, issued, send, poll, request, faults>>

-----------------------------------------------------------------------------
(* The judge: jobs run on its threads, and live in memory only.             *)

Done(k, result) == job' = [job EXCEPT ![k] = [job[k] EXCEPT !.state = "done", !.result = result]]

\* A job cancelled before a thread takes it is not run.
JobStarts(k) ==
  /\ job[k].state = "queued"
  /\ \/ ~job[k].cancelled /\ job' = [job EXCEPT ![k].state = "running"]
     \/ job[k].cancelled /\ Done(k, "stopped")
  /\ UNCHANGED <<rows, issued, threads, faults>>

\* The flag is looked at between testcases: a cancelled job may still finish.
JobEnds(k) ==
  /\ job[k].state = "running"
  /\ \/ \E v \in Verdicts : Done(k, v)
     \/ job[k].cancelled /\ Done(k, "stopped")
  /\ UNCHANGED <<rows, issued, threads, faults>>

JobExpires(k) ==
  /\ job[k].state = "done"
  /\ Fault("expire")
  /\ job' = [job EXCEPT ![k].state = "gone"]
  /\ UNCHANGED <<rows, issued, threads>>

JudgeRestarts ==
  /\ issued > 0
  /\ Fault("restart")
  /\ job' = [k \in Jobs |-> IF job[k].state = "none" THEN job[k] ELSE [job[k] EXCEPT !.state = "gone"]]
  /\ UNCHANGED <<rows, issued, threads>>

\* A process dies: its transaction rolls back, its locks are released.
Crash ==
  /\ Fault("crash")
  /\ \/ \E w \in Senders : send' = [send EXCEPT ![w] = NoSend] /\ UNCHANGED <<poll, request, rejudge>>
     \/ \E w \in Pollers : poll' = [poll EXCEPT ![w] = NoPoll] /\ UNCHANGED <<send, request, rejudge>>
     \/ \E t \in Requests :
          request' = [request EXCEPT ![t] = NoRequest] /\ UNCHANGED <<send, poll, rejudge>>
     \/ \E o \in Organisers :
          rejudge' = [rejudge EXCEPT ![o] = NoRejudge] /\ UNCHANGED <<send, poll, request>>
  /\ UNCHANGED <<rows, judge>>

-----------------------------------------------------------------------------
(* The specification.                                                       *)

Init ==
  /\ judgement = [j \in Rows |-> Blank]
  /\ last = 0
  /\ job = [k \in Jobs |-> [state |-> "none", of |-> NoRow, result |-> Undecided, cancelled |-> FALSE]]
  /\ issued = 0
  /\ send = [w \in Senders |-> NoSend]
  /\ poll = [w \in Pollers |-> NoPoll]
  /\ request = [t \in Requests |-> NoRequest]
  /\ rejudge = [o \in Organisers |-> NoRejudge]
  /\ faults = 0

Sending(w) == Claim(w) \/ JudgeAccepts(w) \/ RecordJob(w) \/ WriteRefusal(w)
Polling(w) == (\E j \in Rows : PollRead(w, j)) \/ PollAsk(w) \/ PollWrite(w)
Serving(t) == SubmitInsert(t) \/ CancelWrite(t) \/ CancelStop(t)
Rejudging(o) == RejudgeWrite(o) \/ RejudgeStop(o)
Running(k) == JobStarts(k) \/ JobEnds(k)

Failing ==
  \/ \E w \in Senders : SendFails(w) \/ JudgeRejects(w)
  \/ \E k \in Jobs : JobExpires(k)
  \/ JudgeRestarts \/ Crash

Next ==
  \/ \E t \in Requests, p \in Participants, q \in Questions : SubmitCheck(t, p, q)
  \/ \E t \in Requests, p \in Participants : CancelRead(t, p)
  \/ \E t \in Requests : Serving(t)
  \/ \E w \in Senders : Sending(w)
  \/ \E w \in Pollers : Polling(w)
  \/ \E o \in Organisers, q \in Questions : RejudgeRead(o, q)
  \/ \E o \in Organisers : Rejudging(o)
  \/ \E k \in Jobs : Running(k)
  \/ Failing

Spec == Init /\ [][Next]_vars

\* The scheduler sends and polls every second, requests that began go on, and the
\* judge's threads run what is queued.
Fairness ==
  /\ \A w \in Senders : WF_vars(Sending(w))
  /\ \A w \in Pollers : WF_vars(Polling(w))
  /\ \A t \in Requests : WF_vars(Serving(t))
  /\ \A o \in Organisers : WF_vars(Rejudging(o))
  /\ \A k \in Jobs : WF_vars(Running(k))

FairSpec == Spec /\ Fairness
=============================================================================
