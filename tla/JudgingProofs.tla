---------------------------- MODULE JudgingProofs ----------------------------
(***************************************************************************)
(* What holds of submissions and verdicts for any number of participants,  *)
(* threads, rows, jobs and failures: the types of submissions, judgements  *)
(* and jobs, who holds which row and which participant, and what follows   *)
(* for the rows.  Then, which job is whose: what is stopped decides        *)
(* nothing, what is decided is the row's own result, and what is sent is   *)
(* sent once, under the assumptions on failures that each theorem names.   *)
(***************************************************************************)
EXTENDS JudgingProperties, FiniteSetTheorems, TLAPS

-----------------------------------------------------------------------------
(* What is inductive.                                                       *)

\* Rows are used in the order of their ids, and belong to a submission in use.
RowsAreFilled ==
  \A j \in Rows :
    /\ j <= last => judgement[j].state # "none" /\ judgement[j].sub \in 1..last
    /\ j > last => judgement[j] = Blank

\* What a thread holds is a row in use, and what a poller asks about is a job.
HeldRowsExist ==
  /\ \A w \in Senders : send[w].at # "idle" => send[w].row \in 1..last
  /\ \A w \in Pollers : poll[w] # NoPoll => poll[w].row \in 1..last /\ poll[w].job # NoJob
  /\ \A t \in Requests : request[t].rows \subseteq 1..last
  /\ \A o \in Organisers : rejudge[o].rows \subseteq 1..last

\* A finished job is reported by its result.
DoneIsNoAnswer == \A w \in Pollers : poll[w].answer # "done"

TypeInv == TypeOK /\ RowsAreFilled /\ HeldRowsExist /\ DoneIsNoAnswer

LEMMA TypeInvInit == Init => TypeInv
<1> SUFFICES ASSUME Init PROVE TypeInv
  OBVIOUS
<1>1. judgement \in [Rows -> Row] /\ last \in 0..MaxRows
  BY JudgingAssumption DEF Init, Blank, Row, RowStates
<1>2. job \in [Jobs -> JobRow] /\ issued \in 0..MaxJobs
  BY JudgingAssumption DEF Init, JobRow, JobStates
<1>3. send \in [Senders -> SendState] /\ poll \in [Pollers -> PollState]
  BY DEF Init, NoSend, NoPoll, RowStates, JobStates, SendState, PollState
<1>4. request \in [Requests -> RequestState] /\ rejudge \in [Organisers -> RejudgeState]
  BY DEF Init, NoRequest, NoRejudge, RequestState, RejudgeState
<1>5. RowsAreFilled /\ HeldRowsExist /\ DoneIsNoAnswer
  BY DEF Init, RowsAreFilled, HeldRowsExist, DoneIsNoAnswer, Rows, NoRow, NoSend, NoPoll,
         NoRequest, NoRejudge
<1> QED BY <1>1, <1>2, <1>3, <1>4, <1>5 DEF TypeInv, TypeOK, Init

-----------------------------------------------------------------------------
(* Every write of a row or of a job keeps its columns' types.               *)

LEMMA RowWrites ==
  ASSUME NEW r \in Row
  PROVE  /\ \A v \in Outcomes \cup {Undecided, "refused"} :
              [r EXCEPT !.state = "done", !.verdict = v] \in Row
         /\ \A k \in Jobs \cup {NoJob}, s \in RowStates : [r EXCEPT !.state = s, !.job = k] \in Row
         /\ \A s \in RowStates : [r EXCEPT !.state = s] \in Row
         /\ [r EXCEPT !.superseded = TRUE] \in Row
         /\ [r EXCEPT !.state = "done", !.cancelled = TRUE, !.verdict = "cancelled"] \in Row
BY DEF Row, RowStates

\* Writing rows in use keeps them in use.
LEMMA FilledRowsStay ==
  ASSUME TypeInv, last' = last,
         \A j \in Rows : \/ judgement'[j] = judgement[j]
                         \/ /\ judgement[j].state # "none" \/ j <= last
                            /\ judgement'[j].state # "none"
                            /\ judgement'[j].sub = judgement[j].sub
  PROVE  RowsAreFilled'
<1> SUFFICES ASSUME NEW j \in Rows
             PROVE  /\ j <= last => judgement'[j].state # "none" /\ judgement'[j].sub \in 1..last
                    /\ j > last => judgement'[j] = Blank
  BY DEF RowsAreFilled
<1>1. last \in Nat /\ j \in Nat
  BY DEF TypeInv, TypeOK, Rows
<1>2. /\ j <= last => judgement[j].state # "none" /\ judgement[j].sub \in 1..last
      /\ j > last => judgement[j] = Blank
  BY DEF TypeInv, RowsAreFilled
<1>3. Blank.state = "none"
  BY DEF Blank
<1> QED BY <1>1, <1>2, <1>3

LEMMA JobWrites ==
  ASSUME NEW r \in JobRow
  PROVE  /\ \A v \in Outcomes : [r EXCEPT !.state = "done", !.result = v] \in JobRow
         /\ \A s \in JobStates : [r EXCEPT !.state = s] \in JobRow
         /\ [r EXCEPT !.cancelled = TRUE] \in JobRow
BY DEF JobRow, JobStates

-----------------------------------------------------------------------------
(* The participant's requests.                                              *)

LEMMA SubmitCheckType ==
  ASSUME TypeInv, NEW t \in Requests, NEW p \in Participants, NEW q \in Questions,
         SubmitCheck(t, p, q)
  PROVE  TypeInv'
<1> DEFINE new == [NoRequest EXCEPT !.at = "submitting", !.who = p, !.question = q]
<1>1. new \in RequestState /\ new.rows = {}
  BY DEF NoRequest, RequestState
<1>2. request' = [request EXCEPT ![t] = new]
  BY DEF SubmitCheck
<1> HIDE DEF new
<1> QED BY <1>1, <1>2 DEF SubmitCheck, TypeInv, TypeOK, RowsAreFilled, HeldRowsExist, DoneIsNoAnswer,
                          rows, judge

LEMMA SubmitInsertType ==
  ASSUME TypeInv, NEW t \in Requests, SubmitInsert(t)
  PROVE  TypeInv'
<1> DEFINE j == last + 1
           new == Pending(request[t].who, request[t].question, j)
<1>1. j \in Rows /\ last' = j /\ judgement' = [judgement EXCEPT ![j] = new]
  BY DEF SubmitInsert
<1>2. last \in Nat /\ last' \in 0..MaxRows
  BY <1>1, JudgingAssumption DEF TypeInv, TypeOK, Rows
<1>3. new \in Row /\ new.state = "pending" /\ new.sub = j
  BY <1>1 DEF Pending, Blank, Row, RowStates, RequestState, TypeInv, TypeOK
<1> HIDE DEF new
<1>4. judgement' \in [Rows -> Row]
  BY <1>1, <1>3 DEF TypeInv, TypeOK
<1>5. RowsAreFilled'
  BY <1>1, <1>2, <1>3 DEF RowsAreFilled, TypeInv, TypeOK, Rows
<1>6. NoRequest \in RequestState /\ NoRequest.rows = {}
  BY DEF NoRequest, RequestState
<1>7. HeldRowsExist'
  BY <1>1, <1>2, <1>6 DEF HeldRowsExist, TypeInv, TypeOK, SubmitInsert
<1> QED BY <1>2, <1>4, <1>5, <1>6, <1>7 DEF SubmitInsert, TypeInv, TypeOK, DoneIsNoAnswer, judge

LEMMA CancelReadType ==
  ASSUME TypeInv, NEW t \in Requests, NEW p \in Participants, CancelRead(t, p)
  PROVE  TypeInv'
<1> DEFINE mine == {j \in Rows : InFlight(j) /\ judgement[j].by = p}
           stop == {judgement[j].job : j \in mine} \ {NoJob}
           new == [NoRequest EXCEPT !.at = "cancelling", !.who = p, !.rows = mine, !.jobs = stop]
<1>1. mine \in SUBSET Rows /\ stop \in SUBSET Jobs
  BY DEF TypeInv, TypeOK, Row
<1>2. mine \subseteq 1..last
  BY DEF InFlight, TypeInv, TypeOK, RowsAreFilled, Blank, Rows
<1>3. request' = [request EXCEPT ![t] = new]
  BY DEF CancelRead
<1> HIDE DEF mine, stop
<1>4. new \in RequestState /\ new.rows = mine
  BY <1>1 DEF NoRequest, RequestState
<1> HIDE DEF new
<1> QED BY <1>2, <1>3, <1>4 DEF CancelRead, TypeInv, TypeOK, RowsAreFilled, HeldRowsExist,
                                DoneIsNoAnswer, rows, judge

LEMMA CancelWriteType ==
  ASSUME TypeInv, NEW t \in Requests, CancelWrite(t)
  PROVE  TypeInv'
<1> DEFINE new(j) == [judgement[j] EXCEPT !.state = "done", !.cancelled = TRUE, !.verdict = "cancelled"]
           r == [request[t] EXCEPT !.at = "stopping"]
<1>1. ASSUME NEW j \in Rows
      PROVE  judgement[j] \in Row /\ new(j) \in Row /\ new(j).state = "done"
             /\ new(j).sub = judgement[j].sub
  <2>1. judgement[j] \in Row
    BY DEF TypeInv, TypeOK
  <2> QED BY <2>1, RowWrites DEF Row
<1>2. /\ judgement' = [j \in Rows |-> IF j \in request[t].rows THEN new(j) ELSE judgement[j]]
      /\ request' = [request EXCEPT ![t] = r]
  BY DEF CancelWrite
<1>3. r \in RequestState /\ r.rows = request[t].rows /\ request[t].rows \subseteq 1..last
  BY DEF TypeInv, TypeOK, HeldRowsExist, RequestState
<1> HIDE DEF new, r
<1>4. judgement' \in [Rows -> Row]
  BY <1>1, <1>2
<1>5. RowsAreFilled'
  <2>1. ASSUME NEW j \in Rows, j \in request[t].rows
        PROVE  j <= last /\ judgement'[j].state # "none" /\ judgement'[j].sub = judgement[j].sub
    BY <1>1, <1>2, <1>3, <2>1
  <2>2. ASSUME NEW j \in Rows, j \notin request[t].rows PROVE judgement'[j] = judgement[j]
    BY <1>2, <2>2
  <2> QED BY <2>1, <2>2, FilledRowsStay DEF CancelWrite
<1> QED BY <1>2, <1>3, <1>4, <1>5 DEF CancelWrite, TypeInv, TypeOK, HeldRowsExist, DoneIsNoAnswer, judge

LEMMA StopJobsType ==
  ASSUME TypeInv, NEW ks, StopJobs(ks)
  PROVE  job' \in [Jobs -> JobRow]
<1>1. \A k \in Jobs : job[k] \in JobRow
  BY DEF TypeInv, TypeOK
<1> QED BY <1>1, JobWrites DEF StopJobs

LEMMA CancelStopType ==
  ASSUME TypeInv, NEW t \in Requests, CancelStop(t)
  PROVE  TypeInv'
<1>1. job' \in [Jobs -> JobRow]
  BY StopJobsType DEF CancelStop
<1>2. NoRequest \in RequestState /\ NoRequest.rows = {}
  BY DEF NoRequest, RequestState
<1> QED BY <1>1, <1>2 DEF CancelStop, TypeInv, TypeOK, RowsAreFilled, HeldRowsExist, DoneIsNoAnswer, rows

-----------------------------------------------------------------------------
(* Sending.                                                                 *)

LEMMA ClaimType ==
  ASSUME TypeInv, NEW w \in Senders, Claim(w)
  PROVE  TypeInv'
<1>1. PICK j \in Claimable :
        send' = [send EXCEPT ![w] = [NoSend EXCEPT !.at = "claimed", !.row = j]]
  BY DEF Claim, Oldest
<1>2. j \in Rows /\ j \in 1..last
  BY DEF Claimable, TypeInv, TypeOK, RowsAreFilled, Blank, Rows
<1> QED BY <1>1, <1>2 DEF Claim, TypeInv, TypeOK, RowsAreFilled, HeldRowsExist, DoneIsNoAnswer,
                    NoSend, SendState, rows, judge

LEMMA NewJobType ==
  ASSUME TypeInv, NEW k \in Jobs, NEW j \in Rows \cup {NoRow}, NewJob(k, j)
  PROVE  job' \in [Jobs -> JobRow] /\ issued' \in 0..MaxJobs
BY JudgingAssumption DEF NewJob, TypeInv, TypeOK, JobRow, JobStates, Jobs

LEMMA JudgeAcceptsType ==
  ASSUME TypeInv, NEW w \in Senders, JudgeAccepts(w)
  PROVE  TypeInv'
<1>1. PICK k \in Jobs :
        NewJob(k, send[w].row) /\ send' = [send EXCEPT ![w] = [send[w] EXCEPT !.at = "sent", !.job = k]]
  BY DEF JudgeAccepts
<1> DEFINE new == [send[w] EXCEPT !.at = "sent", !.job = k]
<1>2. /\ send[w].row \in Rows \cup {NoRow} /\ send[w].row \in 1..last
      /\ new \in SendState
      /\ new.row = send[w].row
  BY DEF JudgeAccepts, TypeInv, TypeOK, HeldRowsExist, SendState
<1>3. job' \in [Jobs -> JobRow] /\ issued' \in 0..MaxJobs
  BY <1>1, <1>2, NewJobType
<1>4. send' = [send EXCEPT ![w] = new]
  BY <1>1
<1> HIDE DEF new
<1> QED BY <1>2, <1>3, <1>4 DEF JudgeAccepts, TypeInv, TypeOK, RowsAreFilled, HeldRowsExist,
                                DoneIsNoAnswer, rows

LEMMA RecordJobType ==
  ASSUME TypeInv, NEW w \in Senders, RecordJob(w)
  PROVE  TypeInv'
<1> DEFINE j == send[w].row
           new == [judgement[j] EXCEPT !.state = "queued", !.job = send[w].job]
<1>1. j \in 1..last /\ j \in Rows /\ send[w].job \in Jobs \cup {NoJob}
  BY JudgingAssumption DEF RecordJob, TypeInv, TypeOK, HeldRowsExist, SendState, Rows
<1>2. judgement[j] \in Row /\ judgement' = [judgement EXCEPT ![j] = new]
  BY <1>1 DEF RecordJob, TypeInv, TypeOK
<1>3. new \in Row /\ new.state = "queued" /\ new.sub = judgement[j].sub
  <2>1. "queued" \in RowStates
    BY DEF RowStates
  <2>2. new \in Row
    <3> HIDE DEF j
    <3> QED BY <1>1, <1>2, <2>1, RowWrites
  <2> QED BY <2>2, <1>2 DEF Row
<1> HIDE DEF new
<1>4. judgement' \in [Rows -> Row]
  BY <1>2, <1>3 DEF TypeInv, TypeOK
<1>5. RowsAreFilled'
  BY <1>1, <1>2, <1>3, FilledRowsStay DEF RecordJob, TypeInv, TypeOK
<1> HIDE DEF j
<1> QED BY <1>4, <1>5 DEF RecordJob, TypeInv, TypeOK, HeldRowsExist, DoneIsNoAnswer, NoSend, NoRow, SendState,
                          judge

LEMMA SendFailsType ==
  ASSUME TypeInv, NEW w \in Senders, SendFails(w)
  PROVE  TypeInv'
<1>1. job' \in [Jobs -> JobRow] /\ issued' \in 0..MaxJobs
  <2>1. send[w].row \in Rows \cup {NoRow}
    BY DEF TypeInv, TypeOK, SendState
  <2> QED BY <2>1, NewJobType DEF SendFails, TypeInv, TypeOK, judge
<1>2. faults' \in Nat
  <2>1. faults \in Nat
    BY DEF TypeInv, TypeOK
  <2> QED BY <2>1 DEF SendFails, Fault
<1> QED BY <1>1, <1>2 DEF SendFails, TypeInv, TypeOK, RowsAreFilled, HeldRowsExist, DoneIsNoAnswer,
                          NoSend, NoRow, SendState, rows

LEMMA JudgeRejectsType ==
  ASSUME TypeInv, NEW w \in Senders, JudgeRejects(w)
  PROVE  TypeInv'
BY DEF JudgeRejects, Fault, TypeInv, TypeOK, RowsAreFilled, HeldRowsExist, DoneIsNoAnswer, SendState,
       rows, judge

\* A result, a refusal and what a poll reports change a row in use and keep it one.
LEMMA WriteResultType ==
  ASSUME TypeInv, NEW j \in 1..last, NEW waiting \in BOOLEAN,
         NEW v \in Outcomes \cup {Undecided, "refused"}, WriteResult(j, waiting, v)
  PROVE  judgement' \in [Rows -> Row] /\ (last' = last => RowsAreFilled')
<1> DEFINE new == [judgement[j] EXCEPT !.state = "done", !.verdict = v]
<1>1. j \in Rows
  BY JudgingAssumption DEF TypeInv, TypeOK, Rows
<1>2. judgement[j] \in Row
  BY <1>1 DEF TypeInv, TypeOK
<1>3. new \in Row /\ new.state = "done" /\ new.sub = judgement[j].sub
  BY <1>2, RowWrites DEF Row
<1>4. judgement' = judgement \/ judgement' = [judgement EXCEPT ![j] = new]
  BY DEF WriteResult
<1> HIDE DEF new
<1>5. judgement' \in [Rows -> Row]
  BY <1>3, <1>4 DEF TypeInv, TypeOK
<1>6. ASSUME last' = last PROVE RowsAreFilled'
  BY <1>1, <1>3, <1>4, <1>6, FilledRowsStay DEF TypeInv, TypeOK
<1> QED BY <1>5, <1>6

LEMMA WriteRefusalType ==
  ASSUME TypeInv, NEW w \in Senders, WriteRefusal(w)
  PROVE  TypeInv'
<1>1. send[w].row \in 1..last
  BY DEF WriteRefusal, TypeInv, HeldRowsExist
<1>2. Waiting(send[w].row) \in BOOLEAN
  BY DEF Waiting
<1>3. judgement' \in [Rows -> Row] /\ RowsAreFilled'
  BY <1>1, <1>2, WriteResultType DEF WriteRefusal
<1> QED BY <1>3 DEF WriteRefusal, TypeInv, TypeOK, HeldRowsExist, DoneIsNoAnswer, NoSend, NoRow,
                    SendState, judge

-----------------------------------------------------------------------------
(* Polling.                                                                 *)

LEMMA PollReadType ==
  ASSUME TypeInv, NEW w \in Pollers, NEW j \in Rows, PollRead(w, j)
  PROVE  TypeInv'
<1>1. j \in 1..last
  BY DEF PollRead, TypeInv, TypeOK, RowsAreFilled, Blank, Rows
<1>2. judgement[j].job \in Jobs \cup {NoJob} /\ judgement[j].state \in RowStates
  BY DEF TypeInv, TypeOK, Row
<1> QED BY <1>1, <1>2 DEF PollRead, TypeInv, TypeOK, RowsAreFilled, HeldRowsExist, DoneIsNoAnswer,
                          JobStates, PollState, rows, judge

\* The judge's answer is a state other than done, or a result.
LEMMA AnswerType ==
  ASSUME TypeInv, NEW k \in Jobs
  PROVE  Answer(k) \in (JobStates \cup Outcomes \cup {Undecided}) \ {"done"}
BY JudgingAssumption DEF Answer, TypeInv, TypeOK, JobRow, JobStates, Outcomes

LEMMA PollAskType ==
  ASSUME TypeInv, NEW w \in Pollers, PollAsk(w)
  PROVE  TypeInv'
<1> DEFINE a == Answer(poll[w].job)
           new == [poll[w] EXCEPT !.answer = a]
<1>1. poll[w].job \in Jobs /\ poll[w].row \in 1..last
  BY DEF PollAsk, TypeInv, TypeOK, HeldRowsExist, PollState, NoJob
<1>2. a \in (JobStates \cup Outcomes \cup {Undecided}) \ {"done"}
  BY <1>1, AnswerType
<1>3. poll' = [poll EXCEPT ![w] = new]
  BY DEF PollAsk
<1> HIDE DEF a
<1>4. new \in PollState /\ new.row = poll[w].row /\ new.job = poll[w].job /\ new.answer = a
  BY <1>2 DEF TypeInv, TypeOK, PollState
<1> HIDE DEF new
<1> QED BY <1>1, <1>2, <1>3, <1>4 DEF PollAsk, TypeInv, TypeOK, RowsAreFilled, HeldRowsExist,
                                      DoneIsNoAnswer, NoJob, rows, judge

\* The three things a poll may write.
LEMMA PollWriteRows ==
  ASSUME TypeInv, NEW w \in Pollers, PollWrite(w)
  PROVE  judgement' \in [Rows -> Row] /\ RowsAreFilled'
<1> DEFINE j == poll[w].row
           k == poll[w].job
           a == poll[w].answer
<1>1. a # "none" /\ last' = last
  BY DEF PollWrite
<1>2. poll[w] \in PollState /\ a # "done"
  BY DEF TypeInv, TypeOK, DoneIsNoAnswer
<1>3. j \in 1..last /\ k \in Jobs
  BY <1>1, <1>2 DEF TypeInv, HeldRowsExist, PollState, NoPoll, NoJob
<1>4. j \in Rows /\ judgement[j] \in Row
  BY <1>3, JudgingAssumption DEF TypeInv, TypeOK, Rows
<1>5. ASSUME NEW new \in Row, new.state # "none", new.sub = judgement[j].sub,
             judgement' = judgement \/ judgement' = [judgement EXCEPT ![j] = new]
      PROVE  judgement' \in [Rows -> Row] /\ RowsAreFilled'
  <2>1. judgement' \in [Rows -> Row]
    BY <1>5 DEF TypeInv, TypeOK
  <2> HIDE DEF j
  <2>2. RowsAreFilled'
    BY <1>1, <1>3, <1>4, <1>5, FilledRowsStay DEF TypeInv, TypeOK
  <2> QED BY <2>1, <2>2
<1>6. CASE a = "gone" /\ Resubmit(j, k)
  <2> DEFINE new == [judgement[j] EXCEPT !.state = "pending", !.job = NoJob]
  <2>1. new \in Row /\ new.state = "pending" /\ new.sub = judgement[j].sub
    BY <1>4 DEF Row, RowStates
  <2>2. judgement' = judgement \/ judgement' = [judgement EXCEPT ![j] = new]
    BY <1>6 DEF Resubmit
  <2> HIDE DEF new, j
  <2> QED BY <1>5, <2>1, <2>2
<1>7. CASE a \in {"queued", "running"} /\ WriteProgress(j, k, poll[w].seen, a)
  <2> DEFINE new == [judgement[j] EXCEPT !.state = a]
  <2>1. new \in Row /\ new.state = a /\ new.sub = judgement[j].sub
    BY <1>4, <1>7 DEF Row, RowStates
  <2>2. judgement' = judgement \/ judgement' = [judgement EXCEPT ![j] = new]
    BY <1>7 DEF WriteProgress
  <2> HIDE DEF new, j
  <2> QED BY <1>5, <1>7, <2>1, <2>2
<1>8. CASE a \notin {"gone", "queued", "running"} /\ WriteResult(j, StillWaiting(j, k), a)
  <2>1. a \in Outcomes \cup {Undecided, "refused"}
    BY <1>1, <1>2, <1>8 DEF PollState, JobStates
  <2>2. StillWaiting(j, k) \in BOOLEAN
    BY DEF StillWaiting
  <2> HIDE DEF j, k, a
  <2> QED BY <1>1, <1>3, <1>8, <2>1, <2>2, WriteResultType
<1> QED BY <1>6, <1>7, <1>8 DEF PollWrite

LEMMA PollWriteType ==
  ASSUME TypeInv, NEW w \in Pollers, PollWrite(w)
  PROVE  TypeInv'
<1>1. NoPoll \in PollState /\ NoPoll.answer = "none"
  BY DEF NoPoll, PollState, RowStates, JobStates
<1> QED BY <1>1, PollWriteRows DEF PollWrite, TypeInv, TypeOK, HeldRowsExist, DoneIsNoAnswer, judge

-----------------------------------------------------------------------------
(* The judge.                                                               *)

\* The steps of the judge concern its jobs alone.
LEMMA JudgeKeepsTypes ==
  ASSUME TypeInv, UNCHANGED <<rows, threads>>, job' \in [Jobs -> JobRow], issued' = issued,
         faults' \in Nat
  PROVE  TypeInv'
BY DEF TypeInv, TypeOK, RowsAreFilled, HeldRowsExist, DoneIsNoAnswer, rows, threads

LEMMA JobStartsType ==
  ASSUME TypeInv, NEW k \in Jobs, JobStarts(k) \/ JobEnds(k)
  PROVE  TypeInv'
<1>1. job[k] \in JobRow /\ job \in [Jobs -> JobRow] /\ faults \in Nat
  BY DEF TypeInv, TypeOK
<1>2. \A v \in Outcomes : Done(k, v) => job' \in [Jobs -> JobRow]
  BY <1>1, JobWrites DEF Done
<1>3. job' = [job EXCEPT ![k].state = "running"] => job' \in [Jobs -> JobRow]
  <2>1. [job[k] EXCEPT !.state = "running"] \in JobRow
    BY <1>1, JobWrites DEF JobStates
  <2> QED BY <1>1, <2>1
<1>4. job' \in [Jobs -> JobRow]
  BY <1>2, <1>3 DEF JobStarts, JobEnds, Outcomes
<1> QED BY <1>1, <1>4, JudgeKeepsTypes DEF JobStarts, JobEnds

LEMMA JobExpiresType ==
  ASSUME TypeInv, (\E k \in Jobs : JobExpires(k)) \/ JudgeRestarts
  PROVE  TypeInv'
<1>1. job \in [Jobs -> JobRow] /\ faults \in Nat
  BY DEF TypeInv, TypeOK
<1>2. \A k \in Jobs : [job[k] EXCEPT !.state = "gone"] \in JobRow
  <2>1. "gone" \in JobStates
    BY DEF JobStates
  <2> QED BY <1>1, <2>1, JobWrites
<1>3. job' \in [Jobs -> JobRow]
  BY <1>1, <1>2 DEF JobExpires, JudgeRestarts
<1>4. faults' \in Nat /\ UNCHANGED <<rows, threads>> /\ issued' = issued
  BY <1>1 DEF JobExpires, JudgeRestarts, Fault
<1> QED BY <1>3, <1>4, JudgeKeepsTypes

LEMMA CrashType ==
  ASSUME TypeInv, Crash
  PROVE  TypeInv'
<1>1. /\ NoSend \in SendState /\ NoSend.at = "idle" /\ NoPoll \in PollState /\ NoPoll.answer = "none"
      /\ NoRequest \in RequestState /\ NoRequest.rows = {}
      /\ NoRejudge \in RejudgeState /\ NoRejudge.rows = {}
  BY DEF NoSend, NoPoll, NoRequest, NoRejudge, SendState, PollState, RequestState, RejudgeState,
         RowStates, JobStates
<1>2. faults' \in Nat
  <2>1. faults \in Nat
    BY DEF TypeInv, TypeOK
  <2> QED BY <2>1 DEF Crash, Fault
<1> QED BY <1>1, <1>2 DEF Crash, TypeInv, TypeOK, RowsAreFilled, HeldRowsExist, DoneIsNoAnswer, rows, judge

-----------------------------------------------------------------------------
(* Rejudging.                                                               *)

LEMMA RejudgeReadType ==
  ASSUME TypeInv, NEW o \in Organisers, NEW q \in Questions, RejudgeRead(o, q)
  PROVE  TypeInv'
<1> DEFINE found == {j \in Rows : Current(j) /\ judgement[j].question = q}
           new == [NoRejudge EXCEPT !.at = "read", !.rows = found]
<1>1. found \in SUBSET Rows /\ found \subseteq 1..last
  BY DEF Current, TypeInv, TypeOK, RowsAreFilled, Blank, Rows
<1>2. rejudge' = [rejudge EXCEPT ![o] = new]
  BY DEF RejudgeRead
<1> HIDE DEF found
<1>3. new \in RejudgeState /\ new.rows = found
  BY <1>1 DEF NoRejudge, RejudgeState
<1> HIDE DEF new
<1> QED BY <1>1, <1>2, <1>3 DEF RejudgeRead, TypeInv, TypeOK, RowsAreFilled, HeldRowsExist,
                                DoneIsNoAnswer, rows, judge

LEMMA RejudgeStopType ==
  ASSUME TypeInv, NEW o \in Organisers, RejudgeStop(o)
  PROVE  TypeInv'
<1>1. job' \in [Jobs -> JobRow]
  BY StopJobsType DEF RejudgeStop
<1>2. NoRejudge \in RejudgeState /\ NoRejudge.rows = {}
  BY DEF NoRejudge, RejudgeState
<1> QED BY <1>1, <1>2 DEF RejudgeStop, TypeInv, TypeOK, RowsAreFilled, HeldRowsExist, DoneIsNoAnswer, rows

\* What a rejudge leaves: the current rows of some submissions superseded, and as
\* many fresh rows as submissions, one for each.
Rejudged(subs, n, sub) ==
  LET old == CurrentRows(subs)
      fresh == last + 1 .. last + n
  IN /\ last' = last + n
     /\ sub \in Bijection(fresh, subs)
     /\ \A j \in old : ~Claimed(j)
     /\ judgement' = [j \in Rows |->
          IF j \in old THEN [judgement[j] EXCEPT !.superseded = TRUE]
          ELSE IF j \in fresh
          THEN Pending(judgement[sub[j]].by, judgement[sub[j]].question, sub[j])
          ELSE judgement[j]]

LEMMA RoomIsRoom ==
  ASSUME TypeInv, NEW n \in Nat, RoomFor(n)
  PROVE  last + n \in 0..MaxRows
<1> DEFINE ts == {t \in Requests : request[t].at = "submitting"}
<1>1. Cardinality(ts) \in Nat
  <2>1. IsFiniteSet(ts)
    BY JudgingAssumption, FS_Subset
  <2> QED BY <2>1, FS_CardinalityType
<1>2. last + Cardinality(ts) + n <= MaxRows
  BY DEF RoomFor
<1> HIDE DEF ts
<1> QED BY <1>1, <1>2, JudgingAssumption DEF TypeInv, TypeOK

LEMMA RejudgeWriteRows ==
  ASSUME TypeInv, NEW o \in Organisers, RejudgeWrite(o)
  PROVE  \E subs \in SUBSET (1..last), n \in Nat : \E sub :
           last + n \in 0..MaxRows /\ Rejudged(subs, n, sub)
<1> DEFINE seen == rejudge[o].rows
           listed == {judgement[j].sub : j \in seen}
<1>1. PICK subs \in SUBSET listed :
        LET old == CurrentRows(subs)
            fresh == last + 1 .. last + Cardinality(subs)
        IN /\ \A j \in old : ~Claimed(j)
           /\ RoomFor(Cardinality(subs))
           /\ \E sub \in Bijection(fresh, subs) :
                judgement' =
                  [j \in Rows |->
                     IF j \in old THEN [judgement[j] EXCEPT !.superseded = TRUE]
                     ELSE IF j \in fresh
                     THEN Pending(judgement[sub[j]].by, judgement[sub[j]].question, sub[j])
                     ELSE judgement[j]]
           /\ last' = last + Cardinality(subs)
  BY DEF RejudgeWrite, Superseded
<1>2. listed \subseteq 1..last
  <2>1. \A j \in seen : j \in Rows /\ j \in 1..last
    BY JudgingAssumption DEF TypeInv, TypeOK, HeldRowsExist, Rows
  <2> QED BY <2>1 DEF TypeInv, RowsAreFilled
<1> HIDE DEF listed
<1>3. subs \in SUBSET (1..last) /\ Cardinality(subs) \in Nat
  <2>1. IsFiniteSet(1..last)
    BY FS_Interval DEF TypeInv, TypeOK
  <2>2. IsFiniteSet(subs)
    BY <1>2, <2>1, FS_Subset
  <2> QED BY <1>2, <2>2, FS_CardinalityType
<1>4. last + Cardinality(subs) \in 0..MaxRows
  BY <1>1, <1>3, RoomIsRoom
<1>5. PICK sub : Rejudged(subs, Cardinality(subs), sub)
  BY <1>1, Zenon DEF Rejudged
<1> QED BY <1>3, <1>4, <1>5

\* The fresh rows are typed and in use.
LEMMA RejudgedTypes ==
  ASSUME TypeInv, NEW subs \in SUBSET (1..last), NEW n \in Nat, NEW sub,
         last + n \in 0..MaxRows, Rejudged(subs, n, sub)
  PROVE  judgement' \in [Rows -> Row] /\ RowsAreFilled'
<1> DEFINE old == CurrentRows(subs)
           fresh == last + 1 .. last + n
           new(j) == Pending(judgement[sub[j]].by, judgement[sub[j]].question, sub[j])
           over(j) == [judgement[j] EXCEPT !.superseded = TRUE]
<1>1. last \in Nat /\ MaxRows \in Nat /\ 1..last \subseteq Rows
  BY JudgingAssumption DEF TypeInv, TypeOK, Rows
<1>2. \A j \in Rows : judgement[j] \in Row
  BY DEF TypeInv, TypeOK
<1>3. ASSUME NEW j \in fresh
      PROVE  /\ sub[j] \in subs /\ sub[j] \in 1..last
             /\ new(j) \in Row /\ new(j).state = "pending" /\ new(j).sub = sub[j]
  <2>1. sub[j] \in subs
    BY DEF Rejudged, Bijection, Injection, Surjection
  <2>2. sub[j] \in 1..last /\ sub[j] \in Rows
    BY <1>1, <2>1
  <2>3. judgement[sub[j]] \in Row
    BY <1>2, <2>2
  <2> QED BY <2>1, <2>2, <2>3 DEF Pending, Blank, Row, RowStates
<1>4. ASSUME NEW j \in Rows
      PROVE  over(j) \in Row /\ over(j).state = judgement[j].state /\ over(j).sub = judgement[j].sub
  BY <1>2, RowWrites DEF Row
<1>5. judgement' = [j \in Rows |-> IF j \in old THEN over(j) ELSE IF j \in fresh THEN new(j)
                                    ELSE judgement[j]]
  BY DEF Rejudged
<1>6. last' = last + n
  BY DEF Rejudged
<1>7. \A j \in old : j \in 1..last
  BY <1>1 DEF CurrentRows, Current, TypeInv, RowsAreFilled, Blank, Rows
<1> HIDE DEF old, new, over
<1>8. judgement' \in [Rows -> Row]
  BY <1>2, <1>3, <1>4, <1>5
<1>9. ASSUME NEW j \in Rows
      PROVE  /\ j <= last' => judgement'[j].state # "none" /\ judgement'[j].sub \in 1..last'
             /\ j > last' => judgement'[j] = Blank
  <2>1. /\ j <= last => judgement[j].state # "none" /\ judgement[j].sub \in 1..last
        /\ j > last => judgement[j] = Blank
    BY DEF TypeInv, RowsAreFilled
  <2>2. j \in Nat
    BY DEF Rows
  <2>3. CASE j \in old
    BY <1>1, <1>4, <1>5, <1>6, <1>7, <2>1, <2>2, <2>3
  <2>4. CASE j \notin old /\ j \in fresh
    BY <1>1, <1>3, <1>5, <1>6, <2>2, <2>4
  <2>5. CASE j \notin old /\ j \notin fresh
    BY <1>1, <1>5, <1>6, <2>1, <2>2, <2>5
  <2> QED BY <2>3, <2>4, <2>5
<1> QED BY <1>8, <1>9 DEF RowsAreFilled

LEMMA RejudgeWriteType ==
  ASSUME TypeInv, NEW o \in Organisers, RejudgeWrite(o)
  PROVE  TypeInv'
<1>0. PICK subs \in SUBSET (1..last), n \in Nat : \E sub : last + n \in 0..MaxRows /\ Rejudged(subs, n, sub)
  BY RejudgeWriteRows
<1>1. PICK sub : last + n \in 0..MaxRows /\ Rejudged(subs, n, sub)
  BY <1>0
<1>2. judgement' \in [Rows -> Row] /\ RowsAreFilled' /\ last' = last + n /\ last \in Nat
  BY <1>1, RejudgedTypes DEF Rejudged, TypeInv, TypeOK
<1>3. PICK ks : rejudge' = [rejudge EXCEPT ![o] = [at |-> "stopping", rows |-> {}, jobs |-> ks]]
                /\ ks \subseteq Jobs
  <2>1. PICK old : rejudge' = [rejudge EXCEPT ![o] =
                     [at |-> "stopping", rows |-> {},
                      jobs |-> {judgement[j].job : j \in {i \in old : judgement[i].state # "done"}}
                                 \ {NoJob}]]
                   /\ old \subseteq Rows
    <3>1. \A s : Superseded(rejudge[o].rows, s) \subseteq Rows
      BY DEF Superseded, CurrentRows
    <3> QED BY <3>1 DEF RejudgeWrite
  <2>2. {judgement[j].job : j \in {i \in old : judgement[i].state # "done"}} \ {NoJob} \subseteq Jobs
    BY <2>1 DEF TypeInv, TypeOK, Row
  <2> QED BY <2>1, <2>2
<1>4. [at |-> "stopping", rows |-> {}, jobs |-> ks] \in RejudgeState
  BY <1>3 DEF RejudgeState
<1>5. HeldRowsExist'
  BY <1>2, <1>3, <1>4 DEF RejudgeWrite, HeldRowsExist, TypeInv, TypeOK
<1> QED BY <1>1, <1>2, <1>3, <1>4, <1>5 DEF RejudgeWrite, TypeInv, TypeOK, DoneIsNoAnswer, judge

-----------------------------------------------------------------------------
(* The theorem.                                                             *)

LEMMA TypeInvStep == TypeInv /\ [Next]_vars => TypeInv'
<1> SUFFICES ASSUME TypeInv, [Next]_vars PROVE TypeInv'
  OBVIOUS
<1>1. CASE \/ \E t \in Requests, p \in Participants, q \in Questions : SubmitCheck(t, p, q)
           \/ \E t \in Requests, p \in Participants : CancelRead(t, p)
           \/ \E t \in Requests : Serving(t)
  BY <1>1, SubmitCheckType, CancelReadType, SubmitInsertType, CancelWriteType, CancelStopType, Zenon
     DEF Serving
<1>2. CASE \E w \in Senders : Sending(w) \/ SendFails(w) \/ JudgeRejects(w)
  BY <1>2, ClaimType, JudgeAcceptsType, RecordJobType, WriteRefusalType, SendFailsType,
     JudgeRejectsType, Zenon DEF Sending
<1>3. CASE \E w \in Pollers : Polling(w)
  BY <1>3, PollReadType, PollAskType, PollWriteType, Zenon DEF Polling
<1>4. CASE \/ \E o \in Organisers, q \in Questions : RejudgeRead(o, q)
           \/ \E o \in Organisers : Rejudging(o)
  BY <1>4, RejudgeReadType, RejudgeWriteType, RejudgeStopType, Zenon DEF Rejudging
<1>5. CASE \E k \in Jobs : Running(k)
  BY <1>5, JobStartsType, Zenon DEF Running
<1>6. CASE (\E k \in Jobs : JobExpires(k)) \/ JudgeRestarts \/ Crash
  BY <1>6, JobExpiresType, CrashType, Zenon
<1>7. CASE UNCHANGED vars
  BY <1>7 DEF vars, rows, judge, threads, TypeInv, TypeOK, RowsAreFilled, HeldRowsExist, DoneIsNoAnswer
<1> QED BY <1>1, <1>2, <1>3, <1>4, <1>5, <1>6, <1>7, Zenon DEF Next, Failing

LEMMA TypeInvHolds == Spec => []TypeInv
BY TypeInvInit, TypeInvStep, PTL DEF Spec

\* Rows, jobs and threads keep their types; in particular the row a thread goes on
\* to write is one that was inserted.
THEOREM JudgingTypeCorrect == Spec => []TypeOK
<1>1. TypeInv => TypeOK
  BY DEF TypeInv
<1> QED BY <1>1, TypeInvHolds, PTL


-----------------------------------------------------------------------------
(* Who holds what.                                                          *)

Deciding(w) == send[w].at \in {"claimed", "sent"}

\* A row is sent by one sender at a time, and waits meanwhile.
ClaimsArePending ==
  \A w \in Senders : Deciding(w) =>
    /\ judgement[send[w].row].state = "pending"
    /\ \A v \in Senders \ {w} : Deciding(v) => send[v].row # send[w].row

Holds(t) == request[t].at \in {"submitting", "cancelling"}

\* One request at a time holds a participant.
OneHolder ==
  \A t, u \in Requests : Holds(t) /\ Holds(u) /\ request[t].who = request[u].who => t = u

\* What a cancel goes on to write is its participant's and undecided.
CancelsAreOpen ==
  \A t \in Requests : request[t].at = "cancelling" =>
    \A j \in request[t].rows :
      judgement[j].by = request[t].who /\ judgement[j].state \in {"pending", "queued", "running"}

\* Nothing of the participant's own making is in flight while a submit goes on.
SubmitsAreAlone ==
  \A t \in Requests : request[t].at = "submitting" =>
    \A j \in Rows : InFlight(j) /\ judgement[j].sub = j => judgement[j].by # request[t].who

LockInv == ClaimsArePending /\ OneHolder /\ CancelsAreOpen /\ SubmitsAreAlone

-----------------------------------------------------------------------------
(* Most steps give back what they hold, or write rows that nobody else      *)
(* holds.                                                                   *)

Open == {"pending", "queued", "running"}

\* A row in use and undecided is written, by whoever may write it.
Written(j) ==
  /\ judgement[j].state \in Open /\ judgement'[j].state \in Open \cup {"done"}
  /\ judgement'[j].by = judgement[j].by
  /\ judgement'[j].sub = judgement[j].sub
  /\ judgement'[j].superseded = judgement[j].superseded
  /\ \A w \in Senders : Deciding(w)' => send[w].row # j
  /\ judgement'[j].state = "done" =>
       \A t \in Requests : Holds(t)' => request[t].who # judgement[j].by

Working ==
  /\ last' = last
  /\ \A j \in Rows : judgement'[j] = judgement[j] \/ Written(j)
  /\ \A w \in Senders : Deciding(w)' => Deciding(w) /\ send'[w].row = send[w].row
  /\ \A t \in Requests : Holds(t)' => Holds(t) /\ request'[t] = request[t]

LEMMA RowTypes ==
  ASSUME TypeInv, NEW j \in Rows
  PROVE  /\ judgement[j] \in Row
         /\ judgement[j].state \in Open \cup {"none", "done"}
         /\ j \in 1..last <=> judgement[j].state # "none"
         /\ judgement[j].state # "none" => judgement[j].sub \in 1..last
BY DEF TypeInv, TypeOK, RowsAreFilled, Row, RowStates, Rows, Open, Blank

LEMMA NobodyDecidesIdly ==
  ~ NoSend.at \in {"claimed", "sent"} /\ ~ NoRequest.at \in {"submitting", "cancelling"}
BY DEF NoSend, NoRequest

\* Steps that leave the rows alone and take nothing.
LEMMA IdleWork ==
  ASSUME TypeInv, UNCHANGED rows,
         \/ UNCHANGED send
         \/ \E w \in Senders : /\ \E s \in SendState : send' = [send EXCEPT ![w] = s]
                               /\ Deciding(w)' => Deciding(w) /\ send'[w].row = send[w].row,
         \/ UNCHANGED request
         \/ \E t \in Requests : \E r \in RequestState :
              ~ r.at \in {"submitting", "cancelling"} /\ request' = [request EXCEPT ![t] = r]
  PROVE  Working
<1>1. last' = last /\ judgement' = judgement
  BY DEF rows
<1>2. \A w \in Senders : Deciding(w)' => Deciding(w) /\ send'[w].row = send[w].row
  BY DEF Deciding, TypeInv, TypeOK
<1>3. \A t \in Requests : Holds(t)' => Holds(t) /\ request'[t] = request[t]
  BY DEF Holds, TypeInv, TypeOK
<1> QED BY <1>1, <1>2, <1>3 DEF Working

LEMMA CancelWriteWorks ==
  ASSUME TypeInv, LockInv, NEW t \in Requests, CancelWrite(t)
  PROVE  Working
<1> DEFINE r == request[t]
<1>1. r \in RequestState /\ r.at = "cancelling" /\ r.rows \subseteq Rows
  BY DEF CancelWrite, TypeInv, TypeOK, RequestState
<1>2. \A u \in Requests : Holds(u)' => u # t /\ Holds(u) /\ request'[u] = request[u]
  BY DEF CancelWrite, TypeInv, TypeOK, RequestState, Holds
<1>3. send' = send /\ last' = last
  BY DEF CancelWrite
<1>4. ASSUME NEW j \in Rows PROVE judgement'[j] = judgement[j] \/ Written(j)
  <2>1. CASE j \notin r.rows
    BY <2>1 DEF CancelWrite
  <2>2. CASE j \in r.rows
    <3>1. judgement[j] \in Row
      BY RowTypes
    <3>2. judgement'[j] = [judgement[j] EXCEPT !.state = "done", !.cancelled = TRUE,
                                               !.verdict = "cancelled"]
      BY <2>2 DEF CancelWrite
    <3>3. /\ judgement'[j].state = "done" /\ judgement'[j].by = judgement[j].by
          /\ judgement'[j].sub = judgement[j].sub
          /\ judgement'[j].superseded = judgement[j].superseded
      BY <3>1, <3>2 DEF Row
    <3>4. judgement[j].state \in Open /\ judgement[j].by = r.who
      BY <1>1, <2>2 DEF LockInv, CancelsAreOpen, Open
    <3>5. \A w \in Senders : Deciding(w)' => send[w].row # j
      BY <1>3, <2>2 DEF CancelWrite, Claimed, Deciding
    <3>6. \A u \in Requests : Holds(u)' => request[u].who # judgement[j].by
      BY <1>1, <1>2, <3>4 DEF LockInv, OneHolder, Holds
    <3> QED BY <3>3, <3>4, <3>5, <3>6 DEF Written
  <2> QED BY <2>1, <2>2
<1> QED BY <1>2, <1>3, <1>4 DEF Working, Deciding

LEMMA RecordJobWorks ==
  ASSUME TypeInv, LockInv, NEW w \in Senders, RecordJob(w)
  PROVE  Working
<1> DEFINE i == send[w].row
           new == [judgement[i] EXCEPT !.state = "queued", !.job = send[w].job]
<1>1. i \in Rows /\ Deciding(w) /\ judgement[i].state = "pending"
  BY JudgingAssumption DEF RecordJob, TypeInv, TypeOK, HeldRowsExist, Rows, Deciding, LockInv, ClaimsArePending
<1>2. judgement[i] \in Row
  BY <1>1, RowTypes
<1>3. judgement' = [judgement EXCEPT ![i] = new] /\ last' = last /\ request' = request
  BY DEF RecordJob
<1>4. /\ new.state = "queued" /\ new.by = judgement[i].by /\ new.sub = judgement[i].sub
      /\ new.superseded = judgement[i].superseded
  BY <1>2 DEF Row
<1>5. \A v \in Senders : Deciding(v)' => v # w /\ Deciding(v) /\ send'[v] = send[v]
  BY DEF RecordJob, TypeInv, TypeOK, Deciding, NoSend
<1>6. \A v \in Senders : Deciding(v)' => send[v].row # i
  BY <1>1, <1>5 DEF LockInv, ClaimsArePending
<1> HIDE DEF new, i
<1>7. judgement'[i] = new /\ \A j \in Rows \ {i} : judgement'[j] = judgement[j]
  BY <1>1, <1>3 DEF TypeInv, TypeOK
<1>8. Written(i)
  BY <1>1, <1>4, <1>6, <1>7 DEF Written, Open
<1>9. \A j \in Rows : judgement'[j] = judgement[j] \/ Written(j)
  BY <1>7, <1>8
<1>10. \A v \in Senders : Deciding(v)' => Deciding(v) /\ send'[v].row = send[v].row
  BY <1>5
<1>11. \A t \in Requests : Holds(t)' => Holds(t) /\ request'[t] = request[t]
  BY <1>3 DEF Holds
<1> QED BY <1>3, <1>9, <1>10, <1>11 DEF Working

\* A result or a refusal is written to a row nobody holds.
LEMMA WriteResultWorks ==
  ASSUME TypeInv, NEW j \in 1..last, NEW waiting, waiting => Waiting(j), NEW v,
         WriteResult(j, waiting, v), UNCHANGED <<last, request>>,
         \A w \in Senders : Deciding(w)' => Deciding(w) /\ send'[w].row = send[w].row
  PROVE  Working
<1>1. j \in Rows /\ judgement[j] \in Row /\ judgement[j].state \in Open \cup {"done"}
  BY JudgingAssumption, RowTypes DEF TypeInv, TypeOK, Rows
<1>2. CASE UNCHANGED judgement
  BY <1>2 DEF Working, Holds
<1>3. CASE /\ waiting /\ ~Claimed(j)
           /\ judgement' = [judgement EXCEPT ![j] = [judgement[j] EXCEPT !.state = "done", !.verdict = v]]
  <2> DEFINE new == [judgement[j] EXCEPT !.state = "done", !.verdict = v]
  <2>1. /\ new.state = "done" /\ new.by = judgement[j].by /\ new.sub = judgement[j].sub
        /\ new.superseded = judgement[j].superseded
    BY <1>1 DEF Row
  <2>2. judgement' = [judgement EXCEPT ![j] = new]
    BY <1>3
  <2> HIDE DEF new
  <2>3. judgement'[j] = new /\ \A i \in Rows \ {j} : judgement'[i] = judgement[i]
    BY <1>1, <2>2 DEF TypeInv, TypeOK
  <2>4. judgement[j].state \in Open
    BY <1>1, <1>3 DEF Waiting
  <2>5. \A t \in Requests : Holds(t)' => request[t].who # judgement[j].by
    BY DEF WriteResult, Locked, Holds
  <2>6. \A w \in Senders : Deciding(w)' => send[w].row # j
    BY <1>3 DEF Claimed, Deciding
  <2>7. Written(j)
    BY <2>1, <2>3, <2>4, <2>5, <2>6 DEF Written
  <2> QED BY <2>3, <2>7 DEF Working, Holds
<1> QED BY <1>2, <1>3 DEF WriteResult

LEMMA WriteRefusalWorks ==
  ASSUME TypeInv, NEW w \in Senders, WriteRefusal(w)
  PROVE  Working
<1>1. send[w].row \in 1..last
  BY DEF WriteRefusal, TypeInv, HeldRowsExist
<1>2. \A v \in Senders : Deciding(v)' => Deciding(v) /\ send'[v].row = send[v].row
  BY DEF WriteRefusal, TypeInv, TypeOK, Deciding, NoSend
<1> QED BY <1>1, <1>2, WriteResultWorks DEF WriteRefusal

\* What a poll reports, other than a result, is written to a row on the judge.
LEMMA ReportWorks ==
  ASSUME TypeInv, LockInv, NEW j \in Rows, NEW k, OnTheJudge(j, k), NEW new,
         judgement' = [judgement EXCEPT ![j] = new], new.state \in Open,
         new.by = judgement[j].by, new.sub = judgement[j].sub,
         new.superseded = judgement[j].superseded,
         UNCHANGED <<last, send, request>>
  PROVE  Working
<1>1. judgement'[j] = new /\ \A i \in Rows \ {j} : judgement'[i] = judgement[i]
  BY DEF TypeInv, TypeOK
<1>2. judgement[j].state \in {"queued", "running"}
  BY DEF OnTheJudge
<1>3. \A w \in Senders : Deciding(w)' => send[w].row # j
  BY <1>2 DEF Deciding, LockInv, ClaimsArePending
<1>4. Written(j)
  BY <1>1, <1>2, <1>3 DEF Written, Open
<1> QED BY <1>1, <1>4 DEF Working, Deciding, Holds

LEMMA PollWriteWorks ==
  ASSUME TypeInv, LockInv, NEW w \in Pollers, PollWrite(w)
  PROVE  Working
<1> DEFINE j == poll[w].row
           k == poll[w].job
<1>1. poll[w] # NoPoll
  BY JudgingAssumption DEF PollWrite, NoPoll
<1>2. j \in 1..last /\ j \in Rows
  BY <1>1, JudgingAssumption DEF TypeInv, TypeOK, HeldRowsExist, Rows
<1>3. UNCHANGED <<last, send, request>>
  BY DEF PollWrite
<1>4. judgement[j] \in Row
  BY <1>2, RowTypes
<1>5. CASE UNCHANGED judgement
  BY <1>3, <1>5 DEF Working, Deciding, Holds
<1>6. CASE Resubmit(j, k) /\ OnTheJudge(j, k)
  <2> DEFINE new == [judgement[j] EXCEPT !.state = "pending", !.job = NoJob]
  <2>1. judgement' = [judgement EXCEPT ![j] = new]
    BY <1>6 DEF Resubmit
  <2>2. /\ new.state = "pending" /\ new.by = judgement[j].by /\ new.sub = judgement[j].sub
        /\ new.superseded = judgement[j].superseded
    BY <1>4 DEF Row
  <2> HIDE DEF new, j, k
  <2> QED BY <1>2, <1>3, <1>6, <2>1, <2>2, ReportWorks DEF Open
<1>7. ASSUME NEW s \in {"queued", "running"}, OnTheJudge(j, k), judgement' = [judgement EXCEPT ![j].state = s]
      PROVE  Working
  <2> DEFINE new == [judgement[j] EXCEPT !.state = s]
  <2>1. judgement' = [judgement EXCEPT ![j] = new]
    BY <1>2, <1>7 DEF TypeInv, TypeOK
  <2>2. /\ new.state = s /\ new.by = judgement[j].by /\ new.sub = judgement[j].sub
        /\ new.superseded = judgement[j].superseded
    BY <1>4 DEF Row
  <2> HIDE DEF new, j, k
  <2> QED BY <1>2, <1>3, <1>7, <2>1, <2>2, ReportWorks DEF Open
<1>8. CASE WriteResult(j, StillWaiting(j, k), poll[w].answer)
  <2>1. StillWaiting(j, k) => Waiting(j)
    BY DEF StillWaiting
  <2> HIDE DEF j, k
  <2> QED BY <1>2, <1>3, <1>8, <2>1, WriteResultWorks DEF Deciding
<1> QED BY <1>5, <1>6, <1>7, <1>8 DEF PollWrite, Resubmit, WriteProgress

-----------------------------------------------------------------------------
(* Taking a row or a participant.                                           *)

LEMMA LockInvInit == Init => LockInv
BY DEF Init, LockInv, ClaimsArePending, OneHolder, CancelsAreOpen, SubmitsAreAlone, Deciding, Holds,
       NoSend, NoRequest

LEMMA WorkKeepsLocks ==
  ASSUME TypeInv, LockInv, Working
  PROVE  LockInv'
<1>1. ClaimsArePending'
  <2> SUFFICES ASSUME NEW w \in Senders, Deciding(w)'
               PROVE  /\ judgement'[send'[w].row].state = "pending"
                      /\ \A v \in Senders \ {w} : Deciding(v)' => send'[v].row # send'[w].row
    BY DEF ClaimsArePending, Deciding
  <2>1. Deciding(w) /\ send'[w].row = send[w].row
    BY DEF Working
  <2>2. send[w].row \in Rows
    BY <2>1, JudgingAssumption DEF Deciding, TypeInv, TypeOK, HeldRowsExist, Rows
  <2>3. judgement'[send[w].row] = judgement[send[w].row]
    BY <2>2 DEF Working, Written
  <2>4. judgement[send[w].row].state = "pending"
    BY <2>1 DEF LockInv, ClaimsArePending
  <2>5. \A v \in Senders \ {w} : Deciding(v)' => send'[v].row # send'[w].row
    BY <2>1 DEF Working, LockInv, ClaimsArePending
  <2> QED BY <2>1, <2>3, <2>4, <2>5
<1>2. OneHolder'
  BY DEF Working, LockInv, OneHolder, Holds
<1>3. CancelsAreOpen'
  <2> SUFFICES ASSUME NEW t \in Requests, request'[t].at = "cancelling", NEW j \in request'[t].rows
               PROVE  /\ judgement'[j].by = request'[t].who
                      /\ judgement'[j].state \in {"pending", "queued", "running"}
    BY DEF CancelsAreOpen
  <2>1. Holds(t)' /\ request'[t] = request[t]
    BY DEF Working, Holds
  <2>2. /\ judgement[j].by = request[t].who
        /\ judgement[j].state \in {"pending", "queued", "running"}
        /\ j \in Rows
    BY <2>1 DEF LockInv, CancelsAreOpen, TypeInv, TypeOK, RequestState
  <2> QED BY <2>1, <2>2 DEF Working, Written, Open
<1>4. SubmitsAreAlone'
  <2> SUFFICES ASSUME NEW t \in Requests, request'[t].at = "submitting",
                      NEW j \in Rows, InFlight(j)', judgement'[j].sub = j
               PROVE  judgement'[j].by # request'[t].who
    BY DEF SubmitsAreAlone
  <2>1. request'[t] = request[t]
    BY DEF Working, Holds
  <2>2. InFlight(j) /\ judgement[j].sub = j /\ judgement'[j].by = judgement[j].by
    BY DEF Working, Written, InFlight, Open
  <2> QED BY <2>1, <2>2 DEF LockInv, SubmitsAreAlone
<1> QED BY <1>1, <1>2, <1>3, <1>4 DEF LockInv

LEMMA ClaimKeepsLocks ==
  ASSUME TypeInv, LockInv, NEW w \in Senders, Claim(w)
  PROVE  LockInv'
<1> DEFINE new(j) == [NoSend EXCEPT !.at = "claimed", !.row = j]
<1>1. PICK j \in Claimable : send' = [send EXCEPT ![w] = new(j)]
  BY DEF Claim, Oldest
<1>2. /\ judgement[j].state = "pending"
      /\ \A v \in Senders : Deciding(v) => send[v].row # j
  BY DEF Claimable, Claimed, Deciding
<1>3. new(j).row = j /\ new(j).at = "claimed"
  BY DEF NoSend
<1> HIDE DEF new
<1>4. send'[w] = new(j) /\ \A v \in Senders \ {w} : send'[v] = send[v]
  BY <1>1 DEF TypeInv, TypeOK
<1>5. judgement' = judgement /\ request' = request
  BY DEF Claim, rows
<1>6. ClaimsArePending'
  BY <1>2, <1>3, <1>4, <1>5 DEF LockInv, ClaimsArePending, Deciding
<1> QED BY <1>5, <1>6 DEF LockInv, OneHolder, CancelsAreOpen, SubmitsAreAlone, Holds, InFlight

\* A participant is taken when nobody holds it.
LEMMA TakingKeepsLocks ==
  ASSUME TypeInv, LockInv, NEW t \in Requests, NEW p \in Participants, ~Locked(p),
         UNCHANGED <<judgement, send>>, NEW new \in RequestState,
         request' = [request EXCEPT ![t] = new], new.who = p,
         \/ new.at = "submitting" /\ NothingInFlight(p)
         \/ new.at = "cancelling" /\ \A j \in new.rows : InFlight(j) /\ judgement[j].by = p
  PROVE  LockInv'
<1>1. request'[t] = new /\ \A u \in Requests \ {t} : request'[u] = request[u]
  BY DEF TypeInv, TypeOK
<1>2. OneHolder'
  BY <1>1 DEF LockInv, OneHolder, Holds, Locked
<1>3. CancelsAreOpen'
  BY <1>1 DEF LockInv, CancelsAreOpen, InFlight
<1>4. SubmitsAreAlone'
  BY <1>1 DEF LockInv, SubmitsAreAlone, InFlight, NothingInFlight
<1> QED BY <1>2, <1>3, <1>4 DEF LockInv, ClaimsArePending, Deciding

LEMMA SubmitCheckKeepsLocks ==
  ASSUME TypeInv, LockInv, NEW t \in Requests, NEW p \in Participants, NEW q \in Questions,
         SubmitCheck(t, p, q)
  PROVE  LockInv'
<1> DEFINE new == [NoRequest EXCEPT !.at = "submitting", !.who = p, !.question = q]
<1>1. new \in RequestState /\ new.at = "submitting" /\ new.who = p
  BY DEF NoRequest, RequestState
<1>2. request' = [request EXCEPT ![t] = new] /\ UNCHANGED <<judgement, send>>
  BY DEF SubmitCheck, rows
<1>3. ~Locked(p) /\ NothingInFlight(p)
  BY DEF SubmitCheck
<1> HIDE DEF new
<1> QED BY <1>1, <1>2, <1>3, TakingKeepsLocks

LEMMA CancelReadKeepsLocks ==
  ASSUME TypeInv, LockInv, NEW t \in Requests, NEW p \in Participants, CancelRead(t, p)
  PROVE  LockInv'
<1> DEFINE mine == {j \in Rows : InFlight(j) /\ judgement[j].by = p}
           stop == {judgement[j].job : j \in mine} \ {NoJob}
           new == [NoRequest EXCEPT !.at = "cancelling", !.who = p, !.rows = mine, !.jobs = stop]
<1>1. mine \in SUBSET Rows /\ stop \in SUBSET Jobs
  BY DEF TypeInv, TypeOK, Row
<1>2. \A j \in mine : InFlight(j) /\ judgement[j].by = p
  OBVIOUS
<1>3. request' = [request EXCEPT ![t] = new] /\ UNCHANGED <<judgement, send>> /\ ~Locked(p)
  BY DEF CancelRead, rows
<1> HIDE DEF mine, stop
<1>4. new \in RequestState /\ new.at = "cancelling" /\ new.who = p /\ new.rows = mine
  BY <1>1 DEF NoRequest, RequestState
<1> HIDE DEF new
<1> QED BY <1>2, <1>3, <1>4, TakingKeepsLocks

-----------------------------------------------------------------------------
(* Rows that are inserted.                                                  *)

LEMMA SubmitInsertRows ==
  ASSUME TypeInv, NEW t \in Requests, SubmitInsert(t)
  PROVE  \E j \in Rows :
           /\ j = last + 1 /\ last' = j /\ last \in Nat
           /\ judgement[j].state = "none" /\ judgement[j].job = NoJob
           /\ judgement'[j] = Pending(request[t].who, request[t].question, j)
           /\ \A i \in Rows \ {j} : judgement'[i] = judgement[i]
           /\ \A i \in Rows : judgement[i].state # "none" => judgement[i].sub \in 1..last
           /\ request[t].at = "submitting" /\ request'[t] = NoRequest
           /\ \A u \in Requests \ {t} : request'[u] = request[u]
           /\ send' = send
<1>1. last + 1 \in Rows /\ last \in Nat
  BY DEF SubmitInsert, TypeInv, TypeOK
<1>2. judgement[last + 1] = Blank
  BY <1>1 DEF TypeInv, RowsAreFilled
<1>3. \A i \in Rows : judgement[i].state # "none" => judgement[i].sub \in 1..last
  BY RowTypes
<1> QED BY <1>1, <1>2, <1>3 DEF SubmitInsert, TypeInv, TypeOK, Blank

LEMMA SubmitInsertKeepsLocks ==
  ASSUME TypeInv, LockInv, NEW t \in Requests, SubmitInsert(t)
  PROVE  LockInv'
<1>1. PICK j \in Rows :
           /\ j = last + 1 /\ last' = j /\ last \in Nat
           /\ judgement[j].state = "none"
           /\ judgement'[j] = Pending(request[t].who, request[t].question, j)
           /\ \A i \in Rows \ {j} : judgement'[i] = judgement[i]
           /\ request[t].at = "submitting" /\ request'[t] = NoRequest
           /\ \A u \in Requests \ {t} : request'[u] = request[u]
           /\ send' = send
  BY SubmitInsertRows
<1>2. ~Holds(t)' /\ Holds(t)
  BY <1>1, NobodyDecidesIdly DEF Holds
<1>3. /\ judgement'[j].state = "pending" /\ judgement'[j].by = request[t].who
  <2> DEFINE new == Pending(request[t].who, request[t].question, j)
  <2>1. new.state = "pending" /\ new.by = request[t].who
    BY DEF Pending, Blank
  <2>2. judgement'[j] = new
    BY <1>1
  <2> HIDE DEF new
  <2> QED BY <2>1, <2>2
<1>4. ClaimsArePending'
  <2>1. \A w \in Senders : Deciding(w) => send[w].row \in Rows
    BY JudgingAssumption DEF Deciding, TypeInv, TypeOK, HeldRowsExist, Rows
  <2> QED BY <1>1, <2>1 DEF LockInv, ClaimsArePending, Deciding
<1>5. OneHolder'
  BY <1>1, <1>2 DEF LockInv, OneHolder, Holds
<1>6. CancelsAreOpen'
  <2> SUFFICES ASSUME NEW u \in Requests, request'[u].at = "cancelling", NEW i \in request'[u].rows
               PROVE  /\ judgement'[i].by = request'[u].who
                      /\ judgement'[i].state \in {"pending", "queued", "running"}
    BY DEF CancelsAreOpen
  <2>1. u # t /\ request'[u] = request[u]
    BY <1>1, <1>2 DEF Holds
  <2>2. /\ judgement[i].by = request[u].who /\ judgement[i].state \in {"pending", "queued", "running"}
        /\ i \in Rows
    BY <2>1 DEF LockInv, CancelsAreOpen, TypeInv, TypeOK, RequestState
  <2> QED BY <1>1, <2>1, <2>2
<1>7. SubmitsAreAlone'
  <2> SUFFICES ASSUME NEW u \in Requests, request'[u].at = "submitting",
                      NEW i \in Rows, InFlight(i)', judgement'[i].sub = i
               PROVE  judgement'[i].by # request'[u].who
    BY DEF SubmitsAreAlone
  <2>1. u # t /\ request'[u] = request[u] /\ Holds(u)
    BY <1>1, <1>2 DEF Holds
  <2>2. CASE i = j
    BY <1>2, <1>3, <2>1, <2>2 DEF LockInv, OneHolder
  <2>3. CASE i # j
    BY <1>1, <2>1, <2>3 DEF LockInv, SubmitsAreAlone, InFlight
  <2> QED BY <2>2, <2>3
<1> QED BY <1>4, <1>5, <1>6, <1>7 DEF LockInv

\* The rows a rejudge writes are current ones that nobody sends, and fresh ones.
LEMMA RejudgedRows ==
  ASSUME TypeInv, NEW subs \in SUBSET (1..last), NEW n \in Nat, NEW sub,
         last + n \in 0..MaxRows, Rejudged(subs, n, sub), NEW j \in Rows
  PROVE  \/ judgement'[j] = judgement[j] /\ ~(Current(j) /\ judgement[j].sub \in subs)
         \/ /\ Current(j) /\ judgement[j].sub \in subs /\ ~Claimed(j)
            /\ judgement'[j] = [judgement[j] EXCEPT !.superseded = TRUE]
         \/ /\ j \in last + 1 .. last + n /\ judgement[j] = Blank
            /\ sub[j] \in subs /\ sub[j] < j
            /\ judgement'[j] = Pending(judgement[sub[j]].by, judgement[sub[j]].question, sub[j])
<1>1. last \in Nat
  BY DEF TypeInv, TypeOK
<1>2. CASE j \in CurrentRows(subs)
  BY <1>2 DEF Rejudged, CurrentRows
<1>3. CASE j \notin CurrentRows(subs) /\ j \notin last + 1 .. last + n
  BY <1>3 DEF Rejudged, CurrentRows
<1>4. CASE j \notin CurrentRows(subs) /\ j \in last + 1 .. last + n
  <2>1. sub[j] \in subs
    BY <1>4 DEF Rejudged, Bijection, Injection, Surjection
  <2>2. sub[j] < j
    <3>1. sub[j] \in 1..last
      BY <2>1
    <3> QED BY <1>1, <1>4, <3>1
  <2>3. judgement[j] = Blank
    BY <1>1, <1>4 DEF TypeInv, RowsAreFilled
  <2> QED BY <1>4, <2>1, <2>2, <2>3 DEF Rejudged
<1> QED BY <1>2, <1>3, <1>4

LEMMA RejudgeWriteKeepsLocks ==
  ASSUME TypeInv, LockInv, NEW o \in Organisers, RejudgeWrite(o)
  PROVE  LockInv'
<1>1. PICK subs \in SUBSET (1..last), n \in Nat :
        \E sub : last + n \in 0..MaxRows /\ Rejudged(subs, n, sub)
  BY RejudgeWriteRows
<1>2. PICK sub : last + n \in 0..MaxRows /\ Rejudged(subs, n, sub)
  BY <1>1
<1>3. send' = send /\ request' = request
  BY DEF RejudgeWrite
<1>4. ASSUME NEW j \in Rows, judgement[j].state # "none"
      PROVE  /\ judgement'[j].state = judgement[j].state /\ judgement'[j].by = judgement[j].by
             /\ judgement'[j].sub = judgement[j].sub
             /\ InFlight(j)' => InFlight(j)
  <2>1. judgement[j] \in Row
    BY RowTypes
  <2>2. \/ judgement'[j] = judgement[j]
        \/ judgement'[j] = [judgement[j] EXCEPT !.superseded = TRUE]
    BY <1>2, <1>4, RejudgedRows DEF Blank
  <2> QED BY <2>1, <2>2 DEF Row, InFlight
<1>5. ASSUME NEW j \in Rows, judgement[j].state = "none", InFlight(j)'
      PROVE  judgement'[j].sub # j
  <2>1. judgement'[j] # judgement[j]
    BY <1>5 DEF InFlight
  <2>2. PICK s \in subs : s < j /\ judgement'[j] = Pending(judgement[s].by, judgement[s].question, s)
    BY <1>2, <1>5, <2>1, RejudgedRows DEF Current
  <2>3. Pending(judgement[s].by, judgement[s].question, s).sub = s
    BY DEF Pending, Blank
  <2> QED BY <2>2, <2>3
<1>6. \A j \in 1..last : j \in Rows /\ judgement[j].state # "none"
  BY JudgingAssumption DEF TypeInv, TypeOK, RowsAreFilled, Rows
<1>7. ClaimsArePending'
  <2>1. \A w \in Senders : Deciding(w) => send[w].row \in 1..last
    BY DEF TypeInv, HeldRowsExist, Deciding
  <2> QED BY <1>3, <1>4, <1>6, <2>1 DEF LockInv, ClaimsArePending, Deciding
<1>8. CancelsAreOpen'
  <2>1. \A t \in Requests : request[t].rows \subseteq 1..last
    BY DEF TypeInv, HeldRowsExist
  <2> QED BY <1>3, <1>4, <1>6, <2>1 DEF LockInv, CancelsAreOpen
<1>9. SubmitsAreAlone'
  BY <1>3, <1>4, <1>5 DEF LockInv, SubmitsAreAlone
<1> QED BY <1>3, <1>7, <1>8, <1>9 DEF LockInv, OneHolder, Holds

-----------------------------------------------------------------------------
(* Every step.                                                              *)

\* Sending, asking and the judge's own steps.
LEMMA SenderWorks ==
  ASSUME TypeInv, NEW w \in Senders, JudgeAccepts(w) \/ SendFails(w) \/ JudgeRejects(w)
  PROVE  Working
<1>1. UNCHANGED rows /\ UNCHANGED request
  BY DEF JudgeAccepts, SendFails, JudgeRejects
<1>2. PICK s \in {[send[w] EXCEPT !.at = "sent", !.job = k] : k \in Jobs}
                   \cup {NoSend, [send[w] EXCEPT !.at = "refused"]} : send' = [send EXCEPT ![w] = s]
  <2>1. CASE JudgeAccepts(w)
    BY <2>1 DEF JudgeAccepts
  <2>2. CASE SendFails(w)
    BY <2>2 DEF SendFails
  <2>3. CASE JudgeRejects(w)
    BY <2>3 DEF JudgeRejects, TypeInv, TypeOK
  <2> QED BY <2>1, <2>2, <2>3
<1>3. Deciding(w) /\ send[w] \in SendState
  BY DEF JudgeAccepts, SendFails, JudgeRejects, Deciding, TypeInv, TypeOK
<1>4. s \in SendState /\ (s.at \in {"claimed", "sent"} => s.row = send[w].row)
  <2>1. NoSend \in SendState /\ NoSend.at = "idle"
    BY DEF SendState, NoSend
  <2>2. \A k \in Jobs : LET new == [send[w] EXCEPT !.at = "sent", !.job = k]
                        IN  new \in SendState /\ new.row = send[w].row
    BY <1>3 DEF SendState
  <2>3. [send[w] EXCEPT !.at = "refused"] \in SendState /\ [send[w] EXCEPT !.at = "refused"].at = "refused"
    BY <1>3 DEF SendState
  <2>4. CASE s \in {[send[w] EXCEPT !.at = "sent", !.job = k] : k \in Jobs}
    BY <2>2, <2>4
  <2>5. CASE s = NoSend \/ s = [send[w] EXCEPT !.at = "refused"]
    BY <2>1, <2>3, <2>5
  <2> QED BY <2>4, <2>5
<1>5. send'[w] = s
  BY <1>2 DEF TypeInv, TypeOK
<1> QED BY <1>1, <1>2, <1>3, <1>4, <1>5, IdleWork DEF Deciding

LEMMA RequestWorks ==
  ASSUME TypeInv, NEW t \in Requests, CancelStop(t)
  PROVE  Working
<1>1. NoRequest \in RequestState
  BY DEF NoRequest, RequestState
<1> QED BY <1>1, NobodyDecidesIdly, IdleWork DEF CancelStop

LEMMA CrashWorks ==
  ASSUME TypeInv, Crash
  PROVE  Working
<1>1. NoRequest \in RequestState /\ NoSend \in SendState
  BY DEF NoRequest, RequestState, NoSend, SendState
<1>2. UNCHANGED rows
  BY DEF Crash
<1>3. \A w \in Senders : send' = [send EXCEPT ![w] = NoSend] => ~Deciding(w)'
  BY NobodyDecidesIdly DEF TypeInv, TypeOK, Deciding
<1> QED BY <1>1, <1>2, <1>3, NobodyDecidesIdly, IdleWork DEF Crash

LEMMA OtherWorks ==
  ASSUME TypeInv,
         \/ \E w \in Pollers : (\E j \in Rows : PollRead(w, j)) \/ PollAsk(w)
         \/ \E o \in Organisers : (\E q \in Questions : RejudgeRead(o, q)) \/ RejudgeStop(o)
         \/ \E k \in Jobs : Running(k) \/ JobExpires(k)
         \/ JudgeRestarts
         \/ UNCHANGED vars
  PROVE  Working
<1>1. UNCHANGED rows /\ UNCHANGED send /\ UNCHANGED request
  BY DEF PollRead, PollAsk, RejudgeRead, RejudgeStop, Running, JobStarts, JobEnds, JobExpires,
         JudgeRestarts, vars, threads
<1> QED BY <1>1, IdleWork

\* The steps that take a row or a participant, or insert rows, and all the others.
LEMMA EveryStep ==
  ASSUME TypeInv, LockInv, [Next]_vars
  PROVE  \/ Working
         \/ \E w \in Senders : Claim(w)
         \/ \E t \in Requests, p \in Participants, q \in Questions : SubmitCheck(t, p, q)
         \/ \E t \in Requests, p \in Participants : CancelRead(t, p)
         \/ \E t \in Requests : SubmitInsert(t)
         \/ \E o \in Organisers : RejudgeWrite(o)
<1>1. CASE \E t \in Requests : Serving(t)
  BY <1>1, CancelWriteWorks, RequestWorks, Zenon DEF Serving
<1>2. CASE \E w \in Senders : Sending(w) \/ SendFails(w) \/ JudgeRejects(w)
  BY <1>2, SenderWorks, RecordJobWorks, WriteRefusalWorks, Zenon DEF Sending
<1>3. CASE \E w \in Pollers : Polling(w)
  BY <1>3, OtherWorks, PollWriteWorks, Zenon DEF Polling
<1>4. CASE \/ \E o \in Organisers, q \in Questions : RejudgeRead(o, q)
           \/ \E o \in Organisers : Rejudging(o)
  BY <1>4, OtherWorks, Zenon DEF Rejudging
<1>5. CASE \E k \in Jobs : Running(k) \/ JobExpires(k)
  BY <1>5, OtherWorks, Zenon
<1>6. CASE JudgeRestarts \/ UNCHANGED vars
  BY <1>6, OtherWorks, Zenon
<1>7. CASE Crash
  BY <1>7, CrashWorks
<1> QED BY <1>1, <1>2, <1>3, <1>4, <1>5, <1>6, <1>7, Zenon DEF Next, Failing

LEMMA LockInvStep ==
  ASSUME TypeInv, LockInv, [Next]_vars
  PROVE  LockInv'
BY EveryStep, WorkKeepsLocks, ClaimKeepsLocks, SubmitCheckKeepsLocks, CancelReadKeepsLocks,
   SubmitInsertKeepsLocks, RejudgeWriteKeepsLocks, Zenon

LEMMA LockInvHolds == Spec => [](TypeInv /\ LockInv)
<1>1. Init => TypeInv /\ LockInv
  BY TypeInvInit, LockInvInit
<1>2. TypeInv /\ LockInv /\ [Next]_vars => (TypeInv /\ LockInv)'
  BY TypeInvStep, LockInvStep
<1> QED BY <1>1, <1>2, PTL DEF Spec

-----------------------------------------------------------------------------
(* The theorems about rows.                                                 *)

\* Taking a row or a participant writes nothing.
LEMMA TakingWritesNothing ==
  ASSUME TypeInv,
         \/ \E w \in Senders : Claim(w)
         \/ \E t \in Requests, p \in Participants, q \in Questions : SubmitCheck(t, p, q)
         \/ \E t \in Requests, p \in Participants : CancelRead(t, p)
  PROVE  judgement' = judgement
BY DEF Claim, SubmitCheck, CancelRead, rows

\* A judgement that is done is never decided again, whoever still has an old answer,
\* a refusal, a cancel or a claim of it in hand (_write_result, cancel_in_flight,
\* send_one): only a rejudge marks it superseded.
THEOREM DecidedForGood == Spec => VerdictIsFinal
<1> DEFINE Final == \A j \in Rows : judgement[j].state = "done" =>
              judgement'[j] = [judgement[j] EXCEPT !.superseded = judgement'[j].superseded]
<1>1. ASSUME TypeInv, LockInv, [Next]_vars
      PROVE  Final
  <2> SUFFICES ASSUME NEW j \in Rows, judgement[j].state = "done"
               PROVE  judgement'[j] = [judgement[j] EXCEPT !.superseded = judgement'[j].superseded]
    OBVIOUS
  <2>1. judgement[j] \in Row
    BY <1>1, RowTypes
  <2>2. \/ judgement'[j] = judgement[j]
        \/ judgement'[j] = [judgement[j] EXCEPT !.superseded = TRUE]
    <3>1. CASE Working
      BY <3>1 DEF Working, Written, Open
    <3>2. CASE \E t \in Requests : SubmitInsert(t)
      BY <1>1, <3>2, SubmitInsertRows
    <3>3. CASE \E o \in Organisers : RejudgeWrite(o)
      <4>1. PICK subs \in SUBSET (1..last), n \in Nat :
              \E sub : last + n \in 0..MaxRows /\ Rejudged(subs, n, sub)
        BY <1>1, <3>3, RejudgeWriteRows
      <4>2. PICK sub : last + n \in 0..MaxRows /\ Rejudged(subs, n, sub)
        BY <4>1
      <4>3. judgement[j] # Blank
        BY DEF Blank
      <4> HIDE DEF Final
      <4> QED BY <1>1, <4>2, <4>3, RejudgedRows
    <3> QED BY <1>1, <3>1, <3>2, <3>3, EveryStep, TakingWritesNothing, Zenon
  <2> QED BY <2>1, <2>2 DEF Row
<1>2. TypeInv /\ LockInv /\ [Next]_vars => [Final]_vars
  BY <1>1
<1> QED BY <1>2, LockInvHolds, PTL DEF Spec, VerdictIsFinal

\* However many windows a participant submits from, one submission of their own making
\* is in flight: submit holds the participant's row from its check to its insert.
THEOREM OneAtATime == Spec => []OneSubmissionInFlight
<1>1. Init => OneSubmissionInFlight
  BY DEF Init, OneSubmissionInFlight, InFlight, Blank
<1>2. ASSUME TypeInv, LockInv, OneSubmissionInFlight, [Next]_vars
      PROVE  OneSubmissionInFlight'
  <2>1. CASE Working
    <3>1. \A j \in Rows : /\ InFlight(j)' => InFlight(j)
                          /\ judgement'[j].by = judgement[j].by /\ judgement'[j].sub = judgement[j].sub
      BY <2>1 DEF Working, Written, InFlight, Open
    <3> QED BY <1>2, <3>1 DEF OneSubmissionInFlight
  <2>2. CASE \E t \in Requests : SubmitInsert(t)
    <3>1. PICK t \in Requests : SubmitInsert(t)
      BY <2>2
    <3>2. PICK j \in Rows :
           /\ judgement'[j] = Pending(request[t].who, request[t].question, j)
           /\ \A i \in Rows \ {j} : judgement'[i] = judgement[i]
           /\ request[t].at = "submitting"
      BY <1>2, <3>1, SubmitInsertRows
    <3>3. judgement'[j].by = request[t].who
      <4> DEFINE new == Pending(request[t].who, request[t].question, j)
      <4>1. new.by = request[t].who
        BY DEF Pending, Blank
      <4>2. judgement'[j] = new
        BY <3>2
      <4> HIDE DEF new
      <4> QED BY <4>1, <4>2
    <3>4. \A i \in Rows \ {j} :
            InFlight(i)' /\ judgement'[i].sub = i => judgement'[i].by # judgement'[j].by
      BY <1>2, <3>2, <3>3 DEF LockInv, SubmitsAreAlone, InFlight
    <3> QED BY <1>2, <3>2, <3>4 DEF OneSubmissionInFlight, InFlight
  <2>3. CASE \E o \in Organisers : RejudgeWrite(o)
    <3>1. PICK subs \in SUBSET (1..last), n \in Nat :
            \E sub : last + n \in 0..MaxRows /\ Rejudged(subs, n, sub)
      BY <1>2, <2>3, RejudgeWriteRows
    <3>2. ASSUME NEW j \in Rows, InFlight(j)', judgement'[j].sub = j
          PROVE  InFlight(j) /\ judgement[j].sub = j /\ judgement'[j].by = judgement[j].by
      <4>1. judgement[j] \in Row
        BY <1>2, RowTypes
      <4>2. CASE judgement'[j] = judgement[j]
        BY <3>2, <4>2 DEF InFlight
      <4>3. CASE judgement'[j] = [judgement[j] EXCEPT !.superseded = TRUE]
        BY <3>2, <4>1, <4>3 DEF InFlight, Row
      <4>4. CASE \E s : s < j /\ judgement'[j] = Pending(judgement[s].by, judgement[s].question, s)
        <5>1. PICK s : s < j /\ judgement'[j] = Pending(judgement[s].by, judgement[s].question, s)
          BY <4>4
        <5>2. Pending(judgement[s].by, judgement[s].question, s).sub = s
          BY DEF Pending, Blank
        <5> QED BY <3>2, <5>1, <5>2 DEF Rows
      <4> QED BY <1>2, <3>1, <4>2, <4>3, <4>4, RejudgedRows
    <3> QED BY <1>2, <3>2 DEF OneSubmissionInFlight
  <2>4. CASE judgement' = judgement
    BY <1>2, <2>4 DEF OneSubmissionInFlight, InFlight
  <2> QED BY <1>2, <2>1, <2>2, <2>3, <2>4, EveryStep, TakingWritesNothing, Zenon
<1>3. TypeInv /\ LockInv /\ OneSubmissionInFlight /\ [Next]_vars => OneSubmissionInFlight'
  BY <1>2
<1> QED BY <1>1, <1>3, LockInvHolds, PTL DEF Spec

\* However rejudges of the same question wait for each other, each submission has one
\* current judgement: the loser finds the row superseded and passes it over.
THEOREM NeverNoneNeverTwo == Spec => []OneCurrentJudgement
<1>1. Init => OneCurrentJudgement
  BY DEF Init, OneCurrentJudgement, Submissions, Blank
<1>2. ASSUME TypeInv, LockInv, OneCurrentJudgement, [Next]_vars
      PROVE  OneCurrentJudgement'
  <2> SUFFICES ASSUME NEW s \in Submissions'
               PROVE  \E j \in Rows : CurrentRows({s})' = {j}
    BY DEF OneCurrentJudgement
  <2>a. \A j \in Rows : judgement[j] \in Row
    BY <1>2, RowTypes
  <2>1. CASE Working \/ judgement' = judgement
    <3>1. \A j \in Rows : /\ Current(j)' <=> Current(j)
                          /\ judgement'[j].sub = judgement[j].sub
      BY <2>1 DEF Working, Written, Current, Open
    <3>2. s \in Submissions /\ CurrentRows({s})' = CurrentRows({s})
      BY <3>1 DEF Submissions, CurrentRows
    <3> QED BY <1>2, <3>2 DEF OneCurrentJudgement
  <2>2. CASE \E t \in Requests : SubmitInsert(t)
    <3>1. PICK t \in Requests : SubmitInsert(t)
      BY <2>2
    <3>2. PICK i \in Rows :
           /\ i = last + 1 /\ last \in Nat /\ judgement[i].state = "none"
           /\ judgement'[i] = Pending(request[t].who, request[t].question, i)
           /\ \A j \in Rows \ {i} : judgement'[j] = judgement[j]
           /\ \A j \in Rows : judgement[j].state # "none" => judgement[j].sub \in 1..last
      BY <1>2, <3>1, SubmitInsertRows
    <3>3. judgement'[i].sub = i /\ judgement'[i].state = "pending" /\ ~judgement'[i].superseded
      <4> DEFINE new == Pending(request[t].who, request[t].question, i)
      <4>1. new.sub = i /\ new.state = "pending" /\ ~new.superseded
        BY DEF Pending, Blank
      <4>2. judgement'[i] = new
        BY <3>2
      <4> HIDE DEF new
      <4> QED BY <4>1, <4>2
    <3>4. CASE s = i
      <4>1. \A j \in Rows : Current(j)' /\ judgement'[j].sub = s <=> j = i
        BY <3>2, <3>3, <3>4 DEF Current
      <4>2. CurrentRows({s})' = {i}
        BY <4>1 DEF CurrentRows
      <4> QED BY <4>2
    <3>5. CASE s # i
      <4>1. CurrentRows({s})' = CurrentRows({s})
        <5>1. \A j \in Rows : Current(j)' /\ judgement'[j].sub = s <=> Current(j) /\ judgement[j].sub = s
          BY <3>2, <3>3, <3>5 DEF Current
        <5> QED BY <5>1 DEF CurrentRows
      <4>2. s \in Submissions
        BY <3>2, <3>3, <3>5 DEF Submissions
      <4> QED BY <1>2, <4>1, <4>2 DEF OneCurrentJudgement
    <3> QED BY <3>4, <3>5
  <2>3. CASE \E o \in Organisers : RejudgeWrite(o)
    <3>1. PICK subs \in SUBSET (1..last), n \in Nat :
            \E sub : last + n \in 0..MaxRows /\ Rejudged(subs, n, sub)
      BY <1>2, <2>3, RejudgeWriteRows
    <3>2. PICK sub : last + n \in 0..MaxRows /\ Rejudged(subs, n, sub)
      BY <3>1
    <3> DEFINE fresh == last + 1 .. last + n
    <3>3. fresh \subseteq Rows /\ sub \in Bijection(fresh, subs)
      <4>1. last \in Nat /\ MaxRows \in Nat
        BY <1>2, JudgingAssumption DEF TypeInv, TypeOK
      <4>2. fresh \subseteq Rows
        BY <3>2, <4>1 DEF Rows
      <4> QED BY <3>2, <4>2 DEF Rejudged
    <3>4. \A j \in Rows :
            \/ judgement'[j] = judgement[j] /\ ~(Current(j) /\ judgement[j].sub \in subs)
            \/ /\ Current(j) /\ judgement[j].sub \in subs
               /\ judgement'[j] = [judgement[j] EXCEPT !.superseded = TRUE]
            \/ /\ j \in fresh /\ judgement[j] = Blank
               /\ sub[j] \in subs
               /\ judgement'[j] = Pending(judgement[sub[j]].by, judgement[sub[j]].question, sub[j])
      <4> SUFFICES ASSUME NEW j \in Rows
                   PROVE  \/ judgement'[j] = judgement[j] /\ ~(Current(j) /\ judgement[j].sub \in subs)
                          \/ /\ Current(j) /\ judgement[j].sub \in subs
                             /\ judgement'[j] = [judgement[j] EXCEPT !.superseded = TRUE]
                          \/ /\ j \in fresh /\ judgement[j] = Blank
                             /\ sub[j] \in subs
                             /\ judgement'[j] = Pending(judgement[sub[j]].by, judgement[sub[j]].question, sub[j])
        OBVIOUS
      <4> QED BY <1>2, <3>2, RejudgedRows
    <3>5. \A j \in fresh : judgement[j] = Blank
      BY <1>2, <3>3 DEF TypeInv, TypeOK, RowsAreFilled
    <3>6. CASE s \in subs
      <4>1. PICK i \in fresh : sub[i] = s
        BY <3>3, <3>6 DEF Bijection, Surjection
      <4>2. \A j \in fresh : sub[j] = s => j = i
        BY <3>3, <4>1 DEF Bijection, Injection, IsInjective
      <4>3. CurrentRows({s})' = {i}
        <5>1. ASSUME NEW j \in Rows
              PROVE  Current(j)' /\ judgement'[j].sub = s <=> j = i
          <6>1. CASE j \in fresh
            <7>1. ~Current(j)
              BY <3>5, <6>1 DEF Current, Blank
            <7>2. judgement'[j] = Pending(judgement[sub[j]].by, judgement[sub[j]].question, sub[j])
              BY <3>2, <6>1, <7>1 DEF Rejudged, CurrentRows
            <7> DEFINE new == Pending(judgement[sub[j]].by, judgement[sub[j]].question, sub[j])
            <7>3. new.sub = sub[j] /\ new.state = "pending" /\ ~new.superseded
              BY DEF Pending, Blank
            <7> HIDE DEF new
            <7>4. judgement'[j] = new
              BY <7>2 DEF new
            <7> QED BY <4>1, <4>2, <6>1, <7>3, <7>4 DEF Current
          <6>2. CASE j \notin fresh
            <7>1. j # i
              BY <4>1, <6>2
            <7>2. CASE judgement'[j] = judgement[j] /\ ~(Current(j) /\ judgement[j].sub \in subs)
              BY <3>6, <7>1, <7>2 DEF Current
            <7>3. CASE judgement'[j] = [judgement[j] EXCEPT !.superseded = TRUE]
              BY <2>a, <7>1, <7>3 DEF Current, Row
            <7> QED BY <3>4, <6>2, <7>2, <7>3
          <6> QED BY <6>1, <6>2
        <5> QED BY <3>3, <5>1 DEF CurrentRows
      <4> QED BY <3>3, <4>3
    <3>7. CASE s \notin subs
      <4>1. ASSUME NEW j \in Rows
            PROVE  /\ Current(j)' /\ judgement'[j].sub = s <=> Current(j) /\ judgement[j].sub = s
                   /\ judgement'[j].sub = s /\ s # NoRow => judgement[j].sub = s
        <5>1. CASE judgement'[j] = judgement[j]
          BY <5>1 DEF Current
        <5>2. CASE judgement'[j] = [judgement[j] EXCEPT !.superseded = TRUE] /\ judgement[j].sub \in subs
          BY <2>a, <3>7, <5>2 DEF Current, Row
        <5>3. CASE /\ judgement[j] = Blank /\ sub[j] \in subs
                   /\ judgement'[j] = Pending(judgement[sub[j]].by, judgement[sub[j]].question, sub[j])
          <6> DEFINE new == Pending(judgement[sub[j]].by, judgement[sub[j]].question, sub[j])
          <6>1. new.sub = sub[j]
            BY DEF Pending, Blank
          <6>2. ~Current(j)
            BY <5>3 DEF Current, Blank
          <6> HIDE DEF new
          <6> QED BY <3>7, <5>3, <6>1, <6>2 DEF new
        <5> QED BY <3>4, <5>1, <5>2, <5>3
      <4>2. s \in Submissions
        BY <4>1 DEF Submissions
      <4>3. CurrentRows({s})' = CurrentRows({s})
        BY <4>1 DEF CurrentRows
      <4> QED BY <1>2, <4>2, <4>3 DEF OneCurrentJudgement
    <3> QED BY <3>6, <3>7
  <2> QED BY <1>2, <2>1, <2>2, <2>3, EveryStep, TakingWritesNothing, Zenon
<1>3. TypeInv /\ LockInv /\ OneCurrentJudgement /\ [Next]_vars => OneCurrentJudgement'
  BY <1>2
<1> QED BY <1>1, <1>3, LockInvHolds, PTL DEF Spec

-----------------------------------------------------------------------------

\* What the rows of a submission promise, together, under every failure (submissions.py,
\* judging.py, rejudge.py).
THEOREM RowsNeverDisagree == Spec => []JudgingInv
<1>1. TypeOK /\ OneCurrentJudgement /\ OneSubmissionInFlight => JudgingInv
  BY DEF JudgingInv
<1> QED BY <1>1, JudgingTypeCorrect, NeverNoneNeverTwo, OneAtATime, PTL

-----------------------------------------------------------------------------
(* Which job is whose.                                                      *)

\* A row that has not been sent, or is being sent again, has no job.
PendingHasNoJob == \A j \in Rows : judgement[j].state \in {"none", "pending"} => judgement[j].job = NoJob

IsJobOf(k, j) == k \in 1..issued /\ job[k].of = j

\* The judge gave the job a row waits for, or a sender holds, for that row.
JobsAreOfTheirRows ==
  /\ \A j \in Rows : judgement[j].job # NoJob => IsJobOf(judgement[j].job, j)
  /\ \A w \in Senders : send[w].at = "sent" => IsJobOf(send[w].job, send[w].row)
  /\ \A w \in Pollers : poll[w] # NoPoll => poll[w].job \in 1..issued

\* No row but these waits for this job, or will.
WaitedForOnlyBy(k, js) ==
  /\ k \in 1..issued
  /\ \A j \in Rows : judgement[j].job = k /\ Waiting(j) => j \in js
  /\ \A w \in Senders : send[w].at = "sent" => send[w].job # k

\* The rows a cancel is about to write.
AboutToCancel(t) == IF request[t].at = "cancelling" THEN request[t].rows ELSE {}

\* A job that is stopped, or about to be, is waited for by nobody, except by the rows
\* that the same request is about to cancel.
StoppedIsAbandoned ==
  /\ \A k \in Jobs : job[k].cancelled => WaitedForOnlyBy(k, {})
  /\ \A t \in Requests : \A k \in request[t].jobs : WaitedForOnlyBy(k, AboutToCancel(t))
  /\ \A o \in Organisers : \A k \in rejudge[o].jobs : WaitedForOnlyBy(k, {})

\* The judge says "stopped" of jobs it was told to stop.
StoppedWasAskedFor ==
  /\ \A k \in Jobs : job[k].result = "stopped" => job[k].cancelled
  /\ \A w \in Pollers : poll[w].answer = "stopped" => job[poll[w].job].cancelled

JobInv == /\ PendingHasNoJob /\ JobsAreOfTheirRows /\ StoppedIsAbandoned /\ StoppedWasAskedFor
          /\ StoppedJobsDoNotCount

-----------------------------------------------------------------------------
(* What a step may do to rows' jobs, to jobs and to what senders hold.      *)

KeepsItsJob(j) ==
  /\ judgement'[j].job = judgement[j].job
  /\ Waiting(j)' => Waiting(j)
  /\ judgement'[j].state \in {"none", "pending"} => judgement[j].state \in {"none", "pending"}
GetsItsJob(j) ==
  \E w \in Senders :
    /\ send[w].at = "sent" /\ send[w].row = j
    /\ judgement'[j].job = send[w].job /\ judgement'[j].state = "queued"
RowsGoOn ==
  \A j \in Rows :
    /\ KeepsItsJob(j) \/ judgement'[j].job = NoJob \/ GetsItsJob(j)
    /\ judgement'[j].verdict = "stopped" => judgement[j].verdict = "stopped"

JobsGoOn ==
  /\ issued' \in Nat /\ issued <= issued'
  /\ \A k \in 1..issued : job'[k].of = job[k].of /\ (job[k].cancelled => job'[k].cancelled)
  /\ \A k \in Jobs : job'[k].cancelled => job[k].cancelled \/ WaitedForOnlyBy(k, {})
  /\ \A k \in Jobs : job'[k].result = "stopped" => job'[k].cancelled

SendersGoOn ==
  \A w \in Senders : send'[w].at = "sent" =>
    \/ send'[w] = send[w]
    \/ send'[w].job \in issued + 1 .. issued' /\ job'[send'[w].job].of = send'[w].row

\* A job that is nobody's stays nobody's.
LEMMA StaysAbandoned ==
  ASSUME TypeInv, JobInv, RowsGoOn, JobsGoOn, SendersGoOn, NEW k, NEW js, WaitedForOnlyBy(k, js)
  PROVE  WaitedForOnlyBy(k, js)'
<1>1. issued \in Nat /\ k \in 1..issued /\ k \in 1..issued' /\ k # NoJob
  BY DEF TypeInv, TypeOK, JobsGoOn, WaitedForOnlyBy, NoJob
<1>2. \A w \in Senders : send[w].at = "sent" => send[w].job # k
  BY DEF WaitedForOnlyBy
<1>3. ASSUME NEW j \in Rows, judgement'[j].job = k, Waiting(j)'
      PROVE  j \in js
  <2>1. KeepsItsJob(j)
    BY <1>1, <1>2, <1>3 DEF RowsGoOn, GetsItsJob
  <2> QED BY <1>3, <2>1 DEF KeepsItsJob, WaitedForOnlyBy
<1>4. ASSUME NEW w \in Senders, send'[w].at = "sent"
      PROVE  send'[w].job # k
  BY <1>1, <1>2, <1>4 DEF SendersGoOn
<1> QED BY <1>1, <1>3, <1>4 DEF WaitedForOnlyBy, Waiting

LEMMA JobInvKept ==
  ASSUME TypeInv, JobInv, RowsGoOn, JobsGoOn, SendersGoOn,
         \A t \in Requests :
           request'[t] = request[t] \/ \A k \in request'[t].jobs : WaitedForOnlyBy(k, AboutToCancel(t))',
         \A o \in Organisers :
           rejudge'[o] = rejudge[o] \/ \A k \in rejudge'[o].jobs : WaitedForOnlyBy(k, {})',
         \A w \in Pollers :
           \/ poll'[w] = poll[w] \/ poll'[w] = NoPoll
           \/ /\ poll'[w].job \in 1..issued
              /\ poll'[w].answer = "stopped" => job[poll'[w].job].cancelled
  PROVE  JobInv'
<1>1. PendingHasNoJob'
  <2> SUFFICES ASSUME NEW j \in Rows, judgement'[j].state \in {"none", "pending"}
               PROVE  judgement'[j].job = NoJob
    BY DEF PendingHasNoJob
  <2> QED BY DEF RowsGoOn, KeepsItsJob, GetsItsJob, JobInv, PendingHasNoJob
<1>2. JobsAreOfTheirRows'
  <2>1. issued \in Nat /\ 1..issued \subseteq 1..issued' /\ \A k \in 1..issued : job'[k].of = job[k].of
    BY DEF TypeInv, TypeOK, JobsGoOn
  <2>2. ASSUME NEW j \in Rows, judgement'[j].job # NoJob
        PROVE  IsJobOf(judgement[j].job, j)'
    <3>1. IsJobOf(judgement'[j].job, j)
      BY <2>2 DEF RowsGoOn, KeepsItsJob, GetsItsJob, JobInv, JobsAreOfTheirRows
    <3> QED BY <2>1, <3>1 DEF IsJobOf
  <2>3. ASSUME NEW w \in Senders, send'[w].at = "sent"
        PROVE  IsJobOf(send[w].job, send[w].row)'
    <3>1. CASE send'[w] = send[w]
      BY <2>1, <2>3, <3>1 DEF JobInv, JobsAreOfTheirRows, IsJobOf
    <3>2. CASE send'[w].job \in issued + 1 .. issued' /\ job'[send'[w].job].of = send'[w].row
      BY <2>1, <3>2 DEF IsJobOf, JobsGoOn
    <3> QED BY <2>3, <3>1, <3>2 DEF SendersGoOn
  <2>4. ASSUME NEW w \in Pollers, poll'[w] # NoPoll PROVE poll'[w].job \in 1..issued'
    BY <2>1, <2>4 DEF JobInv, JobsAreOfTheirRows
  <2> QED BY <2>2, <2>3, <2>4 DEF JobsAreOfTheirRows, NoPoll
<1>3. StoppedIsAbandoned'
  <2>1. ASSUME NEW k \in Jobs, job'[k].cancelled PROVE WaitedForOnlyBy(k, {})'
    <3>1. WaitedForOnlyBy(k, {})
      BY <2>1 DEF JobsGoOn, JobInv, StoppedIsAbandoned
    <3> QED BY <3>1, StaysAbandoned
  <2>2. ASSUME NEW t \in Requests, NEW k \in request'[t].jobs
        PROVE  WaitedForOnlyBy(k, AboutToCancel(t))'
    <3>1. CASE request'[t] = request[t]
      <4>1. PICK js : js = AboutToCancel(t)
        OBVIOUS
      <4>2. WaitedForOnlyBy(k, js)
        BY <3>1, <4>1 DEF JobInv, StoppedIsAbandoned
      <4>3. WaitedForOnlyBy(k, js)'
        BY <4>2, StaysAbandoned
      <4>4. AboutToCancel(t)' = js
        BY <3>1, <4>1 DEF AboutToCancel
      <4> QED BY <4>3, <4>4 DEF WaitedForOnlyBy
    <3> QED BY <3>1
  <2>3. ASSUME NEW o \in Organisers, NEW k \in rejudge'[o].jobs PROVE WaitedForOnlyBy(k, {})'
    <3>1. CASE rejudge'[o] = rejudge[o]
      <4>1. WaitedForOnlyBy(k, {})
        BY <3>1 DEF JobInv, StoppedIsAbandoned
      <4> QED BY <4>1, StaysAbandoned
    <3> QED BY <3>1
  <2> QED BY <2>1, <2>2, <2>3 DEF StoppedIsAbandoned
<1>4. StoppedWasAskedFor'
  <2>1. \A k \in Jobs : job'[k].result = "stopped" => job'[k].cancelled
    BY DEF JobsGoOn
  <2>2. ASSUME NEW w \in Pollers, poll'[w].answer = "stopped" PROVE job'[poll'[w].job].cancelled
    <3>1. poll'[w] # NoPoll
      BY <2>2 DEF NoPoll
    <3>2. poll'[w].job \in 1..issued /\ job[poll'[w].job].cancelled
      BY <2>2, <3>1 DEF JobInv, StoppedWasAskedFor, JobsAreOfTheirRows
    <3> QED BY <3>2 DEF JobsGoOn
  <2> QED BY <2>1, <2>2 DEF StoppedWasAskedFor
<1>5. StoppedJobsDoNotCount'
  BY DEF JobInv, RowsGoOn, StoppedJobsDoNotCount
<1> QED BY <1>1, <1>2, <1>3, <1>4, <1>5 DEF JobInv

-----------------------------------------------------------------------------
(* Every step goes on in this way.                                          *)

LEMMA RowsUntouched == ASSUME judgement' = judgement PROVE RowsGoOn
BY DEF RowsGoOn, KeepsItsJob, Waiting

LEMMA JudgeUntouched ==
  ASSUME TypeInv, JobInv, UNCHANGED judge
  PROVE  JobsGoOn
BY DEF judge, JobsGoOn, JobInv, StoppedWasAskedFor, TypeInv, TypeOK

LEMMA SendersUntouched ==
  ASSUME TypeInv, send' = send \/ \E w \in Senders : \E s \in SendState :
                                    s.at # "sent" /\ send' = [send EXCEPT ![w] = s]
  PROVE  SendersGoOn
BY DEF SendersGoOn, TypeInv, TypeOK

LEMMA NothingHeld ==
  /\ NoSend \in SendState /\ NoSend.at = "idle"
  /\ NoRequest.jobs = {} /\ NoRejudge.jobs = {}
BY DEF NoSend, SendState, NoRequest, NoRejudge

LEMMA JobInvInit == Init => JobInv
<1> SUFFICES ASSUME Init PROVE JobInv
  OBVIOUS
<1>1. PendingHasNoJob
  BY DEF Init, PendingHasNoJob, Blank
<1>2. JobsAreOfTheirRows
  BY DEF Init, JobsAreOfTheirRows, Blank, NoSend
<1>3. StoppedIsAbandoned
  BY DEF Init, StoppedIsAbandoned, NoRequest, NoRejudge
<1>4. StoppedWasAskedFor /\ StoppedJobsDoNotCount
  BY JudgingAssumption DEF Init, StoppedWasAskedFor, StoppedJobsDoNotCount, Blank, NoPoll
<1> QED BY <1>1, <1>2, <1>3, <1>4 DEF JobInv

(* A participant's requests.                                                *)

LEMMA SubmitKeepsJobs ==
  ASSUME TypeInv, JobInv, NEW t \in Requests,
         SubmitInsert(t) \/ \E p \in Participants, q \in Questions : SubmitCheck(t, p, q)
  PROVE  JobInv'
<1>1. RowsGoOn
  <2>1. CASE SubmitInsert(t)
    <3>1. PICK j \in Rows :
           /\ judgement'[j] = Pending(request[t].who, request[t].question, j)
           /\ \A i \in Rows \ {j} : judgement'[i] = judgement[i]
      BY <2>1, SubmitInsertRows
    <3> DEFINE new == Pending(request[t].who, request[t].question, j)
    <3>2. new.job = NoJob /\ new.verdict = Undecided
      BY DEF Pending, Blank
    <3>3. judgement'[j] = new
      BY <3>1
    <3> HIDE DEF new
    <3>4. judgement'[j].job = NoJob /\ judgement'[j].verdict # "stopped"
      BY <3>2, <3>3, JudgingAssumption
    <3> QED BY <3>1, <3>4 DEF RowsGoOn, KeepsItsJob, Waiting
  <2>2. CASE \E p \in Participants, q \in Questions : SubmitCheck(t, p, q)
    BY <2>2, RowsUntouched DEF SubmitCheck, rows
  <2> QED BY <2>1, <2>2
<1>2. JobsGoOn /\ SendersGoOn
  BY JudgeUntouched, SendersUntouched DEF SubmitInsert, SubmitCheck
<1>3. \A u \in Requests : request'[u] = request[u] \/ request'[u].jobs = {}
  <2>1. CASE SubmitInsert(t)
    BY <2>1, NothingHeld DEF SubmitInsert, TypeInv, TypeOK
  <2>2. CASE \E p \in Participants, q \in Questions : SubmitCheck(t, p, q)
    <3>1. PICK p \in Participants, q \in Questions : SubmitCheck(t, p, q)
      BY <2>2
    <3> DEFINE new == [NoRequest EXCEPT !.at = "submitting", !.who = p, !.question = q]
    <3>2. new.jobs = {}
      BY DEF NoRequest
    <3>3. request' = [request EXCEPT ![t] = new]
      BY <3>1 DEF SubmitCheck
    <3> HIDE DEF new
    <3> QED BY <3>2, <3>3 DEF TypeInv, TypeOK
  <2> QED BY <2>1, <2>2
<1>4. poll' = poll /\ rejudge' = rejudge
  BY DEF SubmitInsert, SubmitCheck
<1> QED BY <1>1, <1>2, <1>3, <1>4, JobInvKept

\* A job read with its row is waited for by that row alone: a row being sent has none.
LEMMA JobOfARow ==
  ASSUME TypeInv, LockInv, JobInv, NEW i \in Rows, NEW k, judgement[i].job = k, k # NoJob
  PROVE  WaitedForOnlyBy(k, {i})
<1>1. IsJobOf(k, i)
  BY DEF JobInv, JobsAreOfTheirRows
<1>2. \A j \in Rows : judgement[j].job = k => j = i
  BY <1>1 DEF JobInv, JobsAreOfTheirRows, IsJobOf
<1>3. ASSUME NEW w \in Senders, send[w].at = "sent", send[w].job = k PROVE FALSE
  <2>1. send[w].row = i
    BY <1>1, <1>3 DEF JobInv, JobsAreOfTheirRows, IsJobOf
  <2>2. judgement[i].state = "pending"
    BY <1>3, <2>1 DEF LockInv, ClaimsArePending, Deciding
  <2> QED BY <2>2 DEF JobInv, PendingHasNoJob
<1> QED BY <1>1, <1>2, <1>3 DEF WaitedForOnlyBy, IsJobOf

LEMMA CancelReadKeepsJobs ==
  ASSUME TypeInv, LockInv, JobInv, NEW t \in Requests, NEW p \in Participants, CancelRead(t, p)
  PROVE  JobInv'
<1> DEFINE mine == {j \in Rows : InFlight(j) /\ judgement[j].by = p}
           stop == {judgement[j].job : j \in mine} \ {NoJob}
           new == [NoRequest EXCEPT !.at = "cancelling", !.who = p, !.rows = mine, !.jobs = stop]
<1>1. RowsGoOn /\ JobsGoOn /\ SendersGoOn
  BY RowsUntouched, JudgeUntouched, SendersUntouched DEF CancelRead, rows
<1>2. request' = [request EXCEPT ![t] = new] /\ poll' = poll /\ rejudge' = rejudge
  BY DEF CancelRead
<1>3. ASSUME NEW k \in stop PROVE WaitedForOnlyBy(k, mine)
  <2>1. PICK i \in mine : judgement[i].job = k /\ k # NoJob
    OBVIOUS
  <2>2. WaitedForOnlyBy(k, {i})
    BY <2>1, JobOfARow
  <2> QED BY <2>1, <2>2 DEF WaitedForOnlyBy
<1> HIDE DEF mine, stop
<1>4. new.at = "cancelling" /\ new.rows = mine /\ new.jobs = stop
  BY DEF NoRequest
<1> HIDE DEF new
<1>5. request'[t] = new /\ \A u \in Requests \ {t} : request'[u] = request[u]
  BY <1>2 DEF TypeInv, TypeOK
<1>6. PICK js : js = mine
  OBVIOUS
<1>7. ASSUME NEW k \in stop PROVE WaitedForOnlyBy(k, js)'
  BY <1>1, <1>3, <1>6, <1>7, StaysAbandoned
<1>8. AboutToCancel(t)' = js
  BY <1>4, <1>5, <1>6 DEF AboutToCancel
<1>9. ASSUME NEW k \in request'[t].jobs PROVE WaitedForOnlyBy(k, AboutToCancel(t))'
  BY <1>4, <1>5, <1>7, <1>8, <1>9 DEF WaitedForOnlyBy
<1> QED BY <1>1, <1>2, <1>5, <1>9, JobInvKept

LEMMA CancelWriteKeepsJobs ==
  ASSUME TypeInv, LockInv, JobInv, NEW t \in Requests, CancelWrite(t)
  PROVE  JobInv'
<1> DEFINE r == request[t]
<1>1. ASSUME NEW j \in Rows
      PROVE  /\ j \in r.rows => judgement'[j].state = "done" /\ judgement'[j].verdict = "cancelled"
                                /\ judgement'[j].job = judgement[j].job
             /\ j \notin r.rows => judgement'[j] = judgement[j]
  <2>1. judgement[j] \in Row
    BY RowTypes
  <2> QED BY <2>1 DEF CancelWrite, Row
<1>2. RowsGoOn
  <2>1. ASSUME NEW j \in r.rows
        PROVE  j \in Rows /\ judgement[j].state \in {"pending", "queued", "running"}
    BY DEF CancelWrite, LockInv, CancelsAreOpen, TypeInv, TypeOK, RequestState
  <2> QED BY <1>1, <2>1 DEF RowsGoOn, KeepsItsJob, Waiting
<1>3. JobsGoOn /\ SendersGoOn
  BY JudgeUntouched, SendersUntouched DEF CancelWrite
<1>4. /\ request' = [request EXCEPT ![t] = [r EXCEPT !.at = "stopping"]] /\ r.at = "cancelling"
      /\ poll' = poll /\ rejudge' = rejudge
  BY DEF CancelWrite, TypeInv, TypeOK
<1>5. /\ request'[t].jobs = r.jobs /\ request'[t].at = "stopping"
      /\ \A u \in Requests \ {t} : request'[u] = request[u]
  BY <1>4 DEF TypeInv, TypeOK, RequestState
<1>6. ASSUME NEW k \in request'[t].jobs PROVE WaitedForOnlyBy(k, AboutToCancel(t))'
  <2>1. PICK js : js = r.rows
    OBVIOUS
  <2>2. WaitedForOnlyBy(k, js)
    BY <1>4, <1>5, <1>6, <2>1 DEF JobInv, StoppedIsAbandoned, AboutToCancel
  <2>3. WaitedForOnlyBy(k, js)'
    BY <1>2, <1>3, <2>2, StaysAbandoned
  <2>4. AboutToCancel(t)' = {}
    BY <1>5 DEF AboutToCancel
  <2> QED BY <1>1, <2>1, <2>3, <2>4 DEF WaitedForOnlyBy, Waiting
<1> QED BY <1>2, <1>3, <1>4, <1>5, <1>6, JobInvKept

\* Stopping jobs that nobody waits for.
LEMMA StoppingGoesOn ==
  ASSUME TypeInv, JobInv, NEW ks, \A k \in ks : WaitedForOnlyBy(k, {}), StopJobs(ks), issued' = issued
  PROVE  JobsGoOn
<1>1. issued \in Nat /\ 1..issued \subseteq Jobs /\ \A k \in Jobs : job[k] \in JobRow
  BY JudgingAssumption DEF TypeInv, TypeOK, Jobs
<1>2. ASSUME NEW k \in Jobs
      PROVE  /\ job'[k].of = job[k].of /\ job'[k].result = job[k].result
             /\ job[k].cancelled => job'[k].cancelled
             /\ job'[k].cancelled => job[k].cancelled \/ WaitedForOnlyBy(k, {})
  <2> HIDE DEF JobRow
  <2>1. CASE k \in ks
    <3>1. job'[k] = [job[k] EXCEPT !.cancelled = TRUE]
      BY <2>1 DEF StopJobs
    <3> QED BY <1>1, <2>1, <3>1 DEF JobRow
  <2>2. CASE k \notin ks
    BY <2>2 DEF StopJobs
  <2> QED BY <2>1, <2>2
<1> QED BY <1>1, <1>2 DEF JobsGoOn, JobInv, StoppedWasAskedFor

LEMMA StopKeepsJobs ==
  ASSUME TypeInv, JobInv, (\E t \in Requests : CancelStop(t)) \/ (\E o \in Organisers : RejudgeStop(o))
  PROVE  JobInv'
<1>1. RowsGoOn /\ SendersGoOn
  BY RowsUntouched, SendersUntouched DEF CancelStop, RejudgeStop, rows
<1>2. JobsGoOn
  <2>1. CASE \E t \in Requests : CancelStop(t)
    <3>1. PICK t \in Requests : CancelStop(t)
      BY <2>1
    <3>2. AboutToCancel(t) = {}
      BY <3>1 DEF CancelStop, AboutToCancel
    <3>3. \A k \in request[t].jobs : WaitedForOnlyBy(k, {})
      BY <3>2 DEF JobInv, StoppedIsAbandoned
    <3> QED BY <3>1, <3>3, StoppingGoesOn DEF CancelStop
  <2>2. CASE \E o \in Organisers : RejudgeStop(o)
    <3>1. PICK o \in Organisers : RejudgeStop(o)
      BY <2>2
    <3>2. \A k \in rejudge[o].jobs : WaitedForOnlyBy(k, {})
      BY DEF JobInv, StoppedIsAbandoned
    <3> QED BY <3>1, <3>2, StoppingGoesOn DEF RejudgeStop
  <2> QED BY <2>1, <2>2
<1>3. \A t \in Requests : request'[t] = request[t] \/ request'[t].jobs = {}
  BY NothingHeld DEF CancelStop, RejudgeStop, TypeInv, TypeOK
<1>4. \A o \in Organisers : rejudge'[o] = rejudge[o] \/ rejudge'[o].jobs = {}
  BY NothingHeld DEF CancelStop, RejudgeStop, TypeInv, TypeOK
<1>5. poll' = poll
  BY DEF CancelStop, RejudgeStop
<1> QED BY <1>1, <1>2, <1>3, <1>4, <1>5, JobInvKept

(* Sending.                                                                 *)

LEMMA NewJobGoesOn ==
  ASSUME TypeInv, JobInv, NEW k \in Jobs, NEW j, NewJob(k, j)
  PROVE  JobsGoOn /\ k \in issued + 1 .. issued' /\ job'[k].of = j
<1> DEFINE new == [state |-> "queued", of |-> j, result |-> Undecided, cancelled |-> FALSE]
<1>1. issued \in Nat /\ k = issued + 1 /\ issued' = k
  BY DEF NewJob, TypeInv, TypeOK
<1>2. new.of = j /\ new.result # "stopped" /\ ~new.cancelled
  BY JudgingAssumption
<1>3. job' = [job EXCEPT ![k] = new]
  BY DEF NewJob
<1> HIDE DEF new
<1>4. job'[k] = new /\ \A l \in Jobs \ {k} : job'[l] = job[l]
  BY <1>3 DEF TypeInv, TypeOK
<1>5. \A l \in 1..issued : l \in Jobs \ {k}
  BY <1>1, JudgingAssumption DEF TypeInv, TypeOK, Jobs
<1>6. \A l \in Jobs : job'[l].result = "stopped" => job'[l].cancelled
  BY <1>2, <1>4 DEF JobInv, StoppedWasAskedFor
<1> QED BY <1>1, <1>2, <1>4, <1>5, <1>6 DEF JobsGoOn

LEMMA SendingKeepsJobs ==
  ASSUME TypeInv, JobInv, NEW w \in Senders,
         Claim(w) \/ JudgeAccepts(w) \/ SendFails(w) \/ JudgeRejects(w)
  PROVE  JobInv'
<1>1. RowsGoOn /\ poll' = poll /\ request' = request /\ rejudge' = rejudge
  BY RowsUntouched DEF Claim, JudgeAccepts, SendFails, JudgeRejects, rows
<1>2. JobsGoOn /\ SendersGoOn
  <2>1. CASE Claim(w)
    <3>1. PICK j \in Claimable :
            send' = [send EXCEPT ![w] = [NoSend EXCEPT !.at = "claimed", !.row = j]]
      BY <2>1 DEF Claim, Oldest
    <3> DEFINE new == [NoSend EXCEPT !.at = "claimed", !.row = j]
    <3>2. new \in SendState /\ new.at # "sent"
      BY DEF NoSend, SendState, Claimable
    <3> HIDE DEF new
    <3>3. send' = [send EXCEPT ![w] = new]
      BY <3>1 DEF new
    <3> QED BY <2>1, <3>2, <3>3, JudgeUntouched, SendersUntouched DEF Claim
  <2>2. CASE JudgeAccepts(w)
    <3>1. PICK k \in Jobs : /\ NewJob(k, send[w].row)
                            /\ send' = [send EXCEPT ![w] = [send[w] EXCEPT !.at = "sent", !.job = k]]
      BY <2>2 DEF JudgeAccepts
    <3> DEFINE new == [send[w] EXCEPT !.at = "sent", !.job = k]
    <3>2. new.job = k /\ new.row = send[w].row
      BY DEF TypeInv, TypeOK, SendState
    <3>3. send' = [send EXCEPT ![w] = new]
      BY <3>1
    <3> HIDE DEF new
    <3>4. send'[w] = new /\ \A v \in Senders \ {w} : send'[v] = send[v]
      BY <3>3 DEF TypeInv, TypeOK
    <3> QED BY <3>1, <3>2, <3>4, NewJobGoesOn DEF SendersGoOn
  <2>3. CASE SendFails(w)
    <3>1. JobsGoOn
      BY <2>3, JudgeUntouched, NewJobGoesOn DEF SendFails
    <3> QED BY <2>3, <3>1, NothingHeld, SendersUntouched DEF SendFails
  <2>4. CASE JudgeRejects(w)
    <3> DEFINE new == [send[w] EXCEPT !.at = "refused"]
    <3>1. new \in SendState /\ new.at # "sent"
      BY DEF TypeInv, TypeOK, SendState
    <3>2. send' = [send EXCEPT ![w] = new]
      BY <2>4 DEF JudgeRejects, TypeInv, TypeOK
    <3> HIDE DEF new
    <3> QED BY <2>4, <3>1, <3>2, JudgeUntouched, SendersUntouched DEF JudgeRejects
  <2> QED BY <2>1, <2>2, <2>3, <2>4
<1> QED BY <1>1, <1>2, JobInvKept

LEMMA RecordJobKeepsJobs ==
  ASSUME TypeInv, JobInv, NEW w \in Senders, RecordJob(w)
  PROVE  JobInv'
<1> DEFINE i == send[w].row
           new == [judgement[i] EXCEPT !.state = "queued", !.job = send[w].job]
<1>1. i \in Rows
  BY JudgingAssumption DEF RecordJob, TypeInv, TypeOK, HeldRowsExist, Rows
<1>2. judgement[i] \in Row /\ judgement' = [judgement EXCEPT ![i] = new]
  BY <1>1, RowTypes DEF RecordJob
<1>3. new.state = "queued" /\ new.job = send[w].job /\ new.verdict = judgement[i].verdict
  BY <1>2 DEF Row
<1> HIDE DEF new
<1>4. judgement'[i] = new /\ \A j \in Rows \ {i} : judgement'[j] = judgement[j]
  BY <1>1, <1>2 DEF TypeInv, TypeOK
<1>5. GetsItsJob(i)
  BY <1>3, <1>4 DEF GetsItsJob, RecordJob
<1> HIDE DEF i
<1>6. RowsGoOn
  BY <1>3, <1>4, <1>5 DEF RowsGoOn, KeepsItsJob, Waiting
<1>7. JobsGoOn /\ SendersGoOn
  BY JudgeUntouched, SendersUntouched, NothingHeld DEF RecordJob
<1> QED BY <1>6, <1>7, JobInvKept DEF RecordJob

\* A result other than "stopped" is written.
LEMMA ResultGoesOn ==
  ASSUME TypeInv, NEW j \in 1..last, NEW waiting, waiting => Waiting(j), NEW v,
         waiting => v # "stopped", WriteResult(j, waiting, v)
  PROVE  RowsGoOn
<1>1. j \in Rows /\ judgement[j] \in Row
  BY JudgingAssumption, RowTypes DEF TypeInv, TypeOK, Rows
<1>2. CASE waiting /\ judgement' = [judgement EXCEPT ![j] = [judgement[j] EXCEPT !.state = "done", !.verdict = v]]
  <2> DEFINE new == [judgement[j] EXCEPT !.state = "done", !.verdict = v]
  <2>1. new.state = "done" /\ new.verdict = v /\ new.job = judgement[j].job
    BY <1>1 DEF Row
  <2>2. judgement' = [judgement EXCEPT ![j] = new]
    BY <1>2
  <2> HIDE DEF new
  <2>3. judgement'[j] = new /\ \A i \in Rows \ {j} : judgement'[i] = judgement[i]
    BY <1>1, <2>2 DEF TypeInv, TypeOK
  <2> QED BY <1>2, <2>1, <2>3 DEF RowsGoOn, KeepsItsJob, Waiting
<1> QED BY <1>2, RowsUntouched DEF WriteResult

LEMMA WriteRefusalKeepsJobs ==
  ASSUME TypeInv, JobInv, NEW w \in Senders, WriteRefusal(w)
  PROVE  JobInv'
<1>1. send[w].row \in 1..last
  BY DEF WriteRefusal, TypeInv, HeldRowsExist
<1>2. RowsGoOn
  BY <1>1, ResultGoesOn DEF WriteRefusal
<1>3. JobsGoOn /\ SendersGoOn
  BY JudgeUntouched, SendersUntouched, NothingHeld DEF WriteRefusal
<1> QED BY <1>2, <1>3, JobInvKept DEF WriteRefusal

(* Polling.                                                                 *)

LEMMA PollReadKeepsJobs ==
  ASSUME TypeInv, JobInv, NEW w \in Pollers, NEW j \in Rows, PollRead(w, j)
  PROVE  JobInv'
<1>1. RowsGoOn /\ JobsGoOn /\ SendersGoOn
  BY RowsUntouched, JudgeUntouched, SendersUntouched DEF PollRead, rows
<1> DEFINE new == [row |-> j, job |-> judgement[j].job, seen |-> judgement[j].state, answer |-> "none"]
<1>2. new.job = judgement[j].job /\ new.answer = "none"
  OBVIOUS
<1>3. poll' = [poll EXCEPT ![w] = new]
  BY DEF PollRead
<1>4. judgement[j].job \in 1..issued
  BY DEF PollRead, JobInv, JobsAreOfTheirRows, IsJobOf
<1> HIDE DEF new
<1>5. \A v \in Pollers : \/ poll'[v] = poll[v]
                         \/ poll'[v].job \in 1..issued /\ poll'[v].answer # "stopped"
  BY <1>2, <1>3, <1>4 DEF TypeInv, TypeOK
<1> QED BY <1>1, <1>5, JobInvKept DEF PollRead

LEMMA PollAskKeepsJobs ==
  ASSUME TypeInv, JobInv, NEW w \in Pollers, PollAsk(w)
  PROVE  JobInv'
<1>1. RowsGoOn /\ JobsGoOn /\ SendersGoOn
  BY RowsUntouched, JudgeUntouched, SendersUntouched DEF PollAsk, rows
<1> DEFINE k == poll[w].job
           new == [poll[w] EXCEPT !.answer = Answer(k)]
<1>2. k \in 1..issued /\ k \in Jobs
  BY JudgingAssumption DEF PollAsk, JobInv, JobsAreOfTheirRows, TypeInv, TypeOK, Jobs
<1>3. Answer(k) = "stopped" => job[k].cancelled
  BY <1>2 DEF Answer, JobInv, StoppedWasAskedFor, TypeInv, TypeOK, JobRow, JobStates
<1>4. poll[w] \in PollState /\ poll' = [poll EXCEPT ![w] = new]
  BY DEF PollAsk, TypeInv, TypeOK
<1>5. new.job = k /\ new.answer = Answer(k)
  BY <1>4 DEF PollState
<1> HIDE DEF new, k
<1>6. \A v \in Pollers : \/ poll'[v] = poll[v]
                         \/ /\ poll'[v].job \in 1..issued
                            /\ poll'[v].answer = "stopped" => job[poll'[v].job].cancelled
  BY <1>2, <1>3, <1>4, <1>5 DEF TypeInv, TypeOK
<1> QED BY <1>1, <1>6, JobInvKept DEF PollAsk

LEMMA PollWriteKeepsJobs ==
  ASSUME TypeInv, JobInv, NEW w \in Pollers, PollWrite(w)
  PROVE  JobInv'
<1> DEFINE j == poll[w].row
           k == poll[w].job
<1>1. poll[w] # NoPoll
  BY JudgingAssumption DEF PollWrite, NoPoll
<1>2. j \in 1..last /\ j \in Rows
  BY <1>1, JudgingAssumption DEF TypeInv, TypeOK, HeldRowsExist, Rows
<1>3. judgement[j] \in Row
  BY <1>2, RowTypes
<1>4. RowsGoOn
  <2>1. CASE UNCHANGED judgement
    BY <2>1, RowsUntouched
  <2>2. CASE judgement' = [judgement EXCEPT ![j] = [judgement[j] EXCEPT !.state = "pending", !.job = NoJob]]
    <3> DEFINE new == [judgement[j] EXCEPT !.state = "pending", !.job = NoJob]
    <3>1. new.job = NoJob /\ new.verdict = judgement[j].verdict
      BY <1>3 DEF Row
    <3>2. judgement' = [judgement EXCEPT ![j] = new]
      BY <2>2
    <3> HIDE DEF new, j
    <3>3. judgement'[j] = new /\ \A i \in Rows \ {j} : judgement'[i] = judgement[i]
      BY <1>2, <3>2 DEF TypeInv, TypeOK
    <3> QED BY <3>1, <3>3 DEF RowsGoOn, KeepsItsJob, Waiting
  <2>3. ASSUME NEW s \in {"queued", "running"}, OnTheJudge(j, k),
               judgement' = [judgement EXCEPT ![j].state = s]
        PROVE  RowsGoOn
    <3> DEFINE new == [judgement[j] EXCEPT !.state = s]
    <3>1. /\ new.state = s /\ new.job = judgement[j].job /\ new.verdict = judgement[j].verdict
          /\ new.superseded = judgement[j].superseded
      BY <1>3 DEF Row
    <3>2. judgement' = [judgement EXCEPT ![j] = new]
      BY <1>2, <2>3 DEF TypeInv, TypeOK
    <3>3. PICK i \in Rows : i = j
      BY <1>2
    <3> HIDE DEF new, j, k
    <3>4. judgement'[i] = new /\ \A l \in Rows \ {i} : judgement'[l] = judgement[l]
      BY <3>2, <3>3 DEF TypeInv, TypeOK
    <3>5. KeepsItsJob(i)
      BY <2>3, <3>1, <3>3, <3>4 DEF KeepsItsJob, Waiting, OnTheJudge
    <3>6. judgement'[i].verdict = judgement[i].verdict
      BY <3>1, <3>3, <3>4
    <3> QED BY <3>4, <3>5, <3>6 DEF RowsGoOn, KeepsItsJob, Waiting
  <2>4. CASE WriteResult(j, StillWaiting(j, k), poll[w].answer)
    <3>1. ASSUME StillWaiting(j, k), poll[w].answer = "stopped" PROVE FALSE
      <4>1. k \in Jobs /\ job[k].cancelled
        BY <1>1, <3>1, JudgingAssumption DEF JobInv, StoppedWasAskedFor, JobsAreOfTheirRows, TypeInv, TypeOK, Jobs
      <4>2. WaitedForOnlyBy(k, {})
        BY <4>1 DEF JobInv, StoppedIsAbandoned
      <4> QED BY <1>2, <3>1, <4>2 DEF WaitedForOnlyBy, StillWaiting
    <3>2. StillWaiting(j, k) => Waiting(j)
      BY DEF StillWaiting
    <3> HIDE DEF j, k
    <3> QED BY <1>2, <2>4, <3>1, <3>2, ResultGoesOn
  <2> QED BY <2>1, <2>2, <2>3, <2>4 DEF PollWrite, Resubmit, WriteProgress
<1>5. JobsGoOn /\ SendersGoOn
  BY JudgeUntouched, SendersUntouched DEF PollWrite
<1>6. \A v \in Pollers : poll'[v] = poll[v] \/ poll'[v] = NoPoll
  BY DEF PollWrite, TypeInv, TypeOK
<1> QED BY <1>4, <1>5, <1>6, JobInvKept DEF PollWrite

(* Rejudging.                                                               *)

LEMMA RejudgeReadKeepsJobs ==
  ASSUME TypeInv, JobInv, NEW o \in Organisers, NEW q \in Questions, RejudgeRead(o, q)
  PROVE  JobInv'
<1> DEFINE found == {j \in Rows : Current(j) /\ judgement[j].question = q}
           new == [NoRejudge EXCEPT !.at = "read", !.rows = found]
<1>1. RowsGoOn /\ JobsGoOn /\ SendersGoOn
  BY RowsUntouched, JudgeUntouched, SendersUntouched DEF RejudgeRead, rows
<1>2. rejudge' = [rejudge EXCEPT ![o] = new] /\ request' = request /\ poll' = poll
  BY DEF RejudgeRead
<1>3. new.jobs = {}
  BY DEF NoRejudge
<1> HIDE DEF new
<1>4. \A p \in Organisers : rejudge'[p] = rejudge[p] \/ rejudge'[p].jobs = {}
  BY <1>2, <1>3 DEF TypeInv, TypeOK
<1> QED BY <1>1, <1>2, <1>4, JobInvKept

\* A rejudge stops the jobs of rows that it has made stop waiting.
LEMMA RejudgeStopsSuperseded ==
  ASSUME TypeInv, NEW o \in Organisers, RejudgeWrite(o), NEW k \in rejudge'[o].jobs
  PROVE  \E j \in Rows : judgement[j].job = k /\ k # NoJob /\ judgement'[j].superseded
<1>1. PICK subs \in SUBSET {judgement[j].sub : j \in rejudge[o].rows} :
        /\ \E sub : judgement' =
             [j \in Rows |->
                IF j \in CurrentRows(subs) THEN [judgement[j] EXCEPT !.superseded = TRUE]
                ELSE IF j \in last + 1 .. last + Cardinality(subs)
                THEN Pending(judgement[sub[j]].by, judgement[sub[j]].question, sub[j])
                ELSE judgement[j]]
        /\ rejudge' = [rejudge EXCEPT ![o] =
             [at |-> "stopping", rows |-> {},
              jobs |-> {judgement[j].job : j \in {i \in CurrentRows(subs) : judgement[i].state # "done"}}
                         \ {NoJob}]]
  BY DEF RejudgeWrite, Superseded
<1>2. rejudge'[o].jobs =
        {judgement[j].job : j \in {i \in CurrentRows(subs) : judgement[i].state # "done"}} \ {NoJob}
  BY <1>1 DEF TypeInv, TypeOK
<1>3. PICK j \in CurrentRows(subs) : judgement[j].job = k /\ k # NoJob
  BY <1>2
<1>4. j \in Rows /\ judgement[j] \in Row
  BY RowTypes DEF CurrentRows
<1>5. judgement'[j] = [judgement[j] EXCEPT !.superseded = TRUE]
  BY <1>1, <1>4
<1> QED BY <1>3, <1>4, <1>5 DEF Row

LEMMA RejudgeWriteKeepsJobs ==
  ASSUME TypeInv, LockInv, JobInv, NEW o \in Organisers, RejudgeWrite(o)
  PROVE  JobInv'
<1>1. PICK subs \in SUBSET (1..last), n \in Nat :
        \E sub : last + n \in 0..MaxRows /\ Rejudged(subs, n, sub)
  BY RejudgeWriteRows
<1>2. PICK sub : last + n \in 0..MaxRows /\ Rejudged(subs, n, sub)
  BY <1>1
<1>3. RowsGoOn
  <2> SUFFICES ASSUME NEW j \in Rows
               PROVE  /\ KeepsItsJob(j) \/ judgement'[j].job = NoJob \/ GetsItsJob(j)
                      /\ judgement'[j].verdict = "stopped" => judgement[j].verdict = "stopped"
    BY DEF RowsGoOn
  <2>1. CASE judgement'[j] = judgement[j]
    BY <2>1 DEF KeepsItsJob, Waiting
  <2>2. CASE judgement'[j] = [judgement[j] EXCEPT !.superseded = TRUE]
    <3>1. judgement[j] \in Row
      BY RowTypes
    <3>2. /\ judgement'[j].job = judgement[j].job /\ judgement'[j].verdict = judgement[j].verdict
          /\ judgement'[j].state = judgement[j].state /\ judgement'[j].superseded
      BY <2>2, <3>1 DEF Row
    <3> QED BY <3>2 DEF KeepsItsJob, Waiting
  <2>3. CASE judgement'[j] = Pending(judgement[sub[j]].by, judgement[sub[j]].question, sub[j])
    <3> DEFINE new == Pending(judgement[sub[j]].by, judgement[sub[j]].question, sub[j])
    <3>1. new.job = NoJob /\ new.verdict = Undecided
      BY DEF Pending, Blank
    <3>2. judgement'[j] = new
      BY <2>3
    <3> HIDE DEF new
    <3> QED BY <3>1, <3>2, JudgingAssumption
  <2> QED BY <1>2, <2>1, <2>2, <2>3, RejudgedRows
<1>4. JobsGoOn /\ SendersGoOn
  BY JudgeUntouched, SendersUntouched DEF RejudgeWrite
<1>5. ASSUME NEW k \in rejudge'[o].jobs PROVE WaitedForOnlyBy(k, {})'
  <2>1. PICK i \in Rows : judgement[i].job = k /\ k # NoJob /\ judgement'[i].superseded
    BY RejudgeStopsSuperseded
  <2>2. WaitedForOnlyBy(k, {i})
    BY <2>1, JobOfARow
  <2>3. WaitedForOnlyBy(k, {i})'
    BY <1>3, <1>4, <2>2, StaysAbandoned
  <2> QED BY <2>1, <2>3 DEF WaitedForOnlyBy, Waiting
<1>6. \A p \in Organisers : p = o \/ rejudge'[p] = rejudge[p]
  BY DEF RejudgeWrite, TypeInv, TypeOK
<1>7. request' = request /\ poll' = poll
  BY DEF RejudgeWrite
<1> QED BY <1>3, <1>4, <1>5, <1>6, <1>7, JobInvKept

(* The judge, and what fails.                                               *)

\* A job that runs, ends or is forgotten keeps its row, and reports "stopped" only if it
\* was told to stop.
LEMMA JudgeKeepsJobs ==
  ASSUME TypeInv, JobInv, (\E k \in Jobs : Running(k) \/ JobExpires(k)) \/ JudgeRestarts
  PROVE  JobInv'
<1>1. RowsGoOn /\ SendersGoOn
  BY RowsUntouched, SendersUntouched
     DEF Running, JobStarts, JobEnds, JobExpires, JudgeRestarts, rows, threads
<1>2. issued' = issued /\ issued \in Nat /\ 1..issued \subseteq Jobs
  BY JudgingAssumption DEF Running, JobStarts, JobEnds, JobExpires, JudgeRestarts, TypeInv, TypeOK, Jobs
<1>3. ASSUME NEW k \in Jobs
      PROVE  /\ job'[k].of = job[k].of /\ job'[k].cancelled = job[k].cancelled
             /\ job'[k].result = "stopped" => job'[k].result = job[k].result \/ job[k].cancelled
  <2>1. job[k] \in JobRow
    BY DEF TypeInv, TypeOK
  <2>2. ASSUME NEW s
        PROVE  LET new == [job[k] EXCEPT !.state = s]
               IN  new.of = job[k].of /\ new.cancelled = job[k].cancelled /\ new.result = job[k].result
    BY <2>1 DEF JobRow
  <2>3. ASSUME NEW v
        PROVE  LET new == [job[k] EXCEPT !.state = "done", !.result = v]
               IN  new.of = job[k].of /\ new.cancelled = job[k].cancelled /\ new.result = v
    BY <2>1 DEF JobRow
  <2>4. CASE job'[k] = job[k] \/ \E s : job'[k] = [job[k] EXCEPT !.state = s]
    BY <2>2, <2>4
  <2>5. CASE \E v : /\ v = "stopped" => job[k].cancelled
                    /\ job'[k] = [job[k] EXCEPT !.state = "done", !.result = v]
    BY <2>3, <2>5
  <2>6. "stopped" \notin Verdicts
    BY JudgingAssumption
  <2>7. ASSUME NEW l \in Jobs, Running(l) \/ JobExpires(l)
        PROVE  \/ job'[k] = job[k] \/ \E s : job'[k] = [job[k] EXCEPT !.state = s]
               \/ \E v : /\ v = "stopped" => job[k].cancelled
                         /\ job'[k] = [job[k] EXCEPT !.state = "done", !.result = v]
    BY <2>6, <2>7 DEF Running, JobStarts, JobEnds, JobExpires, Done, TypeInv, TypeOK
  <2>8. CASE JudgeRestarts
    BY <2>4, <2>8 DEF JudgeRestarts
  <2> QED BY <2>4, <2>5, <2>7, <2>8
<1>4. JobsGoOn
  BY <1>2, <1>3 DEF JobsGoOn, JobInv, StoppedWasAskedFor
<1>5. poll' = poll /\ request' = request /\ rejudge' = rejudge
  BY DEF Running, JobStarts, JobEnds, JobExpires, JudgeRestarts, threads
<1> QED BY <1>1, <1>4, <1>5, JobInvKept

LEMMA CrashKeepsJobs ==
  ASSUME TypeInv, JobInv, Crash \/ UNCHANGED vars
  PROVE  JobInv'
<1>1. RowsGoOn /\ JobsGoOn
  BY RowsUntouched, JudgeUntouched DEF Crash, vars, rows
<1>2. SendersGoOn
  BY NothingHeld, SendersUntouched DEF Crash, vars, threads
<1>3. \A t \in Requests : request'[t] = request[t] \/ request'[t].jobs = {}
  BY NothingHeld DEF Crash, vars, threads, TypeInv, TypeOK
<1>4. \A o \in Organisers : rejudge'[o] = rejudge[o] \/ rejudge'[o].jobs = {}
  BY NothingHeld DEF Crash, vars, threads, TypeInv, TypeOK
<1>5. \A w \in Pollers : poll'[w] = poll[w] \/ poll'[w] = NoPoll
  BY DEF Crash, vars, threads, TypeInv, TypeOK
<1> QED BY <1>1, <1>2, <1>3, <1>4, <1>5, JobInvKept

LEMMA JobInvStep ==
  ASSUME TypeInv, LockInv, JobInv, [Next]_vars
  PROVE  JobInv'
<1>1. CASE \/ \E t \in Requests, p \in Participants, q \in Questions : SubmitCheck(t, p, q)
           \/ \E t \in Requests, p \in Participants : CancelRead(t, p)
           \/ \E t \in Requests : Serving(t)
  BY <1>1, SubmitKeepsJobs, CancelReadKeepsJobs, CancelWriteKeepsJobs, StopKeepsJobs, Zenon DEF Serving
<1>2. CASE \E w \in Senders : Sending(w) \/ SendFails(w) \/ JudgeRejects(w)
  BY <1>2, SendingKeepsJobs, RecordJobKeepsJobs, WriteRefusalKeepsJobs, Zenon DEF Sending
<1>3. CASE \E w \in Pollers : Polling(w)
  BY <1>3, PollReadKeepsJobs, PollAskKeepsJobs, PollWriteKeepsJobs, Zenon DEF Polling
<1>4. CASE \/ \E o \in Organisers, q \in Questions : RejudgeRead(o, q)
           \/ \E o \in Organisers : Rejudging(o)
  BY <1>4, RejudgeReadKeepsJobs, RejudgeWriteKeepsJobs, StopKeepsJobs, Zenon DEF Rejudging
<1>5. CASE (\E k \in Jobs : Running(k)) \/ (\E k \in Jobs : JobExpires(k)) \/ JudgeRestarts
  BY <1>5, JudgeKeepsJobs, Zenon
<1>6. CASE Crash \/ UNCHANGED vars
  BY <1>6, CrashKeepsJobs
<1> QED BY <1>1, <1>2, <1>3, <1>4, <1>5, <1>6, Zenon DEF Next, Failing

\* A job stopped by a cancel or a rejudge never decides a judgement: both write their
\* rows before they tell the judge (cancel_in_flight, rejudge_question), and a poll
\* whose answer is about another job than the row's writes nothing (_write_result).
THEOREM StoppedJobsAreIgnored == Spec => []StoppedJobsDoNotCount
<1>1. Init => JobInv
  BY JobInvInit
<1>2. TypeInv /\ LockInv /\ JobInv /\ [Next]_vars => JobInv'
  BY JobInvStep
<1>3. JobInv => StoppedJobsDoNotCount
  BY DEF JobInv
<1> QED BY <1>1, <1>2, <1>3, LockInvHolds, PTL DEF Spec

-----------------------------------------------------------------------------
(* What a poller was told stays true.                                       *)

AnswersHold ==
  \A w \in Pollers : poll[w] # NoPoll =>
    LET j == job[poll[w].job]
    IN  /\ poll[w].answer = "gone" => j.state = "gone"
        /\ poll[w].answer \in Outcomes \cup {Undecided} => j.state \in {"done", "gone"} /\ j.result = poll[w].answer

\* A job that ended keeps its result, and may be forgotten.
JobsSettle ==
  \A k \in 1..issued : job[k].state \in {"done", "gone"} =>
    /\ job'[k].state \in {"done", "gone"} /\ job'[k].result = job[k].result
    /\ job[k].state = "gone" => job'[k].state = "gone"

LEMMA StopsSettle ==
  ASSUME TypeInv, NEW ks, StopJobs(ks)
  PROVE  JobsSettle
<1>1. 1..issued \subseteq Jobs
  BY JudgingAssumption DEF TypeInv, TypeOK, Jobs
<1>2. ASSUME NEW k \in Jobs PROVE job'[k].state = job[k].state /\ job'[k].result = job[k].result
  <2>1. job[k] \in JobRow
    BY DEF TypeInv, TypeOK
  <2> QED BY <2>1 DEF StopJobs, JobRow
<1> QED BY <1>1, <1>2 DEF JobsSettle

LEMMA NewJobSettles ==
  ASSUME TypeInv, NEW k, NEW j, NewJob(k, j)
  PROVE  JobsSettle
<1>1. 1..issued \subseteq Jobs \ {k}
  BY JudgingAssumption DEF TypeInv, TypeOK, Jobs, NewJob
<1>2. \A l \in Jobs \ {k} : job'[l] = job[l]
  BY DEF NewJob, TypeInv, TypeOK
<1> QED BY <1>1, <1>2 DEF JobsSettle

\* The judge's own steps: nothing starts to run that was not queued.
LEMMA JudgeSettles ==
  ASSUME TypeInv, (\E k \in Jobs : Running(k) \/ JobExpires(k)) \/ JudgeRestarts
  PROVE  /\ JobsSettle
         /\ \A k \in Jobs : job'[k].state \in {"queued", "running"} => job[k].state \in {"queued", "running"}
<1>1. 1..issued \subseteq Jobs
  BY JudgingAssumption DEF TypeInv, TypeOK, Jobs
<1>2. ASSUME NEW k \in Jobs
      PROVE  /\ job[k].state \in {"done", "gone"} =>
                  /\ job'[k].state \in {"done", "gone"} /\ job'[k].result = job[k].result
                  /\ job[k].state = "gone" => job'[k].state = "gone"
             /\ job'[k].state \in {"queued", "running"} => job[k].state \in {"queued", "running"}
  <2>1. job[k] \in JobRow
    BY DEF TypeInv, TypeOK
  <2>2. ASSUME NEW s, job'[k] = [job[k] EXCEPT !.state = s]
        PROVE  job'[k].state = s /\ job'[k].result = job[k].result
    BY <2>1, <2>2 DEF JobRow
  <2>3. ASSUME NEW v, job'[k] = [job[k] EXCEPT !.state = "done", !.result = v]
        PROVE  job'[k].state = "done"
    BY <2>1, <2>3 DEF JobRow
  <2>4. CASE JudgeRestarts
    BY <2>2, <2>4 DEF JudgeRestarts
  <2>5. ASSUME NEW l \in Jobs, Running(l) \/ JobExpires(l)
        PROVE  \/ job'[k] = job[k]
               \/ job[k].state = "queued" /\ job'[k] = [job[k] EXCEPT !.state = "running"]
               \/ job[k].state = "done" /\ job'[k] = [job[k] EXCEPT !.state = "gone"]
               \/ job[k].state \in {"queued", "running"}
                  /\ \E v : job'[k] = [job[k] EXCEPT !.state = "done", !.result = v]
    <3>1. CASE job[l].state = "queued" /\ job' = [job EXCEPT ![l].state = "running"]
      BY <3>1 DEF TypeInv, TypeOK
    <3>2. CASE job[l].state \in {"queued", "running"} /\ \E v : Done(l, v)
      <4>1. PICK v : job' = [job EXCEPT ![l] = [job[l] EXCEPT !.state = "done", !.result = v]]
        BY <3>2 DEF Done
      <4>2. l # k => job'[k] = job[k]
        BY <4>1 DEF TypeInv, TypeOK
      <4>3. l = k => job'[k] = [job[k] EXCEPT !.state = "done", !.result = v]
        BY <4>1 DEF TypeInv, TypeOK
      <4> QED BY <3>2, <4>2, <4>3
    <3>3. CASE JobExpires(l)
      BY <3>3 DEF JobExpires, TypeInv, TypeOK
    <3> QED BY <2>5, <3>1, <3>2, <3>3, Zenon DEF Running, JobStarts, JobEnds
  <2> QED BY <2>2, <2>3, <2>4, <2>5
<1> QED BY <1>1, <1>2 DEF JobsSettle

LEMMA EveryStepSettles ==
  ASSUME TypeInv, [Next]_vars
  PROVE  JobsSettle
<1>1. CASE UNCHANGED job
  BY <1>1 DEF JobsSettle
<1>2. CASE (\E t \in Requests : CancelStop(t)) \/ (\E o \in Organisers : RejudgeStop(o))
  BY <1>2, StopsSettle DEF CancelStop, RejudgeStop
<1>3. CASE \E w \in Senders : JudgeAccepts(w) \/ SendFails(w)
  BY <1>1, <1>3, NewJobSettles DEF JudgeAccepts, SendFails, judge
<1>4. CASE (\E k \in Jobs : Running(k)) \/ (\E k \in Jobs : JobExpires(k)) \/ JudgeRestarts
  BY <1>4, JudgeSettles
<1>5. CASE \/ \E t \in Requests, p \in Participants, q \in Questions : SubmitCheck(t, p, q)
           \/ \E t \in Requests, p \in Participants : CancelRead(t, p)
           \/ \E t \in Requests : SubmitInsert(t) \/ CancelWrite(t)
           \/ \E w \in Senders : Claim(w) \/ RecordJob(w) \/ WriteRefusal(w) \/ JudgeRejects(w)
           \/ \E w \in Pollers : Polling(w)
           \/ \E o \in Organisers, q \in Questions : RejudgeRead(o, q)
           \/ \E o \in Organisers : RejudgeWrite(o)
           \/ Crash \/ UNCHANGED vars
  <2>1. UNCHANGED job
    BY <1>5 DEF SubmitCheck, CancelRead, SubmitInsert, CancelWrite, Claim, RecordJob, WriteRefusal,
                JudgeRejects, Polling, PollRead, PollAsk, PollWrite, RejudgeRead, RejudgeWrite, Crash,
                vars, judge
  <2> QED BY <1>1, <2>1
<1> QED BY <1>2, <1>3, <1>4, <1>5, Zenon DEF Next, Serving, Sending, Rejudging, Failing

\* Only asking changes what a poller knows.
LEMMA PollersChange ==
  ASSUME TypeInv, [Next]_vars, NEW w \in Pollers
  PROVE  \/ poll'[w] = poll[w] \/ poll'[w] = NoPoll
         \/ poll'[w].answer = "none"
         \/ /\ poll[w] # NoPoll /\ job' = job
            /\ poll'[w].job = poll[w].job /\ poll'[w].answer = Answer(poll[w].job)
<1>1. CASE UNCHANGED poll
  BY <1>1
<1>2. CASE \E v \in Pollers : Polling(v)
  <2>1. PICK v \in Pollers : Polling(v)
    BY <1>2
  <2>2. CASE PollWrite(v) \/ \E j \in Rows : PollRead(v, j)
    BY <2>2 DEF PollWrite, PollRead, TypeInv, TypeOK
  <2>3. CASE PollAsk(v)
    <3> DEFINE new == [poll[v] EXCEPT !.answer = Answer(poll[v].job)]
    <3>1. poll[v] \in PollState /\ poll' = [poll EXCEPT ![v] = new] /\ poll[v] # NoPoll /\ job' = job
      BY <2>3 DEF PollAsk, TypeInv, TypeOK, judge
    <3>2. new.job = poll[v].job /\ new.answer = Answer(poll[v].job)
      BY <3>1 DEF PollState
    <3> HIDE DEF new
    <3> QED BY <3>1, <3>2 DEF TypeInv, TypeOK
  <2> QED BY <2>1, <2>2, <2>3 DEF Polling
<1>3. CASE Crash
  BY <1>3 DEF Crash, TypeInv, TypeOK
<1>4. CASE \/ \E t \in Requests, p \in Participants, q \in Questions : SubmitCheck(t, p, q)
           \/ \E t \in Requests, p \in Participants : CancelRead(t, p)
           \/ \E t \in Requests : Serving(t)
           \/ \E v \in Senders : Sending(v) \/ SendFails(v) \/ JudgeRejects(v)
           \/ \E o \in Organisers, q \in Questions : RejudgeRead(o, q)
           \/ \E o \in Organisers : Rejudging(o)
           \/ \E k \in Jobs : Running(k) \/ JobExpires(k)
           \/ JudgeRestarts \/ UNCHANGED vars
  <2>1. UNCHANGED poll
    BY <1>4 DEF SubmitCheck, CancelRead, Serving, SubmitInsert, CancelWrite, CancelStop, Sending, Claim,
                JudgeAccepts, RecordJob, WriteRefusal, SendFails, JudgeRejects, RejudgeRead, Rejudging,
                RejudgeWrite, RejudgeStop, Running, JobStarts, JobEnds, JobExpires, JudgeRestarts,
                vars, threads
  <2> QED BY <1>1, <2>1
<1> QED BY <1>2, <1>3, <1>4, Zenon DEF Next, Failing

LEMMA AnswersHoldStep ==
  ASSUME TypeInv, JobInv, AnswersHold, [Next]_vars
  PROVE  AnswersHold'
<1> SUFFICES ASSUME NEW w \in Pollers, poll'[w] # NoPoll
             PROVE  /\ poll'[w].answer = "gone" => job'[poll'[w].job].state = "gone"
                    /\ poll'[w].answer \in Outcomes \cup {Undecided} =>
                         /\ job'[poll'[w].job].state \in {"done", "gone"}
                         /\ job'[poll'[w].job].result = poll'[w].answer
  BY DEF AnswersHold
<1>1. \A s \in JobStates : s \notin Outcomes \cup {Undecided}
  BY JudgingAssumption DEF Outcomes, JobStates
<1>2. CASE poll'[w] = poll[w]
  <2>1. poll[w].job \in 1..issued
    BY <1>2 DEF JobInv, JobsAreOfTheirRows
  <2> QED BY <1>2, <2>1, EveryStepSettles DEF AnswersHold, JobsSettle
<1>3. CASE poll'[w].answer = "none"
  BY <1>1, <1>3 DEF JobStates
<1>4. CASE /\ poll[w] # NoPoll /\ job' = job
           /\ poll'[w].job = poll[w].job /\ poll'[w].answer = Answer(poll[w].job)
  <2> DEFINE k == poll[w].job
  <2>1. k \in Jobs
    BY <1>4, JudgingAssumption DEF JobInv, JobsAreOfTheirRows, TypeInv, TypeOK, Jobs
  <2>2. job[k].state \in JobStates /\ job[k].result \in Outcomes \cup {Undecided}
    BY <2>1 DEF TypeInv, TypeOK, JobRow
  <2>3. "gone" \notin Outcomes \cup {Undecided}
    BY JudgingAssumption DEF Outcomes, JobStates
  <2> QED BY <1>1, <1>4, <2>2, <2>3 DEF Answer
<1> QED BY <1>2, <1>3, <1>4, PollersChange

\* All that is proved of every run.
Inv == TypeInv /\ LockInv /\ JobInv /\ AnswersHold

LEMMA InvHolds == Spec => []Inv
<1>1. Init => Inv
  BY TypeInvInit, LockInvInit, JobInvInit DEF Inv, Init, AnswersHold
<1>2. Inv /\ [Next]_vars => Inv'
  BY TypeInvStep, LockInvStep, JobInvStep, AnswersHoldStep DEF Inv
<1> QED BY <1>1, <1>2, PTL DEF Spec

-----------------------------------------------------------------------------
(* What holds as long as the judge refuses nothing.                         *)

NothingRefused == \A w \in Senders : send[w].at # "refused"

LEMMA NothingRefusedHolds ==
  ASSUME "reject" \notin Faults
  PROVE  Spec => []NothingRefused
<1>1. Init => NothingRefused
  BY DEF Init, NothingRefused, NoSend
<1>2. ASSUME TypeInv, NothingRefused, [Next]_vars PROVE NothingRefused'
  <2>1. CASE UNCHANGED send
    BY <1>2, <2>1 DEF NothingRefused
  <2>2. CASE \E w \in Senders : Sending(w) \/ SendFails(w) \/ JudgeRejects(w)
    <3>1. PICK w \in Senders : Sending(w) \/ SendFails(w) \/ JudgeRejects(w)
      BY <2>2
    <3>2. \A v \in Senders \ {w} : send'[v] = send[v]
      <4>1. CASE Claim(w) \/ JudgeAccepts(w)
        BY <1>2, <4>1 DEF Claim, JudgeAccepts, TypeInv, TypeOK
      <4>2. CASE RecordJob(w) \/ WriteRefusal(w) \/ SendFails(w)
        BY <1>2, <4>2 DEF RecordJob, WriteRefusal, SendFails, TypeInv, TypeOK
      <4> QED BY <3>1, <4>1, <4>2 DEF Sending, JudgeRejects, Fault
    <3>3. send'[w].at # "refused"
      <4>1. CASE Claim(w)
        <5>1. PICK j \in Claimable :
                send' = [send EXCEPT ![w] = [NoSend EXCEPT !.at = "claimed", !.row = j]]
          BY <4>1 DEF Claim, Oldest
        <5> QED BY <1>2, <5>1 DEF NoSend, TypeInv, TypeOK
      <4>2. CASE JudgeAccepts(w)
        <5>1. PICK k \in Jobs : send' = [send EXCEPT ![w] = [send[w] EXCEPT !.at = "sent", !.job = k]]
          BY <4>2 DEF JudgeAccepts
        <5>2. send[w] \in SendState /\ send'[w] = [send[w] EXCEPT !.at = "sent", !.job = k]
          BY <1>2, <5>1 DEF TypeInv, TypeOK
        <5> QED BY <5>2 DEF SendState
      <4>3. CASE RecordJob(w) \/ WriteRefusal(w) \/ SendFails(w)
        BY <1>2, <4>3, NothingHeld DEF RecordJob, WriteRefusal, SendFails, TypeInv, TypeOK
      <4> QED BY <3>1, <4>1, <4>2, <4>3 DEF Sending, JudgeRejects, Fault
    <3> QED BY <1>2, <3>2, <3>3 DEF NothingRefused
  <2>3. CASE Crash
    BY <1>2, <2>3, NothingHeld DEF NothingRefused, Crash, TypeInv, TypeOK
  <2>4. CASE \/ \E t \in Requests, p \in Participants, q \in Questions : SubmitCheck(t, p, q)
             \/ \E t \in Requests, p \in Participants : CancelRead(t, p)
             \/ \E t \in Requests : Serving(t)
             \/ \E w \in Pollers : Polling(w)
             \/ \E o \in Organisers, q \in Questions : RejudgeRead(o, q)
             \/ \E o \in Organisers : Rejudging(o)
             \/ \E k \in Jobs : Running(k) \/ JobExpires(k)
             \/ JudgeRestarts \/ UNCHANGED vars
    <3>1. UNCHANGED send
      BY <2>4 DEF SubmitCheck, CancelRead, Serving, SubmitInsert, CancelWrite, CancelStop, Polling, PollRead,
                  PollAsk, PollWrite, RejudgeRead, Rejudging, RejudgeWrite, RejudgeStop, Running, JobStarts,
                  JobEnds, JobExpires, JudgeRestarts, vars, threads
    <3> QED BY <2>1, <3>1
  <2> QED BY <1>2, <2>2, <2>3, <2>4, Zenon DEF Next, Failing
<1>3. TypeInv /\ NothingRefused /\ [Next]_vars => NothingRefused'
  BY <1>2
<1> QED BY <1>1, <1>3, TypeInvHolds, PTL DEF Spec

\* Who decides a row: a cancel, a refusal, or an answer about the row's own job.
LEMMA WhoDecides ==
  ASSUME TypeInv, LockInv, [Next]_vars, NEW j \in Rows,
         judgement[j].state # "done", judgement'[j].state = "done"
  PROVE  \/ judgement'[j].cancelled
         \/ \E w \in Senders : WriteRefusal(w)
         \/ \E w \in Pollers :
              /\ poll[w] # NoPoll /\ judgement[j].job = poll[w].job
              /\ poll[w].answer \notin {"none", "gone", "queued", "running"}
              /\ judgement'[j].verdict = poll[w].answer
<1>0. judgement[j] \in Row
  BY RowTypes
<1>1. CASE judgement' = judgement
  BY <1>1
<1>2. CASE \E t \in Requests : SubmitInsert(t)
  <2>1. PICK t \in Requests : SubmitInsert(t)
    BY <1>2
  <2>2. judgement'[j] = Pending(request[t].who, request[t].question, j)
    BY <2>1, SubmitInsertRows
  <2>3. Pending(request[t].who, request[t].question, j).state = "pending"
    BY DEF Pending, Blank
  <2> QED BY <2>2, <2>3
<1>3. CASE \E t \in Requests : CancelWrite(t)
  <2>1. PICK t \in Requests : CancelWrite(t)
    BY <1>3
  <2>2. \/ judgement'[j] = judgement[j]
        \/ judgement'[j] = [judgement[j] EXCEPT !.state = "done", !.cancelled = TRUE, !.verdict = "cancelled"]
    BY <2>1 DEF CancelWrite
  <2> QED BY <1>0, <2>2 DEF Row
<1>4. CASE \E w \in Senders : RecordJob(w)
  <2>1. PICK w \in Senders : RecordJob(w)
    BY <1>4
  <2> DEFINE new == [judgement[j] EXCEPT !.state = "queued", !.job = send[w].job]
  <2>2. judgement'[j] = judgement[j] \/ judgement'[j] = new
    BY <2>1 DEF RecordJob, TypeInv, TypeOK
  <2>3. new.state = "queued"
    BY <1>0 DEF Row
  <2> QED BY <2>2, <2>3
<1>5. CASE \E w \in Pollers : PollWrite(w)
  <2>1. PICK w \in Pollers : PollWrite(w)
    BY <1>5
  <2>2. poll[w] # NoPoll
    BY <2>1, JudgingAssumption DEF PollWrite, NoPoll
  <2>3. CASE Resubmit(poll[w].row, poll[w].job)
    <3>1. \/ judgement'[j] = judgement[j]
          \/ judgement'[j] = [judgement[j] EXCEPT !.state = "pending", !.job = NoJob]
      BY <2>3 DEF Resubmit, TypeInv, TypeOK
    <3> QED BY <1>0, <3>1 DEF Row
  <2>4. CASE /\ poll[w].answer \in {"queued", "running"}
             /\ WriteProgress(poll[w].row, poll[w].job, poll[w].seen, poll[w].answer)
    <3>1. \/ judgement'[j] = judgement[j]
          \/ judgement'[j] = [judgement[j] EXCEPT !.state = poll[w].answer]
      BY <2>4 DEF WriteProgress, TypeInv, TypeOK
    <3> QED BY <1>0, <2>4, <3>1 DEF Row
  <2>5. CASE /\ poll[w].answer \notin {"gone", "queued", "running"}
             /\ WriteResult(poll[w].row, StillWaiting(poll[w].row, poll[w].job), poll[w].answer)
    <3>1. poll[w].row \in Rows
      BY <2>2, JudgingAssumption DEF TypeInv, TypeOK, HeldRowsExist, Rows
    <3>2. /\ StillWaiting(poll[w].row, poll[w].job) /\ j = poll[w].row
          /\ judgement'[j] = [judgement[j] EXCEPT !.state = "done", !.verdict = poll[w].answer]
      BY <2>5, <3>1 DEF WriteResult, TypeInv, TypeOK
    <3>3. judgement'[j].verdict = poll[w].answer
      BY <1>0, <3>2 DEF Row
    <3> QED BY <2>1, <2>2, <2>5, <3>2, <3>3 DEF StillWaiting, PollWrite
  <2> QED BY <2>1, <2>3, <2>4, <2>5 DEF PollWrite
<1>6. CASE \E o \in Organisers : RejudgeWrite(o)
  <2>1. PICK subs \in SUBSET (1..last), n \in Nat :
          \E sub : last + n \in 0..MaxRows /\ Rejudged(subs, n, sub)
    BY <1>6, RejudgeWriteRows
  <2>2. PICK sub : last + n \in 0..MaxRows /\ Rejudged(subs, n, sub)
    BY <2>1
  <2>3. CASE judgement'[j] = [judgement[j] EXCEPT !.superseded = TRUE]
    BY <1>0, <2>3 DEF Row
  <2>4. CASE judgement'[j] = Pending(judgement[sub[j]].by, judgement[sub[j]].question, sub[j])
    <3>1. Pending(judgement[sub[j]].by, judgement[sub[j]].question, sub[j]).state = "pending"
      BY DEF Pending, Blank
    <3> QED BY <2>4, <3>1
  <2>5. CASE judgement'[j] = judgement[j]
    BY <2>5
  <2>6. \/ judgement'[j] = judgement[j]
        \/ judgement'[j] = [judgement[j] EXCEPT !.superseded = TRUE]
        \/ judgement'[j] = Pending(judgement[sub[j]].by, judgement[sub[j]].question, sub[j])
    BY <2>2, RejudgedRows
  <2> QED BY <2>3, <2>4, <2>5, <2>6
<1>7. CASE \/ \E t \in Requests, p \in Participants, q \in Questions : SubmitCheck(t, p, q)
           \/ \E t \in Requests, p \in Participants : CancelRead(t, p)
           \/ \E t \in Requests : CancelStop(t)
           \/ \E w \in Senders : Claim(w) \/ JudgeAccepts(w) \/ SendFails(w) \/ JudgeRejects(w)
           \/ \E w \in Pollers : (\E i \in Rows : PollRead(w, i)) \/ PollAsk(w)
           \/ \E o \in Organisers, q \in Questions : RejudgeRead(o, q)
           \/ \E o \in Organisers : RejudgeStop(o)
           \/ \E k \in Jobs : Running(k) \/ JobExpires(k)
           \/ JudgeRestarts \/ Crash \/ UNCHANGED vars
  <2>1. UNCHANGED judgement
    BY <1>7 DEF SubmitCheck, CancelRead, CancelStop, Claim, JudgeAccepts, SendFails, JudgeRejects, PollRead,
                PollAsk, RejudgeRead, RejudgeStop, Running, JobStarts, JobEnds, JobExpires, JudgeRestarts,
                Crash, vars, rows
  <2> QED BY <1>1, <2>1
<1> QED BY <1>2, <1>3, <1>4, <1>5, <1>6, <1>7, Zenon DEF Next, Failing, Serving, Sending, Polling, Rejudging

\* As long as the judge refuses nothing, a row is decided by the result of the very job
\* it waits for, whatever old answers other pollers hold (_write_result's comparison of
\* job ids).  A refusal breaks this, and is the only thing that does.
THEOREM ResultIsTheRowsOwn ==
  ASSUME "reject" \notin Faults
  PROVE  Spec => ResultOfTheJobWaitedFor
<1> DEFINE Own == \A j \in Rows :
              /\ judgement[j].state # "done" /\ judgement'[j].state = "done"
              /\ ~judgement'[j].cancelled
              /\ judgement[j].job # NoJob
              => judgement'[j].verdict = job[judgement[j].job].result
<1>1. ASSUME Inv, NothingRefused, [Next]_vars PROVE Own
  <2> SUFFICES ASSUME NEW j \in Rows, judgement[j].state # "done", judgement'[j].state = "done",
                      ~judgement'[j].cancelled
               PROVE  judgement'[j].verdict = job[judgement[j].job].result
    OBVIOUS
  <2>1. PICK w \in Pollers :
          /\ poll[w] # NoPoll /\ judgement[j].job = poll[w].job
          /\ poll[w].answer \notin {"none", "gone", "queued", "running"}
          /\ judgement'[j].verdict = poll[w].answer
    BY <1>1, WhoDecides DEF Inv, NothingRefused, WriteRefusal
  <2>2. poll[w].answer \in Outcomes \cup {Undecided}
    BY <1>1, <2>1 DEF Inv, TypeInv, TypeOK, PollState, JobStates, DoneIsNoAnswer
  <2>3. CASE poll[w].answer \in Outcomes
    BY <1>1, <2>1, <2>3 DEF Inv, AnswersHold
  <2>4. CASE poll[w].answer = Undecided
    BY <1>1, <2>1, <2>4 DEF Inv, AnswersHold
  <2> QED BY <2>2, <2>3, <2>4
<1>2. Inv /\ NothingRefused /\ [Next]_vars => [Own]_vars
  BY <1>1
<1> QED BY <1>2, InvHolds, NothingRefusedHolds, PTL DEF Spec, ResultOfTheJobWaitedFor

-----------------------------------------------------------------------------
(* What holds as long as no answer of the judge is lost.                    *)

\* The judge runs only jobs that their row waits for, or waited for, or that the
\* sender who asked for them holds.
RunningIsRecorded ==
  \A k \in Jobs : job[k].state \in {"queued", "running"} =>
    \/ \E j \in Rows : judgement[j].job = k
    \/ \E w \in Senders : send[w].at = "sent" /\ send[w].job = k

\* A row parts with its job only when the judge has forgotten it.
LEMMA RowsKeepRunningJobs ==
  ASSUME Inv, [Next]_vars, NEW j \in Rows, judgement[j].job \in Jobs,
         job[judgement[j].job].state \in {"queued", "running"}
  PROVE  judgement'[j].job = judgement[j].job
<1>0. judgement[j] \in Row /\ judgement[j].job # NoJob
  BY RowTypes DEF Inv, Jobs, NoJob
<1>1. judgement[j].state \notin {"none", "pending"} /\ judgement[j] # Blank
  BY <1>0 DEF Inv, JobInv, PendingHasNoJob, Blank
<1>2. CASE UNCHANGED judgement
  BY <1>2
<1>3. CASE \E t \in Requests : SubmitInsert(t)
  <2>1. PICK i \in Rows : /\ judgement[i].state = "none"
                          /\ \A l \in Rows \ {i} : judgement'[l] = judgement[l]
    BY <1>3, SubmitInsertRows DEF Inv
  <2> QED BY <1>1, <2>1
<1>4. CASE \E t \in Requests : CancelWrite(t)
  <2>1. \/ judgement'[j] = judgement[j]
        \/ judgement'[j] = [judgement[j] EXCEPT !.state = "done", !.cancelled = TRUE, !.verdict = "cancelled"]
    <3>1. PICK t \in Requests : CancelWrite(t)
      BY <1>4
    <3> QED BY <3>1 DEF CancelWrite
  <2> QED BY <1>0, <2>1 DEF Row
<1>5. CASE \E w \in Senders : RecordJob(w)
  <2>1. PICK w \in Senders : RecordJob(w)
    BY <1>5
  <2>2. judgement[send[w].row].state = "pending"
    BY <2>1 DEF RecordJob, Inv, LockInv, ClaimsArePending, Deciding
  <2> QED BY <1>1, <2>1, <2>2 DEF RecordJob, Inv, TypeInv, TypeOK
<1>6. ASSUME NEW i, NEW waiting, NEW v, WriteResult(i, waiting, v)
      PROVE  judgement'[j].job = judgement[j].job
  <2>1. \/ judgement'[j] = judgement[j]
        \/ judgement'[j] = [judgement[j] EXCEPT !.state = "done", !.verdict = v]
    BY <1>6 DEF WriteResult, Inv, TypeInv, TypeOK
  <2> QED BY <1>0, <2>1 DEF Row
<1>7. CASE \E w \in Senders : WriteRefusal(w)
  BY <1>6, <1>7 DEF WriteRefusal
<1>8. CASE \E w \in Pollers : PollWrite(w)
  <2>1. PICK w \in Pollers : PollWrite(w)
    BY <1>8
  <2>2. CASE poll[w].answer = "gone" /\ Resubmit(poll[w].row, poll[w].job)
    <3>1. poll[w] # NoPoll
      BY <2>1, JudgingAssumption DEF PollWrite, NoPoll
    <3>2. job[poll[w].job].state = "gone"
      BY <2>2, <3>1 DEF Inv, AnswersHold
    <3>3. ~(j = poll[w].row /\ OnTheJudge(poll[w].row, poll[w].job))
      BY <3>2 DEF OnTheJudge
    <3>4. judgement'[j] = judgement[j]
      BY <2>2, <3>3 DEF Resubmit, Inv, TypeInv, TypeOK
    <3> QED BY <3>4
  <2>3. CASE WriteProgress(poll[w].row, poll[w].job, poll[w].seen, poll[w].answer)
    <3>1. \/ judgement'[j] = judgement[j]
          \/ judgement'[j] = [judgement[j] EXCEPT !.state = poll[w].answer]
      BY <2>3 DEF WriteProgress, Inv, TypeInv, TypeOK
    <3> QED BY <1>0, <3>1 DEF Row
  <2> QED BY <1>6, <2>1, <2>2, <2>3 DEF PollWrite
<1>9. CASE \E o \in Organisers : RejudgeWrite(o)
  <2>1. PICK subs \in SUBSET (1..last), n \in Nat :
          \E sub : last + n \in 0..MaxRows /\ Rejudged(subs, n, sub)
    BY <1>9, RejudgeWriteRows DEF Inv
  <2>2. PICK sub : last + n \in 0..MaxRows /\ Rejudged(subs, n, sub)
    BY <2>1
  <2>3. \/ judgement'[j] = judgement[j]
        \/ judgement'[j] = [judgement[j] EXCEPT !.superseded = TRUE]
    BY <1>1, <2>2, RejudgedRows DEF Inv
  <2> QED BY <1>0, <2>3 DEF Row
<1>10. CASE \/ \E t \in Requests, p \in Participants, q \in Questions : SubmitCheck(t, p, q)
            \/ \E t \in Requests, p \in Participants : CancelRead(t, p)
            \/ \E t \in Requests : CancelStop(t)
            \/ \E w \in Senders : Claim(w) \/ JudgeAccepts(w) \/ SendFails(w) \/ JudgeRejects(w)
            \/ \E w \in Pollers : (\E i \in Rows : PollRead(w, i)) \/ PollAsk(w)
            \/ \E o \in Organisers, q \in Questions : RejudgeRead(o, q)
            \/ \E o \in Organisers : RejudgeStop(o)
            \/ \E k \in Jobs : Running(k) \/ JobExpires(k)
            \/ JudgeRestarts \/ Crash \/ UNCHANGED vars
  <2>1. UNCHANGED judgement
    BY <1>10 DEF SubmitCheck, CancelRead, CancelStop, Claim, JudgeAccepts, SendFails, JudgeRejects, PollRead,
                 PollAsk, RejudgeRead, RejudgeStop, Running, JobStarts, JobEnds, JobExpires, JudgeRestarts,
                 Crash, vars, rows
  <2> QED BY <1>2, <2>1
<1> QED BY <1>3, <1>4, <1>5, <1>7, <1>8, <1>9, <1>10, Zenon
    DEF Next, Failing, Serving, Sending, Polling, Rejudging

\* A sender that holds a job records it, unless its process dies.
LEMMA SentIsRecorded ==
  ASSUME Inv, "crash" \notin Faults, [Next]_vars, NEW w \in Senders, send[w].at = "sent"
  PROVE  \/ send'[w] = send[w]
         \/ judgement'[send[w].row].job = send[w].job /\ send[w].row \in Rows
<1>1. CASE UNCHANGED send
  BY <1>1
<1>2. CASE \E v \in Senders : Sending(v) \/ SendFails(v) \/ JudgeRejects(v)
  <2>1. PICK v \in Senders : Sending(v) \/ SendFails(v) \/ JudgeRejects(v)
    BY <1>2
  <2>2. CASE v = w
    <3>1. RecordJob(w)
      BY <2>1, <2>2 DEF Sending, Claim, JudgeAccepts, WriteRefusal, SendFails, JudgeRejects
    <3> DEFINE new == [judgement[send[w].row] EXCEPT !.state = "queued", !.job = send[w].job]
    <3>2. send[w].row \in Rows
      BY JudgingAssumption DEF Inv, TypeInv, TypeOK, HeldRowsExist, Rows
    <3>3. judgement[send[w].row] \in Row /\ judgement'[send[w].row] = new
      BY <3>1, <3>2 DEF RecordJob, Inv, TypeInv, TypeOK
    <3>4. new.job = send[w].job
      BY <3>3 DEF Row
    <3> QED BY <3>2, <3>3, <3>4
  <2>3. CASE v # w
    <3>1. send'[w] = send[w]
      <4>1. CASE Claim(v) \/ JudgeAccepts(v)
        BY <2>3, <4>1 DEF Claim, JudgeAccepts, Inv, TypeInv, TypeOK
      <4>2. CASE RecordJob(v) \/ WriteRefusal(v) \/ SendFails(v) \/ JudgeRejects(v)
        BY <2>3, <4>2 DEF RecordJob, WriteRefusal, SendFails, JudgeRejects, Inv, TypeInv, TypeOK
      <4> QED BY <2>1, <4>1, <4>2 DEF Sending
    <3> QED BY <3>1
  <2> QED BY <2>2, <2>3
<1>3. CASE \/ \E t \in Requests, p \in Participants, q \in Questions : SubmitCheck(t, p, q)
           \/ \E t \in Requests, p \in Participants : CancelRead(t, p)
           \/ \E t \in Requests : Serving(t)
           \/ \E v \in Pollers : Polling(v)
           \/ \E o \in Organisers, q \in Questions : RejudgeRead(o, q)
           \/ \E o \in Organisers : Rejudging(o)
           \/ \E k \in Jobs : Running(k) \/ JobExpires(k)
           \/ JudgeRestarts \/ UNCHANGED vars
  <2>1. UNCHANGED send
    BY <1>3 DEF SubmitCheck, CancelRead, Serving, SubmitInsert, CancelWrite, CancelStop, Polling, PollRead,
                PollAsk, PollWrite, RejudgeRead, Rejudging, RejudgeWrite, RejudgeStop, Running, JobStarts,
                JobEnds, JobExpires, JudgeRestarts, vars, threads
  <2> QED BY <1>1, <2>1
<1>4. ~Crash
  BY DEF Crash, Fault
<1> QED BY <1>2, <1>3, <1>4, Zenon DEF Next, Failing

\* What starts to run is held by the sender that asked for it.
LEMMA StartedIsHeld ==
  ASSUME Inv, "lost_reply" \notin Faults, [Next]_vars, NEW k \in Jobs,
         job'[k].state \in {"queued", "running"}
  PROVE  \/ job[k].state \in {"queued", "running"}
         \/ \E w \in Senders : send'[w].at = "sent" /\ send'[w].job = k
<1>1. CASE UNCHANGED job
  BY <1>1
<1>2. CASE (\E t \in Requests : CancelStop(t)) \/ (\E o \in Organisers : RejudgeStop(o))
  <2>1. \E ks : StopJobs(ks)
    BY <1>2 DEF CancelStop, RejudgeStop
  <2>2. job'[k] = job[k] \/ job'[k] = [job[k] EXCEPT !.cancelled = TRUE]
    BY <2>1 DEF StopJobs
  <2>3. job[k] \in JobRow
    BY DEF Inv, TypeInv, TypeOK
  <2> QED BY <2>2, <2>3 DEF JobRow
<1>3. CASE \E w \in Senders : JudgeAccepts(w)
  <2>1. PICK w \in Senders : JudgeAccepts(w)
    BY <1>3
  <2>2. PICK l \in Jobs : /\ NewJob(l, send[w].row)
                          /\ send' = [send EXCEPT ![w] = [send[w] EXCEPT !.at = "sent", !.job = l]]
    BY <2>1 DEF JudgeAccepts
  <2>3. send[w] \in SendState /\ send'[w] = [send[w] EXCEPT !.at = "sent", !.job = l]
    BY <2>2 DEF Inv, TypeInv, TypeOK
  <2>4. send'[w].at = "sent" /\ send'[w].job = l
    BY <2>3 DEF SendState
  <2>5. l # k => job'[k] = job[k]
    BY <2>2 DEF NewJob, Inv, TypeInv, TypeOK
  <2> QED BY <2>4, <2>5
<1>4. CASE \E w \in Senders : SendFails(w)
  BY <1>1, <1>4 DEF SendFails, Fault, judge
<1>5. CASE (\E l \in Jobs : Running(l) \/ JobExpires(l)) \/ JudgeRestarts
  BY <1>5, JudgeSettles DEF Inv
<1>6. CASE \/ \E t \in Requests, p \in Participants, q \in Questions : SubmitCheck(t, p, q)
           \/ \E t \in Requests, p \in Participants : CancelRead(t, p)
           \/ \E t \in Requests : SubmitInsert(t) \/ CancelWrite(t)
           \/ \E w \in Senders : Claim(w) \/ RecordJob(w) \/ WriteRefusal(w) \/ JudgeRejects(w)
           \/ \E w \in Pollers : Polling(w)
           \/ \E o \in Organisers, q \in Questions : RejudgeRead(o, q)
           \/ \E o \in Organisers : RejudgeWrite(o)
           \/ Crash \/ UNCHANGED vars
  <2>1. UNCHANGED job
    BY <1>6 DEF SubmitCheck, CancelRead, SubmitInsert, CancelWrite, Claim, RecordJob, WriteRefusal,
                JudgeRejects, Polling, PollRead, PollAsk, PollWrite, RejudgeRead, RejudgeWrite, Crash,
                vars, judge
  <2> QED BY <1>1, <2>1
<1> QED BY <1>2, <1>3, <1>4, <1>5, <1>6, Zenon DEF Next, Serving, Sending, Rejudging, Failing

LEMMA RunningIsRecordedHolds ==
  ASSUME {"lost_reply", "crash"} \cap Faults = {}
  PROVE  Spec => []RunningIsRecorded
<1>1. Init => RunningIsRecorded
  BY DEF Init, RunningIsRecorded
<1>2. ASSUME Inv, RunningIsRecorded, [Next]_vars PROVE RunningIsRecorded'
  <2> SUFFICES ASSUME NEW k \in Jobs, job'[k].state \in {"queued", "running"}
               PROVE  \/ \E j \in Rows : judgement'[j].job = k
                      \/ \E w \in Senders : send'[w].at = "sent" /\ send'[w].job = k
    BY DEF RunningIsRecorded
  <2>1. CASE \E w \in Senders : send'[w].at = "sent" /\ send'[w].job = k
    BY <2>1
  <2>2. CASE job[k].state \in {"queued", "running"}
    <3>1. CASE \E j \in Rows : judgement[j].job = k
      BY <1>2, <2>2, <3>1, RowsKeepRunningJobs
    <3>2. CASE \E w \in Senders : send[w].at = "sent" /\ send[w].job = k
      BY <1>2, <3>2, SentIsRecorded
    <3> QED BY <1>2, <2>2, <3>1, <3>2 DEF RunningIsRecorded
  <2> QED BY <1>2, <2>1, <2>2, StartedIsHeld
<1>3. Inv /\ RunningIsRecorded /\ [Next]_vars => RunningIsRecorded'
  BY <1>2
<1> QED BY <1>1, <1>3, InvHolds, PTL DEF Spec

\* As long as no answer is lost on its way, the judge never has two jobs of one row to
\* run, however many senders look for work at once: send_one claims the row before it
\* asks, and a row is sent again only after the judge has forgotten its job.
THEOREM SentOnceUnlessLost ==
  ASSUME {"lost_reply", "crash"} \cap Faults = {}
  PROVE  Spec => []SentOnce
<1>1. ASSUME Inv, RunningIsRecorded PROVE SentOnce
  <2> SUFFICES ASSUME NEW j \in Rows
               PROVE  Cardinality({k \in Jobs : job[k].of = j /\ job[k].state \in {"queued", "running"}}) <= 1
    BY DEF SentOnce
  <2> DEFINE ks == {k \in Jobs : job[k].of = j /\ job[k].state \in {"queued", "running"}}
  <2>1. ASSUME NEW k \in ks
        PROVE  \/ judgement[j].job = k /\ k # NoJob
               \/ \E w \in Senders : send[w].at = "sent" /\ send[w].job = k /\ send[w].row = j
    <3>1. k # NoJob
      BY DEF Jobs, NoJob
    <3>2. CASE \E i \in Rows : judgement[i].job = k
      BY <1>1, <3>1, <3>2 DEF Inv, JobInv, JobsAreOfTheirRows, IsJobOf
    <3>3. CASE \E w \in Senders : send[w].at = "sent" /\ send[w].job = k
      BY <1>1, <3>3 DEF Inv, JobInv, JobsAreOfTheirRows, IsJobOf
    <3> QED BY <1>1, <3>2, <3>3 DEF RunningIsRecorded
  <2>2. ASSUME NEW w \in Senders, send[w].at = "sent", send[w].row = j
        PROVE  /\ judgement[j].job = NoJob
               /\ \A v \in Senders : send[v].at = "sent" /\ send[v].row = j => v = w
    BY <1>1, <2>2 DEF Inv, LockInv, ClaimsArePending, Deciding, JobInv, PendingHasNoJob
  <2>3. \A k, l \in ks : k = l
    BY <2>1, <2>2
  <2> HIDE DEF ks
  <2>4. ks = {} \/ \E k : ks = {k}
    BY <2>3
  <2>5. Cardinality(ks) <= 1
    <3>1. CASE ks = {}
      BY <3>1, FS_EmptySet
    <3>2. CASE \E k : ks = {k}
      <4>1. Cardinality(ks) = 1
        BY <3>2, FS_Singleton
      <4> QED BY <4>1
    <3> QED BY <2>4, <3>1, <3>2
  <2> QED BY <2>5 DEF ks
<1> QED BY <1>1, InvHolds, RunningIsRecordedHolds, PTL DEF Spec
=============================================================================
