--------------------------------- MODULE Feed ---------------------------------
(***************************************************************************)
(* The event feed: engine/core/events and state on the server, and         *)
(* web/src/components/contest-provider with the announcement overlay in    *)
(* the browser of one viewer.                                              *)
(*                                                                         *)
(* A change commits first and its event is inserted afterwards, in a       *)
(* transaction of its own.  The page keeps a copy of the contest's state,  *)
(* polls for events after its cursor, applies some of them to its copy and *)
(* re-reads the whole state on others.  Every request to the server is two *)
(* actions or three: it is sent, it is read there, its answer is applied   *)
(* here.  Statements of one read are one action.                           *)
(***************************************************************************)
EXTENDS Integers, Sequences, FiniteSetsExt

CONSTANTS
  Publishers,       \* threads of the engine that change something and publish it
  RETENTION,        \* the newest rows that 30 minutes never reach
  \* Bounds of an instance, not of the program.
  MaxChanges, MaxFailures, MaxOpens,
  Faults            \* which failures happen: "poll", "read", "publish"

ASSUME FeedAssumption ==
  /\ {RETENTION, MaxChanges, MaxFailures, MaxOpens} \subseteq Nat
  /\ MaxOpens >= 1
  /\ IsFiniteSet(Publishers)

VARIABLES
  contest,      \* what the database says: the auction's version, announcements so far
  event,        \* every row ever committed to the event table
  pruned,       \* rows up to this id have been deleted
  lastId,       \* the sequence of the ids
  publisher,    \* what each publishing thread is in the middle of
  page,         \* whether the page is loading or mounted, and how often it was opened
  state,        \* the page's copy of the contest
  reading,      \* the state read in flight, and whether another one was asked for
  cursor, poll, failures, connection,
  overlay,      \* the announcement overlay
  seen          \* localStorage: the newest announcement this browser has shown

\* What a page has been told, kept for the properties only.
VARIABLES
  told,         \* ids heard, newest event its copy reflects, newest when a poll last failed,
                \* whether a publication or a re-read was lost for good
  faults        \* failures so far (bound only)

server == <<contest, event, pruned, lastId, publisher>>
copy == <<state, reading>>
polling == <<cursor, poll, failures, connection>>
vars == <<server, page, copy, polling, overlay, seen, told, faults>>

Fault(kind) == kind \in Faults /\ faults < MaxFailures /\ faults' = faults + 1

-----------------------------------------------------------------------------
(* The event table.                                                         *)

Names == {"auction", "announce", "other"}   \* "other": an event for another participant
Table == {e \in event : e.id > pruned}
Newest == IF Table = {} THEN 0 ELSE Max({e.id : e \in Table})
Oldest == Min({e.id : e \in Table})

\* The newest event there has been, deleted or not (for the properties only).
Latest == Max({0} \cup {e.id : e \in event})

Idle == [at |-> "idle", name |-> "other", value |-> 0, id |-> 0]

\* Changes whose event has no id yet.
Unnumbered == {q \in Publishers : publisher[q].at \in {"committed", "publishing"}}

\* A change commits.  An auction's snapshot is read by a later transaction.
Commit(p, name) ==
  /\ publisher[p].at = "idle"
  /\ lastId + Cardinality(Unnumbered) < MaxChanges
  /\ contest' = CASE name = "auction" -> [contest EXCEPT !.auction = @ + 1]
                  [] name = "announce" -> [contest EXCEPT !.announced = @ + 1]
                  [] OTHER -> contest
  /\ publisher' = [publisher EXCEPT
       ![p] = [Idle EXCEPT !.at = IF name = "auction" THEN "committed" ELSE "publishing",
                           !.name = name]]
  /\ UNCHANGED <<event, pruned, lastId, page, copy, polling, overlay, seen, told, faults>>

\* publish_snapshot: what the auction looks like now.
ReadSnapshot(p) ==
  /\ publisher[p].at = "committed"
  /\ publisher' = [publisher EXCEPT ![p].at = "publishing", ![p].value = contest.auction]
  /\ UNCHANGED <<contest, event, pruned, lastId, page, copy, polling, overlay, seen, told, faults>>

\* LOCK_EVENT_ORDER: one row is inserted at a time.
EventLockFree == \A p \in Publishers : publisher[p].at # "inserting"

\* publish takes the lock and its row takes an id.
Insert(p) ==
  /\ publisher[p].at = "publishing"
  /\ EventLockFree
  /\ lastId' = lastId + 1
  /\ publisher' = [publisher EXCEPT ![p].at = "inserting", ![p].id = lastId + 1]
  /\ UNCHANGED <<contest, event, pruned, page, copy, polling, overlay, seen, told, faults>>

\* publish's transaction commits, or fails: then nobody hears of the change.
Publish(p) ==
  /\ publisher[p].at = "inserting"
  /\ \/ /\ event' = event \cup {[id |-> publisher[p].id, name |-> publisher[p].name,
                                 value |-> publisher[p].value]}
        /\ UNCHANGED <<told, faults>>
     \/ /\ Fault("publish")
        /\ told' = [told EXCEPT !.lost = TRUE]
        /\ UNCHANGED event
  /\ publisher' = [publisher EXCEPT ![p] = Idle]
  /\ UNCHANGED <<contest, pruned, lastId, page, copy, polling, overlay, seen>>

\* prune: rows older than RETENTION go.
Prune ==
  /\ \E k \in {e.id : e \in Table} :
       /\ Cardinality({e \in Table : e.id > k}) >= RETENTION
       /\ pruned' = k
  /\ UNCHANGED <<contest, event, lastId, publisher, page, copy, polling, overlay, seen, told, faults>>

\* Mutant: a cursor older than the table is not noticed.
NoGap(after) == FALSE

\* Some rows after a cursor may be gone.
Gap(after) == Table # {} /\ after < Oldest - 1

\* Rows in the order of their ids.
InOrder(rows) ==
  CHOOSE s \in [1..Cardinality(rows) -> rows] :
    \A i, j \in 1..Cardinality(rows) : i < j => s[i].id < s[j].id

\* since: the rows after a cursor that this viewer may see.
Since(after) ==
  [events |-> InOrder({e \in Table : e.id > after /\ e.name # "other"}),
   cursor |-> Max({after, Newest}),
   reset |-> Gap(after)]

-----------------------------------------------------------------------------
(* The page's copy.                                                         *)

\* state_for, as of one moment; "at" is the newest event it can already reflect.
StateNow == [auction |-> contest.auction, announced |-> contest.announced,
             cursor |-> Newest, at |-> Latest]

NoReading == [at |-> "idle", again |-> FALSE,
              value |-> [auction |-> 0, announced |-> 0, cursor |-> 0, at |-> 0]]
NoPoll == [at |-> "idle", answer |-> [events |-> << >>, cursor |-> 0, reset |-> FALSE]]

\* refresh: single flight, and one more if asked meanwhile.
Refresh(r) == IF r.at = "idle" THEN [NoReading EXCEPT !.at = "asked"]
                               ELSE [r EXCEPT !.again = TRUE]

\* refresh called n times in a row: a third call asks for nothing new.
RefreshTimes(r, n) == CASE n = 0 -> r
                        [] n = 1 -> Refresh(r)
                        [] OTHER -> Refresh(Refresh(r))

\* Mutant: nothing is queued behind the announcement on screen.
InterruptWhenFree(announced) ==
  IF announced > overlay.seen /\ overlay.queue = << >>
    THEN /\ overlay' = [seen |-> announced,
                        queue |-> [i \in 1..(announced - overlay.seen) |-> overlay.seen + i]]
         /\ seen' = announced
    ELSE UNCHANGED <<overlay, seen>>

\* AnnouncementOverlay's effect: what is new to this session is queued and noted.
Interrupt(announced) ==
  IF announced > overlay.seen
    THEN /\ overlay' = [seen |-> announced,
                        queue |-> overlay.queue \o [i \in 1..(announced - overlay.seen) |-> overlay.seen + i]]
         /\ seen' = announced
    ELSE UNCHANGED <<overlay, seen>>

\* The server answers a re-read.
ReadAnswered ==
  /\ page.at = "open" /\ reading.at = "asked"
  /\ reading' = [reading EXCEPT !.at = "answered", !.value = StateNow]
  /\ UNCHANGED <<server, page, state, polling, overlay, seen, told, faults>>

\* setState(fresh); a poll that waits for the re-read goes on when the loop ends.
ReadApplied ==
  /\ page.at = "open" /\ reading.at = "answered"
  /\ state' = [auction |-> reading.value.auction, announced |-> reading.value.announced]
  /\ Interrupt(reading.value.announced)
  /\ told' = [told EXCEPT !.readAt = reading.value.at]
  /\ reading' = IF reading.again THEN [NoReading EXCEPT !.at = "asked"] ELSE NoReading
  /\ poll' = IF poll.at = "rereading" /\ ~reading.again THEN [poll EXCEPT !.at = "reread"] ELSE poll
  /\ UNCHANGED <<server, page, cursor, failures, connection, faults>>

-----------------------------------------------------------------------------
(* Polling, about once a second while the tab is visible.                   *)

LOST_AFTER_FAILURES == 3

\* The catch of tick.
CaughtByTick ==
  /\ failures' = failures + 1
  /\ connection' = IF failures' >= LOST_AFTER_FAILURES /\ connection # "connecting"
                     THEN "lost" ELSE connection
  /\ poll' = NoPoll
  /\ told' = [told EXCEPT !.failedAt = Latest]

\* The request for events, answered or not.
PollServed ==
  /\ page.at = "open" /\ poll.at = "idle"
  /\ poll' = [at |-> "answered", answer |-> Since(cursor)]
  /\ UNCHANGED <<server, page, copy, cursor, failures, connection, overlay, seen, told, faults>>

PollFails ==
  /\ page.at = "open" /\ poll.at = "idle" /\ Fault("poll")
  /\ CaughtByTick
  /\ UNCHANGED <<server, page, copy, cursor, overlay, seen>>

\* Mutant: only pruned events lead to a re-read, a failed poll does not.
MustRereadIfReset == poll.answer.reset

\* After a gap the state is re-read before anything is applied.
MustReread == poll.answer.reset \/ failures > 0

PollRereads ==
  /\ page.at = "open" /\ poll.at = "answered" /\ MustReread
  /\ reading' = Refresh(reading)
  /\ poll' = [poll EXCEPT !.at = "rereading"]
  /\ UNCHANGED <<server, page, state, cursor, failures, connection, overlay, seen, told, faults>>

\* apply, for each event: listeners hear it, a snapshot replaces the page's, and an
\* announcement asks for a re-read.
PollApplied ==
  /\ page.at = "open"
  /\ \/ poll.at = "reread"
     \/ poll.at = "answered" /\ ~MustReread
  /\ LET es == poll.answer.events
         snapshots == {i \in DOMAIN es : es[i].name = "auction"}
         announced == {i \in DOMAIN es : es[i].name = "announce"} IN
       /\ state' = IF snapshots = {} THEN state
                   ELSE [state EXCEPT !.auction = es[Max(snapshots)].value]
       /\ reading' = RefreshTimes(reading, Cardinality(announced))
       /\ told' = [told EXCEPT !.heard = @ \o [i \in DOMAIN es |-> es[i].id], !.failedAt = 0]
  /\ cursor' = poll.answer.cursor
  /\ poll' = NoPoll
  /\ failures' = 0
  /\ connection' = "open"
  /\ UNCHANGED <<server, page, overlay, seen, faults>>

\* A re-read fails.  A poll that waits for it has failed too; an event that asked for it
\* is not heard again.
ReadFails ==
  /\ page.at = "open" /\ reading.at # "idle" /\ Fault("read")
  /\ reading' = NoReading
  /\ IF poll.at = "rereading" THEN CaughtByTick
                              ELSE /\ told' = [told EXCEPT !.lost = TRUE]
                                   /\ UNCHANGED <<poll, failures, connection>>
  /\ UNCHANGED <<server, page, state, cursor, overlay, seen>>

-----------------------------------------------------------------------------
(* The page's life.                                                         *)

\* The server renders the page from state_for; it is mounted later.  What an earlier
\* page had in flight is gone with it.
Open ==
  /\ page.opened < MaxOpens
  /\ page' = [at |-> "loading", opened |-> page.opened + 1]
  /\ reading' = [NoReading EXCEPT !.value = StateNow]
  /\ poll' = NoPoll
  /\ UNCHANGED <<server, state, cursor, failures, connection, overlay, seen, told, faults>>

\* event_cursor: the newest event when the initial state was read.
InitialCursor == reading.value.cursor

\* Announcements sent before the page was opened are history.
Mount ==
  /\ page.at = "loading"
  /\ page' = [page EXCEPT !.at = "open"]
  /\ state' = [auction |-> reading.value.auction, announced |-> reading.value.announced]
  /\ cursor' = InitialCursor
  /\ reading' = NoReading
  /\ failures' = 0 /\ connection' = "connecting"
  /\ LET newest == Max({seen, reading.value.announced}) IN
       /\ seen' = newest
       /\ overlay' = [seen |-> newest, queue |-> << >>]
  /\ told' = [heard |-> << >>, readAt |-> reading.value.at, failedAt |-> 0,
            lost |-> told.lost]
  /\ UNCHANGED <<server, poll, faults>>

\* "Got it".
Dismiss ==
  /\ page.at = "open" /\ overlay.queue # << >>
  /\ overlay' = [overlay EXCEPT !.queue = Tail(@)]
  /\ UNCHANGED <<server, page, copy, polling, seen, told, faults>>

-----------------------------------------------------------------------------

Init ==
  /\ contest = [auction |-> 0, announced |-> 0]
  /\ event = {} /\ pruned = 0 /\ lastId = 0
  /\ publisher = [p \in Publishers |-> Idle]
  /\ page = [at |-> "closed", opened |-> 0]
  /\ state = [auction |-> 0, announced |-> 0]
  /\ reading = NoReading
  /\ cursor = 0 /\ poll = NoPoll /\ failures = 0 /\ connection = "connecting"
  /\ overlay = [seen |-> 0, queue |-> << >>] /\ seen = 0
  /\ told = [heard |-> << >>, readAt |-> 0, failedAt |-> 0, lost |-> FALSE]
  /\ faults = 0

Engine ==
  \/ \E p \in Publishers, name \in Names : Commit(p, name)
  \/ \E p \in Publishers : ReadSnapshot(p) \/ Insert(p) \/ Publish(p)
  \/ Prune

Browser ==
  \/ Open \/ Mount \/ Dismiss
  \/ PollServed \/ PollFails \/ PollRereads \/ PollApplied
  \/ ReadAnswered \/ ReadApplied \/ ReadFails

Next == Engine \/ Browser

Spec == Init /\ [][Next]_vars

\* Publishers run to their end; a visible tab polls, and requests are answered.
Fairness ==
  /\ \A p \in Publishers : WF_vars(ReadSnapshot(p) \/ Insert(p) \/ Publish(p))
  /\ WF_vars(Mount)
  /\ WF_vars(PollServed \/ PollRereads \/ PollApplied)
  /\ WF_vars(ReadAnswered \/ ReadApplied)

FairSpec == Spec /\ Fairness
=============================================================================
