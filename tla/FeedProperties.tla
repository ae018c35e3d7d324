---------------------------- MODULE FeedProperties ----------------------------
(***************************************************************************)
(* What a page may rely on.                                                *)
(***************************************************************************)
EXTENDS Feed

Version == 0..MaxChanges
Ids == 0..MaxChanges
Row == [id : Ids, name : Names, value : Version]
Answer == [events : Seq(Row), cursor : Ids, reset : BOOLEAN]
Contest == [auction : Version, announced : Version]

StateRead == [auction : Version, announced : Version, cursor : Ids, at : Ids]

\* Every row, cursor and copy holds values of its type.
TypeOK ==
  /\ contest \in Contest
  /\ event \subseteq Row /\ pruned \in Ids /\ lastId \in Ids
  /\ publisher \in [Publishers -> [at : {"idle", "committed", "publishing", "inserting"},
                                   name : Names, value : Version, id : Ids]]
  /\ page \in [at : {"closed", "loading", "open"}, opened : 0..MaxOpens]
  /\ state \in Contest
  /\ reading \in [at : {"idle", "asked", "answered"}, again : BOOLEAN, value : StateRead]
  /\ cursor \in Ids /\ failures \in Nat /\ connection \in {"connecting", "open", "lost"}
  /\ poll \in [at : {"idle", "answered", "rereading", "reread"}, answer : Answer]
  /\ overlay \in [seen : Version, queue : Seq(Version)] /\ seen \in Version
  /\ told \in [heard : Seq(Ids), readAt : Ids, failedAt : Ids, lost : BOOLEAN]

ToMe(e) == e.name # "other"

\* A page that has polled past an event has heard it, or has re-read the state since it
\* was published: no id becomes visible behind a cursor ("id 11 could commit before id
\* 10 and a poll in between would skip 10 forever", events.py:16), nothing falls between
\* the first read and the first poll, and pruned events are made up for.
NothingMissed ==
  page.at = "open" =>
    \A e \in event :
      /\ ToMe(e) /\ e.id <= cursor
      => \/ \E i \in DOMAIN told.heard : told.heard[i] = e.id
         \/ e.id <= told.readAt

\* No listener hears an event twice or out of order, whatever fails and is retried.
HeardOnceInOrder == \A i, j \in DOMAIN told.heard : i < j => told.heard[i] < told.heard[j]

\* "GIVEN reconnection, THEN state comes from the server" (requirements-frontend.md:128):
\* a poll that succeeds after a failure shows a state read since that failure.
ReconnectionRereads ==
  [][page.at = "open" /\ page' = page /\ failures > 0 /\ failures' = 0
       => told'.readAt >= told.failedAt]_vars

\* An announcement takes the screen once: none is queued twice, and none again that
\* this browser has shown before.
InterruptsOnce ==
  [][page.at = "open" /\ page' = page =>
       \A i \in DOMAIN overlay'.queue :
         \/ overlay'.queue[i] > seen
         \/ \E j \in DOMAIN overlay.queue : overlay.queue[j] = overlay'.queue[i]
     ]_vars

\* Every announcement reaches an open page by itself ("GIVEN an announcement, THEN it
\* appears without a refresh", requirements-frontend.md:191), unless its publication or
\* the re-read it asked for was lost: neither is repeated.
AnnouncementsAppear ==
  \A n \in 1..MaxChanges : (contest.announced >= n /\ page.at = "open") ~> (overlay.seen >= n \/ told.lost)

\* A page hears every event, in order and once, or has re-read what it was about.
FeedInv == TypeOK /\ NothingMissed /\ HeardOnceInOrder

\* A page that reconnects shows a state read since, and interrupts with nothing old.
NothingStaleShown == ReconnectionRereads /\ InterruptsOnce
=============================================================================
