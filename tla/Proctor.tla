------------------------------- MODULE Proctor -------------------------------
(***************************************************************************)
(* The competitor's seat: what contest/proctor.py counts and locks, and    *)
(* the page that follows the contest and holds its window in full screen   *)
(* (proctor.tsx, contest-provider.tsx, waiting.tsx, dashboard/page.tsx).   *)
(* The organisers' side is in Desk.                                        *)
(***************************************************************************)
EXTENDS Integers, Sequences, FiniteSets, SequencesExt

CONSTANTS None, People,
          Budgets       \* what may happen in one behaviour: a bound, not code

VARIABLES
  contest,   \* the contest row
  account,   \* per person: the participant row, their choice and their coins
  tab,       \* per person: their page, None while there is none
  slipped,   \* per person, history: how often they left a page that watched
  left       \* what is left of the budget

Phases == <<"registration", "p1_puzzles", "p1_hacking", "review", "auction1", "coding1", "auction2", "final", "ended">>
At(phase) == CHOOSE i \in 1..Len(Phases) : Phases[i] = phase
IsAuction(phase) == phase \in {"auction1", "auction2"}
InPhase2(phase) == phase \in {"auction1", "coding1", "auction2", "final"}

May(op) == left.may[op] > 0
Spend(op) == May(op) /\ left' = [left EXCEPT !.may[op] = @ - 1]

-----------------------------------------------------------------------------
(* What the engine tells a page.                                            *)

PhaseSnapshot == [phase |-> contest.phase, board |-> contest.set.board]

Me(p) == [enabled |-> contest.set.proctoring, locked |-> account[p].locked,
          out |-> account[p].out, advanced |-> account[p].advanced]

State(p) == [contest |-> PhaseSnapshot, me |-> Me(p)]

\* Mutant: an unlocked page is not told.
RereadsForNews(event) == event \in {"announce", "notify"}

\* What a page reads the whole state again for.
Rereads(event) == event \in {"announce", "notify", "proctor"}

-----------------------------------------------------------------------------
(* The screen.                                                              *)

HELD == {"p1_puzzles", "p1_hacking", "auction1", "coding1", "auction2", "final"}

\* What the last report said counts until the state is read again.
Locked(t) == IF t.reported # None THEN t.reported ELSE t.state.me.locked
Enforced(t) == t.state.me.enabled /\ t.state.contest.phase \in HELD /\ ~t.state.me.out
Held(t) == t.away = {}

RoundOver(t) == t.watching /\ ~Enforced(t)

\* The effects of a render: a lock, or its end, is shown when it comes; when the
\* round is over the listeners go, full screen is left and the gate is next.
Rendered(t) ==
  LET locked == Locked(t)
      over == RoundOver(t)
      shown == CASE locked = t.locked -> t.screen
                 [] locked # t.locked /\ locked -> "locked"
                 [] OTHER -> IF t.screen = "locked" THEN "gate" ELSE t.screen IN
  [t EXCEPT !.locked = locked, !.watching = Enforced(t),
            !.screen = IF over THEN "gate" ELSE shown,
            !.away = IF over THEN @ \cup {"fullscreen"} ELSE @,
            !.slips = IF Enforced(t) THEN @ ELSE {}]

\* A page as it is first shown.
Mounted(state) ==
  LET held == state.me.enabled /\ state.contest.phase \in HELD /\ ~state.me.out IN
  [state |-> state, reported |-> None, locked |-> state.me.locked, watching |-> held,
   screen |-> IF held /\ state.me.locked THEN "locked" ELSE "gate",
   reading |-> FALSE, fetched |-> None, again |-> FALSE,
   away |-> {"fullscreen"}, slips |-> {}, resuming |-> FALSE, posts |-> {}, news |-> << >>]

Opens(p) ==
  /\ account[p].in /\ tab[p] = None /\ Spend("open")
  /\ tab' = [tab EXCEPT ![p] = Mounted(State(p))]
  /\ UNCHANGED <<contest, account, slipped>>

\* A reload; what was sent is on its way, and nobody waits for its answer.
Reloads(p) ==
  /\ tab[p] # None /\ Spend("reload")
  /\ tab' = [tab EXCEPT ![p] = [Mounted(State(p)) EXCEPT
               !.posts = {[q EXCEPT !.lone = TRUE] : q \in {r \in tab[p].posts : r.answer = None}}]]
  /\ UNCHANGED <<contest, account, slipped>>

-----------------------------------------------------------------------------
(* Following the contest: one event at a time, one read of the state.       *)

Reread(t) == IF t.reading THEN [t EXCEPT !.again = TRUE] ELSE [t EXCEPT !.reading = TRUE, !.again = FALSE]

Visible(p) == tab[p] # None /\ "hidden" \notin tab[p].away

\* apply: a phase event carries the snapshot, of the contest and not of the person.
Hears(p) ==
  /\ Visible(p) /\ tab[p].news # << >>
  /\ LET e == Head(tab[p].news)
         t == [tab[p] EXCEPT !.news = Tail(@)]
         seen == IF e.name = "phase" THEN [t EXCEPT !.state.contest = e.snapshot] ELSE t IN
     tab' = [tab EXCEPT ![p] = Rendered(IF Rereads(e.name) THEN Reread(seen) ELSE seen)]
  /\ UNCHANGED <<contest, account, slipped, left>>

ReadServed(p) ==
  /\ tab[p] # None /\ tab[p].reading /\ tab[p].fetched = None
  /\ tab' = [tab EXCEPT ![p].fetched = State(p)]
  /\ UNCHANGED <<contest, account, slipped, left>>

\* Every read makes what the last report said the older of the two.
ReadAnswered(p) ==
  /\ tab[p] # None /\ tab[p].fetched # None
  /\ tab' = [tab EXCEPT ![p] = Rendered([@ EXCEPT !.state = tab[p].fetched, !.fetched = None, !.reported = None,
                                                  !.reading = tab[p].again, !.again = FALSE])]
  /\ UNCHANGED <<contest, account, slipped, left>>

-----------------------------------------------------------------------------
(* Leaving the page and coming back.                                        *)

Ways == {{"fullscreen", "blur"}, {"blur"}, {"hidden", "blur"}}

\* The events the browser fires are heard while the page watches.
Leaves(p, ways) ==
  /\ tab[p] # None /\ ~(ways \subseteq tab[p].away) /\ Spend("leave")
  /\ tab' = [tab EXCEPT ![p].away = @ \cup ways,
                        ![p].slips = IF tab[p].watching THEN @ \cup (ways \ tab[p].away) ELSE @]
  /\ slipped' = IF tab[p].watching /\ Held(tab[p]) THEN [slipped EXCEPT ![p] = @ + 1] ELSE slipped
  /\ UNCHANGED <<contest, account>>

\* Back in the window; full screen has to be asked for.
Returns(p) ==
  /\ tab[p] # None /\ tab[p].away \ {"fullscreen"} # {} /\ tab[p].slips = {}
  /\ tab' = [tab EXCEPT ![p].away = @ \cap {"fullscreen"}]
  /\ UNCHANGED <<contest, account, slipped, left>>

\* One alert per episode: the second event of it finds the screen up.
Counts(t) == t.screen = "ok"

Reports(p, way) ==
  /\ tab[p] # None /\ way \in tab[p].slips
  /\ LET t == [tab[p] EXCEPT !.slips = @ \ {way}] IN
     tab' = [tab EXCEPT ![p] =
       IF Counts(t) THEN [t EXCEPT !.screen = "alert",
                                   !.posts = @ \cup {[id |-> slipped[p], lone |-> FALSE, answer |-> None]}]
                    ELSE t]
  /\ UNCHANGED <<contest, account, slipped, left>>

Button(t) == t.watching /\ t.screen \in {"gate", "alert"} /\ ~t.resuming

\* Mutant: the click is taken for full screen.
ResumedAnyway(t) == [t EXCEPT !.resuming = FALSE, !.screen = "ok"]

Resumed(t) == [t EXCEPT !.resuming = FALSE, !.screen = IF Held(t) THEN "ok" ELSE @]

\* The click focuses the window; the browser may take its time over full screen.
Resumes(p) ==
  /\ tab[p] # None /\ Button(tab[p]) /\ tab[p].slips = {} /\ tab[p].away \subseteq {"fullscreen"}
  /\ \/ tab' = [tab EXCEPT ![p] = Resumed([@ EXCEPT !.away = {}])] /\ UNCHANGED left
     \/ "fullscreen" \in tab[p].away /\ Spend("slow") /\ tab' = [tab EXCEPT ![p].resuming = TRUE]
  /\ UNCHANGED <<contest, account, slipped>>

Granted(p) ==
  /\ tab[p] # None /\ tab[p].resuming
  /\ \/ tab' = [tab EXCEPT ![p] = Resumed([tab[p] EXCEPT !.away = @ \ {"fullscreen"}])]
     \/ tab' = [tab EXCEPT ![p].resuming = FALSE]
  /\ UNCHANGED <<contest, account, slipped, left>>

-----------------------------------------------------------------------------
(* The engine's count.                                                      *)

\* report: a locked account is counted no further.
Reported(p) ==
  LET a == account[p] IN
  IF ~contest.set.proctoring \/ a.locked THEN a
  ELSE [a EXCEPT !.alerts = @ + 1, !.rows = @ + 1, !.locked = a.alerts + 1 > contest.set.warnings]

Told(t, q) ==
  Rendered([t EXCEPT !.posts = @ \ {q}, !.reported = q.answer, !.screen = IF q.answer THEN "locked" ELSE @])

\* The answer is read at once, or is late: others may overtake it.
ReportServed(p, q) ==
  /\ tab[p] # None /\ q \in tab[p].posts /\ q.answer = None
  /\ account' = [account EXCEPT ![p] = Reported(p)]
  /\ LET locked == Reported(p).locked
         after == [tab[p] EXCEPT !.posts = @ \ {q},
                   !.news = IF locked /\ ~account[p].locked THEN Append(@, [name |-> "proctor"]) ELSE @]
         answer == [q EXCEPT !.answer = locked] IN
     \/ q.lone /\ tab' = [tab EXCEPT ![p] = after] /\ UNCHANGED left
     \/ ~q.lone /\ tab' = [tab EXCEPT ![p] = Told(after, answer)] /\ UNCHANGED left
     \/ ~q.lone /\ tab' = [tab EXCEPT ![p] = [after EXCEPT !.posts = @ \cup {answer}]] /\ Spend("late")
  /\ UNCHANGED <<contest, slipped>>

\* It does not reach the engine: the screen stays up.
ReportLost(p, q) ==
  /\ tab[p] # None /\ q \in tab[p].posts /\ Spend("lost")
  /\ tab' = [tab EXCEPT ![p].posts = @ \ {q}]
  /\ UNCHANGED <<contest, account, slipped>>

ReportAnswered(p, q) ==
  /\ tab[p] # None /\ q \in tab[p].posts /\ q.answer # None
  /\ tab' = [tab EXCEPT ![p] = Told(@, q)]
  /\ UNCHANGED <<contest, account, slipped, left>>

-----------------------------------------------------------------------------
(* Which screen a page is on: dashboard/page.tsx and waiting.tsx.           *)

BoardShown(c) == c.phase # "registration" /\ c.board # "hidden"

Reviewing(s) == [screen |-> "review", through |-> s.me.advanced, standings |-> BoardShown(s.contest)]
NotSelected(s) == [screen |-> "not selected", through |-> FALSE, standings |-> BoardShown(s.contest)]
Ended(s) == [screen |-> "ended", through |-> s.me.advanced, standings |-> BoardShown(s.contest)]
Round(s) == [screen |-> s.contest.phase, through |-> s.me.advanced, standings |-> BoardShown(s.contest)]

ScreenOf(s) ==
  IF InPhase2(s.contest.phase) /\ ~s.me.advanced THEN NotSelected(s)
  ELSE CASE s.contest.phase = "review" -> Reviewing(s)
         [] s.contest.phase = "ended" -> Ended(s)
         [] OTHER -> Round(s)

-----------------------------------------------------------------------------
\* What a page does by itself.
Follows(p) ==
  \/ Hears(p) \/ ReadServed(p) \/ ReadAnswered(p)
  \/ tab[p] # None /\ \E way \in tab[p].slips : Reports(p, way)
  \/ tab[p] # None /\ \E q \in tab[p].posts : ReportServed(p, q) \/ ReportAnswered(p, q)

\* What its owner and the browser do.
Moves(p) ==
  \/ Opens(p) \/ Reloads(p) \/ Returns(p) \/ Resumes(p) \/ Granted(p)
  \/ \E ways \in Ways : Leaves(p, ways)
  \/ tab[p] # None /\ \E q \in tab[p].posts : ReportLost(p, q)
=============================================================================
