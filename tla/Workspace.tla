------------------------------- MODULE Workspace -------------------------------
(***************************************************************************)
(* A participant at work on one question: web question/[id]/page with its  *)
(* console and lib/use-judgement, and the engine that keeps the drafts     *)
(* (coding/questions), takes the submissions (coding/submissions, judging) *)
(* and runs the samples (coding/runs).                                     *)
(*                                                                         *)
(* Judging itself is module Judging; here a submission is judged, judged   *)
(* again or cancelled at any moment, and the page has to find out: by      *)
(* following it with polls, and by the events it hears in order (Feed).    *)
(***************************************************************************)
EXTENDS Integers, FiniteSets, SequencesExt

CONSTANTS
  Languages,
  Preferred,            \* the language a first visit opens in
  None,
  Accepted,             \* the judgements that end with AC: <<submission, its n-th judgement>>
  Hints,                \* how many hints the question has
  Faults,               \* those that happen: "network", "crash", "refused", "forgotten",
                        \* "event" is never heard, "slow" judge, "overlap" of two ticks
  MaxLoads,
  Budgets               \* what a behaviour may spend, one of several (a bound of the instance)

ASSUME WorkspaceAssumption ==
  /\ Preferred \in Languages /\ Hints \in Nat /\ MaxLoads \in Nat \ {0}
  /\ LET Text == [lang : Languages, n : Nat] IN
       None \notin Text \cup [text : Text, at : Nat] \cup [lang : Languages, text : Text]
  /\ \A b \in Budgets : {b.texts, b.submits, b.cancels, b.runs, b.rejudges, b.opens, b.hides,
                          b.hints, b.faults} \subseteq Nat

VARIABLES
  submission,   \* this participant's submissions of the question, each with its judgement
  hint,         \* hint_purchase: how many are bought, and the coins they cost
  cooling,      \* less than COOLDOWN_MS since the last judgement ended
  event,        \* the verdict events this page has yet to hear
  run,          \* practice_run
  starting,     \* the request that starts a run, while it calls the judge
  job,          \* the judge's jobs of the runs
  collected,    \* what a tick has learnt of a job and not written yet
  draft,        \* draft: per language, the code and when it was saved
  local,        \* localStorage: the same, of this browser
  clock         \* orders the drafts

VARIABLES
  page,         \* the page's life, its editor, and whether the tab is hidden
  timer,        \* the draft a timer will save
  puts,         \* drafts on their way
  view,         \* what the page has loaded of the question
  loads,        \* loads in flight
  posting,      \* a submission or a cancellation under way
  buying,       \* hints confirmed, their requests in flight
  follow,       \* useFollow, of the newest judgement and of the last run
  settled,      \* the judgement whose end the page has reloaded for
  ghost,        \* for the properties: what is known to have gone wrong
  left          \* what is left of the budget

engine == <<submission, hint, cooling, event>>
runs == <<run, starting, job, collected>>
editor == <<page, timer, puts>>
drafts == <<draft, local, clock>>
following == <<view, loads, posting, buying, follow, settled>>
vars == <<engine, runs, editor, drafts, following, ghost, left>>

Spend(kind) == left[kind] > 0 /\ left' = [left EXCEPT ![kind] = @ - 1]
Fault(kind) == kind \in Faults /\ Spend("faults")

-----------------------------------------------------------------------------
(* useFollow: one server-side job, from "sent" to a terminal state.         *)

NoFollow == [url |-> 0, value |-> None, done |-> FALSE, timer |-> FALSE, flight |-> "none", answer |-> None]

\* poll: one request at a time, none of a hidden tab or after the end.
Poll(f) == IF f.url = 0 \/ f.done \/ f.flight # "none" \/ page.hidden THEN f ELSE [f EXCEPT !.flight = "sent"]

\* A new url is a new life cycle; what is in flight is aborted, and still in flight.
Follow(f, url, initial) ==
  Poll([f EXCEPT !.url = url, !.value = initial, !.done = FALSE, !.timer = FALSE, !.answer = None,
                 !.flight = IF @ = "none" THEN "none" ELSE "aborted"])

\* Ask now rather than at the next tick.
Poke(f) == IF f.done THEN f ELSE Poll([f EXCEPT !.timer = FALSE])

Answered(f) ==
  IF f.answer.state = "done"
    THEN [f EXCEPT !.flight = "none", !.value = f.answer, !.answer = None, !.done = TRUE, !.timer = FALSE]
    ELSE [f EXCEPT !.flight = "none", !.value = f.answer, !.answer = None, !.timer = TRUE]

\* Mutant: a failed poll is the last.
FailedForGood(f) == [f EXCEPT !.flight = "none"]

\* The judge or the network is unhappy: keep asking.
Failed(f) == [f EXCEPT !.flight = "none", !.timer = TRUE]

-----------------------------------------------------------------------------
(* Submissions, as the engine sees them.                                    *)

Unjudged == {i \in DOMAIN submission : submission[i].state # "done"}

\* submit, with the participant locked.
Takes == Unjudged = {} /\ ~cooling

Announce(e) == event' = IF page.at = "closed" THEN event ELSE Append(event, e)

\* The process may die between the commit and the event.
Publish(e) ==
  \/ Announce(e) /\ UNCHANGED left
  \/ Fault("event") /\ UNCHANGED event

\* The judge takes it, or refuses it, or ends it; the last event does not say of what.
Judge(i) ==
  /\ i \in Unjudged
  /\ \/ /\ submission[i].state = "pending"
        /\ submission' = [submission EXCEPT ![i].state = "running"]
        /\ Publish([sub |-> i, rejudge |-> FALSE])
        /\ UNCHANGED cooling
     \/ /\ (submission[i].state = "running" \/ ("refused" \in Faults /\ left.faults > 0))
        /\ submission' = [submission EXCEPT ![i].state = "done",
                          ![i].ac = submission[i].state = "running" /\ submission[i].judgement \in Accepted]
        /\ cooling' = TRUE
        /\ Publish([sub |-> 0, rejudge |-> FALSE])
  /\ UNCHANGED <<hint, runs, editor, drafts, following, ghost>>

\* An organiser rejudges the question: the judgement is superseded by a new one.
Rejudge ==
  /\ \E i \in DOMAIN submission : submission[i].state = "done"
  /\ Spend("rejudges")
  /\ submission' = [i \in DOMAIN submission |->
       [state |-> "pending", judgement |-> <<i, submission[i].judgement[2] + 1>>, ac |-> FALSE]]
  /\ Announce([sub |-> 0, rejudge |-> TRUE])
  /\ UNCHANGED <<hint, cooling, runs, editor, drafts, following, ghost>>

CooledDown == cooling /\ cooling' = FALSE
              /\ UNCHANGED <<submission, hint, event, runs, editor, drafts, following, ghost, left>>

\* _attempt_stats: some current judgement is AC.
Solved(history) == \E i \in DOMAIN history : history[i].ac

\* _owned_view.
Progress(history) ==
  CASE Solved(history) -> "solved"
    [] ~Solved(history) /\ \E i \in DOMAIN history : history[i].state # "done" -> "judging"
    [] ~Solved(history) /\ history # << >> /\ \A i \in DOMAIN history : history[i].state = "done" -> "attempted"
    [] OTHER -> "unattempted"

\* The round's page opens on the first question that is not solved, if there is one.
NothingLeft == Progress(submission) = "solved"

-----------------------------------------------------------------------------
(* The page's copy of the question.                                         *)

\* for_owner: the submissions and the drafts, as of one moment.
Now == [history |-> submission, cooling |-> cooling, revealed |-> hint.bought, draft |-> draft]
NoView == [history |-> << >>, cooling |-> FALSE, revealed |-> 0]

Newest(history) == IF history = << >> THEN None ELSE Last(history)

\* The newest submission is followed until it is done.
Unended(history) == IF history # << >> /\ Last(history).state # "done" THEN Len(history) ELSE 0
Following == Unended(view.history)

\* MaxLoads: how many are in flight at once (a bound of the instance).
AskLoad == Len(loads) < MaxLoads /\ loads' = Append(loads, [at |-> "sent", now |-> None])

\* The load is read by the engine; of two, either is the first.
LoadServed(i) ==
  /\ i \in DOMAIN loads /\ loads[i].at = "sent" /\ \A j \in 1..(i - 1) : loads[j].at # "sent"
  /\ loads' = [loads EXCEPT ![i] = [at |-> "answered", now |-> Now]]
  /\ ghost' = [ghost EXCEPT !.behind = @ \/ (page.at = "loading" /\ (timer # None \/ puts # << >>))]
  /\ UNCHANGED <<engine, runs, editor, drafts, view, posting, buying, follow, settled, left>>

\* The editor, at the first load: the server's copy of each language, or what this browser
\* keeps of it when that is newer.
Kept(d, l) == IF l \in DOMAIN d /\ d[l] # None
                THEN IF local[l] # None /\ local[l].at > d[l].at THEN local[l].text ELSE d[l].text
                ELSE None

Saved(d) == {l \in Languages : d[l] # None}
LastIn(d) == IF Saved(d) = {} THEN Preferred
             ELSE CHOOSE l \in Saved(d) : \A m \in Saved(d) : d[m].at <= d[l].at
Template(l) == [lang |-> l, n |-> 0]
CodeOr(code, l) == IF code[l] = None THEN Template(l) ELSE code[l]

Opened(d) ==
  LET code == [l \in Languages |-> Kept(d, l)] IN
  [page EXCEPT !.at = "open", !.language = LastIn(d), !.source = CodeOr(code, LastIn(d)), !.code = code]

\* The judgement followed, after a load.
Followed(history) ==
  LET url == Unended(history) IN
  IF url = follow.judgement.url THEN follow.judgement
  ELSE Follow(follow.judgement, url, Newest(history))

\* setQ; the first load opens the editor.  A later load may be answered first.
LoadAnswered(i) ==
  /\ i \in DOMAIN loads /\ loads[i].at = "answered"
  /\ LET now == loads[i].now
         v == [history |-> now.history, cooling |-> now.cooling, revealed |-> now.revealed]
         f == Followed(now.history) IN
       /\ view' = v
       /\ follow' = [follow EXCEPT !.judgement = f]
       /\ page' = IF page.at = "loading" THEN Opened(now.draft) ELSE page
       /\ ghost' = [ghost EXCEPT !.stale = @ \/ i > 1 \/ (f.url # 0 /\ f.flight = "aborted")
                                          \/ ((f.url = 0 \/ f.done) /\ f.value \notin {None, Newest(now.history)})]
  /\ loads' = RemoveAt(loads, i)
  /\ UNCHANGED <<engine, runs, timer, puts, drafts, posting, buying, settled, left>>

\* setError: nothing clears it.
LoadFails(i) ==
  /\ i \in DOMAIN loads /\ Fault("network")
  /\ page' = [page EXCEPT !.at = "error"]
  /\ loads' = RemoveAt(loads, i)
  /\ UNCHANGED <<engine, runs, timer, puts, drafts, view, posting, buying, follow, settled, ghost>>

-----------------------------------------------------------------------------
(* What the page follows.                                                   *)

Row(k, url) == IF k = "judgement" THEN submission[url] ELSE run[url]

PollServed(k) ==
  /\ follow[k].flight = "sent"
  /\ follow' = [follow EXCEPT ![k].flight = "answered", ![k].answer = Row(k, follow[k].url)]
  /\ UNCHANGED <<engine, runs, editor, drafts, view, loads, posting, buying, settled, ghost, left>>

\* One reload when the judgement lands, for what the narrow poll does not carry.
PollAnswered(k) ==
  /\ follow[k].flight = "answered"
  /\ follow' = [follow EXCEPT ![k] = Answered(@)]
  /\ LET value == follow'[k].value IN
       IF k = "judgement" /\ value.state = "done" /\ settled # value.judgement
         THEN settled' = value.judgement /\ AskLoad
         ELSE UNCHANGED <<settled, loads>>
  /\ UNCHANGED <<engine, runs, editor, drafts, view, posting, buying, ghost, left>>

PollFails(k) ==
  /\ follow[k].flight \in {"sent", "answered"} /\ Fault("network")
  /\ follow' = [follow EXCEPT ![k] = Failed(@)]
  /\ UNCHANGED <<engine, runs, editor, drafts, view, loads, posting, buying, settled, ghost>>

\* The aborted request ends, and nothing follows it.
PollAborted(k) ==
  /\ follow[k].flight = "aborted"
  /\ follow' = [follow EXCEPT ![k].flight = "none"]
  /\ UNCHANGED <<engine, runs, editor, drafts, view, loads, posting, buying, settled, ghost, left>>

PollTimer(k) ==
  /\ follow[k].timer
  /\ follow' = [follow EXCEPT ![k] = Poll([@ EXCEPT !.timer = FALSE])]
  /\ UNCHANGED <<engine, runs, editor, drafts, view, loads, posting, buying, settled, ghost, left>>

\* Whether the history is stale, or the page is only to look now.
NeedsLoad(e) == e.rejudge \/ (e.sub # 0 /\ e.sub # Following)

EventHeard ==
  /\ event # << >>
  /\ event' = Tail(event)
  /\ IF NeedsLoad(Head(event))
       THEN AskLoad /\ UNCHANGED follow
       ELSE follow' = [follow EXCEPT !.judgement = Poke(@)] /\ UNCHANGED loads
  /\ UNCHANGED <<submission, hint, cooling, runs, editor, drafts, view, posting, buying, settled, ghost, left>>

\* A hidden tab costs the server nothing; it catches up on its return.
Hide ==
  /\ page.at = "open" /\ ~page.hidden /\ Spend("hides")
  /\ page' = [page EXCEPT !.hidden = TRUE]
  /\ follow' = [k \in DOMAIN follow |-> [follow[k] EXCEPT !.timer = FALSE]]
  /\ UNCHANGED <<engine, runs, timer, puts, drafts, view, loads, posting, buying, settled, ghost>>

Show ==
  /\ page.hidden
  /\ page' = [page EXCEPT !.hidden = FALSE]
  /\ follow' = [k \in DOMAIN follow |->
       LET f == [follow[k] EXCEPT !.timer = FALSE] IN
       IF f.done \/ f.url = 0 \/ f.flight # "none" THEN IF f.done THEN follow[k] ELSE f
       ELSE [f EXCEPT !.flight = "sent"]]
  /\ UNCHANGED <<engine, runs, timer, puts, drafts, view, loads, posting, buying, settled, ghost, left>>

-----------------------------------------------------------------------------
(* Submitting.                                                              *)

\* The polled copy is fresher than the page load it came with.
Latest == IF follow.judgement.value # None THEN follow.judgement.value ELSE Newest(view.history)

Ended(f) == f.value # None /\ f.value.state = "done"

\* stageOf.
Stage(value) == IF value = None THEN "gone" ELSE value.state

InFlight == Following # 0 /\ Stage(follow.judgement.value) # "done"

CanSubmit == page.at = "open" /\ posting = "none" /\ ~InFlight /\ ~(view.cooling /\ cooling)

\* Ctrl+Enter only waits for the page to have loaded, and here for the last answer.
Shortcut == page.at = "open" /\ posting = "none"

Submit ==
  /\ CanSubmit \/ Shortcut
  /\ Spend("submits")
  /\ IF Takes
       THEN /\ submission' = Append(submission, [state |-> "pending", judgement |-> <<Len(submission) + 1, 1>>, ac |-> FALSE])
            /\ posting' = "taken"
       ELSE UNCHANGED <<submission, posting>>
  /\ UNCHANGED <<hint, cooling, event, runs, editor, drafts, view, loads, buying, follow, settled, ghost>>

\* "Cancel", shown while the judge has it.
Cancel ==
  /\ page.at = "open" /\ InFlight /\ posting = "none" /\ Spend("cancels")
  /\ posting' = "taken"
  /\ IF Unjudged = {} THEN UNCHANGED engine
     ELSE /\ submission' = [i \in DOMAIN submission |-> [submission[i] EXCEPT !.state = "done"]]
          /\ cooling' = TRUE
          /\ Announce([sub |-> 0, rejudge |-> FALSE])
          /\ UNCHANGED hint
  /\ UNCHANGED <<runs, editor, drafts, view, loads, buying, follow, settled, ghost>>

\* The answer: the question is loaded again.
Posted ==
  /\ posting = "taken"
  /\ posting' = "none"
  /\ AskLoad
  /\ UNCHANGED <<engine, runs, editor, drafts, view, buying, follow, settled, ghost, left>>

-----------------------------------------------------------------------------
(* Hints.                                                                   *)

\* The next hint the page knows of is offered in the hints tab.
HintOffered == page.at = "open" /\ view.revealed < Hints

\* Its dialog is confirmed; twice, by a double click.
BuyHint ==
  /\ HintOffered /\ Spend("hints")
  /\ buying' = Append(buying, view.revealed + 1)
  /\ ghost' = [ghost EXCEPT !.confirmed = @ \cup {view.revealed + 1}]
  /\ UNCHANGED <<engine, runs, editor, drafts, view, loads, posting, follow, settled>>

\* Mutant: the next hint, whichever the buyer was looking at.
RevealedNext(h, idx) == IF h.bought < Hints THEN [bought |-> h.bought + 1, paid |-> h.paid + 1] ELSE h

\* buy_hint: the one bought already is returned, a later one refused, the next one paid for.
Revealed(h, idx) == IF idx = h.bought + 1 THEN [bought |-> idx, paid |-> h.paid + 1] ELSE h

\* The request is served, and the page loads the question again when it is answered.
HintBought ==
  /\ buying # << >> /\ buying' = Tail(buying)
  /\ hint' = Revealed(hint, Head(buying))
  /\ AskLoad
  /\ UNCHANGED <<submission, cooling, event, runs, editor, drafts, view, posting, follow, settled, ghost, left>>

-----------------------------------------------------------------------------
(* Practice runs.                                                           *)

Live == {i \in DOMAIN run : run[i].state # "done"}

\* useRun's busy: the button and its shortcut wait for the last run.
Running ==
  \/ starting # None /\ starting.mine
  \/ follow.run.url # 0 /\ ~Ended(follow.run)

\* start, with the participant locked: the row, then the call to the judge.
StartRun ==
  /\ page.at = "open" /\ ~Running /\ starting = None /\ Spend("runs")
  /\ IF Live = {}
       THEN /\ run' = Append(run, [state |-> "pending", job |-> FALSE, verdict |-> None])
            /\ job' = Append(job, "none")
            /\ starting' = [run |-> Len(run'), mine |-> TRUE]
       ELSE UNCHANGED <<run, job, starting>>
  /\ UNCHANGED <<engine, collected, editor, drafts, following, ghost>>

\* The judge answers the call, refuses it, or the process dies in the middle of it.
RunSent ==
  /\ starting # None /\ starting' = None
  /\ LET i == starting.run IN
       \/ /\ run' = [run EXCEPT ![i].state = "queued", ![i].job = TRUE]
          /\ job' = [job EXCEPT ![i] = "queued"]
          /\ follow' = IF starting.mine THEN [follow EXCEPT !.run = Follow(@, i, None)] ELSE follow
          /\ UNCHANGED left
       \/ /\ Fault("refused")
          /\ run' = [run EXCEPT ![i].state = "done", ![i].verdict = "IE"]
          /\ UNCHANGED <<job, follow>>
       \/ Fault("crash") /\ UNCHANGED <<run, job, follow>>
  /\ UNCHANGED <<engine, collected, editor, drafts, view, loads, posting, buying, settled, ghost>>

\* Mutant: a run is given up while it is being sent.
NeverSentSoon(i) == ~run[i].job

\* UNSENT_AFTER: longer than a request lives, unless the judge is slow to the last second.
NeverSent(i) == ~run[i].job /\ ~(starting # None /\ starting.run = i)

GiveUp(i) ==
  /\ i \in Live /\ run[i].state = "pending"
  /\ \/ NeverSent(i) /\ UNCHANGED left
     \/ ~run[i].job /\ ~NeverSent(i) /\ Fault("slow")
  /\ run' = [run EXCEPT ![i].state = "done", ![i].verdict = "IE"]
  /\ UNCHANGED <<engine, starting, job, collected, editor, drafts, following, ghost>>

JudgeRuns(i) ==
  /\ i \in DOMAIN job
  /\ \/ job[i] = "queued" /\ job' = [job EXCEPT ![i] = "running"] /\ UNCHANGED left
     \/ job[i] = "running" /\ job' = [job EXCEPT ![i] = "done"] /\ UNCHANGED left
     \/ job[i] \in {"queued", "running"} /\ Fault("forgotten") /\ job' = [job EXCEPT ![i] = "gone"]
  /\ UNCHANGED <<engine, run, starting, collected, editor, drafts, following, ghost>>

\* _poll_one asks the judge; one tick at a time, unless the lock of a tick is lost.
CollectRun(i) ==
  /\ i \in Live /\ run[i].job
  /\ \/ collected = {} /\ UNCHANGED left
     \/ collected # {} /\ Fault("overlap")
  /\ collected' = collected \cup {[run |-> i, was |-> run[i].state, job |-> job[i]]}
  /\ UNCHANGED <<engine, run, starting, job, editor, drafts, following, ghost>>

\* _finish, or _update when the state has changed since the row was read.
Finished(r, c) ==
  CASE c.job = "done" -> [r EXCEPT !.state = "done", !.verdict = "AC"]
    [] c.job = "gone" -> [r EXCEPT !.state = "done", !.verdict = "IE"]
    [] c.job = c.was -> r
    [] OTHER -> [r EXCEPT !.state = c.job]

WriteRun(c) ==
  /\ c \in collected /\ collected' = collected \ {c}
  /\ run' = [run EXCEPT ![c.run] = Finished(@, c)]
  /\ UNCHANGED <<engine, starting, job, editor, drafts, following, ghost, left>>

-----------------------------------------------------------------------------
(* The console.                                                             *)

\* The tab of the test cases: nothing run yet, a run on its way, or its output.
TestsTab == IF starting # None /\ starting.mine THEN "running"
            ELSE IF follow.run.value = None THEN "none"
            ELSE IF Ended(follow.run) THEN "output" ELSE "running"

\* The tab of the verdict.
ResultTab ==
  [judging |-> Latest # None /\ Following # 0 /\ Stage(follow.judgement.value) # "done",
   judgement |-> Latest]

Console == [tests |-> TestsTab, result |-> ResultTab]

-----------------------------------------------------------------------------
(* The editor and its drafts.                                               *)

\* A draft saved after a switch away from its language, or instead of another one's.
Lose(condition) == ghost' = [ghost EXCEPT !.behind = @ \/ condition]

\* onChange: the code changes, by hand or by Reset, and is saved in a while.
Change(text) ==
  /\ page.at = "open" /\ Spend("texts")
  /\ page' = [page EXCEPT !.source = text, !.code[page.language] = text]
  /\ local' = [local EXCEPT ![page.language] = [text |-> text, at |-> clock]]
  /\ clock' = clock + 1
  /\ Lose(timer # None /\ timer.lang # page.language)
  /\ timer' = [lang |-> page.language, text |-> text]
  /\ UNCHANGED <<engine, runs, puts, draft, following>>

Type == Change([lang |-> page.language, n |-> clock])
Reset == Change(Template(page.language))

\* The draft the timer was set for, in its own language.
DraftToSave == timer

DraftTimer ==
  /\ timer # None
  /\ puts' = Append(puts, DraftToSave)
  /\ timer' = None
  /\ UNCHANGED <<engine, runs, page, drafts, following, ghost, left>>

\* Mutant: the language switched to is not saved.
SwitchPutNothing(l, code) == puts

\* Saving on the switch makes it the newest draft.
SwitchPut(l, code) == Append(puts, [lang |-> l, text |-> code])

Switch(l) ==
  /\ page.at = "open" /\ l # page.language /\ Spend("texts")
  /\ LET code == [page.code EXCEPT ![page.language] = page.source]
         next == CodeOr(code, l) IN
       /\ page' = [page EXCEPT !.language = l, !.source = next, !.code = code]
       /\ puts' = SwitchPut(l, next)
  /\ Lose(timer # None)
  /\ UNCHANGED <<engine, runs, timer, drafts, following>>

\* save_draft.
PutArrives(i) ==
  /\ i \in DOMAIN puts
  /\ draft' = [draft EXCEPT ![puts[i].lang] = [text |-> puts[i].text, at |-> clock]]
  /\ clock' = clock + 1
  /\ puts' = RemoveAt(puts, i)
  /\ Lose(i > 1)
  /\ UNCHANGED <<engine, runs, page, timer, local, following, left>>

PutLost(i) ==
  /\ i \in DOMAIN puts /\ Fault("network")
  /\ puts' = RemoveAt(puts, i)
  /\ Lose(TRUE)
  /\ UNCHANGED <<engine, runs, page, timer, drafts, following>>

-----------------------------------------------------------------------------
(* The page's life.                                                         *)

Open ==
  /\ page.at = "closed" /\ Spend("opens")
  /\ page' = [page EXCEPT !.at = "loading"]
  /\ AskLoad
  /\ UNCHANGED <<engine, runs, timer, puts, drafts, view, posting, buying, follow, settled, ghost>>

ClosedPage == [at |-> "closed", hidden |-> FALSE, language |-> Preferred, source |-> Template(Preferred),
               code |-> [l \in Languages |-> None]]

Closed ==
  /\ page' = ClosedPage
  /\ view' = NoView /\ loads' = << >> /\ posting' = "none" /\ buying' = << >> /\ settled' = None
  /\ follow' = [k \in DOMAIN follow |-> NoFollow]
  /\ starting' = IF starting = None THEN None ELSE [starting EXCEPT !.mine = FALSE]
  /\ event' = << >>
  /\ UNCHANGED <<submission, hint, cooling, run, job, collected, left>>

\* Another page of the app: the timer of the draft still runs.
Leave ==
  /\ page.at \in {"open", "error"} /\ Closed
  /\ UNCHANGED <<timer, puts, drafts, ghost>>

\* The tab is closed or reloaded, or another machine is used, without this one's storage.
CloseTab ==
  /\ page.at \in {"open", "error"} /\ Closed
  /\ Lose(timer # None) /\ timer' = None
  /\ \/ UNCHANGED local
     \/ local' = [l \in Languages |-> None]
  /\ UNCHANGED <<puts, draft, clock>>

-----------------------------------------------------------------------------

Init ==
  /\ submission = << >> /\ hint = [bought |-> 0, paid |-> 0] /\ cooling = FALSE /\ event = << >>
  /\ run = << >> /\ starting = None /\ job = << >> /\ collected = {}
  /\ draft = [l \in Languages |-> None] /\ local = [l \in Languages |-> None] /\ clock = 1
  /\ page = ClosedPage
  /\ timer = None /\ puts = << >>
  /\ view = NoView /\ loads = << >> /\ posting = "none" /\ buying = << >>
  /\ follow = [judgement |-> NoFollow, run |-> NoFollow]
  /\ settled = None
  /\ ghost = [stale |-> FALSE, behind |-> FALSE, confirmed |-> {}]
  /\ left \in Budgets

Followings == {"judgement", "run"}

Polling(k) == PollServed(k) \/ PollAnswered(k) \/ PollAborted(k) \/ PollTimer(k)
Loading == \E i \in DOMAIN loads : LoadServed(i) \/ LoadAnswered(i)

Participant ==
  \/ Open \/ Leave \/ CloseTab \/ Hide \/ Show
  \/ Type \/ Reset \/ \E l \in Languages : Switch(l)
  \/ Submit \/ Cancel \/ StartRun \/ BuyHint

Browser ==
  \/ Loading \/ \E i \in DOMAIN loads : LoadFails(i)
  \/ \E k \in Followings : Polling(k) \/ PollFails(k)
  \/ EventHeard \/ Posted \/ HintBought
  \/ DraftTimer \/ \E i \in DOMAIN puts : PutArrives(i) \/ PutLost(i)

Engine ==
  \/ \E i \in DOMAIN submission : Judge(i)
  \/ Rejudge \/ CooledDown
  \/ RunSent \/ \E i \in DOMAIN run : GiveUp(i) \/ JudgeRuns(i) \/ CollectRun(i)
  \/ \E c \in collected : WriteRun(c)

Next == Participant \/ Browser \/ Engine

Spec == Init /\ [][Next]_vars

\* Requests are answered, timers fire, events are polled for; the judge works and the
\* scheduler ticks every second.
Fairness ==
  /\ WF_vars(Loading) /\ WF_vars(EventHeard \/ HintBought \/ Posted \/ Show)
  /\ \A k \in Followings : WF_vars(Polling(k))
  /\ WF_vars(\E i \in DOMAIN submission : Judge(i))
  /\ WF_vars(RunSent \/ \E i \in DOMAIN run : GiveUp(i) \/ JudgeRuns(i))
  /\ WF_vars((\E i \in DOMAIN run : CollectRun(i)) \/ \E c \in collected : WriteRun(c))

FairSpec == Spec /\ Fairness

-----------------------------------------------------------------------------
(* What the workspace promises.                                             *)

\* Every variable holds what its column or its state may hold.  Code is always code of the
\* language it is kept under: no draft, local copy or editor mixes two languages up,
\* whichever timer fires after whichever switch.
TypeOK ==
  /\ page.at \in {"closed", "loading", "open", "error"} /\ page.source.lang = page.language
  /\ \A l \in Languages :
       /\ draft[l] # None => draft[l].text.lang = l
       /\ local[l] # None => local[l].text.lang = l
       /\ page.code[l] # None => page.code[l].lang = l
  /\ \A k \in Followings :
       /\ follow[k].flight \in {"none", "sent", "answered", "aborted"}
       /\ follow[k].url \in 0..Len(IF k = "judgement" THEN submission ELSE run)
  /\ \A i \in DOMAIN run : run[i].state \in {"pending", "queued", "running", "done"}

\* "Drafts autosave to the server so a machine swap finds them" (question/[id]/page.tsx:6):
\* with no save on its way, another machine opens in the language left selected, on the
\* code left on screen; unless a save was lost, overtook another, or waited during a switch.
SwapFindsTheCode ==
  page.at = "open" /\ timer = None /\ puts = << >> /\ ~ghost.behind =>
    LET there == LastIn(draft) IN
    /\ page.language = there
    /\ page.source = IF draft[there] = None THEN Template(there) ELSE draft[there].text

\* One submission of the participant is judged at a time, and one practice run, whatever
\* was pressed twice or given up.
OneAtATime ==
  /\ Cardinality(Unjudged) <= 1 \/ \E i \in DOMAIN submission : submission[i].judgement[2] > 1
  /\ Cardinality(Live) <= 1

\* On a page that has just loaded, with nothing under way, the button says whether the
\* engine would take a submission: it is never withheld from someone who may submit, and
\* offered in vain only while an older submission is judged again.
ButtonIsTruthful ==
  page.at = "open" /\ posting = "none" /\ view.history = submission /\ view.cooling = cooling
    /\ follow.judgement.value \in {None, Newest(submission)}
    => /\ Takes => CanSubmit
       /\ CanSubmit => Takes \/ \E i \in Unjudged : i < Len(submission)

\* A finished run never changes: its output stays on screen and its slot stays free.
FinishedRunStands ==
  [][\A i \in DOMAIN run : run[i].state = "done" => run'[i] = run[i]]_vars

\* Every run ends, whatever the judge forgets and wherever the engine dies, and the button
\* is free again: a run "must not hold its participant's one slot for the rest of the day".
RunEnds == Live # {} ~> Live = {} /\ (page.at # "open" \/ page.hidden \/ (~Running /\ Console.tests # "running"))

VerdictOnScreen ==
  submission # << >> /\ Last(submission).state = "done"
    /\ Console.result = [judging |-> FALSE, judgement |-> Last(submission)]

\* A hint is paid for once, and only when a dialog that named it was confirmed, however
\* often the button is pressed and however old the page is (coding/hints buy_hint).
HintsAsConfirmed == hint.paid = hint.bought /\ 1..hint.bought \subseteq ghost.confirmed

\* A solved question stays solved, whatever is submitted after it; only an organiser's
\* rejudge takes it back.
SolvedStays == [][NothingLeft => NothingLeft' \/ Rejudge]_vars

\* The verdict of the newest submission comes up on an open page, whatever polls fail and
\* events are lost, and although it is judged again or cancelled; unless answers overtook
\* one another, a poll was cut short by the next submission, or a judgement was replaced
\* that the page no longer followed.
VerdictShows ==
  (page.at = "open" /\ submission # << >>) ~> (VerdictOnScreen \/ page.at # "open" \/ ghost.stale)

\* What a participant presses does what the page said it would: submissions and runs go one
\* at a time, the button is there when it works, a hint costs what was confirmed.
PressedInGoodFaith == TypeOK /\ OneAtATime /\ ButtonIsTruthful /\ HintsAsConfirmed

\* Every practice run ends, once and for all.
RunsEndForGood == FinishedRunStands /\ RunEnds

\* A verdict comes up on the page, and what was solved stays solved.
VerdictsReachThePage == SolvedStays /\ VerdictShows
=============================================================================
