--------------------------------- MODULE Desk ---------------------------------
(***************************************************************************)
(* The organisers' desk, over the seats of Proctor and the shelf of        *)
(* Packages: the dashboard that                                            *)
(* moves the contest on (contest/phases.py, admin/page.tsx), the settings  *)
(* (admin/contest/page.tsx), the participants, the choice of who goes to   *)
(* Phase 2 and the reset.  A request is served as the engine serves it:    *)
(* checks, then one transaction, then its events.                          *)
(***************************************************************************)
EXTENDS Packages

CONSTANTS Defaults, SettingEdits,
          Setups,       \* the setup zips imported: settings, a problem and the running order
          Minutes       \* how long a timed round lasts; a bound, not code

VARIABLES desk, request, said

Modes == {"online", "offline"}
Settings == [mode : Modes, proctoring : BOOLEAN, warnings : Nat, start : Nat, board : {"live", "hidden"}]

\* What a budget counts.
Ops == {"open", "leave", "reload", "slow", "late", "lost", "register", "coin", "look", "people", "person", "review", "tick one", "form", "edit",
        "discard", "stock", "minute", "lost answer",
        "advance", "extend", "registration", "announce", "reset", "create", "save", "setup", "select", "unlock", "disqualify",
        "requalify", "remove",
        "problems", "details", "place", "order", "drag", "upload", "import", "validate", "validate all",
        "publish", "describe", "reorder", "submit"}

ASSUME DeskAssumption ==
  /\ None \notin Int \cup BOOLEAN
  /\ Minutes \in Nat /\ Defaults \in Settings
  /\ \A e \in SettingEdits : e.field \in DOMAIN Defaults /\ [Defaults EXCEPT ![e.field] = e.value] \in Settings
  /\ \A setup \in Setups : setup.start \in Nat /\ setup.board \in {"live", "hidden"}
  /\ Budgets \subseteq [phase : Range(Phases), held : BOOLEAN, people : SUBSET People, through : SUBSET People,
                         seated : SUBSET People, organisers : SUBSET Organisers, versions : Nat, may : [Ops -> Nat]]
  /\ \A b \in Budgets : b.seated \cup b.through \subseteq b.people

\* What the runs keep to, and theorems name where they need it.  Full screen is given in the
\* round it was asked for in; the starting balance stands; and who selects does it alone, of
\* people who stay.
SlowStaysInTheRound ==
  \A b \in Budgets : b.may["slow"] = 0 \/ \A op \in {"advance", "save", "disqualify", "requalify"} : b.may[op] = 0
StartStands ==
  /\ \A e \in SettingEdits : e.field # "start"
  /\ \A setup \in Setups : setup.start = Defaults.start
  /\ Defaults.start > 0
OneSelects ==
  \A b \in Budgets :
    \/ b.may["select"] = 0
    \/ /\ b.may["reset"] = 0 /\ b.may["remove"] = 0
       /\ b.may["select"] <= 1 \/ \E o \in Organisers : b.organisers = {o}

vars == <<contest, account, tab, slipped, left, desk, request, said, now, shelf>>
engine == <<contest, account, said>>
seats == <<tab, slipped>>

Registered == {p \in People : account[p].in}
Chosen == {p \in Registered : account[p].advanced}
Stranger == [in |-> FALSE, alerts |-> 0, rows |-> 0, locked |-> FALSE, out |-> FALSE,
             advanced |-> FALSE, granted |-> 0, spent |-> 0]
Balance(p) == account[p].granted - account[p].spent

-----------------------------------------------------------------------------
(* The engine: phases.                                                      *)

NextPhase(phase) == Phases[At(phase) + 1]

\* advance_checks; what the puzzles and the judge's reach come to is `stocked`.
Blocked ==
  \/ contest.phase = "ended"
  \/ contest.phase = "registration" /\ (contest.reg \/ Registered = {})
  \/ contest.phase \in {"registration", "p1_puzzles", "review"} /\ ~contest.stocked
  \/ contest.phase = "review" /\ (Chosen = {} \/ PackageBlocks)

Timed == {"p1_puzzles", "p1_hacking", "coding1", "final"}
Deadline(phase) == IF phase \in Timed THEN now + Minutes ELSE None

AdvanceChecks(o) ==
  /\ request[o].op = "advance" /\ request[o].at = "sent"
  /\ request' = [request EXCEPT ![o].at = IF Blocked THEN "failed" ELSE "checked", ![o].arg = contest.phase]
  /\ UNCHANGED <<engine, tab>>

Moved(o) == contest.phase # request[o].arg

Fails(o) == request' = [request EXCEPT ![o].at = "failed"] /\ UNCHANGED <<engine, tab>>
Commits(o) == request' = [request EXCEPT ![o].at = "committed"] /\ UNCHANGED tab

AdvanceServed(o) ==
  /\ request[o].op = "advance" /\ request[o].at = "checked"
  /\ IF Moved(o) THEN Fails(o)
     ELSE LET next == NextPhase(request[o].arg) IN
          /\ contest' = [contest EXCEPT !.phase = next, !.ends = Deadline(next)]
          /\ said' = Append(said, next)
          /\ Commits(o) /\ UNCHANGED account

\* Mutant: the minutes are counted from now.
ExtendedFromNow(ends) == now + 1

\* A round that is over is extended from now; a minute is what every extension is.
Extended(ends) == (IF ends > now THEN ends ELSE now) + 1

ExtendServed(o) ==
  /\ request[o].op = "extend" /\ request[o].at = "sent"
  /\ IF contest.ends = None THEN Fails(o)
     ELSE /\ contest' = [contest EXCEPT !.ends = Extended(contest.ends)]
          /\ said' = Append(said, "more time")
          /\ Commits(o) /\ UNCHANGED account

RegistrationServed(o) ==
  /\ request[o].op = "registration" /\ request[o].at = "sent"
  /\ contest' = [contest EXCEPT !.reg = request[o].arg]
  /\ Commits(o) /\ UNCHANGED <<account, said>>

AnnounceServed(o) ==
  /\ request[o].op = "announce" /\ request[o].at = "sent"
  /\ said' = Append(said, "word")
  /\ Commits(o) /\ UNCHANGED <<contest, account>>

-----------------------------------------------------------------------------
(* The engine: settings, and starting again.                                *)

\* A round is all online or all offline.
ModeRefused(set) == set.mode # contest.set.mode /\ IsAuction(contest.phase)

SaveServed(o) ==
  /\ request[o].op = "save" /\ request[o].at = "sent"
  /\ IF ModeRefused(request[o].arg) THEN Fails(o)
     ELSE contest' = [contest EXCEPT !.set = request[o].arg] /\ Commits(o) /\ UNCHANGED <<account, said>>

\* reset, of the run: everybody's account goes, and with it their session, their page and
\* what they submitted; the packages stay.
ResetServed(o) ==
  /\ request[o] # None /\ request[o].op = "reset" /\ request[o].at = "sent"
  /\ contest' = [contest EXCEPT !.phase = "registration", !.ends = None, !.reg = TRUE]
  /\ account' = [p \in People |-> Stranger]
  /\ said' = << >>
  /\ tab' = [p \in People |-> None]
  /\ request' = [request EXCEPT ![o].at = "committed"]
  /\ subs' = << >>
  /\ UNCHANGED <<slipped, left, desk, now, volume, question, other, counted, shop, task>>

\* import_setup writes the settings a zip carries, the auction mode and the proctoring not
\* among them, whatever the phase; then it imports the problem, as a request of its own would.
SetupSettles(o) ==
  LET setup == request[o].arg IN
  /\ request[o] # None /\ request[o].op = "setup" /\ request[o].at = "sent"
  /\ contest' = [contest EXCEPT !.set.start = setup.start, !.set.board = setup.board]
  /\ request' = [request EXCEPT ![o].at = "settled"]
  /\ Asked(o, "setup", 0, 0, setup.zip)
  /\ UNCHANGED <<account, said, seats, left, desk, now, stock, shop>>

\* A problem that was refused is a warning; _restore_auction_order asks nothing.
SetupRestores(o) ==
  /\ request[o] # None /\ request[o].op = "setup" /\ request[o].at = "settled"
  /\ task[o].at \in {"done", "failed"}
  /\ Placed(request[o].arg.order)
  /\ task' = [task EXCEPT ![o] = None]
  /\ request' = [request EXCEPT ![o].at = "committed"]
  /\ UNCHANGED <<engine, seats, left, desk, now, volume, subs, counted, shop>>

-----------------------------------------------------------------------------
(* The engine: people.                                                      *)

\* register_participant, at a machine in the hall.
Registers(p) ==
  /\ ~account[p].in /\ contest.reg /\ contest.phase = "registration" /\ Spend("register")
  /\ account' = [account EXCEPT ![p] = [Stranger EXCEPT !.in = TRUE]]
  /\ UNCHANGED <<contest, said, seats, desk, request, now>>

\* create_participant: by hand, at any time; the starting balance if Phase 2 has begun.
CreateServed(o) ==
  LET p == request[o].arg IN
  /\ request[o].op = "create" /\ request[o].at = "sent"
  /\ IF account[p].in THEN Fails(o)
     ELSE /\ account' = [account EXCEPT ![p] = [Stranger EXCEPT !.in = TRUE,
                          !.granted = IF InPhase2(contest.phase) THEN contest.set.start ELSE 0]]
          /\ Commits(o) /\ UNCHANGED <<contest, said>>

Becomes(p, b) == account' = [account EXCEPT ![p] = b] /\ UNCHANGED <<contest, said>>

UnlockServed(o) ==
  LET p == request[o].arg IN
  /\ request[o].op = "unlock" /\ request[o].at = "sent"
  /\ IF ~account[p].locked THEN Fails(o)
     ELSE Becomes(p, [account[p] EXCEPT !.alerts = 0, !.locked = FALSE]) /\ Commits(o)

\* Of somebody who was removed there is no row to write.
DisqualifyServed(o) ==
  LET p == request[o].arg IN
  /\ request[o].op \in {"disqualify", "requalify"} /\ request[o].at = "sent"
  /\ Becomes(p, [account[p] EXCEPT !.out = account[p].in /\ request[o].op = "disqualify"]) /\ Commits(o)

\* remove: only before the contest starts.
RemoveServed(o) ==
  LET p == request[o].arg IN
  /\ request[o].op = "remove" /\ request[o].at = "sent"
  /\ IF contest.phase # "registration" THEN Fails(o)
     ELSE /\ Becomes(p, Stranger)
          /\ tab' = [tab EXCEPT ![p] = None]
          /\ request' = [request EXCEPT ![o].at = "committed"]

\* A charge, for whatever: coins are spent in Phase 2.
Spends(p) ==
  /\ InPhase2(contest.phase) /\ account[p].advanced /\ Balance(p) > 0 /\ Spend("coin")
  /\ account' = [account EXCEPT ![p].spent = @ + 1]
  /\ UNCHANGED <<contest, said, seats, desk, request, now>>

-----------------------------------------------------------------------------
(* The engine: who goes to Phase 2.                                         *)

\* Mutant: whoever has coins left was paid.
PaidByBalance == {p \in Registered : Balance(p) > 0}

Paid == {p \in Registered : account[p].granted > 0}

\* set_advancement reads the balance to give and who holds it, before it locks anybody.
SelectReads(o) ==
  /\ request[o].op = "select" /\ request[o].at = "sent"
  /\ request' = [request EXCEPT ![o].at = "checked", ![o].paid = Paid,
                                ![o].amount = contest.set.start]
  /\ UNCHANGED <<engine, tab>>

\* settle_starting_balance.
Settles(p, r) ==
  CASE p \in r.arg /\ p \notin r.paid -> r.amount
    [] p \notin r.arg /\ p \in r.paid -> 0 - r.amount
    [] OTHER -> 0

\* Everybody or nobody: one balance below nothing rolls it all back.
SelectServed(o) ==
  LET r == request[o] IN
  /\ r.op = "select" /\ r.at = "checked"
  /\ IF \E p \in Registered : Balance(p) + Settles(p, r) < 0 THEN Fails(o)
     ELSE /\ account' = [p \in People |->
                IF account[p].in THEN [account[p] EXCEPT !.advanced = p \in r.arg, !.granted = @ + Settles(p, r)]
                ELSE account[p]]
          /\ Commits(o) /\ UNCHANGED <<contest, said>>

-----------------------------------------------------------------------------
(* The engine: the events of what was committed.                            *)

Phase == [name |-> "phase", snapshot |-> PhaseSnapshot]
Event(name) == [name |-> name]

Events(op) ==
  CASE op \in {"advance", "extend"} -> <<Phase, Event("announce")>>
    [] op \in {"registration", "save", "reset", "setup"} -> <<Phase>>
    [] op = "announce" -> <<Event("announce")>>
    [] op \in {"select", "disqualify", "requalify"} -> <<Event("notify")>>
    [] op = "unlock" -> <<Event("proctor")>>
    [] OTHER -> << >>

\* Everyone, or the person it is about.
To(r) == IF r.op \in {"unlock", "disqualify", "requalify"} THEN {r.arg} ELSE People

Publishes(o) ==
  /\ request[o].at = "committed"
  /\ tab' = [p \in People |-> IF p \in To(request[o]) /\ tab[p] # None
                                THEN [tab[p] EXCEPT !.news = @ \o Events(request[o].op)] ELSE tab[p]]
  /\ request' = [request EXCEPT ![o].at = "done"]
  /\ UNCHANGED engine

Engine(o) ==
  /\ request[o] # None
  /\ \/ AdvanceChecks(o) \/ AdvanceServed(o) \/ ExtendServed(o) \/ RegistrationServed(o) \/ AnnounceServed(o)
     \/ SaveServed(o) \/ CreateServed(o)
     \/ UnlockServed(o) \/ DisqualifyServed(o) \/ RemoveServed(o)
     \/ SelectReads(o) \/ SelectServed(o) \/ Publishes(o)
  /\ UNCHANGED <<slipped, left, desk, now>>

-----------------------------------------------------------------------------
(* The organisers' pages: what each has loaded, and one dialog at a time.   *)

View == [phase |-> contest.phase, reg |-> contest.reg, ends |-> contest.ends,
         over |-> contest.phase = "ended", blocked |-> Blocked]

Dirty(form) == form.c # form.orig

\* The dashboard: its own contest state and the checks, every few seconds.
Looks(o) ==
  /\ desk[o].view # View /\ Spend("look")
  /\ desk' = [desk EXCEPT ![o].view = View]
  /\ UNCHANGED <<engine, seats, request, now>>

\* The participants' list.
LoadsPeople(o) ==
  /\ Spend("people")
  /\ desk' = [desk EXCEPT ![o].people = account]
  /\ UNCHANGED <<engine, seats, request, now>>

\* One participant: when the page opens, when it is refreshed and when they are locked out.
LoadsPerson(o, p) ==
  /\ account[p].in /\ Spend("person")
  /\ desk' = [desk EXCEPT ![o].people = [q \in People |-> IF q = p THEN account[q]
                                                        ELSE IF @ = None THEN Stranger ELSE @[q]]]
  /\ UNCHANGED <<engine, seats, request, now>>

Ticked == {p \in Registered : account[p].advanced}
LoadsReview(o) ==
  /\ desk[o].chosen = None /\ Spend("review")
  /\ desk' = [desk EXCEPT ![o].chosen = Ticked]
  /\ UNCHANGED <<engine, seats, request, now>>

Ticks(o, p) ==
  /\ desk[o].chosen # None /\ p \in Registered /\ ~account[p].out /\ Spend("tick one")
  /\ desk' = [desk EXCEPT ![o].chosen = IF p \in @ THEN @ \ {p} ELSE @ \cup {p}]
  /\ UNCHANGED <<engine, seats, request, now>>

\* The settings are loaded once, when the page opens.
LoadsForm(o) ==
  /\ desk[o].form = None /\ Spend("form")
  /\ desk' = [desk EXCEPT ![o].form = [c |-> contest.set, orig |-> contest.set]]
  /\ UNCHANGED <<engine, seats, request, now>>

Edits(o, e) ==
  /\ desk[o].form # None /\ desk[o].form.c[e.field] # e.value /\ Spend("edit")
  /\ desk' = [desk EXCEPT ![o].form.c[e.field] = e.value]
  /\ UNCHANGED <<engine, seats, request, now>>

Discards(o) ==
  /\ desk[o].form # None /\ Dirty(desk[o].form) /\ Spend("discard")
  /\ desk' = [desk EXCEPT ![o].form.c = desk[o].form.orig]
  /\ UNCHANGED <<engine, seats, request, now>>

-----------------------------------------------------------------------------
(* What is offered, asked for and sent.                                     *)

Offer(op, arg) == [op |-> op, arg |-> arg]

\* The dashboard's three controls.
ControlOffers(o) ==
  LET v == desk[o].view IN
  IF v.over THEN {}
  ELSE (IF v.blocked THEN {} ELSE {Offer("advance", None)})
       \cup (IF v.ends = None THEN {} ELSE {Offer("extend", None)})
       \cup (IF v.phase = "registration" THEN {Offer("registration", None)} ELSE {})

PersonOffers(o, p) ==
  LET a == desk[o].people[p] IN
  IF ~a.in THEN {}
  ELSE (IF a.locked THEN {Offer("unlock", p)} ELSE {})
       \cup {Offer(IF a.out THEN "requalify" ELSE "disqualify", p)}
       \cup (IF desk[o].view.phase = "registration" THEN {Offer("remove", p)} ELSE {})

PeopleOffers(o) == IF desk[o].people = None THEN {} ELSE UNION {PersonOffers(o, p) : p \in People}

\* By hand, and in every phase: a late one is only warned about.
CreateOffers == {Offer("create", p) : p \in People}

SelectOffers(o) == IF desk[o].chosen = None THEN {} ELSE {Offer("select", None)}

AnnounceOffers == {Offer("announce", None)}

\* The danger zone, in every phase.
ResetOffers == {Offer("reset", None)}

\* Import a setup, in every phase.
SetupOffers == {Offer("setup", zip) : zip \in Setups}

Offered(o) == ControlOffers(o) \cup PeopleOffers(o) \cup CreateOffers \cup SelectOffers(o)
                \cup AnnounceOffers \cup ResetOffers \cup SetupOffers

\* A dialog stays what it was opened as.
Asks(o, d) ==
  /\ desk[o].dialog = None /\ d \in Offered(o) /\ May(d.op)
  /\ desk' = [desk EXCEPT ![o].dialog = d]
  /\ UNCHANGED <<engine, seats, request, left, now>>

Cancels(o) ==
  /\ desk[o].dialog # None
  /\ desk' = [desk EXCEPT ![o].dialog = None]
  /\ UNCHANGED <<engine, seats, request, left, now>>

\* What is sent is what the page holds by then.
Argument(o, d) ==
  CASE d.op = "registration" -> ~desk[o].view.reg
    [] d.op = "select" -> desk[o].chosen
    [] OTHER -> d.arg

Send(o, op, arg) ==
  /\ request[o] = None /\ Spend(op)
  /\ request' = [request EXCEPT ![o] = [op |-> op, arg |-> arg, at |-> "sent", paid |-> {}, amount |-> 0]]
  /\ UNCHANGED <<engine, seats, desk, now>>

Confirms(o) ==
  /\ desk[o].dialog # None /\ desk[o].dialog.op \notin {"reset", "setup"}
  /\ Send(o, desk[o].dialog.op, Argument(o, desk[o].dialog))

\* With the phrase typed.
ConfirmsReset(o) == desk[o].dialog # None /\ desk[o].dialog.op = "reset" /\ Send(o, "reset", None)

\* With the zip chosen.
ConfirmsSetup(o) == desk[o].dialog # None /\ desk[o].dialog.op = "setup" /\ Send(o, "setup", desk[o].dialog.arg)

\* The whole form.
Saves(o) == desk[o].form # None /\ Dirty(desk[o].form) /\ Send(o, "save", desk[o].form.c)

\* What a page does with an answer that says done: it closes the dialog and loads again.
Refreshed(d, op) ==
  LET closed == [d EXCEPT !.dialog = IF op = "save" THEN @ ELSE None]
      form == [c |-> contest.set, orig |-> contest.set] IN
  CASE op \in {"advance", "extend", "registration"} -> [closed EXCEPT !.view = View]
    [] op \in {"create", "unlock", "disqualify", "requalify", "remove"} -> [closed EXCEPT !.people = account]
    [] op = "select" -> [closed EXCEPT !.chosen = Ticked]
    [] op \in {"save", "reset", "setup"} -> [closed EXCEPT !.form = IF d.form = None THEN None ELSE form]
    [] OTHER -> closed

Answered(o) ==
  /\ request[o] # None /\ request[o].at = "done"
  /\ request' = [request EXCEPT ![o] = None]
  /\ desk' = [desk EXCEPT ![o] = Refreshed(@, request[o].op)]
  /\ UNCHANGED <<engine, seats, left, now>>

\* Refused, or the answer is lost: the dialog stays, to be confirmed again.
Refused(o) ==
  /\ request[o] # None
  /\ \/ request[o].at = "failed" /\ UNCHANGED left
     \/ request[o].at = "done" /\ Spend("lost answer")
  /\ request' = [request EXCEPT ![o] = None]
  /\ UNCHANGED <<engine, seats, desk, now>>

-----------------------------------------------------------------------------
\* What else is published, and whether the judge answers, comes and goes.
Restocks ==
  /\ Spend("stock")
  /\ contest' = [contest EXCEPT !.stocked = ~@]
  /\ UNCHANGED <<account, said, seats, desk, request, now>>

Clock == Spend("minute") /\ now' = now + 1 /\ UNCHANGED <<engine, seats, desk, request>>

\* Start: the contest as the organisers brought it to the phase the budget names.
Init ==
  /\ left \in Budgets
  /\ ShelfInit
  /\ now = 0 /\ slipped = [p \in People |-> 0]
  /\ contest = [phase |-> left.phase, ends |-> IF left.phase \in Timed THEN Minutes ELSE None,
                reg |-> left.phase = "registration", stocked |-> TRUE, set |-> [Defaults EXCEPT !.proctoring = left.held]]
  /\ said = SubSeq(Phases, 2, At(left.phase))
  /\ account = [p \in People |->
       IF p \notin left.people THEN Stranger
       ELSE [Stranger EXCEPT !.in = TRUE, !.advanced = p \in left.through,
                             !.granted = IF p \in left.through THEN Defaults.start ELSE 0]]
  /\ tab = [p \in People |-> IF p \in left.seated THEN Mounted(State(p)) ELSE None]
  /\ desk = [o \in Organisers |-> [view |-> View, people |-> None, chosen |-> None, form |-> None, dialog |-> None]]
  /\ request = [o \in Organisers |-> None]

Seat(p) == (Follows(p) \/ Moves(p)) /\ UNCHANGED <<desk, request, said, now>>

Page(o) ==
  \/ Looks(o) \/ LoadsPeople(o) \/ LoadsReview(o) \/ LoadsForm(o) \/ Discards(o)
  \/ \E p \in People : Ticks(o, p) \/ LoadsPerson(o, p)
  \/ \E e \in SettingEdits : Edits(o, e)
  \/ \E d \in Offered(o) : Asks(o, d)
  \/ Cancels(o) \/ Confirms(o) \/ ConfirmsReset(o) \/ ConfirmsSetup(o) \/ Saves(o) \/ Answered(o) \/ Refused(o)

Contest ==
  \/ \E o \in left.organisers : Engine(o) \/ Page(o)
  \/ \E p \in People : Seat(p) \/ Registers(p) \/ Spends(p)
  \/ Restocks \/ Clock

Next ==
  \/ Contest /\ UNCHANGED shelf
  \/ \E o \in left.organisers : ResetServed(o) \/ SetupSettles(o) \/ SetupRestores(o)
  \/ ShelfNext /\ UNCHANGED <<engine, seats, desk, request, now>>

Spec == Init /\ [][Next]_vars

\* The engine serves what it got, and pages hear, read and report.  None of it repeats for
\* ever; nobody has to click, to come back or to move the contest on.
Going ==
  \/ \E o \in left.organisers : ResetServed(o)
  \/ \E o \in left.organisers : (Engine(o) \/ Answered(o)) /\ UNCHANGED shelf
  \/ \E p \in People : Follows(p) /\ UNCHANGED <<desk, request, said, now, shelf>>

FairSpec == Spec /\ WF_vars(Going)

-----------------------------------------------------------------------------
(* Properties.                                                              *)

\* Every variable has its shape.
TypeOK ==
  /\ ShelfOK
  /\ contest.phase \in Range(Phases) /\ contest.set \in Settings
  /\ \A p \in People :
       /\ account[p].alerts <= account[p].rows /\ Balance(p) >= 0
       /\ tab[p] # None =>
            /\ tab[p].screen \in {"gate", "ok", "alert", "locked"}
            /\ tab[p].screen = "ok" => Enforced(tab[p])
            /\ tab[p].again => tab[p].reading
            /\ ~tab[p].watching => tab[p].slips = {}

Announced == {i \in DOMAIN said : said[i] \in Range(Phases)}

\* What was announced is every phase since registration, each once and in order: two
\* organisers, retries and stale dashboards never skip a phase or start one twice.
AnnouncedInOrder ==
  /\ {said[i] : i \in Announced} = {Phases[k] : k \in 2..At(contest.phase)}
  /\ \A i, j \in Announced : i < j => At(said[i]) < At(said[j])

\* A round's time is never taken from it, however often and late it is extended.
RoundsKeepTheirTime ==
  [][contest'.phase = contest.phase /\ contest.ends # None => contest'.ends >= contest.ends]_vars

\* An auction round is all online or all offline, whatever stale form is saved in it.
ModeHoldsForTheRound ==
  [][IsAuction(contest.phase) /\ contest'.phase = contest.phase => contest'.set.mode = contest.set.mode]_vars

\* However often the selection is confirmed, nobody holds the starting coins twice, and
\* whoever is through holds them.
PaidOnce ==
  \A p \in Registered : /\ account[p].granted \in {0, contest.set.start}
                        /\ account[p].advanced => account[p].granted > 0

\* One slip is one alert: leaving full screen also blurs the window.
OneSlipCountsOnce == \A p \in People : account[p].rows <= slipped[p]

\* While a round runs, whoever sees the contest is held on the page, or is about to be told off.
NobodyWorksUnwatched ==
  \A p \in People : tab[p] # None =>
    (Enforced(tab[p]) /\ tab[p].screen = "ok" => Held(tab[p]) \/ tab[p].slips # {})

ShowsTheLock(p) == Visible(p) /\ Enforced(tab[p]) => (tab[p].screen = "locked" <=> account[p].locked)

\* The lock and its end reach the screen, whatever report was lost on the way.
LockFollows == (\E p \in left.seated : ~ShowsTheLock(p)) ~> (\A p \in left.seated : ShowsTheLock(p))

Follow(p) == Visible(p) => ScreenOf(tab[p].state) = ScreenOf(State(p))

\* Whatever the organisers do, every page comes to the screen it calls for.
ScreensFollow == (\E p \in left.seated : ~Follow(p)) ~> (\A p \in left.seated : Follow(p))

\* Phases are announced in order and coins granted once, however stale the organisers'
\* pages are and however often they press.
ContestInv == TypeOK /\ AnnouncedInOrder /\ PaidOnce

\* A competitor is watched while a round runs, and told off once for one slip.
SeatInv == OneSlipCountsOnce /\ NobodyWorksUnwatched

\* The live package, the row that names it, the judgements made with it and the pages that
\* speak of it agree, whoever uploads, publishes and submits at once.
ShelfInv == RowNamesTheLive /\ RejudgedByTheLive /\ ReadyIsServed

\* A round keeps the time it was given and the mode it began in.
RoundsStand == RoundsKeepTheirTime /\ ModeHoldsForTheRound

\* Every competitor's page comes to show the lock and the phase as they are.
PagesFollow == LockFollows /\ ScreensFollow
=============================================================================
