--------------------------------- MODULE Market ---------------------------------
(***************************************************************************)
(* The marketplace: engine/marketplace (buying, using, shields, breaks,    *)
(* blackouts, storefront) with web marketplace/page, the overlay of a      *)
(* blacked-out screen, the organisers' forms (Catalogue) and their record  *)
(* of a participant's powerups.                                            *)
(*                                                                         *)
(* An action of the engine is one transaction, under the rows it locks.    *)
(* Time is counted in ticks; everything that expires is a comparison.      *)
(***************************************************************************)
EXTENDS Catalogue

PhaseNames == {"p1_hacking", "coding1", "auction2", "ended"}

CONSTANTS
  People,
  Purse,        \* the coins of each, at the start
  Faults,       \* "lost" request or answer, "again" delivered twice, "check" that fails
  MaxLoads,
  Budgets       \* what a behaviour starts from and what it may spend (bounds of the instance)

VARIABLES
  contest,      \* the phase, whether the marketplace is open, who is disqualified
  now,
  coins,
  holder,       \* powerup_inventory, and the shields started, in order
  dark,         \* blackout: the intervals of each, in order
  rest,         \* attack_break: the same
  log,          \* powerup_event
  scan,         \* shields.tick: whom it found waiting with no shield up
  requests,     \* buys and uses on their way, or answered
  page,         \* the marketplace page of each
  overlay,      \* the overlay of each
  news,         \* events not heard yet
  left

engine == <<contest, now, coins, holder, dark, rest, log, scan>>
web == <<requests, page, overlay, news>>
vars == <<catalogue, engine, web, left>>

Spend(kind) == left[kind] > 0 /\ left' = [left EXCEPT ![kind] = @ - 1]
Fault(kind) == kind \in Faults /\ Spend("faults")

-----------------------------------------------------------------------------
(* Shields: one up at a time, the rest waiting.                             *)

StillUp(row) == ~row.absorbed /\ (row.ends = None \/ (row.ends # None /\ row.ends > now))
UpOf(h) == h.rows # << >> /\ StillUp(Last(h.rows))

\* One leaves the inventory and is up, for as long as its row says now.
Started(h) ==
  LET seconds == item["shield"].seconds IN
  [h EXCEPT !.held["shield"] = @ - 1,
            !.rows = Append(@, [from |-> now, absorbed |-> FALSE,
                                ends |-> IF seconds = UntilAbsorbed THEN None ELSE now + seconds])]

Startable == LastsWell("shield", item["shield"].seconds)

\* Mutant: started by whoever finds it waiting, without looking again.
SettleAnyway(h) == IF h.held["shield"] = 0 \/ ~Startable THEN h ELSE Started(h)

\* The next one starts if none is up; one whose duration was cleared waits.
Settle(h) == IF UpOf(h) \/ h.held["shield"] = 0 \/ ~Startable THEN h ELSE Started(h)

\* Mutant: an attack faces what is up as it comes.
FacedAsFound(h) == h

\* An attack puts up the next shield first, if none is up.
Faced(h) == Settle(h)

\* The one up is spent, and the next starts at once.
Absorb(h) ==
  LET f == Faced(h) IN
  IF UpOf(f) THEN Settle([f EXCEPT !.rows[Len(f.rows)].absorbed = TRUE]) ELSE f

Due == {p \in People : holder[p].held["shield"] > 0 /\ ~UpOf(holder[p])}

\* shields.tick reads who waits, then settles each under their lock.
TickScans ==
  /\ scan = {} /\ Due # {}
  /\ scan' = Due
  /\ UNCHANGED <<catalogue, contest, now, coins, holder, dark, rest, log, web, left>>

Tell(p, e) == [news EXCEPT ![p] = @ \cup {e}]

TickSettles(p) ==
  /\ p \in scan /\ scan' = scan \ {p}
  /\ holder' = [holder EXCEPT ![p] = Settle(@)]
  /\ news' = IF UpOf(Settle(holder[p])) THEN Tell(p, "powerup") ELSE news
  /\ UNCHANGED <<catalogue, contest, now, coins, dark, rest, log, requests, page, overlay, left>>

-----------------------------------------------------------------------------
(* Blackouts and breaks.                                                    *)

Running(rows) == {i \in DOMAIN rows : rows[i].to > now}
BlackedOut(p) == contest.phase # "ended" /\ Running(dark[p]) # {}
FreeAt(p) == IF BlackedOut(p) THEN Last(dark[p]).to ELSE None

\* A new one starts where the last one ends.
Stacked(rows, seconds) ==
  LET from == IF Running(rows) = {} THEN now ELSE Last(rows).to IN
  Append(rows, [from |-> from, to |-> from + seconds])

OnBreak(p) == rest[p] # << >> /\ (Last(rest[p]).ends = None \/ (Last(rest[p]).ends # None /\ Last(rest[p]).ends > now))

Counted == IF rule.absorbed THEN {"use", "blocked"} ELSE {"use"}

\* The attacks on p since their last break.
Since(p) ==
  {i \in DOMAIN log : /\ log[i].act \in Counted /\ log[i].target = p
                      /\ rest[p] # << >> => log[i].at >= Last(rest[p]).ends}

\* note_attack, before the attack's own event is written.
ReachesCap(p) == Cardinality(Since(p)) + 1 >= rule.cap

\* 2 ** n.
TwoTo(n) == LET power[m \in 0..n] == IF m = 0 THEN 1 ELSE 2 * power[m - 1] IN power[n]

Doubled(p) == rule.pause * TwoTo(Len(rest[p]))

\* Attacked: what follows for p.  A break without an end is never followed by another.
Rested(p, absorbed) ==
  IF rule.cap > 0 /\ (absorbed => rule.absorbed) /\ ReachesCap(p)
    THEN [rest EXCEPT ![p] = Append(@, [from |-> now, ends |-> IF rule.forever THEN None ELSE now + Doubled(p)])]
    ELSE rest

-----------------------------------------------------------------------------
(* Buying and using, as the engine decides.                                 *)

InPhase2 == contest.phase \in {"coding1", "auction2"}
Closed == ~InPhase2 \/ ~contest.open
Reached(limit, n) == limit # None /\ n >= limit

\* _buy and _check_can_buy.
BuyRefused(p, k) ==
  \/ Closed \/ p \in contest.out \/ ~item[k].on \/ item[k].price > coins[p]
  \/ Reached(item[k].maxHeld, holder[p].held[k]) \/ Reached(item[k].maxBought, holder[p].bought[k])

\* _use, a blackout on somebody else.
UseRefused(p, t) ==
  \/ ~item["blackout"].on \/ contest.phase \notin item["blackout"].where
  \/ {p, t} \cap contest.out # {} \/ holder[p].held["blackout"] = 0 \/ OnBreak(t)

\* Mutant: no request id is ever recognised.
ReplayedNever(r) == FALSE

\* The event row is written last and is unique: a replay rolls everything back.
Replayed(r) == \E i \in DOMAIN log : log[i].actor = r.by /\ log[i].id = r.id

Bought(h, k) ==
  LET more == [h EXCEPT !.held[k] = @ + 1, !.bought[k] = @ + 1] IN
  IF k = "shield" THEN Settle(more) ELSE more

Buys(r) ==
  /\ coins' = [coins EXCEPT ![r.by] = @ - item[r.kind].price]
  /\ holder' = [holder EXCEPT ![r.by] = Bought(@, r.kind)]
  /\ log' = Append(log, [act |-> "buy", kind |-> r.kind, actor |-> r.by, target |-> None,
                         cost |-> item[r.kind].price, id |-> r.id, at |-> now])
  /\ news' = Tell(r.by, "powerup")
  /\ UNCHANGED <<dark, rest>>

Uses(r) ==
  LET t == r.target
      shielded == UpOf(Faced(holder[t])) IN
  /\ holder' = [holder EXCEPT ![t] = Absorb(@), ![r.by].held["blackout"] = @ - 1]
  /\ dark' = IF shielded THEN dark ELSE [dark EXCEPT ![t] = Stacked(@, item["blackout"].seconds)]
  /\ rest' = Rested(t, shielded)
  /\ log' = Append(log, [act |-> IF shielded THEN "blocked" ELSE "use", kind |-> "blackout", actor |-> r.by,
                         target |-> t, cost |-> 0, id |-> r.id, at |-> now])
  /\ news' = [p \in People |-> news[p] \cup {"targets"} \cup (IF p \in {r.by, t} THEN {"powerup"} ELSE {})]
  /\ UNCHANGED coins

Refused(r) == IF r.act = "buy" THEN BuyRefused(r.by, r.kind) ELSE UseRefused(r.by, r.target)

\* One transaction; the answer, if the page still waits for it.
Answer(r, ok) ==
  requests' = (requests \ {r}) \cup (IF r.at = "sent" THEN {[r EXCEPT !.at = IF ok THEN "done" ELSE "failed"]} ELSE {})

Served(r) ==
  /\ r \in requests /\ r.at \in {"sent", "copy"}
  /\ IF Refused(r) \/ Replayed(r)
       THEN UNCHANGED <<coins, holder, dark, rest, log, news>>
       ELSE IF r.act = "buy" THEN Buys(r) ELSE Uses(r)
  /\ \/ Answer(r, ~Refused(r)) /\ UNCHANGED left
     \/ r.at = "sent" /\ Fault("lost") /\ Answer(r, FALSE)
     \/ /\ r.at = "sent" /\ Fault("again")
        /\ requests' = (requests \ {r}) \cup {[r EXCEPT !.at = IF Refused(r) THEN "failed" ELSE "done"], [r EXCEPT !.at = "copy"]}
  /\ UNCHANGED <<catalogue, contest, now, scan, page, overlay>>

\* It never reaches the engine.
NeverReaches(r) ==
  /\ r \in requests /\ r.at = "sent" /\ Fault("lost")
  /\ Answer(r, FALSE)
  /\ UNCHANGED <<catalogue, engine, page, overlay, news>>

-----------------------------------------------------------------------------
(* The storefront: what a page loads.                                       *)

BuyBlocked(p, k) ==
  \/ Closed \/ p \in contest.out \/ item[k].price > coins[p]
  \/ Reached(item[k].maxHeld, holder[p].held[k]) \/ Reached(item[k].maxBought, holder[p].bought[k])

UseBlocked(p) == holder[p].held["blackout"] = 0 \/ contest.phase \notin item["blackout"].where

OnSale == {k \in Kinds : item[k].on}
Storefront(p) ==
  [open |-> InPhase2,
   buy |-> {k \in OnSale : ~BuyBlocked(p, k)},
   use |-> "blackout" \in OnSale /\ ~UseBlocked(p),
   off |-> {t \in People \ {p} : t \in contest.out \/ OnBreak(t)}]

-----------------------------------------------------------------------------
(* The page.                                                                *)

\* MaxLoads: how many are in flight at once.
AskLoad(pg) == [pg EXCEPT !.loads = Append(@, None)]
CanLoad(pg) == Len(pg.loads) < MaxLoads

LoadServed(p, i) ==
  /\ i \in DOMAIN page[p].loads /\ page[p].loads[i] = None
  /\ page' = [page EXCEPT ![p].loads[i] = Storefront(p)]
  /\ UNCHANGED <<catalogue, engine, requests, overlay, news, left>>

\* Whichever answer comes is shown.
LoadAnswered(p, i) ==
  /\ i \in DOMAIN page[p].loads /\ page[p].loads[i] # None
  /\ page' = [page EXCEPT ![p].view = page[p].loads[i], ![p].loads = RemoveAt(@, i)]
  /\ UNCHANGED <<catalogue, engine, requests, overlay, news, left>>

\* The last good view is left up.
LoadFailed(p, i) ==
  /\ i \in DOMAIN page[p].loads /\ Fault("lost")
  /\ page' = [page EXCEPT ![p].loads = RemoveAt(@, i)]
  /\ UNCHANGED <<catalogue, engine, requests, overlay, news>>

Showing(p) == page[p].view # None /\ page[p].view.open

\* One id per click.
Click(p, act, k, t) ==
  /\ Spend(act)
  /\ requests' = requests \cup {[by |-> p, act |-> act, kind |-> k, target |-> t, id |-> left.buy + left.use, at |-> "sent"]}
  /\ page' = [page EXCEPT ![p].busy = k]
  /\ UNCHANGED <<catalogue, engine, overlay, news>>

PressBuy(p, k) ==
  /\ Showing(p) /\ ~page[p].aiming /\ k \in page[p].view.buy /\ page[p].busy # k
  /\ Click(p, "buy", k, None)

PressUse(p) ==
  /\ Showing(p) /\ ~page[p].aiming /\ page[p].view.use /\ page[p].busy # "blackout" /\ left.use > 0
  /\ page' = [page EXCEPT ![p].aiming = TRUE]
  /\ UNCHANGED <<catalogue, engine, requests, overlay, news, left>>

TargetButton(p, t) == page[p].view # None /\ t \notin page[p].view.off /\ page[p].busy = None

PressTarget(p, t) ==
  /\ Showing(p) /\ page[p].aiming /\ p # t /\ TargetButton(p, t)
  /\ Click(p, "use", "blackout", t)

\* Either way the page is loaded again, and waits for that.
Replied(r) ==
  /\ r \in requests /\ r.at \in {"done", "failed"} /\ CanLoad(page[r.by])
  /\ requests' = requests \ {r}
  /\ page' = [page EXCEPT ![r.by] = AskLoad([@ EXCEPT !.busy = None,
                                             !.aiming = @ /\ ~(r.act = "use" /\ r.at = "done")])]
  /\ UNCHANGED <<catalogue, engine, overlay, news, left>>

-----------------------------------------------------------------------------
(* The overlay.  What the page came with counts until the first answer.     *)

Current(p) == overlay[p].live
Shown(p) == Current(p) # None

\* One check at a time: asked while one is in flight, it is not asked again.
Check(o) == IF o.checking = "none" THEN [o EXCEPT !.checking = "sent"] ELSE o

Checks(p) == p \in left.watchers

\* An event is heard: the overlay checks, the marketplace page loads.
Hear(p, e) ==
  /\ e \in news[p]
  /\ p \in left.shoppers => CanLoad(page[p])
  /\ news' = [news EXCEPT ![p] = @ \ {e}]
  /\ page' = IF p \in left.shoppers THEN [page EXCEPT ![p] = AskLoad(@)] ELSE page
  /\ overlay' = IF e = "powerup" /\ Checks(p) THEN [overlay EXCEPT ![p] = Check(@)] ELSE overlay
  /\ UNCHANGED <<catalogue, engine, requests, left>>

\* Every 15 seconds, of a tab that is seen; and when the countdown reaches zero.
Heartbeat(p) ==
  /\ Checks(p) /\ ~overlay[p].hidden /\ Check(overlay[p]) # overlay[p]
  /\ overlay' = [overlay EXCEPT ![p] = Check(@)]
  /\ UNCHANGED <<catalogue, engine, requests, page, news, left>>

ReachedZero(p) ==
  /\ Checks(p) /\ Shown(p) /\ Current(p) <= now /\ Check(overlay[p]) # overlay[p]
  /\ overlay' = [overlay EXCEPT ![p] = Check(@)]
  /\ UNCHANGED <<catalogue, engine, requests, page, news, left>>

CheckServed(p) ==
  /\ overlay[p].checking = "sent"
  /\ overlay' = [overlay EXCEPT ![p].checking = "answered", ![p].answer = FreeAt(p)]
  /\ UNCHANGED <<catalogue, engine, requests, page, news, left>>

CheckAnswered(p) ==
  /\ overlay[p].checking = "answered"
  /\ overlay' = [overlay EXCEPT ![p].checking = "none", ![p].live = overlay[p].answer, ![p].answer = None]
  /\ UNCHANGED <<catalogue, engine, requests, page, news, left>>

\* Mutant: a check that failed is never over.
FailedCheck(o) == [o EXCEPT !.checking = "stuck", !.answer = None]

\* A failed check never clears the screen.
CheckOver(o) == [o EXCEPT !.checking = "none", !.answer = None]

CheckFailed(p) ==
  /\ overlay[p].checking \in {"sent", "answered"} /\ Fault("check")
  /\ overlay' = [overlay EXCEPT ![p] = CheckOver(@)]
  /\ UNCHANGED <<catalogue, engine, requests, page, news>>

Hide(p) ==
  /\ Checks(p) /\ ~overlay[p].hidden /\ Spend("hides")
  /\ overlay' = [overlay EXCEPT ![p].hidden = TRUE]
  /\ UNCHANGED <<catalogue, engine, requests, page, news>>

Show(p) ==
  /\ overlay[p].hidden /\ overlay' = [overlay EXCEPT ![p].hidden = FALSE]
  /\ UNCHANGED <<catalogue, engine, requests, page, news, left>>

\* A refresh: the page's own state says whether they are blacked out.
Refresh(p) ==
  /\ Checks(p) /\ Spend("refreshes")
  /\ overlay' = [overlay EXCEPT ![p] = [live |-> FreeAt(p), checking |-> "none", answer |-> None, hidden |-> FALSE]]
  /\ UNCHANGED <<catalogue, engine, requests, page, news>>

-----------------------------------------------------------------------------
(* The organisers.                                                          *)

Everybody(e) == [p \in People |-> news[p] \cup {e}]

Organised == UNCHANGED <<engine, requests, page, overlay>>
Organiser(o) ==
  \/ /\ \E of \in Kinds \cup {"rules"} : left.edits > 0 /\ OpenForm(o, of)
     /\ Organised /\ UNCHANGED <<news, left>>
  \/ (TypedRow(o) \/ TypedNumber(o)) /\ Spend("edits") /\ Organised /\ UNCHANGED news
  \/ Discard(o) /\ Organised /\ UNCHANGED <<news, left>>
  \/ (Save(o) \/ SaveNumbers(o) \/ PutOnSale(o) \/ Flip(o)) /\ Spend("saves") /\ Organised /\ UNCHANGED news
  \/ SaveAnswered(o) /\ Organised /\ UNCHANGED <<news, left>>

\* A contest setting is announced; a powerup's row is not.
OrganiserServed(o) ==
  /\ \/ SaveServed(o, FALSE) /\ UNCHANGED left
     \/ SaveServed(o, TRUE) /\ Fault("lost")
  /\ news' = IF form[o].of = "rules" THEN Everybody("phase") ELSE news
  /\ Organised

\* The phase moves on, the marketplace is opened or closed, somebody is disqualified.
ContestMoves ==
  /\ Spend("moves")
  /\ \/ /\ \/ contest' = [contest EXCEPT !.open = ~@]
           \/ /\ contest.phase # "ended"
              /\ contest' = [contest EXCEPT !.phase =
                   CASE @ = "p1_hacking" -> "coding1" [] @ = "coding1" -> "auction2" [] OTHER -> "ended"]
        /\ news' = Everybody("phase")
     \/ \E p \in People \ contest.out :
          contest' = [contest EXCEPT !.out = @ \cup {p}] /\ UNCHANGED news
  /\ UNCHANGED <<catalogue, now, coins, holder, dark, rest, log, scan, requests, page, overlay>>

Tick ==
  /\ Spend("ticks") /\ now' = now + 1
  /\ UNCHANGED <<catalogue, contest, coins, holder, dark, rest, log, scan, web>>

-----------------------------------------------------------------------------
(* The organisers' record of a participant, from the events and the shields. *)

PurchasesOf(events, p) == {i \in DOMAIN events : events[i].act = "buy" /\ events[i].actor = p}

\* reduce: what each of them cost, added up in order.
Total(events, S) ==
  LET upTo[n \in 0..Len(events)] == IF n = 0 THEN 0 ELSE upTo[n - 1] + (IF n \in S THEN events[n].cost ELSE 0) IN
  upTo[Len(events)]

UsedBy(p) == {i \in DOMAIN log : log[i].actor = p /\ log[i].act # "buy"}
Received(p, act) == {i \in DOMAIN log : log[i].target = p /\ log[i].act = act}

ShieldSummary(row) ==
  IF row.absorbed THEN "absorbed an attack"
  ELSE IF StillUp(row) THEN "up now"
  ELSE "ran out unattacked"

\* Everything held at the start was bought before it, with coins that were there.
Earlier == [act : {"buy"}, kind : Kinds, actor : People, target : {None}, cost : Nat, id : Int, at : {0}]

ASSUME MarketAssumption ==
  /\ Purse \in Nat /\ MaxLoads \in Nat \ {0} /\ None \notin People
  /\ \A b \in Budgets :
       /\ b.left.shoppers \subseteq People /\ b.left.watchers \subseteq People
       /\ {"buy", "use"} \subseteq DOMAIN b.left /\ {b.left.buy, b.left.use} \subseteq Nat
       /\ b.phase \in PhaseNames /\ IsRow("rules", b.rules)
       /\ DOMAIN b.items = Kinds /\ \A k \in Kinds : IsRow(k, b.items[k])
       /\ LastsWell("blackout", b.items["blackout"].seconds)
       /\ b.log \in Seq(Earlier)
       /\ \A i, j \in DOMAIN b.log : b.log[i].actor = b.log[j].actor /\ b.log[i].id = b.log[j].id => i = j
       /\ \A p \in People : Total(b.log, PurchasesOf(b.log, p)) <= Purse

StartsFrom(b) ==
  /\ left = b.left
  /\ CatalogueInit(b.items, b.rules)
  /\ contest = [phase |-> b.phase, open |-> TRUE, out |-> {}]
  /\ now = 0 /\ log = b.log /\ scan = {} /\ requests = {}
  /\ coins = [p \in People |-> Purse - Total(b.log, PurchasesOf(b.log, p))]
  /\ LET count == [p \in People |-> [k \in Kinds |-> Cardinality({i \in PurchasesOf(b.log, p) : b.log[i].kind = k})]] IN
     holder = [p \in People |-> Settle([held |-> count[p], bought |-> count[p], rows |-> << >>])]
  /\ dark = [p \in People |-> << >>] /\ rest = [p \in People |-> << >>]
  /\ news = [p \in People |-> {}]
  /\ page = [p \in People |-> [view |-> None, busy |-> None, aiming |-> FALSE,
                                loads |-> IF p \in b.left.shoppers THEN <<None>> ELSE << >>]]
  /\ overlay = [p \in People |-> [live |-> None, checking |-> "none", answer |-> None, hidden |-> FALSE]]

Init == \E b \in Budgets : StartsFrom(b)

Checking(p) == Heartbeat(p) \/ CheckServed(p) \/ CheckAnswered(p)

\* What goes on by itself: the scheduler, the requests, the events; a hidden tab is looked at again.
Going ==
  \/ TickScans
  \/ \E p \in People :
       \/ TickSettles(p) \/ Show(p)
       \/ \E i \in DOMAIN page[p].loads : LoadServed(p, i) \/ LoadAnswered(p, i)
       \/ \E e \in news[p] : Hear(p, e)
  \/ \E r \in requests : Served(r) \/ Replied(r)

Choice(p) ==
  \/ \E k \in Kinds : PressBuy(p, k)
  \/ PressUse(p) \/ \E t \in People : PressTarget(p, t)
  \/ Hide(p) \/ Refresh(p)

Next ==
  \/ Going \/ Tick \/ ContestMoves
  \/ \E p \in People :
       \/ Choice(p) \/ Checking(p) \/ ReachedZero(p) \/ CheckFailed(p)
       \/ \E i \in DOMAIN page[p].loads : LoadFailed(p, i)
  \/ \E r \in requests : NeverReaches(r)
  \/ \E o \in Organisers : Organiser(o) \/ OrganiserServed(o)

Spec == Init /\ [][Next]_vars

\* What goes on by itself goes on: none of it can be repeated for ever, but for the checks.
\* Nobody has to click, and time and the organisers do as they please.
FairSpec == Spec /\ WF_vars(Going) /\ \A p \in People : WF_vars(Checking(p))

-----------------------------------------------------------------------------
(* Properties.                                                              *)

\* Nobody holds, owes or has spent what cannot be.
TypeOK ==
  /\ \A p \in People :
       /\ coins[p] \in 0..Purse
       /\ \A k \in Kinds : holder[p].held[k] \in 0..holder[p].bought[k]
       /\ page[p].busy \in Kinds \cup {None}
  /\ \A o \in Organisers : form[o].of \in Kinds \cup {None, "rules"}
  /\ contest.phase \in PhaseNames /\ scan \subseteq People

\* The organisers' record of a participant explains what they hold: every coin gone is a
\* purchase of one click, every powerup gone was used or started, every attack that landed is
\* a blackout and every one absorbed a shield, whatever was lost or sent twice.
RecordExplains ==
  \A p \in People :
    LET bought == PurchasesOf(log, p) IN
    /\ \A i, j \in bought \cup UsedBy(p) : log[i].id = log[j].id => i = j
    /\ coins[p] = Purse - Total(log, bought)
    /\ \A k \in Kinds : holder[p].bought[k] = Cardinality({i \in bought : log[i].kind = k})
    /\ holder[p].held["blackout"] + Cardinality(UsedBy(p)) = holder[p].bought["blackout"]
    /\ holder[p].held["shield"] + Len(holder[p].rows) = holder[p].bought["shield"]
    /\ Len(dark[p]) = Cardinality(Received(p, "use"))
    /\ Cardinality({i \in DOMAIN holder[p].rows : ShieldSummary(holder[p].rows[i]) = "absorbed an attack"})
         = Cardinality(Received(p, "blocked"))

\* A shield that is up, or that waits and could be, takes the blackout: there is no moment
\* between two shields in which one lands.
ShieldTakesIt ==
  [][\A p \in People :
       Len(dark'[p]) > Len(dark[p]) =>
         /\ ~UpOf(holder[p])
         /\ holder[p].held["shield"] > 0 => ~LastsWell("shield", item["shield"].seconds)]_vars

\* A purchase, an attack and the scheduler never put up two shields at once: each starts
\* when the one before it was spent or over.
OneShieldAtATime ==
  \A p \in People : \A i \in 1..(Len(holder[p].rows) - 1) :
    LET row == holder[p].rows[i] IN
    row.absorbed \/ (row.ends # None /\ row.ends <= holder[p].rows[i + 1].from)

\* Blackouts stack end to end: none runs beside another, and nobody is let go between two.
BlackoutsStack ==
  \A p \in People :
    /\ \A i \in 1..(Len(dark[p]) - 1) : dark[p][i].to <= dark[p][i + 1].from
    /\ Running(dark[p]) # {} => \E i \in DOMAIN dark[p] : dark[p][i].from <= now /\ now < dark[p][i].to

\* Nobody is attacked in a break; the attack that reaches the cap starts one; and each of
\* theirs is twice as long as the one before, where the pause is not edited.
HuntedGetPeace ==
  [][\A p \in People :
       (Len(log') > Len(log) /\ log'[Len(log')].target = p) =>
         /\ ~OnBreak(p)
         /\ (rule.cap > 0 /\ log'[Len(log')].act \in Counted /\ Cardinality(Since(p)) >= rule.cap - 1)
              => Len(rest'[p]) = Len(rest[p]) + 1
         /\ \A i \in 1..(Len(rest'[p]) - 1) :
              (i = Len(rest[p]) /\ rest'[p][i + 1].ends # None)
              => rest'[p][i + 1].ends - rest'[p][i + 1].from >= 2 * (rest[p][i].ends - rest[p][i].from)]_vars

\* What the storefront offers is what the engine accepts, but for using a powerup after
\* being disqualified.
ButtonsAgree ==
  \A p \in People :
    /\ \A k \in Kinds : k \in Storefront(p).buy <=> ~BuyRefused(p, k)
    /\ p \notin contest.out =>
         \A t \in People \ {p} : (Storefront(p).use /\ t \notin Storefront(p).off) <=> ~UseRefused(p, t)

\* Whoever is blacked out loses the screen, whatever check failed or event was missed, and
\* gets it back when it is over.
ScreenFollows ==
  (\E p \in left.watchers : Shown(p) # BlackedOut(p)) ~> (\A p \in left.watchers : Shown(p) = BlackedOut(p))

Waits(p) == holder[p].held["shield"] > 0 /\ ~UpOf(holder[p])

\* A shield that waits while none is up is started by the scheduler, with nobody there.
WaitingShieldStarts == (\E p \in People : Waits(p)) ~> (\A p \in People : ~Waits(p))

\* Shields come one at a time, blackouts end to end; pages offer what the engine takes, and
\* organisers keep each other's edits.
MarketInv == TypeOK /\ OneShieldAtATime /\ BlackoutsStack /\ ButtonsAgree /\ EditsSurvive

\* An attack meets what its target is entitled to: a shield, or a break.
AttacksAsRuled == ShieldTakesIt /\ HuntedGetPeace

\* What is to begin or end with time does, on the screens and in the rows.
TimesKept == ScreenFollows /\ WaitingShieldStarts
=============================================================================
