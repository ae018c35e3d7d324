------------------------------ MODULE DeskProofs ------------------------------
(***************************************************************************)
(* What holds of the organisers' desk, the competitors' seats and the      *)
(* shelf of problem versions, for any number of people and organisers and  *)
(* whatever is spent of each.                                              *)
(***************************************************************************)
EXTENDS Desk, FiniteSetTheorems, SequenceTheorems, TLAPS

-----------------------------------------------------------------------------
(* What is inductive.                                                       *)

PhaseNames == Range(Phases)
Late(phase) == InPhase2(phase) \/ phase = "ended"

\* What is left of a budget.
LeftInv ==
  /\ left \in [phase : PhaseNames, held : BOOLEAN, people : SUBSET People, through : SUBSET People,
               seated : SUBSET People, organisers : SUBSET Organisers, versions : Nat, may : [Ops -> Nat]]

\* The contest row; a round has its end, and registration none.
ContestRow ==
  /\ contest = [f \in {"phase", "ends", "reg", "stocked", "set"} |-> contest[f]]
  /\ contest.phase \in PhaseNames /\ contest.set \in Settings
  /\ now \in Nat /\ contest.ends \in {None} \cup Nat
  /\ contest.phase = "registration" => contest.ends = None

\* Participants' rows.
AccountFields == {"in", "alerts", "rows", "locked", "out", "advanced", "granted", "spent"}
AccountShape(a) == a = [f \in AccountFields |-> a[f]] /\ (~a.in => a = Stranger)
AccountFlags(a) == a.in \in BOOLEAN /\ a.locked \in BOOLEAN /\ a.out \in BOOLEAN /\ a.advanced \in BOOLEAN
AccountNumbers(a) ==
  /\ a.alerts \in Nat /\ a.rows \in Nat /\ a.granted \in Int /\ a.spent \in Int
  /\ a.alerts <= a.rows /\ a.granted - a.spent >= 0
AccountOK(a) == AccountShape(a) /\ AccountFlags(a) /\ AccountNumbers(a)
AccountsInv == DOMAIN account = People /\ \A p \in People : AccountOK(account[p])

\* Whoever has a page has an account.
HereInv == DOMAIN tab = People /\ \A p \in People : tab[p] # None => account[p].in

\* What organisers ask for, and what the engine has made of it.
DialogOps == {"advance", "extend", "registration", "unlock", "requalify", "disqualify", "remove", "create",
              "select", "announce", "reset", "setup"}
PersonOps == {"create", "unlock", "disqualify", "requalify", "remove"}
RequestOK(r) ==
  /\ r = [f \in {"op", "arg", "at", "paid", "amount"} |-> r[f]]
  /\ r.op \in DialogOps \cup {"save"}
  /\ r.op = "save" => r.arg \in Settings
  /\ r.op = "setup" => r.arg \in Setups
  /\ r.op \in PersonOps => r.arg \in People
  /\ r.op = "advance" /\ r.at = "checked" => r.arg \in PhaseNames \ {"ended"}
  /\ r.op = "select" /\ r.at = "checked" => r.amount \in Nat
RequestsInv == DOMAIN request = Organisers /\ \A o \in Organisers : request[o] # None => RequestOK(request[o])

DeskOK(d) ==
  /\ d = [f \in {"view", "people", "chosen", "form", "dialog"} |-> d[f]]
  /\ d.form # None => d.form = [c |-> d.form.c, orig |-> d.form.orig] /\ d.form.c \in Settings /\ d.form.orig \in Settings
  /\ d.dialog # None => /\ d.dialog.op \in DialogOps
                        /\ d.dialog.op = "setup" => d.dialog.arg \in Setups
                        /\ d.dialog.op \in PersonOps => d.dialog.arg \in People
DesksInv == DOMAIN desk = Organisers /\ \A o \in Organisers : DeskOK(desk[o])

\* The phases that were begun were announced.
Words == PhaseNames \cup {"word", "more time"}
SaidInv == said \in Seq(Words) /\ AnnouncedInOrder

EngineInv == LeftInv /\ ContestRow /\ AccountsInv /\ HereInv /\ RequestsInv /\ DesksInv /\ SaidInv

\* Versions on the volume.
VersionOK(v) == v = [f \in {"full", "ok", "record"} |-> v[f]]
VolumeInv ==
  /\ volume = [versions |-> volume.versions, current |-> volume.current]
  /\ volume.versions = [i \in 1..Latest |-> volume.versions[i]] /\ Latest \in Nat
  /\ \A i \in 1..Latest : VersionOK(volume.versions[i])
  /\ volume.current \in 0..Latest

\* Requests about a version name one there is; an upload in the middle, one that is empty.
TaskOK(t) ==
  /\ t = [f \in {"op", "at", "version", "confirmed", "ok", "arg"} |-> t[f]]
  /\ t.confirmed \in Nat
  /\ t.at = "numbered" => t.version \in 1..(Latest + 1)
  /\ t.at \in {"claimed", "filled", "described", "proven", "recorded", "swapped", "committed"} => t.version \in 1..Latest
  /\ t.op \in {"publish", "validate"} /\ t.at = "sent" => t.version \in 1..Latest
  /\ t.at = "claimed" => ~volume.versions[t.version].full
  /\ t.at = "swapped" => t.op \in Publishers /\ t.version = volume.current
  /\ t.at = "committed" => t.op \in Publishers
TasksInv == DOMAIN task = Organisers /\ \A o \in Organisers : task[o] # None => TaskOK(task[o])

\* Nobody fills a directory another upload has made, and one publish holds the lock.
Alone(at) == \A o, q \in Organisers :
  task[o] # None /\ task[q] # None /\ task[o].at = at /\ task[q].at = at => 
    o = q \/ (at = "claimed" /\ task[o].version # task[q].version)
ClaimsInv == Alone("claimed") /\ Alone("swapped")

\* A page shows what was there.
ShopOK(s) ==
  /\ s = [f \in {"seen", "blast", "form", "list"} |-> s[f]] /\ s.blast \in Nat
  /\ s.seen # None => /\ s.seen.versions \in 0..Latest
                      /\ s.seen.current # 0 => volume.current # 0
ShopsInv == DOMAIN shop = Organisers /\ \A o \in Organisers : ShopOK(shop[o])

\* Unless a publish is between its two writes, the row names the live version.
Swapping == \E o \in Organisers : task[o] # None /\ task[o].at = "swapped"
RowInv ==
  question # None => /\ question = [f \in {"version", "validated", "order"} |-> question[f]]
                     /\ ~Swapping => question.version \in {0, volume.current}

\* A publish that found something to rejudge is on its way to do it.
Rejudging == \E o \in Organisers : task[o] # None /\ task[o].at \in {"swapped", "committed"} /\ task[o].confirmed > 0
SubsInv ==
  /\ subs \in Seq(Nat) /\ \A i \in 1..Len(subs) : subs[i] \in 0..Latest
  /\ subs # << >> => Late(contest.phase)
  /\ ~Rejudging => \A i \in 1..Len(subs) : subs[i] \in {0, volume.current}

ShelfInductive == VolumeInv /\ TasksInv /\ ClaimsInv /\ ShopsInv /\ RowInv /\ SubsInv

\* A competitor's page.
Snapshot == [phase : PhaseNames, board : {"live", "hidden"}]
PageState == [contest : Snapshot, me : [enabled : BOOLEAN, locked : BOOLEAN, out : BOOLEAN, advanced : BOOLEAN]]
News == [name : {"phase"}, snapshot : Snapshot] \cup [name : {"announce", "notify", "proctor"}]
Post == [id : Nat, lone : BOOLEAN, answer : {None} \cup BOOLEAN]
TabFields == {"state", "reported", "locked", "watching", "screen", "reading", "fetched", "again", "away", "slips",
              "resuming", "posts", "news"}
\* Whatever it is told, a page is one that reads once more only while it reads.
PageShape(t) ==
  /\ t = [f \in TabFields |-> t[f]]
  /\ t.state \in PageState /\ (t.fetched # None => t.fetched \in PageState)
  /\ t.watching \in BOOLEAN /\ t.resuming \in BOOLEAN
  /\ t.screen \in {"gate", "ok", "alert", "locked"}
  /\ t.again => t.reading
  /\ IsFiniteSet(t.posts) /\ t.posts \subseteq Post
  /\ t.news \in Seq(News)
\* A page watches while a round is enforced; who left is being reported, full screen or none.
Watched(t) ==
  /\ t.watching = Enforced(t)
  /\ ~t.watching => t.slips = {} /\ t.screen # "ok" /\ ~t.resuming
  /\ t.slips \subseteq t.away
  /\ t.resuming => "fullscreen" \in t.away \ t.slips
  /\ t.screen = "ok" => Held(t) \/ t.slips # {}
\* What was counted, and what is to be, was slipped.
Unserved(t) == {q \in t.posts : q.answer = None}
Owed(t) == Cardinality(Unserved(t)) + (IF t.slips # {} /\ t.screen = "ok" THEN 1 ELSE 0)
CountedOnce(p) == account[p].rows + (IF tab[p] = None THEN 0 ELSE Owed(tab[p])) <= slipped[p]

Prompt == left.may["slow"] = 0 /\ \A p \in People : tab[p] # None => ~tab[p].resuming

Same(s, p) == /\ s.contest.phase = contest.phase
              /\ s.me.enabled = contest.set.proctoring
              /\ s.me.out = account[p].out
NewsOf(phase) == {e \in News : e.name = "phase" => e.snapshot.phase = phase}
Still ==
  /\ \A op \in {"advance", "save", "disqualify", "requalify"} :
       left.may[op] = 0 /\ \A o \in Organisers : request[o] # None => request[o].op # op
  /\ \A p \in People : tab[p] # None =>
       /\ Same(tab[p].state, p)
       /\ tab[p].fetched # None => Same(tab[p].fetched, p)
       /\ tab[p].news \in Seq(NewsOf(contest.phase))

SeatInductive ==
  /\ slipped \in [People -> Nat]
  /\ \A p \in People : tab[p] # None => PageShape(tab[p]) /\ Watched(tab[p])
  /\ \A p \in People : CountedOnce(p)
  /\ Prompt \/ Still

Start == Defaults.start
FormStarts(f) == f # None => f.c.start = Start /\ f.orig.start = Start
StartInv ==
  /\ contest.set.start = Start
  /\ \A o \in Organisers : FormStarts(desk[o].form)
  /\ \A o \in Organisers : request[o] # None /\ request[o].op = "save" => request[o].arg.start = Start
GrantOK(a) == a.granted \in {0, Start} /\ (a.advanced => a.granted = Start)
GrantedInv == \A p \in People : GrantOK(account[p])
\* A selection that has read who is paid is of people who are, or are not, as it read.
Selecting(o) == request[o] # None /\ request[o].op = "select" /\ request[o].at \in {"sent", "checked"}
ChoiceOK(r) ==
  /\ r.arg \subseteq Registered
  /\ r.at = "checked" => /\ r.amount = Start /\ r.paid \subseteq Registered
                         /\ \A p \in Registered : /\ p \in r.paid => account[p].granted = Start
                                                  /\ p \in r.arg \ r.paid => account[p].granted = 0
NobodySelects == left.may["select"] = 0 /\ \A o \in Organisers : ~Selecting(o)
\* Nobody leaves, and the next selection waits for the one there is.
NobodyLeaves ==
  /\ left.may["reset"] = 0 /\ left.may["remove"] = 0
  /\ \A o \in Organisers : request[o] # None => request[o].op \notin {"reset", "remove"}
OneAtATime ==
  /\ \A o \in Organisers : Selecting(o) => o \in left.organisers
  /\ \/ \E o \in Organisers : left.organisers = {o}
     \/ left.may["select"] <= 1 /\ (left.may["select"] = 1 => \A o \in Organisers : ~Selecting(o))
  /\ \A o, q \in Organisers : Selecting(o) /\ Selecting(q) => o = q
AsksWho(o) == desk[o].dialog # None /\ desk[o].dialog.op = "select"
ChoicesInv ==
  /\ \A o \in Organisers : desk[o].chosen # None \/ AsksWho(o) => desk[o].chosen \subseteq Registered
  /\ \A o \in Organisers : Selecting(o) => ChoiceOK(request[o])
SelectsAlone == NobodySelects \/ (NobodyLeaves /\ OneAtATime /\ ChoicesInv)
PaidInductive == StartInv /\ GrantedInv /\ SelectsAlone
-----------------------------------------------------------------------------
(* The phases.                                                              *)

LEMMA PhaseNamesAre ==
  /\ PhaseNames = {"registration", "p1_puzzles", "p1_hacking", "review", "auction1", "coding1", "auction2", "final", "ended"}
  /\ Len(Phases) = 9 /\ DOMAIN Phases = 1..9
  /\ \A i, j \in 1..9 : Phases[i] = Phases[j] => i = j
<1>1. Len(Phases) = 9 /\ DOMAIN Phases = 1..9
  BY DEF Phases
<1>2. PhaseNames = {Phases[i] : i \in 1..9}
  BY <1>1 DEF PhaseNames, Range
<1>3. {Phases[i] : i \in 1..9} = {"registration", "p1_puzzles", "p1_hacking", "review", "auction1", "coding1", "auction2", "final", "ended"}
  <2>1. 1..9 = {1, 2, 3, 4, 5, 6, 7, 8, 9}
    OBVIOUS
  <2>2. {Phases[i] : i \in 1..9} = {Phases[1], Phases[2], Phases[3], Phases[4], Phases[5], Phases[6], Phases[7], Phases[8], Phases[9]}
    BY <2>1
  <2> QED BY <2>2 DEF Phases
<1>4. \A i, j \in 1..9 : Phases[i] = Phases[j] => i = j
  BY DEF Phases
<1> QED BY <1>1, <1>2, <1>3, <1>4

LEMMA PhaseAt ==
  ASSUME NEW i \in 1..9
  PROVE  At(Phases[i]) = i /\ Phases[i] \in PhaseNames
<1>1. At(Phases[i]) \in 1..9 /\ Phases[At(Phases[i])] = Phases[i]
  BY PhaseNamesAre DEF At
<1>2. Phases[i] \in PhaseNames
  BY PhaseNamesAre DEF PhaseNames, Range
<1> QED BY <1>1, <1>2, PhaseNamesAre

LEMMA PhaseIs ==
  ASSUME NEW phase \in PhaseNames
  PROVE  At(phase) \in 1..9 /\ Phases[At(phase)] = phase
BY PhaseNamesAre, PhaseAt DEF PhaseNames, Range

\* The contest moves on to the next phase, and never back out of Phase 2.
LEMMA NextPhaseIs ==
  ASSUME NEW phase \in PhaseNames \ {"ended"}
  PROVE  /\ NextPhase(phase) \in PhaseNames \ {"registration"}
         /\ At(NextPhase(phase)) = At(phase) + 1
         /\ At(phase) \in 1..8
         /\ NextPhase(phase) # phase
         /\ Late(phase) => Late(NextPhase(phase))
<1>1. At(phase) \in 1..9 /\ Phases[At(phase)] = phase
  BY PhaseIs
<1>2. Phases[9] = "ended" /\ Phases[1] = "registration"
  BY DEF Phases
<1>3. At(phase) \in 1..8
  BY <1>1, <1>2
<1>4. At(NextPhase(phase)) = At(phase) + 1 /\ NextPhase(phase) \in PhaseNames
  BY <1>3, PhaseAt DEF NextPhase
<1>5. NextPhase(phase) # phase
  BY <1>4, <1>3
<1>6. NextPhase(phase) # "registration"
  <2>1. At(Phases[1]) = 1
    BY PhaseAt
  <2> QED BY <2>1, <1>2, <1>3, <1>4
<1>7. ASSUME Late(phase)
      PROVE  Late(NextPhase(phase))
  <2>1. phase \in {Phases[5], Phases[6], Phases[7], Phases[8]}
    BY <1>7 DEF Late, InPhase2, Phases
  <2>2. At(phase) \in 5..8
    BY <2>1, PhaseAt
  <2>3. NextPhase(phase) \in {Phases[6], Phases[7], Phases[8], Phases[9]}
    BY <2>2 DEF NextPhase
  <2> QED BY <2>3 DEF Late, InPhase2, Phases
<1> QED BY <1>3, <1>4, <1>5, <1>6, <1>7

-----------------------------------------------------------------------------
(* What is left.                                                            *)

\* Spending takes of one thing, and only what there is.
LEMMA SpendIs ==
  ASSUME LeftInv, NEW op, Spend(op)
  PROVE  /\ LeftInv'
         /\ \A x \in Ops : left.may[x] = 0 => left'.may[x] = 0
         /\ \A x \in Ops : left'.may[x] = left.may[x] \/ (x = op /\ left.may[x] > 0 /\ left'.may[x] = left.may[x] - 1)
         /\ left'.organisers = left.organisers
<1>1. left.may \in [Ops -> Nat] /\ left.may[op] > 0 /\ left' = [left EXCEPT !.may = [left.may EXCEPT ![op] = left.may[op] - 1]]
  BY DEF LeftInv, Spend, May
<1>2. [left.may EXCEPT ![op] = left.may[op] - 1] \in [Ops -> Nat]
  <2>1. CASE op \in Ops
    <3>1. left.may[op] - 1 \in Nat
      BY <1>1, <2>1
    <3> QED BY <1>1, <3>1
  <2>2. CASE op \notin Ops
    <3>1. [left.may EXCEPT ![op] = left.may[op] - 1] = left.may
      BY <1>1, <2>2
    <3> QED BY <1>1, <3>1
  <2> QED BY <2>1, <2>2
<1>3. /\ left'.may = [left.may EXCEPT ![op] = left.may[op] - 1]
      /\ left'.organisers = left.organisers
  BY <1>1 DEF LeftInv
<1>4. LeftInv'
  BY <1>1, <1>2 DEF LeftInv
<1> QED BY <1>1, <1>3, <1>4
-----------------------------------------------------------------------------
(* The engine serves what organisers ask.                                   *)

\* A request that was answered, one way or the other, asks for nothing more.
LEMMA RequestMovesOn ==
  ASSUME RequestsInv, NEW o \in Organisers, request[o] # None, NEW at, at \notin {"sent", "checked"},
         request' = [request EXCEPT ![o].at = at]
  PROVE  RequestsInv'
<1> DEFINE r == request[o]
           s == [r EXCEPT !.at = at]
<1>1. RequestOK(r)
  BY DEF RequestsInv
<1>2. /\ s = [f \in {"op", "arg", "at", "paid", "amount"} |-> s[f]]
      /\ s.at = at /\ s.op = r.op /\ s.arg = r.arg
  BY <1>1 DEF RequestOK
<1>3. request' = [request EXCEPT ![o] = s]
  OBVIOUS
<1> HIDE DEF s
<1>4. RequestOK(s)
  BY <1>1, <1>2 DEF RequestOK
<1> QED BY <1>3, <1>4 DEF RequestsInv

LEMMA FailsIs ==
  ASSUME RequestsInv, NEW o \in Organisers, request[o] # None, Fails(o)
  PROVE  RequestsInv'
<1>1. request' = [request EXCEPT ![o].at = "failed"] /\ "failed" \notin {"sent", "checked"}
  BY DEF Fails
<1> QED BY <1>1, RequestMovesOn, Zenon

LEMMA CommitsIs ==
  ASSUME RequestsInv, NEW o \in Organisers, request[o] # None, Commits(o)
  PROVE  RequestsInv'
<1>1. request' = [request EXCEPT ![o].at = "committed"] /\ "committed" \notin {"sent", "checked"}
  BY DEF Commits
<1> QED BY <1>1, RequestMovesOn, Zenon

LEMMA AdvanceChecksIs ==
  ASSUME ContestRow, RequestsInv, NEW o \in Organisers, request[o] # None, AdvanceChecks(o)
  PROVE  RequestsInv'
<1> DEFINE r == request[o]
           at == IF Blocked THEN "failed" ELSE "checked"
           s == [r EXCEPT !.at = at, !.arg = contest.phase]
<1>1. RequestOK(r) /\ r.op = "advance"
  BY DEF RequestsInv, AdvanceChecks
<1>2. /\ s = [f \in {"op", "arg", "at", "paid", "amount"} |-> s[f]]
      /\ s.at = at /\ s.op = r.op /\ s.arg = contest.phase
  BY <1>1 DEF RequestOK
<1>3. request' = [request EXCEPT ![o] = s]
  BY DEF AdvanceChecks
<1>4. at = "checked" => contest.phase # "ended"
  BY DEF Blocked
<1>5. contest.phase \in PhaseNames /\ at # "sent"
  BY DEF ContestRow
<1> HIDE DEF s, at
<1>6. RequestOK(s)
  BY <1>1, <1>2, <1>4, <1>5 DEF RequestOK, PersonOps
<1> QED BY <1>3, <1>6 DEF RequestsInv

LEMMA SelectReadsIs ==
  ASSUME ContestRow, RequestsInv, NEW o \in Organisers, request[o] # None, SelectReads(o)
  PROVE  RequestsInv'
<1> DEFINE r == request[o]
           s == [r EXCEPT !.at = "checked", !.paid = Paid, !.amount = contest.set.start]
<1>1. RequestOK(r) /\ r.op = "select"
  BY DEF RequestsInv, SelectReads
<1>2. /\ s = [f \in {"op", "arg", "at", "paid", "amount"} |-> s[f]]
      /\ s.at = "checked" /\ s.op = r.op /\ s.arg = r.arg /\ s.amount = contest.set.start
  BY <1>1 DEF RequestOK
<1>3. request' = [request EXCEPT ![o] = s]
  BY DEF SelectReads
<1>5. contest.set.start \in Nat
  BY DEF ContestRow, Settings
<1> HIDE DEF s
<1>6. RequestOK(s)
  BY <1>1, <1>2, <1>5 DEF RequestOK
<1> QED BY <1>3, <1>6 DEF RequestsInv

\* What of the contest row a step leaves as it is.
LEMMA ContestKeeps ==
  ASSUME ContestRow, NEW ends \in {None} \cup Nat, contest.phase # "registration",
         contest' = [contest EXCEPT !.ends = ends], now' = now
  PROVE  ContestRow'
BY DEF ContestRow

\* A phase is begun: it is announced, and it is the one after that of before.
LEMMA PhaseBegins ==
  ASSUME ContestRow, SaidInv, contest.phase # "ended", NEW ends, ends = Deadline(NextPhase(contest.phase)),
         contest' = [contest EXCEPT !.phase = NextPhase(contest.phase), !.ends = ends],
         said' = Append(said, NextPhase(contest.phase)), now' = now, DeskAssumption
  PROVE  ContestRow' /\ SaidInv'
<1> DEFINE next == NextPhase(contest.phase)
           k == At(contest.phase)
<1>1. /\ next \in PhaseNames \ {"registration"} /\ At(next) = k + 1 /\ k \in 1..8
      /\ contest.phase \in PhaseNames
  BY NextPhaseIs DEF ContestRow
<1>2. ends \in {None} \cup Nat
  BY DEF Deadline, DeskAssumption, ContestRow
<1>3. contest'.phase = next
  BY DEF ContestRow
<1>4. ContestRow'
  BY <1>1, <1>2 DEF ContestRow
<1>5. said' \in Seq(Words) /\ Len(said') = Len(said) + 1 /\ said'[Len(said) + 1] = next
      /\ \A i \in 1..Len(said) : said'[i] = said[i]
  <2>1. next \in Words /\ said \in Seq(Words)
    BY <1>1 DEF SaidInv, Words
  <2> HIDE DEF next
  <2> QED BY <2>1, AppendProperties DEF next
<1>6. Announced' = Announced \cup {Len(said) + 1}
  <2>1. DOMAIN said' = 1..(Len(said) + 1) /\ DOMAIN said = 1..Len(said) /\ Len(said) \in Nat
    BY <1>5 DEF SaidInv
  <2>2. next \in Range(Phases)
    BY <1>1 DEF PhaseNames
  <2> HIDE DEF next
  <2> QED BY <2>1, <2>2, <1>5 DEF Announced
<1>7. Announced \subseteq 1..Len(said) /\ Len(said) \in Nat
  BY DEF Announced, SaidInv
<1> HIDE DEF next, k
<1>8. {said'[i] : i \in Announced'} = {said[i] : i \in Announced} \cup {next}
  BY <1>5, <1>6, <1>7
<1>9. {said[i] : i \in Announced} = {Phases[j] : j \in 2..k}
  BY DEF SaidInv, AnnouncedInOrder, k
<1>10. Phases[k + 1] = next
  BY <1>1, PhaseIs
<1>11. {Phases[j] : j \in 2..(k + 1)} = {Phases[j] : j \in 2..k} \cup {next}
  BY <1>1, <1>10
<1>12. \A i, j \in Announced' : i < j => At(said'[i]) < At(said'[j])
  <2> SUFFICES ASSUME NEW i \in Announced', NEW j \in Announced', i < j
               PROVE  At(said'[i]) < At(said'[j])
    OBVIOUS
  <2>1. i \in Announced /\ said'[i] = said[i]
    BY <1>5, <1>6, <1>7
  <2>2. CASE j \in Announced
    <3>1. said'[j] = said[j]
      BY <2>2, <1>5, <1>7
    <3> QED BY <2>1, <2>2, <3>1 DEF SaidInv, AnnouncedInOrder
  <2>3. CASE j = Len(said) + 1
    <3>1. PICK m \in 2..k : said[i] = Phases[m]
      BY <2>1, <1>9
    <3>2. At(said[i]) = m
      BY <3>1, <1>1, PhaseAt
    <3> QED BY <3>1, <3>2, <2>1, <2>3, <1>1, <1>5
  <2> QED BY <2>2, <2>3, <1>6
<1>13. AnnouncedInOrder'
  BY <1>3, <1>8, <1>9, <1>11, <1>12, <1>1 DEF AnnouncedInOrder
<1> QED BY <1>4, <1>5, <1>13 DEF SaidInv

\* Words that name no phase change nothing of that.
LEMMA WordsAreNoPhases ==
  ASSUME SaidInv, NEW word \in Words \ PhaseNames, said' = Append(said, word), contest'.phase = contest.phase
  PROVE  SaidInv'
<1>5. said' \in Seq(Words) /\ Len(said') = Len(said) + 1 /\ said'[Len(said) + 1] = word
      /\ \A i \in 1..Len(said) : said'[i] = said[i]
  BY AppendProperties DEF SaidInv
<1>6. Announced' = Announced /\ Announced \subseteq 1..Len(said)
  <2>1. DOMAIN said' = 1..(Len(said) + 1) /\ DOMAIN said = 1..Len(said) /\ Len(said) \in Nat
    BY <1>5 DEF SaidInv
  <2>2. word \notin Range(Phases)
    BY DEF PhaseNames
  <2> QED BY <2>1, <2>2, <1>5 DEF Announced
<1>7. {said'[i] : i \in Announced'} = {said[i] : i \in Announced}
  BY <1>5, <1>6
<1>8. \A i, j \in Announced' : i < j => At(said'[i]) < At(said'[j])
  <2> SUFFICES ASSUME NEW i \in Announced, NEW j \in Announced, i < j
               PROVE  At(said'[i]) < At(said'[j])
    BY <1>6
  <2>1. said'[i] = said[i] /\ said'[j] = said[j]
    BY <1>5, <1>6
  <2> QED BY <2>1 DEF SaidInv, AnnouncedInOrder
<1> QED BY <1>5, <1>7, <1>8 DEF SaidInv, AnnouncedInOrder

LEMMA SaidStays ==
  ASSUME SaidInv, said' = said, contest'.phase = contest.phase
  PROVE  SaidInv'
BY DEF SaidInv, AnnouncedInOrder, Announced

LEMMA AdvanceServedIs ==
  ASSUME DeskAssumption, ContestRow, RequestsInv, SaidInv, NEW o \in Organisers, request[o] # None, AdvanceServed(o), now' = now
  PROVE  ContestRow' /\ RequestsInv' /\ SaidInv' /\ account' = account
<1>1. CASE Moved(o)
  <2>1. Fails(o)
    BY <1>1 DEF AdvanceServed
  <2>2. contest' = contest /\ said' = said /\ account' = account
    BY <2>1 DEF Fails, engine
  <2> QED BY <2>1, <2>2, FailsIs, SaidStays DEF ContestRow
<1>2. CASE ~Moved(o)
  <2>1. request[o].arg = contest.phase /\ RequestOK(request[o])
    BY <1>2 DEF Moved, RequestsInv
  <2>2. contest.phase # "ended"
    BY <2>1 DEF RequestOK, AdvanceServed
  <2>3. /\ contest' = [contest EXCEPT !.phase = NextPhase(contest.phase), !.ends = Deadline(NextPhase(contest.phase))]
        /\ said' = Append(said, NextPhase(contest.phase)) /\ Commits(o) /\ account' = account
    BY <1>2, <2>1 DEF AdvanceServed
  <2> QED BY <2>2, <2>3, PhaseBegins, CommitsIs
<1> QED BY <1>1, <1>2

LEMMA ExtendServedIs ==
  ASSUME DeskAssumption, ContestRow, RequestsInv, SaidInv, NEW o \in Organisers, request[o] # None, ExtendServed(o), now' = now
  PROVE  ContestRow' /\ RequestsInv' /\ SaidInv' /\ account' = account
<1>1. CASE contest.ends = None
  <2>1. Fails(o)
    BY <1>1 DEF ExtendServed
  <2>2. contest' = contest /\ said' = said /\ account' = account
    BY <2>1 DEF Fails, engine
  <2> QED BY <2>1, <2>2, FailsIs, SaidStays DEF ContestRow
<1>2. CASE contest.ends # None
  <2>1. /\ contest' = [contest EXCEPT !.ends = Extended(contest.ends)]
        /\ said' = Append(said, "more time") /\ Commits(o) /\ account' = account
    BY <1>2 DEF ExtendServed
  <2>2. Extended(contest.ends) \in Nat /\ contest.phase # "registration"
    BY <1>2 DEF Extended, ContestRow
  <2>3. "more time" \in Words \ PhaseNames
    BY PhaseNamesAre DEF Words
  <2>4. contest'.phase = contest.phase
    BY <2>1 DEF ContestRow
  <2> QED BY <2>1, <2>2, <2>3, <2>4, ContestKeeps, WordsAreNoPhases, CommitsIs
<1> QED BY <1>1, <1>2

LEMMA ContestPartKeeps ==
  ASSUME ContestRow, contest' = [contest EXCEPT !.reg = contest'.reg] \/ contest' = [contest EXCEPT !.stocked = contest'.stocked], now' = now
  PROVE  ContestRow' /\ contest'.phase = contest.phase /\ contest'.set = contest.set /\ contest'.ends = contest.ends
BY DEF ContestRow

LEMMA SettingsSaved ==
  ASSUME ContestRow, NEW set \in Settings, contest' = [contest EXCEPT !.set = set], now' = now
  PROVE  ContestRow' /\ contest'.phase = contest.phase /\ contest'.set = set /\ contest'.ends = contest.ends
BY DEF ContestRow

LEMMA RegistrationServedIs ==
  ASSUME ContestRow, RequestsInv, SaidInv, NEW o \in Organisers, request[o] # None, RegistrationServed(o), now' = now
  PROVE  ContestRow' /\ RequestsInv' /\ SaidInv' /\ account' = account
<1>1. contest' = [contest EXCEPT !.reg = request[o].arg] /\ Commits(o) /\ account' = account /\ said' = said
  BY DEF RegistrationServed
<1>2. contest'.reg = request[o].arg
  BY <1>1 DEF ContestRow
<1> QED BY <1>1, <1>2, ContestPartKeeps, CommitsIs, SaidStays

LEMMA AnnounceServedIs ==
  ASSUME ContestRow, RequestsInv, SaidInv, NEW o \in Organisers, request[o] # None, AnnounceServed(o), now' = now
  PROVE  ContestRow' /\ RequestsInv' /\ SaidInv' /\ account' = account
<1>1. said' = Append(said, "word") /\ Commits(o) /\ account' = account /\ contest' = contest
  BY DEF AnnounceServed
<1>2. "word" \in Words \ PhaseNames
  BY PhaseNamesAre DEF Words
<1> QED BY <1>1, <1>2, WordsAreNoPhases, CommitsIs DEF ContestRow

LEMMA SaveServedIs ==
  ASSUME ContestRow, RequestsInv, SaidInv, NEW o \in Organisers, request[o] # None, SaveServed(o), now' = now
  PROVE  ContestRow' /\ RequestsInv' /\ SaidInv' /\ account' = account
<1>1. CASE Fails(o)
  <2>2. contest' = contest /\ said' = said /\ account' = account
    BY <1>1 DEF Fails, engine
  <2> QED BY <1>1, <2>2, FailsIs, SaidStays DEF ContestRow
<1>2. CASE contest' = [contest EXCEPT !.set = request[o].arg] /\ Commits(o) /\ UNCHANGED <<account, said>>
  <2>1. request[o].arg \in Settings
    BY DEF SaveServed, RequestsInv, RequestOK
  <2> QED BY <1>2, <2>1, SettingsSaved, CommitsIs, SaidStays
<1> QED BY <1>1, <1>2 DEF SaveServed

-----------------------------------------------------------------------------
(* The rows of people.                                                      *)

\* b is a but for some fields; the row of p, and no other, is b.
Keeps(b, a, fields) == \A f \in AccountFields \ fields : b[f] = a[f]
Only(p, b) == \A q \in People : account'[q] = IF q = p THEN b ELSE account[q]

LEMMA StrangerIs ==
  AccountOK(Stranger) /\ ~Stranger.in /\ Stranger.granted = 0 /\ Stranger.advanced = FALSE /\ Stranger.rows = 0
    /\ Stranger.out = FALSE /\ Stranger.locked = FALSE
BY DEF AccountOK, AccountShape, AccountFlags, AccountNumbers, Stranger, AccountFields

LEMMA AccountChanges ==
  ASSUME AccountsInv, NEW p \in People, NEW b, AccountOK(b), account' = [account EXCEPT ![p] = b]
  PROVE  AccountsInv' /\ Only(p, b)
BY DEF AccountsInv, Only

\* Whoever comes in has what they are granted, and nothing else.
Entered(granted) == [Stranger EXCEPT !.in = TRUE, !.granted = granted]

LEMMA EnteredIs ==
  ASSUME NEW granted \in Nat
  PROVE  /\ AccountOK(Entered(granted)) /\ Entered(granted).in /\ Entered(granted).granted = granted
         /\ Entered(granted).advanced = FALSE /\ Entered(granted).rows = 0 /\ Entered(granted).out = FALSE
<1> DEFINE s == Stranger
           e == [s EXCEPT !.in = TRUE, !.granted = granted]
<1>1. /\ s = [f \in AccountFields |-> s[f]]
      /\ s.alerts = 0 /\ s.rows = 0 /\ s.locked = FALSE /\ s.out = FALSE /\ s.advanced = FALSE /\ s.spent = 0
  BY StrangerIs DEF AccountOK, AccountShape, Stranger
<1> HIDE DEF s
<1>2. /\ e = [f \in AccountFields |-> e[f]]
      /\ e.alerts = 0 /\ e.rows = 0 /\ e.locked = FALSE /\ e.out = FALSE /\ e.advanced = FALSE /\ e.spent = 0
      /\ e.in = TRUE /\ e.granted = granted
  BY <1>1 DEF AccountFields
<1>3. Entered(granted) = e
  BY DEF Entered, s
<1> HIDE DEF e
<1>4. AccountShape(e)
  BY <1>2 DEF AccountShape
<1>5. AccountFlags(e)
  BY <1>2 DEF AccountFlags
<1>6. AccountNumbers(e)
  BY <1>2 DEF AccountNumbers
<1> QED BY <1>2, <1>3, <1>4, <1>5, <1>6 DEF AccountOK

\* An account with some of its fields written.
LEMMA AccountWritten ==
  ASSUME NEW a, AccountOK(a), a.in, NEW b, b = [f \in AccountFields |-> b[f]], b.in = a.in,
         AccountFlags(b), AccountNumbers(b)
  PROVE  AccountOK(b)
BY DEF AccountOK, AccountShape

LEMMA LockedIsIn ==
  ASSUME NEW a, AccountOK(a), a.locked \/ a.out
  PROVE  a.in
BY StrangerIs DEF AccountOK, AccountShape

LEMMA UnlockedIs ==
  ASSUME NEW a, AccountOK(a), a.locked, NEW b, b = [a EXCEPT !.alerts = 0, !.locked = FALSE]
  PROVE  AccountOK(b) /\ Keeps(b, a, {"alerts", "locked"})
<1>1. /\ b = [f \in AccountFields |-> b[f]] /\ b.alerts = 0 /\ b.locked = FALSE
      /\ \A f \in AccountFields \ {"alerts", "locked"} : b[f] = a[f]
      /\ b.rows = a.rows /\ b.in = a.in /\ b.granted = a.granted /\ b.spent = a.spent /\ b.out = a.out /\ b.advanced = a.advanced
  BY DEF AccountOK, AccountShape, AccountFields
<1>2. AccountNumbers(a) /\ AccountFlags(a) /\ a.in
  BY LockedIsIn DEF AccountOK
<1>3. AccountNumbers(b)
  BY <1>1, <1>2 DEF AccountNumbers
<1>4. AccountFlags(b)
  BY <1>1, <1>2 DEF AccountFlags
<1> QED BY <1>1, <1>2, <1>3, <1>4, AccountWritten DEF Keeps

LEMMA DisqualifiedIs ==
  ASSUME NEW a, AccountOK(a), NEW out \in BOOLEAN, ~a.in => out = FALSE, NEW b, b = [a EXCEPT !.out = out]
  PROVE  AccountOK(b) /\ Keeps(b, a, {"out"})
<1>1. /\ b = [f \in AccountFields |-> b[f]] /\ b.out = out
      /\ \A f \in AccountFields \ {"out"} : b[f] = a[f]
      /\ b.alerts = a.alerts /\ b.locked = a.locked
      /\ b.rows = a.rows /\ b.in = a.in /\ b.granted = a.granted /\ b.spent = a.spent /\ b.advanced = a.advanced
  BY DEF AccountOK, AccountShape, AccountFields
<1>2. AccountNumbers(a) /\ AccountFlags(a)
  BY DEF AccountOK
<1>3. AccountNumbers(b)
  BY <1>1, <1>2 DEF AccountNumbers
<1>4. AccountFlags(b)
  BY <1>1, <1>2 DEF AccountFlags
<1>5. CASE a.in
  BY <1>1, <1>5, <1>3, <1>4, AccountWritten DEF Keeps
<1>6. CASE ~a.in
  <2>1. a.out = FALSE /\ out = FALSE /\ a = [f \in AccountFields |-> a[f]]
    BY <1>6, StrangerIs DEF AccountOK, AccountShape
  <2>2. b = a
    BY <2>1 DEF AccountFields
  <2> QED BY <2>2, <1>1 DEF Keeps
<1> QED BY <1>5, <1>6

LEMMA CreateServedIs ==
  ASSUME ContestRow, RequestsInv, SaidInv, AccountsInv,
         NEW o \in Organisers, request[o] # None, CreateServed(o), now' = now
  PROVE  /\ ContestRow' /\ RequestsInv' /\ SaidInv' /\ AccountsInv' /\ contest' = contest
         /\ \/ account' = account
            \/ \E p \in People, g \in {0, contest.set.start} : ~account[p].in /\ account' = [account EXCEPT ![p] = Entered(g)]
<1>1. CASE Fails(o)
  <2>2. contest' = contest /\ said' = said /\ account' = account
    BY <1>1 DEF Fails, engine
  <2> QED BY <1>1, <2>2, FailsIs, SaidStays DEF ContestRow, AccountsInv
<1>2. CASE ~Fails(o)
  <2> DEFINE p == request[o].arg
             g == IF InPhase2(contest.phase) THEN contest.set.start ELSE 0
  <2>1. ~account[p].in /\ account' = [account EXCEPT ![p] = Entered(g)] /\ Commits(o) /\ contest' = contest /\ said' = said
    BY <1>2 DEF CreateServed, Entered
  <2>2. p \in People
    BY DEF CreateServed, RequestsInv, RequestOK, PersonOps
  <2>3. g \in {0, contest.set.start} /\ contest.set.start \in Nat
    BY DEF ContestRow, Settings
  <2> HIDE DEF p, g
  <2>4. AccountOK(Entered(g))
    BY <2>3, EnteredIs
  <2>5. AccountsInv'
    BY <2>1, <2>2, <2>4, AccountChanges
  <2> QED BY <2>1, <2>2, <2>3, <2>5, CommitsIs, SaidStays DEF ContestRow
<1> QED BY <1>1, <1>2

LEMMA RegistersIs ==
  ASSUME AccountsInv, NEW p \in People, Registers(p)
  PROVE  AccountsInv' /\ ~account[p].in /\ account' = [account EXCEPT ![p] = Entered(0)]
<1>1. ~account[p].in /\ account' = [account EXCEPT ![p] = [Stranger EXCEPT !.in = TRUE]]
  BY DEF Registers
<1>2. [Stranger EXCEPT !.in = TRUE] = Entered(0)
  <2>1. Stranger.granted = 0 /\ Stranger = [f \in AccountFields |-> Stranger[f]]
    BY StrangerIs DEF AccountOK, AccountShape
  <2> HIDE DEF Stranger
  <2> QED BY <2>1 DEF Entered, AccountFields
<1> QED BY <1>1, <1>2, EnteredIs, AccountChanges

\* A step on somebody's row leaves the other rows, and of theirs all but what it is about.
Touches(p, fields) ==
  /\ \A q \in People \ {p} : account'[q] = account[q]
  /\ \A f \in AccountFields \ fields : account'[p][f] = account[p][f]

LEMMA UnlockServedIs ==
  ASSUME RequestsInv, AccountsInv, NEW o \in Organisers, request[o] # None, UnlockServed(o)
  PROVE  /\ RequestsInv' /\ AccountsInv' /\ contest' = contest /\ said' = said
         /\ \E p \in People : Touches(p, {"alerts", "locked"})
<1>0. PICK p \in People : p = request[o].arg
  BY DEF RequestsInv, RequestOK, PersonOps, UnlockServed
<1>1. CASE Fails(o)
  <2>2. contest' = contest /\ said' = said /\ account' = account
    BY <1>1 DEF Fails, engine
  <2> QED BY <1>0, <1>1, <2>2, FailsIs DEF AccountsInv, Touches
<1>2. CASE ~Fails(o)
  <2>1. PICK b : /\ b = [account[p] EXCEPT !.alerts = 0, !.locked = FALSE]
                 /\ account[p].locked /\ account' = [account EXCEPT ![p] = b] /\ Commits(o) /\ contest' = contest /\ said' = said
    BY <1>0, <1>2 DEF UnlockServed, Becomes
  <2>2. AccountOK(account[p])
    BY DEF AccountsInv
  <2>3. AccountOK(b) /\ Keeps(b, account[p], {"alerts", "locked"})
    BY <2>1, <2>2, UnlockedIs
  <2>4. RequestsInv'
    BY <2>1, CommitsIs
  <2>5. AccountsInv' /\ Only(p, b)
    BY <2>1, <2>3, AccountChanges
  <2> QED BY <2>1, <2>3, <2>4, <2>5 DEF Touches, Only, Keeps
<1> QED BY <1>1, <1>2

LEMMA DisqualifyServedIs ==
  ASSUME RequestsInv, AccountsInv, NEW o \in Organisers, request[o] # None, DisqualifyServed(o)
  PROVE  /\ RequestsInv' /\ AccountsInv' /\ contest' = contest /\ said' = said
         /\ \E p \in People : Touches(p, {"out"})
<1>0. PICK p \in People : p = request[o].arg
  BY DEF RequestsInv, RequestOK, PersonOps, DisqualifyServed
<1>1. PICK out \in BOOLEAN : out = (account[p].in /\ request[o].op = "disqualify")
  OBVIOUS
<1>2. PICK b : /\ b = [account[p] EXCEPT !.out = out]
               /\ account' = [account EXCEPT ![p] = b] /\ Commits(o) /\ contest' = contest /\ said' = said
  BY <1>0, <1>1 DEF DisqualifyServed, Becomes
<1>3. AccountOK(account[p])
  BY DEF AccountsInv
<1>4. AccountOK(b) /\ Keeps(b, account[p], {"out"})
  <2>1. ~account[p].in => out = FALSE
    BY <1>1
  <2> QED BY <1>1, <1>2, <1>3, <2>1, DisqualifiedIs
<1>5. RequestsInv'
  BY <1>2, CommitsIs
<1>6. AccountsInv' /\ Only(p, b)
  BY <1>2, <1>4, AccountChanges
<1> QED BY <1>2, <1>4, <1>5, <1>6 DEF Touches, Only, Keeps

LEMMA RemoveServedIs ==
  ASSUME RequestsInv, AccountsInv, NEW o \in Organisers, request[o] # None, RemoveServed(o)
  PROVE  /\ RequestsInv' /\ AccountsInv' /\ contest' = contest /\ said' = said
         /\ account' = account \/ \E p \in People : account' = [account EXCEPT ![p] = Stranger]
<1>1. CASE Fails(o)
  <2>2. contest' = contest /\ said' = said /\ account' = account
    BY <1>1 DEF Fails, engine
  <2> QED BY <1>1, <2>2, FailsIs DEF AccountsInv
<1>2. CASE ~Fails(o)
  <2> DEFINE p == request[o].arg
  <2>1. /\ account' = [account EXCEPT ![p] = Stranger] /\ contest' = contest /\ said' = said
        /\ request' = [request EXCEPT ![o].at = "committed"] /\ "committed" \notin {"sent", "checked"}
    BY <1>2 DEF RemoveServed, Becomes
  <2>2. p \in People
    BY DEF RequestsInv, RequestOK, PersonOps, RemoveServed
  <2>3. RequestsInv'
    BY <2>1, RequestMovesOn, Zenon
  <2>4. AccountsInv'
    BY <2>1, <2>2, StrangerIs, AccountChanges
  <2> QED BY <2>1, <2>2, <2>3, <2>4
<1> QED BY <1>1, <1>2

\* A choice about somebody, and the coins that go with it.
WithChoice(a, advanced, d) == [a EXCEPT !.advanced = advanced, !.granted = a.granted + d]
Affords(a, d) == a.granted - a.spent + d >= 0
IsChoice(b, a, advanced, d) ==
  /\ AccountOK(b) /\ Keeps(b, a, {"advanced", "granted"}) /\ b.advanced = advanced /\ b.granted = a.granted + d

LEMMA SelectedIs ==
  ASSUME NEW a, AccountOK(a), a.in, NEW advanced \in BOOLEAN, NEW d \in Int, Affords(a, d)
  PROVE  IsChoice(WithChoice(a, advanced, d), a, advanced, d)
<1> DEFINE b == WithChoice(a, advanced, d)
<1>0. b = [a EXCEPT !.advanced = advanced, !.granted = a.granted + d] /\ a.granted - a.spent + d >= 0
  BY DEF WithChoice, Affords
<1> HIDE DEF b
<1>1. /\ b = [f \in AccountFields |-> b[f]] /\ b.advanced = advanced /\ b.granted = a.granted + d
      /\ \A f \in AccountFields \ {"advanced", "granted"} : b[f] = a[f]
      /\ b.alerts = a.alerts /\ b.locked = a.locked
      /\ b.rows = a.rows /\ b.in = a.in /\ b.spent = a.spent /\ b.out = a.out
  BY <1>0 DEF AccountOK, AccountShape, AccountFields
<1>2. AccountNumbers(a) /\ AccountFlags(a) /\ a.granted - a.spent + d >= 0
  BY <1>0 DEF AccountOK
<1>3. AccountNumbers(b)
  BY <1>1, <1>2 DEF AccountNumbers
<1>4. AccountFlags(b)
  BY <1>1, <1>2 DEF AccountFlags
<1>5. AccountOK(b)
  BY <1>1, <1>2, <1>3, <1>4, AccountWritten
<1> QED BY <1>1, <1>5 DEF Keeps, IsChoice, b

LEMMA SpentIs ==
  ASSUME NEW a, AccountOK(a), a.granted - a.spent > 0, a.in, NEW b, b = [a EXCEPT !.spent = a.spent + 1]
  PROVE  AccountOK(b) /\ Keeps(b, a, {"spent"})
<1>1. /\ b = [f \in AccountFields |-> b[f]] /\ b.spent = a.spent + 1
      /\ \A f \in AccountFields \ {"spent"} : b[f] = a[f]
      /\ b.alerts = a.alerts /\ b.locked = a.locked /\ b.granted = a.granted
      /\ b.rows = a.rows /\ b.in = a.in /\ b.advanced = a.advanced /\ b.out = a.out
  BY DEF AccountOK, AccountShape, AccountFields
<1>2. AccountNumbers(a) /\ AccountFlags(a)
  BY DEF AccountOK
<1>3. AccountNumbers(b)
  BY <1>1, <1>2 DEF AccountNumbers
<1>4. AccountFlags(b)
  BY <1>1, <1>2 DEF AccountFlags
<1> QED BY <1>1, <1>2, <1>3, <1>4, AccountWritten DEF Keeps

LEMMA CountedIs ==
  ASSUME NEW a, AccountOK(a), a.in, NEW locked \in BOOLEAN,
         NEW b, b = [a EXCEPT !.alerts = a.alerts + 1, !.rows = a.rows + 1, !.locked = locked]
  PROVE  AccountOK(b) /\ Keeps(b, a, {"alerts", "rows", "locked"}) /\ b.rows = a.rows + 1
<1>1. /\ b = [f \in AccountFields |-> b[f]] /\ b.alerts = a.alerts + 1 /\ b.rows = a.rows + 1 /\ b.locked = locked
      /\ \A f \in AccountFields \ {"alerts", "rows", "locked"} : b[f] = a[f]
      /\ b.granted = a.granted /\ b.in = a.in /\ b.advanced = a.advanced /\ b.out = a.out /\ b.spent = a.spent
  BY DEF AccountOK, AccountShape, AccountFields
<1>2. AccountNumbers(a) /\ AccountFlags(a)
  BY DEF AccountOK
<1>3. AccountNumbers(b)
  BY <1>1, <1>2 DEF AccountNumbers
<1>4. AccountFlags(b)
  BY <1>1, <1>2 DEF AccountFlags
<1>5. b = [f \in AccountFields |-> b[f]] /\ b.in = a.in
  BY <1>1
<1>6. AccountOK(b)
  BY <1>3, <1>4, <1>5, AccountWritten
<1>7. Keeps(b, a, {"alerts", "rows", "locked"})
  BY <1>1 DEF Keeps
<1> QED BY <1>1, <1>6, <1>7

\* One selection gives and takes back of those who are there, and of nobody more than they have.
Selected(o, p) ==
  IF account[p].in THEN account'[p].advanced = (p \in request[o].arg)
                        /\ account'[p].granted = account[p].granted + Settles(p, request[o])
                   ELSE account'[p] = account[p]

LEMMA SelectServedIs ==
  ASSUME RequestsInv, AccountsInv, NEW o \in Organisers, request[o] # None, SelectServed(o)
  PROVE  /\ RequestsInv' /\ AccountsInv' /\ contest' = contest /\ said' = said
         /\ \/ account' = account
            \/ \A p \in People : Selected(o, p) /\ Keeps(account'[p], account[p], {"advanced", "granted"})
<1>1. CASE Fails(o)
  <2>2. contest' = contest /\ said' = said /\ account' = account
    BY <1>1 DEF Fails, engine
  <2> QED BY <1>1, <2>2, FailsIs DEF AccountsInv
<1>2. CASE ~Fails(o)
  <2> DEFINE r == request[o]
             New(p) == [account[p] EXCEPT !.advanced = p \in r.arg, !.granted = account[p].granted + Settles(p, r)]
  <2>1. /\ \A p \in Registered : ~(Balance(p) + Settles(p, r) < 0)
        /\ account' = [p \in People |-> IF account[p].in THEN New(p) ELSE account[p]]
        /\ Commits(o) /\ contest' = contest /\ said' = said
    BY <1>2 DEF SelectServed
  <2>2. r.amount \in Nat
    BY DEF RequestsInv, RequestOK, SelectServed
  <2>3. ASSUME NEW p \in People
        PROVE  AccountOK(account'[p]) /\ Selected(o, p) /\ Keeps(account'[p], account[p], {"advanced", "granted"})
    <3>1. CASE account[p].in
      <4>1. p \in Registered
        BY <3>1 DEF Registered
      <4>2. PICK d \in Int : d = Settles(p, r)
        BY <2>2 DEF Settles
      <4>3. PICK adv : adv = (p \in r.arg) /\ adv \in BOOLEAN
        <5>1. (p \in r.arg) \in BOOLEAN
          OBVIOUS
        <5> QED BY <5>1, Zenon
      <4>4. PICK a : a = account[p]
        OBVIOUS
      <4>5. PICK b : b = account'[p]
        OBVIOUS
      <4>6. AccountOK(a) /\ a.in
        BY <3>1, <4>4 DEF AccountsInv
      <4>7. Affords(a, d)
        <5>1. ~(a.granted - a.spent + d < 0)
          BY <2>1, <4>1, <4>2, <4>4 DEF Balance
        <5>2. a.granted \in Int /\ a.spent \in Int
          BY <4>6 DEF AccountOK, AccountNumbers
        <5> QED BY <5>1, <5>2 DEF Affords
      <4>8. b = WithChoice(a, adv, d)
        BY <2>1, <3>1, <4>2, <4>3, <4>4, <4>5 DEF WithChoice
      <4> HIDE DEF r
      <4>10. AccountOK(a) /\ a.in /\ adv \in BOOLEAN /\ d \in Int
        BY <4>2, <4>3, <4>6
      <4>9. IsChoice(b, a, adv, d)
        BY <4>10, <4>7, <4>8, SelectedIs
      <4> QED BY <3>1, <4>2, <4>3, <4>4, <4>5, <4>9 DEF Selected, IsChoice, r
    <3>2. CASE ~account[p].in
      <4>1. account'[p] = account[p]
        BY <2>1, <3>2
      <4> QED BY <4>1, <3>2 DEF Selected, AccountsInv, Keeps
    <3> QED BY <3>1, <3>2
  <2>4. DOMAIN account' = People
    BY <2>1
  <2> HIDE DEF New
  <2> QED BY <2>1, <2>3, <2>4, CommitsIs DEF AccountsInv
<1> QED BY <1>1, <1>2

LEMMA PublishesIs ==
  ASSUME RequestsInv, NEW o \in Organisers, request[o] # None, Publishes(o)
  PROVE  RequestsInv' /\ contest' = contest /\ account' = account /\ said' = said
<1>1. request' = [request EXCEPT ![o].at = "done"] /\ "done" \notin {"sent", "checked"}
  BY DEF Publishes
<1>2. RequestsInv'
  BY <1>1, RequestMovesOn, Zenon
<1> QED BY <1>2 DEF Publishes, engine

LEMMA SpendsIs ==
  ASSUME AccountsInv, NEW p \in People, Spends(p)
  PROVE  AccountsInv' /\ Touches(p, {"spent"})
<1>1. PICK a : a = account[p]
  OBVIOUS
<1>2. PICK b : b = [a EXCEPT !.spent = a.spent + 1]
  OBVIOUS
<1>3. AccountOK(a)
  BY <1>1 DEF AccountsInv
<1>4. account' = [account EXCEPT ![p] = b]
  BY <1>1, <1>2 DEF Spends
<1>5. a.granted - a.spent > 0 /\ a.advanced
  BY <1>1 DEF Spends, Balance
<1>6. a.in
  BY <1>3, <1>5, StrangerIs DEF AccountOK, AccountShape
<1>7. AccountOK(b) /\ Keeps(b, a, {"spent"})
  BY <1>2, <1>3, <1>5, <1>6, SpentIs
<1>8. AccountsInv' /\ Only(p, b)
  BY <1>4, <1>7, AccountChanges
<1> QED BY <1>1, <1>7, <1>8 DEF Touches, Only, Keeps

\* A report counts once, or not at all.
LEMMA ReportedIs ==
  ASSUME ContestRow, AccountsInv, NEW p \in People, account[p].in
  PROVE  /\ AccountOK(Reported(p)) /\ Keeps(Reported(p), account[p], {"alerts", "rows", "locked"})
         /\ Reported(p).rows \in {account[p].rows, account[p].rows + 1}
<1>1. PICK a : a = account[p]
  OBVIOUS
<1>2. AccountOK(a) /\ a.in
  BY <1>1 DEF AccountsInv
<1>3. CASE ~contest.set.proctoring \/ a.locked
  <2>1. Reported(p) = a
    BY <1>1, <1>3 DEF Reported
  <2> QED BY <1>1, <1>2, <2>1 DEF Keeps
<1>4. CASE ~(~contest.set.proctoring \/ a.locked)
  <2>1. PICK locked : locked = (a.alerts + 1 > contest.set.warnings) /\ locked \in BOOLEAN
    <3>1. (a.alerts + 1 > contest.set.warnings) \in BOOLEAN
      OBVIOUS
    <3> QED BY <3>1, Zenon
  <2>2. PICK b : b = [a EXCEPT !.alerts = a.alerts + 1, !.rows = a.rows + 1, !.locked = locked]
    OBVIOUS
  <2>3. Reported(p) = b
    BY <1>1, <1>4, <2>1, <2>2 DEF Reported
  <2>4. AccountOK(b) /\ Keeps(b, a, {"alerts", "rows", "locked"}) /\ b.rows = a.rows + 1
    BY <1>2, <2>1, <2>2, CountedIs, Zenon
  <2> QED BY <1>1, <2>3, <2>4
<1> QED BY <1>3, <1>4

LEMMA HereStays ==
  ASSUME HereInv, DOMAIN tab' = People, \A p \in People : tab'[p] # None => tab[p] # None,
         \A p \in People : account[p].in => account'[p].in
  PROVE  HereInv'
BY DEF HereInv

LEMMA InStays ==
  ASSUME AccountsInv, NEW p \in People, NEW fields, "in" \notin fields, Touches(p, fields)
  PROVE  \A q \in People : account[q].in => account'[q].in
BY DEF Touches, AccountFields

\* The engine keeps the books.
LEMMA EngineIs ==
  ASSUME DeskAssumption, EngineInv, NEW o \in Organisers, Engine(o)
  PROVE  EngineInv'
<1>0. /\ LeftInv /\ ContestRow /\ AccountsInv /\ HereInv /\ RequestsInv /\ DesksInv /\ SaidInv
      /\ request[o] # None /\ UNCHANGED <<slipped, left, desk, now>>
  BY DEF EngineInv, Engine
<1>1. LeftInv' /\ DesksInv'
  BY <1>0 DEF LeftInv, DesksInv
<1>2. ASSUME ContestRow', RequestsInv', SaidInv', account' = account, tab' = tab
      PROVE  EngineInv'
  <2>1. AccountsInv' /\ HereInv'
    BY <1>0, <1>2 DEF AccountsInv, HereInv
  <2> QED BY <1>1, <1>2, <2>1 DEF EngineInv
<1>3. ASSUME contest' = contest, said' = said, RequestsInv', AccountsInv', HereInv'
      PROVE  EngineInv'
  <2>1. ContestRow' /\ SaidInv'
    BY <1>0, <1>3, SaidStays DEF ContestRow
  <2> QED BY <1>1, <1>3, <2>1 DEF EngineInv
<1>4. CASE AdvanceChecks(o)
  <2>1. contest' = contest /\ said' = said /\ account' = account /\ tab' = tab
    BY <1>4 DEF AdvanceChecks, engine
  <2>2. ContestRow' /\ SaidInv' /\ RequestsInv'
    BY <1>0, <1>4, <2>1, SaidStays, AdvanceChecksIs DEF ContestRow
  <2> QED BY <1>2, <2>1, <2>2
<1>5. CASE AdvanceServed(o)
  <2>1. tab' = tab
    BY <1>5 DEF AdvanceServed, Fails, Commits
  <2> QED BY <1>0, <1>2, <1>5, <2>1, AdvanceServedIs
<1>6. CASE ExtendServed(o)
  <2>1. tab' = tab
    BY <1>6 DEF ExtendServed, Fails, Commits
  <2> QED BY <1>0, <1>2, <1>6, <2>1, ExtendServedIs
<1>7. CASE RegistrationServed(o)
  <2>1. tab' = tab
    BY <1>7 DEF RegistrationServed, Commits
  <2> QED BY <1>0, <1>2, <1>7, <2>1, RegistrationServedIs
<1>8. CASE AnnounceServed(o)
  <2>1. tab' = tab
    BY <1>8 DEF AnnounceServed, Commits
  <2> QED BY <1>0, <1>2, <1>8, <2>1, AnnounceServedIs
<1>9. CASE SaveServed(o)
  <2>1. tab' = tab
    BY <1>9 DEF SaveServed, Fails, Commits
  <2> QED BY <1>0, <1>2, <1>9, <2>1, SaveServedIs
<1>10. CASE CreateServed(o)
  <2>1. tab' = tab
    BY <1>10 DEF CreateServed, Fails, Commits
  <2>2. RequestsInv' /\ AccountsInv' /\ contest' = contest
    BY <1>0, <1>10, CreateServedIs
  <2>3. SaidInv' /\ ContestRow'
    BY <1>0, <1>10, CreateServedIs
  <2>4. \A p \in People : account[p].in => account'[p].in
    <3>1. CASE account' = account
      BY <3>1
    <3>2. ASSUME NEW p \in People, NEW g \in {0, contest.set.start}, ~account[p].in, account' = [account EXCEPT ![p] = Entered(g)]
          PROVE  \A q \in People : account[q].in => account'[q].in
      BY <1>0, <3>2 DEF AccountsInv
    <3> QED BY <3>1, <3>2, <1>0, <1>10, CreateServedIs
  <2>5. HereInv'
    BY <1>0, <2>1, <2>4, HereStays DEF HereInv
  <2> QED BY <1>1, <2>2, <2>3, <2>5 DEF EngineInv
<1>11. CASE UnlockServed(o)
  <2>1. tab' = tab
    BY <1>11 DEF UnlockServed, Fails, Commits
  <2>2. RequestsInv' /\ AccountsInv' /\ contest' = contest /\ said' = said /\ \E p \in People : Touches(p, {"alerts", "locked"})
    BY <1>0, <1>11, UnlockServedIs
  <2>3. \A q \in People : account[q].in => account'[q].in
    BY <1>0, <2>2, InStays
  <2>4. HereInv'
    BY <1>0, <2>1, <2>3, HereStays DEF HereInv
  <2> QED BY <1>3, <2>2, <2>4
<1>12. CASE DisqualifyServed(o)
  <2>1. tab' = tab
    BY <1>12 DEF DisqualifyServed, Commits
  <2>2. RequestsInv' /\ AccountsInv' /\ contest' = contest /\ said' = said /\ \E p \in People : Touches(p, {"out"})
    BY <1>0, <1>12, DisqualifyServedIs
  <2>3. \A q \in People : account[q].in => account'[q].in
    BY <1>0, <2>2, InStays
  <2>4. HereInv'
    BY <1>0, <2>1, <2>3, HereStays DEF HereInv
  <2> QED BY <1>3, <2>2, <2>4
<1>13. CASE RemoveServed(o)
  <2>1. RequestsInv' /\ AccountsInv' /\ contest' = contest /\ said' = said
    BY <1>0, <1>13, RemoveServedIs
  <2>2. HereInv'
    <3> DEFINE p == request[o].arg
    <3>1. CASE Fails(o)
      BY <3>1, <1>0 DEF Fails, engine, HereInv
    <3>2. CASE account' = [account EXCEPT ![p] = Stranger] /\ tab' = [tab EXCEPT ![p] = None]
      BY <3>2, <1>0 DEF HereInv, AccountsInv
    <3> QED BY <3>1, <3>2, <1>13 DEF RemoveServed, Becomes
  <2> QED BY <1>3, <2>1, <2>2
<1>14. CASE SelectReads(o)
  <2>1. contest' = contest /\ said' = said /\ account' = account /\ tab' = tab
    BY <1>14 DEF SelectReads, engine
  <2>2. ContestRow' /\ SaidInv' /\ RequestsInv'
    BY <1>0, <1>14, <2>1, SaidStays, SelectReadsIs DEF ContestRow
  <2> QED BY <1>2, <2>1, <2>2
<1>15. CASE SelectServed(o)
  <2>1. tab' = tab
    BY <1>15 DEF SelectServed, Fails, Commits
  <2>2. RequestsInv' /\ AccountsInv' /\ contest' = contest /\ said' = said
    BY <1>0, <1>15, SelectServedIs
  <2>3. \A q \in People : account[q].in => account'[q].in
    <3>1. CASE account' = account
      BY <3>1
    <3>2. CASE \A p \in People : Selected(o, p) /\ Keeps(account'[p], account[p], {"advanced", "granted"})
      BY <3>2 DEF Keeps, AccountFields
    <3> QED BY <3>1, <3>2, <1>0, <1>15, SelectServedIs
  <2>4. HereInv'
    BY <1>0, <2>1, <2>3, HereStays DEF HereInv
  <2> QED BY <1>3, <2>2, <2>4
<1>16. CASE Publishes(o)
  <2>1. RequestsInv' /\ contest' = contest /\ account' = account /\ said' = said
    BY <1>0, <1>16, PublishesIs
  <2>2. DOMAIN tab' = People /\ \A p \in People : tab'[p] # None => tab[p] # None
    BY <1>16 DEF Publishes
  <2>3. HereInv' /\ AccountsInv'
    BY <1>0, <2>1, <2>2, HereStays DEF AccountsInv
  <2> QED BY <1>3, <2>1, <2>3
<1> QED BY <1>4, <1>5, <1>6, <1>7, <1>8, <1>9, <1>10, <1>11, <1>12, <1>13, <1>14, <1>15, <1>16 DEF Engine

-----------------------------------------------------------------------------
(* The organisers' pages.                                                   *)

\* A page with one of its parts written.
LEMMA DeskChanges ==
  ASSUME DesksInv, NEW o \in Organisers, NEW d, DeskOK(d), desk' = [desk EXCEPT ![o] = d]
  PROVE  DesksInv'
BY DEF DesksInv

LEMMA LoadedIs ==
  ASSUME NEW d, DeskOK(d), NEW x
  PROVE  /\ DeskOK([d EXCEPT !.view = x]) /\ DeskOK([d EXCEPT !.people = x]) /\ DeskOK([d EXCEPT !.chosen = x])
         /\ DeskOK([d EXCEPT !.dialog = None])
BY DEF DeskOK

FormOK(f) == f = [c |-> f.c, orig |-> f.orig] /\ f.c \in Settings /\ f.orig \in Settings

LEMMA FormIs ==
  ASSUME NEW d, DeskOK(d), NEW f, f # None => FormOK(f)
  PROVE  DeskOK([d EXCEPT !.form = f])
BY DEF DeskOK, FormOK

LEMMA DialogIs ==
  ASSUME NEW d, DeskOK(d), NEW g, g.op \in DialogOps, g.op = "setup" => g.arg \in Setups, g.op \in PersonOps => g.arg \in People
  PROVE  DeskOK([d EXCEPT !.dialog = g])
<1> DEFINE e == [d EXCEPT !.dialog = g]
<1>1. e = [f \in {"view", "people", "chosen", "form", "dialog"} |-> e[f]] /\ e.dialog = g /\ e.form = d.form
  BY DEF DeskOK
<1> HIDE DEF e
<1>2. DeskOK(e)
  BY <1>1 DEF DeskOK
<1> QED BY <1>2 DEF e

\* A field of the settings takes only what it may hold.
LEMMA EditedSettings ==
  ASSUME DeskAssumption, NEW e \in SettingEdits, NEW set \in Settings
  PROVE  [set EXCEPT ![e.field] = e.value] \in Settings
<1> DEFINE new == [set EXCEPT ![e.field] = e.value]
           changed == [Defaults EXCEPT ![e.field] = e.value]
<1>1. changed \in Settings /\ Defaults \in Settings /\ e.field \in DOMAIN Defaults
  BY DEF DeskAssumption
<1>2. DOMAIN Defaults = {"mode", "proctoring", "warnings", "start", "board"}
  BY <1>1 DEF Settings
<1>3. CASE e.field = "mode"
  BY <1>1, <1>3 DEF Settings
<1>4. CASE e.field = "proctoring"
  BY <1>1, <1>4 DEF Settings
<1>5. CASE e.field = "warnings"
  BY <1>1, <1>5 DEF Settings
<1>6. CASE e.field = "start"
  BY <1>1, <1>6 DEF Settings
<1>7. CASE e.field = "board"
  BY <1>1, <1>7 DEF Settings
<1> QED BY <1>1, <1>2, <1>3, <1>4, <1>5, <1>6, <1>7

LEMMA EditsIs ==
  ASSUME DeskAssumption, DesksInv, NEW o \in Organisers, NEW e \in SettingEdits, Edits(o, e)
  PROVE  DesksInv'
<1>1. PICK d : d = desk[o]
  OBVIOUS
<1>2. DeskOK(d) /\ d.form # None
  BY <1>1 DEF DesksInv, Edits
<1>3. FormOK(d.form)
  BY <1>2 DEF DeskOK, FormOK
<1>4. PICK f : f = [d.form EXCEPT !.c = [d.form.c EXCEPT ![e.field] = e.value]]
  OBVIOUS
<1>5. [d.form.c EXCEPT ![e.field] = e.value] \in Settings
  BY <1>3, EditedSettings DEF FormOK
<1>6. FormOK(f)
  BY <1>3, <1>4, <1>5 DEF FormOK
<1>7. desk' = [desk EXCEPT ![o] = [d EXCEPT !.form = f]]
  BY <1>1, <1>4 DEF Edits
<1>8. DeskOK([d EXCEPT !.form = f])
  BY <1>2, <1>6, FormIs
<1> QED BY <1>7, <1>8, DeskChanges

LEMMA DiscardsIs ==
  ASSUME DesksInv, NEW o \in Organisers, Discards(o)
  PROVE  DesksInv'
<1>1. PICK d : d = desk[o]
  OBVIOUS
<1>2. DeskOK(d) /\ d.form # None
  BY <1>1 DEF DesksInv, Discards
<1>3. FormOK(d.form)
  BY <1>2 DEF DeskOK, FormOK
<1>4. PICK f : f = [d.form EXCEPT !.c = d.form.orig]
  OBVIOUS
<1>6. FormOK(f)
  BY <1>3, <1>4 DEF FormOK
<1>7. desk' = [desk EXCEPT ![o] = [d EXCEPT !.form = f]]
  BY <1>1, <1>4 DEF Discards
<1>8. DeskOK([d EXCEPT !.form = f])
  BY <1>2, <1>6, FormIs
<1> QED BY <1>7, <1>8, DeskChanges

LEMMA LoadsFormIs ==
  ASSUME DesksInv, ContestRow, NEW o \in Organisers, LoadsForm(o)
  PROVE  DesksInv'
<1>1. PICK d : d = desk[o]
  OBVIOUS
<1>2. DeskOK(d)
  BY <1>1 DEF DesksInv
<1>4. PICK f : f = [c |-> contest.set, orig |-> contest.set]
  OBVIOUS
<1>6. FormOK(f)
  BY <1>4 DEF FormOK, ContestRow
<1>7. desk' = [desk EXCEPT ![o] = [d EXCEPT !.form = f]]
  BY <1>1, <1>4 DEF LoadsForm
<1>8. DeskOK([d EXCEPT !.form = f])
  BY <1>2, <1>6, FormIs
<1> QED BY <1>7, <1>8, DeskChanges

\* What is only loaded, ticked or closed.
LEMMA LoadsIs ==
  ASSUME DesksInv, NEW o \in Organisers, NEW x,
         \/ desk' = [desk EXCEPT ![o].view = x] \/ desk' = [desk EXCEPT ![o].people = x]
         \/ desk' = [desk EXCEPT ![o].chosen = x] \/ desk' = [desk EXCEPT ![o].dialog = None]
  PROVE  DesksInv'
<1>1. PICK d : d = desk[o]
  OBVIOUS
<1>2. DeskOK(d)
  BY <1>1 DEF DesksInv
<1>3. /\ DeskOK([d EXCEPT !.view = x]) /\ DeskOK([d EXCEPT !.people = x]) /\ DeskOK([d EXCEPT !.chosen = x])
      /\ DeskOK([d EXCEPT !.dialog = None])
  BY <1>2, LoadedIs
<1> QED BY <1>1, <1>3, DeskChanges

LEMMA OfferedIs ==
  ASSUME NEW o \in Organisers, NEW d \in Offered(o)
  PROVE  d.op \in DialogOps /\ (d.op = "setup" => d.arg \in Setups) /\ (d.op \in PersonOps => d.arg \in People)
<1>1. CASE d \in ControlOffers(o)
  BY <1>1 DEF ControlOffers, Offer, DialogOps, PersonOps
<1>2. CASE d \in PeopleOffers(o)
  <2>1. PICK p \in People : d \in PersonOffers(o, p)
    BY <1>2 DEF PeopleOffers
  <2> QED BY <2>1 DEF PersonOffers, Offer, DialogOps, PersonOps
<1>3. CASE d \in CreateOffers
  BY <1>3 DEF CreateOffers, Offer, DialogOps, PersonOps
<1>4. CASE d \in SelectOffers(o)
  BY <1>4 DEF SelectOffers, Offer, DialogOps, PersonOps
<1>5. CASE d \in AnnounceOffers \cup ResetOffers
  BY <1>5 DEF AnnounceOffers, ResetOffers, Offer, DialogOps, PersonOps
<1>6. CASE d \in SetupOffers
  BY <1>6 DEF SetupOffers, Offer, DialogOps, PersonOps
<1> QED BY <1>1, <1>2, <1>3, <1>4, <1>5, <1>6 DEF Offered

LEMMA AsksIs ==
  ASSUME DesksInv, NEW o \in Organisers, NEW g \in Offered(o), Asks(o, g)
  PROVE  DesksInv'
<1>1. PICK d : d = desk[o]
  OBVIOUS
<1>2. DeskOK(d)
  BY <1>1 DEF DesksInv
<1>3. g.op \in DialogOps /\ (g.op = "setup" => g.arg \in Setups) /\ (g.op \in PersonOps => g.arg \in People)
  BY OfferedIs
<1>4. DeskOK([d EXCEPT !.dialog = g])
  BY <1>2, <1>3, DialogIs
<1>5. desk' = [desk EXCEPT ![o] = [d EXCEPT !.dialog = g]]
  BY <1>1 DEF Asks
<1> QED BY <1>4, <1>5, DeskChanges

\* What is sent is what a dialog asks, or a whole form.
LEMMA SendIs ==
  ASSUME LeftInv, RequestsInv, NEW o \in Organisers, NEW op, NEW arg, op \in DialogOps \cup {"save"}, Send(o, op, arg),
         op = "save" => arg \in Settings, op = "setup" => arg \in Setups, op \in PersonOps => arg \in People
  PROVE  RequestsInv' /\ LeftInv' /\ UNCHANGED <<contest, account, said, tab, slipped, desk, now>>
<1>1. PICK r : r = [op |-> op, arg |-> arg, at |-> "sent", paid |-> {}, amount |-> 0]
  OBVIOUS
<1>2. request' = [request EXCEPT ![o] = r] /\ Spend(op) /\ UNCHANGED <<contest, account, said, tab, slipped, desk, now>>
  BY <1>1 DEF Send, engine, seats
<1>3. RequestOK(r)
  BY <1>1 DEF RequestOK
<1>4. RequestsInv'
  BY <1>2, <1>3 DEF RequestsInv
<1> QED BY <1>2, <1>4, SpendIs

LEMMA ConfirmsIs ==
  ASSUME LeftInv, RequestsInv, DesksInv, NEW o \in Organisers, Confirms(o) \/ ConfirmsReset(o) \/ ConfirmsSetup(o)
  PROVE  RequestsInv' /\ LeftInv' /\ UNCHANGED <<contest, account, said, tab, slipped, desk, now>>
<1>1. PICK g : g = desk[o].dialog
  OBVIOUS
<1>2. g # None /\ g.op \in DialogOps /\ (g.op = "setup" => g.arg \in Setups) /\ (g.op \in PersonOps => g.arg \in People)
  BY <1>1 DEF Confirms, ConfirmsReset, ConfirmsSetup, DesksInv, DeskOK
<1>3. CASE Confirms(o)
  <2>1. PICK arg : arg = Argument(o, g)
    OBVIOUS
  <2>2. g.op \in PersonOps => arg \in People
    BY <1>2, <2>1 DEF Argument, PersonOps
  <2>3. g.op # "setup" /\ g.op # "save" /\ Send(o, g.op, arg)
    BY <1>1, <1>2, <1>3, <2>1 DEF Confirms, DialogOps
  <2> QED BY <1>2, <2>2, <2>3, SendIs
<1>4. CASE ConfirmsReset(o)
  <2>1. PICK op : op = "reset"
    OBVIOUS
  <2>2. Send(o, op, None) /\ op \in DialogOps /\ op \notin PersonOps \cup {"save", "setup"}
    BY <1>4, <2>1 DEF ConfirmsReset, DialogOps, PersonOps
  <2> QED BY <2>2, SendIs
<1>5. CASE ConfirmsSetup(o)
  <2>1. g.op = "setup" /\ Send(o, g.op, g.arg) /\ g.arg \in Setups /\ g.op \notin PersonOps \cup {"save"}
    BY <1>1, <1>2, <1>5 DEF ConfirmsSetup, PersonOps
  <2> QED BY <1>2, <2>1, SendIs
<1> QED BY <1>3, <1>4, <1>5

LEMMA SavesIs ==
  ASSUME LeftInv, RequestsInv, DesksInv, NEW o \in Organisers, Saves(o)
  PROVE  RequestsInv' /\ LeftInv' /\ UNCHANGED <<contest, account, said, tab, slipped, desk, now>>
<1>1. PICK op, arg : op = "save" /\ arg = desk[o].form.c
  OBVIOUS
<1>2. Send(o, op, arg) /\ arg \in Settings /\ op \notin PersonOps \cup {"setup"}
  BY <1>1 DEF Saves, DesksInv, DeskOK, PersonOps
<1> QED BY <1>1, <1>2, SendIs

LEMMA RefreshedIs ==
  ASSUME ContestRow, NEW d, DeskOK(d), NEW op
  PROVE  DeskOK(Refreshed(d, op))
<1>1. PICK closed : closed = [d EXCEPT !.dialog = IF op = "save" THEN d.dialog ELSE None]
  OBVIOUS
<1>2. PICK form : form = IF d.form = None THEN None ELSE [c |-> contest.set, orig |-> contest.set]
  OBVIOUS
<1>3. DeskOK(closed) /\ closed.form = d.form
  <2>1. CASE op = "save"
    <3>1. closed = d
      BY <1>1, <2>1 DEF DeskOK
    <3> QED BY <3>1
  <2>2. CASE op # "save"
    <3>1. closed = [d EXCEPT !.dialog = None]
      BY <1>1, <2>2
    <3> QED BY <3>1, LoadedIs DEF DeskOK
  <2> QED BY <2>1, <2>2
<1>4. form # None => FormOK(form)
  BY <1>2 DEF FormOK, ContestRow
<1>5. PICK v, people, ticked : v = View /\ people = account /\ ticked = Ticked
  OBVIOUS
<1>6. Refreshed(d, op) \in {closed, [closed EXCEPT !.view = v], [closed EXCEPT !.people = people],
                           [closed EXCEPT !.chosen = ticked], [closed EXCEPT !.form = form]}
  BY <1>1, <1>2, <1>5 DEF Refreshed
<1>7. /\ DeskOK([closed EXCEPT !.view = v]) /\ DeskOK([closed EXCEPT !.people = people]) /\ DeskOK([closed EXCEPT !.chosen = ticked])
      /\ DeskOK([closed EXCEPT !.form = form])
  BY <1>3, <1>4, LoadedIs, FormIs
<1> QED BY <1>3, <1>6, <1>7

LEMMA EngineStays ==
  ASSUME EngineInv, LeftInv', RequestsInv', DesksInv', UNCHANGED <<contest, account, said, tab, now>>
  PROVE  EngineInv'
BY SaidStays DEF EngineInv, ContestRow, AccountsInv, HereInv

LEMMA PageIs ==
  ASSUME DeskAssumption, EngineInv, NEW o \in Organisers, Page(o)
  PROVE  EngineInv' /\ UNCHANGED <<contest, account, said, tab, slipped, now>>
<1>0. LeftInv /\ ContestRow /\ AccountsInv /\ HereInv /\ RequestsInv /\ DesksInv /\ SaidInv
  BY DEF EngineInv
<1>1. ASSUME UNCHANGED <<engine, seats, request, now>>, DesksInv', LeftInv'
      PROVE  EngineInv' /\ UNCHANGED <<contest, account, said, tab, slipped, now>>
  <2>1. UNCHANGED <<contest, account, said, tab, slipped, now>> /\ RequestsInv'
    BY <1>0, <1>1 DEF engine, seats, RequestsInv
  <2> QED BY <1>1, <2>1, EngineStays
<1>2. CASE Looks(o)
  <2>1. DesksInv'
    BY <1>0, <1>2, LoadsIs DEF Looks
  <2> QED BY <1>0, <1>1, <1>2, <2>1, SpendIs DEF Looks
<1>3. CASE LoadsPeople(o)
  <2>1. DesksInv'
    BY <1>0, <1>3, LoadsIs DEF LoadsPeople
  <2> QED BY <1>0, <1>1, <1>3, <2>1, SpendIs DEF LoadsPeople
<1>4. ASSUME NEW p \in People, LoadsPerson(o, p)
      PROVE  EngineInv' /\ UNCHANGED <<contest, account, said, tab, slipped, now>>
  <2>1. PICK x : desk' = [desk EXCEPT ![o].people = x]
    <3>1. desk' = [desk EXCEPT ![o].people = [q \in People |-> IF q = p THEN account[q]
                               ELSE IF desk[o].people = None THEN Stranger ELSE desk[o].people[q]]]
      BY <1>4 DEF LoadsPerson
    <3> QED BY <3>1
  <2>2. DesksInv'
    BY <1>0, <2>1, LoadsIs
  <2> QED BY <1>0, <1>1, <1>4, <2>2, SpendIs DEF LoadsPerson
<1>5. CASE LoadsReview(o)
  <2>1. DesksInv'
    BY <1>0, <1>5, LoadsIs DEF LoadsReview
  <2> QED BY <1>0, <1>1, <1>5, <2>1, SpendIs DEF LoadsReview
<1>6. ASSUME NEW p \in People, Ticks(o, p)
      PROVE  EngineInv' /\ UNCHANGED <<contest, account, said, tab, slipped, now>>
  <2>1. PICK x : desk' = [desk EXCEPT ![o].chosen = x]
    <3>1. desk' = [desk EXCEPT ![o].chosen = IF p \in desk[o].chosen THEN desk[o].chosen \ {p} ELSE desk[o].chosen \cup {p}]
      BY <1>6 DEF Ticks
    <3> QED BY <3>1
  <2>2. DesksInv'
    BY <1>0, <2>1, LoadsIs
  <2> QED BY <1>0, <1>1, <1>6, <2>2, SpendIs DEF Ticks
<1>7. CASE LoadsForm(o)
  <2>1. DesksInv'
    BY <1>0, <1>7, LoadsFormIs
  <2> QED BY <1>0, <1>1, <1>7, <2>1, SpendIs DEF LoadsForm
<1>8. CASE Discards(o)
  <2>1. DesksInv'
    BY <1>0, <1>8, DiscardsIs
  <2> QED BY <1>0, <1>1, <1>8, <2>1, SpendIs DEF Discards
<1>9. ASSUME NEW e \in SettingEdits, Edits(o, e)
      PROVE  EngineInv' /\ UNCHANGED <<contest, account, said, tab, slipped, now>>
  <2>1. DesksInv'
    BY <1>0, <1>9, EditsIs
  <2> QED BY <1>0, <1>1, <1>9, <2>1, SpendIs DEF Edits
<1>10. ASSUME NEW d \in Offered(o), Asks(o, d)
       PROVE  EngineInv' /\ UNCHANGED <<contest, account, said, tab, slipped, now>>
  <2>1. DesksInv'
    BY <1>0, <1>10, AsksIs
  <2>2. LeftInv' /\ UNCHANGED <<engine, seats, request, now>>
    BY <1>0, <1>10 DEF Asks, LeftInv
  <2> QED BY <1>1, <2>1, <2>2
<1>11. CASE Cancels(o)
  <2>1. DesksInv'
    BY <1>0, <1>11, LoadsIs DEF Cancels
  <2>2. LeftInv' /\ UNCHANGED <<engine, seats, request, now>>
    BY <1>0, <1>11 DEF Cancels, LeftInv
  <2> QED BY <1>1, <2>1, <2>2
<1>12. CASE Confirms(o) \/ ConfirmsReset(o) \/ ConfirmsSetup(o) \/ Saves(o)
  <2>1. RequestsInv' /\ LeftInv' /\ UNCHANGED <<contest, account, said, tab, slipped, desk, now>>
    BY <1>0, <1>12, ConfirmsIs, SavesIs
  <2>2. DesksInv'
    BY <1>0, <2>1 DEF DesksInv
  <2> QED BY <2>1, <2>2, EngineStays
<1>13. CASE Answered(o) \/ Refused(o)
  <2>1. request' = [request EXCEPT ![o] = None] /\ UNCHANGED <<contest, account, said, tab, slipped, now>>
    BY <1>13 DEF Answered, Refused, engine, seats
  <2>2. RequestsInv'
    BY <1>0, <2>1 DEF RequestsInv
  <2>3. LeftInv'
    BY <1>0, <1>13, SpendIs DEF Answered, Refused, LeftInv
  <2>4. DesksInv'
    <3>1. CASE Answered(o)
      <4>1. PICK d : d = desk[o]
        OBVIOUS
      <4>2. DeskOK(d)
        BY <1>0, <4>1 DEF DesksInv
      <4>3. PICK e : e = Refreshed(d, request[o].op)
        OBVIOUS
      <4>4. DeskOK(e)
        BY <1>0, <4>2, <4>3, RefreshedIs
      <4>5. desk' = [desk EXCEPT ![o] = e]
        BY <3>1, <4>1, <4>3 DEF Answered
      <4> QED BY <1>0, <4>4, <4>5, DeskChanges
    <3>2. CASE Refused(o)
      BY <1>0, <3>2 DEF Refused, DesksInv
    <3> QED BY <3>1, <3>2, <1>13
  <2> QED BY <2>1, <2>2, <2>3, <2>4, EngineStays
<1> QED BY <1>2, <1>3, <1>4, <1>5, <1>6, <1>7, <1>8, <1>9, <1>10, <1>11, <1>12, <1>13 DEF Page

-----------------------------------------------------------------------------
(* Everybody else.                                                          *)

LEMMA RegistersKeeps ==
  ASSUME EngineInv, NEW p \in People, Registers(p)
  PROVE  EngineInv' /\ UNCHANGED <<contest, said, tab, slipped, desk, request, now>>
<1>1. AccountsInv' /\ ~account[p].in /\ account' = [account EXCEPT ![p] = Entered(0)]
  BY RegistersIs DEF EngineInv
<1>2. UNCHANGED <<contest, said, tab, slipped, desk, request, now>> /\ LeftInv'
  BY SpendIs DEF Registers, seats, EngineInv
<1>3. HereInv'
  BY <1>1, <1>2 DEF EngineInv, HereInv, AccountsInv
<1> QED BY <1>1, <1>2, <1>3, SaidStays DEF EngineInv, ContestRow, RequestsInv, DesksInv

LEMMA SpendsKeeps ==
  ASSUME EngineInv, NEW p \in People, Spends(p)
  PROVE  EngineInv' /\ UNCHANGED <<contest, said, tab, slipped, desk, request, now>>
<1>1. AccountsInv' /\ Touches(p, {"spent"})
  BY SpendsIs DEF EngineInv
<1>2. UNCHANGED <<contest, said, tab, slipped, desk, request, now>> /\ LeftInv'
  BY SpendIs DEF Spends, seats, EngineInv
<1>3. HereInv'
  <2>1. \A q \in People : account[q].in => account'[q].in
    BY <1>1, InStays DEF EngineInv
  <2> QED BY <1>2, <2>1, HereStays DEF EngineInv, HereInv
<1> QED BY <1>1, <1>2, <1>3, SaidStays DEF EngineInv, ContestRow, RequestsInv, DesksInv

LEMMA WorldIs ==
  ASSUME EngineInv, Restocks \/ Clock
  PROVE  EngineInv' /\ UNCHANGED <<account, said, tab, slipped, desk, request>>
           /\ contest'.phase = contest.phase /\ contest'.set = contest.set /\ contest'.ends = contest.ends
<1>1. UNCHANGED <<account, said, tab, slipped, desk, request>> /\ LeftInv'
  BY SpendIs DEF Restocks, Clock, seats, engine, EngineInv
<1>2. ContestRow' /\ contest'.phase = contest.phase /\ contest'.set = contest.set /\ contest'.ends = contest.ends
  <2>1. CASE Restocks
    <3>1. contest' = [contest EXCEPT !.stocked = ~contest.stocked] /\ now' = now
      BY <2>1 DEF Restocks
    <3>2. contest'.stocked = ~contest.stocked
      BY <3>1 DEF EngineInv, ContestRow
    <3> QED BY <3>1, <3>2, ContestPartKeeps DEF EngineInv
  <2>2. CASE Clock
    BY <2>2 DEF Clock, engine, EngineInv, ContestRow
  <2> QED BY <2>1, <2>2
<1> QED BY <1>1, <1>2, SaidStays DEF EngineInv, AccountsInv, HereInv, RequestsInv, DesksInv

\* A step of one page is of nobody else's.
TabOnly(p) == DOMAIN tab' = DOMAIN tab /\ \A q \in People \ {p} : tab'[q] = tab[q]

LEMMA TabWritten ==
  ASSUME NEW p \in People, NEW t, tab' = [tab EXCEPT ![p] = t]
  PROVE  TabOnly(p)
BY DEF TabOnly

LEMMA SeatTouches ==
  ASSUME LeftInv, HereInv, NEW p \in People, Follows(p) \/ Moves(p)
  PROVE  /\ contest' = contest /\ TabOnly(p) /\ LeftInv' /\ account[p].in
         /\ account' = account \/ account' = [account EXCEPT ![p] = Reported(p)]
         /\ tab[p] = None => tab'[p] = Mounted(State(p)) /\ account' = account /\ slipped' = slipped
<1>1. CASE Opens(p)
  BY <1>1, SpendIs DEF Opens, TabOnly, HereInv
<1>2. CASE ~Opens(p)
  <2>1. tab[p] # None
    BY <1>2 DEF Follows, Moves, Hears, Visible, ReadServed, ReadAnswered, Reloads, Returns, Resumes, Granted, Leaves
  <2>2. account[p].in
    BY <2>1 DEF HereInv
  <2>3. LeftInv'
    <3>1. left' = left \/ \E op : Spend(op)
      BY <1>2 DEF Follows, Moves, Hears, ReadServed, ReadAnswered, Reports, ReportServed, ReportAnswered,
                  Reloads, Returns, Resumes, Granted, Leaves, ReportLost
    <3> QED BY <3>1, SpendIs DEF LeftInv
  <2>4. contest' = contest /\ (account' = account \/ account' = [account EXCEPT ![p] = Reported(p)])
    BY <1>2 DEF Follows, Moves, Hears, ReadServed, ReadAnswered, Reports, ReportServed, ReportAnswered,
                Reloads, Returns, Resumes, Granted, Leaves, ReportLost
  <2>5. TabOnly(p)
    <3>1. CASE Hears(p) \/ ReadServed(p) \/ ReadAnswered(p)
      <4>1. \E t : tab' = [tab EXCEPT ![p] = t]
        BY <3>1 DEF Hears, ReadServed, ReadAnswered
      <4> QED BY <4>1, TabWritten
    <3>2. CASE \E way \in tab[p].slips : Reports(p, way)
      <4>1. \E t : tab' = [tab EXCEPT ![p] = t]
        BY <3>2 DEF Reports
      <4> QED BY <4>1, TabWritten
    <3>3. CASE \E q \in tab[p].posts : ReportServed(p, q) \/ ReportAnswered(p, q) \/ ReportLost(p, q)
      <4>1. \E t : tab' = [tab EXCEPT ![p] = t]
        BY <3>3 DEF ReportServed, ReportAnswered, ReportLost
      <4> QED BY <4>1, TabWritten
    <3>4. CASE Reloads(p) \/ Returns(p) \/ Resumes(p) \/ Granted(p)
      <4>1. \E t : tab' = [tab EXCEPT ![p] = t]
        BY <3>4 DEF Reloads, Returns, Resumes, Granted
      <4> QED BY <4>1, TabWritten
    <3>5. CASE \E ways \in Ways : Leaves(p, ways)
      <4>1. \E t : tab' = [tab EXCEPT ![p] = t]
        BY <3>5 DEF Leaves
      <4> QED BY <4>1, TabWritten
    <3> QED BY <1>2, <3>1, <3>2, <3>3, <3>4, <3>5 DEF Follows, Moves
  <2> QED BY <2>1, <2>2, <2>3, <2>4, <2>5
<1> QED BY <1>1, <1>2

LEMMA SeatIs ==
  ASSUME EngineInv, NEW p \in People, Seat(p)
  PROVE  EngineInv' /\ UNCHANGED <<contest, said, desk, request, now>>
<1>1. UNCHANGED <<desk, request, said, now>> /\ (Follows(p) \/ Moves(p))
  BY DEF Seat
<1>2. /\ contest' = contest /\ TabOnly(p) /\ LeftInv' /\ account[p].in
      /\ account' = account \/ account' = [account EXCEPT ![p] = Reported(p)]
  BY <1>1, SeatTouches DEF EngineInv
<1>3. AccountsInv' /\ \A q \in People : account[q].in => account'[q].in
  <2>1. CASE account' = account
    BY <2>1 DEF EngineInv, AccountsInv
  <2>2. CASE account' = [account EXCEPT ![p] = Reported(p)]
    <3>1. PICK b : b = Reported(p)
      OBVIOUS
    <3>2. AccountOK(b) /\ Keeps(b, account[p], {"alerts", "rows", "locked"})
      BY <1>2, <3>1, ReportedIs DEF EngineInv
    <3>3. b.in = account[p].in
      BY <3>2 DEF Keeps, AccountFields
    <3>4. AccountsInv' /\ Only(p, b)
      BY <2>2, <3>1, <3>2, AccountChanges DEF EngineInv
    <3> QED BY <3>3, <3>4, <1>2 DEF Only
  <2> QED BY <1>2, <2>1, <2>2
<1>4. HereInv'
  BY <1>2, <1>3 DEF EngineInv, HereInv, TabOnly
<1> QED BY <1>1, <1>2, <1>3, <1>4, SaidStays DEF EngineInv, ContestRow, RequestsInv, DesksInv

LEMMA ResetIs ==
  ASSUME EngineInv, NEW o \in Organisers, ResetServed(o)
  PROVE  EngineInv' /\ contest'.phase = "registration" /\ contest'.set = contest.set
<1>1. /\ contest' = [contest EXCEPT !.phase = "registration", !.ends = None, !.reg = TRUE]
      /\ account' = [p \in People |-> Stranger] /\ said' = << >> /\ tab' = [p \in People |-> None]
      /\ request[o] # None /\ request' = [request EXCEPT ![o].at = "committed"] /\ "committed" \notin {"sent", "checked"}
      /\ UNCHANGED <<left, desk, now>>
  BY DEF ResetServed
<1>2. RequestsInv'
  <2>1. RequestsInv
    BY DEF EngineInv
  <2> QED BY <1>1, <2>1, RequestMovesOn, Zenon
<1>3. ContestRow' /\ contest'.phase = "registration" /\ contest'.set = contest.set
  BY <1>1, PhaseNamesAre DEF EngineInv, ContestRow
<1>4. AccountsInv' /\ HereInv'
  <2>1. AccountsInv'
    BY <1>1, StrangerIs DEF AccountsInv
  <2> QED BY <1>1, <2>1 DEF HereInv
<1>5. SaidInv'
  <2>1. said' \in Seq(Words) /\ DOMAIN said' = {}
    BY <1>1
  <2>2. At("registration") = 1
    <3>1. Phases[1] = "registration"
      BY DEF Phases
    <3> QED BY <3>1, PhaseAt
  <2>3. Announced' = {}
    BY <2>1 DEF Announced
  <2>4. {said'[i] : i \in Announced'} = {Phases[k] : k \in 2..At(contest'.phase)}
    BY <1>3, <2>2, <2>3
  <2> QED BY <2>1, <2>3, <2>4 DEF SaidInv, AnnouncedInOrder
<1> QED BY <1>1, <1>2, <1>3, <1>4, <1>5 DEF EngineInv, LeftInv, DesksInv

LEMMA SetupSettlesIs ==
  ASSUME DeskAssumption, EngineInv, NEW o \in Organisers, SetupSettles(o)
  PROVE  /\ EngineInv' /\ UNCHANGED <<account, said, tab, slipped, desk, now, left>>
         /\ contest'.phase = contest.phase /\ contest'.ends = contest.ends
         /\ contest'.set.mode = contest.set.mode /\ contest'.set.proctoring = contest.set.proctoring
         /\ contest'.set.start = request[o].arg.start /\ request[o].arg \in Setups
<1>1. PICK setup : setup = request[o].arg
  OBVIOUS
<1>2. setup \in Setups /\ request[o] # None
  BY <1>1 DEF SetupSettles, EngineInv, RequestsInv, RequestOK
<1>3. PICK set : set = [contest.set EXCEPT !.start = setup.start, !.board = setup.board]
  OBVIOUS
<1>4. setup.start \in Nat /\ setup.board \in {"live", "hidden"} /\ contest.set \in Settings
  BY <1>2 DEF DeskAssumption, EngineInv, ContestRow
<1>5. set \in Settings /\ set.mode = contest.set.mode /\ set.proctoring = contest.set.proctoring /\ set.start = setup.start
  BY <1>3, <1>4 DEF Settings
<1>6. /\ contest' = [contest EXCEPT !.set = set]
      /\ request' = [request EXCEPT ![o].at = "settled"] /\ "settled" \notin {"sent", "checked"}
      /\ UNCHANGED <<account, said, tab, slipped, desk, now, left>>
  BY <1>1, <1>3 DEF SetupSettles, seats, EngineInv, ContestRow
<1>7. ContestRow' /\ contest'.phase = contest.phase /\ contest'.set = set /\ contest'.ends = contest.ends
  BY <1>5, <1>6, SettingsSaved DEF EngineInv
<1>8. RequestsInv'
  <2>1. RequestsInv
    BY DEF EngineInv
  <2> QED BY <1>2, <1>6, <2>1, RequestMovesOn, Zenon
<1>9. EngineInv'
  BY <1>6, <1>7, <1>8, SaidStays DEF EngineInv, LeftInv, AccountsInv, HereInv, DesksInv
<1> QED BY <1>1, <1>2, <1>5, <1>6, <1>7, <1>9

LEMMA SetupRestoresIs ==
  ASSUME EngineInv, NEW o \in Organisers, SetupRestores(o)
  PROVE  EngineInv' /\ UNCHANGED <<contest, account, said, tab, slipped, desk, now, left>>
<1>1. /\ request[o] # None
      /\ request' = [request EXCEPT ![o].at = "committed"] /\ "committed" \notin {"sent", "checked"}
      /\ UNCHANGED <<contest, account, said, tab, slipped, desk, now, left>>
  BY DEF SetupRestores, engine, seats
<1>2. RequestsInv'
  <2>1. RequestsInv
    BY DEF EngineInv
  <2> QED BY <1>1, <2>1, RequestMovesOn, Zenon
<1>3. LeftInv' /\ DesksInv'
  BY <1>1 DEF EngineInv, LeftInv, DesksInv
<1> QED BY <1>1, <1>2, <1>3, EngineStays

LEMMA ShelfSpends ==
  ASSUME ShelfNext
  PROVE  left' = left \/ \E op : Spend(op)
<1>1. ASSUME NEW o \in left.organisers, Serves(o)
      PROVE  left' = left
  BY <1>1 DEF Serves, UploadReads, UploadClaims, UploadFills, ImportDescribes, MaybeGoesLive, ValidateRuns,
              ValidateMarks, PublishSwaps, PublishCommits, PublishRejudges, DescribeServed, ReorderServed
<1>2. ASSUME NEW o \in left.organisers, Shops(o)
      PROVE  left' = left \/ \E op : Spend(op)
  BY <1>2 DEF Shops, ShopLoads, OpensDetails, EditsPlace, OpensOrder, Drags, UploadsVersion, Creates, Imports,
              ValidatesOne, ValidatesAll, PublishesLatest, SavesDetails, SavesOrder, ShopAnswered, ShopRefused
<1>3. CASE CompetitorSubmits \/ JudgeRuns
  BY <1>3 DEF CompetitorSubmits, JudgeRuns
<1> QED BY <1>1, <1>2, <1>3 DEF ShelfNext

LEMMA ShelfLeaves ==
  ASSUME LeftInv, ShelfNext
  PROVE  LeftInv'
BY ShelfSpends, SpendIs DEF LeftInv

LEMMA ShelfKeepsTheBooks ==
  ASSUME EngineInv, ShelfNext, UNCHANGED <<engine, seats, desk, request, now>>
  PROVE  EngineInv'
<1>1. UNCHANGED <<contest, account, said, tab, desk, request, now>>
  BY DEF engine, seats
<1>2. LeftInv' /\ RequestsInv' /\ DesksInv'
  BY <1>1, ShelfLeaves DEF EngineInv, RequestsInv, DesksInv
<1> QED BY <1>1, <1>2, EngineStays

-----------------------------------------------------------------------------
(* The contest as it starts, and as it goes on.                             *)

LEMMA SaidSoFar ==
  ASSUME NEW phase \in PhaseNames, said = SubSeq(Phases, 2, At(phase)), contest.phase = phase
  PROVE  SaidInv
<1> DEFINE k == At(phase)
<1>1. k \in 1..9 /\ Len(Phases) = 9
  BY PhaseIs, PhaseNamesAre
<1>2. Phases \in Seq(PhaseNames)
  <2>1. Phases = [i \in 1..9 |-> Phases[i]] /\ \A i \in 1..9 : Phases[i] \in PhaseNames
    BY PhaseAt DEF Phases
  <2> QED BY <2>1
<1> HIDE DEF k
<1>3. /\ said \in Seq(PhaseNames)
      /\ Len(said) = k - 1
      /\ \A i \in 1..(k - 1) : said[i] = Phases[i + 1]
  <2>1. said = SubSeq(Phases, 2, k)
    BY DEF k
  <2>6. PICK m \in Int, n \in Int : m = 2 /\ n = k
    BY <1>1
  <2>2. PICK s, S : s = Phases /\ S = PhaseNames
    OBVIOUS
  <2>4. \A i \in m..n : s[i] \in S
    BY <1>1, <2>2, <2>6, PhaseAt
  <2>5. /\ SubSeq(s, m, n) \in Seq(S)
        /\ Len(SubSeq(s, m, n)) = (IF m <= n THEN n - m + 1 ELSE 0)
        /\ \A i \in 1..(n - m + 1) : SubSeq(s, m, n)[i] = s[m + i - 1]
    BY <2>4, SubSeqProperties
  <2>3. /\ said \in Seq(PhaseNames) /\ Len(said) = (IF 2 <= k THEN k - 2 + 1 ELSE 0)
        /\ \A i \in 1..(k - 2 + 1) : said[i] = Phases[2 + i - 1]
    BY <2>1, <2>2, <2>5, <2>6
  <2> QED BY <2>3, <1>1
<1>4. Announced = 1..(k - 1)
  <2>1. DOMAIN said = 1..(k - 1)
    BY <1>1, <1>3
  <2>2. \A i \in 1..(k - 1) : said[i] \in Range(Phases)
    BY <1>1, <1>3, PhaseAt DEF PhaseNames
  <2> QED BY <2>1, <2>2 DEF Announced
<1>5. {said[i] : i \in Announced} = {Phases[j] : j \in 2..k}
  <2>1. ASSUME NEW j \in 2..k
        PROVE  Phases[j] \in {said[i] : i \in Announced}
    <3>1. j - 1 \in Announced /\ said[j - 1] = Phases[j]
      BY <1>1, <1>3, <1>4
    <3> QED BY <3>1
  <2>2. ASSUME NEW i \in Announced
        PROVE  said[i] \in {Phases[j] : j \in 2..k}
    BY <1>1, <1>3, <1>4
  <2> QED BY <2>1, <2>2
<1>6. ASSUME NEW i \in Announced, NEW j \in Announced, i < j
      PROVE  At(said[i]) < At(said[j])
  <2>0. i + 1 \in 1..9 /\ j + 1 \in 1..9 /\ said[i] = Phases[i + 1] /\ said[j] = Phases[j + 1]
    BY <1>1, <1>3, <1>4
  <2>1. At(said[i]) = i + 1 /\ At(said[j]) = j + 1
    BY <2>0, PhaseAt
  <2>2. i \in Int /\ j \in Int /\ i < j
    BY <1>6, <1>1, <1>4
  <2>3. i + 1 < j + 1
    BY <2>2
  <2> QED BY <2>1, <2>3
<1>7. At(contest.phase) = k
  BY DEF k
<1>8. said \in Seq(Words)
  <2>1. PhaseNames \subseteq Words
    BY DEF Words
  <2> QED BY <2>1, <1>3
<1> QED BY <1>5, <1>6, <1>7, <1>8 DEF SaidInv, AnnouncedInOrder

LEMMA EngineInit ==
  ASSUME DeskAssumption, Init
  PROVE  EngineInv
<1>1. LeftInv /\ \A p \in left.seated \cup left.through : p \in left.people
  BY DEF Init, DeskAssumption, LeftInv, PhaseNames
<1>2. PICK set : set = [Defaults EXCEPT !.proctoring = left.held]
  OBVIOUS
<1>3. set \in Settings
  BY <1>1, <1>2 DEF DeskAssumption, Settings, LeftInv
<1>4. contest = [phase |-> left.phase, ends |-> IF left.phase \in Timed THEN Minutes ELSE None,
                 reg |-> left.phase = "registration", stocked |-> TRUE, set |-> set] /\ now = 0
  BY <1>2 DEF Init
<1>5. ContestRow
  <2>1. left.phase \in PhaseNames /\ Minutes \in Nat
    BY <1>1 DEF LeftInv, DeskAssumption
  <2> QED BY <1>3, <1>4, <2>1 DEF ContestRow, Timed
<1>6. AccountsInv
  <2>0. account = [p \in People |->
          IF p \notin left.people THEN Stranger
          ELSE [Stranger EXCEPT !.in = TRUE, !.advanced = p \in left.through,
                                !.granted = IF p \in left.through THEN Defaults.start ELSE 0]]
    BY DEF Init
  <2>1. ASSUME NEW p \in People
        PROVE  AccountOK(account[p])
    <3>1. CASE p \notin left.people
      BY <2>0, <3>1, StrangerIs
    <3>2. CASE p \in left.people
      <4>1. PICK g \in Nat : g = IF p \in left.through THEN Defaults.start ELSE 0
        BY DEF DeskAssumption, Settings
      <4>2. PICK adv : adv = (p \in left.through) /\ adv \in BOOLEAN
        <5>1. (p \in left.through) \in BOOLEAN
          OBVIOUS
        <5> QED BY <5>1, Zenon
      <4>3. account[p] = [Entered(g) EXCEPT !.advanced = adv]
        <5> DEFINE s == Stranger
        <5>1. account[p] = [s EXCEPT !.in = TRUE, !.advanced = adv, !.granted = g]
          BY <2>0, <3>2, <4>1, <4>2
        <5>2. s = [f \in AccountFields |-> s[f]]
          BY StrangerIs DEF AccountOK, AccountShape
        <5>3. Entered(g) = [s EXCEPT !.in = TRUE, !.granted = g]
          BY DEF Entered
        <5> HIDE DEF s
        <5>4. [s EXCEPT !.in = TRUE, !.advanced = adv, !.granted = g] = [[s EXCEPT !.in = TRUE, !.granted = g] EXCEPT !.advanced = adv]
          BY <5>2 DEF AccountFields
        <5> QED BY <5>1, <5>3, <5>4
      <4>4. PICK e, b : e = Entered(g) /\ b = account[p]
        OBVIOUS
      <4>5. AccountOK(e) /\ e.in
        BY <4>4, EnteredIs
      <4>9. PICK d \in Int : d = 0
        OBVIOUS
      <4>6. b = WithChoice(e, adv, d)
        <5>1. b = [e EXCEPT !.advanced = adv]
          BY <4>3, <4>4
        <5>2. e.granted + 0 = e.granted /\ e = [f \in AccountFields |-> e[f]]
          BY <4>5 DEF AccountOK, AccountShape, AccountNumbers
        <5>3. [e EXCEPT !.advanced = adv] = [e EXCEPT !.advanced = adv, !.granted = e.granted + 0]
          BY <5>2 DEF AccountFields
        <5> QED BY <4>9, <5>1, <5>3 DEF WithChoice
      <4>7. Affords(e, d)
        BY <4>5, <4>9 DEF Affords, AccountOK, AccountNumbers
      <4>10. AccountOK(e) /\ e.in /\ adv \in BOOLEAN /\ d \in Int
        BY <4>2, <4>5, <4>9
      <4>8. IsChoice(b, e, adv, d)
        BY <4>10, <4>6, <4>7, SelectedIs
      <4> QED BY <4>4, <4>8 DEF IsChoice
    <3> QED BY <3>1, <3>2
  <2> QED BY <2>0, <2>1 DEF AccountsInv
<1>7. HereInv
  <2>1. \A p \in left.people : p \in People => account[p].in
    BY DEF Init, Stranger
  <2>2. tab = [p \in People |-> IF p \in left.seated THEN Mounted(State(p)) ELSE None]
    BY DEF Init
  <2> QED BY <1>1, <2>1, <2>2 DEF HereInv
<1>8. RequestsInv /\ DesksInv
  BY DEF Init, RequestsInv, DesksInv, DeskOK
<1>9. SaidInv
  <2>1. PICK phase \in PhaseNames : phase = left.phase
    BY <1>1 DEF LeftInv
  <2>2. said = SubSeq(Phases, 2, At(phase))
    BY <2>1 DEF Init
  <2>3. contest.phase = phase
    BY <2>1, <1>4
  <2> QED BY <2>2, <2>3, SaidSoFar
<1> QED BY <1>1, <1>5, <1>6, <1>7, <1>8, <1>9 DEF EngineInv

LEMMA EngineNext ==
  ASSUME DeskAssumption, EngineInv, [Next]_vars
  PROVE  EngineInv'
<1>1. \A o \in left.organisers : o \in Organisers
  BY DEF EngineInv, LeftInv
<1>2. CASE Contest /\ UNCHANGED shelf
  BY <1>1, <1>2, EngineIs, PageIs, SeatIs, RegistersKeeps, SpendsKeeps, WorldIs DEF Contest
<1>3. CASE \E o \in left.organisers : ResetServed(o) \/ SetupSettles(o) \/ SetupRestores(o)
  BY <1>1, <1>3, ResetIs, SetupSettlesIs, SetupRestoresIs
<1>4. CASE ShelfNext /\ UNCHANGED <<engine, seats, desk, request, now>>
  BY <1>4, ShelfKeepsTheBooks
<1>5. CASE UNCHANGED vars
  <2>1. UNCHANGED <<contest, account, tab, left, desk, request, said, now>>
    BY <1>5 DEF vars
  <2>2. LeftInv' /\ RequestsInv' /\ DesksInv'
    BY <2>1 DEF EngineInv, LeftInv, RequestsInv, DesksInv
  <2> QED BY <2>1, <2>2, EngineStays
<1> QED BY <1>2, <1>3, <1>4, <1>5 DEF Next

\* Whatever organisers press, and in whatever order: the contest row, the rows of people, what
\* is asked and shown are what they are meant to be, and the phases that were begun are the
\* phases announced.
THEOREM EngineStands == Spec => []EngineInv
<1>1. Init => EngineInv
  BY DeskAssumption, EngineInit
<1>2. EngineInv /\ [Next]_vars => EngineInv'
  BY DeskAssumption, EngineNext
<1> QED BY <1>1, <1>2, PTL DEF Spec

\* What a step may not take from a round.
RoundKept ==
  /\ contest'.phase = contest.phase /\ contest.ends # None => contest'.ends >= contest.ends
  /\ IsAuction(contest.phase) /\ contest'.phase = contest.phase => contest'.set.mode = contest.set.mode

LEMMA RoundStays ==
  ASSUME ContestRow, contest' = contest \/ (contest'.ends = contest.ends /\ contest'.set.mode = contest.set.mode)
  PROVE  RoundKept
BY DEF RoundKept, ContestRow

LEMMA EngineKeepsTheRound ==
  ASSUME DeskAssumption, EngineInv, NEW o \in Organisers, Engine(o)
  PROVE  RoundKept
<1>0. ContestRow /\ request[o] # None
  BY DEF EngineInv, Engine
<1>1. CASE contest' = contest
  BY <1>0, <1>1, RoundStays
<1>2. CASE AdvanceServed(o) /\ contest' # contest
  <2>1. request[o].arg = contest.phase /\ RequestOK(request[o])
    BY <1>0, <1>2 DEF AdvanceServed, Moved, Fails, engine, EngineInv, RequestsInv
  <2>2. contest.phase \in PhaseNames \ {"ended"}
    BY <1>2, <2>1 DEF RequestOK, AdvanceServed
  <2>3. contest' = [contest EXCEPT !.phase = NextPhase(contest.phase), !.ends = Deadline(NextPhase(contest.phase))]
    BY <1>2, <2>1 DEF AdvanceServed, Fails, engine
  <2>4. NextPhase(contest.phase) # contest.phase /\ contest'.phase = NextPhase(contest.phase)
    BY <1>0, <2>2, <2>3, NextPhaseIs DEF ContestRow
  <2> QED BY <2>4 DEF RoundKept
<1>3. CASE ExtendServed(o) /\ contest' # contest
  <2>1. contest' = [contest EXCEPT !.ends = Extended(contest.ends)] /\ contest.ends # None
    BY <1>3 DEF ExtendServed, Fails, engine
  <2>2. contest'.ends = Extended(contest.ends) /\ contest'.set = contest.set /\ contest.ends \in Nat /\ now \in Nat
    BY <1>0, <2>1 DEF ContestRow
  <2>3. Extended(contest.ends) >= contest.ends
    BY <2>2 DEF Extended
  <2> QED BY <2>2, <2>3 DEF RoundKept
<1>4. CASE RegistrationServed(o)
  <2>1. contest' = [contest EXCEPT !.reg = request[o].arg]
    BY <1>4 DEF RegistrationServed
  <2>2. contest'.ends = contest.ends /\ contest'.set = contest.set
    BY <1>0, <2>1 DEF ContestRow
  <2> QED BY <1>0, <2>2, RoundStays
<1>5. CASE SaveServed(o) /\ contest' # contest
  <2>1. contest' = [contest EXCEPT !.set = request[o].arg] /\ ~ModeRefused(request[o].arg)
    BY <1>5 DEF SaveServed, Fails, engine
  <2>2. contest'.ends = contest.ends /\ contest'.set = request[o].arg
    BY <1>0, <2>1 DEF ContestRow
  <2>3. ~(contest'.set.mode # contest.set.mode /\ IsAuction(contest.phase))
    BY <2>1, <2>2 DEF ModeRefused
  <2>4. contest.ends # None => contest'.ends >= contest.ends
    BY <1>0, <2>2 DEF ContestRow
  <2> QED BY <2>3, <2>4 DEF RoundKept
<1> QED BY <1>0, <1>1, <1>2, <1>3, <1>4, <1>5
    DEF Engine, AdvanceChecks, AnnounceServed, CreateServed, UnlockServed, DisqualifyServed, RemoveServed,
        SelectReads, SelectServed, Publishes, Fails, Becomes, engine

LEMMA StepKeepsTheRound ==
  ASSUME DeskAssumption, EngineInv, [Next]_vars
  PROVE  RoundKept
<1>0. ContestRow /\ \A o \in left.organisers : o \in Organisers
  BY DEF EngineInv, LeftInv
<1>1. CASE Contest /\ UNCHANGED shelf
  <2>1. ASSUME NEW o \in Organisers, Page(o)
        PROVE  RoundKept
    BY <1>0, <2>1, PageIs, RoundStays
  <2>2. ASSUME NEW p \in People, Seat(p) \/ Registers(p) \/ Spends(p)
        PROVE  RoundKept
    BY <1>0, <2>2, SeatIs, RegistersKeeps, SpendsKeeps, RoundStays
  <2>3. CASE Restocks \/ Clock
    BY <1>0, <2>3, WorldIs, RoundStays
  <2> QED BY <1>0, <1>1, <2>1, <2>2, <2>3, EngineKeepsTheRound DEF Contest
<1>2. ASSUME NEW o \in Organisers, ResetServed(o)
      PROVE  RoundKept
  BY <1>0, <1>2, ResetIs DEF RoundKept, ContestRow, IsAuction
<1>3. ASSUME NEW o \in Organisers, SetupSettles(o) \/ SetupRestores(o)
      PROVE  RoundKept
  BY <1>0, <1>3, SetupSettlesIs, SetupRestoresIs, RoundStays
<1>4. CASE (ShelfNext /\ UNCHANGED <<engine, seats, desk, request, now>>) \/ UNCHANGED vars
  BY <1>0, <1>4, RoundStays DEF engine, vars
<1> QED BY <1>0, <1>1, <1>2, <1>3, <1>4 DEF Next

\* However often and late a round is extended, and whatever stale form is saved or setup
\* imported in it, its end is never moved forward and an auction stays online or offline.
THEOREM RoundsKept == Spec => RoundsStand
<1>1. EngineInv /\ [Next]_vars => RoundKept
  BY DeskAssumption, StepKeepsTheRound
<1>2. EngineInv /\ [Next]_vars => [contest'.phase = contest.phase /\ contest.ends # None => contest'.ends >= contest.ends]_vars
  BY <1>1 DEF RoundKept
<1>3. EngineInv /\ [Next]_vars => [IsAuction(contest.phase) /\ contest'.phase = contest.phase => contest'.set.mode = contest.set.mode]_vars
  BY <1>1 DEF RoundKept
<1> QED BY <1>2, <1>3, EngineStands, PTL DEF Spec, RoundsStand, RoundsKeepTheirTime, ModeHoldsForTheRound
-----------------------------------------------------------------------------
(* The shelf.                                                               *)

TaskFields == {"op", "at", "version", "confirmed", "ok", "arg"}

\* A request with its stage, and what goes with that, written.
LEMMA TaskStep ==
  ASSUME NEW t, TaskOK(t), NEW at, NEW s, s = [t EXCEPT !.at = at]
  PROVE  /\ s = [f \in TaskFields |-> s[f]] /\ s.at = at
         /\ s.op = t.op /\ s.version = t.version /\ s.confirmed = t.confirmed /\ s.confirmed \in Nat
         /\ at \in {"failed", "done"} => TaskOK(s)
<1>1. /\ s = [f \in TaskFields |-> s[f]] /\ s.at = at
      /\ s.op = t.op /\ s.version = t.version /\ s.confirmed = t.confirmed /\ s.confirmed \in Nat
  BY DEF TaskOK, TaskFields
<1>2. at \in {"failed", "done"} => TaskOK(s)
  BY <1>1 DEF TaskOK, TaskFields
<1> QED BY <1>1, <1>2

\* Nobody's request is disturbed by one that neither fills a directory nor publishes.
LEMMA Quiet ==
  ASSUME TasksInv, ClaimsInv, NEW o \in Organisers, NEW t, task' = [task EXCEPT ![o] = t],
         task[o] = None \/ task[o].at \notin {"swapped", "committed"},
         t = None \/ t.at \notin {"claimed", "swapped", "committed"}
  PROVE  ClaimsInv' /\ (Swapping' <=> Swapping) /\ (Rejudging' <=> Rejudging)
<1>1. /\ task'[o] = t /\ DOMAIN task' = Organisers
      /\ \A q \in Organisers \ {o} : task'[q] = task[q]
  BY DEF TasksInv
<1>2. Swapping' <=> Swapping
  BY <1>1 DEF Swapping
<1>3. Rejudging' <=> Rejudging
  BY <1>1 DEF Rejudging
<1>4. Alone("claimed")' /\ Alone("swapped")'
  BY <1>1 DEF ClaimsInv, Alone
<1> QED BY <1>2, <1>3, <1>4 DEF ClaimsInv

LEMMA TaskWritten ==
  ASSUME TasksInv, volume' = volume, NEW o \in Organisers, NEW t, task' = [task EXCEPT ![o] = t], t # None => TaskOK(t)
  PROVE  TasksInv'
<1>1. /\ task'[o] = t /\ DOMAIN task' = Organisers
      /\ \A q \in Organisers \ {o} : task'[q] = task[q]
  BY DEF TasksInv
<1>2. ASSUME NEW r, TaskOK(r)
      PROVE  TaskOK(r)'
  BY <1>2 DEF TaskOK, Latest
<1> QED BY <1>1, <1>2 DEF TasksInv

\* The row keeps the version it names, or names none.
RowKept ==
  question' # None => /\ question' = [f \in {"version", "validated", "order"} |-> question'[f]]
                      /\ question'.version = 0 \/ (question # None /\ question'.version = question.version)

LEMMA RowWritten ==
  ASSUME RowInv
  PROVE  /\ question' = question => RowKept
         /\ \A order, validated : question' = [Row(order) EXCEPT !.validated = validated] => RowKept
         /\ \A order : question' = Row(order) => RowKept
         /\ \A validated : question' = (IF question = None THEN None ELSE [question EXCEPT !.validated = validated]) => RowKept
         /\ \A order : question' = (IF question = None THEN None ELSE [question EXCEPT !.order = order]) => RowKept
BY DEF RowInv, RowKept, Row

\* A step that publishes nothing keeps the shelf in order.
LEMMA QuietStep ==
  ASSUME ShelfInductive, volume' = volume, subs' = subs, shop' = shop, Late(contest.phase) => Late(contest'.phase), RowKept,
         NEW o \in Organisers, NEW t, task' = [task EXCEPT ![o] = t], t # None => TaskOK(t),
         task[o] = None \/ task[o].at \notin {"swapped", "committed"},
         t = None \/ t.at \notin {"claimed", "swapped", "committed"}
  PROVE  ShelfInductive'
<1>1. TasksInv' /\ VolumeInv'
  BY TaskWritten DEF ShelfInductive, VolumeInv, Latest
<1>2. ClaimsInv' /\ (Swapping' <=> Swapping) /\ (Rejudging' <=> Rejudging)
  BY Quiet DEF ShelfInductive
<1>3. ShopsInv'
  BY DEF ShelfInductive, ShopsInv, ShopOK, Latest
<1>4. RowInv'
  BY <1>2 DEF ShelfInductive, RowInv, RowKept
<1>5. SubsInv'
  BY <1>2 DEF ShelfInductive, SubsInv, Latest
<1> QED BY <1>1, <1>2, <1>3, <1>4, <1>5 DEF ShelfInductive

\* Requests that end in one step, refused or done.
LEMMA EndsIs ==
  ASSUME ShelfInductive, volume' = volume, subs' = subs, shop' = shop, contest' = contest, RowKept,
         NEW o \in Organisers, task[o] # None, task[o].at \notin {"swapped", "committed"}, Step(o, "done") \/ Step(o, "failed")
  PROVE  ShelfInductive'
<1>1. PICK at \in {"done", "failed"} : task' = [task EXCEPT ![o].at = at]
  BY DEF Step
<1>2. PICK t : t = [task[o] EXCEPT !.at = at]
  OBVIOUS
<1>3. TaskOK(task[o])
  BY DEF ShelfInductive, TasksInv
<1>4. TaskOK(t) /\ t.at = at
  BY <1>2, <1>3, TaskStep
<1>5. task' = [task EXCEPT ![o] = t]
  BY <1>1, <1>2
<1> QED BY <1>4, <1>5, QuietStep

LEMMA UploadReadsIs ==
  ASSUME ShelfInductive, NEW o \in Organisers, UploadReads(o), contest' = contest
  PROVE  ShelfInductive'
<1>0. task[o] # None /\ task[o].at = "sent" /\ UNCHANGED <<volume, question, other, subs, counted, shop, left>>
  BY DEF UploadReads, Doing, stock
<1>1. RowKept
  BY <1>0, RowWritten DEF ShelfInductive
<1>2. CASE Step(o, "failed")
  BY <1>0, <1>1, <1>2, EndsIs
<1>3. CASE task' = [task EXCEPT ![o].at = "numbered", ![o].version = Latest + 1]
  <2>1. PICK r, t : r = task[o] /\ t = [r EXCEPT !.at = "numbered", !.version = Latest + 1]
    OBVIOUS
  <2>2. TaskOK(r)
    BY <1>0, <2>1 DEF ShelfInductive, TasksInv
  <2>3. t = [f \in TaskFields |-> t[f]] /\ t.at = "numbered" /\ t.version = Latest + 1 /\ t.confirmed \in Nat
    BY <2>1, <2>2 DEF TaskOK, TaskFields
  <2>4. Latest \in Nat
    BY DEF ShelfInductive, VolumeInv
  <2>5. TaskOK(t)
    BY <2>3, <2>4 DEF TaskOK, TaskFields
  <2>6. task' = [task EXCEPT ![o] = t]
    BY <1>3, <2>1
  <2> QED BY <1>0, <1>1, <2>3, <2>5, <2>6, QuietStep
<1> QED BY <1>2, <1>3 DEF UploadReads

LEMMA ImportDescribesIs ==
  ASSUME ShelfInductive, NEW o \in Organisers, ImportDescribes(o), contest' = contest
  PROVE  ShelfInductive'
<1>0. task[o] # None /\ task[o].at = "filled" /\ UNCHANGED <<volume, other, subs, counted, shop, left>>
  BY DEF ImportDescribes, Doing
<1>1. RowKept
  BY RowWritten DEF ShelfInductive, ImportDescribes
<1>2. CASE Step(o, "done")
  BY <1>0, <1>1, <1>2, EndsIs
<1>3. CASE Step(o, "described")
  <2>1. PICK t : t = [task[o] EXCEPT !.at = "described"]
    OBVIOUS
  <2>2. TaskOK(task[o])
    BY <1>0 DEF ShelfInductive, TasksInv
  <2>3. t = [f \in TaskFields |-> t[f]] /\ t.at = "described" /\ t.version = task[o].version /\ t.confirmed \in Nat
    BY <2>1, <2>2, TaskStep
  <2>4. t.version \in 1..Latest
    BY <1>0, <2>2, <2>3 DEF TaskOK
  <2>5. TaskOK(t)
    BY <2>3, <2>4 DEF TaskOK, TaskFields
  <2>6. task' = [task EXCEPT ![o] = t]
    BY <1>3, <2>1 DEF Step
  <2> QED BY <1>0, <1>1, <2>3, <2>5, <2>6, QuietStep
<1> QED BY <1>2, <1>3 DEF ImportDescribes

LEMMA MaybeGoesLiveIs ==
  ASSUME ShelfInductive, NEW o \in Organisers, MaybeGoesLive(o), contest' = contest
  PROVE  ShelfInductive'
<1>0. task[o] # None /\ task[o].at = "described" /\ UNCHANGED <<volume, question, other, subs, counted, shop, left>>
  BY DEF MaybeGoesLive, Doing, stock
<1>1. RowKept
  BY <1>0, RowWritten DEF ShelfInductive
<1>2. CASE Step(o, "done")
  BY <1>0, <1>1, <1>2, EndsIs
<1>3. CASE Step(o, "proven")
  <2>1. PICK t : t = [task[o] EXCEPT !.at = "proven"]
    OBVIOUS
  <2>2. TaskOK(task[o])
    BY <1>0 DEF ShelfInductive, TasksInv
  <2>3. t = [f \in TaskFields |-> t[f]] /\ t.at = "proven" /\ t.version = task[o].version /\ t.confirmed \in Nat
    BY <2>1, <2>2, TaskStep
  <2>4. t.version \in 1..Latest
    BY <1>0, <2>2, <2>3 DEF TaskOK
  <2>5. TaskOK(t)
    BY <2>3, <2>4 DEF TaskOK, TaskFields
  <2>6. task' = [task EXCEPT ![o] = t]
    BY <1>3, <2>1 DEF Step
  <2> QED BY <1>0, <1>1, <2>3, <2>5, <2>6, QuietStep
<1> QED BY <1>2, <1>3 DEF MaybeGoesLive

LEMMA RowServedIs ==
  ASSUME ShelfInductive, NEW o \in Organisers, ValidateMarks(o) \/ DescribeServed(o) \/ ReorderServed(o), contest' = contest
  PROVE  ShelfInductive'
<1>0. task[o] # None /\ task[o].at \in {"sent", "recorded"} /\ UNCHANGED <<volume, subs, counted, shop, left>>
  BY DEF ValidateMarks, DescribeServed, ReorderServed, Doing
<1>1. RowKept
  BY RowWritten DEF ShelfInductive, ValidateMarks, DescribeServed, ReorderServed, Placed
<1>2. Step(o, "done") \/ Step(o, "failed")
  BY DEF ValidateMarks, DescribeServed, ReorderServed
<1> QED BY <1>0, <1>1, <1>2, EndsIs

\* Versions are added and written to; none goes, and which of those there were are full stands.
Grows ==
  /\ Latest \in Nat /\ Latest' \in Nat /\ Latest' >= Latest
  /\ \A i \in 1..Latest : volume'.versions[i].full = volume.versions[i].full

LEMMA OthersStand ==
  ASSUME Grows, volume'.current = volume.current, NEW t, TaskOK(t)
  PROVE  TaskOK(t)'
BY DEF TaskOK, Grows

\* A step of one organiser, with what it does to the volume.
LEMMA VolumeStep ==
  ASSUME ShelfInductive, VolumeInv', Grows, volume'.current = volume.current,
         question' = question, subs' = subs, shop' = shop, contest' = contest,
         NEW o \in Organisers, NEW t, task' = [task EXCEPT ![o] = t], TaskOK(t)',
         task[o] = None \/ task[o].at \notin {"swapped", "committed"},
         t = None \/ t.at \notin {"claimed", "swapped", "committed"}
  PROVE  ShelfInductive'
<1>1. /\ task'[o] = t /\ DOMAIN task' = Organisers
      /\ \A q \in Organisers \ {o} : task'[q] = task[q]
  BY DEF ShelfInductive, TasksInv
<1>2. TasksInv'
  BY <1>1, OthersStand DEF ShelfInductive, TasksInv
<1>3. ClaimsInv' /\ (Swapping' <=> Swapping) /\ (Rejudging' <=> Rejudging)
  BY Quiet DEF ShelfInductive
<1>4. ShopsInv'
  BY DEF ShelfInductive, ShopsInv, ShopOK, Grows
<1>5. RowInv'
  BY <1>3 DEF ShelfInductive, RowInv
<1>6. SubsInv'
  BY <1>3 DEF ShelfInductive, SubsInv, Grows
<1> QED BY <1>2, <1>3, <1>4, <1>5, <1>6 DEF ShelfInductive

\* What is written of one version.
LEMMA VersionWritten ==
  ASSUME VolumeInv, NEW v \in 1..Latest, NEW w, VersionOK(w), volume' = [volume EXCEPT !.versions[v] = w]
  PROVE  /\ VolumeInv' /\ Latest' = Latest /\ volume'.current = volume.current
         /\ \A i \in 1..Latest : volume'.versions[i] = IF i = v THEN w ELSE volume.versions[i]
<1> DEFINE vs == [volume.versions EXCEPT ![v] = w]
<1>1. volume'.versions = vs /\ volume'.current = volume.current /\ volume' = [versions |-> vs, current |-> volume.current]
  BY DEF VolumeInv
<1>2. /\ vs = [i \in 1..Latest |-> vs[i]] /\ Latest \in Nat
      /\ \A i \in 1..Latest : vs[i] = IF i = v THEN w ELSE volume.versions[i]
  BY DEF VolumeInv
<1> HIDE DEF vs
<1>3. Latest' = Latest
  <2>1. Len(vs) = Latest
    BY <1>2
  <2> QED BY <1>1, <2>1 DEF Latest
<1>4. \A i \in 1..Latest : VersionOK(vs[i])
  BY <1>2 DEF VolumeInv
<1>5. VolumeInv'
  <2>1. volume' = [versions |-> volume'.versions, current |-> volume'.current]
    BY <1>1
  <2>2. volume'.versions = [i \in 1..Latest' |-> volume'.versions[i]] /\ Latest' \in Nat
    BY <1>1, <1>2, <1>3
  <2>3. \A i \in 1..Latest' : VersionOK(volume'.versions[i])
    BY <1>1, <1>3, <1>4
  <2>4. volume'.current \in 0..Latest'
    BY <1>1, <1>3 DEF VolumeInv
  <2> QED BY <2>1, <2>2, <2>3, <2>4 DEF VolumeInv, VersionOK
<1> QED BY <1>1, <1>2, <1>3, <1>5

LEMMA ValidateRunsIs ==
  ASSUME ShelfInductive, NEW o \in Organisers, ValidateRuns(o), contest' = contest
  PROVE  ShelfInductive'
<1> DEFINE r == task[o]
<1>0. r # None /\ r.at = "sent" /\ UNCHANGED <<question, other, subs, counted, shop, left>> /\ TaskOK(r)
  BY DEF ValidateRuns, Doing, ShelfInductive, TasksInv
<1>1. PICK v, ok : /\ v = (IF r.op = "validate" THEN r.version ELSE LatestOrCurrent)
                   /\ ok = (volume.versions[v].full /\ volume.versions[v].ok)
  OBVIOUS
<1>2. CASE v = 0
  <2>1. Step(o, "done") /\ volume' = volume
    BY <1>1, <1>2 DEF ValidateRuns
  <2>2. RowKept
    BY <1>0, RowWritten DEF ShelfInductive
  <2> QED BY <1>0, <2>1, <2>2, EndsIs
<1>3. CASE v # 0
  <2>1. v \in 1..Latest
    BY <1>0, <1>1, <1>3 DEF TaskOK, LatestOrCurrent, ShelfInductive, VolumeInv
  <2>2. PICK record : record = IF ok THEN "good" ELSE "bad"
    OBVIOUS
  <2>3. volume' = [volume EXCEPT !.versions[v].record = record]
    BY <1>1, <1>3, <2>2 DEF ValidateRuns
  <2>4. task' = [task EXCEPT ![o].at = "recorded", ![o].version = v, ![o].ok = ok]
    BY <1>1, <1>3 DEF ValidateRuns
  <2>5. PICK t : t = [r EXCEPT !.at = "recorded", !.version = v, !.ok = ok]
    OBVIOUS
  <2>6. task' = [task EXCEPT ![o] = t]
    BY <2>4, <2>5
  <2>7. t = [f \in TaskFields |-> t[f]] /\ t.at = "recorded" /\ t.version = v /\ t.confirmed \in Nat
    BY <1>0, <2>5 DEF TaskOK, TaskFields
  <2>8. PICK w : w = [volume.versions[v] EXCEPT !.record = record]
    OBVIOUS
  <2>9. VersionOK(w) /\ w.full = volume.versions[v].full
    <3>1. VersionOK(volume.versions[v])
      BY <2>1 DEF ShelfInductive, VolumeInv
    <3> QED BY <3>1, <2>8 DEF VersionOK
  <2>10. volume' = [volume EXCEPT !.versions[v] = w]
    BY <2>3, <2>8
  <2>11. /\ VolumeInv' /\ Latest' = Latest /\ volume'.current = volume.current
         /\ \A i \in 1..Latest : volume'.versions[i] = IF i = v THEN w ELSE volume.versions[i]
    BY <2>1, <2>9, <2>10, VersionWritten DEF ShelfInductive
  <2>12. Grows
    BY <2>9, <2>11 DEF Grows, ShelfInductive, VolumeInv
  <2>13. TaskOK(t)'
    BY <2>1, <2>7, <2>11 DEF TaskOK, TaskFields
  <2> QED BY <1>0, <2>6, <2>7, <2>11, <2>12, <2>13, VolumeStep
<1> QED BY <1>2, <1>3

LEMMA UploadFillsIs ==
  ASSUME ShelfInductive, NEW o \in Organisers, UploadFills(o), contest' = contest
  PROVE  ShelfInductive'
<1>0. /\ task[o] # None /\ task[o].at = "claimed" /\ UNCHANGED <<question, other, subs, counted, shop, left>>
      /\ TaskOK(task[o]) /\ VolumeInv /\ ClaimsInv /\ TasksInv
  BY DEF UploadFills, Doing, ShelfInductive, TasksInv
<1>1. PICK v, w : v = task[o].version /\ w = [full |-> TRUE, ok |-> task[o].arg.ok, record |-> task[o].arg.record]
  OBVIOUS
<1>2. v \in 1..Latest /\ VersionOK(w) /\ volume' = [volume EXCEPT !.versions[v] = w]
  BY <1>0, <1>1 DEF TaskOK, VersionOK, UploadFills
<1>3. /\ VolumeInv' /\ Latest' = Latest /\ volume'.current = volume.current
      /\ \A i \in 1..Latest : volume'.versions[i] = IF i = v THEN w ELSE volume.versions[i]
  BY <1>0, <1>2, VersionWritten
<1>4. PICK at \in {"filled", "done"} : Step(o, at)
  BY DEF UploadFills
<1>5. PICK t : t = [task[o] EXCEPT !.at = at]
  OBVIOUS
<1>6. t = [f \in TaskFields |-> t[f]] /\ t.at = at /\ t.version = v /\ t.confirmed \in Nat
  BY <1>0, <1>1, <1>5, TaskStep
<1>7. task' = [task EXCEPT ![o] = t]
  BY <1>4, <1>5 DEF Step
<1>8. /\ task'[o] = t /\ DOMAIN task' = Organisers
      /\ \A q \in Organisers \ {o} : task'[q] = task[q]
  BY <1>0, <1>7 DEF TasksInv
<1>9. TaskOK(t)'
  BY <1>2, <1>3, <1>4, <1>6 DEF TaskOK, TaskFields
<1>10. ASSUME NEW q \in Organisers \ {o}, task[q] # None
       PROVE  TaskOK(task[q])'
  <2>1. PICK s : s = task[q]
    OBVIOUS
  <2>2. TaskOK(s)
    BY <1>0, <1>10, <2>1 DEF TasksInv
  <2>3. s.at = "claimed" => s.version # v
    BY <1>0, <1>1, <1>10, <2>1 DEF ClaimsInv, Alone
  <2>4. TaskOK(s)'
    BY <1>3, <2>2, <2>3 DEF TaskOK
  <2>5. task'[q] = s
    BY <1>8, <2>1
  <2> QED BY <2>4, <2>5
<1>11. TasksInv'
  BY <1>8, <1>9, <1>10 DEF TasksInv
<1>12. ClaimsInv' /\ (Swapping' <=> Swapping) /\ (Rejudging' <=> Rejudging)
  BY <1>0, <1>4, <1>6, <1>7, Quiet
<1>13. ShopsInv'
  BY <1>0, <1>3 DEF ShelfInductive, ShopsInv, ShopOK
<1>14. RowInv'
  BY <1>0, <1>3, <1>12 DEF ShelfInductive, RowInv
<1>15. SubsInv'
  BY <1>0, <1>3, <1>12 DEF ShelfInductive, SubsInv
<1> QED BY <1>3, <1>11, <1>12, <1>13, <1>14, <1>15 DEF ShelfInductive

LEMMA UploadClaimsIs ==
  ASSUME ShelfInductive, NEW o \in Organisers, UploadClaims(o), contest' = contest
  PROVE  /\ ShelfInductive' /\ Latest' = Latest + 1
         /\ \A i \in 1..Latest : volume'.versions[i] = volume.versions[i]
<1>0. /\ task[o] # None /\ task[o].at = "numbered" /\ UNCHANGED <<question, other, subs, counted, shop, left>>
      /\ TaskOK(task[o]) /\ VolumeInv /\ ClaimsInv /\ TasksInv
  BY DEF UploadClaims, Doing, ShelfInductive, TasksInv
<1>21. PICK n \in Nat : n = Latest
  BY <1>0 DEF VolumeInv
<1>1. PICK v, empty : v = Claimed(task[o].version) /\ empty = [full |-> FALSE, ok |-> FALSE, record |-> "none"] /\ n = Latest /\ n \in Nat
  BY <1>21
<1>2. v = n + 1
  BY <1>0, <1>1 DEF TaskOK, Claimed
<1>3. volume' = [volume EXCEPT !.versions = Append(volume.versions, empty)]
  <2>1. ~(v <= Latest)
    BY <1>1, <1>2
  <2> QED BY <1>1, <2>1 DEF UploadClaims
<1>4. PICK vs : vs = Append(volume.versions, empty)
  OBVIOUS
<1>5. /\ Len(vs) = n + 1 /\ vs = [i \in 1..(n + 1) |-> vs[i]] /\ vs[n + 1] = empty
      /\ \A i \in 1..n : vs[i] = volume.versions[i]
  <2>1. PICK S : S = {volume.versions[i] : i \in 1..n} \cup {empty}
    OBVIOUS
  <2>2. volume.versions = [i \in 1..n |-> volume.versions[i]] /\ \A i \in 1..n : volume.versions[i] \in S
    BY <1>0, <1>1, <2>1 DEF VolumeInv
  <2>3. volume.versions \in Seq(S) /\ Len(volume.versions) = n /\ empty \in S
    <3>1. PICK f : f = volume.versions
      OBVIOUS
    <3>2. f = [i \in 1..n |-> f[i]] /\ \A i \in 1..n : f[i] \in S
      BY <2>2, <3>1
    <3>3. f \in Seq(S) /\ Len(f) = n
      BY <3>2, <1>1
    <3> QED BY <2>1, <3>1, <3>3
  <2>4. /\ vs \in Seq(S) /\ Len(vs) = n + 1 /\ vs[n + 1] = empty
        /\ \A i \in 1..n : vs[i] = volume.versions[i]
    BY <1>4, <2>3, AppendProperties
  <2> QED BY <2>4
<1>6. volume'.versions = vs /\ volume'.current = volume.current /\ Latest' = n + 1
      /\ volume' = [versions |-> vs, current |-> volume.current]
  BY <1>0, <1>3, <1>4, <1>5 DEF VolumeInv, Latest
<1>7. VolumeInv'
  <2>1. \A i \in 1..(n + 1) : VersionOK(vs[i])
    <3>1. VersionOK(empty)
      BY <1>1 DEF VersionOK
    <3>2. \A i \in 1..n : VersionOK(volume.versions[i])
      BY <1>0, <1>1 DEF VolumeInv
    <3>3. ASSUME NEW i \in 1..(n + 1)
          PROVE  VersionOK(vs[i])
      <4>1. CASE i = n + 1
        BY <3>1, <4>1, <1>5
      <4>2. CASE i \in 1..n
        <5>1. vs[i] = volume.versions[i]
          BY <4>2, <1>5
        <5> QED BY <5>1, <4>2, <3>2
      <4> QED BY <1>1, <4>1, <4>2
    <3> QED BY <3>3
  <2>2. volume.current \in 0..(n + 1)
    BY <1>0, <1>1 DEF VolumeInv
  <2> QED BY <1>5, <1>6, <2>1, <2>2 DEF VolumeInv, VersionOK
<1>8. Grows
  <2>1. Latest \in Nat /\ Latest' \in Nat /\ Latest' >= Latest
    BY <1>1, <1>6
  <2>2. \A i \in 1..Latest : volume'.versions[i] = volume.versions[i]
    BY <1>1, <1>5, <1>6
  <2> QED BY <2>1, <2>2 DEF Grows
<1>9. PICK t : t = [task[o] EXCEPT !.at = "claimed", !.version = v]
  OBVIOUS
<1>10. task' = [task EXCEPT ![o] = t]
  BY <1>1, <1>9 DEF UploadClaims
<1>11. t = [f \in TaskFields |-> t[f]] /\ t.at = "claimed" /\ t.version = n + 1 /\ t.confirmed \in Nat
  BY <1>0, <1>2, <1>9 DEF TaskOK, TaskFields
<1>12. /\ task'[o] = t /\ DOMAIN task' = Organisers
       /\ \A q \in Organisers \ {o} : task'[q] = task[q]
  BY <1>0, <1>10 DEF TasksInv
<1>13. TaskOK(t)'
  <2>1. ~volume'.versions[n + 1].full
    BY <1>1, <1>5, <1>6
  <2> QED BY <1>1, <1>6, <1>11, <2>1 DEF TaskOK, TaskFields
<1>14. TasksInv'
  BY <1>0, <1>6, <1>8, <1>12, <1>13, OthersStand DEF TasksInv
<1>15. ClaimsInv'
  <2>1. Alone("swapped")'
    BY <1>0, <1>11, <1>12 DEF ClaimsInv, Alone
  <2>2. \A q \in Organisers \ {o} : task[q] # None /\ task[q].at = "claimed" => task[q].version # n + 1
    BY <1>0, <1>1 DEF TasksInv, TaskOK
  <2>3. Alone("claimed")'
    BY <1>0, <1>11, <1>12, <2>2 DEF ClaimsInv, Alone
  <2> QED BY <2>1, <2>3 DEF ClaimsInv
<1>16. Swapping' <=> Swapping
  BY <1>0, <1>11, <1>12 DEF Swapping
<1>17. Rejudging' <=> Rejudging
  BY <1>0, <1>11, <1>12 DEF Rejudging
<1>18. ShopsInv'
  BY <1>0, <1>1, <1>6 DEF ShelfInductive, ShopsInv, ShopOK
<1>19. RowInv'
  BY <1>0, <1>6, <1>16 DEF ShelfInductive, RowInv
<1>20. SubsInv'
  BY <1>0, <1>1, <1>6, <1>17 DEF ShelfInductive, SubsInv
<1> QED BY <1>1, <1>5, <1>6, <1>7, <1>14, <1>15, <1>18, <1>19, <1>20 DEF ShelfInductive

\* None is not a record, nor any function.
NoneIsNoFunction == \A S, T : None \notin [S -> T]

LEMMA TaskIsThere ==
  ASSUME NoneIsNoFunction, NEW t, t = [f \in TaskFields |-> t[f]]
  PROVE  t # None
<1>1. PICK T : T = {t[f] : f \in TaskFields}
  OBVIOUS
<1>2. t \in [TaskFields -> T]
  BY <1>1
<1> QED BY <1>2 DEF NoneIsNoFunction

LEMMA PublishSwapsIs ==
  ASSUME NoneIsNoFunction, ShelfInductive, NEW o \in Organisers, PublishSwaps(o), contest' = contest
  PROVE  ShelfInductive'
<1>0. /\ task[o] # None /\ task[o].at \in {"sent", "proven"} /\ UNCHANGED <<question, other, subs, counted, shop, left>>
      /\ TaskOK(task[o]) /\ VolumeInv /\ ClaimsInv /\ TasksInv /\ SubsInv /\ ShopsInv
      /\ task[o].op \in Publishers /\ task[o].version \in 1..Latest
  BY DEF PublishSwaps, Doing, ShelfInductive, TasksInv, TaskOK, Publishers
<1>1. CASE Step(o, "failed") /\ volume' = volume
  <2>1. RowKept
    BY <1>0, RowWritten DEF ShelfInductive
  <2> QED BY <1>0, <1>1, <2>1, EndsIs
<1>2. CASE ~(Step(o, "failed") /\ volume' = volume)
  <2>1. /\ Step(o, "swapped") /\ volume' = [volume EXCEPT !.current = task[o].version]
        /\ Affected = task[o].confirmed /\ LockIsFree
    BY <1>2 DEF PublishSwaps
  <2>2. PICK t : t = [task[o] EXCEPT !.at = "swapped"]
    OBVIOUS
  <2>3. t = [f \in TaskFields |-> t[f]] /\ t.at = "swapped" /\ t.op = task[o].op /\ t.version = task[o].version
        /\ t.confirmed = task[o].confirmed /\ t.confirmed \in Nat
    BY <1>0, <2>2, TaskStep
  <2>4. task' = [task EXCEPT ![o] = t]
    BY <2>1, <2>2 DEF Step
  <2>5. /\ task'[o] = t /\ DOMAIN task' = Organisers
        /\ \A q \in Organisers \ {o} : task'[q] = task[q]
    BY <1>0, <2>4 DEF TasksInv
  <2>6. volume'.versions = volume.versions /\ volume'.current = task[o].version /\ Latest' = Latest
        /\ volume' = [versions |-> volume'.versions, current |-> volume'.current]
    BY <1>0, <2>1 DEF VolumeInv, Latest
  <2>7. VolumeInv'
    BY <1>0, <2>6 DEF VolumeInv, VersionOK
  <2>8. \A q \in Organisers : task[q] # None => task[q].at # "swapped"
    BY <1>0, <2>1 DEF LockIsFree, Doing, TasksInv, TaskOK
  <2>9. TaskOK(t)'
    BY <1>0, <2>3, <2>6 DEF TaskOK, TaskFields
  <2>10. ASSUME NEW q \in Organisers \ {o}, task[q] # None
         PROVE  TaskOK(task[q])'
    <3>1. PICK s : s = task[q]
      OBVIOUS
    <3>2. TaskOK(s) /\ s.at # "swapped"
      BY <1>0, <2>8, <2>10, <3>1 DEF TasksInv
    <3>3. TaskOK(s)'
      BY <2>6, <3>2 DEF TaskOK
    <3>4. task'[q] = s
      BY <2>5, <3>1
    <3> QED BY <3>3, <3>4
  <2>11. TasksInv'
    BY <2>5, <2>9, <2>10 DEF TasksInv
  <2>12. ClaimsInv'
    <3>1. Alone("swapped")'
      BY <2>5, <2>8 DEF Alone
    <3>2. Alone("claimed")'
      BY <1>0, <2>3, <2>5 DEF ClaimsInv, Alone
    <3> QED BY <3>1, <3>2 DEF ClaimsInv
  <2>13. ShopsInv'
    BY <1>0, <2>6 DEF ShopsInv, ShopOK
  <2>14. RowInv'
    <3>1. t # None
      BY <2>3, TaskIsThere
    <3>2. Swapping'
      BY <2>3, <2>5, <3>1 DEF Swapping
    <3> QED BY <1>0, <3>2 DEF ShelfInductive, RowInv
  <2>15. SubsInv'
    <3>1. CASE subs = << >>
      BY <1>0, <2>6, <3>1 DEF SubsInv
    <3>2. CASE subs # << >>
      <4>1. Affected = Len(subs) /\ Len(subs) > 0
        BY <1>0, <3>2 DEF SubsInv, Affected, Late
      <4>2. t.confirmed > 0
        BY <2>1, <2>3, <4>1
      <4>3. Rejudging'
        <5>1. t # None
          BY <2>3, TaskIsThere
        <5> QED BY <2>3, <2>5, <4>2, <5>1 DEF Rejudging
      <4> QED BY <1>0, <2>6, <4>3 DEF SubsInv
    <3> QED BY <3>1, <3>2
  <2> QED BY <2>7, <2>11, <2>12, <2>13, <2>14, <2>15 DEF ShelfInductive
<1> QED BY <1>1, <1>2

LEMMA PublishCommitsIs ==
  ASSUME NoneIsNoFunction, ShelfInductive, NEW o \in Organisers, PublishCommits(o), contest' = contest
  PROVE  ShelfInductive'
<1>0. /\ task[o] # None /\ task[o].at = "swapped" /\ UNCHANGED <<volume, other, subs, shop, left>>
      /\ TaskOK(task[o]) /\ VolumeInv /\ ClaimsInv /\ TasksInv /\ SubsInv /\ ShopsInv
      /\ Step(o, "committed")
  BY DEF PublishCommits, Doing, ShelfInductive, TasksInv
<1>1. task[o].version = volume.current /\ task[o].version \in 1..Latest /\ task[o].op \in Publishers
  BY <1>0 DEF TaskOK
<1>2. PICK t : t = [task[o] EXCEPT !.at = "committed"]
  OBVIOUS
<1>3. t = [f \in TaskFields |-> t[f]] /\ t.at = "committed" /\ t.op = task[o].op /\ t.version = task[o].version
      /\ t.confirmed = task[o].confirmed /\ t.confirmed \in Nat
  BY <1>0, <1>2, TaskStep
<1>4. task' = [task EXCEPT ![o] = t]
  BY <1>0, <1>2 DEF Step
<1>5. /\ task'[o] = t /\ DOMAIN task' = Organisers
      /\ \A q \in Organisers \ {o} : task'[q] = task[q]
  BY <1>0, <1>4 DEF TasksInv
<1>6. TasksInv'
  <2>1. TaskOK(t)
    BY <1>1, <1>3 DEF TaskOK, TaskFields
  <2> QED BY <1>0, <1>4, <2>1, TaskWritten
<1>7. ClaimsInv'
  BY <1>0, <1>3, <1>5 DEF ClaimsInv, Alone
<1>8. RowInv'
  <2>1. CASE question = None
    BY <2>1 DEF PublishCommits, RowInv
  <2>2. CASE question # None
    <3>1. question = [f \in {"version", "validated", "order"} |-> question[f]]
      BY <2>2 DEF ShelfInductive, RowInv
    <3>2. PICK v, ok : v = task[o].version /\ ok = (volume.versions[v].record = "good")
      OBVIOUS
    <3>3. question' = [question EXCEPT !.version = v, !.validated = ok]
      BY <2>2, <3>2 DEF PublishCommits
    <3>4. question' = [f \in {"version", "validated", "order"} |-> question'[f]] /\ question'.version = volume'.current
      BY <1>0, <1>1, <3>1, <3>2, <3>3
    <3> QED BY <3>4 DEF RowInv
  <2> QED BY <2>1, <2>2
<1>9. Rejudging' <=> Rejudging
  <2>1. t # None
    BY <1>3, TaskIsThere
  <2> QED BY <1>0, <1>3, <1>5, <2>1 DEF Rejudging
<1>10. VolumeInv' /\ ShopsInv' /\ SubsInv'
  BY <1>0, <1>9 DEF VolumeInv, ShopsInv, ShopOK, SubsInv, Latest
<1> QED BY <1>6, <1>7, <1>8, <1>10 DEF ShelfInductive

LEMMA PublishRejudgesIs ==
  ASSUME ShelfInductive, NEW o \in Organisers, PublishRejudges(o), contest' = contest
  PROVE  ShelfInductive'
<1>0. /\ task[o] # None /\ task[o].at = "committed" /\ UNCHANGED <<volume, question, other, counted, shop, left>>
      /\ TaskOK(task[o]) /\ VolumeInv /\ ClaimsInv /\ TasksInv /\ SubsInv /\ ShopsInv /\ RowInv
      /\ Step(o, "done")
      /\ subs' = IF task[o].confirmed > 0 THEN [i \in DOMAIN subs |-> 0] ELSE subs
  BY DEF PublishRejudges, Doing, ShelfInductive, TasksInv, Requeued
<1>2. PICK t : t = [task[o] EXCEPT !.at = "done"]
  OBVIOUS
<1>3. TaskOK(t) /\ t.at = "done" /\ t.confirmed = task[o].confirmed
  BY <1>0, <1>2, TaskStep
<1>4. task' = [task EXCEPT ![o] = t]
  BY <1>0, <1>2 DEF Step
<1>5. /\ task'[o] = t /\ DOMAIN task' = Organisers
      /\ \A q \in Organisers \ {o} : task'[q] = task[q]
  BY <1>0, <1>4 DEF TasksInv
<1>6. TasksInv' /\ VolumeInv' /\ ShopsInv'
  BY <1>0, <1>3, <1>4, TaskWritten DEF VolumeInv, ShopsInv, ShopOK, Latest
<1>7. ClaimsInv' /\ (Swapping' <=> Swapping)
  BY <1>0, <1>3, <1>5 DEF ClaimsInv, Alone, Swapping
<1>8. RowInv'
  BY <1>0, <1>7 DEF RowInv
<1>9. SubsInv'
  <2>1. CASE task[o].confirmed > 0
    <3>1. subs' = [i \in 1..Len(subs) |-> 0] /\ Len(subs) \in Nat
      <4>1. DOMAIN subs = 1..Len(subs) /\ Len(subs) \in Nat
        BY <1>0 DEF SubsInv
      <4> QED BY <1>0, <2>1, <4>1
    <3>2. subs' \in Seq(Nat) /\ Len(subs') = Len(subs) /\ \A i \in 1..Len(subs') : subs'[i] = 0
      BY <3>1
    <3>3. subs' # << >> => subs # << >>
      BY <3>2
    <3>4. volume'.current = volume.current /\ Latest' \in Nat
      BY <1>0, <1>6 DEF VolumeInv
    <3> QED BY <1>0, <3>2, <3>3, <3>4 DEF SubsInv
  <2>2. CASE ~(task[o].confirmed > 0)
    <3>1. Rejudging' <=> Rejudging
      BY <1>0, <1>3, <1>5, <2>2 DEF Rejudging
    <3> QED BY <1>0, <2>2, <3>1 DEF SubsInv, Latest
  <2> QED BY <2>1, <2>2
<1> QED BY <1>6, <1>7, <1>8, <1>9 DEF ShelfInductive

LEMMA ServesIs ==
  ASSUME NoneIsNoFunction, ShelfInductive, NEW o \in Organisers, Serves(o), contest' = contest
  PROVE  ShelfInductive'
BY UploadReadsIs, UploadClaimsIs, UploadFillsIs, ImportDescribesIs, MaybeGoesLiveIs, ValidateRunsIs, RowServedIs,
   PublishSwapsIs, PublishCommitsIs, PublishRejudgesIs DEF Serves

-----------------------------------------------------------------------------
(* The problem pages, and everybody else.                                   *)

LEMMA ShopWritten ==
  ASSUME ShopsInv, volume' = volume, NEW o \in Organisers, NEW s, ShopOK(s), shop' = [shop EXCEPT ![o] = s]
  PROVE  ShopsInv'
<1>1. /\ shop'[o] = s /\ DOMAIN shop' = Organisers
      /\ \A q \in Organisers \ {o} : shop'[q] = shop[q]
  BY DEF ShopsInv
<1>2. ASSUME NEW r, ShopOK(r)
      PROVE  ShopOK(r)'
  BY <1>2 DEF ShopOK, Latest
<1> QED BY <1>1, <1>2 DEF ShopsInv

LEMMA ReloadedIs ==
  ASSUME VolumeInv, SubsInv, NEW s, ShopOK(s)
  PROVE  ShopOK(Reloaded(s))
<1>1. PICK blast \in Nat : blast = IF s.seen = None THEN Len(subs) ELSE IF s.seen.current # volume.current THEN Len(subs) ELSE s.blast
  BY DEF SubsInv, ShopOK
<1>2. PICK r : r = [s EXCEPT !.seen = Shown, !.blast = blast]
  OBVIOUS
<1>3. r = [f \in {"seen", "blast", "form", "list"} |-> r[f]] /\ r.seen = Shown /\ r.blast = blast
  BY <1>2 DEF ShopOK
<1>4. Shown.versions = Latest /\ Shown.current = volume.current /\ Latest \in Nat
  BY DEF Shown, VolumeInv
<1>5. ShopOK(r)
  BY <1>3, <1>4 DEF ShopOK
<1>6. Reloaded(s) = r
  BY <1>1, <1>2 DEF Reloaded
<1> QED BY <1>5, <1>6

\* A page is loaded or edited, and the request behind it is forgotten, or none is.
LEMMA PageStep ==
  ASSUME ShelfInductive, UNCHANGED <<volume, question, subs>>, contest' = contest, NEW o \in Organisers,
         NEW s, ShopOK(s), shop' = [shop EXCEPT ![o] = s],
         \/ task' = task
         \/ task' = [task EXCEPT ![o] = None] /\ task[o].at \notin {"swapped", "committed"}
  PROVE  ShelfInductive'
<1>1. ShopsInv'
  BY ShopWritten DEF ShelfInductive
<1>2. TasksInv' /\ ClaimsInv' /\ (Swapping' <=> Swapping) /\ (Rejudging' <=> Rejudging)
  <2>1. CASE task' = task
    <3>1. ASSUME NEW r, TaskOK(r)
          PROVE  TaskOK(r)'
      BY <3>1 DEF TaskOK, Latest
    <3>2. TasksInv'
      BY <2>1, <3>1 DEF ShelfInductive, TasksInv
    <3> QED BY <2>1, <3>2 DEF ShelfInductive, ClaimsInv, Alone, Swapping, Rejudging
  <2>2. CASE task' = [task EXCEPT ![o] = None] /\ task[o].at \notin {"swapped", "committed"}
    <3>1. PICK t : t = None
      OBVIOUS
    <3>2. task' = [task EXCEPT ![o] = t]
      BY <2>2, <3>1
    <3> QED BY <2>2, <3>1, <3>2, Quiet, TaskWritten DEF ShelfInductive
  <2> QED BY <2>1, <2>2
<1>3. VolumeInv' /\ SubsInv' /\ RowInv'
  BY <1>2 DEF ShelfInductive, VolumeInv, SubsInv, RowInv, Latest
<1> QED BY <1>1, <1>2, <1>3 DEF ShelfInductive

\* What is sent is a request that has not begun.
LEMMA AskedIs ==
  ASSUME ShelfInductive, UNCHANGED <<volume, question, subs, shop>>, Late(contest.phase) => Late(contest'.phase),
         NEW o \in Organisers, NEW op, NEW version, NEW confirmed \in Nat, NEW arg, Asked(o, op, version, confirmed, arg),
         op \in {"publish", "validate"} => version \in 1..Latest
  PROVE  ShelfInductive'
<1>1. PICK t : t = [op |-> op, at |-> "sent", version |-> version, confirmed |-> confirmed, ok |-> FALSE, arg |-> arg]
  OBVIOUS
<1>2. task[o] = None /\ task' = [task EXCEPT ![o] = t]
  BY <1>1 DEF Asked
<1>3. TaskOK(t) /\ t.at = "sent"
  BY <1>1 DEF TaskOK
<1>4. RowKept
  BY RowWritten DEF ShelfInductive
<1> QED BY <1>2, <1>3, <1>4, QuietStep

LEMMA ShopsIs ==
  ASSUME ShelfInductive, NEW o \in Organisers, Shops(o), contest' = contest
  PROVE  ShelfInductive'
<1>0. VolumeInv /\ SubsInv /\ ShopsInv /\ TasksInv /\ ShopOK(shop[o])
  BY DEF ShelfInductive, ShopsInv
<1>1. PICK r : r = shop[o]
  OBVIOUS
<1>2. ShopOK(r) /\ ShopOK(Reloaded(r))
  BY <1>0, <1>1, ReloadedIs
<1>3. CASE ShopLoads(o)
  <2>1. PICK s : s = Reloaded(r)
    OBVIOUS
  <2>2. shop' = [shop EXCEPT ![o] = s] /\ UNCHANGED <<volume, question, subs, task>>
    BY <1>1, <1>3, <2>1 DEF ShopLoads, stock
  <2> QED BY <1>2, <2>1, <2>2, PageStep
<1>4. CASE OpensDetails(o) \/ EditsPlace(o)
  <2>1. PICK form : shop' = [shop EXCEPT ![o].form = form]
    <3>1. CASE OpensDetails(o)
      BY <3>1 DEF OpensDetails
    <3>2. CASE EditsPlace(o)
      BY <3>2 DEF EditsPlace
    <3> QED BY <1>4, <3>1, <3>2
  <2>2. PICK s : s = [r EXCEPT !.form = form]
    OBVIOUS
  <2>3. ShopOK(s)
    BY <1>2, <2>2 DEF ShopOK
  <2>4. shop' = [shop EXCEPT ![o] = s] /\ UNCHANGED <<volume, question, subs, task>>
    BY <1>1, <1>4, <2>1, <2>2 DEF OpensDetails, EditsPlace, stock
  <2> QED BY <2>3, <2>4, PageStep
<1>5. CASE OpensOrder(o) \/ Drags(o)
  <2>1. PICK list : shop' = [shop EXCEPT ![o].list = list]
    <3>1. CASE OpensOrder(o)
      BY <3>1 DEF OpensOrder
    <3>2. CASE Drags(o)
      <4>1. PICK rows : shop' = [shop EXCEPT ![o].list.order = rows]
        BY <3>2 DEF Drags
      <4> QED BY <4>1
    <3> QED BY <1>5, <3>1, <3>2
  <2>2. PICK s : s = [r EXCEPT !.list = list]
    OBVIOUS
  <2>3. ShopOK(s)
    BY <1>2, <2>2 DEF ShopOK
  <2>4. shop' = [shop EXCEPT ![o] = s] /\ UNCHANGED <<volume, question, subs, task>>
    BY <1>1, <1>5, <2>1, <2>2 DEF OpensOrder, Drags, stock
  <2> QED BY <2>3, <2>4, PageStep
<1>6. ASSUME NEW op, NEW version, NEW confirmed \in Nat, NEW arg, Submit(o, op, version, confirmed, arg),
             op \in {"publish", "validate"} => version \in 1..Latest
      PROVE  ShelfInductive'
  <2>1. Asked(o, op, version, confirmed, arg) /\ UNCHANGED <<volume, question, subs, shop>>
    BY <1>6 DEF Submit, stock
  <2> QED BY <1>6, <2>1, AskedIs
<1>7. CASE UploadsVersion(o) \/ Creates(o) \/ Imports(o) \/ ValidatesAll(o) \/ SavesDetails(o) \/ SavesOrder(o)
  <2>1. PICK op \in {"upload", "create", "import", "validate all", "describe", "reorder"}, arg \in Zips \cup {None, shop[o].form, shop[o].list.order} :
            Submit(o, op, 0, 0, arg)
    <3>1. CASE UploadsVersion(o) \/ Creates(o) \/ Imports(o)
      BY <3>1 DEF UploadsVersion, Creates, Imports
    <3>2. CASE ValidatesAll(o)
      BY <3>2 DEF ValidatesAll
    <3>3. CASE SavesDetails(o)
      BY <3>3 DEF SavesDetails
    <3>4. CASE SavesOrder(o)
      BY <3>4 DEF SavesOrder
    <3> QED BY <1>7, <3>1, <3>2, <3>3, <3>4
  <2>2. PICK zero \in Nat : zero = 0
    OBVIOUS
  <2>3. Submit(o, op, zero, zero, arg)
    BY <2>1, <2>2
  <2>4. op \notin {"publish", "validate"}
    BY <2>1
  <2> QED BY <1>6, <2>3, <2>4
<1>8. CASE ValidatesOne(o)
  <2>1. PICK v \in 1..r.seen.versions : Submit(o, "validate", v, 0, None) /\ r.seen # None
    BY <1>1, <1>8 DEF ValidatesOne
  <2>2. v \in 1..Latest
    BY <1>0, <1>2, <2>1 DEF ShopOK, VolumeInv
  <2>3. PICK zero \in Nat, op \in {"validate"} : zero = 0
    OBVIOUS
  <2>4. Submit(o, op, v, zero, None)
    BY <2>1, <2>3
  <2> QED BY <1>6, <2>2, <2>4
<1>9. CASE PublishesLatest(o)
  <2>1. PICK v, blast : v = r.seen.versions /\ blast = r.blast /\ Submit(o, "publish", v, blast, None) /\ r.seen # None /\ v # 0
    BY <1>1, <1>9 DEF PublishesLatest
  <2>2. v \in 1..Latest /\ blast \in Nat
    BY <1>0, <1>2, <2>1 DEF ShopOK, VolumeInv
  <2>3. PICK op \in {"publish"} : TRUE
    OBVIOUS
  <2>4. Submit(o, op, v, blast, None)
    BY <2>1, <2>3
  <2> QED BY <1>6, <2>2, <2>4
<1>10. CASE ShopAnswered(o)
  <2>0. task[o] # None /\ task[o].at = "done" /\ UNCHANGED <<volume, question, subs>> /\ TaskOK(task[o])
    BY <1>0, <1>10 DEF ShopAnswered, stock, TasksInv
  <2>1. CASE task[o].op = "create"
    <3>1. PICK t, arg : t = [task[o] EXCEPT !.op = "describe", !.at = "sent", !.arg = arg] /\ task' = [task EXCEPT ![o] = t]
      BY <1>10, <2>1 DEF ShopAnswered
    <3>2. t = [f \in TaskFields |-> t[f]] /\ t.op = "describe" /\ t.at = "sent" /\ t.confirmed \in Nat
      BY <2>0, <3>1 DEF TaskOK, TaskFields
    <3>3. TaskOK(t)
      BY <3>2 DEF TaskOK, TaskFields
    <3>4. RowKept /\ shop' = shop
      BY <1>10, <2>0, <2>1, RowWritten DEF ShopAnswered, ShelfInductive
    <3> QED BY <2>0, <3>1, <3>2, <3>3, <3>4, QuietStep
  <2>2. CASE task[o].op # "create"
    <3>1. PICK list : list = [rows |-> Ids, order |-> Ids, started |-> LotsExist]
      OBVIOUS
    <3>2. PICK s : s = IF task[o].op = "reorder" THEN [r EXCEPT !.list = list] ELSE Reloaded(r)
      OBVIOUS
    <3>3. ShopOK(s)
      BY <1>2, <3>2 DEF ShopOK
    <3>4. shop' = [shop EXCEPT ![o] = s] /\ task' = [task EXCEPT ![o] = None]
      BY <1>1, <1>10, <2>2, <3>1, <3>2 DEF ShopAnswered
    <3> QED BY <2>0, <3>3, <3>4, PageStep
  <2> QED BY <2>1, <2>2
<1>11. CASE ShopRefused(o)
  <2>1. /\ task[o] # None /\ task[o].at \in {"failed", "done"} /\ task' = [task EXCEPT ![o] = None]
        /\ UNCHANGED <<volume, question, subs, shop>>
    BY <1>11 DEF ShopRefused, stock
  <2>2. PICK t : t = None
    OBVIOUS
  <2>3. RowKept
    BY <2>1, RowWritten DEF ShelfInductive
  <2>4. task' = [task EXCEPT ![o] = t]
    BY <2>1, <2>2
  <2> QED BY <2>1, <2>2, <2>3, <2>4, QuietStep
<1> QED BY <1>3, <1>4, <1>5, <1>7, <1>8, <1>9, <1>10, <1>11 DEF Shops

LEMMA SubmissionsAre ==
  ASSUME ShelfInductive, CompetitorSubmits \/ JudgeRuns, contest' = contest
  PROVE  ShelfInductive'
<1>0. /\ VolumeInv /\ SubsInv /\ UNCHANGED <<volume, question, other, counted, shop, task>>
      /\ Latest \in Nat /\ volume.current \in 0..Latest /\ subs \in Seq(Nat) /\ Latest' = Latest
  BY DEF ShelfInductive, VolumeInv, SubsInv, CompetitorSubmits, JudgeRuns, Latest
<1>1. SubsInv'
  <2>1. CASE CompetitorSubmits
    <3>1. subs' = Append(subs, 0) /\ Late(contest.phase)
      BY <2>1 DEF CompetitorSubmits, RoundOpen, Late
    <3>2. PICK zero \in Nat : zero = 0
      OBVIOUS
    <3>3. /\ subs' \in Seq(Nat) /\ Len(subs') = Len(subs) + 1 /\ subs'[Len(subs) + 1] = 0
          /\ \A i \in 1..Len(subs) : subs'[i] = subs[i]
      BY <1>0, <3>1, <3>2, AppendProperties
    <3>4. \A i \in 1..Len(subs') : subs'[i] = 0 \/ (i \in 1..Len(subs) /\ subs'[i] = subs[i])
      BY <1>0, <3>3
    <3>5. Rejudging' <=> Rejudging
      BY <1>0 DEF Rejudging
    <3>6. \A i \in 1..Len(subs') : subs'[i] \in 0..Latest
      BY <1>0, <3>4 DEF SubsInv
    <3>7. ~Rejudging => \A i \in 1..Len(subs') : subs'[i] \in {0, volume.current}
      BY <1>0, <3>4 DEF SubsInv
    <3> QED BY <1>0, <3>1, <3>3, <3>5, <3>6, <3>7 DEF SubsInv
  <2>2. CASE JudgeRuns
    <3>0. DOMAIN subs = 1..Len(subs)
      BY <1>0
    <3>1. PICK i \in 1..Len(subs) : subs' = [subs EXCEPT ![i] = volume.current]
      BY <2>2, <3>0 DEF JudgeRuns
    <3>2. /\ subs' \in Seq(Nat) /\ Len(subs') = Len(subs)
          /\ \A j \in 1..Len(subs) : subs'[j] = volume.current \/ subs'[j] = subs[j]
      BY <1>0, <3>1
    <3>3. subs # << >>
      BY <1>0, <3>1
    <3>4. Rejudging' <=> Rejudging
      BY <1>0 DEF Rejudging
    <3>6. \A j \in 1..Len(subs') : subs'[j] \in 0..Latest
      BY <1>0, <3>2 DEF SubsInv
    <3>7. ~Rejudging => \A j \in 1..Len(subs') : subs'[j] \in {0, volume.current}
      BY <1>0, <3>2 DEF SubsInv
    <3> QED BY <1>0, <3>2, <3>3, <3>4, <3>6, <3>7 DEF SubsInv
  <2> QED BY <2>1, <2>2
<1>2. ASSUME NEW r, TaskOK(r)
      PROVE  TaskOK(r)'
  BY <1>0, <1>2 DEF TaskOK
<1>3. TasksInv'
  BY <1>0, <1>2 DEF ShelfInductive, TasksInv
<1>4. VolumeInv' /\ ClaimsInv' /\ ShopsInv' /\ RowInv'
  BY <1>0 DEF ShelfInductive, VolumeInv, ClaimsInv, Alone, ShopsInv, ShopOK, RowInv, Swapping
<1> QED BY <1>1, <1>3, <1>4 DEF ShelfInductive

LEMMA ShelfNextIs ==
  ASSUME NoneIsNoFunction, LeftInv, ShelfInductive, ShelfNext, contest' = contest
  PROVE  ShelfInductive'
<1>1. \A o \in left.organisers : o \in Organisers
  BY DEF LeftInv
<1> QED BY <1>1, ServesIs, ShopsIs, SubmissionsAre DEF ShelfNext

\* Whoever has submitted is in Phase 2, and Phase 2 ends in no earlier phase but by a reset.
LateStays == Late(contest.phase) => Late(contest'.phase)

LEMMA ShelfStays ==
  ASSUME ShelfInductive, UNCHANGED shelf, LateStays
  PROVE  ShelfInductive'
<1>0. UNCHANGED <<volume, question, other, subs, counted, shop, task>>
  BY DEF shelf
<1>1. ASSUME NEW r, TaskOK(r)
      PROVE  TaskOK(r)'
  BY <1>0, <1>1 DEF TaskOK, Latest
<1>2. TasksInv'
  BY <1>0, <1>1 DEF ShelfInductive, TasksInv
<1>3. VolumeInv' /\ ClaimsInv' /\ ShopsInv' /\ RowInv'
  BY <1>0 DEF ShelfInductive, VolumeInv, ClaimsInv, Alone, ShopsInv, ShopOK, RowInv, Swapping, Latest
<1>4. SubsInv'
  BY <1>0 DEF ShelfInductive, SubsInv, LateStays, Rejudging, Latest
<1> QED BY <1>2, <1>3, <1>4 DEF ShelfInductive

LEMMA ContestGoesOn ==
  ASSUME DeskAssumption, EngineInv, Contest
  PROVE  LateStays
<1>0. ContestRow /\ \A o \in left.organisers : o \in Organisers
  BY DEF EngineInv, LeftInv
<1>1. ASSUME NEW o \in Organisers, Engine(o)
      PROVE  LateStays
  <2>0. request[o] # None
    BY <1>1 DEF Engine
  <2>1. CASE contest'.phase = contest.phase
    BY <2>1 DEF LateStays
  <2>2. CASE AdvanceServed(o) /\ contest' # contest
    <3>1. request[o].arg = contest.phase /\ RequestOK(request[o])
      BY <2>0, <2>2 DEF AdvanceServed, Moved, Fails, engine, EngineInv, RequestsInv
    <3>2. contest.phase \in PhaseNames \ {"ended"}
      BY <2>2, <3>1 DEF RequestOK, AdvanceServed
    <3>3. contest' = [contest EXCEPT !.phase = NextPhase(contest.phase), !.ends = Deadline(NextPhase(contest.phase))]
      BY <2>2, <3>1 DEF AdvanceServed, Fails, engine
    <3>4. contest'.phase = NextPhase(contest.phase)
      BY <1>0, <3>3 DEF ContestRow
    <3> QED BY <3>2, <3>4, NextPhaseIs DEF LateStays
  <2>3. CASE ~AdvanceServed(o)
    <3>1. contest' = contest \/ contest' = [contest EXCEPT !.ends = contest'.ends]
            \/ contest' = [contest EXCEPT !.reg = contest'.reg] \/ contest' = [contest EXCEPT !.set = contest'.set]
      BY <1>0, <1>1, <2>3 DEF Engine, AdvanceChecks, ExtendServed, RegistrationServed, AnnounceServed, SaveServed,
           CreateServed, UnlockServed, DisqualifyServed, RemoveServed, SelectReads, SelectServed, Publishes, Fails,
           Becomes, engine, ContestRow
    <3>2. contest'.phase = contest.phase
      BY <1>0, <3>1 DEF ContestRow
    <3> QED BY <2>1, <3>2
  <2> QED BY <2>1, <2>2, <2>3
<1>2. ASSUME contest'.phase = contest.phase
      PROVE  LateStays
  BY <1>2 DEF LateStays
<1>3. ASSUME NEW o \in Organisers, Page(o)
      PROVE  LateStays
  BY <1>2, <1>3, PageIs
<1>4. ASSUME NEW p \in People, Seat(p) \/ Registers(p) \/ Spends(p)
      PROVE  LateStays
  BY <1>2, <1>4, SeatIs, RegistersKeeps, SpendsKeeps
<1>5. CASE Restocks \/ Clock
  BY <1>2, <1>5, WorldIs
<1> QED BY <1>0, <1>1, <1>3, <1>4, <1>5 DEF Contest

LEMMA ResetClearsTheShelf ==
  ASSUME ShelfInductive, NEW o \in Organisers, ResetServed(o)
  PROVE  ShelfInductive'
<1>0. UNCHANGED <<volume, question, other, counted, shop, task>> /\ subs' = << >>
  BY DEF ResetServed
<1>1. ASSUME NEW r, TaskOK(r)
      PROVE  TaskOK(r)'
  BY <1>0, <1>1 DEF TaskOK, Latest
<1>2. TasksInv'
  BY <1>0, <1>1 DEF ShelfInductive, TasksInv
<1>3. VolumeInv' /\ ClaimsInv' /\ ShopsInv' /\ RowInv'
  BY <1>0 DEF ShelfInductive, VolumeInv, ClaimsInv, Alone, ShopsInv, ShopOK, RowInv, Swapping, Latest
<1>4. SubsInv'
  BY <1>0 DEF SubsInv
<1> QED BY <1>2, <1>3, <1>4 DEF ShelfInductive

LEMMA SetupOnTheShelf ==
  ASSUME DeskAssumption, EngineInv, ShelfInductive, NEW o \in Organisers, SetupSettles(o) \/ SetupRestores(o)
  PROVE  ShelfInductive'
<1>1. CASE SetupSettles(o)
  <2>1. contest'.phase = contest.phase
    BY <1>1, SetupSettlesIs
  <2>2. PICK zero \in Nat, zip \in {request[o].arg.zip}, op \in {"setup"} : zero = 0
    OBVIOUS
  <2>3. Asked(o, op, zero, zero, zip) /\ UNCHANGED <<volume, question, subs, shop>>
    BY <1>1, <2>2 DEF SetupSettles, stock
  <2>4. op \notin {"publish", "validate"}
    BY <2>2
  <2> QED BY <2>1, <2>3, <2>4, AskedIs
<1>2. CASE SetupRestores(o)
  <2>1. /\ task[o].at \in {"done", "failed"} /\ task' = [task EXCEPT ![o] = None]
        /\ UNCHANGED <<volume, subs, shop, contest>>
    BY <1>2 DEF SetupRestores, engine
  <2>2. RowKept
    BY <1>2, RowWritten DEF SetupRestores, Placed, ShelfInductive
  <2>3. PICK t : t = None
    OBVIOUS
  <2>4. task' = [task EXCEPT ![o] = t]
    BY <2>1, <2>3
  <2> QED BY <2>1, <2>2, <2>3, <2>4, QuietStep
<1> QED BY <1>1, <1>2

LEMMA ShelfInitIs ==
  ASSUME DeskAssumption, Init
  PROVE  ShelfInductive
<1>1. PICK n \in Nat : n = left.versions
  BY DEF Init, DeskAssumption
<1>0. /\ volume = [versions |-> [i \in 1..left.versions |-> [full |-> TRUE, ok |-> TRUE, record |-> "good"]],
                    current |-> left.versions]
      /\ question = IF left.versions = 0 THEN None ELSE [version |-> left.versions, validated |-> TRUE, order |-> 2]
      /\ subs = << >>
      /\ shop = [o \in Organisers |-> [seen |-> None, blast |-> 0, form |-> None, list |-> None]]
      /\ task = [o \in Organisers |-> None]
  BY DEF Init, ShelfInit
<1>2. PICK vs : vs = [i \in 1..n |-> [full |-> TRUE, ok |-> TRUE, record |-> "good"]]
  OBVIOUS
<1>3. volume = [versions |-> vs, current |-> n] /\ Len(vs) = n /\ \A i \in 1..n : VersionOK(vs[i])
  BY <1>0, <1>1, <1>2 DEF VersionOK
<1>4. VolumeInv
  BY <1>1, <1>2, <1>3 DEF VolumeInv, Latest
<1>5. RowInv
  <2>1. CASE n = 0
    BY <1>0, <1>1, <2>1 DEF RowInv
  <2>2. CASE n # 0
    <3>1. question = [version |-> n, validated |-> TRUE, order |-> 2] /\ volume.current = n
      BY <1>0, <1>1, <1>3, <2>2
    <3> QED BY <3>1 DEF RowInv
  <2> QED BY <2>1, <2>2
<1>6. SubsInv
  BY <1>0 DEF SubsInv
<1>7. TasksInv /\ ClaimsInv
  BY <1>0 DEF TasksInv, ClaimsInv, Alone
<1>8. ShopsInv
  <2>1. \A o \in Organisers : ShopOK(shop[o])
    BY <1>0 DEF ShopOK
  <2> QED BY <1>0, <2>1 DEF ShopsInv
<1> QED BY <1>4, <1>5, <1>6, <1>7, <1>8 DEF ShelfInductive

LEMMA StepOnTheShelf ==
  ASSUME NoneIsNoFunction, DeskAssumption, EngineInv, ShelfInductive, [Next]_vars
  PROVE  ShelfInductive'
<1>0. LeftInv /\ \A o \in left.organisers : o \in Organisers
  BY DEF EngineInv, LeftInv
<1>1. CASE Contest /\ UNCHANGED shelf
  BY <1>1, ContestGoesOn, ShelfStays
<1>2. CASE \E o \in left.organisers : ResetServed(o) \/ SetupSettles(o) \/ SetupRestores(o)
  BY <1>0, <1>2, ResetClearsTheShelf, SetupOnTheShelf
<1>3. CASE ShelfNext /\ UNCHANGED <<engine, seats, desk, request, now>>
  BY <1>0, <1>3, ShelfNextIs DEF engine
<1>4. CASE UNCHANGED vars
  BY <1>4, ShelfStays DEF vars, LateStays
<1> QED BY <1>1, <1>2, <1>3, <1>4 DEF Next

\* What the list and the problem's own page say of it agree: each is worked out by itself.
LEMMA PagesAgree ==
  ASSUME NEW v
  PROVE  /\ (StageOf(v) = "ready") <=> AllDone(v)
         /\ AllDone(v) => v.current # 0
<1>3. PICK S : S = Stages(v)
  OBVIOUS
<1>4. /\ DOMAIN S = {"package", "validate", "details", "publish"}
      /\ S["package"] = v.listed /\ S["details"] = (v.row # None) /\ S["publish"] = (v.listed /\ v.current # 0)
      /\ S["validate"] = ((v.listed /\ v.proven) \/ (v.row # None /\ v.row.validated))
  BY <1>3 DEF Stages
<1>5. AllDone(v) <=> S["package"] /\ S["details"] /\ S["publish"] /\ S["validate"]
  BY <1>3, <1>4 DEF AllDone
<1>1. AllDone(v) <=> /\ v.listed /\ v.row # None /\ v.listed /\ v.current # 0
                     /\ (v.listed /\ v.proven) \/ (v.row # None /\ v.row.validated)
  BY <1>4, <1>5, Zenon
<1>2. (StageOf(v) = "ready") <=> /\ v.listed /\ v.row # None /\ v.current # 0
                                 /\ v.proven \/ (v.row # None /\ v.row.validated)
  BY DEF StageOf
<1> QED BY <1>1, <1>2

LEMMA ShelfMeans ==
  ASSUME ShelfInductive
  PROVE  ShelfInv /\ ShelfOK
<1>1. ~Publishing => ~Swapping /\ ~Rejudging
  BY DEF Publishing, Swapping, Rejudging, Doing, ShelfInductive, TasksInv, TaskOK
<1>2. RowNamesTheLive
  BY <1>1 DEF ShelfInductive, RowInv, RowNamesTheLive
<1>3. RejudgedByTheLive
  BY <1>1 DEF ShelfInductive, SubsInv, RejudgedByTheLive
<1>4. ReadyIsServed
  <2>1. \A o \in Organisers : shop[o].seen # None /\ shop[o].seen.current # 0 => volume.current # 0
    BY DEF ShelfInductive, ShopsInv, ShopOK
  <2> QED BY <2>1, PagesAgree DEF ReadyIsServed, PackageBlocks
<1>5. ShelfOK
  BY DEF ShelfOK, ShelfInductive, VolumeInv, SubsInv, TasksInv, TaskOK
<1> QED BY <1>2, <1>3, <1>4, <1>5 DEF ShelfInv

\* However many upload, validate, publish and submit at once, the row names the live package,
\* what was counted is rejudged, and what the pages call ready is served.
THEOREM ShelfStands ==
  ASSUME NoneIsNoFunction
  PROVE  Spec => [](ShelfInv /\ ShelfOK)
<1>1. Init => ShelfInductive
  BY DeskAssumption, ShelfInitIs
<1>2. EngineInv /\ ShelfInductive /\ [Next]_vars => ShelfInductive'
  BY DeskAssumption, StepOnTheShelf
<1>3. ShelfInductive => ShelfInv /\ ShelfOK
  BY ShelfMeans
<1> QED BY <1>1, <1>2, <1>3, EngineStands, PTL DEF Spec

\* Every version that was full is there, full, and as good as it was.
VersionsStay ==
  \A i \in DOMAIN volume.versions : volume.versions[i].full =>
    /\ i \in DOMAIN volume'.versions /\ volume'.versions[i].full
    /\ volume'.versions[i].ok = volume.versions[i].ok

LEMMA VersionsGrow ==
  ASSUME VolumeInv, VolumeInv', Latest' >= Latest,
         \A i \in 1..Latest : volume.versions[i].full =>
           volume'.versions[i].full /\ volume'.versions[i].ok = volume.versions[i].ok
  PROVE  VersionsStay
<1>1. DOMAIN volume.versions = 1..Latest /\ Latest \in Nat
  BY DEF VolumeInv
<1>2. DOMAIN volume'.versions = 1..Latest' /\ Latest' \in Nat
  BY DEF VolumeInv
<1> QED BY <1>1, <1>2 DEF VersionsStay

LEMMA ServesTheVersions ==
  ASSUME NoneIsNoFunction, ShelfInductive, NEW o \in Organisers, Serves(o), contest' = contest
  PROVE  volume' = volume \/ VersionsStay
<1>0. VolumeInv /\ VolumeInv' /\ Latest \in Nat
  BY ServesIs DEF ShelfInductive, VolumeInv
<1>1. CASE UploadClaims(o)
  <2>1. Latest' = Latest + 1 /\ \A i \in 1..Latest : volume'.versions[i] = volume.versions[i]
    BY <1>1, UploadClaimsIs
  <2> QED BY <1>0, <2>1, VersionsGrow
<1>2. CASE UploadFills(o)
  <2>0. task[o] # None /\ task[o].at = "claimed" /\ TaskOK(task[o])
    BY <1>2 DEF UploadFills, Doing, ShelfInductive, TasksInv
  <2>1. PICK v, w : v = task[o].version /\ w = [full |-> TRUE, ok |-> task[o].arg.ok, record |-> task[o].arg.record]
    OBVIOUS
  <2>2. v \in 1..Latest /\ VersionOK(w) /\ volume' = [volume EXCEPT !.versions[v] = w] /\ ~volume.versions[v].full
    BY <1>2, <2>0, <2>1 DEF TaskOK, VersionOK, UploadFills
  <2>3. Latest' = Latest /\ \A i \in 1..Latest : volume'.versions[i] = IF i = v THEN w ELSE volume.versions[i]
    BY <1>0, <2>2, VersionWritten
  <2> QED BY <1>0, <2>2, <2>3, VersionsGrow
<1>3. CASE ValidateRuns(o) /\ volume' # volume
  <2>1. PICK v, record : volume' = [volume EXCEPT !.versions[v].record = record] /\ v = (IF task[o].op = "validate" THEN task[o].version ELSE LatestOrCurrent) /\ v # 0
    BY <1>3 DEF ValidateRuns
  <2>2. v \in 1..Latest
    <3>1. TaskOK(task[o]) /\ task[o].at = "sent"
      BY <1>3 DEF ValidateRuns, Doing, ShelfInductive, TasksInv
    <3>2. task[o].op = "validate" => task[o].version \in 1..Latest
      BY <3>1 DEF TaskOK
    <3>3. LatestOrCurrent \in 0..Latest
      BY <1>0 DEF VolumeInv, LatestOrCurrent
    <3> QED BY <1>0, <2>1, <3>2, <3>3
  <2>3. PICK w : w = [volume.versions[v] EXCEPT !.record = record]
    OBVIOUS
  <2>4. VersionOK(w) /\ w.full = volume.versions[v].full /\ w.ok = volume.versions[v].ok
    <3>1. VersionOK(volume.versions[v])
      BY <1>0, <2>2 DEF VolumeInv
    <3> QED BY <3>1, <2>3 DEF VersionOK
  <2>5. volume' = [volume EXCEPT !.versions[v] = w]
    BY <2>1, <2>3
  <2>6. Latest' = Latest /\ \A i \in 1..Latest : volume'.versions[i] = IF i = v THEN w ELSE volume.versions[i]
    BY <1>0, <2>2, <2>4, <2>5, VersionWritten
  <2> QED BY <1>0, <2>4, <2>6, VersionsGrow
<1>4. CASE PublishSwaps(o) /\ volume' # volume
  <2>1. volume' = [volume EXCEPT !.current = task[o].version]
    BY <1>4 DEF PublishSwaps
  <2>2. volume'.versions = volume.versions /\ Latest' = Latest
    BY <1>0, <2>1 DEF VolumeInv, Latest
  <2> QED BY <1>0, <2>2, VersionsGrow
<1> QED BY <1>1, <1>2, <1>3, <1>4
    DEF Serves, UploadReads, ImportDescribes, MaybeGoesLive, ValidateMarks, PublishCommits, PublishRejudges,
        DescribeServed, ReorderServed, stock

LEMMA StepOfTheVersions ==
  ASSUME NoneIsNoFunction, EngineInv, ShelfInductive, [Next]_vars
  PROVE  volume' = volume \/ VersionsStay
<1>0. \A o \in left.organisers : o \in Organisers
  BY DEF EngineInv, LeftInv
<1>1. CASE UNCHANGED shelf \/ UNCHANGED vars
  BY <1>1 DEF shelf, vars
<1>2. CASE \E o \in left.organisers : ResetServed(o) \/ SetupSettles(o) \/ SetupRestores(o)
  BY <1>2 DEF ResetServed, SetupSettles, SetupRestores, stock
<1>3. CASE ShelfNext /\ UNCHANGED <<engine, seats, desk, request, now>>
  <2>1. ASSUME NEW o \in Organisers, Serves(o)
        PROVE  volume' = volume \/ VersionsStay
    BY <1>3, <2>1, ServesTheVersions DEF engine
  <2>2. ASSUME NEW o \in Organisers, Shops(o)
        PROVE  volume' = volume
    BY <2>2 DEF Shops, ShopLoads, OpensDetails, EditsPlace, OpensOrder, Drags, UploadsVersion, Creates, Imports,
                ValidatesOne, ValidatesAll, PublishesLatest, SavesDetails, SavesOrder, ShopAnswered, ShopRefused,
                Submit, stock
  <2>3. CASE CompetitorSubmits \/ JudgeRuns
    BY <2>3 DEF CompetitorSubmits, JudgeRuns
  <2> QED BY <1>0, <1>3, <2>1, <2>2, <2>3 DEF ShelfNext
<1> QED BY <1>1, <1>2, <1>3 DEF Next

\* No upload ever writes over a version, and no validation or publish alters one.
THEOREM VersionsKept ==
  ASSUME NoneIsNoFunction
  PROVE  Spec => VersionsStand
<1>1. Init => ShelfInductive
  BY DeskAssumption, ShelfInitIs
<1>2. EngineInv /\ ShelfInductive /\ [Next]_vars => ShelfInductive'
  BY DeskAssumption, StepOnTheShelf
<1>3. EngineInv /\ ShelfInductive /\ [Next]_vars =>
        [\A i \in DOMAIN volume.versions : volume.versions[i].full =>
           /\ i \in DOMAIN volume'.versions /\ volume'.versions[i].full
           /\ volume'.versions[i].ok = volume.versions[i].ok]_<<volume>>
  BY StepOfTheVersions DEF VersionsStay
<1> QED BY <1>1, <1>2, <1>3, EngineStands, PTL DEF Spec, VersionsStand

-----------------------------------------------------------------------------
(* A competitor's page: what it shows, and what it owes the count.          *)

Good(t) == PageShape(t) /\ Watched(t)
Pending(t) == t.slips # {} /\ t.screen = "ok"

LEMMA OwedIs ==
  ASSUME NEW t, PageShape(t)
  PROVE  /\ IsFiniteSet(Unserved(t)) /\ Cardinality(Unserved(t)) \in Nat /\ Owed(t) \in Nat
         /\ Owed(t) = Cardinality(Unserved(t)) + (IF Pending(t) THEN 1 ELSE 0)
<1>1. Unserved(t) \subseteq t.posts /\ IsFiniteSet(t.posts)
  BY DEF Unserved, PageShape
<1>2. IsFiniteSet(Unserved(t))
  BY <1>1, FS_Subset
<1>3. Cardinality(Unserved(t)) \in Nat
  BY <1>2, FS_CardinalityType
<1> QED BY <1>2, <1>3 DEF Owed, Pending

\* A page with no more under way than there was owes no more.
LEMMA OwedShrinks ==
  ASSUME NEW t, PageShape(t), NEW u, PageShape(u), Unserved(u) \subseteq Unserved(t), Pending(u) => Pending(t)
  PROVE  Owed(u) <= Owed(t)
<1>1. Cardinality(Unserved(u)) <= Cardinality(Unserved(t))
  BY OwedIs, FS_Subset
<1> QED BY <1>1, OwedIs

\* What a render does, whatever it was told.
LEMMA RenderedIs ==
  ASSUME NEW t, PageShape(t)
  PROVE  /\ PageShape(Rendered(t))
         /\ Rendered(t).watching = Enforced(t) /\ Enforced(Rendered(t)) = Enforced(t)
         /\ \A f \in {"state", "reported", "reading", "fetched", "again", "resuming", "posts", "news"} : Rendered(t)[f] = t[f]
         /\ Rendered(t).slips = IF Enforced(t) THEN t.slips ELSE {}
         /\ Rendered(t).away = IF RoundOver(t) THEN t.away \cup {"fullscreen"} ELSE t.away
         /\ Rendered(t).screen \in IF RoundOver(t) THEN {"gate"} ELSE {t.screen, "gate", "locked"}
<1> DEFINE locked == Locked(t)
           over == RoundOver(t)
           shown == CASE locked = t.locked -> t.screen
                      [] locked # t.locked /\ locked -> "locked"
                      [] OTHER -> IF t.screen = "locked" THEN "gate" ELSE t.screen
<1>1. shown \in {t.screen, "gate", "locked"}
  OBVIOUS
<1>2. PICK screen : screen = IF over THEN "gate" ELSE shown
  OBVIOUS
<1>3. PICK l, w, away, slips : l = locked /\ w = Enforced(t) /\ away = (IF over THEN t.away \cup {"fullscreen"} ELSE t.away)
        /\ slips = (IF Enforced(t) THEN t.slips ELSE {})
  OBVIOUS
<1>4. Rendered(t) = [t EXCEPT !.locked = l, !.watching = w, !.screen = screen, !.away = away, !.slips = slips]
  BY <1>2, <1>3 DEF Rendered
<1>5. screen \in {t.screen, "gate", "locked"} /\ (over => screen = "gate")
  BY <1>1, <1>2
<1>6. w \in BOOLEAN
  <2>1. Enforced(t) \in BOOLEAN
    BY DEF Enforced
  <2> QED BY <2>1, <1>3, Zenon
<1> HIDE DEF locked, over, shown
<1>7. PICK u : u = Rendered(t)
  OBVIOUS
<1>8. /\ u = [f \in TabFields |-> u[f]]
      /\ u.locked = l /\ u.watching = w /\ u.screen = screen /\ u.away = away /\ u.slips = slips
      /\ u.state = t.state /\ u.reported = t.reported /\ u.reading = t.reading /\ u.fetched = t.fetched /\ u.again = t.again
      /\ u.resuming = t.resuming /\ u.posts = t.posts /\ u.news = t.news
  BY <1>4, <1>7 DEF PageShape, TabFields
<1>9. PageShape(u)
  BY <1>8, <1>5, <1>6 DEF PageShape
<1>10. Enforced(u) = Enforced(t)
  BY <1>8 DEF Enforced
<1> QED BY <1>3, <1>5, <1>7, <1>8, <1>9, <1>10 DEF over

\* A page that was held, or whose owner is on their way back, is after a render as it should be.
LEMMA RenderedWell ==
  ASSUME NEW t, PageShape(t), t.slips \subseteq t.away,
         t.resuming => "fullscreen" \in t.away \ t.slips /\ Enforced(t),
         t.screen = "ok" => t.watching /\ (Held(t) \/ t.slips # {}),
         ~t.watching => t.slips = {} /\ ~t.resuming
  PROVE  Good(Rendered(t)) /\ Owed(Rendered(t)) <= Owed(t)
<1>1. PICK u : u = Rendered(t)
  OBVIOUS
<1>2. /\ PageShape(u) /\ u.watching = Enforced(t) /\ Enforced(u) = Enforced(t)
      /\ u.slips = (IF Enforced(t) THEN t.slips ELSE {})
      /\ u.away = (IF RoundOver(t) THEN t.away \cup {"fullscreen"} ELSE t.away)
      /\ u.screen \in (IF RoundOver(t) THEN {"gate"} ELSE {t.screen, "gate", "locked"})
      /\ u.resuming = t.resuming /\ u.posts = t.posts
  BY <1>1, RenderedIs
<1>3. u.screen = "ok" => t.screen = "ok" /\ ~RoundOver(t)
  BY <1>2
<1>4. u.screen = "ok" => Enforced(t)
  BY <1>3 DEF RoundOver
<1>5. Watched(u)
  <2>1. u.watching = Enforced(u)
    BY <1>2
  <2>2. ~u.watching => u.slips = {} /\ u.screen # "ok" /\ ~u.resuming
    BY <1>2, <1>4
  <2>3. u.slips \subseteq u.away
    BY <1>2
  <2>4. u.resuming => "fullscreen" \in u.away \ u.slips
    BY <1>2
  <2>5. u.screen = "ok" => Held(u) \/ u.slips # {}
    BY <1>2, <1>3, <1>4 DEF Held
  <2> QED BY <2>1, <2>2, <2>3, <2>4, <2>5 DEF Watched
<1>6. Owed(u) <= Owed(t)
  <2>1. Unserved(u) = Unserved(t)
    BY <1>2 DEF Unserved
  <2>2. Pending(u) => Pending(t)
    BY <1>2, <1>3 DEF Pending
  <2> QED BY <1>2, <2>1, <2>2, OwedShrinks
<1> QED BY <1>1, <1>2, <1>5, <1>6 DEF Good

\* A report that was counted, or lost, is owed no more.
LEMMA OwedLess ==
  ASSUME NEW t, PageShape(t), NEW u, PageShape(u), NEW q \in Unserved(t), Unserved(u) \subseteq Unserved(t) \ {q},
         Pending(u) => Pending(t)
  PROVE  Owed(u) + 1 <= Owed(t)
<1> DEFINE S == Unserved(t)
<1>1. IsFiniteSet(S) /\ Cardinality(S) \in Nat
  BY OwedIs
<1> HIDE DEF S
<1>2. IsFiniteSet(S \ {q}) /\ Cardinality(S \ {q}) = Cardinality(S) - 1
  BY <1>1, FS_RemoveElement DEF S
<1>3. Cardinality(Unserved(u)) <= Cardinality(S \ {q})
  BY <1>2, FS_Subset DEF S
<1>4. Cardinality(Unserved(u)) + 1 <= Cardinality(Unserved(t))
  BY <1>1, <1>2, <1>3, OwedIs DEF S
<1> QED BY <1>4, OwedIs

\* A page that was just opened watches if the round is enforced, and owes nothing.
LEMMA MountedIs ==
  ASSUME NEW state \in PageState
  PROVE  LET u == Mounted(state) IN
         Good(u) /\ Owed(u) = 0 /\ ~u.resuming /\ u.state = state /\ u.fetched = None /\ u.news = << >> /\ u.slips = {} /\ u.posts = {}
<1>1. PICK held : held = (state.me.enabled /\ state.contest.phase \in HELD /\ ~state.me.out) /\ held \in BOOLEAN
  <2>1. (state.me.enabled /\ state.contest.phase \in HELD /\ ~state.me.out) \in BOOLEAN
    OBVIOUS
  <2> QED BY <2>1, Zenon
<1>2. PICK screen : screen = IF held /\ state.me.locked THEN "locked" ELSE "gate"
  OBVIOUS
<1>3. PICK u : u = Mounted(state)
  OBVIOUS
<1>4. u = [state |-> state, reported |-> None, locked |-> state.me.locked, watching |-> held, screen |-> screen,
           reading |-> FALSE, fetched |-> None, again |-> FALSE,
           away |-> {"fullscreen"}, slips |-> {}, resuming |-> FALSE, posts |-> {}, news |-> << >>]
  BY <1>1, <1>2, <1>3 DEF Mounted
<1>5. /\ u = [f \in TabFields |-> u[f]]
      /\ u.state = state /\ u.watching = held /\ u.screen \in {"locked", "gate"} /\ u.fetched = None /\ ~u.again
      /\ u.away = {"fullscreen"} /\ u.slips = {} /\ ~u.resuming /\ u.resuming \in BOOLEAN /\ u.posts = {} /\ u.news = << >>
  BY <1>2, <1>4 DEF TabFields
<1>6. PageShape(u)
  <2>1. IsFiniteSet(u.posts) /\ u.posts \subseteq Post
    BY <1>5, FS_EmptySet
  <2>2. u.news \in Seq(News)
    BY <1>5, EmptySeq
  <2> QED BY <1>1, <1>5, <2>1, <2>2 DEF PageShape
<1>7. Watched(u)
  <2>1. u.watching = Enforced(u)
    BY <1>1, <1>5 DEF Enforced
  <2> QED BY <1>5, <2>1 DEF Watched
<1>8. Owed(u) = 0
  <2>1. Unserved(u) = {} /\ ~Pending(u)
    BY <1>5 DEF Unserved, Pending
  <2> QED BY <1>6, <2>1, OwedIs, FS_EmptySet
<1> QED BY <1>3, <1>5, <1>6, <1>7, <1>8 DEF Good

\* What the engine tells of somebody is a state a page can show.
LEMMA StateIs ==
  ASSUME ContestRow, AccountsInv, NEW p \in People
  PROVE  State(p) \in PageState /\ Same(State(p), p)
<1>1. PICK c, m : c = PhaseSnapshot /\ m = Me(p)
  OBVIOUS
<1>2. c = [phase |-> contest.phase, board |-> contest.set.board] /\ contest.phase \in PhaseNames /\ contest.set.board \in {"live", "hidden"}
  BY <1>1 DEF PhaseSnapshot, ContestRow, Settings
<1>3. c \in Snapshot /\ c.phase = contest.phase
  BY <1>2 DEF Snapshot
<1>4. /\ m = [enabled |-> contest.set.proctoring, locked |-> account[p].locked, out |-> account[p].out, advanced |-> account[p].advanced]
      /\ contest.set.proctoring \in BOOLEAN /\ account[p].locked \in BOOLEAN /\ account[p].out \in BOOLEAN /\ account[p].advanced \in BOOLEAN
  BY <1>1 DEF Me, ContestRow, Settings, AccountsInv, AccountOK, AccountFlags
<1>5. /\ m \in [enabled : BOOLEAN, locked : BOOLEAN, out : BOOLEAN, advanced : BOOLEAN]
      /\ m.enabled = contest.set.proctoring /\ m.out = account[p].out
  BY <1>4
<1>6. State(p) = [contest |-> c, me |-> m]
  BY <1>1 DEF State
<1> QED BY <1>3, <1>5, <1>6 DEF PageState, Same

-----------------------------------------------------------------------------
(* Somebody's page turns.                                                   *)

\* What the page of p knows is of this phase, while what was asked leaves the phase alone.
Fits(t, p) ==
  /\ Same(t.state, p)
  /\ t.fetched # None => Same(t.fetched, p)
  /\ t.news \in Seq(NewsOf(contest.phase))

\* Budgets are only spent.
OnlySpent == \A x \in Ops : left.may[x] = 0 => left'.may[x] = 0

\* The page of p becomes u.
Turns(p, u) ==
  /\ tab' = [tab EXCEPT ![p] = u] /\ UNCHANGED <<contest, request>> /\ OnlySpent
  /\ \A q \in People \ {p} : account'[q] = account[q]
  /\ account'[p].out = account[p].out
  /\ Good(u)
  /\ slipped'[p] \in Nat /\ slipped' = [slipped EXCEPT ![p] = slipped'[p]]
  /\ account'[p].rows + Owed(u) <= slipped'[p]
  /\ u.resuming => left.may["slow"] > 0 \/ (tab[p] # None /\ tab[p].resuming)
  /\ Still => Fits(u, p)

LEMMA StillFits ==
  ASSUME Still, NEW p \in People, tab[p] # None
  PROVE  Fits(tab[p], p)
BY DEF Still, Fits

LEMMA SeatTurned ==
  ASSUME HereInv, AccountsInv, AccountsInv', SeatInductive, NEW p \in People, NEW u, Turns(p, u)
  PROVE  SeatInductive'
<1>1. /\ tab'[p] = u /\ \A q \in People \ {p} : tab'[q] = tab[q]
      /\ slipped' \in [People -> Nat] /\ \A q \in People \ {p} : slipped'[q] = slipped[q]
  BY DEF Turns, HereInv, SeatInductive
<1>2. \A q \in People : tab'[q] # None => PageShape(tab'[q]) /\ Watched(tab'[q])
  BY <1>1 DEF SeatInductive, Turns, Good
<1>3. ASSUME NEW q \in People
      PROVE  CountedOnce(q)'
  <2>1. CASE q = p
    <3>1. Owed(u) \in Nat /\ account'[p].rows \in Nat
      BY OwedIs DEF Turns, Good, AccountsInv, AccountOK, AccountNumbers
    <3> QED BY <1>1, <2>1, <3>1 DEF Turns, CountedOnce
  <2>2. CASE q # p
    <3>1. tab'[q] = tab[q] /\ slipped'[q] = slipped[q] /\ account'[q] = account[q] /\ CountedOnce(q)
      BY <1>1, <2>2 DEF SeatInductive, Turns
    <3> QED BY <3>1 DEF CountedOnce
  <2> QED BY <2>1, <2>2
<1>4. "slow" \in Ops /\ \A op \in {"advance", "save", "disqualify", "requalify"} : op \in Ops
  BY DEF Ops
<1>5. CASE Prompt
  <2>1. left'.may["slow"] = 0
    BY <1>4, <1>5 DEF Prompt, Turns, OnlySpent
  <2>2. ~u.resuming
    BY <1>5 DEF Prompt, Turns
  <2>3. Prompt'
    BY <1>1, <1>5, <2>1, <2>2 DEF Prompt
  <2> QED BY <1>1, <1>2, <1>3, <2>3 DEF SeatInductive
<1>6. CASE Still
  <2>1. \A op \in {"advance", "save", "disqualify", "requalify"} :
          left'.may[op] = 0 /\ \A o \in Organisers : request'[o] # None => request'[o].op # op
    BY <1>4, <1>6 DEF Still, Turns, OnlySpent
  <2>2. ASSUME NEW q \in People, tab'[q] # None
        PROVE  /\ Same(tab[q].state, q)'
               /\ tab'[q].fetched # None => Same(tab[q].fetched, q)'
               /\ tab'[q].news \in Seq(NewsOf(contest'.phase))
    <3>1. account'[q].out = account[q].out /\ contest' = contest
      BY DEF Turns
    <3>2. Fits(tab'[q], q)
      <4>1. CASE q = p
        BY <1>1, <1>6, <4>1 DEF Turns
      <4>2. CASE q # p
        BY <1>1, <1>6, <2>2, <4>2, StillFits
      <4> QED BY <4>1, <4>2
    <3> QED BY <3>1, <3>2 DEF Fits, Same
  <2>3. Still'
    BY <2>1, <2>2 DEF Still
  <2> QED BY <1>1, <1>2, <1>3, <2>3 DEF SeatInductive
<1> QED BY <1>5, <1>6 DEF SeatInductive

\* A page that turns by itself: nobody is counted, and it owes no more than before.
LEMMA TurnsQuietly ==
  ASSUME AccountsInv, SeatInductive, NEW p \in People, tab[p] # None, NEW u, Good(u), Owed(u) <= Owed(tab[p]),
         tab' = [tab EXCEPT ![p] = u], UNCHANGED <<contest, account, slipped, request>>, OnlySpent,
         u.resuming => left.may["slow"] > 0 \/ tab[p].resuming, Still => Fits(u, p)
  PROVE  Turns(p, u)
<1>1. /\ account[p].rows + Owed(tab[p]) <= slipped[p] /\ account[p].rows \in Nat /\ slipped[p] \in Nat
      /\ Owed(u) \in Nat /\ Owed(tab[p]) \in Nat
  BY OwedIs DEF SeatInductive, CountedOnce, AccountsInv, AccountOK, AccountNumbers, Good
<1>2. account[p].rows + Owed(u) <= slipped[p]
  BY <1>1
<1>3. slipped' = [slipped EXCEPT ![p] = slipped'[p]]
  BY DEF SeatInductive
<1> QED BY <1>1, <1>2, <1>3 DEF Turns

LEMMA OnlySpentIs ==
  ASSUME LeftInv, left' = left \/ \E op : Spend(op)
  PROVE  OnlySpent
BY SpendIs DEF OnlySpent

\* Who has a page is here, and it is a good one.
LEMMA PageIsGood ==
  ASSUME EngineInv, SeatInductive, NEW p \in People, tab[p] # None, NEW t, t = tab[p]
  PROVE  /\ LeftInv /\ ContestRow /\ AccountsInv /\ HereInv /\ account[p].in
         /\ Good(t) /\ PageShape(t) /\ Watched(t) /\ Owed(t) \in Nat
         /\ t.resuming => Still
         /\ Still => Fits(t, p)
BY OwedIs, StillFits DEF EngineInv, HereInv, SeatInductive, Good, Prompt

LEMMA OpensTurns ==
  ASSUME EngineInv, SeatInductive, NEW p \in People, Opens(p), request' = request
  PROVE  \E u : Turns(p, u)
<1>1. PICK state : state = State(p)
  OBVIOUS
<1>2. LeftInv /\ ContestRow /\ AccountsInv
  BY DEF EngineInv
<1>3. state \in PageState /\ Same(state, p)
  BY <1>1, <1>2, StateIs
<1>4. PICK u : u = Mounted(state)
  OBVIOUS
<1>5. Good(u) /\ Owed(u) = 0 /\ ~u.resuming /\ u.state = state /\ u.fetched = None /\ u.news = << >>
  BY <1>3, <1>4, MountedIs
<1>6. tab' = [tab EXCEPT ![p] = u] /\ UNCHANGED <<contest, account, slipped>> /\ Spend("open") /\ tab[p] = None
  BY <1>1, <1>4 DEF Opens
<1>7. OnlySpent
  BY <1>2, <1>6, OnlySpentIs
<1>8. /\ account[p].rows + Owed(u) <= slipped[p] /\ slipped[p] \in Nat
      /\ slipped' = [slipped EXCEPT ![p] = slipped'[p]]
  <2>1. CountedOnce(p) /\ slipped \in [People -> Nat]
    BY DEF SeatInductive
  <2> QED BY <1>5, <1>6, <2>1 DEF CountedOnce
<1>9. Fits(u, p)
  BY <1>3, <1>5, EmptySeq DEF Fits
<1>10. Turns(p, u)
  BY <1>5, <1>6, <1>7, <1>8, <1>9 DEF Turns
<1> QED BY <1>10

\* What was sent before a reload is on its way, and is not more than it was.
LEMMA StillSent ==
  ASSUME NEW t, PageShape(t), NEW posts, posts = {[q EXCEPT !.lone = TRUE] : q \in Unserved(t)}
  PROVE  /\ IsFiniteSet(posts) /\ posts \subseteq Post
         /\ Cardinality(posts) <= Cardinality(Unserved(t))
<1> DEFINE S == Unserved(t)
           F == [q \in S |-> [q EXCEPT !.lone = TRUE]]
<1>1. IsFiniteSet(S) /\ S \subseteq Post
  BY OwedIs DEF Unserved, PageShape
<1>2. F \in [S -> posts]
  OBVIOUS
<1>3. \A r \in posts : \E q \in S : F[q] = r
  OBVIOUS
<1>4. F \in Surjection(S, posts)
  BY <1>2, <1>3 DEF Surjection
<1>5. posts \subseteq Post
  <2>1. \A q \in Post : [q EXCEPT !.lone = TRUE] \in Post
    BY DEF Post
  <2> QED BY <1>1, <2>1
<1> HIDE DEF S, F
<1>6. IsFiniteSet(posts) /\ Cardinality(posts) <= Cardinality(S)
  BY <1>1, <1>4, FS_Surjection
<1> QED BY <1>5, <1>6 DEF S

LEMMA ReloadsTurns ==
  ASSUME EngineInv, SeatInductive, NEW p \in People, Reloads(p), request' = request
  PROVE  \E u : Turns(p, u)
<1>0. tab[p] # None /\ UNCHANGED <<contest, account, slipped>> /\ Spend("reload")
  BY DEF Reloads
<1>1. PICK t : t = tab[p]
  OBVIOUS
<1>2. LeftInv /\ ContestRow /\ AccountsInv /\ PageShape(t)
  BY <1>0, <1>1, PageIsGood
<1>3. PICK state : state = State(p)
  OBVIOUS
<1>4. state \in PageState /\ Same(state, p)
  BY <1>2, <1>3, StateIs
<1>5. PICK m : m = Mounted(state)
  OBVIOUS
<1>6. /\ Good(m) /\ Owed(m) = 0 /\ ~m.resuming /\ m.state = state /\ m.fetched = None /\ m.news = << >> /\ m.slips = {}
      /\ m.posts = {} /\ PageShape(m) /\ Watched(m)
  BY <1>4, <1>5, MountedIs DEF Good
<1>7. PICK posts : posts = {[q EXCEPT !.lone = TRUE] : q \in Unserved(t)}
  OBVIOUS
<1>8. IsFiniteSet(posts) /\ posts \subseteq Post /\ Cardinality(posts) <= Cardinality(Unserved(t))
  BY <1>2, <1>7, StillSent
<1>9. PICK u : u = [m EXCEPT !.posts = posts]
  OBVIOUS
<1>10. /\ u = [f \in TabFields |-> u[f]] /\ u.posts = posts
       /\ u.state = m.state /\ u.fetched = m.fetched /\ u.news = m.news /\ u.watching = m.watching /\ u.resuming = m.resuming
       /\ u.screen = m.screen /\ u.again = m.again /\ u.reading = m.reading /\ u.away = m.away /\ u.slips = m.slips
  BY <1>6, <1>9 DEF PageShape, TabFields
<1>11. PageShape(u)
  BY <1>6, <1>8, <1>10 DEF PageShape
<1>12. Watched(u)
  BY <1>6, <1>10 DEF Watched, Enforced, Held
<1>13. Owed(u) <= Owed(t)
  <2>1. Unserved(u) \subseteq posts /\ ~Pending(u)
    BY <1>6, <1>10 DEF Unserved, Pending
  <2>2. Cardinality(Unserved(u)) <= Cardinality(posts) /\ Cardinality(posts) \in Nat
    BY <1>8, <2>1, FS_Subset, FS_CardinalityType
  <2> QED BY <1>2, <1>8, <1>11, <2>1, <2>2, OwedIs
<1>14. tab' = [tab EXCEPT ![p] = u]
  BY <1>1, <1>3, <1>5, <1>7, <1>9 DEF Reloads, Unserved
<1>15. OnlySpent
  BY <1>0, <1>2, OnlySpentIs
<1>16. Fits(u, p)
  BY <1>4, <1>6, <1>10, EmptySeq DEF Fits
<1>17. Turns(p, u)
  BY <1>0, <1>1, <1>2, <1>6, <1>10, <1>11, <1>12, <1>13, <1>14, <1>15, <1>16, TurnsQuietly DEF Good
<1> QED BY <1>17

LEMMA NewsIs ==
  ASSUME NEW S, NEW news \in Seq(S), news # << >>
  PROVE  Head(news) \in S /\ Tail(news) \in Seq(S)
BY HeadTailProperties

LEMMA HearsTurns ==
  ASSUME EngineInv, SeatInductive, NEW p \in People, Hears(p), request' = request
  PROVE  \E u : Turns(p, u)
<1>0. tab[p] # None /\ UNCHANGED <<contest, account, slipped, left>> /\ tab[p].news # << >>
  BY DEF Hears, Visible
<1>1. PICK t : t = tab[p]
  OBVIOUS
<1>2. LeftInv /\ AccountsInv /\ PageShape(t) /\ Watched(t) /\ Owed(t) \in Nat /\ (t.resuming => Still) /\ (Still => Fits(t, p))
  BY <1>0, <1>1, PageIsGood
<1>3. PICK e : e = Head(t.news)
  OBVIOUS
<1>4. PICK news : news = Tail(t.news)
  OBVIOUS
<1>5. e \in News /\ news \in Seq(News)
  BY <1>0, <1>1, <1>2, <1>3, <1>4, NewsIs DEF PageShape
<1>6. PICK s : s = IF e.name = "phase" THEN [t.state EXCEPT !.contest = e.snapshot] ELSE t.state
  OBVIOUS
<1>7. s \in PageState /\ (s = t.state \/ (e.name = "phase" /\ s.contest = e.snapshot /\ s.me = t.state.me))
  <2>1. t.state \in PageState
    BY <1>2 DEF PageShape
  <2>2. CASE e.name = "phase"
    <3>1. e.snapshot \in Snapshot
      BY <1>5, <2>2 DEF News
    <3> QED BY <1>6, <2>1, <2>2, <3>1 DEF PageState
  <2>3. CASE e.name # "phase"
    BY <1>6, <2>1, <2>3
  <2> QED BY <2>2, <2>3
<1>8. PICK seen : seen = IF e.name = "phase" THEN [[t EXCEPT !.news = news] EXCEPT !.state.contest = e.snapshot] ELSE [t EXCEPT !.news = news]
  OBVIOUS
<1>9. seen = [t EXCEPT !.news = news, !.state = s] /\ seen.reading = t.reading
  BY <1>2, <1>6, <1>8 DEF PageShape, TabFields
<1>10. PICK v : v = IF Rereads(e.name) THEN Reread(seen) ELSE seen
  OBVIOUS
<1>12. /\ v = [f \in TabFields |-> v[f]]
       /\ v.state = s /\ v.news = news /\ (v.again => v.reading)
       /\ v.fetched = t.fetched /\ v.watching = t.watching /\ v.resuming = t.resuming
       /\ v.screen = t.screen /\ v.away = t.away /\ v.slips = t.slips /\ v.posts = t.posts
  BY <1>2, <1>9, <1>10 DEF PageShape, TabFields, Reread
<1>13. PageShape(v)
  BY <1>2, <1>5, <1>7, <1>12 DEF PageShape
<1>14. Still => Fits(v, p)
  <2> SUFFICES ASSUME Still PROVE Fits(v, p)
    OBVIOUS
  <2>1. Fits(t, p)
    BY <1>2
  <2>2. e \in NewsOf(contest.phase) /\ news \in Seq(NewsOf(contest.phase))
    BY <1>0, <1>1, <1>3, <1>4, <2>1, NewsIs DEF Fits
  <2>3. Same(s, p)
    BY <1>7, <2>1, <2>2 DEF NewsOf, Same, Fits
  <2> QED BY <1>12, <2>1, <2>2, <2>3 DEF Fits
<1>15. t.resuming => Enforced(v)
  <2> SUFFICES ASSUME t.resuming PROVE Enforced(v)
    OBVIOUS
  <2>1. Fits(t, p) /\ Fits(v, p)
    BY <1>2, <1>14
  <2>2. Enforced(t)
    BY <1>2 DEF Watched
  <2> QED BY <2>1, <2>2 DEF Fits, Same, Enforced
<1>16. Good(Rendered(v)) /\ Owed(Rendered(v)) <= Owed(v)
  BY <1>2, <1>12, <1>13, <1>15, RenderedWell DEF Watched, Held
<1>17. PICK u : u = Rendered(v)
  OBVIOUS
<1>18. u.state = v.state /\ u.fetched = v.fetched /\ u.news = v.news /\ u.resuming = v.resuming
  BY <1>13, <1>17, RenderedIs
<1>19. Owed(u) <= Owed(t)
  <2>1. Unserved(v) = Unserved(t) /\ (Pending(v) => Pending(t))
    BY <1>12 DEF Unserved, Pending
  <2>2. Owed(v) <= Owed(t) /\ Owed(v) \in Nat /\ Owed(u) \in Nat
    BY <1>2, <1>13, <1>16, <1>17, <2>1, OwedShrinks, OwedIs DEF Good
  <2> QED BY <1>2, <1>16, <1>17, <2>2
<1>20. tab' = [tab EXCEPT ![p] = u]
  BY <1>1, <1>3, <1>4, <1>8, <1>10, <1>17 DEF Hears
<1>21. Still => Fits(u, p)
  BY <1>14, <1>18 DEF Fits
<1>22. Turns(p, u)
  BY <1>0, <1>1, <1>2, <1>12, <1>16, <1>17, <1>18, <1>19, <1>20, <1>21, OnlySpentIs, TurnsQuietly
<1> QED BY <1>22

LEMMA ReadServedTurns ==
  ASSUME EngineInv, SeatInductive, NEW p \in People, ReadServed(p), request' = request
  PROVE  \E u : Turns(p, u)
<1>0. tab[p] # None /\ UNCHANGED <<contest, account, slipped, left>>
  BY DEF ReadServed
<1>1. PICK t : t = tab[p]
  OBVIOUS
<1>2. LeftInv /\ ContestRow /\ AccountsInv /\ PageShape(t) /\ Watched(t) /\ Owed(t) \in Nat /\ (Still => Fits(t, p))
  BY <1>0, <1>1, PageIsGood
<1>3. PICK state : state = State(p)
  OBVIOUS
<1>4. state \in PageState /\ Same(state, p)
  BY <1>2, <1>3, StateIs
<1>5. PICK u : u = [t EXCEPT !.fetched = state]
  OBVIOUS
<1>6. /\ u = [f \in TabFields |-> u[f]]
      /\ u.fetched = state /\ u.state = t.state /\ u.news = t.news /\ u.watching = t.watching /\ u.resuming = t.resuming
      /\ u.screen = t.screen /\ u.again = t.again /\ u.reading = t.reading /\ u.away = t.away /\ u.slips = t.slips /\ u.posts = t.posts
  BY <1>2, <1>5 DEF PageShape, TabFields
<1>7. PageShape(u)
  BY <1>2, <1>4, <1>6 DEF PageShape
<1>8. Watched(u)
  BY <1>2, <1>6 DEF Watched, Enforced, Held
<1>9. Owed(u) <= Owed(t)
  BY <1>2, <1>6, <1>7, OwedShrinks DEF Unserved, Pending
<1>10. Still => Fits(u, p)
  BY <1>2, <1>4, <1>6 DEF Fits
<1>11. tab' = [tab EXCEPT ![p] = u]
  <2>1. tab' = [tab EXCEPT ![p] = [tab[p] EXCEPT !.fetched = State(p)]]
    BY DEF ReadServed
  <2> QED BY <1>1, <1>3, <1>5, <2>1
<1>12. Turns(p, u)
  BY <1>0, <1>1, <1>2, <1>6, <1>7, <1>8, <1>9, <1>10, <1>11, OnlySpentIs, TurnsQuietly DEF Good
<1> QED BY <1>12

LEMMA ReadAnsweredTurns ==
  ASSUME EngineInv, SeatInductive, NEW p \in People, ReadAnswered(p), request' = request
  PROVE  \E u : Turns(p, u)
<1>0. tab[p] # None /\ UNCHANGED <<contest, account, slipped, left>> /\ tab[p].fetched # None
  BY DEF ReadAnswered
<1>1. PICK t : t = tab[p]
  OBVIOUS
<1>2. LeftInv /\ AccountsInv /\ PageShape(t) /\ Watched(t) /\ Owed(t) \in Nat /\ (t.resuming => Still) /\ (Still => Fits(t, p))
  BY <1>0, <1>1, PageIsGood
<1>3. PICK v : v = [t EXCEPT !.state = t.fetched, !.fetched = None, !.reported = None, !.reading = t.again, !.again = FALSE]
  OBVIOUS
<1>4. /\ v = [f \in TabFields |-> v[f]]
      /\ v.fetched = None /\ v.state = t.fetched /\ v.news = t.news /\ v.watching = t.watching /\ v.resuming = t.resuming
      /\ v.screen = t.screen /\ ~v.again /\ v.away = t.away /\ v.slips = t.slips /\ v.posts = t.posts
  BY <1>2, <1>3 DEF PageShape, TabFields
<1>5. PageShape(v)
  BY <1>0, <1>1, <1>2, <1>4 DEF PageShape
<1>6. Still => Fits(v, p)
  BY <1>0, <1>1, <1>2, <1>4 DEF Fits
<1>7. t.resuming => Enforced(v)
  <2> SUFFICES ASSUME t.resuming PROVE Enforced(v)
    OBVIOUS
  <2>1. Fits(t, p) /\ Fits(v, p)
    BY <1>2, <1>6
  <2>2. Enforced(t)
    BY <1>2 DEF Watched
  <2> QED BY <2>1, <2>2 DEF Fits, Same, Enforced
<1>8. Good(Rendered(v)) /\ Owed(Rendered(v)) <= Owed(v)
  BY <1>2, <1>4, <1>5, <1>7, RenderedWell DEF Watched, Held
<1>9. PICK u : u = Rendered(v)
  OBVIOUS
<1>10. u.state = v.state /\ u.fetched = v.fetched /\ u.news = v.news /\ u.resuming = v.resuming
  BY <1>5, <1>9, RenderedIs
<1>11. Owed(u) <= Owed(t)
  <2>1. Unserved(v) = Unserved(t) /\ (Pending(v) => Pending(t))
    BY <1>4 DEF Unserved, Pending
  <2>2. Owed(v) <= Owed(t) /\ Owed(v) \in Nat /\ Owed(u) \in Nat
    BY <1>2, <1>5, <1>8, <1>9, <2>1, OwedShrinks, OwedIs DEF Good
  <2> QED BY <1>2, <1>8, <1>9, <2>2
<1>12. tab' = [tab EXCEPT ![p] = u]
  BY <1>1, <1>3, <1>9 DEF ReadAnswered
<1>13. Still => Fits(u, p)
  BY <1>6, <1>10 DEF Fits
<1>14. Turns(p, u)
  BY <1>0, <1>1, <1>2, <1>4, <1>8, <1>9, <1>10, <1>11, <1>12, <1>13, OnlySpentIs, TurnsQuietly
<1> QED BY <1>14

\* A page but for its slips, its screen and what it has sent.
Slipped(t, slips, screen, posts) == [t EXCEPT !.slips = slips, !.screen = screen, !.posts = posts]

IsSlipped(u, t, slips, screen, posts) ==
  /\ Good(u) /\ u.state = t.state /\ u.fetched = t.fetched /\ u.news = t.news /\ u.resuming = t.resuming
  /\ u.posts = posts /\ u.slips = slips /\ u.screen = screen

LEMMA SlipIs ==
  ASSUME NEW t, Good(t), NEW slips, slips \subseteq t.slips, NEW screen \in {"gate", "ok", "alert", "locked"},
         screen = "ok" => slips = t.slips /\ t.screen = "ok", NEW posts, IsFiniteSet(posts), posts \subseteq Post
  PROVE  IsSlipped(Slipped(t, slips, screen, posts), t, slips, screen, posts)
<1>0. PICK u : u = Slipped(t, slips, screen, posts)
  OBVIOUS
<1>1. PageShape(t) /\ Watched(t)
  BY DEF Good
<1>2. /\ u = [f \in TabFields |-> u[f]]
      /\ u.fetched = t.fetched /\ u.state = t.state /\ u.news = t.news /\ u.watching = t.watching /\ u.resuming = t.resuming
      /\ u.screen = screen /\ u.again = t.again /\ u.reading = t.reading /\ u.away = t.away /\ u.slips = slips /\ u.posts = posts
  BY <1>0, <1>1 DEF PageShape, TabFields, Slipped
<1>3. PageShape(u)
  BY <1>1, <1>2 DEF PageShape
<1>4. Watched(u)
  BY <1>1, <1>2 DEF Watched, Enforced, Held
<1> QED BY <1>0, <1>2, <1>3, <1>4 DEF Good, IsSlipped

LEMMA ReportsTurns ==
  ASSUME EngineInv, SeatInductive, NEW p \in People, tab[p] # None, NEW way, way \in tab[p].slips, Reports(p, way), request' = request
  PROVE  \E u : Turns(p, u)
<1>0. UNCHANGED <<contest, account, slipped, left>>
  BY DEF Reports
<1>1. PICK t : t = tab[p]
  OBVIOUS
<1>2. LeftInv /\ AccountsInv /\ PageShape(t) /\ Good(t) /\ Owed(t) \in Nat /\ (Still => Fits(t, p))
  BY <1>1, PageIsGood
<1>3. PICK slips : slips = t.slips \ {way}
  OBVIOUS
<1>4. PICK q : q = [id |-> slipped[p], lone |-> FALSE, answer |-> None]
  OBVIOUS
<1>5. q \in Post /\ q.answer = None
  BY <1>4 DEF Post, SeatInductive
<1>6. CASE t.screen = "ok"
  <2>1. PICK posts : posts = t.posts \cup {q}
    OBVIOUS
  <2>2. IsFiniteSet(posts) /\ posts \subseteq Post
    BY <1>2, <1>5, <2>1, FS_AddElement DEF PageShape
  <2>3. PICK u : u = [t EXCEPT !.slips = slips, !.screen = "alert", !.posts = posts]
    OBVIOUS
  <2>4. /\ Good(u) /\ u.state = t.state /\ u.fetched = t.fetched /\ u.news = t.news /\ u.resuming = t.resuming
        /\ u.posts = posts /\ u.slips = slips /\ u.screen = "alert"
    <3>1. PICK screen : screen = "alert"
      OBVIOUS
    <3>2. screen \in {"gate", "ok", "alert", "locked"} /\ screen # "ok" /\ slips \subseteq t.slips
      BY <1>3, <3>1
    <3>3. u = Slipped(t, slips, screen, posts)
      BY <2>3, <3>1 DEF Slipped
    <3>4. IsSlipped(Slipped(t, slips, screen, posts), t, slips, screen, posts)
      BY <1>2, <2>2, <3>2, SlipIs
    <3> QED BY <3>1, <3>3, <3>4 DEF IsSlipped
  <2>5. Owed(u) <= Owed(t)
    <3>1. Unserved(u) = Unserved(t) \cup {q} /\ ~Pending(u) /\ Pending(t)
      BY <1>1, <1>5, <1>6, <2>1, <2>4 DEF Unserved, Pending
    <3>2. IsFiniteSet(Unserved(t)) /\ Cardinality(Unserved(t)) \in Nat
      BY <1>2, OwedIs
    <3>3. Cardinality(Unserved(u)) <= Cardinality(Unserved(t)) + 1
      BY <3>1, <3>2, FS_AddElement
    <3>5. PageShape(u) /\ PageShape(t)
      BY <1>2, <2>4 DEF Good
    <3>6. Owed(u) = Cardinality(Unserved(u)) /\ Owed(u) \in Nat /\ Cardinality(Unserved(u)) \in Nat
      BY <3>5, <3>1, OwedIs
    <3>7. Owed(t) = Cardinality(Unserved(t)) + 1
      BY <3>5, <3>1, OwedIs
    <3>4. Owed(u) = Cardinality(Unserved(u)) /\ Owed(t) = Cardinality(Unserved(t)) + 1
      BY <3>6, <3>7
    <3> QED BY <3>3, <3>4
  <2>6. tab' = [tab EXCEPT ![p] = u]
    <3>1. [[t EXCEPT !.slips = slips] EXCEPT !.screen = "alert", !.posts = t.posts \cup {q}] = u
      BY <1>2, <2>1, <2>3 DEF PageShape, TabFields
    <3>2. [t EXCEPT !.slips = slips].screen = "ok" /\ [t EXCEPT !.slips = slips].posts = t.posts
      BY <1>2, <1>6 DEF PageShape, TabFields
    <3> QED BY <1>1, <1>3, <1>4, <3>1, <3>2 DEF Reports, Counts
  <2>7. Turns(p, u)
    BY <1>0, <1>1, <1>2, <2>4, <2>5, <2>6, OnlySpentIs, TurnsQuietly DEF Fits
  <2> QED BY <2>7
<1>7. CASE t.screen # "ok"
  <2>1. PICK u : u = [t EXCEPT !.slips = slips]
    OBVIOUS
  <2>2. u = Slipped(t, slips, t.screen, t.posts)
    BY <1>2, <2>1 DEF PageShape, TabFields, Slipped
  <2>3. /\ Good(u) /\ u.state = t.state /\ u.fetched = t.fetched /\ u.news = t.news /\ u.resuming = t.resuming
        /\ u.posts = t.posts /\ u.slips = slips /\ u.screen = t.screen
    <3>1. slips \subseteq t.slips /\ IsFiniteSet(t.posts) /\ t.posts \subseteq Post
      BY <1>2, <1>3 DEF PageShape
    <3>2. PICK screen \in {"gate", "ok", "alert", "locked"} : screen = t.screen
      BY <1>2 DEF PageShape
    <3>3. PICK posts : posts = t.posts
      OBVIOUS
    <3>4. u = Slipped(t, slips, screen, posts) /\ screen # "ok"
      BY <1>7, <2>2, <3>2, <3>3
    <3>5. IsSlipped(Slipped(t, slips, screen, posts), t, slips, screen, posts)
      BY <1>2, <3>1, <3>3, <3>4, SlipIs
    <3> QED BY <3>2, <3>3, <3>4, <3>5 DEF IsSlipped
  <2>4. Owed(u) <= Owed(t)
    BY <1>2, <1>7, <2>3, OwedShrinks DEF Unserved, Pending, Good
  <2>5. tab' = [tab EXCEPT ![p] = u]
    BY <1>1, <1>3, <1>7, <2>1, <2>3 DEF Reports, Counts
  <2>6. Turns(p, u)
    BY <1>0, <1>1, <1>2, <2>3, <2>4, <2>5, OnlySpentIs, TurnsQuietly DEF Fits
  <2> QED BY <2>6
<1> QED BY <1>6, <1>7

-----------------------------------------------------------------------------
(* What a page has sent.                                                    *)

\* A page but for what it has sent and what it is to hear.
Posted(t, posts, news) == [t EXCEPT !.posts = posts, !.news = news]
IsPosted(u, t, posts, news) ==
  /\ Good(u) /\ u.state = t.state /\ u.fetched = t.fetched /\ u.news = news /\ u.resuming = t.resuming
  /\ u.posts = posts /\ u.slips = t.slips /\ u.screen = t.screen

LEMMA PostedIs ==
  ASSUME NEW t, Good(t), NEW posts, IsFiniteSet(posts), posts \subseteq Post, NEW news \in Seq(News)
  PROVE  IsPosted(Posted(t, posts, news), t, posts, news)
<1>0. PICK u : u = Posted(t, posts, news)
  OBVIOUS
<1>1. PageShape(t) /\ Watched(t)
  BY DEF Good
<1>2. /\ u = [f \in TabFields |-> u[f]]
      /\ u.fetched = t.fetched /\ u.state = t.state /\ u.news = news /\ u.watching = t.watching /\ u.resuming = t.resuming
      /\ u.screen = t.screen /\ u.again = t.again /\ u.reading = t.reading /\ u.away = t.away /\ u.slips = t.slips /\ u.posts = posts
  BY <1>0, <1>1 DEF PageShape, TabFields, Posted
<1>3. PageShape(u)
  BY <1>1, <1>2 DEF PageShape
<1>4. Watched(u)
  BY <1>1, <1>2 DEF Watched, Enforced, Held
<1> QED BY <1>0, <1>2, <1>3, <1>4 DEF Good, IsPosted

\* What an answer makes of a page.
IsTold(u, t) ==
  /\ Good(u) /\ Owed(u) <= Owed(t)
  /\ u.state = t.state /\ u.fetched = t.fetched /\ u.news = t.news /\ u.resuming = t.resuming

LEMMA ToldIs ==
  ASSUME NEW t, Good(t), NEW q
  PROVE  IsTold(Told(t, q), t)
<1>1. PageShape(t) /\ Watched(t)
  BY DEF Good
<1>2. PICK screen, posts : screen = (IF q.answer THEN "locked" ELSE t.screen) /\ posts = t.posts \ {q}
  OBVIOUS
<1>3. PICK v : v = [t EXCEPT !.posts = posts, !.reported = q.answer, !.screen = screen]
  OBVIOUS
<1>4. screen \in {t.screen, "locked"}
  BY <1>2
<1>5. /\ v = [f \in TabFields |-> v[f]]
      /\ v.fetched = t.fetched /\ v.state = t.state /\ v.news = t.news /\ v.watching = t.watching /\ v.resuming = t.resuming
      /\ v.screen = screen /\ v.again = t.again /\ v.reading = t.reading /\ v.away = t.away /\ v.slips = t.slips /\ v.posts = posts
  BY <1>1, <1>3 DEF PageShape, TabFields
<1>6. IsFiniteSet(posts) /\ posts \subseteq Post
  BY <1>1, <1>2, FS_Subset DEF PageShape
<1>7. PageShape(v)
  BY <1>1, <1>4, <1>5, <1>6 DEF PageShape
<1>8. v.resuming => Enforced(v)
  BY <1>1, <1>5 DEF Watched, Enforced
<1>9. Good(Rendered(v)) /\ Owed(Rendered(v)) <= Owed(v)
  BY <1>1, <1>4, <1>5, <1>7, <1>8, RenderedWell DEF Watched, Held
<1>10. PICK u : u = Rendered(v)
  OBVIOUS
<1>11. u.state = v.state /\ u.fetched = v.fetched /\ u.news = v.news /\ u.resuming = v.resuming
  BY <1>7, <1>10, RenderedIs
<1>12. Owed(v) <= Owed(t) /\ Owed(v) \in Nat /\ Owed(u) \in Nat /\ Owed(t) \in Nat
  <2>1. Unserved(v) \subseteq Unserved(t) /\ (Pending(v) => Pending(t))
    BY <1>2, <1>4, <1>5 DEF Unserved, Pending
  <2>2. PageShape(u)
    BY <1>9, <1>10 DEF Good
  <2> QED BY <1>1, <1>7, <2>1, <2>2, OwedShrinks, OwedIs
<1>13. Owed(u) <= Owed(t)
  BY <1>9, <1>10, <1>12
<1>14. u = Told(t, q)
  BY <1>2, <1>3, <1>10 DEF Told
<1> QED BY <1>5, <1>9, <1>10, <1>11, <1>13, <1>14 DEF IsTold

\* Somebody is counted: what is counted is owed no more.
LEMMA TurnsCounted ==
  ASSUME EngineInv, SeatInductive, NEW p \in People, tab[p] # None, NEW u, Good(u), Owed(u) + 1 <= Owed(tab[p]),
         tab' = [tab EXCEPT ![p] = u], account' = [account EXCEPT ![p] = Reported(p)],
         UNCHANGED <<contest, slipped, request>>, OnlySpent,
         u.resuming => tab[p].resuming, Still => Fits(u, p)
  PROVE  Turns(p, u)
<1>0. ContestRow /\ AccountsInv /\ account[p].in
  BY PageIsGood
<1>1. PICK b : b = Reported(p)
  OBVIOUS
<1>2. AccountOK(b) /\ Keeps(b, account[p], {"alerts", "rows", "locked"}) /\ b.rows \in {account[p].rows, account[p].rows + 1}
  BY <1>0, <1>1, ReportedIs
<1>3. account'[p] = b /\ \A q \in People \ {p} : account'[q] = account[q]
  BY <1>0, <1>1 DEF AccountsInv
<1>4. b.out = account[p].out
  BY <1>2 DEF Keeps, AccountFields
<1>5. /\ account[p].rows + Owed(tab[p]) <= slipped[p] /\ account[p].rows \in Nat /\ slipped[p] \in Nat
      /\ Owed(u) \in Nat /\ Owed(tab[p]) \in Nat
  BY <1>0, OwedIs DEF SeatInductive, CountedOnce, AccountsInv, AccountOK, AccountNumbers, Good
<1>6. b.rows + Owed(u) <= slipped[p]
  BY <1>2, <1>5
<1>7. slipped' = [slipped EXCEPT ![p] = slipped'[p]]
  BY DEF SeatInductive
<1> QED BY <1>3, <1>4, <1>5, <1>6, <1>7 DEF Turns

LEMMA ReportServedTurns ==
  ASSUME DeskAssumption, EngineInv, SeatInductive, NEW p \in People, tab[p] # None, NEW q \in tab[p].posts,
         ReportServed(p, q), request' = request
  PROVE  \E u : Turns(p, u)
<1>0. UNCHANGED <<contest, slipped>> /\ account' = [account EXCEPT ![p] = Reported(p)] /\ q.answer = None
  BY DEF ReportServed
<1>1. PICK t : t = tab[p]
  OBVIOUS
<1>2. LeftInv /\ ContestRow /\ AccountsInv /\ account[p].in /\ PageShape(t) /\ Good(t) /\ Owed(t) \in Nat /\ (Still => Fits(t, p))
  BY <1>1, PageIsGood
<1>3. PICK locked : locked = Reported(p).locked
  OBVIOUS
<1>4. locked \in BOOLEAN
  BY <1>2, <1>3, ReportedIs DEF AccountOK, AccountFlags
<1>5. PICK told : told = [name |-> "proctor"]
  OBVIOUS
<1>6. PICK news : news = IF locked /\ ~account[p].locked THEN Append(t.news, told) ELSE t.news
  OBVIOUS
<1>7. \A S : told \in S /\ t.news \in Seq(S) => news \in Seq(S)
  BY <1>6, AppendProperties
<1>8. news \in Seq(News)
  BY <1>2, <1>5, <1>7 DEF PageShape, News
<1>9. Still => news \in Seq(NewsOf(contest.phase))
  <2>1. told \in NewsOf(contest.phase)
    BY <1>5 DEF NewsOf, News
  <2> QED BY <1>2, <1>7, <2>1 DEF Fits
<1>10. PICK posts : posts = t.posts \ {q}
  OBVIOUS
<1>11. IsFiniteSet(posts) /\ posts \subseteq Post /\ q \in Post /\ q \in Unserved(t)
  BY <1>0, <1>1, <1>2, <1>10, FS_Subset DEF PageShape, Unserved
<1>12. PICK after : after = Posted(t, posts, news)
  OBVIOUS
<1>13. IsPosted(after, t, posts, news)
  BY <1>2, <1>8, <1>11, <1>12, PostedIs
<1>14. Good(after) /\ PageShape(after) /\ Owed(after) + 1 <= Owed(t) /\ Owed(after) \in Nat
  <2>1. Unserved(after) \subseteq Unserved(t) \ {q} /\ (Pending(after) => Pending(t))
    BY <1>10, <1>13 DEF IsPosted, Unserved, Pending
  <2>2. Good(after) /\ PageShape(after)
    BY <1>13 DEF IsPosted, Good
  <2> QED BY <1>2, <1>11, <2>1, <2>2, OwedLess, OwedIs
<1>15. Still => Fits(after, p)
  BY <1>2, <1>9, <1>13 DEF IsPosted, Fits
<1>16. ASSUME NEW u, IsTold(u, after), tab' = [tab EXCEPT ![p] = u], left' = left \/ Spend("late")
       PROVE  \E v : Turns(p, v)
  <2>1. Good(u) /\ Owed(u) <= Owed(after) /\ (u.resuming => t.resuming)
    BY <1>13, <1>16 DEF IsTold, IsPosted
  <2>2. Owed(u) \in Nat
    BY <2>1, OwedIs DEF Good
  <2>3. Owed(u) + 1 <= Owed(tab[p])
    BY <1>1, <1>2, <1>14, <2>1, <2>2
  <2>4. Still => Fits(u, p)
    BY <1>15, <1>16 DEF Fits, IsTold
  <2>5. OnlySpent
    BY <1>2, <1>16, OnlySpentIs
  <2>6. Turns(p, u)
    BY <1>0, <1>1, <1>16, <2>1, <2>3, <2>4, <2>5, TurnsCounted
  <2> QED BY <2>6
<1>17. PICK answer : answer = [q EXCEPT !.answer = locked]
  OBVIOUS
<1>18. answer \in Post /\ answer.answer \in BOOLEAN /\ answer.answer # None
  BY <1>4, <1>11, <1>17 DEF Post, DeskAssumption
<1>19. after = [t EXCEPT !.posts = posts, !.news = news]
  BY <1>12 DEF Posted
<1>20. \/ tab' = [tab EXCEPT ![p] = after] /\ left' = left
       \/ tab' = [tab EXCEPT ![p] = Told(after, answer)] /\ left' = left
       \/ tab' = [tab EXCEPT ![p] = [after EXCEPT !.posts = posts \cup {answer}]] /\ Spend("late")
  <2>1. after.posts = posts
    BY <1>13 DEF IsPosted
  <2> QED BY <1>1, <1>3, <1>5, <1>6, <1>10, <1>17, <1>19, <2>1 DEF ReportServed
<1>21. CASE tab' = [tab EXCEPT ![p] = after] /\ left' = left
  <2>1. IsTold(after, after)
    BY <1>14 DEF IsTold
  <2> QED BY <1>16, <1>21, <2>1
<1>22. CASE tab' = [tab EXCEPT ![p] = Told(after, answer)] /\ left' = left
  <2>1. IsTold(Told(after, answer), after)
    BY <1>14, ToldIs
  <2> QED BY <1>16, <1>22, <2>1
<1>23. CASE tab' = [tab EXCEPT ![p] = [after EXCEPT !.posts = posts \cup {answer}]] /\ Spend("late")
  <2>1. PICK more : more = posts \cup {answer}
    OBVIOUS
  <2>2. IsFiniteSet(more) /\ more \subseteq Post
    BY <1>11, <1>18, <2>1, FS_AddElement
  <2>3. PICK u : u = Posted(after, more, news)
    OBVIOUS
  <2>4. IsPosted(u, after, more, news)
    BY <1>8, <1>14, <2>2, <2>3, PostedIs
  <2>5. u = [after EXCEPT !.posts = posts \cup {answer}]
    BY <1>13, <1>14, <2>1, <2>3 DEF Posted, IsPosted, PageShape, TabFields
  <2>6. IsTold(u, after)
    <3>1. Unserved(u) \subseteq Unserved(after) /\ (Pending(u) => Pending(after))
      BY <1>13, <1>18, <2>1, <2>4 DEF IsPosted, Unserved, Pending
    <3>2. PageShape(u)
      BY <2>4 DEF IsPosted, Good
    <3>3. Owed(u) <= Owed(after)
      BY <1>14, <3>1, <3>2, OwedShrinks
    <3> QED BY <1>13, <2>4, <3>3 DEF IsTold, IsPosted
  <2> QED BY <1>16, <1>23, <2>5, <2>6
<1> QED BY <1>20, <1>21, <1>22, <1>23

LEMMA ReportLostTurns ==
  ASSUME EngineInv, SeatInductive, NEW p \in People, tab[p] # None, NEW q \in tab[p].posts, ReportLost(p, q), request' = request
  PROVE  \E u : Turns(p, u)
<1>1. PICK t : t = tab[p]
  OBVIOUS
<1>2. LeftInv /\ AccountsInv /\ PageShape(t) /\ Good(t) /\ Owed(t) \in Nat /\ (Still => Fits(t, p))
  BY <1>1, PageIsGood
<1>3. UNCHANGED <<contest, account, slipped>> /\ OnlySpent
  BY <1>2, OnlySpentIs DEF ReportLost
<1>4. PICK posts, news : posts = t.posts \ {q} /\ news = t.news
  OBVIOUS
<1>5. IsFiniteSet(posts) /\ posts \subseteq Post /\ news \in Seq(News)
  BY <1>2, <1>4, FS_Subset DEF PageShape
<1>6. PICK u : u = Posted(t, posts, news)
  OBVIOUS
<1>7. IsPosted(u, t, posts, news)
  BY <1>2, <1>5, <1>6, PostedIs
<1>8. Owed(u) <= Owed(t)
  <2>1. Unserved(u) \subseteq Unserved(t) /\ (Pending(u) => Pending(t)) /\ PageShape(u)
    BY <1>4, <1>7 DEF IsPosted, Unserved, Pending, Good
  <2> QED BY <1>2, <2>1, OwedShrinks
<1>9. tab' = [tab EXCEPT ![p] = u]
  <2>1. tab' = [tab EXCEPT ![p] = [t EXCEPT !.posts = posts]]
    BY <1>1, <1>4 DEF ReportLost
  <2>2. u = [t EXCEPT !.posts = posts]
    BY <1>2, <1>4, <1>6 DEF Posted, PageShape, TabFields
  <2> QED BY <2>1, <2>2
<1>10. Good(u) /\ (u.resuming => t.resuming) /\ (Still => Fits(u, p))
  BY <1>2, <1>4, <1>7 DEF IsPosted, Fits
<1>11. Turns(p, u)
  BY <1>1, <1>2, <1>3, <1>8, <1>9, <1>10, TurnsQuietly
<1> QED BY <1>11

LEMMA ReportAnsweredTurns ==
  ASSUME EngineInv, SeatInductive, NEW p \in People, tab[p] # None, NEW q \in tab[p].posts, ReportAnswered(p, q), request' = request
  PROVE  \E u : Turns(p, u)
<1>1. PICK t : t = tab[p]
  OBVIOUS
<1>2. LeftInv /\ AccountsInv /\ PageShape(t) /\ Good(t) /\ Owed(t) \in Nat /\ (Still => Fits(t, p))
  BY <1>1, PageIsGood
<1>3. UNCHANGED <<contest, account, slipped>> /\ OnlySpent
  BY <1>2, OnlySpentIs DEF ReportAnswered
<1>4. PICK u : u = Told(t, q)
  OBVIOUS
<1>5. IsTold(u, t)
  BY <1>2, <1>4, ToldIs
<1>6. tab' = [tab EXCEPT ![p] = u]
  BY <1>1, <1>4 DEF ReportAnswered
<1>7. Good(u) /\ Owed(u) <= Owed(t) /\ (u.resuming => t.resuming) /\ (Still => Fits(u, p))
  BY <1>2, <1>5 DEF IsTold, Fits
<1>8. Turns(p, u)
  BY <1>1, <1>2, <1>3, <1>6, <1>7, TurnsQuietly
<1> QED BY <1>8

-----------------------------------------------------------------------------
(* Leaving the page and coming back.                                        *)

\* A page but for where its owner is, and what it shows of that.
Seated(t, away, slips, screen, resuming) ==
  [t EXCEPT !.away = away, !.slips = slips, !.screen = screen, !.resuming = resuming]
IsSeated(u, t, slips, screen, resuming) ==
  /\ Good(u) /\ u.state = t.state /\ u.fetched = t.fetched /\ u.news = t.news /\ u.posts = t.posts
  /\ u.slips = slips /\ u.screen = screen /\ u.resuming = resuming
Fitting(t, away, slips, screen, resuming) ==
  /\ slips \subseteq away /\ screen \in {"gate", "ok", "alert", "locked"} /\ resuming \in BOOLEAN
  /\ resuming => "fullscreen" \in away \ slips
  /\ screen = "ok" => away = {} \/ slips # {}
  /\ ~t.watching => slips = {} /\ screen # "ok" /\ ~resuming

LEMMA SeatedIs ==
  ASSUME NEW t, Good(t), NEW away, NEW slips, NEW screen, NEW resuming, Fitting(t, away, slips, screen, resuming)
  PROVE  IsSeated(Seated(t, away, slips, screen, resuming), t, slips, screen, resuming)
<1>0. PICK u : u = Seated(t, away, slips, screen, resuming)
  OBVIOUS
<1>1. PageShape(t) /\ Watched(t)
  BY DEF Good
<1>2. /\ u = [f \in TabFields |-> u[f]]
      /\ u.fetched = t.fetched /\ u.state = t.state /\ u.news = t.news /\ u.watching = t.watching /\ u.resuming = resuming
      /\ u.screen = screen /\ u.again = t.again /\ u.reading = t.reading /\ u.away = away /\ u.slips = slips /\ u.posts = t.posts
  BY <1>0, <1>1 DEF PageShape, TabFields, Seated
<1>3. PageShape(u)
  BY <1>1, <1>2 DEF PageShape, Fitting
<1>4. Watched(u)
  BY <1>1, <1>2 DEF Watched, Enforced, Held, Fitting
<1> QED BY <1>0, <1>2, <1>3, <1>4 DEF Good, IsSeated

\* A move that leaves no slip to be reported that was not.
LEMMA SeatedTurns ==
  ASSUME EngineInv, SeatInductive, NEW p \in People, tab[p] # None, NEW t, t = tab[p],
         NEW away, NEW slips, NEW screen, NEW resuming, Fitting(t, away, slips, screen, resuming),
         slips # {} /\ screen = "ok" => t.slips # {} /\ t.screen = "ok",
         resuming => left.may["slow"] > 0 \/ t.resuming,
         tab' = [tab EXCEPT ![p] = Seated(t, away, slips, screen, resuming)],
         UNCHANGED <<contest, account, slipped, request>>, OnlySpent
  PROVE  \E u : Turns(p, u)
<1>1. LeftInv /\ AccountsInv /\ PageShape(t) /\ Good(t) /\ Owed(t) \in Nat /\ (Still => Fits(t, p))
  BY PageIsGood
<1>2. PICK u : u = Seated(t, away, slips, screen, resuming)
  OBVIOUS
<1>3. IsSeated(u, t, slips, screen, resuming)
  BY <1>1, <1>2, SeatedIs
<1>4. Owed(u) <= Owed(t)
  <2>1. Unserved(u) \subseteq Unserved(t) /\ (Pending(u) => Pending(t)) /\ PageShape(u)
    BY <1>3 DEF IsSeated, Unserved, Pending, Good
  <2> QED BY <1>1, <2>1, OwedShrinks
<1>5. Good(u) /\ (u.resuming => left.may["slow"] > 0 \/ t.resuming) /\ (Still => Fits(u, p))
  BY <1>1, <1>3 DEF IsSeated, Fits
<1>6. Turns(p, u)
  BY <1>1, <1>2, <1>4, <1>5, TurnsQuietly
<1> QED BY <1>6

LEMMA ReturnsTurns ==
  ASSUME EngineInv, SeatInductive, NEW p \in People, Returns(p), request' = request
  PROVE  \E u : Turns(p, u)
<1>0. tab[p] # None /\ UNCHANGED <<contest, account, slipped, left>> /\ tab[p].away \ {"fullscreen"} # {} /\ tab[p].slips = {}
  BY DEF Returns
<1>1. PICK t : t = tab[p]
  OBVIOUS
<1>2. LeftInv /\ PageShape(t) /\ Watched(t)
  BY <1>0, <1>1, PageIsGood
<1>3. PICK away, slips, screen, resuming :
        away = t.away \cap {"fullscreen"} /\ slips = t.slips /\ screen = t.screen /\ resuming = t.resuming
  OBVIOUS
<1>4. Fitting(t, away, slips, screen, resuming)
  BY <1>0, <1>1, <1>2, <1>3 DEF Fitting, Watched, PageShape, Held
<1>5. Seated(t, away, slips, screen, resuming) = [t EXCEPT !.away = away]
  BY <1>2, <1>3 DEF Seated, PageShape, TabFields
<1>6. tab' = [tab EXCEPT ![p] = Seated(t, away, slips, screen, resuming)]
  <2>1. tab' = [tab EXCEPT ![p] = [t EXCEPT !.away = away]]
    BY <1>1, <1>3 DEF Returns
  <2> QED BY <1>5, <2>1
<1>7. OnlySpent
  BY <1>0, <1>2, OnlySpentIs
<1>8. slips = {} /\ (resuming => t.resuming)
  BY <1>0, <1>1, <1>3
<1> QED BY <1>0, <1>1, <1>4, <1>6, <1>7, <1>8, SeatedTurns

LEMMA ResumesTurns ==
  ASSUME EngineInv, SeatInductive, NEW p \in People, Resumes(p), request' = request
  PROVE  \E u : Turns(p, u)
<1>0. /\ tab[p] # None /\ UNCHANGED <<contest, account, slipped>> /\ tab[p].slips = {} /\ tab[p].away \subseteq {"fullscreen"}
      /\ tab[p].watching /\ tab[p].screen \in {"gate", "alert"}
  BY DEF Resumes, Button
<1>1. PICK t : t = tab[p]
  OBVIOUS
<1>2. LeftInv /\ PageShape(t) /\ Watched(t)
  BY <1>0, <1>1, PageIsGood
<1>3. CASE tab' = [tab EXCEPT ![p] = Resumed([t EXCEPT !.away = {}])] /\ left' = left
  <2>1. PICK away, slips, screen, resuming :
          away = {} /\ slips = t.slips /\ screen = "ok" /\ resuming = FALSE
    OBVIOUS
  <2>2. Fitting(t, away, slips, screen, resuming)
    BY <1>0, <1>1, <1>2, <2>1 DEF Fitting
  <2>3. Resumed([t EXCEPT !.away = {}]) = Seated(t, away, slips, screen, resuming)
    BY <1>2, <2>1 DEF Seated, PageShape, TabFields, Resumed, Held
  <2>4. OnlySpent
    BY <1>2, <1>3, OnlySpentIs
  <2>5. tab' = [tab EXCEPT ![p] = Seated(t, away, slips, screen, resuming)]
    BY <1>3, <2>3
  <2>6. slips = {} /\ ~resuming
    BY <1>0, <1>1, <2>1
  <2> QED BY <1>0, <1>1, <2>2, <2>4, <2>5, <2>6, SeatedTurns
<1>4. CASE "fullscreen" \in t.away /\ Spend("slow") /\ tab' = [tab EXCEPT ![p].resuming = TRUE]
  <2>1. PICK away, slips, screen, resuming :
          away = t.away /\ slips = t.slips /\ screen = t.screen /\ resuming = TRUE
    OBVIOUS
  <2>2. Fitting(t, away, slips, screen, resuming)
    BY <1>0, <1>1, <1>2, <1>4, <2>1 DEF Fitting
  <2>3. [t EXCEPT !.resuming = TRUE] = Seated(t, away, slips, screen, resuming)
    BY <1>2, <2>1 DEF Seated, PageShape, TabFields
  <2>4. OnlySpent /\ left.may["slow"] > 0
    BY <1>2, <1>4, OnlySpentIs DEF Spend, May
  <2>5. tab' = [tab EXCEPT ![p] = Seated(t, away, slips, screen, resuming)]
    <3>1. tab' = [tab EXCEPT ![p] = [t EXCEPT !.resuming = TRUE]]
      BY <1>1, <1>4
    <3> QED BY <2>3, <3>1
  <2>6. slips = {}
    BY <1>0, <1>1, <2>1
  <2> QED BY <1>0, <1>1, <2>2, <2>4, <2>5, <2>6, SeatedTurns
<1> QED BY <1>1, <1>3, <1>4 DEF Resumes

LEMMA GrantedTurns ==
  ASSUME EngineInv, SeatInductive, NEW p \in People, Granted(p), request' = request
  PROVE  \E u : Turns(p, u)
<1>0. tab[p] # None /\ UNCHANGED <<contest, account, slipped, left>> /\ tab[p].resuming
  BY DEF Granted
<1>1. PICK t : t = tab[p]
  OBVIOUS
<1>2. LeftInv /\ PageShape(t) /\ Watched(t) /\ OnlySpent
  BY <1>0, <1>1, PageIsGood, OnlySpentIs
<1>3. CASE tab' = [tab EXCEPT ![p] = Resumed([t EXCEPT !.away = t.away \ {"fullscreen"}])]
  <2>1. PICK away, slips, screen, resuming :
          /\ away = t.away \ {"fullscreen"} /\ slips = t.slips /\ resuming = FALSE
          /\ screen = IF away = {} THEN "ok" ELSE t.screen
    OBVIOUS
  <2>2. Fitting(t, away, slips, screen, resuming)
    BY <1>0, <1>1, <1>2, <2>1 DEF Fitting, Watched, PageShape, Held
  <2>3. Resumed([t EXCEPT !.away = t.away \ {"fullscreen"}]) = Seated(t, away, slips, screen, resuming)
    BY <1>2, <2>1 DEF Seated, PageShape, TabFields, Resumed, Held
  <2>5. tab' = [tab EXCEPT ![p] = Seated(t, away, slips, screen, resuming)]
    BY <1>3, <2>3
  <2>6. slips # {} /\ screen = "ok" => t.slips # {} /\ t.screen = "ok"
    BY <2>1, <2>2 DEF Fitting
  <2>7. ~resuming
    BY <2>1
  <2> QED BY <1>0, <1>1, <1>2, <2>2, <2>5, <2>6, <2>7, SeatedTurns
<1>4. CASE tab' = [tab EXCEPT ![p].resuming = FALSE]
  <2>1. PICK away, slips, screen, resuming :
          away = t.away /\ slips = t.slips /\ screen = t.screen /\ resuming = FALSE
    OBVIOUS
  <2>2. Fitting(t, away, slips, screen, resuming)
    BY <1>0, <1>1, <1>2, <2>1 DEF Fitting, Watched, PageShape, Held
  <2>3. [t EXCEPT !.resuming = FALSE] = Seated(t, away, slips, screen, resuming)
    BY <1>2, <2>1 DEF Seated, PageShape, TabFields
  <2>5. tab' = [tab EXCEPT ![p] = Seated(t, away, slips, screen, resuming)]
    <3>1. tab' = [tab EXCEPT ![p] = [t EXCEPT !.resuming = FALSE]]
      BY <1>1, <1>4
    <3> QED BY <2>3, <3>1
  <2>7. ~resuming
    BY <2>1
  <2> QED BY <1>0, <1>1, <1>2, <2>1, <2>2, <2>5, <2>7, SeatedTurns
<1> QED BY <1>1, <1>3, <1>4 DEF Granted

\* Who leaves a page that watches slips once, however many events the browser fires.
LEMMA LeavesTurns ==
  ASSUME EngineInv, SeatInductive, NEW p \in People, NEW ways, Leaves(p, ways), request' = request
  PROVE  \E u : Turns(p, u)
<1>0. tab[p] # None /\ UNCHANGED <<contest, account>> /\ ~(ways \subseteq tab[p].away) /\ Spend("leave")
  BY DEF Leaves
<1>1. PICK t : t = tab[p]
  OBVIOUS
<1>2. LeftInv /\ AccountsInv /\ PageShape(t) /\ Watched(t) /\ Good(t) /\ Owed(t) \in Nat /\ (Still => Fits(t, p))
  BY <1>0, <1>1, PageIsGood
<1>3. PICK away, slips, screen, resuming :
        /\ away = t.away \cup ways /\ slips = (IF t.watching THEN t.slips \cup (ways \ t.away) ELSE t.slips)
        /\ screen = t.screen /\ resuming = t.resuming
  OBVIOUS
<1>4. Fitting(t, away, slips, screen, resuming)
  BY <1>0, <1>1, <1>2, <1>3 DEF Fitting, Watched, PageShape, Held
<1>5. PICK u : u = Seated(t, away, slips, screen, resuming)
  OBVIOUS
<1>6. IsSeated(u, t, slips, screen, resuming)
  BY <1>2, <1>4, <1>5, SeatedIs
<1>7. tab' = [tab EXCEPT ![p] = u]
  <2>1. u = [t EXCEPT !.away = away, !.slips = slips]
    BY <1>2, <1>3, <1>5 DEF Seated, PageShape, TabFields
  <2>2. tab' = [tab EXCEPT ![p] = [t EXCEPT !.away = away, !.slips = slips]]
    <3>1. tab' = [tab EXCEPT ![p].away = away, ![p].slips = slips]
      BY <1>1, <1>3 DEF Leaves
    <3> QED BY <1>1, <3>1
  <2> QED BY <2>1, <2>2
<1>8. OnlySpent
  BY <1>0, <1>2, OnlySpentIs
<1>9. Good(u) /\ PageShape(u) /\ Owed(u) \in Nat /\ (u.resuming => t.resuming) /\ (Still => Fits(u, p))
  BY <1>2, <1>3, <1>6, OwedIs DEF IsSeated, Fits, Good
<1>10. Unserved(u) = Unserved(t)
  BY <1>6 DEF IsSeated, Unserved
<1>11. CASE t.watching /\ Held(t)
  <2>1. Owed(u) <= Owed(t) + 1
    <3>1. Owed(u) <= Cardinality(Unserved(t)) + 1 /\ Cardinality(Unserved(t)) <= Owed(t)
      BY <1>2, <1>9, <1>10, OwedIs
    <3> QED BY <1>2, <1>9, <3>1, OwedIs
  <2>2. slipped' = [slipped EXCEPT ![p] = slipped[p] + 1]
    BY <1>1, <1>11 DEF Leaves
  <2>3. slipped'[p] = slipped[p] + 1 /\ slipped[p] \in Nat /\ account[p].rows + Owed(t) <= slipped[p] /\ account[p].rows \in Nat
    BY <1>0, <1>1, <1>2, <2>2 DEF SeatInductive, CountedOnce, AccountsInv, AccountOK, AccountNumbers
  <2>4. account[p].rows + Owed(u) <= slipped'[p] /\ slipped'[p] \in Nat
    BY <1>2, <1>9, <2>1, <2>3
  <2>5. slipped' = [slipped EXCEPT ![p] = slipped'[p]]
    BY <2>2, <2>3
  <2>6. Turns(p, u)
    BY <1>0, <1>1, <1>7, <1>8, <1>9, <2>4, <2>5 DEF Turns
  <2> QED BY <2>6
<1>12. CASE ~(t.watching /\ Held(t))
  <2>1. Pending(u) => Pending(t)
    BY <1>2, <1>3, <1>6, <1>12 DEF IsSeated, Pending, Watched
  <2>2. Owed(u) <= Owed(t)
    BY <1>2, <1>9, <1>10, <2>1, OwedShrinks
  <2>3. slipped' = slipped
    BY <1>1, <1>12 DEF Leaves
  <2>4. Turns(p, u)
    BY <1>0, <1>1, <1>2, <1>7, <1>8, <1>9, <2>2, <2>3, TurnsQuietly
  <2> QED BY <2>4
<1> QED BY <1>11, <1>12

\* A seat's step, whatever it is, leaves the seats as they should be.
LEMMA SeatStepIs ==
  ASSUME DeskAssumption, EngineInv, SeatInductive, NEW p \in People, Seat(p)
  PROVE  SeatInductive'
<1>1. request' = request /\ (Follows(p) \/ Moves(p))
  BY DEF Seat
<1>2. \E u : Turns(p, u)
  <2>1. CASE Follows(p)
    BY <1>1, <2>1, HearsTurns, ReadServedTurns, ReadAnsweredTurns, ReportsTurns, ReportServedTurns, ReportAnsweredTurns DEF Follows
  <2>2. CASE Moves(p)
    BY <1>1, <2>2, OpensTurns, ReloadsTurns, ReturnsTurns, ResumesTurns, GrantedTurns, LeavesTurns, ReportLostTurns DEF Moves
  <2> QED BY <1>1, <2>1, <2>2
<1>3. EngineInv'
  BY SeatIs
<1> QED BY <1>2, <1>3, SeatTurned DEF EngineInv

-----------------------------------------------------------------------------
(* What everybody else's steps leave of a page.                             *)

HeldBack == {"advance", "save", "disqualify", "requalify"}

\* A page that has more to hear.
HearsMore(p) ==
  /\ tab[p] # None /\ Good(tab'[p]) /\ Owed(tab'[p]) <= Owed(tab[p])
  /\ tab'[p].resuming = tab[p].resuming /\ tab'[p].state = tab[p].state /\ tab'[p].fetched = tab[p].fetched
  /\ Still => tab'[p].news \in Seq(NewsOf(contest.phase))

PhaseKept ==
  /\ contest'.phase = contest.phase /\ contest'.set.proctoring = contest.set.proctoring
  /\ \A p \in People : tab'[p] # None => account'[p].out = account[p].out

AsksNoMore ==
  \A o \in Organisers : request'[o] # None =>
    \/ request'[o].op \notin HeldBack
    \/ request[o] # None /\ request'[o].op = request[o].op
    \/ request'[o].op \in Ops /\ left.may[request'[o].op] > 0

SeatsKept ==
  /\ slipped' = slipped /\ OnlySpent
  /\ \A p \in People : account'[p].rows <= account[p].rows
  /\ \A p \in People : tab'[p] = None \/ tab'[p] = tab[p] \/ HearsMore(p)
  /\ AsksNoMore
  /\ Still => (\A p \in People : tab'[p] = None) \/ PhaseKept

LEMMA KeptIs ==
  ASSUME AccountsInv, AccountsInv', SeatInductive, SeatsKept
  PROVE  SeatInductive'
<1>1. ASSUME NEW p \in People, tab'[p] # None
      PROVE  /\ tab[p] # None /\ PageShape(tab'[p]) /\ Watched(tab'[p]) /\ Owed(tab'[p]) <= Owed(tab[p])
             /\ tab'[p].resuming = tab[p].resuming
  <2>1. CASE tab'[p] = tab[p]
    <3>1. PageShape(tab[p]) /\ Watched(tab[p])
      BY <1>1, <2>1 DEF SeatInductive
    <3>2. Owed(tab[p]) \in Nat
      BY <3>1, OwedIs
    <3> QED BY <1>1, <2>1, <3>1, <3>2
  <2>2. CASE HearsMore(p)
    BY <2>2 DEF HearsMore, Good
  <2> QED BY <1>1, <2>1, <2>2 DEF SeatsKept
<1>2. ASSUME NEW p \in People
      PROVE  CountedOnce(p)'
  <2>0. account'[p].rows <= account[p].rows /\ account'[p].rows \in Nat /\ account[p].rows \in Nat /\ slipped' = slipped
        /\ CountedOnce(p) /\ slipped[p] \in Nat
    BY DEF SeatsKept, AccountsInv, AccountOK, AccountNumbers, SeatInductive
  <2>1. CASE tab'[p] = None
    <3>1. account[p].rows <= slipped[p]
      <4>1. CASE tab[p] = None
        BY <2>0, <4>1 DEF CountedOnce
      <4>2. CASE tab[p] # None
        <5>1. Owed(tab[p]) \in Nat
          BY <4>2, OwedIs DEF SeatInductive
        <5> QED BY <2>0, <4>2, <5>1 DEF CountedOnce
      <4> QED BY <4>1, <4>2
    <3> QED BY <2>0, <2>1, <3>1 DEF CountedOnce
  <2>2. CASE tab'[p] # None
    <3>1. Owed(tab[p]) \in Nat /\ Owed(tab'[p]) \in Nat /\ Owed(tab'[p]) <= Owed(tab[p]) /\ tab[p] # None
      BY <1>1, <2>2, OwedIs DEF SeatInductive
    <3>2. account[p].rows + Owed(tab[p]) <= slipped[p]
      BY <2>0, <3>1 DEF CountedOnce
    <3>3. account'[p].rows + Owed(tab'[p]) <= slipped'[p]
      BY <2>0, <3>1, <3>2
    <3> QED BY <2>2, <3>3 DEF CountedOnce
  <2> QED BY <2>1, <2>2
<1>3. slipped' \in [People -> Nat] /\ \A p \in People : tab'[p] # None => PageShape(tab'[p]) /\ Watched(tab'[p])
  BY <1>1 DEF SeatInductive, SeatsKept
<1>4. "slow" \in Ops /\ \A op \in HeldBack : op \in Ops
  BY DEF Ops, HeldBack
<1>5. CASE Prompt
  <2>1. left'.may["slow"] = 0
    BY <1>4, <1>5 DEF Prompt, SeatsKept, OnlySpent
  <2>2. Prompt'
    BY <1>1, <1>5, <2>1 DEF Prompt
  <2> QED BY <1>2, <1>3, <2>2 DEF SeatInductive
<1>6. CASE Still
  <2>1. ASSUME NEW op \in HeldBack
        PROVE  left'.may[op] = 0 /\ \A o \in Organisers : request'[o] # None => request'[o].op # op
    <3>1. left.may[op] = 0 /\ \A o \in Organisers : request[o] # None => request[o].op # op
      BY <1>6 DEF Still, HeldBack
    <3>2. left'.may[op] = 0
      BY <1>4, <3>1 DEF SeatsKept, OnlySpent
    <3>3. ASSUME NEW o \in Organisers, request'[o] # None, request'[o].op = op
          PROVE  FALSE
      BY <3>1, <3>3 DEF SeatsKept, AsksNoMore
    <3> QED BY <3>2, <3>3
  <2>2. ASSUME NEW p \in People, tab'[p] # None
        PROVE  /\ Same(tab[p].state, p)'
               /\ tab'[p].fetched # None => Same(tab[p].fetched, p)'
               /\ tab'[p].news \in Seq(NewsOf(contest'.phase))
    <3>1. contest'.phase = contest.phase /\ contest'.set.proctoring = contest.set.proctoring /\ account'[p].out = account[p].out
      BY <1>6, <2>2 DEF SeatsKept, PhaseKept
    <3>2. Fits(tab'[p], p)
      <4>1. Fits(tab[p], p)
        BY <1>1, <1>6, <2>2, StillFits
      <4>2. CASE tab'[p] = tab[p]
        BY <4>1, <4>2
      <4>3. CASE HearsMore(p)
        BY <1>6, <4>1, <4>3 DEF HearsMore, Fits
      <4> QED BY <2>2, <4>2, <4>3 DEF SeatsKept
    <3> QED BY <3>1, <3>2 DEF Fits, Same
  <2>3. Still'
    BY <2>1, <2>2 DEF Still, HeldBack
  <2> QED BY <1>2, <1>3, <2>3 DEF SeatInductive
<1> QED BY <1>5, <1>6 DEF SeatInductive

-----------------------------------------------------------------------------
(* Events on their way to a page.                                           *)

LEMMA EventsAre ==
  ASSUME NEW S, Phase \in S, \A name \in {"announce", "notify", "proctor"} : Event(name) \in S, NEW op
  PROVE  Events(op) \in Seq(S)
<1>1. PICK a, b, c, d : a = Phase /\ b = Event("announce") /\ c = Event("notify") /\ d = Event("proctor")
  OBVIOUS
<1>2. a \in S /\ b \in S /\ c \in S /\ d \in S
  BY <1>1
<1>3. Events(op) \in {<<a, b>>, <<a>>, <<b>>, <<c>>, <<d>>, << >>}
  BY <1>1 DEF Events
<1>4. <<a, b>> \in Seq(S) /\ <<a>> \in Seq(S) /\ <<b>> \in Seq(S) /\ <<c>> \in Seq(S) /\ <<d>> \in Seq(S) /\ << >> \in Seq(S)
  BY <1>2, EmptySeq
<1> QED BY <1>3, <1>4

LEMMA PublishesReaches ==
  ASSUME EngineInv, SeatInductive, NEW o \in Organisers, Publishes(o), NEW p \in People
  PROVE  tab'[p] = None \/ tab'[p] = tab[p] \/ HearsMore(p)
<1>1. CASE ~(p \in To(request[o]) /\ tab[p] # None)
  BY <1>1 DEF Publishes
<1>2. CASE p \in To(request[o]) /\ tab[p] # None
  <2>1. PICK t : t = tab[p]
    OBVIOUS
  <2>2. ContestRow /\ PageShape(t) /\ Good(t) /\ (Still => Fits(t, p))
    BY <1>2, <2>1, PageIsGood
  <2>3. PICK more : more = Events(request[o].op)
    OBVIOUS
  <2>4. PICK c : c = PhaseSnapshot
    OBVIOUS
  <2>5. c \in Snapshot /\ c.phase = contest.phase
    <3>1. c = [phase |-> contest.phase, board |-> contest.set.board] /\ contest.phase \in PhaseNames /\ contest.set.board \in {"live", "hidden"}
      BY <2>2, <2>4 DEF PhaseSnapshot, ContestRow, Settings
    <3> QED BY <3>1 DEF Snapshot
  <2>6. Phase \in NewsOf(contest.phase) /\ \A name \in {"announce", "notify", "proctor"} : Event(name) \in NewsOf(contest.phase)
    <3>1. Phase = [name |-> "phase", snapshot |-> c]
      BY <2>4 DEF Phase
    <3> QED BY <2>5, <3>1 DEF NewsOf, News, Event
  <2>7. more \in Seq(NewsOf(contest.phase)) /\ more \in Seq(News)
    <3>1. NewsOf(contest.phase) \subseteq News
      BY DEF NewsOf
    <3>2. Phase \in News /\ \A name \in {"announce", "notify", "proctor"} : Event(name) \in News
      BY <2>6, <3>1
    <3> QED BY <2>3, <2>6, <3>2, EventsAre
  <2>8. PICK news, posts : news = t.news \o more /\ posts = t.posts
    OBVIOUS
  <2>9. news \in Seq(News) /\ IsFiniteSet(posts) /\ posts \subseteq Post
    BY <2>2, <2>7, <2>8, ConcatProperties DEF PageShape
  <2>10. Still => news \in Seq(NewsOf(contest.phase))
    BY <2>2, <2>7, <2>8, ConcatProperties DEF Fits
  <2>11. PICK u : u = Posted(t, posts, news)
    OBVIOUS
  <2>12. IsPosted(u, t, posts, news)
    BY <2>2, <2>9, <2>11, PostedIs
  <2>13. tab'[p] = u
    <3>1. tab'[p] = [t EXCEPT !.news = t.news \o more]
      BY <1>2, <2>1, <2>3 DEF Publishes
    <3> QED BY <2>2, <2>8, <2>11, <3>1 DEF Posted, PageShape, TabFields
  <2>14. Owed(u) <= Owed(t)
    <3>1. Unserved(u) \subseteq Unserved(t) /\ (Pending(u) => Pending(t)) /\ PageShape(u)
      BY <2>8, <2>12 DEF IsPosted, Unserved, Pending, Good
    <3> QED BY <2>2, <3>1, OwedShrinks
  <2>15. HearsMore(p)
    BY <1>2, <2>1, <2>10, <2>12, <2>13, <2>14 DEF HearsMore, IsPosted
  <2> QED BY <2>15
<1> QED BY <1>1, <1>2

-----------------------------------------------------------------------------
(* The engine leaves the seats as they should be.                           *)

LEMMA ServingAsksNoMore ==
  ASSUME RequestsInv, NEW o \in Organisers, request[o] # None, NEW s, request' = [request EXCEPT ![o] = s], s.op = request[o].op
  PROVE  AsksNoMore
BY DEF RequestsInv, AsksNoMore

LEMMA MovingOnAsksNoMore ==
  ASSUME RequestsInv, NEW o \in Organisers, request[o] # None, NEW at, request' = [request EXCEPT ![o].at = at]
  PROVE  AsksNoMore
<1>1. PICK s : s = [request[o] EXCEPT !.at = at]
  OBVIOUS
<1>2. s.op = request[o].op
  BY <1>1 DEF RequestsInv, RequestOK
<1>3. request' = [request EXCEPT ![o] = s]
  BY <1>1
<1> QED BY <1>2, <1>3, ServingAsksNoMore

LEMMA EngineAsksNoMore ==
  ASSUME RequestsInv, NEW o \in Organisers, Engine(o)
  PROVE  AsksNoMore
<1>0. request[o] # None /\ RequestOK(request[o])
  BY DEF Engine, RequestsInv
<1>1. CASE \E at : request' = [request EXCEPT ![o].at = at]
  BY <1>0, <1>1, MovingOnAsksNoMore
<1>2. CASE AdvanceChecks(o)
  <2>1. PICK at : at = IF Blocked THEN "failed" ELSE "checked"
    OBVIOUS
  <2>2. PICK s : s = [request[o] EXCEPT !.at = at, !.arg = contest.phase]
    OBVIOUS
  <2>3. s.op = request[o].op
    BY <1>0, <2>2 DEF RequestOK
  <2>4. request' = [request EXCEPT ![o] = s]
    BY <1>2, <2>1, <2>2 DEF AdvanceChecks
  <2> QED BY <1>0, <2>3, <2>4, ServingAsksNoMore
<1>3. CASE SelectReads(o)
  <2>1. PICK s : s = [request[o] EXCEPT !.at = "checked", !.paid = Paid, !.amount = contest.set.start]
    OBVIOUS
  <2>2. s.op = request[o].op
    BY <1>0, <2>1 DEF RequestOK
  <2>3. request' = [request EXCEPT ![o] = s]
    BY <1>3, <2>1 DEF SelectReads
  <2> QED BY <1>0, <2>2, <2>3, ServingAsksNoMore
<1>4. CASE Fails(o) \/ Commits(o)
  BY <1>1, <1>4 DEF Fails, Commits
<1>5. CASE RemoveServed(o) \/ Publishes(o)
  BY <1>1, <1>4, <1>5 DEF RemoveServed, Publishes
<1> QED BY <1>2, <1>3, <1>4, <1>5 DEF Engine, AdvanceServed, ExtendServed, RegistrationServed, AnnounceServed, SaveServed,
        CreateServed, UnlockServed, DisqualifyServed, SelectServed

\* Rows of an account are written by who is counted, and lost with the account.
RowsKept == \A p \in People : account'[p].rows <= account[p].rows
OutKept == \A p \in People : tab'[p] # None => account'[p].out = account[p].out
TabsKept == \A p \in People : tab'[p] = None \/ tab'[p] = tab[p] \/ HearsMore(p)

LEMMA SameRows ==
  ASSUME AccountsInv, account' = account
  PROVE  RowsKept /\ OutKept
<1>1. \A p \in People : account[p].rows \in Nat
  BY DEF AccountsInv, AccountOK, AccountNumbers
<1> QED BY <1>1 DEF RowsKept, OutKept

LEMMA TouchedRows ==
  ASSUME AccountsInv, NEW p \in People, NEW fields, Touches(p, fields), "rows" \notin fields
  PROVE  RowsKept /\ ("out" \notin fields => OutKept)
<1>1. \A q \in People : account[q].rows \in Nat
  BY DEF AccountsInv, AccountOK, AccountNumbers
<1>2. \A q \in People : account'[q].rows = account[q].rows
  BY DEF Touches, AccountFields
<1>3. "out" \notin fields => \A q \in People : account'[q].out = account[q].out
  BY DEF Touches, AccountFields
<1> QED BY <1>1, <1>2, <1>3 DEF RowsKept, OutKept

LEMMA EnteredRows ==
  ASSUME AccountsInv, HereInv, NEW p \in People, ~account[p].in, NEW g \in Nat, account' = [account EXCEPT ![p] = Entered(g)],
         \A q \in People : tab'[q] # None => tab[q] # None
  PROVE  RowsKept /\ OutKept
<1>1. \A q \in People : account[q].rows \in Nat
  BY DEF AccountsInv, AccountOK, AccountNumbers
<1>2. Entered(g).rows = 0
  BY EnteredIs
<1>3. \A q \in People : account'[q] = IF q = p THEN Entered(g) ELSE account[q]
  BY DEF AccountsInv
<1>4. tab[p] = None
  BY DEF HereInv
<1> QED BY <1>1, <1>2, <1>3, <1>4 DEF RowsKept, OutKept

LEMMA EngineKeepsSeats ==
  ASSUME DeskAssumption, EngineInv, SeatInductive, NEW o \in Organisers, Engine(o)
  PROVE  SeatInductive'
<1>0. /\ LeftInv /\ ContestRow /\ AccountsInv /\ HereInv /\ RequestsInv /\ SaidInv
      /\ request[o] # None /\ slipped' = slipped /\ left' = left /\ now' = now /\ AccountsInv' /\ EngineInv'
  BY EngineIs DEF EngineInv, Engine
<1>1. OnlySpent /\ AsksNoMore
  BY <1>0, OnlySpentIs, EngineAsksNoMore
<1>2. ASSUME TabsKept, RowsKept, Still => PhaseKept
      PROVE  SeatInductive'
  BY <1>0, <1>1, <1>2, KeptIs DEF SeatsKept, TabsKept, RowsKept
<1>3. ASSUME tab' = tab, RowsKept, Still => contest'.phase = contest.phase /\ contest'.set.proctoring = contest.set.proctoring /\ OutKept
      PROVE  SeatInductive'
  BY <1>2, <1>3 DEF TabsKept, PhaseKept, OutKept
<1>4. ASSUME tab' = tab, account' = account, contest'.phase = contest.phase, contest'.set.proctoring = contest.set.proctoring
      PROVE  SeatInductive'
  BY <1>0, <1>3, <1>4, SameRows
<1>5. ASSUME Still
      PROVE  request[o].op \notin HeldBack
  BY <1>0, <1>5 DEF Still, HeldBack
<1>6. CASE AdvanceChecks(o) \/ SelectReads(o) \/ Fails(o)
  <2>1. UNCHANGED <<contest, account, tab>>
    BY <1>6 DEF AdvanceChecks, SelectReads, Fails, engine
  <2> QED BY <1>4, <2>1
<1>7. CASE AdvanceServed(o) \/ SaveServed(o)
  <2>1. tab' = tab /\ account' = account
    BY <1>7 DEF AdvanceServed, SaveServed, Fails, Commits, engine
  <2>2. request[o].op \in HeldBack
    BY <1>7 DEF AdvanceServed, SaveServed, HeldBack
  <2> QED BY <1>0, <1>3, <1>5, <2>1, <2>2, SameRows
<1>8. CASE ExtendServed(o) /\ ~Fails(o)
  <2>1. contest' = [contest EXCEPT !.ends = Extended(contest.ends)] /\ tab' = tab /\ account' = account
    BY <1>8 DEF ExtendServed, Commits
  <2>2. contest'.phase = contest.phase /\ contest'.set = contest.set
    BY <1>0, <2>1 DEF ContestRow
  <2> QED BY <1>4, <2>1, <2>2
<1>9. CASE RegistrationServed(o)
  <2>1. contest' = [contest EXCEPT !.reg = request[o].arg] /\ tab' = tab /\ account' = account
    BY <1>9 DEF RegistrationServed, Commits
  <2>2. contest'.phase = contest.phase /\ contest'.set = contest.set
    BY <1>0, <2>1 DEF ContestRow
  <2> QED BY <1>4, <2>1, <2>2
<1>10. CASE AnnounceServed(o)
  <2>1. contest' = contest /\ tab' = tab /\ account' = account
    BY <1>10 DEF AnnounceServed, Commits
  <2> QED BY <1>4, <2>1
<1>11. CASE CreateServed(o)
  <2>1. tab' = tab
    BY <1>11 DEF CreateServed, Fails, Commits
  <2>2. /\ contest' = contest
        /\ \/ account' = account
           \/ \E p \in People, g \in {0, contest.set.start} : ~account[p].in /\ account' = [account EXCEPT ![p] = Entered(g)]
    BY <1>0, <1>11, CreateServedIs
  <2>3. contest.set.start \in Nat
    BY <1>0 DEF ContestRow, Settings
  <2>4. RowsKept /\ OutKept
    <3>1. ASSUME NEW p \in People, NEW g \in {0, contest.set.start}, ~account[p].in, account' = [account EXCEPT ![p] = Entered(g)]
          PROVE  RowsKept /\ OutKept
      <4>1. PICK h \in Nat : h = g
        BY <2>3
      <4> QED BY <1>0, <2>1, <3>1, <4>1, EnteredRows
    <3> QED BY <1>0, <2>2, <3>1, SameRows
  <2> QED BY <1>3, <2>1, <2>2, <2>4
<1>12. CASE UnlockServed(o)
  <2>1. tab' = tab
    BY <1>12 DEF UnlockServed, Fails, Commits
  <2>2. contest' = contest /\ \E p \in People : Touches(p, {"alerts", "locked"})
    BY <1>0, <1>12, UnlockServedIs
  <2>3. RowsKept /\ OutKept
    BY <1>0, <2>2, TouchedRows
  <2> QED BY <1>3, <2>1, <2>2, <2>3
<1>13. CASE DisqualifyServed(o)
  <2>1. tab' = tab /\ request[o].op \in HeldBack
    BY <1>13 DEF DisqualifyServed, Commits, HeldBack
  <2>2. contest' = contest /\ \E p \in People : Touches(p, {"out"})
    BY <1>0, <1>13, DisqualifyServedIs
  <2>3. RowsKept
    BY <1>0, <2>2, TouchedRows
  <2> QED BY <1>3, <1>5, <2>1, <2>2, <2>3
<1>14. CASE RemoveServed(o) /\ ~Fails(o)
  <2>1. PICK p : p = request[o].arg
    OBVIOUS
  <2>2. account' = [account EXCEPT ![p] = Stranger] /\ tab' = [tab EXCEPT ![p] = None] /\ contest' = contest
    BY <1>14, <2>1 DEF RemoveServed, Becomes
  <2>3. \A q \in People : account'[q] = (IF q = p THEN Stranger ELSE account[q]) /\ tab'[q] = (IF q = p THEN None ELSE tab[q])
    BY <1>0, <2>2 DEF AccountsInv, HereInv
  <2>4. \A q \in People : account[q].rows \in Nat
    BY <1>0 DEF AccountsInv, AccountOK, AccountNumbers
  <2>5. RowsKept /\ OutKept /\ TabsKept
    BY <2>3, <2>4, StrangerIs DEF RowsKept, OutKept, TabsKept
  <2> QED BY <1>2, <2>2, <2>5 DEF PhaseKept, OutKept
<1>15. CASE SelectServed(o)
  <2>1. tab' = tab
    BY <1>15 DEF SelectServed, Fails, Commits
  <2>2. contest' = contest /\ \/ account' = account
                              \/ \A p \in People : Keeps(account'[p], account[p], {"advanced", "granted"})
    BY <1>0, <1>15, SelectServedIs
  <2>3. RowsKept /\ OutKept
    <3>1. CASE \A p \in People : Keeps(account'[p], account[p], {"advanced", "granted"})
      <4>1. \A p \in People : account'[p].rows = account[p].rows /\ account'[p].out = account[p].out
        BY <3>1 DEF Keeps, AccountFields
      <4>2. \A q \in People : account[q].rows \in Nat
        BY <1>0 DEF AccountsInv, AccountOK, AccountNumbers
      <4> QED BY <4>1, <4>2 DEF RowsKept, OutKept
    <3> QED BY <1>0, <2>2, <3>1, SameRows
  <2> QED BY <1>3, <2>1, <2>2, <2>3
<1>16. CASE Publishes(o)
  <2>1. contest' = contest /\ account' = account
    BY <1>16 DEF Publishes, engine
  <2>2. TabsKept
    BY <1>16, PublishesReaches DEF TabsKept
  <2>3. RowsKept /\ OutKept
    BY <1>0, <2>1, SameRows
  <2> QED BY <1>2, <2>1, <2>2, <2>3 DEF PhaseKept, OutKept
<1>17. CASE ExtendServed(o) /\ Fails(o)
  BY <1>6, <1>17
<1>18. CASE RemoveServed(o) /\ Fails(o)
  BY <1>6, <1>18
<1> QED BY <1>6, <1>7, <1>8, <1>9, <1>10, <1>11, <1>12, <1>13, <1>14, <1>15, <1>16, <1>17, <1>18 DEF Engine

-----------------------------------------------------------------------------
(* Nor does anything else leave a page unwatched.                           *)

LEMMA SendAsks ==
  ASSUME LeftInv, RequestsInv, NEW o \in Organisers, NEW op \in Ops, NEW arg, Send(o, op, arg)
  PROVE  OnlySpent /\ AsksNoMore
<1>1. PICK r : r = [op |-> op, arg |-> arg, at |-> "sent", paid |-> {}, amount |-> 0]
  OBVIOUS
<1>2. r.op = op /\ Spend(op) /\ request' = [request EXCEPT ![o] = r] /\ left.may[op] > 0
  BY <1>1 DEF Send, Spend, May
<1>3. \A q \in Organisers : request'[q] = IF q = o THEN r ELSE request[q]
  BY <1>2 DEF RequestsInv
<1>4. AsksNoMore
  BY <1>2, <1>3 DEF AsksNoMore
<1> QED BY <1>2, <1>4, OnlySpentIs

LEMMA AnswerAsks ==
  ASSUME RequestsInv, NEW o \in Organisers, request' = [request EXCEPT ![o] = None]
  PROVE  AsksNoMore
BY DEF RequestsInv, AsksNoMore

LEMMA PageAsks ==
  ASSUME EngineInv, NEW o \in Organisers, Page(o)
  PROVE  OnlySpent /\ AsksNoMore
<1>0. LeftInv /\ RequestsInv /\ DesksInv
  BY DEF EngineInv
<1>1. ASSUME request' = request, left' = left \/ \E op : Spend(op)
      PROVE  OnlySpent /\ AsksNoMore
  BY <1>0, <1>1, OnlySpentIs DEF AsksNoMore
<1>2. CASE Looks(o) \/ LoadsPeople(o) \/ LoadsReview(o) \/ LoadsForm(o) \/ Discards(o) \/ Cancels(o)
  BY <1>1, <1>2 DEF Looks, LoadsPeople, LoadsReview, LoadsForm, Discards, Cancels
<1>3. ASSUME NEW p \in People, Ticks(o, p) \/ LoadsPerson(o, p)
      PROVE  OnlySpent /\ AsksNoMore
  BY <1>1, <1>3 DEF Ticks, LoadsPerson
<1>4. ASSUME NEW e \in SettingEdits, Edits(o, e)
      PROVE  OnlySpent /\ AsksNoMore
  BY <1>1, <1>4 DEF Edits
<1>5. ASSUME NEW d \in Offered(o), Asks(o, d)
      PROVE  OnlySpent /\ AsksNoMore
  BY <1>1, <1>5 DEF Asks
<1>6. CASE Confirms(o) \/ ConfirmsReset(o) \/ ConfirmsSetup(o)
  <2>1. PICK op : op = desk[o].dialog.op
    OBVIOUS
  <2>2. op \in DialogOps
    BY <1>0, <1>6, <2>1 DEF Confirms, ConfirmsReset, ConfirmsSetup, DesksInv, DeskOK
  <2>3. op \in Ops
    BY <2>2 DEF DialogOps, Ops
  <2>4. \E arg : Send(o, op, arg)
    BY <1>6, <2>1 DEF Confirms, ConfirmsReset, ConfirmsSetup
  <2> QED BY <1>0, <2>3, <2>4, SendAsks
<1>7. CASE Saves(o)
  <2>1. PICK op \in Ops : op = "save"
    BY DEF Ops
  <2>2. \E arg : Send(o, op, arg)
    BY <1>7, <2>1 DEF Saves
  <2> QED BY <1>0, <2>2, SendAsks
<1>8. CASE Answered(o)
  <2>1. request' = [request EXCEPT ![o] = None] /\ left' = left
    BY <1>8 DEF Answered
  <2> QED BY <1>0, <2>1, AnswerAsks, OnlySpentIs
<1>9. CASE Refused(o)
  <2>1. request' = [request EXCEPT ![o] = None] /\ (left' = left \/ \E op : Spend(op))
    BY <1>9 DEF Refused
  <2> QED BY <1>0, <2>1, AnswerAsks, OnlySpentIs
<1> QED BY <1>2, <1>3, <1>4, <1>5, <1>6, <1>7, <1>8, <1>9 DEF Page

LEMMA OthersKeepSeats ==
  ASSUME EngineInv, EngineInv', SeatInductive, OnlySpent, AsksNoMore, RowsKept, OutKept, UNCHANGED <<tab, slipped>>,
         contest'.phase = contest.phase, contest'.set.proctoring = contest.set.proctoring
  PROVE  SeatInductive'
<1>1. AccountsInv /\ AccountsInv'
  BY DEF EngineInv
<1>2. SeatsKept
  BY DEF SeatsKept, RowsKept, OutKept, PhaseKept
<1> QED BY <1>1, <1>2, KeptIs

LEMMA NobodySeated ==
  ASSUME AccountsInv, AccountsInv', SeatInductive, UNCHANGED <<slipped, left>>, NEW o \in Organisers, request[o] # None,
         RequestsInv, NEW at, request' = [request EXCEPT ![o].at = at],
         tab' = [p \in People |-> None], account' = [p \in People |-> Stranger]
  PROVE  SeatInductive'
<1>1. AsksNoMore
  BY MovingOnAsksNoMore, Zenon
<1>5. OnlySpent
  BY DEF OnlySpent
<1>2. \A p \in People : tab'[p] = None
  OBVIOUS
<1>3. \A p \in People : account'[p].rows <= account[p].rows
  <2>1. ASSUME NEW p \in People
        PROVE  account'[p].rows <= account[p].rows
    <3>1. account'[p].rows = 0
      BY StrangerIs
    <3>2. account[p].rows \in Nat
      BY DEF AccountsInv, AccountOK, AccountNumbers
    <3> QED BY <3>1, <3>2
  <2> QED BY <2>1
<1>4. SeatsKept
  BY <1>1, <1>2, <1>3, <1>5 DEF SeatsKept
<1> QED BY <1>4, KeptIs

LEMMA SeatNext ==
  ASSUME DeskAssumption, EngineInv, SeatInductive, [Next]_vars
  PROVE  SeatInductive'
<1>0. LeftInv /\ ContestRow /\ AccountsInv /\ HereInv /\ RequestsInv /\ EngineInv' /\ AccountsInv' /\ \A o \in left.organisers : o \in Organisers
  BY EngineNext DEF EngineInv, LeftInv
<1>1. ASSUME UNCHANGED <<tab, slipped, request>>, account' = account, left' = left \/ \E op : Spend(op),
             contest'.phase = contest.phase, contest'.set = contest.set
      PROVE  SeatInductive'
  <2>1. OnlySpent /\ AsksNoMore /\ RowsKept /\ OutKept
    BY <1>0, <1>1, OnlySpentIs, SameRows DEF AsksNoMore
  <2> QED BY <1>0, <1>1, <2>1, OthersKeepSeats
<1>2. CASE Contest
  <2>1. ASSUME NEW o \in Organisers, Engine(o)
        PROVE  SeatInductive'
    BY <2>1, EngineKeepsSeats
  <2>2. ASSUME NEW o \in Organisers, Page(o)
        PROVE  SeatInductive'
    <3>1. UNCHANGED <<contest, account, tab, slipped>>
      BY <2>2, PageIs
    <3>2. OnlySpent /\ AsksNoMore /\ RowsKept /\ OutKept
      BY <1>0, <2>2, <3>1, PageAsks, SameRows
    <3> QED BY <1>0, <3>1, <3>2, OthersKeepSeats
  <2>3. ASSUME NEW p \in People, Seat(p)
        PROVE  SeatInductive'
    BY <2>3, SeatStepIs
  <2>4. ASSUME NEW p \in People, Registers(p)
        PROVE  SeatInductive'
    <3>1. UNCHANGED <<contest, tab, slipped, request>> /\ OnlySpent
      BY <1>0, <2>4, RegistersKeeps, OnlySpentIs DEF Registers
    <3>2. PICK zero \in Nat : zero = 0
      OBVIOUS
    <3>3. ~account[p].in /\ account' = [account EXCEPT ![p] = Entered(zero)]
      BY <1>0, <2>4, <3>2, RegistersIs
    <3>4. RowsKept /\ OutKept /\ AsksNoMore
      BY <1>0, <3>1, <3>3, EnteredRows DEF AsksNoMore
    <3> QED BY <1>0, <3>1, <3>4, OthersKeepSeats
  <2>5. ASSUME NEW p \in People, Spends(p)
        PROVE  SeatInductive'
    <3>1. UNCHANGED <<contest, tab, slipped, request>> /\ OnlySpent
      BY <1>0, <2>5, SpendsKeeps, OnlySpentIs DEF Spends
    <3>2. PICK fields : fields = {"spent"}
      OBVIOUS
    <3>3. Touches(p, fields) /\ "rows" \notin fields /\ "out" \notin fields
      BY <1>0, <2>5, <3>2, SpendsIs
    <3>4. RowsKept /\ OutKept /\ AsksNoMore
      BY <1>0, <3>1, <3>3, TouchedRows DEF AsksNoMore
    <3> QED BY <1>0, <3>1, <3>4, OthersKeepSeats
  <2>6. CASE Restocks \/ Clock
    <3>1. \E op : Spend(op)
      BY <2>6 DEF Restocks, Clock
    <3> QED BY <1>1, <2>6, <3>1, WorldIs
  <2> QED BY <1>0, <1>2, <2>1, <2>2, <2>3, <2>4, <2>5, <2>6 DEF Contest
<1>3. ASSUME NEW o \in Organisers, ResetServed(o)
      PROVE  SeatInductive'
  <2>1. PICK at : at = "committed"
    OBVIOUS
  <2>2. /\ UNCHANGED <<slipped, left>> /\ request[o] # None /\ request' = [request EXCEPT ![o].at = at]
        /\ tab' = [p \in People |-> None] /\ account' = [p \in People |-> Stranger]
    BY <1>3, <2>1 DEF ResetServed
  <2> QED BY <1>0, <2>2, NobodySeated
<1>4. ASSUME NEW o \in Organisers, SetupSettles(o) \/ SetupRestores(o)
      PROVE  SeatInductive'
  <2>1. UNCHANGED <<account, tab, slipped, left>> /\ contest'.phase = contest.phase /\ contest'.set.proctoring = contest.set.proctoring
    BY <1>4, SetupSettlesIs, SetupRestoresIs
  <2>2. request[o] # None /\ \E at : request' = [request EXCEPT ![o].at = at]
    BY <1>4 DEF SetupSettles, SetupRestores
  <2>3. OnlySpent /\ AsksNoMore /\ RowsKept /\ OutKept
    BY <1>0, <2>1, <2>2, OnlySpentIs, MovingOnAsksNoMore, SameRows
  <2> QED BY <1>0, <2>1, <2>3, OthersKeepSeats
<1>5. CASE ShelfNext /\ UNCHANGED <<engine, seats, desk, request, now>>
  <2>1. UNCHANGED <<contest, account, tab, slipped, request>>
    BY <1>5 DEF engine, seats
  <2> QED BY <1>1, <1>5, <2>1, ShelfSpends
<1>6. CASE UNCHANGED vars
  BY <1>1, <1>6 DEF vars
<1> QED BY <1>0, <1>2, <1>3, <1>4, <1>5, <1>6 DEF Next

LEMMA SeatInit ==
  ASSUME DeskAssumption, SlowStaysInTheRound, Init
  PROVE  SeatInductive
<1>0. EngineInv /\ LeftInv /\ ContestRow /\ AccountsInv /\ RequestsInv
  BY EngineInit DEF EngineInv
<1>1. /\ slipped = [p \in People |-> 0] /\ request = [o \in Organisers |-> None] /\ left \in Budgets
      /\ tab = [p \in People |-> IF p \in left.seated THEN Mounted(State(p)) ELSE None]
      /\ account = [p \in People |->
           IF p \notin left.people THEN Stranger
           ELSE [Stranger EXCEPT !.in = TRUE, !.advanced = p \in left.through,
                                 !.granted = IF p \in left.through THEN Defaults.start ELSE 0]]
  BY DEF Init
<1>2. ASSUME NEW p \in People, tab[p] # None
      PROVE  /\ Good(tab[p]) /\ Owed(tab[p]) = 0 /\ ~tab[p].resuming
             /\ Same(tab[p].state, p) /\ tab[p].fetched = None /\ tab[p].news = << >>
  <2>1. State(p) \in PageState /\ Same(State(p), p)
    BY <1>0, StateIs
  <2>2. PICK state : state = State(p)
    OBVIOUS
  <2>3. PICK u : u = Mounted(state)
    OBVIOUS
  <2>4. Good(u) /\ Owed(u) = 0 /\ ~u.resuming /\ u.state = state /\ u.fetched = None /\ u.news = << >>
    BY <2>1, <2>2, <2>3, MountedIs
  <2>5. tab[p] = u
    BY <1>1, <1>2, <2>2, <2>3
  <2> QED BY <2>1, <2>2, <2>4, <2>5
<1>3. \A p \in People : account[p].rows = 0
  <2>1. ASSUME NEW p \in People
        PROVE  account[p].rows = 0
    <3>1. CASE p \notin left.people
      BY <1>1, <3>1, StrangerIs
    <3>2. CASE p \in left.people
      <4>1. PICK s : s = Stranger
        OBVIOUS
      <4>2. account[p] = [s EXCEPT !.in = TRUE, !.advanced = p \in left.through,
                                 !.granted = IF p \in left.through THEN Defaults.start ELSE 0]
        BY <1>1, <3>2, <4>1
      <4>3. s = [f \in AccountFields |-> s[f]] /\ s.rows = 0
        BY <4>1, StrangerIs DEF AccountOK, AccountShape
      <4> QED BY <4>2, <4>3 DEF AccountFields
    <3> QED BY <3>1, <3>2
  <2> QED BY <2>1
<1>4. \A p \in People : CountedOnce(p)
  <2>1. ASSUME NEW p \in People
        PROVE  CountedOnce(p)
    <3>1. account[p].rows = 0 /\ slipped[p] = 0
      BY <1>1, <1>3
    <3>2. tab[p] # None => Owed(tab[p]) = 0
      BY <1>2
    <3> QED BY <3>1, <3>2 DEF CountedOnce
  <2> QED BY <2>1
<1>5. Prompt \/ Still
  <2>1. CASE left.may["slow"] = 0
    BY <1>2, <2>1 DEF Prompt
  <2>2. CASE left.may["slow"] # 0
    <3>1. \A op \in {"advance", "save", "disqualify", "requalify"} : left.may[op] = 0
      BY <1>1, <2>2 DEF SlowStaysInTheRound
    <3>2. ASSUME NEW p \in People, tab[p] # None
          PROVE  tab[p].news \in Seq(NewsOf(contest.phase))
      BY <1>2, <3>2, EmptySeq
    <3> QED BY <1>1, <1>2, <3>1, <3>2 DEF Still
  <2> QED BY <2>1, <2>2
<1> QED BY <1>1, <1>2, <1>4, <1>5 DEF SeatInductive, Good

LEMMA SeatFollows ==
  ASSUME AccountsInv, SeatInductive
  PROVE  SeatInv
<1>1. ASSUME NEW p \in People
      PROVE  account[p].rows <= slipped[p]
  <2>1. account[p].rows \in Nat /\ slipped[p] \in Nat /\ CountedOnce(p)
    BY DEF SeatInductive, AccountsInv, AccountOK, AccountNumbers
  <2>2. tab[p] # None => Owed(tab[p]) \in Nat
    BY OwedIs DEF SeatInductive
  <2> QED BY <2>1, <2>2 DEF CountedOnce
<1>2. ASSUME NEW p \in People, tab[p] # None, Enforced(tab[p]), tab[p].screen = "ok"
      PROVE  Held(tab[p]) \/ tab[p].slips # {}
  BY <1>2 DEF SeatInductive, Watched
<1> QED BY <1>1, <1>2 DEF SeatInv, OneSlipCountsOnce, NobodyWorksUnwatched

LEMMA SeatsStand ==
  ASSUME SlowStaysInTheRound
  PROVE  Spec => [](EngineInv /\ SeatInductive)
<1>1. Init => EngineInv /\ SeatInductive
  BY DeskAssumption, EngineInit, SeatInit
<1>2. EngineInv /\ SeatInductive /\ [Next]_vars => EngineInv' /\ SeatInductive'
  BY DeskAssumption, EngineNext, SeatNext
<1> QED BY <1>1, <1>2, PTL DEF Spec

\* While a competitor's full screen is given within the round it was asked for in, one slip
\* is one alert, and whoever works in an enforced round is held or about to be told off.
THEOREM SeatsHold ==
  ASSUME SlowStaysInTheRound
  PROVE  Spec => []SeatInv
<1>1. EngineInv /\ SeatInductive => SeatInv
  BY SeatFollows DEF EngineInv
<1> QED BY <1>1, SeatsStand, PTL

-----------------------------------------------------------------------------
(* The starting balance stands.                                             *)

\* What the engine makes of a request.
EngineServes(o) ==
  \E s : /\ request' = [request EXCEPT ![o] = s]
         /\ s.op = request[o].op /\ (s.op # "advance" => s.arg = request[o].arg)
         /\ s.at \in {"sent", "checked"} => AdvanceChecks(o) \/ SelectReads(o)

LEMMA MovesOn ==
  ASSUME RequestsInv, NEW o \in Organisers, request[o] # None, NEW at, at \notin {"sent", "checked"},
         request' = [request EXCEPT ![o].at = at]
  PROVE  EngineServes(o)
<1>1. PICK s : s = [request[o] EXCEPT !.at = at]
  OBVIOUS
<1>2. s.op = request[o].op /\ s.arg = request[o].arg /\ s.at = at
  BY <1>1 DEF RequestsInv, RequestOK
<1>3. request' = [request EXCEPT ![o] = s]
  BY <1>1
<1> QED BY <1>2, <1>3 DEF EngineServes

LEMMA EngineServesIt ==
  ASSUME RequestsInv, NEW o \in Organisers, Engine(o)
  PROVE  EngineServes(o)
<1>0. request[o] # None /\ RequestOK(request[o])
  BY DEF Engine, RequestsInv
<1>1. ASSUME NEW at, at \notin {"sent", "checked"}, request' = [request EXCEPT ![o].at = at]
      PROVE  EngineServes(o)
  BY <1>0, <1>1, MovesOn
<1>2. CASE AdvanceChecks(o)
  <2>1. PICK at : at = IF Blocked THEN "failed" ELSE "checked"
    OBVIOUS
  <2>2. PICK s : s = [request[o] EXCEPT !.at = at, !.arg = contest.phase]
    OBVIOUS
  <2>3. s.op = request[o].op /\ request[o].op = "advance"
    BY <1>0, <1>2, <2>2 DEF RequestOK, AdvanceChecks
  <2>4. request' = [request EXCEPT ![o] = s]
    BY <1>2, <2>1, <2>2 DEF AdvanceChecks
  <2> QED BY <1>2, <2>3, <2>4 DEF EngineServes
<1>3. CASE SelectReads(o)
  <2>1. PICK s : s = [request[o] EXCEPT !.at = "checked", !.paid = Paid, !.amount = contest.set.start]
    OBVIOUS
  <2>2. s.op = request[o].op /\ s.arg = request[o].arg
    BY <1>0, <2>1 DEF RequestOK
  <2>3. request' = [request EXCEPT ![o] = s]
    BY <1>3, <2>1 DEF SelectReads
  <2> QED BY <1>3, <2>2, <2>3 DEF EngineServes
<1>4. CASE Fails(o)
  <2>1. PICK at : at = "failed"
    OBVIOUS
  <2>2. at \notin {"sent", "checked"} /\ request' = [request EXCEPT ![o].at = at]
    BY <1>4, <2>1 DEF Fails
  <2> QED BY <1>1, <2>2
<1>5. CASE Commits(o) \/ (RemoveServed(o) /\ ~Fails(o))
  <2>1. PICK at : at = "committed"
    OBVIOUS
  <2>2. at \notin {"sent", "checked"} /\ request' = [request EXCEPT ![o].at = at]
    BY <1>5, <2>1 DEF Commits, RemoveServed
  <2> QED BY <1>1, <2>2
<1>6. CASE Publishes(o)
  <2>1. PICK at : at = "done"
    OBVIOUS
  <2>2. at \notin {"sent", "checked"} /\ request' = [request EXCEPT ![o].at = at]
    BY <1>6, <2>1 DEF Publishes
  <2> QED BY <1>1, <2>2
<1> QED BY <1>2, <1>3, <1>4, <1>5, <1>6 DEF Engine, AdvanceServed, ExtendServed, RegistrationServed, AnnounceServed, SaveServed,
        CreateServed, UnlockServed, DisqualifyServed, SelectServed

LEMMA EngineSets ==
  ASSUME EngineInv, NEW o \in Organisers, Engine(o)
  PROVE  \/ contest'.set = contest.set
         \/ request[o] # None /\ request[o].op = "save" /\ contest'.set = request[o].arg
<1>0. ContestRow /\ RequestsInv /\ AccountsInv /\ SaidInv /\ request[o] # None /\ now' = now
  BY DEF EngineInv, Engine
<1>1. CASE contest' = contest
  BY <1>1
<1>2. CASE AdvanceServed(o) /\ ~Fails(o)
  <2>1. PICK phase, ends : contest' = [contest EXCEPT !.phase = phase, !.ends = ends]
    BY <1>2 DEF AdvanceServed
  <2> QED BY <1>0, <2>1 DEF ContestRow
<1>3. CASE ExtendServed(o) /\ ~Fails(o)
  <2>1. contest' = [contest EXCEPT !.ends = Extended(contest.ends)]
    BY <1>3 DEF ExtendServed
  <2> QED BY <1>0, <2>1 DEF ContestRow
<1>4. CASE RegistrationServed(o)
  <2>1. contest' = [contest EXCEPT !.reg = request[o].arg]
    BY <1>4 DEF RegistrationServed
  <2> QED BY <1>0, <2>1 DEF ContestRow
<1>5. CASE SaveServed(o) /\ ~Fails(o)
  <2>1. request[o].op = "save" /\ contest' = [contest EXCEPT !.set = request[o].arg]
    BY <1>5 DEF SaveServed
  <2> QED BY <1>0, <2>1 DEF ContestRow
<1>6. CASE Fails(o) \/ AdvanceChecks(o) \/ SelectReads(o) \/ Publishes(o)
  BY <1>1, <1>6 DEF Fails, AdvanceChecks, SelectReads, Publishes, engine
<1>7. CASE AnnounceServed(o) \/ (RemoveServed(o) /\ ~Fails(o))
  BY <1>1, <1>7 DEF AnnounceServed, RemoveServed, Becomes
<1>8. CASE CreateServed(o) \/ UnlockServed(o) \/ DisqualifyServed(o) \/ SelectServed(o)
  BY <1>0, <1>1, <1>8, CreateServedIs, UnlockServedIs, DisqualifyServedIs, SelectServedIs
<1> QED BY <1>2, <1>3, <1>4, <1>5, <1>6, <1>7, <1>8 DEF Engine

\* What a page does to its form, and what it asks for.
LEMMA SendsAreAsked ==
  ASSUME LeftInv, RequestsInv, DesksInv, StartInv, NEW o \in Organisers, NEW op, NEW arg, Send(o, op, arg),
         op = "save" => arg.start = Start
  PROVE  StartInv'
<1>1. PICK r : r = [op |-> op, arg |-> arg, at |-> "sent", paid |-> {}, amount |-> 0]
  OBVIOUS
<1>2. r.op = op /\ r.arg = arg /\ request' = [request EXCEPT ![o] = r] /\ contest' = contest /\ desk' = desk
  BY <1>1 DEF Send, engine
<1>3. \A q \in Organisers : request'[q] = IF q = o THEN r ELSE request[q]
  BY <1>2 DEF RequestsInv
<1> QED BY <1>2, <1>3 DEF StartInv

LEMMA FormsChange ==
  ASSUME DesksInv, StartInv, NEW o \in Organisers, NEW d, desk' = [desk EXCEPT ![o] = d], FormStarts(d.form),
         contest' = contest, request' = request \/ request' = [request EXCEPT ![o] = None], RequestsInv
  PROVE  StartInv'
<1>1. \A q \in Organisers : FormStarts(desk'[q].form)
  BY DEF DesksInv, StartInv
<1>2. \A q \in Organisers : request'[q] = None \/ request'[q] = request[q]
  BY DEF RequestsInv
<1> QED BY <1>1, <1>2 DEF StartInv

LEMMA PageStarts ==
  ASSUME StartStands, EngineInv, StartInv, NEW o \in Organisers, Page(o)
  PROVE  StartInv'
<1>0. LeftInv /\ RequestsInv /\ DesksInv /\ ContestRow
  BY DEF EngineInv
<1>1. PICK d : d = desk[o]
  OBVIOUS
<1>2. DeskOK(d) /\ FormStarts(d.form) /\ contest.set.start = Start
  BY <1>0, <1>1 DEF DesksInv, StartInv
<1>3. ASSUME NEW e, desk' = [desk EXCEPT ![o] = e], e.form = d.form, UNCHANGED <<contest, request>>
      PROVE  StartInv'
  BY <1>0, <1>2, <1>3, FormsChange
<1>4. ASSUME NEW x, \/ desk' = [desk EXCEPT ![o].view = x] \/ desk' = [desk EXCEPT ![o].people = x]
                    \/ desk' = [desk EXCEPT ![o].chosen = x] \/ desk' = [desk EXCEPT ![o].dialog = x],
             UNCHANGED <<contest, request>>
      PROVE  StartInv'
  <2>1. PICK e : desk' = [desk EXCEPT ![o] = e] /\ e \in {[d EXCEPT !.view = x], [d EXCEPT !.people = x], [d EXCEPT !.chosen = x], [d EXCEPT !.dialog = x]}
    BY <1>1, <1>4
  <2>2. e.form = d.form
    BY <1>2, <2>1 DEF DeskOK
  <2> QED BY <1>3, <1>4, <2>1, <2>2
<1>5. CASE Looks(o) \/ LoadsPeople(o) \/ LoadsReview(o) \/ Cancels(o)
  BY <1>4, <1>5 DEF Looks, LoadsPeople, LoadsReview, Cancels, engine
<1>6. ASSUME NEW p \in People, LoadsPerson(o, p)
      PROVE  StartInv'
  <2>1. PICK x : x = [q \in People |-> IF q = p THEN account[q] ELSE IF desk[o].people = None THEN Stranger ELSE desk[o].people[q]]
    OBVIOUS
  <2>2. desk' = [desk EXCEPT ![o].people = x] /\ UNCHANGED <<contest, request>>
    BY <1>6, <2>1 DEF LoadsPerson, engine
  <2> QED BY <1>4, <2>2
<1>7. ASSUME NEW p \in People, Ticks(o, p)
      PROVE  StartInv'
  <2>1. PICK x : x = IF p \in desk[o].chosen THEN desk[o].chosen \ {p} ELSE desk[o].chosen \cup {p}
    OBVIOUS
  <2>2. desk' = [desk EXCEPT ![o].chosen = x] /\ UNCHANGED <<contest, request>>
    BY <1>7, <2>1 DEF Ticks, engine
  <2> QED BY <1>4, <2>2
<1>8. ASSUME NEW g \in Offered(o), Asks(o, g)
      PROVE  StartInv'
  BY <1>4, <1>8 DEF Asks, engine
<1>9. ASSUME NEW f, FormStarts(f), desk' = [desk EXCEPT ![o].form = f], UNCHANGED <<contest, request>>
      PROVE  StartInv'
  <2>1. PICK e : e = [d EXCEPT !.form = f]
    OBVIOUS
  <2>2. desk' = [desk EXCEPT ![o] = e] /\ e.form = f
    BY <1>1, <1>2, <1>9, <2>1 DEF DeskOK
  <2> QED BY <1>0, <1>9, <2>2, FormsChange
<1>10. CASE LoadsForm(o)
  <2>1. PICK f : f = [c |-> contest.set, orig |-> contest.set]
    OBVIOUS
  <2>2. FormStarts(f)
    BY <1>2, <2>1 DEF FormStarts
  <2>3. desk' = [desk EXCEPT ![o].form = f] /\ UNCHANGED <<contest, request>>
    BY <1>10, <2>1 DEF LoadsForm, engine
  <2> QED BY <1>9, <2>2, <2>3
<1>11. CASE Discards(o)
  <2>1. d.form # None /\ d.form = [c |-> d.form.c, orig |-> d.form.orig]
    BY <1>1, <1>2, <1>11 DEF Discards, DeskOK
  <2>2. PICK f : f = [d.form EXCEPT !.c = d.form.orig]
    OBVIOUS
  <2>3. FormStarts(f)
    BY <1>2, <2>1, <2>2 DEF FormStarts
  <2>4. desk' = [desk EXCEPT ![o].form = f] /\ UNCHANGED <<contest, request>>
    BY <1>1, <1>11, <2>2 DEF Discards, engine
  <2> QED BY <1>9, <2>3, <2>4
<1>12. ASSUME NEW e \in SettingEdits, Edits(o, e)
       PROVE  StartInv'
  <2>1. d.form # None /\ d.form = [c |-> d.form.c, orig |-> d.form.orig] /\ d.form.c \in Settings /\ e.field # "start"
    BY <1>1, <1>2, <1>12 DEF Edits, DeskOK, StartStands
  <2>2. PICK c : c = [d.form.c EXCEPT ![e.field] = e.value]
    OBVIOUS
  <2>3. c.start = d.form.c.start
    BY <2>1, <2>2 DEF Settings
  <2>4. PICK f : f = [d.form EXCEPT !.c = c]
    OBVIOUS
  <2>5. FormStarts(f)
    BY <1>2, <2>1, <2>3, <2>4 DEF FormStarts
  <2>6. desk' = [desk EXCEPT ![o].form = f] /\ UNCHANGED <<contest, request>>
    BY <1>1, <1>12, <2>2, <2>4 DEF Edits, engine
  <2> QED BY <1>9, <2>5, <2>6
<1>13. CASE Confirms(o) \/ ConfirmsReset(o) \/ ConfirmsSetup(o)
  <2>1. PICK op : op = desk[o].dialog.op
    OBVIOUS
  <2>2. op # "save"
    BY <1>0, <1>13, <2>1 DEF Confirms, ConfirmsReset, ConfirmsSetup, DesksInv, DeskOK, DialogOps
  <2>3. \E arg : Send(o, op, arg)
    BY <1>13, <2>1 DEF Confirms, ConfirmsReset, ConfirmsSetup
  <2> QED BY <1>0, <2>2, <2>3, SendsAreAsked
<1>14. CASE Saves(o)
  <2>1. PICK op, arg : op = "save" /\ arg = d.form.c
    OBVIOUS
  <2>2. Send(o, op, arg) /\ arg.start = Start
    BY <1>1, <1>2, <1>14, <2>1 DEF Saves, FormStarts
  <2> QED BY <1>0, <2>2, SendsAreAsked
<1>15. CASE Answered(o)
  <2>1. PICK e, op : e = Refreshed(d, op) /\ op = request[o].op
    OBVIOUS
  <2>2. FormStarts(e.form)
    <3>1. PICK closed : closed = [d EXCEPT !.dialog = IF op = "save" THEN d.dialog ELSE None]
      OBVIOUS
    <3>2. PICK f : f = IF d.form = None THEN None ELSE [c |-> contest.set, orig |-> contest.set]
      OBVIOUS
    <3>3. FormStarts(f)
      BY <1>2, <3>2 DEF FormStarts
    <3>4. closed = [x \in {"view", "people", "chosen", "form", "dialog"} |-> closed[x]] /\ closed.form = d.form
      BY <1>2, <3>1 DEF DeskOK
    <3>5. e \in {[closed EXCEPT !.view = View], [closed EXCEPT !.people = account], [closed EXCEPT !.chosen = Ticked],
                 [closed EXCEPT !.form = f], closed}
      BY <2>1, <3>1, <3>2 DEF Refreshed
    <3>6. e.form \in {d.form, f}
      BY <3>4, <3>5
    <3> QED BY <1>2, <3>3, <3>6
  <2>3. desk' = [desk EXCEPT ![o] = e] /\ request' = [request EXCEPT ![o] = None] /\ contest' = contest
    BY <1>1, <1>15, <2>1 DEF Answered, engine
  <2> QED BY <1>0, <2>2, <2>3, FormsChange
<1>16. CASE Refused(o)
  <2>1. desk' = desk /\ request' = [request EXCEPT ![o] = None] /\ contest' = contest
    BY <1>16 DEF Refused, engine
  <2>2. \A q \in Organisers : request'[q] = None \/ request'[q] = request[q]
    BY <1>0, <2>1 DEF RequestsInv
  <2> QED BY <2>1, <2>2 DEF StartInv
<1> QED BY <1>5, <1>6, <1>7, <1>8, <1>10, <1>11, <1>12, <1>13, <1>14, <1>15, <1>16 DEF Page

LEMMA StartNext ==
  ASSUME DeskAssumption, StartStands, EngineInv, StartInv, [Next]_vars
  PROVE  StartInv'
<1>0. LeftInv /\ RequestsInv /\ DesksInv /\ ContestRow /\ \A o \in left.organisers : o \in Organisers
  BY DEF EngineInv, LeftInv
<1>1. ASSUME UNCHANGED <<request, desk>>, contest'.set = contest.set
      PROVE  StartInv'
  BY <1>1 DEF StartInv
<1>2. ASSUME NEW o \in Organisers, desk' = desk, request[o] # None, contest'.set.start = Start,
             NEW s, request' = [request EXCEPT ![o] = s], s.op = request[o].op, s.op # "advance" => s.arg = request[o].arg
      PROVE  StartInv'
  <2>1. \A q \in Organisers : request'[q] = IF q = o THEN s ELSE request[q]
    BY <1>0, <1>2 DEF RequestsInv
  <2> QED BY <1>2, <2>1 DEF StartInv
<1>3. ASSUME NEW o \in Organisers, desk' = desk, request[o] # None, contest'.set.start = Start,
             NEW at, request' = [request EXCEPT ![o].at = at]
      PROVE  StartInv'
  <2>1. PICK s : s = [request[o] EXCEPT !.at = at]
    OBVIOUS
  <2>2. s.op = request[o].op /\ s.arg = request[o].arg
    BY <1>0, <1>3, <2>1 DEF RequestsInv, RequestOK
  <2>3. request' = [request EXCEPT ![o] = s]
    BY <1>3, <2>1
  <2> QED BY <1>2, <1>3, <2>2, <2>3
<1>4. CASE Contest
  <2>1. ASSUME NEW o \in Organisers, Engine(o)
        PROVE  StartInv'
    <3>1. desk' = desk /\ request[o] # None
      BY <2>1 DEF Engine
    <3>2. contest'.set.start = Start
      BY <2>1, <3>1, EngineSets DEF StartInv
    <3>3. EngineServes(o)
      BY <1>0, <2>1, EngineServesIt
    <3> QED BY <1>2, <3>1, <3>2, <3>3 DEF EngineServes
  <2>2. ASSUME NEW o \in Organisers, Page(o)
        PROVE  StartInv'
    BY <2>2, PageStarts
  <2>3. ASSUME NEW p \in People, Seat(p) \/ Registers(p) \/ Spends(p)
        PROVE  StartInv'
    BY <1>1, <2>3, SeatIs, RegistersKeeps, SpendsKeeps
  <2>4. CASE Restocks \/ Clock
    BY <1>1, <2>4, WorldIs
  <2> QED BY <1>0, <1>4, <2>1, <2>2, <2>3, <2>4 DEF Contest
<1>5. ASSUME NEW o \in Organisers, ResetServed(o)
      PROVE  StartInv'
  <2>1. contest'.set = contest.set
    BY <1>5, ResetIs
  <2>2. PICK at : at = "committed"
    OBVIOUS
  <2>3. desk' = desk /\ request[o] # None /\ request' = [request EXCEPT ![o].at = at]
    BY <1>5, <2>2 DEF ResetServed
  <2>4. contest'.set.start = Start
    BY <2>1 DEF StartInv
  <2> QED BY <1>3, <2>3, <2>4
<1>6. ASSUME NEW o \in Organisers, SetupSettles(o) \/ SetupRestores(o)
      PROVE  StartInv'
  <2>1. desk' = desk /\ request[o] # None /\ \E at : request' = [request EXCEPT ![o].at = at]
    BY <1>6 DEF SetupSettles, SetupRestores
  <2>2. contest'.set.start = Start
    BY <1>6, SetupSettlesIs, SetupRestoresIs DEF StartInv, StartStands, Start
  <2> QED BY <1>3, <2>1, <2>2
<1>7. CASE ShelfNext /\ UNCHANGED <<engine, seats, desk, request, now>>
  BY <1>1, <1>7 DEF engine
<1>8. CASE UNCHANGED vars
  BY <1>1, <1>8 DEF vars
<1> QED BY <1>0, <1>4, <1>5, <1>6, <1>7, <1>8 DEF Next

-----------------------------------------------------------------------------
(* Nobody holds the starting balance twice.                                 *)

\* Whoever is there stays there, with what they were given.
GrantsStand ==
  \A p \in People : account[p].in =>
    account'[p].in /\ account'[p].granted = account[p].granted /\ account'[p].advanced = account[p].advanced

LEMMA GrantsStay ==
  ASSUME GrantedInv, NEW p \in People, NEW fields, {"in", "granted", "advanced"} \cap fields = {}, Touches(p, fields)
  PROVE  GrantsStand /\ GrantedInv'
<1>1. \A q \in People : /\ account'[q].in = account[q].in /\ account'[q].granted = account[q].granted
                        /\ account'[q].advanced = account[q].advanced
  BY DEF Touches, AccountFields
<1> QED BY <1>1 DEF GrantsStand, GrantedInv, GrantOK

LEMMA GrantsEnter ==
  ASSUME GrantedInv, AccountsInv, NEW p \in People, ~account[p].in, NEW g \in Nat, g \in {0, Start},
         account' = [account EXCEPT ![p] = Entered(g)]
  PROVE  GrantsStand /\ GrantedInv'
<1>1. Entered(g).granted = g /\ ~Entered(g).advanced
  BY EnteredIs
<1>2. \A q \in People : account'[q] = IF q = p THEN Entered(g) ELSE account[q]
  BY DEF AccountsInv
<1>3. GrantsStand
  BY <1>2 DEF GrantsStand
<1>4. GrantedInv'
  BY <1>1, <1>2 DEF GrantedInv, GrantOK
<1> QED BY <1>3, <1>4

LEMMA SameGrants ==
  ASSUME GrantedInv, account' = account
  PROVE  GrantsStand /\ GrantedInv'
BY DEF GrantsStand, GrantedInv, GrantOK

LEMMA StrangersGrants ==
  ASSUME GrantedInv, NEW S, \A p \in People : account'[p] = IF p \in S THEN Stranger ELSE account[p]
  PROVE  GrantedInv'
BY StrangerIs DEF GrantedInv, GrantOK

\* What a selection gives, it gives to whom it did not find paid, and takes back of whom it did.
LEMMA SelectGrants ==
  ASSUME EngineInv, GrantedInv, SelectsAlone, NEW o \in Organisers, request[o] # None, SelectServed(o)
  PROVE  GrantedInv'
<1>0. RequestsInv /\ AccountsInv
  BY DEF EngineInv
<1>1. CASE account' = account
  BY <1>1, SameGrants
<1>2. CASE \A p \in People : Selected(o, p)
  <2>1. PICK r : r = request[o]
    OBVIOUS
  <2>2. r.op = "select" /\ r.at = "checked" /\ Selecting(o)
    BY <2>1 DEF SelectServed, Selecting
  <2>3. /\ r.amount = Start
        /\ \A p \in Registered : /\ p \in r.paid => account[p].granted = Start
                                 /\ p \in r.arg \ r.paid => account[p].granted = 0
    BY <2>1, <2>2 DEF SelectsAlone, NobodySelects, ChoicesInv, ChoiceOK
  <2>4. ASSUME NEW p \in People
        PROVE  GrantOK(account'[p])
    <3>1. CASE ~account[p].in
      BY <1>2, <3>1 DEF Selected, GrantedInv
    <3>2. CASE account[p].in
      <4>1. PICK d : d = Settles(p, r)
        OBVIOUS
      <4>2. account'[p].advanced = (p \in r.arg) /\ account'[p].granted = account[p].granted + d
        BY <1>2, <2>1, <3>2, <4>1 DEF Selected
      <4>10. p \notin r.arg => ~account'[p].advanced
        BY <4>2, Zenon
      <4>3. account[p].granted \in Int /\ GrantOK(account[p])
        BY <1>0 DEF AccountsInv, AccountOK, AccountNumbers, GrantedInv
      <4>4. p \in Registered
        BY <3>2 DEF Registered
      <4>5. Start \in Int
        BY DeskAssumption DEF DeskAssumption, Settings, Start
      <4>6. CASE p \in r.arg /\ p \in r.paid
        <5>1. d = 0 /\ account[p].granted = Start
          BY <2>3, <4>1, <4>4, <4>6 DEF Settles
        <5> QED BY <4>2, <4>3, <4>6, <5>1 DEF GrantOK
      <4>7. CASE p \in r.arg /\ p \notin r.paid
        <5>1. d = Start /\ account[p].granted = 0
          BY <2>3, <4>1, <4>4, <4>7 DEF Settles
        <5>2. account'[p].granted = Start
          BY <4>2, <4>5, <5>1
        <5> QED BY <5>2 DEF GrantOK
      <4>8. CASE p \notin r.arg /\ p \in r.paid
        <5>1. d = 0 - Start /\ account[p].granted = Start
          BY <2>3, <4>1, <4>4, <4>8 DEF Settles
        <5>2. account'[p].granted = 0
          BY <4>2, <4>5, <5>1
        <5> QED BY <4>10, <4>8, <5>2 DEF GrantOK
      <4>9. CASE p \notin r.arg /\ p \notin r.paid
        <5>1. d = 0
          BY <4>1, <4>9 DEF Settles
        <5>2. account'[p].granted = account[p].granted
          BY <4>2, <4>3, <5>1
        <5> QED BY <4>3, <4>10, <4>9, <5>2 DEF GrantOK
      <4> QED BY <4>6, <4>7, <4>8, <4>9
    <3> QED BY <3>1, <3>2
  <2> QED BY <2>4 DEF GrantedInv
<1> QED BY <1>0, <1>1, <1>2, SelectServedIs

LEMMA EngineGrants ==
  ASSUME EngineInv, StartInv, GrantedInv, SelectsAlone, NEW o \in Organisers, Engine(o)
  PROVE  GrantedInv' /\ (request[o].op = "remove" \/ SelectServed(o) \/ GrantsStand)
<1>0. ContestRow /\ RequestsInv /\ AccountsInv /\ SaidInv /\ request[o] # None /\ now' = now /\ contest.set.start = Start
  BY DEF EngineInv, Engine, StartInv
<1>1. CASE account' = account
  BY <1>1, SameGrants
<1>2. CASE CreateServed(o) /\ ~(account' = account)
  <2>1. PICK p \in People : \E g \in {0, Start} : ~account[p].in /\ account' = [account EXCEPT ![p] = Entered(g)]
    BY <1>0, <1>2, CreateServedIs
  <2>2. Start \in Nat
    BY DeskAssumption DEF DeskAssumption, Settings, Start
  <2> QED BY <1>0, <2>1, <2>2, GrantsEnter
<1>3. CASE UnlockServed(o)
  <2>1. PICK fields : fields = {"alerts", "locked"}
    OBVIOUS
  <2>2. \E p \in People : Touches(p, fields)
    BY <1>0, <1>3, <2>1, UnlockServedIs
  <2> QED BY <2>1, <2>2, GrantsStay
<1>4. CASE DisqualifyServed(o)
  <2>1. PICK fields : fields = {"out"}
    OBVIOUS
  <2>2. \E p \in People : Touches(p, fields)
    BY <1>0, <1>4, <2>1, DisqualifyServedIs
  <2> QED BY <2>1, <2>2, GrantsStay
<1>5. CASE RemoveServed(o) /\ ~(account' = account)
  <2>1. PICK p \in People : account' = [account EXCEPT ![p] = Stranger]
    BY <1>0, <1>5, RemoveServedIs
  <2>2. PICK S : S = {p}
    OBVIOUS
  <2>3. \A q \in People : account'[q] = IF q \in S THEN Stranger ELSE account[q]
    BY <1>0, <2>1, <2>2 DEF AccountsInv
  <2>4. GrantedInv'
    BY <2>3, StrangersGrants
  <2> QED BY <1>5, <2>4 DEF RemoveServed
<1>6. CASE SelectServed(o)
  BY <1>0, <1>6, SelectGrants
<1>7. CASE AdvanceServed(o) \/ ExtendServed(o) \/ RegistrationServed(o) \/ AnnounceServed(o) \/ SaveServed(o)
  BY <1>0, <1>1, <1>7 DEF AdvanceServed, ExtendServed, RegistrationServed, AnnounceServed, SaveServed, Fails, engine
<1>8. CASE AdvanceChecks(o) \/ SelectReads(o) \/ Publishes(o)
  BY <1>1, <1>8 DEF AdvanceChecks, SelectReads, Publishes, engine
<1> QED BY <1>1, <1>2, <1>3, <1>4, <1>5, <1>6, <1>7, <1>8 DEF Engine

-----------------------------------------------------------------------------
(* One selection at a time, of people who stay.                             *)

RequestsGo == \A o \in Organisers : request'[o] # None =>
  \/ request'[o] = request[o]
  \/ request[o] # None /\ request'[o].op = request[o].op /\ request'[o].at \notin {"sent", "checked"}
  \/ request'[o].op \notin {"select", "reset", "remove"}

ChosenGo == \A o \in Organisers :
  /\ desk'[o].chosen = desk[o].chosen \/ desk'[o].chosen \subseteq Registered
  /\ AsksWho(o)' => desk'[o].chosen \subseteq Registered

BudgetGoes ==
  /\ OnlySpent /\ left'.organisers = left.organisers
  /\ left'.may["select"] \in Nat /\ left.may["select"] \in Nat /\ left'.may["select"] <= left.may["select"]

LEMMA BudgetGoesOn ==
  ASSUME LeftInv, left' = left \/ \E op : Spend(op)
  PROVE  BudgetGoes
<1>1. PICK x \in Ops : x = "select"
  BY DEF Ops
<1>2. left.may[x] \in Nat
  BY DEF LeftInv
<1>3. OnlySpent
  BY OnlySpentIs
<1>4. CASE left' = left
  BY <1>1, <1>2, <1>3, <1>4 DEF BudgetGoes
<1>5. ASSUME NEW op, Spend(op)
      PROVE  BudgetGoes
  <2>1. left'.organisers = left.organisers /\ (left'.may[x] = left.may[x] \/ (left'.may[x] = left.may[x] - 1 /\ left.may[x] > 0))
    BY <1>5, SpendIs
  <2>2. left'.may[x] \in Nat /\ left'.may[x] <= left.may[x]
    BY <1>2, <2>1
  <2> QED BY <1>1, <1>2, <1>3, <2>1, <2>2 DEF BudgetGoes
<1> QED BY <1>4, <1>5

\* Where nobody selects, nobody begins to.
LEMMA NobodyBegins ==
  ASSUME NobodySelects, OnlySpent,
         \A o \in Organisers : request'[o] # None /\ request'[o].op = "select" /\ request'[o].at \in {"sent", "checked"} => Selecting(o)
  PROVE  SelectsAlone'
<1>1. PICK x \in Ops : x = "select"
  BY DEF Ops
<1>2. left'.may["select"] = 0
  BY <1>1 DEF OnlySpent, NobodySelects
<1>3. NobodySelects'
  BY <1>2 DEF NobodySelects, Selecting
<1> QED BY <1>3 DEF SelectsAlone

LEMMA RegisteredStay ==
  ASSUME GrantsStand
  PROVE  Registered \subseteq Registered'
BY DEF GrantsStand, Registered

LEMMA ChoiceStands ==
  ASSUME GrantsStand, NEW r, ChoiceOK(r)
  PROVE  ChoiceOK(r)'
<1>1. Registered \subseteq Registered' /\ \A p \in Registered : account'[p].granted = account[p].granted
  BY RegisteredStay DEF GrantsStand, Registered
<1> QED BY <1>1 DEF ChoiceOK

LEMMA LeavingForbidden ==
  ASSUME NobodyLeaves, BudgetGoes, RequestsGo
  PROVE  NobodyLeaves'
<1>1. PICK x \in Ops, y \in Ops : x = "reset" /\ y = "remove"
  BY DEF Ops
<1>2. left'.may["reset"] = 0 /\ left'.may["remove"] = 0
  BY <1>1 DEF BudgetGoes, OnlySpent, NobodyLeaves
<1> QED BY <1>2 DEF NobodyLeaves, RequestsGo

LEMMA SelectsStay ==
  ASSUME SelectsAlone, BudgetGoes, RequestsGo, GrantsStand, ChosenGo
  PROVE  SelectsAlone'
<1>1. \A o \in Organisers : Selecting(o)' => Selecting(o) /\ request'[o] = request[o]
  BY DEF RequestsGo, Selecting
<1>2. CASE NobodySelects
  BY <1>1, <1>2, NobodyBegins DEF BudgetGoes, Selecting
<1>3. CASE NobodyLeaves /\ OneAtATime /\ ChoicesInv
  <2>1. NobodyLeaves'
    BY <1>3, LeavingForbidden
  <2>2. OneAtATime'
    <3>1. \A o \in Organisers : Selecting(o)' => o \in left'.organisers
      BY <1>1, <1>3 DEF OneAtATime, BudgetGoes
    <3>2. \A o, q \in Organisers : Selecting(o)' /\ Selecting(q)' => o = q
      BY <1>1, <1>3 DEF OneAtATime
    <3>3. CASE \E o \in Organisers : left.organisers = {o}
      BY <3>1, <3>2, <3>3 DEF OneAtATime, BudgetGoes
    <3>4. CASE left.may["select"] <= 1 /\ (left.may["select"] = 1 => \A o \in Organisers : ~Selecting(o))
      <4>1. left'.may["select"] <= 1 /\ (left'.may["select"] = 1 => left.may["select"] = 1)
        BY <3>4 DEF BudgetGoes
      <4> QED BY <1>1, <3>1, <3>2, <3>4, <4>1 DEF OneAtATime
    <3> QED BY <1>3, <3>3, <3>4 DEF OneAtATime
  <2>3. ChoicesInv'
    <3>1. ASSUME NEW o \in Organisers, Selecting(o)'
          PROVE  ChoiceOK(request[o])'
      <4>1. PICK r : r = request[o]
        OBVIOUS
      <4>2. request'[o] = r /\ ChoiceOK(r)
        BY <1>1, <1>3, <3>1, <4>1 DEF ChoicesInv
      <4>3. ChoiceOK(r)'
        BY <4>2, ChoiceStands
      <4> QED BY <4>2, <4>3 DEF ChoiceOK
    <3>2. ASSUME NEW o \in Organisers, desk'[o].chosen # None \/ AsksWho(o)'
          PROVE  desk'[o].chosen \subseteq Registered'
      BY <1>3, <3>2, RegisteredStay DEF ChoicesInv, ChosenGo
    <3> QED BY <3>1, <3>2 DEF ChoicesInv
  <2> QED BY <2>1, <2>2, <2>3 DEF SelectsAlone
<1> QED BY <1>2, <1>3 DEF SelectsAlone

LEMMA PageChooses ==
  ASSUME EngineInv, ChoicesInv, NEW o \in Organisers, Page(o)
  PROVE  ChosenGo
<1>0. DesksInv
  BY DEF EngineInv
<1>1. PICK d : d = desk[o]
  OBVIOUS
<1>2. /\ DeskOK(d) /\ (d.chosen # None \/ (d.dialog # None /\ d.dialog.op = "select") => d.chosen \subseteq Registered)
      /\ \A q \in Organisers : AsksWho(q) => desk[q].chosen \subseteq Registered
  BY <1>0, <1>1 DEF DesksInv, ChoicesInv, AsksWho
<1>3. ASSUME NEW e, desk' = [desk EXCEPT ![o] = e], e.chosen = d.chosen \/ e.chosen \subseteq Registered,
             e.dialog # None /\ e.dialog.op = "select" => e.chosen \subseteq Registered
      PROVE  ChosenGo
  <2>1. \A q \in Organisers : desk'[q] = IF q = o THEN e ELSE desk[q]
    BY <1>0, <1>3 DEF DesksInv
  <2> QED BY <1>1, <1>2, <1>3, <2>1 DEF ChosenGo, AsksWho
<1>4. CASE desk' = desk
  BY <1>2, <1>4 DEF ChosenGo, AsksWho
<1>5. ASSUME NEW x, \/ desk' = [desk EXCEPT ![o].view = x] \/ desk' = [desk EXCEPT ![o].people = x]
                    \/ desk' = [desk EXCEPT ![o].form = x] \/ desk' = [desk EXCEPT ![o].dialog = None]
      PROVE  ChosenGo
  <2>1. PICK e : desk' = [desk EXCEPT ![o] = e] /\ e \in {[d EXCEPT !.view = x], [d EXCEPT !.people = x], [d EXCEPT !.form = x], [d EXCEPT !.dialog = None]}
    BY <1>1, <1>5
  <2>2. e.chosen = d.chosen /\ (e.dialog = None \/ e.dialog = d.dialog)
    BY <1>2, <2>1 DEF DeskOK
  <2> QED BY <1>2, <1>3, <2>1, <2>2
<1>6. ASSUME NEW x, x \subseteq Registered, desk' = [desk EXCEPT ![o].chosen = x]
      PROVE  ChosenGo
  <2>1. PICK e : e = [d EXCEPT !.chosen = x]
    OBVIOUS
  <2>2. e.chosen = x /\ desk' = [desk EXCEPT ![o] = e]
    BY <1>1, <1>2, <1>6, <2>1 DEF DeskOK
  <2> QED BY <1>3, <1>6, <2>2
<1>7. CASE Looks(o) \/ LoadsPeople(o) \/ LoadsForm(o) \/ Cancels(o)
  BY <1>5, <1>7 DEF Looks, LoadsPeople, LoadsForm, Cancels
<1>8. ASSUME NEW p \in People, LoadsPerson(o, p)
      PROVE  ChosenGo
  <2>1. PICK x : x = [q \in People |-> IF q = p THEN account[q] ELSE IF desk[o].people = None THEN Stranger ELSE desk[o].people[q]]
    OBVIOUS
  <2>2. desk' = [desk EXCEPT ![o].people = x]
    BY <1>8, <2>1 DEF LoadsPerson
  <2> QED BY <1>5, <2>2
<1>9. CASE LoadsReview(o)
  BY <1>6, <1>9 DEF LoadsReview, Ticked
<1>10. ASSUME NEW p \in People, Ticks(o, p)
       PROVE  ChosenGo
  <2>1. PICK x : x = IF p \in d.chosen THEN d.chosen \ {p} ELSE d.chosen \cup {p}
    OBVIOUS
  <2>2. desk' = [desk EXCEPT ![o].chosen = x] /\ d.chosen # None /\ p \in Registered
    BY <1>1, <1>10, <2>1 DEF Ticks
  <2>3. x \subseteq Registered
    BY <1>2, <2>1, <2>2
  <2> QED BY <1>6, <2>2, <2>3
<1>11. CASE Discards(o) \/ \E e \in SettingEdits : Edits(o, e)
  <2>1. PICK f : desk' = [desk EXCEPT ![o].form = f]
    <3>1. CASE Discards(o)
      <4>1. desk' = [desk EXCEPT ![o].form = [desk[o].form EXCEPT !.c = desk[o].form.orig]]
        BY <3>1 DEF Discards
      <4> QED BY <4>1
    <3>2. ASSUME NEW e \in SettingEdits, Edits(o, e)
          PROVE  \E f : desk' = [desk EXCEPT ![o].form = f]
      <4>1. desk' = [desk EXCEPT ![o].form = [desk[o].form EXCEPT !.c = [desk[o].form.c EXCEPT ![e.field] = e.value]]]
        BY <3>2 DEF Edits
      <4> QED BY <4>1
    <3> QED BY <1>11, <3>1, <3>2
  <2> QED BY <1>5, <2>1
<1>12. ASSUME NEW g \in Offered(o), Asks(o, g)
       PROVE  ChosenGo
  <2>1. PICK e : e = [d EXCEPT !.dialog = g]
    OBVIOUS
  <2>2. desk' = [desk EXCEPT ![o] = e] /\ e.chosen = d.chosen /\ e.dialog = g
    BY <1>1, <1>2, <1>12, <2>1 DEF Asks, DeskOK
  <2>3. g.op = "select" => g \in SelectOffers(o)
    <3>1. g \in PeopleOffers(o) => g.op # "select"
      BY DEF PeopleOffers, PersonOffers, Offer
    <3> QED BY <3>1 DEF Offered, Offer, ControlOffers, CreateOffers, AnnounceOffers, ResetOffers, SetupOffers
  <2>4. g.op = "select" => d.chosen # None
    BY <1>1, <2>3 DEF SelectOffers
  <2> QED BY <1>2, <1>3, <2>2, <2>4
<1>13. CASE Confirms(o) \/ ConfirmsReset(o) \/ ConfirmsSetup(o) \/ Saves(o) \/ Refused(o)
  BY <1>4, <1>13 DEF Confirms, ConfirmsReset, ConfirmsSetup, Saves, Send, Refused
<1>14. CASE Answered(o)
  <2>1. PICK e, op : e = Refreshed(d, op) /\ op = request[o].op
    OBVIOUS
  <2>2. PICK closed : closed = [d EXCEPT !.dialog = IF op = "save" THEN d.dialog ELSE None]
    OBVIOUS
  <2>3. PICK f : f = IF d.form = None THEN None ELSE [c |-> contest.set, orig |-> contest.set]
    OBVIOUS
  <2>4. /\ closed = [x \in {"view", "people", "chosen", "form", "dialog"} |-> closed[x]] /\ closed.chosen = d.chosen
        /\ closed.dialog \in {d.dialog, None}
    BY <1>2, <2>2 DEF DeskOK
  <2>5. e \in {[closed EXCEPT !.view = View], [closed EXCEPT !.people = account], [closed EXCEPT !.chosen = Ticked],
               [closed EXCEPT !.form = f], closed}
    BY <2>1, <2>2, <2>3 DEF Refreshed
  <2>6. e.chosen \in {d.chosen, Ticked} /\ e.dialog \in {d.dialog, None}
    BY <2>4, <2>5
  <2>7. desk' = [desk EXCEPT ![o] = e]
    BY <1>1, <1>14, <2>1 DEF Answered
  <2> QED BY <1>2, <1>3, <2>6, <2>7 DEF Ticked
<1> QED BY <1>7, <1>8, <1>9, <1>10, <1>11, <1>12, <1>13, <1>14 DEF Page

\* A selection is sent by who may, of people who are there.
LEMMA PageSelects ==
  ASSUME EngineInv, SelectsAlone, NEW o \in Organisers, o \in left.organisers, NEW op \in Ops, op = "select", Send(o, op, desk[o].chosen),
         AsksWho(o)
  PROVE  SelectsAlone'
<1>0. LeftInv /\ RequestsInv
  BY DEF EngineInv
<1>1. PICK r : r = [op |-> op, arg |-> desk[o].chosen, at |-> "sent", paid |-> {}, amount |-> 0]
  OBVIOUS
<1>2. /\ request' = [request EXCEPT ![o] = r] /\ r.op = "select" /\ r.arg = desk[o].chosen /\ r.at = "sent"
      /\ Spend(op) /\ UNCHANGED <<account, desk>>
  BY <1>1 DEF Send, engine
<1>3. \A q \in Organisers : request'[q] = IF q = o THEN r ELSE request[q]
  BY <1>0, <1>2 DEF RequestsInv
<1>4. left.may["select"] > 0 /\ NobodyLeaves /\ OneAtATime /\ ChoicesInv
  BY <1>2 DEF SelectsAlone, NobodySelects, Spend, May
<1>5. \E x : Spend(x)
  BY <1>2
<1>6. BudgetGoes /\ left'.may["select"] = left.may["select"] - 1
  <2>1. left'.may[op] = left.may[op] - 1
    BY <1>0, <1>2, SpendIs DEF Spend, LeftInv
  <2> QED BY <1>0, <1>5, <2>1, BudgetGoesOn
<1>7. NobodyLeaves'
  <2>2. PICK x \in Ops, y \in Ops : x = "reset" /\ y = "remove"
    BY DEF Ops
  <2>3. left'.may["reset"] = 0 /\ left'.may["remove"] = 0
    BY <1>4, <1>6, <2>2 DEF BudgetGoes, OnlySpent, NobodyLeaves
  <2> QED BY <1>2, <1>3, <1>4, <2>3 DEF NobodyLeaves
<1>8. \A q \in Organisers : Selecting(q)' => q = o \/ Selecting(q)
  BY <1>3 DEF Selecting
<1>9. request[o] = None /\ ~Selecting(o)
  BY DEF Send, Selecting
<1>10. \A q \in Organisers : ~Selecting(q)
  <2>1. CASE left.may["select"] <= 1 /\ (left.may["select"] = 1 => \A q \in Organisers : ~Selecting(q))
    <3>1. left.may["select"] = 1
      BY <1>4, <1>6, <2>1 DEF BudgetGoes
    <3> QED BY <2>1, <3>1
  <2>2. CASE \E x \in Organisers : left.organisers = {x}
    BY <1>4, <1>9, <2>2 DEF OneAtATime
  <2> QED BY <1>4, <2>1, <2>2 DEF OneAtATime
<1>11. OneAtATime'
  <2>1. \A q \in Organisers : Selecting(q)' => q = o
    BY <1>8, <1>10
  <2>2. \A q \in Organisers : Selecting(q)' => q \in left'.organisers
    BY <1>6, <2>1 DEF BudgetGoes
  <2>3. CASE \E x \in Organisers : left.organisers = {x}
    BY <1>6, <2>1, <2>2, <2>3 DEF OneAtATime, BudgetGoes
  <2>4. CASE left.may["select"] <= 1
    <3>1. left'.may["select"] <= 1 /\ left'.may["select"] # 1
      BY <1>4, <1>6, <2>4 DEF BudgetGoes
    <3> QED BY <2>1, <2>2, <3>1 DEF OneAtATime
  <2> QED BY <1>4, <2>3, <2>4 DEF OneAtATime
<1>12. ChoicesInv'
  <2>1. Registered' = Registered
    BY <1>2 DEF Registered
  <2>2. desk[o].chosen \subseteq Registered
    BY <1>4 DEF ChoicesInv
  <2>3. \A q \in Organisers : Selecting(q)' => ChoiceOK(request[q])'
    <3>1. ASSUME NEW q \in Organisers, Selecting(q)'
          PROVE  ChoiceOK(request[q])'
      <4>1. request'[q] = r
        BY <1>3, <1>8, <1>10, <3>1
      <4> QED BY <1>2, <2>1, <2>2, <4>1 DEF ChoiceOK
    <3> QED BY <3>1
  <2> QED BY <1>2, <1>4, <2>1, <2>3 DEF ChoicesInv, AsksWho
<1> QED BY <1>7, <1>11, <1>12 DEF SelectsAlone

LEMMA PageAlone ==
  ASSUME EngineInv, SelectsAlone, NEW o \in Organisers, o \in left.organisers, Page(o)
  PROVE  SelectsAlone'
<1>0. LeftInv /\ RequestsInv /\ DesksInv
  BY DEF EngineInv
<1>1. GrantsStand
  BY PageIs, DeskAssumption DEF GrantsStand
<1>2. ASSUME RequestsGo, left' = left \/ \E op : Spend(op)
      PROVE  SelectsAlone'
  <2>1. BudgetGoes
    BY <1>0, <1>2, BudgetGoesOn
  <2>2. CASE NobodySelects
    <3>1. \A q \in Organisers : request'[q] # None /\ request'[q].op = "select" /\ request'[q].at \in {"sent", "checked"} => Selecting(q)
      BY <1>2 DEF RequestsGo, Selecting
    <3> QED BY <2>1, <2>2, <3>1, NobodyBegins DEF BudgetGoes
  <2>3. CASE ChoicesInv
    BY <1>1, <1>2, <2>1, <2>3, PageChooses, SelectsStay
  <2> QED BY <2>2, <2>3 DEF SelectsAlone
<1>3. CASE request' = request
  <2>1. RequestsGo
    BY <1>3 DEF RequestsGo
  <2>2. left' = left \/ \E op : Spend(op)
    <3>1. CASE Looks(o) \/ LoadsPeople(o) \/ LoadsReview(o) \/ LoadsForm(o) \/ Discards(o) \/ Cancels(o)
      BY <3>1 DEF Looks, LoadsPeople, LoadsReview, LoadsForm, Discards, Cancels
    <3>2. ASSUME NEW p \in People, Ticks(o, p) \/ LoadsPerson(o, p)
          PROVE  \E op : Spend(op)
      BY <3>2 DEF Ticks, LoadsPerson
    <3>3. ASSUME NEW e \in SettingEdits, Edits(o, e)
          PROVE  \E op : Spend(op)
      BY <3>3 DEF Edits
    <3>4. ASSUME NEW d \in Offered(o), Asks(o, d)
          PROVE  left' = left
      BY <3>4 DEF Asks
    <3>5. CASE Confirms(o) \/ ConfirmsReset(o) \/ ConfirmsSetup(o) \/ Saves(o)
      BY <3>5 DEF Confirms, ConfirmsReset, ConfirmsSetup, Saves, Send
    <3>6. CASE Answered(o) \/ Refused(o)
      BY <3>6 DEF Answered, Refused
    <3> QED BY <3>1, <3>2, <3>3, <3>4, <3>5, <3>6 DEF Page
  <2> QED BY <1>2, <2>1, <2>2
<1>4. CASE Answered(o) \/ Refused(o)
  <2>1. request' = [request EXCEPT ![o] = None] /\ (left' = left \/ \E op : Spend(op))
    BY <1>4 DEF Answered, Refused
  <2>2. RequestsGo
    BY <1>0, <2>1 DEF RequestsInv, RequestsGo
  <2> QED BY <1>2, <2>1, <2>2
<1>5. CASE Confirms(o) \/ ConfirmsReset(o) \/ ConfirmsSetup(o) \/ Saves(o)
  <2>1. PICK op, arg : /\ Send(o, op, arg) /\ op \in DialogOps \cup {"save"}
                       /\ op = "select" => AsksWho(o) /\ arg = desk[o].chosen
    <3>1. CASE Confirms(o)
      <4>1. PICK g : g = desk[o].dialog
        OBVIOUS
      <4>2. g # None /\ Send(o, g.op, Argument(o, g)) /\ g.op \in DialogOps
        BY <1>0, <3>1, <4>1 DEF Confirms, DesksInv, DeskOK
      <4>3. g.op = "select" => AsksWho(o) /\ Argument(o, g) = desk[o].chosen
        BY <4>1, <4>2 DEF AsksWho, Argument
      <4> QED BY <4>2, <4>3
    <3>2. CASE ConfirmsReset(o) \/ ConfirmsSetup(o) \/ Saves(o)
      <4>1. \E op, arg : Send(o, op, arg) /\ op \in {"reset", "setup", "save"}
        BY <3>2 DEF ConfirmsReset, ConfirmsSetup, Saves
      <4> QED BY <4>1 DEF DialogOps
    <3> QED BY <1>5, <3>1, <3>2
  <2>2. op \in Ops
    BY <2>1 DEF DialogOps, Ops
  <2>3. CASE op = "select"
    BY <2>1, <2>2, <2>3, PageSelects
  <2>4. CASE op # "select"
    <3>1. PICK r : r = [op |-> op, arg |-> arg, at |-> "sent", paid |-> {}, amount |-> 0]
      OBVIOUS
    <3>2. r.op = op /\ request' = [request EXCEPT ![o] = r] /\ Spend(op) /\ desk' = desk
      BY <2>1, <3>1 DEF Send
    <3>3. \A q \in Organisers : request'[q] = IF q = o THEN r ELSE request[q]
      BY <1>0, <3>2 DEF RequestsInv
    <3>4. CASE op \in {"reset", "remove"}
      <4>1. NobodySelects
        BY <3>2, <3>4 DEF SelectsAlone, NobodyLeaves, Spend, May
      <4>2. OnlySpent
        BY <1>0, <3>2, OnlySpentIs
      <4>3. \A q \in Organisers : request'[q] # None /\ request'[q].op = "select" /\ request'[q].at \in {"sent", "checked"} => Selecting(q)
        BY <2>4, <3>2, <3>3 DEF Selecting
      <4> QED BY <4>1, <4>2, <4>3, NobodyBegins
    <3>5. CASE op \notin {"reset", "remove"}
      <4>1. RequestsGo
        BY <2>4, <3>2, <3>3, <3>5 DEF RequestsGo
      <4> QED BY <1>2, <3>2, <4>1
    <3> QED BY <3>4, <3>5
  <2> QED BY <2>3, <2>4
<1>6. request' = request \/ Answered(o) \/ Refused(o) \/ Confirms(o) \/ ConfirmsReset(o) \/ ConfirmsSetup(o) \/ Saves(o)
  BY DEF Page, Looks, LoadsPeople, LoadsReview, LoadsForm, Discards, Cancels, Ticks, LoadsPerson, Edits, Asks
<1> QED BY <1>3, <1>4, <1>5, <1>6

\* What the engine reads of who is paid stays so until it pays.
LEMMA SelectReadsAlone ==
  ASSUME StartStands, EngineInv, StartInv, GrantedInv, NobodyLeaves, OneAtATime, ChoicesInv,
         NEW o \in Organisers, request[o] # None, SelectReads(o), UNCHANGED <<left, desk>>
  PROVE  SelectsAlone'
<1>0. RequestsInv /\ AccountsInv /\ contest.set.start = Start
  BY DEF EngineInv, StartInv
<1>1. PICK r : r = request[o]
  OBVIOUS
<1>2. RequestOK(r) /\ r.op = "select" /\ Selecting(o) /\ ChoiceOK(r)
  BY <1>0, <1>1 DEF RequestsInv, SelectReads, Selecting, ChoicesInv
<1>3. PICK s : s = [r EXCEPT !.at = "checked", !.paid = Paid, !.amount = contest.set.start]
  OBVIOUS
<1>4. s.op = "select" /\ s.arg = r.arg /\ s.at = "checked" /\ s.paid = Paid /\ s.amount = Start
  BY <1>0, <1>2, <1>3 DEF RequestOK
<1>5. request' = [request EXCEPT ![o] = s] /\ account' = account
  BY <1>1, <1>3 DEF SelectReads, engine
<1>6. \A q \in Organisers : request'[q] = IF q = o THEN s ELSE request[q]
  BY <1>0, <1>5 DEF RequestsInv
<1>7. \A q \in Organisers : Selecting(q)' => Selecting(q)
  BY <1>2, <1>4, <1>6 DEF Selecting
<1>8. ChoiceOK(s)
  <2>1. r.arg \subseteq Registered
    BY <1>2 DEF ChoiceOK
  <2>2. ASSUME NEW p \in Registered
        PROVE  (p \in Paid => account[p].granted = Start) /\ (p \notin Paid => account[p].granted = 0)
    <3>1. p \in People /\ account[p].granted \in {0, Start}
      BY DEF Registered, GrantedInv, GrantOK
    <3>2. Start > 0
      BY DEF StartStands, Start
    <3> QED BY <3>1, <3>2 DEF Paid
  <2>3. Paid \subseteq Registered
    BY DEF Paid
  <2> QED BY <1>4, <2>1, <2>2, <2>3 DEF ChoiceOK
<1>9. NobodyLeaves'
  BY <1>4, <1>6 DEF NobodyLeaves
<1>10. OneAtATime'
  BY <1>7 DEF OneAtATime
<1>11. ChoicesInv'
  <2>1. Registered' = Registered
    BY <1>5 DEF Registered
  <2>2. \A q \in Organisers : Selecting(q)' => ChoiceOK(request[q])'
    <3>1. ASSUME NEW q \in Organisers, Selecting(q)'
          PROVE  ChoiceOK(request[q])'
      <4>1. CASE q = o
        BY <1>5, <1>6, <1>8, <2>1, <4>1 DEF ChoiceOK
      <4>2. CASE q # o
        BY <1>2, <1>7, <3>1, <4>2 DEF OneAtATime
      <4> QED BY <4>1, <4>2
    <3> QED BY <3>1
  <2> QED BY <2>1, <2>2 DEF ChoicesInv, AsksWho
<1> QED BY <1>9, <1>10, <1>11 DEF SelectsAlone

LEMMA EngineAlone ==
  ASSUME StartStands, EngineInv, StartInv, GrantedInv, SelectsAlone, NEW o \in Organisers, Engine(o)
  PROVE  SelectsAlone'
<1>0. LeftInv /\ RequestsInv /\ AccountsInv /\ request[o] # None /\ UNCHANGED <<left, desk>>
  BY DEF EngineInv, Engine
<1>1. PICK s : /\ request' = [request EXCEPT ![o] = s] /\ s.op = request[o].op
               /\ s.at \in {"sent", "checked"} => AdvanceChecks(o) \/ SelectReads(o)
  BY <1>0, EngineServesIt DEF EngineServes
<1>2. \A q \in Organisers : request'[q] = IF q = o THEN s ELSE request[q]
  BY <1>0, <1>1 DEF RequestsInv
<1>3. CASE NobodySelects
  <2>1. \A q \in Organisers : request'[q] # None /\ request'[q].op = "select" /\ request'[q].at \in {"sent", "checked"} => Selecting(q)
    BY <1>0, <1>1, <1>2 DEF Selecting, AdvanceChecks, SelectReads
  <2> QED BY <1>0, <1>3, <2>1, NobodyBegins, OnlySpentIs
<1>4. CASE NobodyLeaves /\ OneAtATime /\ ChoicesInv
  <2>1. CASE SelectReads(o)
    BY <1>0, <1>4, <2>1, SelectReadsAlone
  <2>2. CASE ~SelectReads(o)
    <3>1. s.at \in {"sent", "checked"} => s.op = "advance"
      BY <1>1, <2>2 DEF AdvanceChecks
    <3>2. RequestsGo
      BY <1>0, <1>1, <1>2, <3>1 DEF RequestsGo
    <3>3. BudgetGoes
      BY <1>0, BudgetGoesOn
    <3>4. CASE GrantsStand
      <4>1. ChosenGo
        BY <1>0, <1>4 DEF ChosenGo, ChoicesInv, AsksWho
      <4> QED BY <3>2, <3>3, <3>4, <4>1, SelectsStay
    <3>5. CASE SelectServed(o)
      <4>1. Selecting(o)
        BY <1>0, <3>5 DEF SelectServed, Selecting
      <4>2. \A q \in Organisers : ~Selecting(q)'
        <5>1. s.op = "select"
          BY <1>1, <4>1 DEF Selecting
        <5>2. s.at \notin {"sent", "checked"}
          BY <3>1, <5>1
        <5>3. \A q \in Organisers : Selecting(q)' => q # o /\ Selecting(q)
          BY <1>2, <5>2 DEF Selecting
        <5> QED BY <1>4, <4>1, <5>3 DEF OneAtATime
      <4>3. \A p \in People : account'[p].in = account[p].in
        BY <1>0, <3>5, SelectServedIs DEF Keeps, AccountFields
      <4>4. Registered' = Registered
        BY <4>3 DEF Registered
      <4>5. NobodyLeaves'
        BY <1>4, <3>2, <3>3, LeavingForbidden
      <4>6. OneAtATime'
        BY <1>0, <1>4, <4>2 DEF OneAtATime
      <4>7. ChoicesInv'
        BY <1>0, <1>4, <4>2, <4>4 DEF ChoicesInv, AsksWho
      <4> QED BY <4>5, <4>6, <4>7 DEF SelectsAlone
    <3>6. request[o].op # "remove"
      BY <1>0, <1>4 DEF NobodyLeaves
    <3> QED BY <3>4, <3>5, <3>6, EngineGrants
  <2> QED BY <2>1, <2>2
<1> QED BY <1>3, <1>4 DEF SelectsAlone

LEMMA OthersAlone ==
  ASSUME EngineInv, SelectsAlone, RequestsGo, GrantsStand, desk' = desk, left' = left \/ \E op : Spend(op)
  PROVE  SelectsAlone'
<1>1. BudgetGoes
  BY BudgetGoesOn DEF EngineInv
<1>2. CASE NobodySelects
  <2>1. \A q \in Organisers : request'[q] # None /\ request'[q].op = "select" /\ request'[q].at \in {"sent", "checked"} => Selecting(q)
    BY DEF RequestsGo, Selecting
  <2> QED BY <1>1, <1>2, <2>1, NobodyBegins DEF BudgetGoes
<1>3. CASE ChoicesInv
  <2>1. ChosenGo
    BY <1>3 DEF ChosenGo, ChoicesInv, AsksWho
  <2> QED BY <1>1, <2>1, SelectsStay
<1> QED BY <1>2, <1>3 DEF SelectsAlone

LEMMA SeatSpends ==
  ASSUME NEW p \in People, Seat(p)
  PROVE  left' = left \/ \E op : Spend(op)
<1>1. CASE Follows(p)
  BY <1>1 DEF Follows, Hears, ReadServed, ReadAnswered, Reports, ReportServed, ReportAnswered
<1>2. CASE Moves(p)
  BY <1>2 DEF Moves, Opens, Reloads, Returns, Resumes, Granted, Leaves, ReportLost
<1> QED BY <1>1, <1>2 DEF Seat

LEMMA SeatGrants ==
  ASSUME EngineInv, GrantedInv, NEW p \in People, Seat(p)
  PROVE  GrantsStand /\ GrantedInv'
<1>0. LeftInv /\ HereInv /\ ContestRow /\ AccountsInv
  BY DEF EngineInv
<1>1. account[p].in /\ (account' = account \/ account' = [account EXCEPT ![p] = Reported(p)])
  BY <1>0, SeatTouches DEF Seat
<1>2. CASE account' = account
  BY <1>2, SameGrants
<1>3. CASE account' = [account EXCEPT ![p] = Reported(p)]
  <2>1. PICK b, fields : b = Reported(p) /\ fields = {"alerts", "rows", "locked"}
    OBVIOUS
  <2>2. Keeps(b, account[p], fields)
    BY <1>0, <1>1, <2>1, ReportedIs
  <2>3. \A q \in People : account'[q] = IF q = p THEN b ELSE account[q]
    BY <1>0, <1>3, <2>1 DEF AccountsInv
  <2>4. Touches(p, fields)
    BY <2>2, <2>3 DEF Touches, Keeps
  <2> QED BY <2>1, <2>4, GrantsStay
<1> QED BY <1>1, <1>2, <1>3

LEMMA PaidNext ==
  ASSUME DeskAssumption, StartStands, EngineInv, PaidInductive, [Next]_vars
  PROVE  PaidInductive'
<1>0. /\ LeftInv /\ RequestsInv /\ AccountsInv /\ StartInv /\ GrantedInv /\ SelectsAlone /\ StartInv'
      /\ \A o \in left.organisers : o \in Organisers
  BY StartNext DEF EngineInv, LeftInv, PaidInductive
<1>1. ASSUME request' = request, desk' = desk, GrantsStand, GrantedInv', left' = left \/ \E op : Spend(op)
      PROVE  PaidInductive'
  <2>1. RequestsGo
    BY <1>1 DEF RequestsGo
  <2> QED BY <1>0, <1>1, <2>1, OthersAlone DEF PaidInductive
<1>2. CASE Contest
  <2>1. ASSUME NEW o \in Organisers, Engine(o)
        PROVE  PaidInductive'
    BY <1>0, <2>1, EngineGrants, EngineAlone DEF PaidInductive
  <2>2. ASSUME NEW o \in left.organisers, Page(o)
        PROVE  PaidInductive'
    <3>1. GrantedInv'
      BY <1>0, <2>2, PageIs, SameGrants
    <3>2. SelectsAlone'
      BY <1>0, <2>2, PageAlone
    <3> QED BY <1>0, <3>1, <3>2 DEF PaidInductive
  <2>3. ASSUME NEW p \in People, Seat(p)
        PROVE  PaidInductive'
    BY <1>0, <1>1, <2>3, SeatGrants, SeatSpends, SeatIs
  <2>4. ASSUME NEW p \in People, Registers(p)
        PROVE  PaidInductive'
    <3>1. PICK zero \in Nat : zero = 0
      OBVIOUS
    <3>2. ~account[p].in /\ account' = [account EXCEPT ![p] = Entered(zero)]
      BY <1>0, <2>4, <3>1, RegistersIs
    <3>3. GrantsStand /\ GrantedInv'
      BY <1>0, <3>1, <3>2, GrantsEnter
    <3>4. \E op : Spend(op)
      BY <2>4 DEF Registers
    <3> QED BY <1>1, <2>4, <3>3, <3>4, RegistersKeeps
  <2>5. ASSUME NEW p \in People, Spends(p)
        PROVE  PaidInductive'
    <3>1. PICK fields : fields = {"spent"}
      OBVIOUS
    <3>2. Touches(p, fields)
      BY <1>0, <2>5, <3>1, SpendsIs
    <3>3. GrantsStand /\ GrantedInv'
      BY <1>0, <3>1, <3>2, GrantsStay
    <3>4. \E op : Spend(op)
      BY <2>5 DEF Spends
    <3> QED BY <1>1, <2>5, <3>3, <3>4, SpendsKeeps
  <2>6. CASE Restocks \/ Clock
    <3>1. \E op : Spend(op)
      BY <2>6 DEF Restocks, Clock
    <3>2. UNCHANGED <<account, desk, request>>
      BY <2>6, WorldIs
    <3> QED BY <1>0, <1>1, <3>1, <3>2, SameGrants
  <2> QED BY <1>0, <1>2, <2>1, <2>2, <2>3, <2>4, <2>5, <2>6 DEF Contest
<1>3. ASSUME NEW o \in Organisers, ResetServed(o)
      PROVE  PaidInductive'
  <2>1. /\ request[o] # None /\ request[o].op = "reset" /\ request' = [request EXCEPT ![o].at = "committed"]
        /\ account' = [p \in People |-> Stranger] /\ left' = left
    BY <1>3 DEF ResetServed
  <2>2. GrantedInv'
    BY <2>1, StrangerIs DEF GrantedInv, GrantOK
  <2>3. NobodySelects
    BY <1>0, <2>1 DEF SelectsAlone, NobodyLeaves
  <2>4. \A q \in Organisers : request'[q] # None /\ request'[q].op = "select" /\ request'[q].at \in {"sent", "checked"} => Selecting(q)
    <3>1. PICK s : s = [request[o] EXCEPT !.at = "committed"]
      OBVIOUS
    <3>2. s.op = "reset"
      BY <1>0, <2>1, <3>1 DEF RequestsInv, RequestOK
    <3>3. \A q \in Organisers : request'[q] = IF q = o THEN s ELSE request[q]
      BY <1>0, <2>1, <3>1 DEF RequestsInv
    <3> QED BY <3>2, <3>3 DEF Selecting
  <2>5. SelectsAlone'
    BY <1>0, <2>1, <2>3, <2>4, NobodyBegins, OnlySpentIs
  <2> QED BY <1>0, <2>2, <2>5 DEF PaidInductive
<1>4. ASSUME NEW o \in Organisers, SetupSettles(o) \/ SetupRestores(o)
      PROVE  PaidInductive'
  <2>1. UNCHANGED <<account, desk, left>>
    BY <1>4, SetupSettlesIs, SetupRestoresIs
  <2>2. PICK at : request' = [request EXCEPT ![o].at = at] /\ request[o] # None /\ request[o].op = "setup"
    BY <1>4 DEF SetupSettles, SetupRestores
  <2>3. PICK s : s = [request[o] EXCEPT !.at = at]
    OBVIOUS
  <2>4. s.op = "setup"
    BY <1>0, <2>2, <2>3 DEF RequestsInv, RequestOK
  <2>5. \A q \in Organisers : request'[q] = IF q = o THEN s ELSE request[q]
    BY <1>0, <2>2, <2>3 DEF RequestsInv
  <2>6. RequestsGo
    BY <2>4, <2>5 DEF RequestsGo
  <2>7. GrantsStand /\ GrantedInv'
    BY <1>0, <2>1, SameGrants
  <2> QED BY <1>0, <2>1, <2>6, <2>7, OthersAlone DEF PaidInductive
<1>5. CASE ShelfNext /\ UNCHANGED <<engine, seats, desk, request, now>>
  <2>1. UNCHANGED <<account, desk, request>>
    BY <1>5 DEF engine
  <2> QED BY <1>0, <1>1, <1>5, <2>1, ShelfSpends, SameGrants
<1>6. CASE UNCHANGED vars
  BY <1>0, <1>1, <1>6, SameGrants DEF vars
<1> QED BY <1>0, <1>2, <1>3, <1>4, <1>5, <1>6 DEF Next

LEMMA PaidInit ==
  ASSUME DeskAssumption, OneSelects, Init
  PROVE  PaidInductive
<1>0. /\ request = [o \in Organisers |-> None] /\ left \in Budgets
      /\ desk = [o \in Organisers |-> [view |-> View, people |-> None, chosen |-> None, form |-> None, dialog |-> None]]
      /\ contest.set = [Defaults EXCEPT !.proctoring = left.held]
      /\ account = [p \in People |->
           IF p \notin left.people THEN Stranger
           ELSE [Stranger EXCEPT !.in = TRUE, !.advanced = p \in left.through,
                                 !.granted = IF p \in left.through THEN Defaults.start ELSE 0]]
  BY DEF Init
<1>1. StartInv
  <2>1. contest.set.start = Start
    BY <1>0, DeskAssumption DEF DeskAssumption, Settings, Start
  <2> QED BY <1>0, <2>1 DEF StartInv, FormStarts
<1>2. GrantedInv
  <2>1. ASSUME NEW p \in People
        PROVE  GrantOK(account[p])
    <3>1. CASE p \notin left.people
      BY <1>0, <3>1, StrangerIs DEF GrantOK
    <3>2. CASE p \in left.people
      <4>1. PICK s : s = Stranger
        OBVIOUS
      <4>2. s = [f \in AccountFields |-> s[f]]
        BY <4>1, StrangerIs DEF AccountOK, AccountShape
      <4>3. account[p] = [s EXCEPT !.in = TRUE, !.advanced = p \in left.through,
                                   !.granted = IF p \in left.through THEN Defaults.start ELSE 0]
        BY <1>0, <3>2, <4>1
      <4>4. account[p].granted = (IF p \in left.through THEN Start ELSE 0) /\ account[p].advanced = (p \in left.through)
        BY <4>2, <4>3 DEF AccountFields, Start
      <4>5. p \notin left.through => ~account[p].advanced
        BY <4>4, Zenon
      <4> QED BY <4>4, <4>5 DEF GrantOK
    <3> QED BY <3>1, <3>2
  <2> QED BY <2>1 DEF GrantedInv
<1>3. SelectsAlone
  <2>1. \A o \in Organisers : ~Selecting(o) /\ request[o] = None
    BY <1>0 DEF Selecting
  <2>2. CASE left.may["select"] = 0
    BY <2>1, <2>2 DEF SelectsAlone, NobodySelects
  <2>3. CASE left.may["select"] # 0
    <3>1. left.may["reset"] = 0 /\ left.may["remove"] = 0 /\ (left.may["select"] <= 1 \/ \E o \in Organisers : left.organisers = {o})
      BY <1>0, <2>3 DEF OneSelects
    <3>2. NobodyLeaves
      BY <2>1, <3>1 DEF NobodyLeaves
    <3>3. OneAtATime
      BY <2>1, <3>1 DEF OneAtATime
    <3>4. ChoicesInv
      BY <1>0, <2>1 DEF ChoicesInv, AsksWho
    <3> QED BY <3>2, <3>3, <3>4 DEF SelectsAlone
  <2> QED BY <2>2, <2>3
<1> QED BY <1>1, <1>2, <1>3 DEF PaidInductive

LEMMA PaidFollows ==
  ASSUME StartStands, PaidInductive
  PROVE  PaidOnce
<1>1. Start > 0
  BY DEF StartStands, Start
<1> QED BY <1>1 DEF PaidOnce, PaidInductive, StartInv, GrantedInv, GrantOK, Registered

\* However often one organiser confirms a selection and whatever is edited meanwhile, nobody
\* holds the starting coins twice and whoever is through holds them; the starting balance is
\* not changed, and nobody is removed while a selection may be made.
THEOREM PaidHolds ==
  ASSUME StartStands, OneSelects
  PROVE  Spec => []PaidOnce
<1>1. Init => PaidInductive
  BY DeskAssumption, PaidInit
<1>2. EngineInv /\ PaidInductive /\ [Next]_vars => PaidInductive'
  BY DeskAssumption, PaidNext
<1>3. PaidInductive => PaidOnce
  BY PaidFollows
<1> QED BY <1>1, <1>2, <1>3, EngineStands, PTL DEF Spec

LEMMA ShapesFollow ==
  ASSUME EngineInv, SeatInductive, ShelfOK
  PROVE  TypeOK
<1>1. contest.phase \in Range(Phases) /\ contest.set \in Settings
  BY DEF EngineInv, ContestRow, PhaseNames
<1>2. \A p \in People : account[p].alerts <= account[p].rows /\ Balance(p) >= 0
  BY DEF EngineInv, AccountsInv, AccountOK, AccountNumbers, Balance
<1>3. ASSUME NEW p \in People, tab[p] # None
      PROVE  /\ tab[p].screen \in {"gate", "ok", "alert", "locked"}
             /\ tab[p].screen = "ok" => Enforced(tab[p])
             /\ tab[p].again => tab[p].reading
             /\ ~tab[p].watching => tab[p].slips = {}
  <2>1. PageShape(tab[p]) /\ Watched(tab[p])
    BY <1>3 DEF SeatInductive
  <2>2. tab[p].screen \in {"gate", "ok", "alert", "locked"} /\ (tab[p].again => tab[p].reading)
    BY <2>1 DEF PageShape
  <2>3. /\ ~tab[p].watching => tab[p].slips = {} /\ tab[p].screen # "ok"
        /\ tab[p].watching = Enforced(tab[p])
    BY <2>1 DEF Watched
  <2>4. tab[p].screen = "ok" => Enforced(tab[p])
    BY <2>3, Zenon
  <2> QED BY <2>2, <2>3, <2>4
<1> QED BY <1>1, <1>2, <1>3 DEF TypeOK

\* The contest keeps its shape, phases are announced in order and coins granted once.
THEOREM ContestHolds ==
  ASSUME NoneIsNoFunction, SlowStaysInTheRound, StartStands, OneSelects
  PROVE  Spec => []ContestInv
<1>1. EngineInv /\ SeatInductive /\ ShelfOK /\ PaidOnce => ContestInv
  BY ShapesFollow DEF ContestInv, EngineInv, SaidInv
<1> QED BY <1>1, SeatsStand, ShelfStands, PaidHolds, PTL
=============================================================================
