----------------------------- MODULE MarketProofs -----------------------------
(***************************************************************************)
(* What holds of the marketplace for any number of participants,           *)
(* organisers, purchases, attacks, edits and lost or repeated requests.    *)
(***************************************************************************)
EXTENDS Market, FiniteSetTheorems, SequenceTheorems, NaturalsInduction, WellFoundedInduction, TLAPS

-----------------------------------------------------------------------------
(* What is inductive.                                                       *)

\* The rows are as their editors meant them; a blackout always has a duration.
RowsInv ==
  /\ DOMAIN item = Kinds /\ DOMAIN meant = Kinds \cup {"rules"}
  /\ \A k \in Kinds : IsRow(k, item[k]) /\ item[k] = meant[k]
  /\ IsRow("rules", rule) /\ rule = meant["rules"]
  /\ LastsWell("blackout", item["blackout"].seconds)

\* What a page sends is what was edited there.
SentOK(of, s) ==
  /\ s = [patch |-> s.patch, edits |-> s.edits, by |-> s.by, at |-> s.at]
  /\ IsPatch(of, s.patch) /\ s.patch = s.edits

FormOK(f) ==
  /\ f = [of |-> f.of, row |-> f.row, draft |-> f.draft, sent |-> f.sent]
  /\ f.of \in Kinds \cup {None, "rules"}
  /\ f.of = None => f = NoForm
  /\ f.of # None => /\ IsRow(f.of, f.row) /\ IsPatch(f.of, f.draft)
                    /\ f.sent # None => SentOK(f.of, f.sent)

FormsInv == DOMAIN form = Organisers /\ \A o \in Organisers : FormOK(form[o])

CatalogueInv == RowsInv /\ FormsInv

\* Each shield was spent or over when the next one started.
InTurn(rows) ==
  \A i \in 1..(Len(rows) - 1) :
    rows[i].absorbed \/ (rows[i].ends # None /\ rows[i].ends <= rows[i + 1].from)

ShieldRow == [from : Nat, absorbed : BOOLEAN, ends : {None} \cup Nat]
Holding == [held : [Kinds -> Nat], bought : [Kinds -> Nat], rows : Seq(ShieldRow)]
HoldingOK(h) == h \in Holding /\ InTurn(h.rows) /\ \A k \in Kinds : h.held[k] <= h.bought[k]

HolderInv == DOMAIN holder = People /\ \A p \in People : HoldingOK(holder[p])

\* A blackout that has not begun begins where the one before it ends.
Interval == [from : Nat, to : Nat]
EndToEnd(rows) ==
  /\ rows \in Seq(Interval)
  /\ \A i \in 1..Len(rows) : /\ rows[i].from < rows[i].to
                             /\ rows[i].from <= now \/ (i > 1 /\ rows[i].from = rows[i - 1].to)
  /\ \A i \in 1..(Len(rows) - 1) : rows[i].to <= rows[i + 1].from

DarkInv == now \in Nat /\ DOMAIN dark = People /\ \A p \in People : EndToEnd(dark[p])

\* Money, breaks, and what happened.
Break == [from : Nat, ends : {None} \cup Nat]
Event == [act : {"buy", "use", "blocked"}, kind : Kinds, actor : People, target : {None} \cup People,
          cost : Nat, id : Int, at : Nat]
EngineTypes ==
  /\ coins \in [People -> 0..Purse] /\ rest \in [People -> Seq(Break)] /\ log \in Seq(Event)
  /\ scan \subseteq People
  /\ contest = [phase |-> contest.phase, open |-> contest.open, out |-> contest.out]
  /\ contest.phase \in PhaseNames

\* Pages and the requests they send: a click is for oneself, or at somebody else.
RequestOK(r) ==
  /\ r = [by |-> r.by, act |-> r.act, kind |-> r.kind, target |-> r.target, id |-> r.id, at |-> r.at]
  /\ r.by \in People /\ r.kind \in Kinds /\ r.id \in Int
  /\ r.act \in {"buy", "use"} /\ (r.act = "use" => r.target \in People \ {r.by} /\ r.kind = "blackout")

PageOK(pg) ==
  /\ pg = [f \in {"view", "busy", "aiming", "loads"} |-> pg[f]]
  /\ pg.busy \in {None} \cup Kinds

LeftInv == {"buy", "use"} \subseteq DOMAIN left /\ left.buy \in Nat /\ left.use \in Nat
RequestsInv == \A r \in requests : RequestOK(r)
PagesInv == DOMAIN page = People /\ \A p \in People : PageOK(page[p])
WebInv == LeftInv /\ RequestsInv /\ PagesInv

\* The record: events are of one click each, and every row that came or went has one.
OfKind(events, p, k) == {i \in PurchasesOf(events, p) : events[i].kind = k}
OneEach == \A i, j \in DOMAIN log : log[i].actor = log[j].actor /\ log[i].id = log[j].id => i = j
Accounted(p) ==
    /\ coins[p] = Purse - Total(log, PurchasesOf(log, p))
    /\ \A k \in Kinds : holder[p].bought[k] = Cardinality(OfKind(log, p, k))
    /\ holder[p].held["blackout"] + Cardinality(UsedBy(p)) = holder[p].bought["blackout"]
    /\ holder[p].held["shield"] + Len(holder[p].rows) = holder[p].bought["shield"]
    /\ Len(dark[p]) = Cardinality(Received(p, "use"))
    /\ Cardinality({i \in DOMAIN holder[p].rows : holder[p].rows[i].absorbed}) = Cardinality(Received(p, "blocked"))
RecordInv == OneEach /\ \A p \in People : Accounted(p)

\* How long the breaks are, where the pause is not edited.
PauseStands == \A e \in RuleEdits : e.field # "pause"
BreaksDouble ==
  \A p \in People : \A i \in 1..Len(rest[p]) :
    rest[p][i].ends # None => rest[p][i].ends - rest[p][i].from = rule.pause * TwoTo(i - 1)
LeavesPause(f) ==
  f.of = "rules" => /\ "pause" \notin DOMAIN f.draft
                    /\ f.sent # None => "pause" \notin DOMAIN f.sent.patch
PauseInv == BreaksDouble /\ \A o \in Organisers : LeavesPause(form[o])

MarketInductive == CatalogueInv /\ HolderInv /\ DarkInv /\ EngineTypes /\ WebInv

-----------------------------------------------------------------------------
(* What is added up or doubled step by step.                                *)

\* Every nonempty set of natural numbers has a least element.
LEMMA LeastNat ==
  ASSUME NEW S \in SUBSET Nat, S # {}
  PROVE  \E x \in S : \A y \in S : x <= y
<1>1. PICK x \in S : \A y \in S : ~ (<<y, x>> \in OpToRel(<, Nat))
  <2> DEFINE R == OpToRel(<, Nat)
  <2>1. IsWellFoundedOn(R, Nat)
    BY NatLessThanWellFounded
  <2> HIDE DEF R
  <2>2. \E x \in S : \A y \in S : ~ (<<y, x>> \in R)
    BY <2>1, WFMin
  <2> QED BY <2>2 DEF R
<1>2. \A y \in S : ~ (y < x)
  BY <1>1 DEF OpToRel
<1> QED BY <1>2

\* f starts at `first`, and multiplies by a and adds w[n] at each step.
Recurs(f, n, first, a, w) == f[0] = first /\ \A m \in 1..n : f[m] = a * f[m - 1] + w[m]

\* There is such an f: the first n that has none would follow one that has.
LEMMA RecursionExists ==
  ASSUME NEW N \in Nat, NEW first \in Int, NEW a \in Int, NEW w \in [1..N -> Int]
  PROVE  \E f \in [0..N -> Int] : Recurs(f, N, first, a, w)
<1> DEFINE Has(n) == \E f \in [0..n -> Int] : Recurs(f, n, first, a, w)
           Bad == {n \in 0..N : ~Has(n)}
<1>1. Has(0)
  <2> DEFINE f == [m \in 0..0 |-> first]
  <2>1. f \in [0..0 -> Int] /\ f[0] = first
    OBVIOUS
  <2>2. Recurs(f, 0, first, a, w)
    BY <2>1 DEF Recurs
  <2> QED BY <2>1, <2>2
<1>2. ASSUME NEW n \in 1..N, Has(n - 1)
      PROVE  Has(n)
  <2>1. PICK f \in [0..(n - 1) -> Int] : Recurs(f, n - 1, first, a, w)
    BY <1>2
  <2> DEFINE next == a * f[n - 1] + w[n]
             g == [m \in 0..n |-> IF m = n THEN next ELSE f[m]]
  <2>2. next \in Int
    OBVIOUS
  <2> HIDE DEF next
  <2>3. g \in [0..n -> Int] /\ g[0] = f[0] /\ g[n] = next /\ \A m \in 0..(n - 1) : g[m] = f[m]
    BY <2>2
  <2> HIDE DEF g
  <2>4. ASSUME NEW m \in 1..n
        PROVE  g[m] = a * g[m - 1] + w[m]
    <3>1. CASE m = n
      BY <3>1, <2>3 DEF next
    <3>2. CASE m # n
      <4>1. m \in 1..(n - 1) /\ m - 1 \in 0..(n - 1) /\ m \in 0..(n - 1)
        BY <3>2
      <4>2. f[m] = a * f[m - 1] + w[m]
        BY <4>1, <2>1 DEF Recurs
      <4> QED BY <4>1, <4>2, <2>3
    <3> QED BY <3>1, <3>2
  <2>5. Recurs(g, n, first, a, w)
    BY <2>1, <2>3, <2>4 DEF Recurs
  <2> QED BY <2>3, <2>5
<1>3. ASSUME Bad # {}
      PROVE  FALSE
  <2> HIDE DEF Has
  <2>0. Bad \in SUBSET Nat
    OBVIOUS
  <2>1. PICK n \in Bad : \A m \in Bad : n <= m
    <3> HIDE DEF Bad
    <3> QED BY <2>0, <1>3, LeastNat
  <2>2. n # 0
    BY <1>1, <2>1
  <2>3. n - 1 \in 0..N /\ n \in 1..N /\ ~ (n <= n - 1)
    BY <2>1, <2>2
  <2>4. Has(n - 1)
    BY <2>1, <2>3
  <2> QED BY <1>2, <2>1, <2>3, <2>4
<1> QED BY <1>3

\* There is one such f.
LEMMA RecursionUnique ==
  ASSUME NEW N \in Nat, NEW first, NEW a, NEW w, NEW f, NEW g,
         Recurs(f, N, first, a, w), Recurs(g, N, first, a, w)
  PROVE  \A n \in 0..N : f[n] = g[n]
<1> DEFINE Bad == {n \in 0..N : f[n] # g[n]}
<1>1. ASSUME Bad # {}
      PROVE  FALSE
  <2>0. Bad \in SUBSET Nat
    OBVIOUS
  <2>1. PICK n \in Bad : \A m \in Bad : n <= m
    <3> HIDE DEF Bad
    <3> QED BY <2>0, <1>1, LeastNat
  <2>2. n # 0
    BY <2>1 DEF Recurs
  <2>3. n - 1 \in 0..N /\ n \in 1..N /\ ~ (n <= n - 1)
    BY <2>1, <2>2
  <2>4. f[n - 1] = g[n - 1]
    BY <2>1, <2>3
  <2>5. f[n] = a * f[n - 1] + w[n] /\ g[n] = a * g[n - 1] + w[n]
    BY <2>3 DEF Recurs
  <2> QED BY <2>1, <2>4, <2>5
<1> QED BY <1>1

\* Powers of two.
LEMMA TwoToIs ==
  ASSUME NEW n \in Nat
  PROVE  \E f \in [0..n -> Int] : Recurs(f, n, 1, 2, [m \in 1..n |-> 0]) /\ TwoTo(n) = f[n]
<1> DEFINE w == [m \in 1..n |-> 0]
           Step(f) == [m \in 0..n |-> IF m = 0 THEN 1 ELSE 2 * f[m - 1]]
<1>0. w \in [1..n -> Int]
  OBVIOUS
<1>1. PICK f \in [0..n -> Int] : Recurs(f, n, 1, 2, w)
  <2>1. 1 \in Int /\ 2 \in Int
    OBVIOUS
  <2> HIDE DEF w
  <2> QED BY <1>0, <2>1, RecursionExists, Zenon
<1>2. f = Step(f)
  BY <1>1 DEF Recurs
<1> DEFINE power == CHOOSE g : g = Step(g)
<1>3. power = Step(power)
  BY <1>2
<1>4. power[0] = 1 /\ \A m \in 1..n : power[m] = 2 * power[m - 1]
  <2> HIDE DEF power
  <2> QED BY <1>3
<1>5. \A m \in 0..n : power[m] = f[m]
  <2> DEFINE Bad == {m \in 0..n : power[m] # f[m]}
  <2> HIDE DEF power
  <2>1. ASSUME Bad # {}
        PROVE  FALSE
    <3>0. Bad \in SUBSET Nat
      OBVIOUS
    <3>1. PICK k \in Bad : \A m \in Bad : k <= m
      <4> HIDE DEF Bad
      <4> QED BY <3>0, <2>1, LeastNat
    <3>2. k # 0
      BY <3>1, <1>4, <1>1 DEF Recurs
    <3>3. k - 1 \in 0..n /\ k \in 1..n /\ ~ (k <= k - 1)
      BY <3>1, <3>2
    <3>4. power[k - 1] = f[k - 1]
      BY <3>1, <3>3
    <3>5. power[k] = 2 * power[k - 1] /\ f[k] = 2 * f[k - 1]
      BY <3>3, <1>4, <1>1 DEF Recurs
    <3> QED BY <3>1, <3>4, <3>5
  <2> QED BY <2>1
<1>6. TwoTo(n) = power[n]
  BY DEF TwoTo
<1> QED BY <1>1, <1>5, <1>6


LEMMA TwoToDoubles ==
  /\ TwoTo(0) = 1
  /\ \A n \in Nat : TwoTo(n) \in Int /\ TwoTo(n) > 0 /\ TwoTo(n + 1) = 2 * TwoTo(n)
<1>1. TwoTo(0) = 1
  <2>1. PICK f \in [0..0 -> Int] : Recurs(f, 0, 1, 2, [m \in 1..0 |-> 0]) /\ TwoTo(0) = f[0]
    BY TwoToIs
  <2> QED BY <2>1 DEF Recurs
<1>2. ASSUME NEW n \in Nat
      PROVE  TwoTo(n) \in Int /\ TwoTo(n + 1) = 2 * TwoTo(n)
  <2>1. PICK f \in [0..n -> Int] : Recurs(f, n, 1, 2, [m \in 1..n |-> 0]) /\ TwoTo(n) = f[n]
    BY TwoToIs
  <2>2. PICK g \in [0..(n + 1) -> Int] : Recurs(g, n + 1, 1, 2, [m \in 1..(n + 1) |-> 0]) /\ TwoTo(n + 1) = g[n + 1]
    BY TwoToIs
  <2> DEFINE w == [m \in 1..n |-> 0]
             v == [m \in 1..(n + 1) |-> 0]
  <2>3. Recurs(f, n, 1, 2, w)
    BY <2>1
  <2>4. g[0] = 1 /\ \A m \in 1..n : g[m] = 2 * g[m - 1] + w[m]
    <3>1. \A m \in 1..n : m \in 1..(n + 1) /\ v[m] = 0 /\ w[m] = 0
      OBVIOUS
    <3>2. g[0] = 1 /\ \A m \in 1..(n + 1) : g[m] = 2 * g[m - 1] + v[m]
      BY <2>2 DEF Recurs
    <3> HIDE DEF w, v
    <3> QED BY <3>1, <3>2
  <2>5. Recurs(g, n, 1, 2, w)
    BY <2>4 DEF Recurs
  <2>6. \A m \in 0..n : f[m] = g[m]
    <3> HIDE DEF w
    <3> QED BY <2>3, <2>5, RecursionUnique
  <2>7. f[n] = g[n] /\ f[n] \in Int
    BY <2>6
  <2>8. g[n + 1] = 2 * g[n]
    <3>1. n + 1 \in 1..(n + 1) /\ n + 1 - 1 = n /\ v[n + 1] = 0
      OBVIOUS
    <3>2. g[n + 1] = 2 * g[n + 1 - 1] + v[n + 1]
      BY <3>1, <2>2 DEF Recurs
    <3> HIDE DEF v
    <3>3. g[n] \in Int
      BY <2>7
    <3> QED BY <3>1, <3>2, <3>3
  <2> QED BY <2>1, <2>2, <2>7, <2>8
<1>3. \A n \in Nat : TwoTo(n) > 0
  <2> DEFINE Bad == {n \in Nat : ~ (TwoTo(n) > 0)}
  <2>0. Bad \in SUBSET Nat
    OBVIOUS
  <2>1. ASSUME Bad # {}
        PROVE  FALSE
    <3>1. PICK k \in Bad : \A m \in Bad : k <= m
      <4> HIDE DEF Bad
      <4> QED BY <2>0, <2>1, LeastNat
    <3>2. k # 0
      BY <3>1, <1>1
    <3>3. k - 1 \in Nat /\ k \in Nat /\ ~ (k <= k - 1) /\ k - 1 + 1 = k
      BY <3>1, <3>2
    <3>4. TwoTo(k - 1) > 0
      BY <3>1, <3>3
    <3>5. TwoTo(k) = 2 * TwoTo(k - 1) /\ TwoTo(k - 1) \in Int
      BY <3>3, <1>2
    <3> QED BY <3>1, <3>4, <3>5
  <2> QED BY <2>1
<1> QED BY <1>1, <1>2, <1>3

\* What each of the events i in S adds.
Added(events, S) == [n \in 1..Len(events) |-> IF n \in S THEN events[n].cost ELSE 0]

LEMMA TotalIs ==
  ASSUME NEW E, NEW events \in Seq(E), NEW S, \A i \in 1..Len(events) : events[i].cost \in Int
  PROVE  \E f \in [0..Len(events) -> Int] :
           Recurs(f, Len(events), 0, 1, Added(events, S)) /\ Total(events, S) = f[Len(events)]
<1> DEFINE n == Len(events)
           w == Added(events, S)
           Step(f) == [m \in 0..n |-> IF m = 0 THEN 0 ELSE f[m - 1] + (IF m \in S THEN events[m].cost ELSE 0)]
<1>0. n \in Nat /\ w \in [1..n -> Int] /\ \A m \in 1..n : w[m] = (IF m \in S THEN events[m].cost ELSE 0)
  <2>1. n \in Nat
    OBVIOUS
  <2>2. \A m \in 1..n : (IF m \in S THEN events[m].cost ELSE 0) \in Int
    OBVIOUS
  <2> HIDE DEF n
  <2> QED BY <2>1, <2>2 DEF Added, n
<1>1. PICK f \in [0..n -> Int] : Recurs(f, n, 0, 1, w)
  <2>1. 0 \in Int /\ 1 \in Int
    OBVIOUS
  <2> HIDE DEF w, n
  <2> QED BY <1>0, <2>1, RecursionExists, Zenon
<1>2. \A m \in 1..n : f[m] = f[m - 1] + (IF m \in S THEN events[m].cost ELSE 0)
  <2> TAKE m \in 1..n
  <2>1. f[m] = 1 * f[m - 1] + w[m]
    BY <1>1 DEF Recurs
  <2>2. f[m - 1] \in Int
    <3> HIDE DEF n
    <3>1. m - 1 \in 0..n
      BY <1>0
    <3> QED BY <3>1
  <2> HIDE DEF w, n
  <2> QED BY <1>0, <2>1, <2>2
<1>3. f = Step(f)
  <2>1. f[0] = 0
    BY <1>1 DEF Recurs
  <2> HIDE DEF n
  <2> QED BY <2>1, <1>0, <1>2
<1> DEFINE upTo == CHOOSE g : g = Step(g)
<1>4. upTo = Step(upTo)
  BY <1>3
<1>5. upTo[0] = 0 /\ \A m \in 1..n : upTo[m] = upTo[m - 1] + (IF m \in S THEN events[m].cost ELSE 0)
  <2> HIDE DEF upTo, n
  <2> QED BY <1>4, <1>0
<1>6. \A m \in 0..n : upTo[m] = f[m]
  <2> DEFINE Bad == {m \in 0..n : upTo[m] # f[m]}
  <2> HIDE DEF upTo
  <2>1. ASSUME Bad # {}
        PROVE  FALSE
    <3>0. Bad \in SUBSET Nat
      <4> HIDE DEF n
      <4> QED BY <1>0
    <3>1. PICK k \in Bad : \A m \in Bad : k <= m
      <4> HIDE DEF Bad
      <4> QED BY <3>0, <2>1, LeastNat
    <3> HIDE DEF n
    <3>2. k # 0
      BY <3>1, <1>5, <1>1 DEF Recurs
    <3>3. k - 1 \in 0..n /\ k \in 1..n /\ ~ (k <= k - 1)
      BY <3>1, <3>2, <1>0
    <3>4. upTo[k - 1] = f[k - 1]
      BY <3>1, <3>3
    <3>5. upTo[k] = f[k]
      BY <3>3, <3>4, <1>5, <1>2
    <3> QED BY <3>1, <3>5
  <2> QED BY <2>1
<1>7. Total(events, S) = upTo[n]
  BY DEF Total
<1>8. n \in 0..n
  <2> HIDE DEF n
  <2> QED BY <1>0
<1> HIDE DEF upTo, n
<1> QED BY <1>1, <1>6, <1>7, <1>8 DEF n

\* One more event adds what it cost, if it is one of them.
LEMMA TotalOfNext ==
  ASSUME NEW E, NEW events \in Seq(E), NEW e \in E, NEW S, NEW T,
         \A x \in E : x.cost \in Int, \A i \in 1..Len(events) : i \in S <=> i \in T
  PROVE  /\ Total(events, S) \in Int
         /\ Total(Append(events, e), T) = Total(events, S) + (IF Len(events) + 1 \in T THEN e.cost ELSE 0)
<1> DEFINE n == Len(events)
           more == Append(events, e)
           w == Added(events, S)
           v == Added(more, T)
<1>1. n \in Nat /\ more \in Seq(E) /\ Len(more) = n + 1 /\ more[n + 1] = e /\ \A i \in 1..n : more[i] = events[i]
  BY AppendProperties
<1>2. (\A i \in 1..n : events[i].cost \in Int) /\ (\A i \in 1..(n + 1) : more[i].cost \in Int)
  <2>1. \A i \in 1..n : events[i] \in E
    OBVIOUS
  <2> HIDE DEF n, more
  <2> QED BY <1>1, <2>1
<1>3. PICK f \in [0..n -> Int] : Recurs(f, n, 0, 1, w) /\ Total(events, S) = f[n]
  BY <1>2, TotalIs
<1>4. PICK g \in [0..(n + 1) -> Int] : Recurs(g, n + 1, 0, 1, v) /\ Total(more, T) = g[n + 1]
  <2> HIDE DEF more
  <2>1. \E g \in [0..Len(more) -> Int] : Recurs(g, Len(more), 0, 1, v) /\ Total(more, T) = g[Len(more)]
    BY <1>1, <1>2, TotalIs
  <2> QED BY <2>1, <1>1
<1> HIDE DEF n, more
<1>5. /\ \A i \in 1..n : w[i] = v[i]
      /\ v[n + 1] = IF n + 1 \in T THEN e.cost ELSE 0
  BY <1>1 DEF Added, n
<1> HIDE DEF w, v
<1>6. Recurs(g, n, 0, 1, w)
  <2>1. \A i \in 1..n : i \in 1..(n + 1)
    BY <1>1
  <2> QED BY <1>4, <1>5, <2>1 DEF Recurs
<1>7. \A i \in 0..n : f[i] = g[i]
  BY <1>1, <1>3, <1>6, RecursionUnique
<1>8. f[n] = g[n] /\ f[n] \in Int
  BY <1>1, <1>7
<1>9. g[n + 1] = 1 * g[n] + v[n + 1]
  <2>1. n + 1 \in 1..(n + 1) /\ n + 1 - 1 = n
    BY <1>1
  <2>2. \A m \in 1..(n + 1) : g[m] = 1 * g[m - 1] + v[m]
    BY <1>4 DEF Recurs
  <2>3. PICK m \in 1..(n + 1) : m = n + 1
    BY <2>1
  <2>4. m - 1 = n
    BY <2>3, <1>1
  <2>5. g[m] = 1 * g[m - 1] + v[m]
    BY <2>2
  <2> QED BY <2>3, <2>4, <2>5
<1>10. g[n + 1] = g[n] + (IF n + 1 \in T THEN e.cost ELSE 0)
  <2>1. (IF n + 1 \in T THEN e.cost ELSE 0) \in Int
    OBVIOUS
  <2> QED BY <1>5, <1>8, <1>9, <2>1
<1> QED BY <1>3, <1>4, <1>8, <1>10 DEF n, more

-----------------------------------------------------------------------------
(* Rows, drafts and patches.                                                *)

LEMMA OntoIsRow ==
  ASSUME NEW of, NEW r, NEW d, IsRow(of, r), IsPatch(of, d)
  PROVE  IsRow(of, Onto(r, d))
BY DEF IsRow, IsPatch, Onto

LEMMA EditedIsPatch ==
  ASSUME NEW of, NEW d, NEW f \in DOMAIN ValuesOf(of), NEW v \in ValuesOf(of)[f], IsPatch(of, d)
  PROVE  IsPatch(of, EditedTo(d, f, v))
BY DEF IsPatch, EditedTo

LEMMA EmptyIsPatch == \A of : IsPatch(of, << >>)
BY DEF IsPatch

\* The switches' patches.
LEMMA SwitchIsPatch ==
  ASSUME NEW b \in BOOLEAN
  PROVE  /\ IsPatch("rules", [absorbed |-> b])
         /\ \A of \in Kinds : IsPatch(of, [on |-> b])
<1>1. IsPatch("rules", [absorbed |-> b])
  <2>1. DOMAIN [absorbed |-> b] = {"absorbed"} /\ [absorbed |-> b]["absorbed"] = b
    OBVIOUS
  <2>2. ValuesOf("rules") = RuleValues /\ "absorbed" \in DOMAIN RuleValues /\ RuleValues["absorbed"] = BOOLEAN
    BY DEF ValuesOf, RuleValues
  <2> QED BY <2>1, <2>2 DEF IsPatch
<1>2. ASSUME NEW of \in Kinds
      PROVE  IsPatch(of, [on |-> b])
  <2>1. DOMAIN [on |-> b] = {"on"} /\ [on |-> b]["on"] = b
    OBVIOUS
  <2>2. ValuesOf(of) = FieldValues /\ "on" \in DOMAIN FieldValues /\ FieldValues["on"] = BOOLEAN
    BY DEF ValuesOf, FieldValues, Kinds
  <2> QED BY <2>1, <2>2 DEF IsPatch
<1> QED BY <1>1, <1>2

\* A blackout's duration is checked wherever it is edited.
LEMMA StillLastsWell ==
  ASSUME NEW r, NEW d, IsRow("blackout", r), LastsWell("blackout", r.seconds), Accepts("blackout", d)
  PROVE  LastsWell("blackout", Onto(r, d).seconds)
<1>1. "seconds" \in DOMAIN r
  BY DEF IsRow, ValuesOf, FieldValues
<1>2. Onto(r, d).seconds = IF "seconds" \in DOMAIN d THEN d["seconds"] ELSE r.seconds
  BY <1>1 DEF Onto
<1> QED BY <1>2 DEF Accepts, Kinds

-----------------------------------------------------------------------------
(* The organisers' forms.                                                   *)

LEMMA CatalogueStarts ==
  ASSUME NEW b \in Budgets, CatalogueInit(b.items, b.rules)
  PROVE  CatalogueInv
<1>0. "blackout" \in Kinds /\ "rules" \notin Kinds
  BY DEF Kinds
<1>1. RowsInv
  BY <1>0, MarketAssumption DEF CatalogueInit, RowsInv
<1>2. FormOK(NoForm)
  BY DEF FormOK, NoForm
<1>3. FormsInv
  BY <1>2 DEF FormsInv, CatalogueInit
<1> QED BY <1>1, <1>3 DEF CatalogueInv

\* The other forms stay as they are.
LEMMA OneFormChanges ==
  ASSUME CatalogueInv, NEW o \in Organisers, NEW g, FormOK(g),
         DOMAIN form' = DOMAIN form, form'[o] = g, \A x \in Organisers \ {o} : form'[x] = form[x],
         UNCHANGED <<item, rule, meant>>
  PROVE  CatalogueInv'
BY DEF CatalogueInv, RowsInv, FormsInv, FormOK, SentOK

LEMMA OpenFormKeeps ==
  ASSUME CatalogueInv, NEW o \in Organisers, NEW of \in Kinds \cup {"rules"}, OpenForm(o, of)
  PROVE  CatalogueInv'
<1> DEFINE g == [of |-> of, row |-> RowOf(of), draft |-> << >>, sent |-> None]
<1>1. DOMAIN form' = DOMAIN form /\ form'[o] = g /\ \A x \in Organisers \ {o} : form'[x] = form[x]
  <2>1. form'[o] = [NoForm EXCEPT !.of = of, !.row = RowOf(of)]
    BY DEF OpenForm, CatalogueInv, FormsInv
  <2>2. form'[o] = g
    BY <2>1 DEF NoForm
  <2> QED BY <2>2 DEF OpenForm, CatalogueInv, FormsInv
<1>2. IsRow(of, RowOf(of))
  BY DEF RowOf, CatalogueInv, RowsInv, Kinds
<1>3. FormOK(g)
  BY <1>2, EmptyIsPatch, CatalogueAssumption DEF FormOK
<1>4. UNCHANGED <<item, rule, meant>>
  BY DEF OpenForm
<1> HIDE DEF g
<1> QED BY <1>1, <1>3, <1>4, OneFormChanges

LEMMA EditKeeps ==
  ASSUME CatalogueInv, NEW o \in Organisers, NEW f, NEW v, Edit(o, f, v),
         f \in DOMAIN ValuesOf(form[o].of) /\ v \in ValuesOf(form[o].of)[f]
  PROVE  CatalogueInv'
<1> DEFINE h == form[o]
           g == [of |-> h.of, row |-> h.row, draft |-> EditedTo(h.draft, f, v), sent |-> h.sent]
<1>0. FormOK(h)
  BY DEF CatalogueInv, FormsInv
<1>1. h = [of |-> h.of, row |-> h.row, draft |-> h.draft, sent |-> h.sent]
  BY <1>0 DEF FormOK
<1>2. DOMAIN form' = DOMAIN form /\ form'[o] = g /\ \A x \in Organisers \ {o} : form'[x] = form[x]
  <2>1. form'[o] = [h EXCEPT !.draft = EditedTo(@, f, v)]
    BY DEF Edit, CatalogueInv, FormsInv
  <2> QED BY <1>1, <2>1 DEF Edit, CatalogueInv, FormsInv
<1>3. IsPatch(h.of, EditedTo(h.draft, f, v))
  BY <1>0, EditedIsPatch DEF FormOK, Edit
<1>4. FormOK(g)
  BY <1>0, <1>3 DEF FormOK, Edit
<1>5. UNCHANGED <<item, rule, meant>>
  BY DEF Edit
<1> HIDE DEF g
<1> QED BY <1>2, <1>4, <1>5, OneFormChanges

LEMMA DiscardKeeps ==
  ASSUME CatalogueInv, NEW o \in Organisers, Discard(o)
  PROVE  CatalogueInv'
<1> DEFINE h == form[o]
           g == [of |-> h.of, row |-> h.row, draft |-> << >>, sent |-> h.sent]
<1>0. FormOK(h)
  BY DEF CatalogueInv, FormsInv
<1>1. h = [of |-> h.of, row |-> h.row, draft |-> h.draft, sent |-> h.sent]
  BY <1>0 DEF FormOK
<1>2. DOMAIN form' = DOMAIN form /\ form'[o] = g /\ \A x \in Organisers \ {o} : form'[x] = form[x]
  <2>1. form'[o] = [h EXCEPT !.draft = << >>]
    BY DEF Discard, CatalogueInv, FormsInv
  <2> QED BY <1>1, <2>1 DEF Discard, CatalogueInv, FormsInv
<1>3. FormOK(g)
  BY <1>0, EmptyIsPatch DEF FormOK, NoForm
<1>4. UNCHANGED <<item, rule, meant>>
  BY DEF Discard
<1> HIDE DEF g
<1> QED BY <1>2, <1>3, <1>4, OneFormChanges

LEMMA SendKeeps ==
  ASSUME CatalogueInv, NEW o \in Organisers, NEW patch, NEW by, Send(o, patch, patch, by),
         form[o].of # None, IsPatch(form[o].of, patch)
  PROVE  CatalogueInv'
<1> DEFINE h == form[o]
           s == [patch |-> patch, edits |-> patch, by |-> by, at |-> "sent"]
           g == [of |-> h.of, row |-> h.row, draft |-> h.draft, sent |-> s]
<1>0. FormOK(h)
  BY DEF CatalogueInv, FormsInv
<1>1. h = [of |-> h.of, row |-> h.row, draft |-> h.draft, sent |-> h.sent]
  BY <1>0 DEF FormOK
<1>2. DOMAIN form' = DOMAIN form /\ form'[o] = g /\ \A x \in Organisers \ {o} : form'[x] = form[x]
  <2>1. form'[o] = [h EXCEPT !.sent = s]
    BY DEF Send, CatalogueInv, FormsInv
  <2> QED BY <1>1, <2>1 DEF Send, CatalogueInv, FormsInv
<1>3. FormOK(g)
  BY <1>0 DEF FormOK, SentOK
<1>4. UNCHANGED <<item, rule, meant>>
  BY DEF Send
<1> HIDE DEF g
<1> QED BY <1>2, <1>3, <1>4, OneFormChanges

LEMMA FlipKeeps ==
  ASSUME CatalogueInv, NEW o \in Organisers, Flip(o)
  PROVE  CatalogueInv'
<1> DEFINE h == form[o]
           on == Switched(o)
           s == [patch |-> on, edits |-> on, by |-> "flip", at |-> "sent"]
           g == [of |-> h.of, row |-> Onto(h.row, on), draft |-> h.draft, sent |-> s]
<1>0. FormOK(h)
  BY DEF CatalogueInv, FormsInv
<1>1. h = [of |-> h.of, row |-> h.row, draft |-> h.draft, sent |-> h.sent] /\ h.of = "rules" /\ h.of # None
  BY <1>0, CatalogueAssumption DEF FormOK, Flip
<1>2. DOMAIN form' = DOMAIN form /\ form'[o] = g /\ \A x \in Organisers \ {o} : form'[x] = form[x]
  <2>1. form'[o] = [h EXCEPT !.row = Onto(@, on), !.sent = s]
    BY DEF Flip, CatalogueInv, FormsInv
  <2> QED BY <1>1, <2>1 DEF Flip, CatalogueInv, FormsInv
<1>3. IsPatch("rules", on)
  <2>1. (~form[o].row.absorbed) \in BOOLEAN
    OBVIOUS
  <2> QED BY <2>1, SwitchIsPatch DEF Switched
<1>4. IsRow(h.of, Onto(h.row, on)) /\ IsPatch(h.of, on)
  BY <1>0, <1>1, <1>3, OntoIsRow DEF FormOK
<1>5. FormOK(g)
  <2> HIDE DEF on
  <2> QED BY <1>0, <1>1, <1>4 DEF FormOK, SentOK
<1>6. UNCHANGED <<item, rule, meant>>
  BY DEF Flip
<1> HIDE DEF g
<1> QED BY <1>2, <1>5, <1>6, OneFormChanges

LEMMA SaveAnsweredKeeps ==
  ASSUME CatalogueInv, NEW o \in Organisers, SaveAnswered(o)
  PROVE  CatalogueInv'
<1> DEFINE h == form[o]
           saved == h.sent.at = "saved"
           draft == IF saved /\ h.sent.by = "save" THEN << >> ELSE h.draft
           row == IF saved # (h.sent.by = "flip") THEN RowOf(h.of) ELSE h.row
           g == [of |-> h.of, row |-> row, draft |-> draft, sent |-> None]
<1>0. FormOK(h)
  BY DEF CatalogueInv, FormsInv
<1>1. h = [of |-> h.of, row |-> h.row, draft |-> h.draft, sent |-> h.sent] /\ h.of # None
  BY <1>0 DEF FormOK, NoForm, SaveAnswered
<1>2. DOMAIN form' = DOMAIN form /\ form'[o] = g /\ \A x \in Organisers \ {o} : form'[x] = form[x]
  <2>1. form'[o] = [h EXCEPT !.sent = None, !.draft = draft, !.row = row]
    BY DEF SaveAnswered, CatalogueInv, FormsInv
  <2> HIDE DEF draft, row
  <2> QED BY <1>1, <2>1 DEF SaveAnswered, CatalogueInv, FormsInv
<1>3. IsRow(h.of, row) /\ IsPatch(h.of, draft)
  <2>1. IsRow(h.of, RowOf(h.of))
    BY <1>0, <1>1 DEF FormOK, RowOf, CatalogueInv, RowsInv, Kinds
  <2> QED BY <1>0, <1>1, <2>1, EmptyIsPatch DEF FormOK
<1>4. FormOK(g)
  <2> HIDE DEF draft, row
  <2> QED BY <1>0, <1>1, <1>3 DEF FormOK
<1>5. UNCHANGED <<item, rule, meant>>
  BY DEF SaveAnswered
<1> HIDE DEF g
<1> QED BY <1>2, <1>4, <1>5, OneFormChanges

LEMMA SaveServedKeeps ==
  ASSUME CatalogueInv, NEW o \in Organisers, NEW lost, SaveServed(o, lost)
  PROVE  CatalogueInv'
<1> DEFINE h == form[o]
           of == h.of
           d == h.sent.patch
           ok == Accepts(of, d)
           at == IF ok /\ ~lost THEN "saved" ELSE "failed"
           s == [patch |-> d, edits |-> h.sent.edits, by |-> h.sent.by, at |-> at]
           g == [of |-> of, row |-> h.row, draft |-> h.draft, sent |-> s]
<1>0. FormOK(h)
  BY DEF CatalogueInv, FormsInv
<1>1. /\ h = [of |-> of, row |-> h.row, draft |-> h.draft, sent |-> h.sent]
      /\ of \in Kinds \cup {"rules"} /\ of # None /\ SentOK(of, h.sent)
  BY <1>0 DEF FormOK, NoForm, SaveServed
<1>2. h.sent = [patch |-> d, edits |-> h.sent.edits, by |-> h.sent.by, at |-> h.sent.at]
      /\ IsPatch(of, d) /\ d = h.sent.edits
  BY <1>1 DEF SentOK
<1>3. /\ item' = IF ok /\ of \in Kinds THEN [item EXCEPT ![of] = Onto(@, d)] ELSE item
      /\ rule' = IF ok /\ of = "rules" THEN Onto(rule, d) ELSE rule
      /\ meant' = IF ok THEN [meant EXCEPT ![of] = Onto(@, d)] ELSE meant
      /\ form' = [form EXCEPT ![o].sent.at = at]
  BY <1>2 DEF SaveServed
<1>4. DOMAIN form' = DOMAIN form /\ form'[o] = g /\ \A x \in Organisers \ {o} : form'[x] = form[x]
  <2>1. form'[o] = [h EXCEPT !.sent.at = at]
    BY <1>3 DEF CatalogueInv, FormsInv
  <2> HIDE DEF at
  <2>2. [h.sent EXCEPT !.at = at] = s
    BY <1>2
  <2>3. form'[o] = [h EXCEPT !.sent = s]
    BY <2>1, <2>2
  <2>4. form'[o] = g
    BY <2>3, <1>1
  <2> QED BY <2>4, <1>3 DEF CatalogueInv, FormsInv
<1>5. FormOK(g)
  <2>1. SentOK(of, s)
    <3> HIDE DEF at
    <3> QED BY <1>2 DEF SentOK
  <2> HIDE DEF s
  <2> QED BY <1>0, <1>1, <2>1 DEF FormOK
<1>6. FormsInv'
  <2> HIDE DEF g
  <2> QED BY <1>4, <1>5 DEF CatalogueInv, FormsInv
<1> HIDE DEF d, ok
<1>7. RowsInv'
  <2>1. CASE ~ok
    BY <2>1, <1>3 DEF CatalogueInv, RowsInv
  <2>2. CASE ok /\ of \in Kinds
    <3>1. of # "rules"
      BY <2>2 DEF Kinds
    <3>2. rule' = rule /\ DOMAIN item' = Kinds /\ DOMAIN meant' = Kinds \cup {"rules"} /\ meant'["rules"] = meant["rules"]
      BY <2>2, <3>1, <1>3 DEF CatalogueInv, RowsInv
    <3>3. item'[of] = Onto(item[of], d) /\ meant'[of] = Onto(meant[of], d)
      BY <2>2, <1>3 DEF CatalogueInv, RowsInv
    <3>4. \A k \in Kinds \ {of} : item'[k] = item[k] /\ meant'[k] = meant[k]
      BY <2>2, <1>3 DEF CatalogueInv, RowsInv
    <3>5. IsRow(of, item'[of]) /\ item'[of] = meant'[of]
      BY <2>2, <3>3, <1>2, OntoIsRow DEF CatalogueInv, RowsInv
    <3>6. LastsWell("blackout", item'["blackout"].seconds)
      <4>1. CASE of = "blackout"
        BY <4>1, <2>2, <3>3, StillLastsWell DEF CatalogueInv, RowsInv, ok
      <4>2. CASE of # "blackout"
        <5>1. item'["blackout"] = item["blackout"]
          BY <4>2, <3>4 DEF Kinds
        <5> QED BY <5>1 DEF CatalogueInv, RowsInv
      <4> QED BY <4>1, <4>2
    <3>7. \A k \in Kinds : IsRow(k, item'[k]) /\ item'[k] = meant'[k]
      BY <3>4, <3>5 DEF CatalogueInv, RowsInv
    <3> QED BY <3>2, <3>6, <3>7 DEF CatalogueInv, RowsInv
  <2>3. CASE ok /\ of = "rules"
    <3>1. of \notin Kinds
      BY <2>3 DEF Kinds
    <3>2. item' = item /\ DOMAIN meant' = Kinds \cup {"rules"} /\ meant'["rules"] = Onto(meant["rules"], d)
          /\ rule' = Onto(rule, d) /\ \A k \in Kinds : meant'[k] = meant[k]
      BY <2>3, <3>1, <1>3 DEF CatalogueInv, RowsInv
    <3>3. IsRow("rules", rule')
      BY <3>2, <2>3, <1>2, OntoIsRow DEF CatalogueInv, RowsInv
    <3> QED BY <3>2, <3>3 DEF CatalogueInv, RowsInv
  <2> QED BY <1>1, <2>1, <2>2, <2>3
<1> QED BY <1>6, <1>7 DEF CatalogueInv

LEMMA OrganiserKeepsCatalogue ==
  ASSUME CatalogueInv, NEW o \in Organisers, Organiser(o) \/ OrganiserServed(o)
  PROVE  CatalogueInv'
<1>0. FormOK(form[o])
  BY DEF CatalogueInv, FormsInv
<1>1. ASSUME NEW of \in Kinds \cup {"rules"}, OpenForm(o, of)
      PROVE  CatalogueInv'
  BY <1>1, OpenFormKeeps
<1>2. ASSUME TypedRow(o) \/ TypedNumber(o)
      PROVE  CatalogueInv'
  <2>1. ASSUME TypedRow(o)
        PROVE  CatalogueInv'
    <3>1. PICK e \in Edits : form[o].of = e.kind /\ Edit(o, e.field, e.value)
      BY <2>1 DEF TypedRow
    <3>2. e.field \in DOMAIN ValuesOf(e.kind) /\ e.value \in ValuesOf(e.kind)[e.field]
      <4>1. e.kind \in Kinds /\ e.field \in Fields /\ e.value \in FieldValues[e.field]
        BY CatalogueAssumption
      <4>2. ValuesOf(e.kind) = FieldValues /\ DOMAIN FieldValues = Fields
        BY <4>1 DEF ValuesOf, Kinds, FieldValues, Fields
      <4> QED BY <4>1, <4>2
    <3> QED BY <3>1, <3>2, EditKeeps
  <2>2. ASSUME TypedNumber(o)
        PROVE  CatalogueInv'
    <3>1. PICK e \in RuleEdits : form[o].of = "rules" /\ Edit(o, e.field, e.value)
      BY <2>2 DEF TypedNumber
    <3>2. e.field \in DOMAIN ValuesOf("rules") /\ e.value \in ValuesOf("rules")[e.field]
      BY CatalogueAssumption DEF ValuesOf
    <3> QED BY <3>1, <3>2, EditKeeps
  <2> QED BY <1>2, <2>1, <2>2
<1>3. ASSUME Discard(o)
      PROVE  CatalogueInv'
  BY <1>3, DiscardKeeps
<1>4. ASSUME Save(o) \/ SaveNumbers(o)
      PROVE  CatalogueInv'
  <2>1. form[o].of # None /\ Send(o, form[o].draft, form[o].draft, "save")
    BY <1>4, CatalogueAssumption DEF Save, SaveNumbers, Patch
  <2>2. IsPatch(form[o].of, form[o].draft)
    BY <1>0, <2>1 DEF FormOK
  <2> QED BY <2>1, <2>2, SendKeeps
<1>5. ASSUME PutOnSale(o)
      PROVE  CatalogueInv'
  <2>0. (~Shows(o, "on")) \in BOOLEAN
    OBVIOUS
  <2> DEFINE on == [on |-> ~Shows(o, "on")]
  <2>1. form[o].of # None /\ form[o].of \in Kinds /\ Send(o, on, on, "sale")
    BY <1>5, CatalogueAssumption DEF PutOnSale
  <2>2. IsPatch(form[o].of, on)
    BY <2>0, <2>1, SwitchIsPatch
  <2> HIDE DEF on
  <2> QED BY <2>1, <2>2, SendKeeps
<1>6. ASSUME Flip(o)
      PROVE  CatalogueInv'
  BY <1>6, FlipKeeps
<1>7. ASSUME SaveAnswered(o)
      PROVE  CatalogueInv'
  BY <1>7, SaveAnsweredKeeps
<1>8. ASSUME OrganiserServed(o)
      PROVE  CatalogueInv'
  BY <1>8, SaveServedKeeps DEF OrganiserServed
<1> QED BY <1>1, <1>2, <1>3, <1>4, <1>5, <1>6, <1>7, <1>8 DEF Organiser

-----------------------------------------------------------------------------
(* Shields.                                                                 *)

Absorbed(h) == {i \in DOMAIN h.rows : h.rows[i].absorbed}

\* What is neither bought nor lost as shields start: h becomes s.
SameStock(h, s) ==
  /\ s.bought = h.bought /\ s.held["blackout"] = h.held["blackout"]
  /\ s.held["shield"] + Len(s.rows) = h.held["shield"] + Len(h.rows)

LEMMA StartedIs ==
  ASSUME NEW h, HoldingOK(h), now \in Nat, Startable, CatalogueInv, ~UpOf(h), h.held["shield"] # 0
  PROVE  HoldingOK(Started(h)) /\ SameStock(h, Started(h)) /\ UpOf(Started(h)) /\ Absorbed(Started(h)) = Absorbed(h)
<1> DEFINE seconds == item["shield"].seconds
           ends == IF seconds = UntilAbsorbed THEN None ELSE now + seconds
           row == [from |-> now, absorbed |-> FALSE, ends |-> ends]
           s == Started(h)
           n == Len(h.rows)
<1>1. h \in Holding /\ h.rows \in Seq(ShieldRow) /\ n \in Nat
  BY DEF HoldingOK, Holding
<1>2. seconds \in Int /\ (seconds > 0 \/ seconds = UntilAbsorbed)
  <2>1. seconds \in {None} \cup Int /\ seconds # None
    BY DEF CatalogueInv, RowsInv, IsRow, IsPatch, ValuesOf, FieldValues, Kinds, Startable, LastsWell
  <2> QED BY <2>1 DEF Startable, LastsWell
<1>3. row \in ShieldRow /\ (ends = None \/ ends > now)
  <2>1. ends \in {None} \cup Nat /\ (ends = None \/ ends > now)
    BY <1>2 DEF UntilAbsorbed
  <2> HIDE DEF ends
  <2> QED BY <2>1 DEF ShieldRow
<1>4. s = [h EXCEPT !.held["shield"] = @ - 1, !.rows = Append(@, row)]
  BY DEF Started
<1> HIDE DEF row, seconds
<1>5. Append(h.rows, row) \in Seq(ShieldRow) /\ Len(Append(h.rows, row)) = n + 1
      /\ Append(h.rows, row)[n + 1] = row /\ \A i \in 1..n : Append(h.rows, row)[i] = h.rows[i]
  BY <1>1, <1>3, AppendProperties
<1>6. /\ s.rows = Append(h.rows, row) /\ s.bought = h.bought
      /\ s.held = [h.held EXCEPT !["shield"] = @ - 1]
      /\ DOMAIN s = {"held", "bought", "rows"}
      /\ s = [held |-> s.held, bought |-> s.bought, rows |-> s.rows]
  BY <1>1, <1>4 DEF Holding
<1> HIDE DEF s
<1>7. /\ h.held \in [Kinds -> Nat] /\ h.bought \in [Kinds -> Nat] /\ "shield" \in Kinds /\ "blackout" \in Kinds
      /\ \A k \in Kinds : h.held[k] <= h.bought[k]
  BY <1>1 DEF HoldingOK, Holding, Kinds
<1>8. /\ s.held \in [Kinds -> Nat] /\ s.held["shield"] = h.held["shield"] - 1
      /\ s.held["blackout"] = h.held["blackout"] /\ \A k \in Kinds : s.held[k] <= s.bought[k]
  <2>1. h.held["shield"] \in Nat \ {0}
    BY <1>7
  <2> QED BY <1>6, <1>7, <2>1
<1>9. s \in Holding
  BY <1>5, <1>6, <1>7, <1>8 DEF Holding
<1> HIDE DEF n
<1>10. InTurn(s.rows)
  <2> SUFFICES ASSUME NEW i \in 1..n
               PROVE  s.rows[i].absorbed \/ (s.rows[i].ends # None /\ s.rows[i].ends <= s.rows[i + 1].from)
    <3>1. Len(s.rows) - 1 = n
      BY <1>1, <1>5, <1>6
    <3> QED BY <3>1 DEF InTurn
  <2>1. CASE i < n
    <3>1. i \in 1..(n - 1) /\ i + 1 \in 1..n
      BY <2>1, <1>1
    <3>2. s.rows[i] = h.rows[i] /\ s.rows[i + 1] = h.rows[i + 1]
      BY <3>1, <1>5, <1>6
    <3> QED BY <3>1, <3>2 DEF HoldingOK, InTurn, n
  <2>2. CASE i = n
    <3>1. ~StillUp(h.rows[n])
      <4>1. h.rows # << >> /\ Last(h.rows) = h.rows[n]
        BY <2>2, <1>1 DEF Last, n
      <4> QED BY <4>1 DEF UpOf
    <3>2. h.rows[n] \in ShieldRow
      BY <2>2, <1>1 DEF n
    <3>3. h.rows[n].absorbed \/ (h.rows[n].ends # None /\ h.rows[n].ends <= now)
      BY <3>1, <3>2 DEF StillUp, ShieldRow
    <3>4. s.rows[i] = h.rows[n] /\ s.rows[i + 1].from = now
      BY <2>2, <1>1, <1>5, <1>6 DEF row
    <3> QED BY <3>3, <3>4
  <2> QED BY <1>1, <2>1, <2>2
<1>11. UpOf(s)
  <2>1. s.rows # << >> /\ Last(s.rows) = row
    BY <1>1, <1>5, <1>6 DEF Last
  <2>2. StillUp(row)
    BY <1>3 DEF row, StillUp
  <2> QED BY <2>1, <2>2 DEF UpOf
<1>12. Absorbed(s) = Absorbed(h)
  <2>1. DOMAIN s.rows = 1..(n + 1) /\ DOMAIN h.rows = 1..n
    BY <1>1, <1>5, <1>6 DEF n
  <2>2. s.rows[n + 1].absorbed = FALSE /\ \A i \in 1..n : s.rows[i] = h.rows[i]
    <3>1. row.absorbed = FALSE
      BY DEF row
    <3> QED BY <3>1, <1>5, <1>6
  <2> QED BY <1>1, <2>1, <2>2 DEF Absorbed
<1>13. SameStock(h, s)
  <2>1. Len(s.rows) = n + 1 /\ h.held["shield"] \in Nat
    BY <1>5, <1>6, <1>7
  <2> QED BY <1>1, <1>6, <1>8, <2>1 DEF SameStock, n
<1>14. HoldingOK(s)
  BY <1>8, <1>9, <1>10 DEF HoldingOK
<1> QED BY <1>11, <1>12, <1>13, <1>14 DEF s

LEMMA SettleIs ==
  ASSUME NEW h, HoldingOK(h), now \in Nat, CatalogueInv
  PROVE  /\ HoldingOK(Settle(h)) /\ SameStock(h, Settle(h)) /\ Absorbed(Settle(h)) = Absorbed(h)
         /\ UpOf(Settle(h)) \/ ((h.held["shield"] = 0 \/ ~Startable) /\ ~UpOf(h))
<1>1. SameStock(h, h)
  BY DEF SameStock
<1>2. CASE UpOf(h) \/ h.held["shield"] = 0 \/ ~Startable
  <2>1. Settle(h) = h
    BY <1>2 DEF Settle
  <2> QED BY <1>1, <1>2, <2>1
<1>3. CASE ~(UpOf(h) \/ h.held["shield"] = 0 \/ ~Startable)
  <2>1. Settle(h) = Started(h)
    BY <1>3 DEF Settle
  <2> QED BY <1>3, <2>1, StartedIs
<1> QED BY <1>2, <1>3

\* An attack that finds a shield up, or one to put up, spends it.
LEMMA AbsorbIs ==
  ASSUME NEW h, HoldingOK(h), now \in Nat, CatalogueInv
  PROVE  /\ HoldingOK(Absorb(h)) /\ SameStock(h, Absorb(h))
         /\ ~UpOf(Faced(h)) => Absorbed(Absorb(h)) = Absorbed(h)
         /\ UpOf(Faced(h)) => \E i \in Nat \ Absorbed(h) : Absorbed(Absorb(h)) = Absorbed(h) \cup {i}
<1> DEFINE f == Faced(h)
           n == Len(f.rows)
           g == [f EXCEPT !.rows[n].absorbed = TRUE]
<1>1. HoldingOK(f) /\ SameStock(h, f) /\ Absorbed(f) = Absorbed(h)
  BY SettleIs DEF Faced
<1>2. CASE ~UpOf(f)
  <2>1. Absorb(h) = f
    BY <1>2 DEF Absorb
  <2> HIDE DEF f
  <2> QED BY <1>1, <1>2, <2>1 DEF f
<1>3. CASE UpOf(f)
  <2>1. Absorb(h) = Settle(g)
    BY <1>3 DEF Absorb
  <2> HIDE DEF f
  <2>2. f \in Holding /\ f.rows \in Seq(ShieldRow) /\ n \in Nat /\ DOMAIN f.rows = 1..n
        /\ f = [held |-> f.held, bought |-> f.bought, rows |-> f.rows]
    BY <1>1 DEF HoldingOK, Holding
  <2>3. n \in 1..n /\ ~f.rows[n].absorbed
    <3>1. f.rows # << >> /\ StillUp(Last(f.rows))
      BY <1>3 DEF UpOf
    <3>2. n # 0
      BY <3>1, <2>2
    <3> QED BY <3>1, <3>2, <2>2 DEF Last, StillUp
  <2> DEFINE last == [f.rows[n] EXCEPT !.absorbed = TRUE]
             rows == [f.rows EXCEPT ![n] = last]
  <2>4. last \in ShieldRow /\ last.absorbed /\ last.from = f.rows[n].from
    <3>1. f.rows[n] \in ShieldRow
      BY <2>2, <2>3
    <3> QED BY <3>1 DEF ShieldRow
  <2>5. rows \in Seq(ShieldRow) /\ Len(rows) = n /\ DOMAIN rows = 1..n /\ rows[n] = last
        /\ \A i \in (1..n) \ {n} : rows[i] = f.rows[i]
    <3> HIDE DEF last, n
    <3> QED BY <2>2, <2>3, <2>4, ExceptSeq DEF n
  <2>6. g.rows = rows /\ g.held = f.held /\ g.bought = f.bought /\ g = [held |-> g.held, bought |-> g.bought, rows |-> g.rows]
    <3>1. [f.rows EXCEPT ![n].absorbed = TRUE] = rows
      <4> HIDE DEF n
      <4> QED BY DEF last, rows
    <3>2. g = [f EXCEPT !.rows = [f.rows EXCEPT ![n].absorbed = TRUE]]
      <4> HIDE DEF n
      <4> QED BY <2>2
    <3> HIDE DEF rows, g
    <3>3. g = [f EXCEPT !.rows = rows]
      BY <3>1, <3>2
    <3> QED BY <2>2, <3>3
  <2> HIDE DEF g, rows, last
  <2>7. g \in Holding
    <3>1. f.held \in [Kinds -> Nat] /\ f.bought \in [Kinds -> Nat]
      BY <2>2 DEF Holding
    <3> QED BY <2>5, <2>6, <3>1 DEF Holding
  <2> HIDE DEF n
  <2>8. InTurn(g.rows)
    <3> SUFFICES ASSUME NEW i \in 1..(n - 1)
                 PROVE  rows[i].absorbed \/ (rows[i].ends # None /\ rows[i].ends <= rows[i + 1].from)
      BY <2>5, <2>6 DEF InTurn
    <3>1. i \in (1..n) \ {n} /\ i + 1 \in 1..n
      BY <2>2
    <3>2. rows[i] = f.rows[i] /\ rows[i + 1].from = f.rows[i + 1].from
      BY <3>1, <2>4, <2>5
    <3> QED BY <1>1, <3>2 DEF HoldingOK, InTurn, n
  <2>9. HoldingOK(g)
    BY <1>1, <2>6, <2>7, <2>8 DEF HoldingOK
  <2>10. SameStock(f, g)
    BY <2>5, <2>6 DEF SameStock, n
  <2>11. Absorbed(g) = Absorbed(f) \cup {n} /\ n \notin Absorbed(f)
    BY <2>2, <2>3, <2>4, <2>5, <2>6 DEF Absorbed
  <2>12. HoldingOK(Settle(g)) /\ SameStock(g, Settle(g)) /\ Absorbed(Settle(g)) = Absorbed(g)
    BY <2>9, SettleIs
  <2>13. SameStock(h, Settle(g))
    BY <1>1, <2>10, <2>12 DEF SameStock
  <2>14. n \in Nat \ Absorbed(h) /\ Absorbed(Settle(g)) = Absorbed(h) \cup {n}
    BY <1>1, <2>2, <2>11, <2>12
  <2> QED BY <1>3, <2>1, <2>12, <2>13, <2>14 DEF f
<1> QED BY <1>2, <1>3

-----------------------------------------------------------------------------
(* Blackouts.                                                               *)

LEMMA StackedIs ==
  ASSUME NEW rows, EndToEnd(rows), now \in Nat, NEW seconds \in Int, seconds > 0
  PROVE  EndToEnd(Stacked(rows, seconds)) /\ Len(Stacked(rows, seconds)) = Len(rows) + 1
<1> DEFINE n == Len(rows)
           from == IF Running(rows) = {} THEN now ELSE Last(rows).to
           one == [from |-> from, to |-> from + seconds]
           more == Append(rows, one)
<1>1. rows \in Seq(Interval) /\ n \in Nat /\ DOMAIN rows = 1..n /\ \A i \in 1..n : rows[i].from \in Nat /\ rows[i].to \in Nat
  <2>1. rows \in Seq(Interval)
    BY DEF EndToEnd
  <2>2. \A i \in 1..n : rows[i] \in Interval
    BY <2>1
  <2> QED BY <2>1, <2>2 DEF Interval
<1>3. /\ from \in Nat
      /\ (from = now \/ (n > 0 /\ from = rows[n].to))
      /\ (n > 0 => rows[n].to <= from)
  <2>1. CASE Running(rows) = {}
    <3>1. n > 0 => n \in DOMAIN rows
      BY <1>1
    <3>2. n > 0 => ~ (rows[n].to > now)
      BY <2>1, <3>1 DEF Running
    <3> QED BY <1>1, <2>1, <3>1, <3>2
  <2>2. CASE Running(rows) # {}
    <3>1. n > 0
      BY <1>1, <2>2 DEF Running
    <3>2. n \in 1..n /\ Last(rows) = rows[n]
      BY <1>1, <3>1 DEF Last
    <3> QED BY <1>1, <2>2, <3>1, <3>2
  <2> QED BY <2>1, <2>2
<1> HIDE DEF from, n
<1>4. one \in Interval /\ one.from = from /\ one.to = from + seconds /\ one.from < one.to
  BY <1>3 DEF Interval
<1> HIDE DEF one
<1>5. more \in Seq(Interval) /\ Len(more) = n + 1 /\ more[n + 1] = one /\ \A i \in 1..n : more[i] = rows[i]
  BY <1>1, <1>4, AppendProperties DEF n
<1> HIDE DEF more
<1>6. ASSUME NEW i \in 1..Len(more)
      PROVE  /\ more[i].from < more[i].to
             /\ more[i].from <= now \/ (i > 1 /\ more[i].from = more[i - 1].to)
  <2>1. CASE i = n + 1
    <3>1. more[i].from = from /\ more[i].from < more[i].to
      BY <2>1, <1>4, <1>5
    <3>2. n > 0 => i > 1 /\ more[i - 1] = rows[n]
      <4>1. n > 0 => n \in 1..n /\ i - 1 = n /\ i > 1
        BY <2>1, <1>1
      <4> QED BY <4>1, <1>5
    <3> QED BY <3>1, <3>2, <1>3, <1>4
  <2>2. CASE i # n + 1
    <3>1. i \in 1..n /\ (i > 1 => i - 1 \in 1..n)
      BY <2>2, <1>1, <1>5
    <3>2. more[i] = rows[i] /\ (i > 1 => more[i - 1] = rows[i - 1])
      BY <3>1, <1>5
    <3> QED BY <3>1, <3>2 DEF EndToEnd, n
  <2> QED BY <2>1, <2>2
<1>7. ASSUME NEW i \in 1..(Len(more) - 1)
      PROVE  more[i].to <= more[i + 1].from
  <2>0. i \in 1..n
    BY <1>1, <1>5
  <2>1. CASE i = n
    <3>1. more[i] = rows[n] /\ more[i + 1] = one /\ n > 0
      BY <2>0, <2>1, <1>5
    <3> QED BY <3>1, <1>3, <1>4
  <2>2. CASE i # n
    <3>1. i \in 1..(n - 1) /\ i + 1 \in 1..n
      BY <2>0, <2>2, <1>1
    <3>2. more[i] = rows[i] /\ more[i + 1] = rows[i + 1]
      BY <3>1, <2>0, <1>5
    <3> QED BY <3>1, <3>2 DEF EndToEnd, n
  <2> QED BY <2>1, <2>2
<1>8. EndToEnd(more)
  BY <1>5, <1>6, <1>7 DEF EndToEnd
<1>9. Stacked(rows, seconds) = more
  BY DEF Stacked, more, one, from
<1> QED BY <1>5, <1>8, <1>9 DEF n

\* While any blackout is still to end, one has begun and not ended.
LEMMA OneRuns ==
  ASSUME NEW rows, EndToEnd(rows), now \in Nat, Running(rows) # {}
  PROVE  \E i \in DOMAIN rows : rows[i].from <= now /\ now < rows[i].to
<1>1. /\ rows \in Seq(Interval) /\ DOMAIN rows = 1..Len(rows) /\ Len(rows) \in Nat
      /\ \A i \in 1..Len(rows) : rows[i].from \in Nat /\ rows[i].to \in Nat
  <2>1. rows \in Seq(Interval)
    BY DEF EndToEnd
  <2>2. \A i \in 1..Len(rows) : rows[i] \in Interval
    BY <2>1
  <2> QED BY <2>1, <2>2 DEF Interval
<1>2. Running(rows) \in SUBSET Nat
  BY <1>1 DEF Running
<1>3. PICK i \in Running(rows) : \A j \in Running(rows) : i <= j
  BY <1>2, LeastNat
<1>4. i \in 1..Len(rows) /\ rows[i].to > now
  BY <1>1, <1>3 DEF Running
<1>5. ASSUME ~ (rows[i].from <= now)
      PROVE  FALSE
  <2>1. i > 1 /\ rows[i].from = rows[i - 1].to
    BY <1>4, <1>5 DEF EndToEnd
  <2>2. i - 1 \in 1..Len(rows) /\ ~ (i <= i - 1)
    BY <1>1, <1>4, <2>1
  <2>3. i - 1 \in Running(rows)
    BY <1>1, <1>4, <1>5, <2>1, <2>2 DEF Running
  <2> QED BY <1>3, <2>2, <2>3
<1> QED BY <1>1, <1>4, <1>5

LEMMA TickKeepsDark ==
  ASSUME DarkInv, now' = now + 1, dark' = dark
  PROVE  DarkInv'
<1>1. ASSUME NEW p \in People
      PROVE  EndToEnd(dark[p])'
  <2>1. EndToEnd(dark[p]) /\ now \in Nat
    BY DEF DarkInv
  <2>2. \A i \in 1..Len(dark[p]) : dark[p][i].from \in Nat
    <3>1. \A i \in 1..Len(dark[p]) : dark[p][i] \in Interval
      BY <2>1 DEF EndToEnd
    <3> QED BY <3>1 DEF Interval
  <2>3. \A i \in 1..Len(dark[p]) : dark[p][i].from <= now => dark[p][i].from <= now + 1
    BY <2>1, <2>2
  <2> QED BY <2>1, <2>3 DEF EndToEnd
<1> QED BY <1>1 DEF DarkInv

-----------------------------------------------------------------------------
(* Buying, using, and what follows an attack.                               *)

\* One more of k, and the next shield starts.
LEMMA BoughtIs ==
  ASSUME NEW h, HoldingOK(h), NEW k \in Kinds, now \in Nat, CatalogueInv
  PROVE  LET s == Bought(h, k) IN
         /\ HoldingOK(s) /\ Absorbed(s) = Absorbed(h)
         /\ \A x \in Kinds : s.bought[x] = h.bought[x] + (IF x = k THEN 1 ELSE 0)
         /\ s.held["blackout"] = h.held["blackout"] + (IF k = "blackout" THEN 1 ELSE 0)
         /\ s.held["shield"] + Len(s.rows) = h.held["shield"] + Len(h.rows) + (IF k = "shield" THEN 1 ELSE 0)
<1> DEFINE held == [h.held EXCEPT ![k] = @ + 1]
           bought == [h.bought EXCEPT ![k] = @ + 1]
           g == [h EXCEPT !.held[k] = @ + 1, !.bought[k] = @ + 1]
<1>0. "blackout" \in Kinds /\ "shield" \in Kinds /\ "blackout" # "shield"
  BY DEF Kinds
<1>1. /\ h.held \in [Kinds -> Nat] /\ h.bought \in [Kinds -> Nat] /\ h.rows \in Seq(ShieldRow)
      /\ h = [held |-> h.held, bought |-> h.bought, rows |-> h.rows] /\ InTurn(h.rows)
      /\ \A x \in Kinds : h.held[x] <= h.bought[x]
  BY DEF HoldingOK, Holding
<1>2. /\ held \in [Kinds -> Nat] /\ bought \in [Kinds -> Nat]
      /\ \A x \in Kinds : held[x] = h.held[x] + (IF x = k THEN 1 ELSE 0)
      /\ \A x \in Kinds : bought[x] = h.bought[x] + (IF x = k THEN 1 ELSE 0)
  BY <1>1
<1>3. g = [held |-> held, bought |-> bought, rows |-> h.rows]
  <2>1. g = [h EXCEPT !.held = held, !.bought = bought]
    BY <1>1
  <2> HIDE DEF g, held, bought
  <2> QED BY <1>1, <2>1
<1> HIDE DEF g, held, bought
<1>4. g.held = held /\ g.bought = bought /\ g.rows = h.rows
  BY <1>3
<1>5. HoldingOK(g) /\ Absorbed(g) = Absorbed(h)
  <2>1. g \in Holding
    BY <1>1, <1>2, <1>3 DEF Holding
  <2>2. \A x \in Kinds : g.held[x] <= g.bought[x]
    <3> TAKE x \in Kinds
    <3>1. h.held[x] \in Nat /\ h.bought[x] \in Nat /\ h.held[x] <= h.bought[x]
      BY <1>1
    <3> QED BY <1>2, <1>4, <3>1
  <2> QED BY <1>1, <1>4, <2>1, <2>2 DEF HoldingOK, Absorbed
<1>6. /\ g.held["blackout"] = h.held["blackout"] + (IF k = "blackout" THEN 1 ELSE 0)
      /\ g.held["shield"] + Len(g.rows) = h.held["shield"] + Len(h.rows) + (IF k = "shield" THEN 1 ELSE 0)
  <2>1. h.held["shield"] \in Nat /\ Len(h.rows) \in Nat
    BY <1>0, <1>1
  <2> QED BY <1>0, <1>2, <1>4, <2>1
<1>7. CASE k = "shield"
  <2>1. Bought(h, k) = Settle(g)
    BY <1>7 DEF Bought, g
  <2>2. HoldingOK(Settle(g)) /\ SameStock(g, Settle(g)) /\ Absorbed(Settle(g)) = Absorbed(g)
    BY <1>5, SettleIs
  <2> QED BY <1>2, <1>4, <1>5, <1>6, <2>1, <2>2 DEF SameStock
<1>8. CASE k # "shield"
  <2>1. Bought(h, k) = g
    BY <1>8 DEF Bought, g
  <2> QED BY <1>2, <1>4, <1>5, <1>6, <2>1
<1> QED BY <1>7, <1>8

\* One fewer blackout.
LEMMA UsedIs ==
  ASSUME NEW h, HoldingOK(h), h.held["blackout"] # 0
  PROVE  LET s == [h EXCEPT !.held["blackout"] = @ - 1] IN
         /\ HoldingOK(s) /\ s.bought = h.bought /\ s.rows = h.rows
         /\ s.held["blackout"] = h.held["blackout"] - 1 /\ s.held["shield"] = h.held["shield"]
<1> DEFINE held == [h.held EXCEPT !["blackout"] = @ - 1]
           g == [h EXCEPT !.held["blackout"] = @ - 1]
<1>0. "blackout" \in Kinds /\ "shield" \in Kinds /\ "blackout" # "shield"
  BY DEF Kinds
<1>1. /\ h.held \in [Kinds -> Nat] /\ h.bought \in [Kinds -> Nat] /\ h.rows \in Seq(ShieldRow)
      /\ h = [held |-> h.held, bought |-> h.bought, rows |-> h.rows] /\ InTurn(h.rows)
      /\ \A x \in Kinds : h.held[x] <= h.bought[x]
  BY DEF HoldingOK, Holding
<1>2. /\ held \in [Kinds -> Nat] /\ held["blackout"] = h.held["blackout"] - 1 /\ held["shield"] = h.held["shield"]
      /\ \A x \in Kinds : held[x] <= h.bought[x]
  <2>1. h.held["blackout"] \in Nat \ {0}
    BY <1>0, <1>1
  <2>2. \A x \in Kinds : h.held[x] \in Nat /\ h.bought[x] \in Nat
    BY <1>1
  <2> QED BY <1>0, <1>1, <2>1, <2>2
<1>3. g = [held |-> held, bought |-> h.bought, rows |-> h.rows]
  <2>1. g = [h EXCEPT !.held = held]
    BY <1>1
  <2> HIDE DEF g, held
  <2> QED BY <1>1, <2>1
<1> HIDE DEF g, held
<1>4. g.held = held /\ g.bought = h.bought /\ g.rows = h.rows
  BY <1>3
<1>5. HoldingOK(g)
  <2>1. g \in Holding
    BY <1>1, <1>2, <1>3 DEF Holding
  <2> QED BY <1>1, <1>2, <1>4, <2>1 DEF HoldingOK
<1> QED BY <1>2, <1>4, <1>5 DEF g

LEMMA PauseIs == CatalogueInv => rule.pause \in Nat /\ rule.cap \in Nat
BY DEF CatalogueInv, RowsInv, IsRow, IsPatch, ValuesOf, RuleValues

\* A break, if it comes, is one more.
LEMMA RestedIs ==
  ASSUME CatalogueInv, now \in Nat, rest \in [People -> Seq(Break)], NEW t \in People, NEW absorbed
  PROVE  /\ Rested(t, absorbed) \in [People -> Seq(Break)]
         /\ Doubled(t) \in Nat
         /\ \A p \in People \ {t} : Rested(t, absorbed)[p] = rest[p]
         /\ \/ Rested(t, absorbed)[t] = rest[t]
            \/ Rested(t, absorbed)[t] = Append(rest[t], [from |-> now, ends |-> IF rule.forever THEN None ELSE now + Doubled(t)])
<1>1. Doubled(t) \in Nat
  <2>1. Len(rest[t]) \in Nat
    OBVIOUS
  <2>2. TwoTo(Len(rest[t])) \in Int /\ TwoTo(Len(rest[t])) > 0
    BY <2>1, TwoToDoubles
  <2>3. \A a \in Nat, b \in Int : b > 0 => a * b \in Nat
    OBVIOUS
  <2> QED BY <2>2, <2>3, PauseIs DEF Doubled
<1> DEFINE one == [from |-> now, ends |-> IF rule.forever THEN None ELSE now + Doubled(t)]
<1>2. one \in Break
  BY <1>1 DEF Break
<1>3. Rested(t, absorbed) = rest \/ Rested(t, absorbed) = [rest EXCEPT ![t] = Append(@, one)]
  BY DEF Rested
<1> HIDE DEF one
<1>4. Append(rest[t], one) \in Seq(Break)
  BY <1>2
<1>5. [rest EXCEPT ![t] = Append(@, one)] \in [People -> Seq(Break)]
  BY <1>4
<1> QED BY <1>1, <1>3, <1>4, <1>5 DEF one

-----------------------------------------------------------------------------
(* The engine's transactions.                                               *)

LEMMA PricesAre ==
  ASSUME CatalogueInv
  PROVE  /\ \A k \in Kinds : item[k].price \in Nat
         /\ item["blackout"].seconds \in Int /\ item["blackout"].seconds > 0
<1>1. \A k \in Kinds : item[k].price \in Nat /\ item[k].seconds \in {None} \cup Int
  BY DEF CatalogueInv, RowsInv, IsRow, IsPatch, ValuesOf, FieldValues, Kinds
<1>2. "blackout" \in Kinds /\ "blackout" # "shield"
  BY DEF Kinds
<1>3. LastsWell("blackout", item["blackout"].seconds)
  BY DEF CatalogueInv, RowsInv
<1> QED BY <1>1, <1>2, <1>3 DEF LastsWell

LEMMA DarkMoves ==
  ASSUME DarkInv, now' = now, DOMAIN dark' = People, \A p \in People : EndToEnd(dark'[p])
  PROVE  DarkInv'
BY DEF DarkInv, EndToEnd

LEMMA EngineStays ==
  ASSUME HolderInv, DarkInv, EngineTypes, UNCHANGED <<now, coins, holder, dark, rest, log, contest>>, scan' \subseteq People
  PROVE  HolderInv' /\ DarkInv' /\ EngineTypes'
<1>1. HolderInv'
  BY DEF HolderInv
<1>2. DarkInv'
  BY DEF DarkInv, EndToEnd
<1>3. EngineTypes'
  BY DEF EngineTypes
<1> QED BY <1>1, <1>2, <1>3

LEMMA BuysKeeps ==
  ASSUME CatalogueInv, HolderInv, DarkInv, EngineTypes, NEW r, RequestOK(r), r.act = "buy",
         ~BuyRefused(r.by, r.kind), Buys(r), UNCHANGED <<now, contest, scan>>
  PROVE  HolderInv' /\ DarkInv' /\ EngineTypes'
<1>1. r.by \in People /\ r.kind \in Kinds /\ r.id \in Int /\ now \in Nat /\ item[r.kind].price \in Nat
  BY PricesAre DEF RequestOK, DarkInv
<1>2. HolderInv'
  <2>1. HoldingOK(Bought(holder[r.by], r.kind))
    BY <1>1, BoughtIs DEF HolderInv
  <2>2. holder' = [holder EXCEPT ![r.by] = Bought(@, r.kind)]
    BY DEF Buys
  <2> QED BY <1>1, <2>1, <2>2 DEF HolderInv
<1>3. DarkInv'
  BY DarkMoves DEF Buys, DarkInv
<1>4. coins' \in [People -> 0..Purse]
  <2>1. coins[r.by] \in 0..Purse /\ ~ (item[r.kind].price > coins[r.by])
    BY <1>1 DEF EngineTypes, BuyRefused
  <2>2. Purse \in Nat
    BY MarketAssumption
  <2>3. coins[r.by] - item[r.kind].price \in 0..Purse
    BY <1>1, <2>1, <2>2
  <2>4. coins' = [coins EXCEPT ![r.by] = @ - item[r.kind].price]
    BY DEF Buys
  <2> QED BY <1>1, <2>3, <2>4 DEF EngineTypes
<1>5. log' \in Seq(Event)
  <2> DEFINE e == [act |-> "buy", kind |-> r.kind, actor |-> r.by, target |-> None,
                   cost |-> item[r.kind].price, id |-> r.id, at |-> now]
  <2>1. e \in Event
    BY <1>1 DEF Event
  <2>2. log' = Append(log, e)
    BY DEF Buys
  <2> HIDE DEF e
  <2> QED BY <2>1, <2>2 DEF EngineTypes
<1>6. EngineTypes'
  BY <1>4, <1>5 DEF EngineTypes, Buys
<1> QED BY <1>2, <1>3, <1>6

LEMMA UsesKeeps ==
  ASSUME CatalogueInv, HolderInv, DarkInv, EngineTypes, NEW r, RequestOK(r), r.act = "use",
         ~UseRefused(r.by, r.target), Uses(r), UNCHANGED <<now, contest, scan>>
  PROVE  HolderInv' /\ DarkInv' /\ EngineTypes'
<1> DEFINE t == r.target
           shielded == UpOf(Faced(holder[t]))
<1>1. r.by \in People /\ t \in People \ {r.by} /\ r.id \in Int /\ now \in Nat
  BY DEF RequestOK, DarkInv
<1>2. /\ holder' = [holder EXCEPT ![t] = Absorb(@), ![r.by].held["blackout"] = @ - 1]
      /\ dark' = IF shielded THEN dark ELSE [dark EXCEPT ![t] = Stacked(@, item["blackout"].seconds)]
      /\ rest' = Rested(t, shielded)
      /\ log' = Append(log, [act |-> IF shielded THEN "blocked" ELSE "use", kind |-> "blackout", actor |-> r.by,
                             target |-> t, cost |-> 0, id |-> r.id, at |-> now])
      /\ coins' = coins
  BY DEF Uses
<1> HIDE DEF shielded
<1>3. HolderInv'
  <2>1. HoldingOK(holder[t]) /\ HoldingOK(holder[r.by]) /\ DOMAIN holder = People
    BY <1>1 DEF HolderInv
  <2>2. holder[r.by].held["blackout"] # 0
    BY DEF UseRefused
  <2>3. HoldingOK(Absorb(holder[t]))
    BY <1>1, <2>1, AbsorbIs
  <2> DEFINE h == [holder[r.by] EXCEPT !.held["blackout"] = @ - 1]
  <2>4. HoldingOK(h)
    BY <2>1, <2>2, UsedIs
  <2>5. holder'[r.by] = h
    BY <1>1, <1>2, <2>1
  <2>6. holder'[t] = Absorb(holder[t]) /\ DOMAIN holder' = People
        /\ \A p \in People \ {t, r.by} : holder'[p] = holder[p]
    BY <1>1, <1>2, <2>1
  <2> HIDE DEF h
  <2> QED BY <2>1, <2>3, <2>4, <2>5, <2>6 DEF HolderInv
<1>4. DarkInv'
  <2>1. EndToEnd(Stacked(dark[t], item["blackout"].seconds))
    BY <1>1, PricesAre, StackedIs DEF DarkInv
  <2>2. DOMAIN dark' = People /\ \A p \in People : dark'[p] = dark[p] \/ (p = t /\ dark'[p] = Stacked(dark[p], item["blackout"].seconds))
    BY <1>1, <1>2 DEF DarkInv
  <2>3. ASSUME NEW p \in People
        PROVE  EndToEnd(dark'[p])
    <3>1. EndToEnd(dark[p])
      BY DEF DarkInv
    <3> QED BY <2>1, <2>2, <3>1, Zenon
  <2> QED BY <2>2, <2>3, DarkMoves
<1>5. log' \in Seq(Event)
  <2> DEFINE e == [act |-> IF shielded THEN "blocked" ELSE "use", kind |-> "blackout", actor |-> r.by,
                   target |-> t, cost |-> 0, id |-> r.id, at |-> now]
  <2>1. e \in Event
    BY <1>1 DEF Event, Kinds
  <2>2. log' = Append(log, e)
    BY <1>2
  <2> HIDE DEF e
  <2> QED BY <2>1, <2>2 DEF EngineTypes
<1>6. rest' \in [People -> Seq(Break)]
  BY <1>1, <1>2, RestedIs DEF EngineTypes
<1>7. EngineTypes'
  BY <1>2, <1>5, <1>6 DEF EngineTypes
<1> QED BY <1>3, <1>4, <1>7

\* Whatever a request does, refused or not.
LEMMA ServedKeepsEngine ==
  ASSUME CatalogueInv, HolderInv, DarkInv, EngineTypes, NEW r, RequestOK(r), Served(r)
  PROVE  HolderInv' /\ DarkInv' /\ EngineTypes'
<1>0. UNCHANGED <<now, contest, scan>> /\ scan \subseteq People
  BY DEF Served, EngineTypes
<1>1. CASE Refused(r) \/ Replayed(r)
  BY <1>0, <1>1, EngineStays DEF Served
<1>2. CASE ~(Refused(r) \/ Replayed(r)) /\ r.act = "buy"
  BY <1>0, <1>2, BuysKeeps DEF Served, Refused
<1>3. CASE ~(Refused(r) \/ Replayed(r)) /\ r.act # "buy"
  <2>1. r.act = "use"
    BY <1>3 DEF RequestOK
  <2> QED BY <1>0, <1>3, <2>1, UsesKeeps DEF Served, Refused
<1> QED BY <1>1, <1>2, <1>3

LEMMA TickSettlesKeepsEngine ==
  ASSUME CatalogueInv, HolderInv, DarkInv, EngineTypes, NEW p \in People, TickSettles(p)
  PROVE  HolderInv' /\ DarkInv' /\ EngineTypes'
<1>1. HoldingOK(Settle(holder[p]))
  BY SettleIs DEF HolderInv, DarkInv
<1>2. HolderInv'
  BY <1>1 DEF HolderInv, TickSettles
<1>3. DarkInv'
  BY DarkMoves DEF TickSettles, DarkInv
<1>4. EngineTypes'
  BY DEF TickSettles, EngineTypes
<1> QED BY <1>2, <1>3, <1>4

LEMMA ContestMovesKeepsEngine ==
  ASSUME HolderInv, DarkInv, EngineTypes, ContestMoves
  PROVE  HolderInv' /\ DarkInv' /\ EngineTypes'
<1>1. HolderInv'
  BY DEF HolderInv, ContestMoves
<1>2. DarkInv'
  BY DarkMoves DEF DarkInv, ContestMoves
<1>3. contest' = [phase |-> contest'.phase, open |-> contest'.open, out |-> contest'.out] /\ contest'.phase \in PhaseNames
  <2>1. contest = [phase |-> contest.phase, open |-> contest.open, out |-> contest.out] /\ contest.phase \in PhaseNames
    BY DEF EngineTypes
  <2>2. CASE contest' = [contest EXCEPT !.open = ~@]
    BY <2>1, <2>2
  <2>3. CASE contest' = [contest EXCEPT !.phase =
                CASE @ = "p1_hacking" -> "coding1" [] @ = "coding1" -> "auction2" [] OTHER -> "ended"]
    BY <2>1, <2>3 DEF PhaseNames
  <2>4. ASSUME NEW p \in People, contest' = [contest EXCEPT !.out = @ \cup {p}]
        PROVE  contest' = [phase |-> contest'.phase, open |-> contest'.open, out |-> contest'.out] /\ contest'.phase \in PhaseNames
    BY <2>1, <2>4
  <2> QED BY <2>2, <2>3, <2>4 DEF ContestMoves
<1>4. EngineTypes'
  BY <1>3 DEF EngineTypes, ContestMoves
<1> QED BY <1>1, <1>2, <1>4

LEMMA TickKeepsEngine ==
  ASSUME HolderInv, DarkInv, EngineTypes, Tick
  PROVE  HolderInv' /\ DarkInv' /\ EngineTypes'
<1>1. HolderInv'
  BY DEF HolderInv, Tick
<1>2. DarkInv'
  BY TickKeepsDark DEF Tick
<1>3. EngineTypes'
  BY DEF EngineTypes, Tick
<1> QED BY <1>1, <1>2, <1>3

-----------------------------------------------------------------------------
(* The pages.                                                               *)

LEMMA SpendKeeps ==
  ASSUME LeftInv, (\E kind : Spend(kind)) \/ UNCHANGED left
  PROVE  LeftInv'
BY DEF LeftInv, Spend

LEMMA AnswerKeeps ==
  ASSUME RequestsInv, NEW r \in requests, NEW at,
         requests' \subseteq requests \cup {[r EXCEPT !.at = at], [r EXCEPT !.at = "copy"]}
  PROVE  RequestsInv'
<1>1. RequestOK(r)
  BY DEF RequestsInv
<1>2. \A x : [r EXCEPT !.at = x] = [by |-> r.by, act |-> r.act, kind |-> r.kind, target |-> r.target, id |-> r.id, at |-> x]
  BY <1>1 DEF RequestOK
<1>3. RequestOK([r EXCEPT !.at = at]) /\ RequestOK([r EXCEPT !.at = "copy"])
  BY <1>1, <1>2 DEF RequestOK
<1> QED BY <1>3 DEF RequestsInv

LEMMA ServedKeepsWeb ==
  ASSUME WebInv, NEW r \in requests, Served(r)
  PROVE  WebInv'
<1>1. LeftInv'
  BY SpendKeeps DEF WebInv, Served, Fault
<1>2. \E at : requests' \subseteq requests \cup {[r EXCEPT !.at = at], [r EXCEPT !.at = "copy"]}
  BY DEF Served, Answer
<1>3. RequestsInv'
  BY <1>2, AnswerKeeps DEF WebInv
<1>4. PagesInv'
  BY DEF WebInv, PagesInv, Served
<1> QED BY <1>1, <1>3, <1>4 DEF WebInv

LEMMA OnePageChanges ==
  ASSUME PagesInv, NEW p \in People, NEW g, PageOK(g), page' = [page EXCEPT ![p] = g]
  PROVE  PagesInv'
BY DEF PagesInv

\* What the page shows, waits for or is about to do may change; never its shape.
LEMMA PageEdits ==
  ASSUME NEW pg, PageOK(pg)
  PROVE  /\ \A x : PageOK([pg EXCEPT !.loads = x]) /\ PageOK([pg EXCEPT !.aiming = x])
         /\ \A x, y : PageOK([pg EXCEPT !.view = x, !.loads = y])
         /\ \A k \in Kinds : PageOK([pg EXCEPT !.busy = k])
         /\ \A x, y : PageOK([[pg EXCEPT !.busy = None, !.aiming = x] EXCEPT !.loads = y])
BY DEF PageOK

LEMMA LoadsKeepWeb ==
  ASSUME WebInv, NEW p \in People, NEW i, LoadServed(p, i) \/ LoadAnswered(p, i) \/ LoadFailed(p, i)
  PROVE  WebInv'
<1>0. PageOK(page[p]) /\ DOMAIN page = People
  BY DEF WebInv, PagesInv
<1>1. LeftInv' /\ RequestsInv'
  BY SpendKeeps DEF WebInv, RequestsInv, LoadServed, LoadAnswered, LoadFailed, Fault
<1>2. \E g : PageOK(g) /\ page' = [page EXCEPT ![p] = g]
  <2>1. CASE LoadServed(p, i)
    <3> DEFINE loads == [page[p].loads EXCEPT ![i] = Storefront(p)]
               g == [page[p] EXCEPT !.loads = loads]
    <3>1. page' = [page EXCEPT ![p] = g]
      <4>1. page' = [page EXCEPT ![p].loads[i] = Storefront(p)]
        BY <2>1 DEF LoadServed
      <4> QED BY <4>1, <1>0 DEF PageOK
    <3>2. PageOK(g)
      BY <1>0, PageEdits
    <3> QED BY <3>1, <3>2
  <2>2. CASE LoadAnswered(p, i)
    <3> DEFINE g == [page[p] EXCEPT !.view = page[p].loads[i], !.loads = RemoveAt(page[p].loads, i)]
    <3>1. page' = [page EXCEPT ![p] = g]
      <4>1. page' = [page EXCEPT ![p].view = page[p].loads[i], ![p].loads = RemoveAt(@, i)]
        BY <2>2 DEF LoadAnswered
      <4> QED BY <4>1, <1>0 DEF PageOK
    <3>2. PageOK(g)
      BY <1>0, PageEdits
    <3> QED BY <3>1, <3>2
  <2>3. CASE LoadFailed(p, i)
    <3> DEFINE g == [page[p] EXCEPT !.loads = RemoveAt(page[p].loads, i)]
    <3>1. page' = [page EXCEPT ![p] = g]
      <4>1. page' = [page EXCEPT ![p].loads = RemoveAt(@, i)]
        BY <2>3 DEF LoadFailed
      <4> QED BY <4>1
    <3>2. PageOK(g)
      BY <1>0, PageEdits
    <3> QED BY <3>1, <3>2
  <2> QED BY <2>1, <2>2, <2>3
<1>3. PagesInv'
  BY <1>2, OnePageChanges DEF WebInv
<1> QED BY <1>1, <1>3 DEF WebInv

LEMMA ClickKeepsWeb ==
  ASSUME WebInv, NEW p \in People, NEW act \in {"buy", "use"}, NEW k \in Kinds, NEW t,
         act = "use" => t \in People \ {p} /\ k = "blackout", Click(p, act, k, t)
  PROVE  WebInv'
<1>1. LeftInv'
  BY SpendKeeps DEF WebInv, Click
<1>2. RequestsInv'
  <2> DEFINE r == [by |-> p, act |-> act, kind |-> k, target |-> t, id |-> left.buy + left.use, at |-> "sent"]
  <2>1. left.buy + left.use \in Int
    BY DEF WebInv, LeftInv
  <2>2. RequestOK(r)
    BY <2>1 DEF RequestOK
  <2>3. requests' = requests \cup {r}
    BY DEF Click
  <2> HIDE DEF r
  <2> QED BY <2>2, <2>3 DEF RequestsInv, WebInv
<1>3. PagesInv'
  <2>0. PageOK(page[p])
    BY DEF WebInv, PagesInv
  <2>1. PageOK([page[p] EXCEPT !.busy = k])
    BY <2>0, PageEdits
  <2>2. page' = [page EXCEPT ![p] = [page[p] EXCEPT !.busy = k]]
    BY DEF Click
  <2> QED BY <2>1, <2>2, OnePageChanges DEF WebInv
<1> QED BY <1>1, <1>2, <1>3 DEF WebInv

LEMMA ChoiceKeepsWeb ==
  ASSUME WebInv, NEW p \in People, Choice(p)
  PROVE  WebInv'
<1>0. PageOK(page[p])
  BY DEF WebInv, PagesInv
<1>1. ASSUME NEW k \in Kinds, PressBuy(p, k)
      PROVE  WebInv'
  <2>1. Click(p, "buy", k, None)
    BY <1>1 DEF PressBuy
  <2> QED BY <2>1, ClickKeepsWeb
<1>2. ASSUME PressUse(p)
      PROVE  WebInv'
  <2>1. PageOK([page[p] EXCEPT !.aiming = TRUE])
    BY <1>0, PageEdits
  <2>2. page' = [page EXCEPT ![p] = [page[p] EXCEPT !.aiming = TRUE]]
    BY <1>2 DEF PressUse
  <2>3. PagesInv'
    BY <2>1, <2>2, OnePageChanges DEF WebInv
  <2>4. UNCHANGED <<left, requests>>
    BY <1>2 DEF PressUse
  <2> QED BY <2>3, <2>4 DEF WebInv, LeftInv, RequestsInv
<1>3. ASSUME NEW t \in People, PressTarget(p, t)
      PROVE  WebInv'
  <2>1. Click(p, "use", "blackout", t) /\ t \in People \ {p} /\ "blackout" \in Kinds
    BY <1>3 DEF PressTarget, Kinds
  <2> QED BY <2>1, ClickKeepsWeb
<1>4. ASSUME Hide(p) \/ Refresh(p)
      PROVE  WebInv'
  <2>1. UNCHANGED <<requests, page>> /\ LeftInv'
    BY <1>4, SpendKeeps DEF Hide, Refresh, WebInv
  <2> QED BY <2>1 DEF WebInv, RequestsInv, PagesInv
<1> QED BY <1>1, <1>2, <1>3, <1>4 DEF Choice

LEMMA RepliedKeepsWeb ==
  ASSUME WebInv, NEW r \in requests, Replied(r)
  PROVE  WebInv'
<1>0. r.by \in People /\ PageOK(page[r.by])
  BY DEF WebInv, PagesInv, RequestsInv, RequestOK
<1>1. PICK off, aiming : /\ page' = [page EXCEPT ![r.by] = AskLoad(off)]
                         /\ off = [page[r.by] EXCEPT !.busy = None, !.aiming = aiming]
  BY DEF Replied
<1>2. PageOK(AskLoad(off))
  BY <1>0, <1>1, PageEdits DEF AskLoad
<1>3. PagesInv'
  BY <1>0, <1>1, <1>2, OnePageChanges DEF WebInv
<1>4. RequestsInv' /\ UNCHANGED left
  BY DEF Replied, WebInv, RequestsInv
<1> QED BY <1>3, <1>4 DEF WebInv, LeftInv

LEMMA HearKeepsWeb ==
  ASSUME WebInv, NEW p \in People, NEW e, Hear(p, e)
  PROVE  WebInv'
<1>0. PageOK(page[p])
  BY DEF WebInv, PagesInv
<1>1. PagesInv'
  <2>1. CASE p \in left.shoppers
    <3>1. page' = [page EXCEPT ![p] = [page[p] EXCEPT !.loads = Append(@, None)]]
      BY <2>1 DEF Hear, AskLoad
    <3>2. PageOK([page[p] EXCEPT !.loads = Append(@, None)])
      BY <1>0, PageEdits
    <3> QED BY <3>1, <3>2, OnePageChanges DEF WebInv
  <2>2. CASE p \notin left.shoppers
    BY <2>2 DEF Hear, WebInv, PagesInv
  <2> QED BY <2>1, <2>2
<1>2. UNCHANGED <<left, requests>>
  BY DEF Hear
<1> QED BY <1>1, <1>2 DEF WebInv, LeftInv, RequestsInv

-----------------------------------------------------------------------------
(* The inductive invariant.                                                 *)

LEMMA SomeOf ==
  ASSUME NEW E, NEW events \in Seq(E), NEW S, S \subseteq DOMAIN events
  PROVE  IsFiniteSet(S) /\ Cardinality(S) \in Nat
<1>1. IsFiniteSet(1..Len(events))
  BY FS_Interval
<1>2. S \subseteq 1..Len(events)
  OBVIOUS
<1> QED BY <1>1, <1>2, FS_Subset, FS_CardinalityType

\* What is spent is never less than nothing.
LEMMA TotalIsNat ==
  ASSUME NEW events \in Seq(Earlier), NEW S
  PROVE  Total(events, S) \in Nat
<1> DEFINE n == Len(events)
           w == Added(events, S)
<1>0. n \in Nat /\ (\A i \in 1..n : events[i].cost \in Nat) /\ \A i \in 1..n : events[i].cost \in Int
  <2>1. \A i \in 1..n : events[i] \in Earlier
    OBVIOUS
  <2>2. \A e \in Earlier : e.cost \in Nat
    BY DEF Earlier
  <2>3. n \in Nat
    OBVIOUS
  <2> HIDE DEF n
  <2> QED BY <2>1, <2>2, <2>3
<1>1. PICK f \in [0..n -> Int] : Recurs(f, n, 0, 1, w) /\ Total(events, S) = f[n]
  BY <1>0, TotalIs
<1> HIDE DEF n
<1>2. \A i \in 1..n : w[i] \in Nat
  BY <1>0 DEF Added, n
<1> HIDE DEF w
<1> DEFINE Bad == {m \in 0..n : ~ (f[m] >= 0)}
<1>3. ASSUME Bad # {}
      PROVE  FALSE
  <2>0. Bad \in SUBSET Nat
    BY <1>0
  <2>1. PICK k \in Bad : \A m \in Bad : k <= m
    <3> HIDE DEF Bad
    <3> QED BY <2>0, <1>3, LeastNat
  <2>2. k # 0
    BY <2>1, <1>1 DEF Recurs
  <2>3. k - 1 \in 0..n /\ k \in 1..n /\ ~ (k <= k - 1)
    BY <2>1, <2>2, <1>0
  <2>4. f[k - 1] >= 0 /\ f[k - 1] \in Int
    BY <2>1, <2>3
  <2>5. f[k] = 1 * f[k - 1] + w[k] /\ w[k] \in Nat
    BY <2>3, <1>1, <1>2 DEF Recurs
  <2> QED BY <2>1, <2>4, <2>5
<1>4. n \in 0..n
  BY <1>0
<1> QED BY <1>1, <1>3, <1>4

LEMMA EarlierIsEvent ==
  ASSUME NEW events \in Seq(Earlier)
  PROVE  events \in Seq(Event) /\ \A i \in DOMAIN events : events[i].act = "buy" /\ events[i].target = None
<1>1. \A e \in Earlier : e \in Event /\ e.act = "buy" /\ e.target = None
  BY DEF Earlier, Event
<1>2. Len(events) \in Nat /\ DOMAIN events = 1..Len(events) /\ \A i \in 1..Len(events) : events[i] \in Earlier
  OBVIOUS
<1>3. events = [i \in 1..Len(events) |-> events[i]]
  OBVIOUS
<1>4. events \in Seq(Event)
  BY <1>1, <1>2, <1>3, SeqDef
<1> QED BY <1>1, <1>2, <1>4

\* Everybody begins with what was bought before.
LEMMA FirstHolding ==
  ASSUME NEW b \in Budgets, StartsFrom(b), NEW p \in People
  PROVE  LET count == [k \in Kinds |-> Cardinality(OfKind(b.log, p, k))]
             h == [held |-> count, bought |-> count, rows |-> << >>] IN
         HoldingOK(h) /\ holder[p] = Settle(h)
<1> DEFINE count == [k \in Kinds |-> Cardinality(OfKind(b.log, p, k))]
           h == [held |-> count, bought |-> count, rows |-> << >>]
<1>1. count \in [Kinds -> Nat]
  <2>1. \A k \in Kinds : OfKind(b.log, p, k) \subseteq DOMAIN b.log
    BY DEF OfKind, PurchasesOf
  <2>2. b.log \in Seq(Earlier)
    BY MarketAssumption
  <2> QED BY <2>1, <2>2, SomeOf
<1>2. holder[p] = Settle(h)
  BY DEF StartsFrom, OfKind
<1> HIDE DEF count
<1>3. HoldingOK(h)
  <2>1. << >> \in Seq(ShieldRow) /\ InTurn(<< >>)
    BY DEF InTurn
  <2>2. h \in Holding
    BY <1>1, <2>1 DEF Holding
  <2>3. \A k \in Kinds : h.held[k] <= h.bought[k]
    BY <1>1
  <2> QED BY <2>1, <2>2, <2>3 DEF HoldingOK
<1> QED BY <1>2, <1>3 DEF count

LEMMA InitHolds == Init => MarketInductive
<1> SUFFICES ASSUME NEW b \in Budgets, StartsFrom(b)
             PROVE  MarketInductive
  BY DEF Init
<1>1. CatalogueInv
  BY CatalogueStarts DEF StartsFrom
<1>2. HolderInv
  <2>1. now \in Nat
    BY DEF StartsFrom
  <2>2. ASSUME NEW p \in People
        PROVE  HoldingOK(holder[p])
    BY <1>1, <2>1, FirstHolding, SettleIs
  <2>3. DOMAIN holder = People
    BY DEF StartsFrom
  <2> QED BY <2>2, <2>3 DEF HolderInv
<1>3. DarkInv
  <2>1. now = 0 /\ dark = [p \in People |-> << >>]
    BY DEF StartsFrom
  <2>2. EndToEnd(<< >>)
    BY DEF EndToEnd
  <2> QED BY <2>1, <2>2 DEF DarkInv
<1>4. EngineTypes
  <2>1. b.log \in Seq(Earlier) /\ log = b.log
    BY MarketAssumption DEF StartsFrom
  <2>2. log \in Seq(Event)
    BY <2>1, EarlierIsEvent
  <2>3. coins \in [People -> 0..Purse]
    <3>1. ASSUME NEW p \in People
          PROVE  Purse - Total(b.log, PurchasesOf(b.log, p)) \in 0..Purse
      <4>1. Total(b.log, PurchasesOf(b.log, p)) \in Nat
        BY <2>1, TotalIsNat
      <4>2. Total(b.log, PurchasesOf(b.log, p)) <= Purse /\ Purse \in Nat
        BY MarketAssumption
      <4> QED BY <4>1, <4>2
    <3>2. coins = [p \in People |-> Purse - Total(b.log, PurchasesOf(b.log, p))]
      BY DEF StartsFrom
    <3> QED BY <3>1, <3>2
  <2>4. rest \in [People -> Seq(Break)] /\ scan = {}
    BY DEF StartsFrom
  <2>5. contest = [phase |-> b.phase, open |-> TRUE, out |-> {}] /\ b.phase \in PhaseNames
    BY MarketAssumption DEF StartsFrom
  <2> QED BY <2>2, <2>3, <2>4, <2>5 DEF EngineTypes
<1>5. WebInv
  <2>1. LeftInv
    BY MarketAssumption DEF LeftInv, StartsFrom
  <2>2. RequestsInv
    BY DEF RequestsInv, StartsFrom
  <2>3. PagesInv
    BY DEF PagesInv, PageOK, StartsFrom
  <2> QED BY <2>1, <2>2, <2>3 DEF WebInv
<1> QED BY <1>1, <1>2, <1>3, <1>4, <1>5 DEF MarketInductive

\* The catalogue is left alone.
LEMMA CatalogueStays ==
  ASSUME CatalogueInv, UNCHANGED catalogue
  PROVE  CatalogueInv'
BY DEF CatalogueInv, RowsInv, FormsInv, FormOK, SentOK, catalogue

LEMMA WebStays ==
  ASSUME WebInv, UNCHANGED <<requests, page>>, (\E kind : Spend(kind)) \/ UNCHANGED left
  PROVE  WebInv'
<1>1. LeftInv'
  BY SpendKeeps DEF WebInv
<1> QED BY <1>1 DEF WebInv, RequestsInv, PagesInv

\* The actions that leave the engine alone, and the catalogue.
LEMMA PagesKeep ==
  ASSUME MarketInductive, UNCHANGED <<catalogue, engine>>, WebInv'
  PROVE  MarketInductive'
<1>1. CatalogueInv'
  BY CatalogueStays DEF MarketInductive
<1>2. HolderInv' /\ DarkInv' /\ EngineTypes'
  BY EngineStays DEF MarketInductive, EngineTypes, engine
<1> QED BY <1>1, <1>2 DEF MarketInductive

LEMMA GoingKeeps ==
  ASSUME MarketInductive, Going
  PROVE  MarketInductive'
<1>0. CatalogueInv /\ HolderInv /\ DarkInv /\ EngineTypes /\ WebInv
  BY DEF MarketInductive
<1>1. ASSUME TickScans
      PROVE  MarketInductive'
  <2>1. HolderInv' /\ DarkInv' /\ EngineTypes'
    BY <1>0, <1>1, EngineStays DEF TickScans, Due
  <2>2. CatalogueInv' /\ WebInv'
    BY <1>0, <1>1, CatalogueStays, WebStays DEF TickScans, web
  <2> QED BY <2>1, <2>2 DEF MarketInductive
<1>2. ASSUME NEW p \in People, TickSettles(p)
      PROVE  MarketInductive'
  <2>1. HolderInv' /\ DarkInv' /\ EngineTypes'
    BY <1>0, <1>2, TickSettlesKeepsEngine
  <2>2. CatalogueInv' /\ WebInv'
    BY <1>0, <1>2, CatalogueStays, WebStays DEF TickSettles
  <2> QED BY <2>1, <2>2 DEF MarketInductive
<1>3. ASSUME NEW p \in People, Show(p)
      PROVE  MarketInductive'
  <2>1. WebInv'
    BY <1>0, <1>3, WebStays DEF Show
  <2> QED BY <1>3, <2>1, PagesKeep DEF Show
<1>4. ASSUME NEW p \in People, NEW i, LoadServed(p, i) \/ LoadAnswered(p, i)
      PROVE  MarketInductive'
  <2>1. WebInv'
    BY <1>0, <1>4, LoadsKeepWeb
  <2> QED BY <1>4, <2>1, PagesKeep DEF LoadServed, LoadAnswered
<1>5. ASSUME NEW p \in People, NEW e, Hear(p, e)
      PROVE  MarketInductive'
  <2>1. WebInv'
    BY <1>0, <1>5, HearKeepsWeb
  <2> QED BY <1>5, <2>1, PagesKeep DEF Hear
<1>6. ASSUME NEW r \in requests, Served(r)
      PROVE  MarketInductive'
  <2>1. HolderInv' /\ DarkInv' /\ EngineTypes'
    BY <1>0, <1>6, ServedKeepsEngine DEF WebInv, RequestsInv
  <2>2. CatalogueInv' /\ WebInv'
    BY <1>0, <1>6, CatalogueStays, ServedKeepsWeb DEF Served
  <2> QED BY <2>1, <2>2 DEF MarketInductive
<1>7. ASSUME NEW r \in requests, Replied(r)
      PROVE  MarketInductive'
  <2>1. WebInv'
    BY <1>0, <1>7, RepliedKeepsWeb
  <2> QED BY <1>7, <2>1, PagesKeep DEF Replied
<1> QED BY <1>1, <1>2, <1>3, <1>4, <1>5, <1>6, <1>7 DEF Going

LEMMA PersonKeeps ==
  ASSUME MarketInductive, NEW p \in People, Choice(p) \/ Checking(p) \/ ReachedZero(p) \/ CheckFailed(p)
  PROVE  MarketInductive'
<1>0. WebInv
  BY DEF MarketInductive
<1>1. ASSUME Choice(p)
      PROVE  MarketInductive'
  <2>1. WebInv'
    BY <1>0, <1>1, ChoiceKeepsWeb
  <2>2. UNCHANGED <<catalogue, engine>>
    BY <1>1 DEF Choice, PressBuy, PressUse, PressTarget, Click, Hide, Refresh
  <2> QED BY <2>1, <2>2, PagesKeep
<1>2. ASSUME Checking(p) \/ ReachedZero(p) \/ CheckFailed(p)
      PROVE  MarketInductive'
  <2>1. UNCHANGED <<catalogue, engine, requests, page>> /\ ((\E kind : Spend(kind)) \/ UNCHANGED left)
    BY <1>2 DEF Checking, Heartbeat, CheckServed, CheckAnswered, ReachedZero, CheckFailed, Fault
  <2>2. WebInv'
    BY <1>0, <2>1, WebStays
  <2> QED BY <2>1, <2>2, PagesKeep
<1> QED BY <1>1, <1>2

LEMMA OrganiserKeeps ==
  ASSUME MarketInductive, NEW o \in Organisers, Organiser(o) \/ OrganiserServed(o)
  PROVE  MarketInductive'
<1>0. CatalogueInv /\ HolderInv /\ DarkInv /\ EngineTypes /\ WebInv
  BY DEF MarketInductive
<1>1. UNCHANGED <<engine, requests, page>> /\ ((\E kind : Spend(kind)) \/ UNCHANGED left)
  <2>1. ASSUME Organiser(o)
        PROVE  UNCHANGED <<engine, requests, page>> /\ ((\E kind : Spend(kind)) \/ UNCHANGED left)
    BY <2>1 DEF Organiser, Organised
  <2>2. ASSUME OrganiserServed(o)
        PROVE  UNCHANGED <<engine, requests, page>> /\ ((\E kind : Spend(kind)) \/ UNCHANGED left)
    BY <2>2 DEF OrganiserServed, Organised, Fault
  <2> QED BY <2>1, <2>2
<1>2. WebInv'
  BY <1>0, <1>1, WebStays
<1>3. CatalogueInv'
  BY <1>0, OrganiserKeepsCatalogue
<1>4. HolderInv' /\ DarkInv' /\ EngineTypes'
  BY <1>0, <1>1, EngineStays DEF EngineTypes, engine
<1> QED BY <1>2, <1>3, <1>4 DEF MarketInductive

LEMMA StepKeeps ==
  ASSUME MarketInductive, [Next]_vars
  PROVE  MarketInductive'
<1>0. CatalogueInv /\ HolderInv /\ DarkInv /\ EngineTypes /\ WebInv
  BY DEF MarketInductive
<1>1. ASSUME Going
      PROVE  MarketInductive'
  BY <1>1, GoingKeeps
<1>2. ASSUME Tick
      PROVE  MarketInductive'
  <2>1. CatalogueInv' /\ WebInv'
    BY <1>0, <1>2, CatalogueStays, WebStays DEF Tick, web
  <2> QED BY <1>0, <1>2, <2>1, TickKeepsEngine DEF MarketInductive
<1>3. ASSUME ContestMoves
      PROVE  MarketInductive'
  <2>1. CatalogueInv' /\ WebInv'
    BY <1>0, <1>3, CatalogueStays, WebStays DEF ContestMoves
  <2> QED BY <1>0, <1>3, <2>1, ContestMovesKeepsEngine DEF MarketInductive
<1>4. ASSUME NEW p \in People, Choice(p) \/ Checking(p) \/ ReachedZero(p) \/ CheckFailed(p)
      PROVE  MarketInductive'
  BY <1>4, PersonKeeps
<1>5. ASSUME NEW p \in People, NEW i, LoadFailed(p, i)
      PROVE  MarketInductive'
  <2>1. WebInv'
    BY <1>0, <1>5, LoadsKeepWeb
  <2> QED BY <1>5, <2>1, PagesKeep DEF LoadFailed
<1>6. ASSUME NEW r \in requests, NeverReaches(r)
      PROVE  MarketInductive'
  <2>1. LeftInv'
    BY <1>0, <1>6, SpendKeeps DEF NeverReaches, Fault, WebInv
  <2>2. \E at : requests' \subseteq requests \cup {[r EXCEPT !.at = at], [r EXCEPT !.at = "copy"]}
    BY <1>6 DEF NeverReaches, Answer
  <2>3. RequestsInv'
    BY <1>0, <2>2, AnswerKeeps DEF WebInv
  <2>4. WebInv'
    BY <1>0, <1>6, <2>1, <2>3 DEF WebInv, PagesInv, NeverReaches
  <2> QED BY <1>6, <2>4, PagesKeep DEF NeverReaches
<1>7. ASSUME NEW o \in Organisers, Organiser(o) \/ OrganiserServed(o)
      PROVE  MarketInductive'
  BY <1>7, OrganiserKeeps
<1>8. ASSUME UNCHANGED vars
      PROVE  MarketInductive'
  <2>1. UNCHANGED <<catalogue, engine>> /\ WebInv'
    BY <1>0, <1>8, WebStays DEF vars, web
  <2> QED BY <2>1, PagesKeep
<1> QED BY <1>1, <1>2, <1>3, <1>4, <1>5, <1>6, <1>7, <1>8 DEF Next

\* The engine's rows, the forms, the pages and the requests keep the shape and the order
\* everything else rests on: shields in turn, blackouts end to end, rows as they were meant.
THEOREM MarketCorrect == Spec => []MarketInductive
<1>1. Init => MarketInductive
  BY InitHolds
<1>2. MarketInductive /\ [Next]_vars => MarketInductive'
  BY StepKeeps
<1> QED BY <1>1, <1>2, PTL DEF Spec

LEMMA InvFollows == MarketInductive => MarketInv
<1> SUFFICES ASSUME MarketInductive
             PROVE  MarketInv
  OBVIOUS
<1>0. CatalogueInv /\ HolderInv /\ DarkInv /\ EngineTypes /\ WebInv
  BY DEF MarketInductive
<1>1. TypeOK
  <2>1. ASSUME NEW p \in People, NEW k \in Kinds
        PROVE  holder[p].held[k] \in 0..holder[p].bought[k]
    <3>1. HoldingOK(holder[p])
      BY <1>0 DEF HolderInv
    <3>2. holder[p].held[k] \in Nat /\ holder[p].bought[k] \in Nat /\ holder[p].held[k] <= holder[p].bought[k]
      BY <3>1 DEF HoldingOK, Holding
    <3> QED BY <3>2
  <2>2. \A p \in People : coins[p] \in 0..Purse /\ page[p].busy \in Kinds \cup {None}
    BY <1>0 DEF EngineTypes, WebInv, PagesInv, PageOK
  <2>3. \A o \in Organisers : form[o].of \in Kinds \cup {None, "rules"}
    BY <1>0 DEF CatalogueInv, FormsInv, FormOK
  <2>4. contest.phase \in PhaseNames /\ scan \subseteq People
    BY <1>0 DEF EngineTypes
  <2> QED BY <2>1, <2>2, <2>3, <2>4 DEF TypeOK
<1>2. OneShieldAtATime
  BY <1>0 DEF OneShieldAtATime, HolderInv, HoldingOK, InTurn
<1>3. BlackoutsStack
  <2>1. ASSUME NEW p \in People
        PROVE  /\ \A i \in 1..(Len(dark[p]) - 1) : dark[p][i].to <= dark[p][i + 1].from
               /\ Running(dark[p]) # {} => \E i \in DOMAIN dark[p] : dark[p][i].from <= now /\ now < dark[p][i].to
    <3>1. EndToEnd(dark[p]) /\ now \in Nat
      BY <1>0 DEF DarkInv
    <3>2. Running(dark[p]) # {} => \E i \in DOMAIN dark[p] : dark[p][i].from <= now /\ now < dark[p][i].to
      BY <3>1, OneRuns
    <3> QED BY <3>1, <3>2 DEF EndToEnd
  <2> QED BY <2>1 DEF BlackoutsStack
<1>4. ButtonsAgree
  <2>1. ASSUME NEW p \in People, NEW k \in Kinds
        PROVE  k \in Storefront(p).buy <=> ~BuyRefused(p, k)
    <3>1. Storefront(p).buy = {x \in OnSale : ~BuyBlocked(p, x)}
      BY DEF Storefront
    <3> QED BY <3>1 DEF OnSale, BuyBlocked, BuyRefused
  <2>2. ASSUME NEW p \in People, p \notin contest.out, NEW t \in People \ {p}
        PROVE  (Storefront(p).use /\ t \notin Storefront(p).off) <=> ~UseRefused(p, t)
    <3>1. /\ Storefront(p).use <=> ("blackout" \in OnSale /\ ~UseBlocked(p))
          /\ Storefront(p).off = {x \in People \ {p} : x \in contest.out \/ OnBreak(x)}
      BY DEF Storefront
    <3>2. "blackout" \in OnSale <=> item["blackout"].on
      BY DEF OnSale, Kinds
    <3>3. t \in Storefront(p).off <=> (t \in contest.out \/ OnBreak(t))
      BY <3>1
    <3>4. {p, t} \cap contest.out # {} <=> t \in contest.out
      BY <2>2
    <3> QED BY <3>1, <3>2, <3>3, <3>4 DEF UseBlocked, UseRefused
  <2> QED BY <2>1, <2>2 DEF ButtonsAgree
<1>5. EditsSurvive
  BY <1>0 DEF EditsSurvive, CatalogueInv, RowsInv
<1> QED BY <1>1, <1>2, <1>3, <1>4, <1>5 DEF MarketInv

\* Shields come one at a time and blackouts end to end, whatever is bought, used, lost or sent
\* twice; pages offer what the engine takes; two organisers keep each other's edits.
THEOREM MarketStands == Spec => []MarketInv
BY MarketCorrect, InvFollows, PTL

-----------------------------------------------------------------------------
(* The record.                                                              *)

\* What only a request served, or a shield the scheduler starts, changes.
LEMMA RowsStay ==
  ASSUME [Next]_vars, \A p \in People : ~TickSettles(p), \A r \in requests : ~Served(r)
  PROVE  UNCHANGED <<coins, holder, dark, rest, log>>
<1>1. ASSUME Going
      PROVE  UNCHANGED <<coins, holder, dark, rest, log>>
  <2>1. ASSUME TickScans
        PROVE  UNCHANGED <<coins, holder, dark, rest, log>>
    BY <2>1 DEF TickScans
  <2>2. ASSUME NEW p \in People, Show(p) \/ (\E i \in DOMAIN page[p].loads : LoadServed(p, i) \/ LoadAnswered(p, i))
                                 \/ \E e \in news[p] : Hear(p, e)
        PROVE  UNCHANGED <<coins, holder, dark, rest, log>>
    BY <2>2 DEF Show, LoadServed, LoadAnswered, Hear, engine
  <2>3. ASSUME NEW r \in requests, Replied(r)
        PROVE  UNCHANGED <<coins, holder, dark, rest, log>>
    BY <2>3 DEF Replied, engine
  <2> QED BY <1>1, <2>1, <2>2, <2>3 DEF Going
<1>2. ASSUME Tick \/ ContestMoves
      PROVE  UNCHANGED <<coins, holder, dark, rest, log>>
  BY <1>2 DEF Tick, ContestMoves
<1>3. ASSUME NEW p \in People, Choice(p)
      PROVE  UNCHANGED <<coins, holder, dark, rest, log>>
  BY <1>3 DEF Choice, PressBuy, PressUse, PressTarget, Click, Hide, Refresh, engine
<1>4. ASSUME NEW p \in People, Checking(p) \/ ReachedZero(p) \/ CheckFailed(p)
                               \/ \E i \in DOMAIN page[p].loads : LoadFailed(p, i)
      PROVE  UNCHANGED <<coins, holder, dark, rest, log>>
  BY <1>4 DEF Checking, Heartbeat, CheckServed, CheckAnswered, ReachedZero, CheckFailed, LoadFailed, engine
<1>5. ASSUME NEW r \in requests, NeverReaches(r)
      PROVE  UNCHANGED <<coins, holder, dark, rest, log>>
  BY <1>5 DEF NeverReaches, engine
<1>6. ASSUME NEW o \in Organisers, Organiser(o) \/ OrganiserServed(o)
      PROVE  UNCHANGED <<coins, holder, dark, rest, log>>
  BY <1>6 DEF Organiser, OrganiserServed, Organised, engine
<1>7. ASSUME UNCHANGED vars
      PROVE  UNCHANGED <<coins, holder, dark, rest, log>>
  BY <1>7 DEF vars, engine
<1> QED BY <1>1, <1>2, <1>3, <1>4, <1>5, <1>6, <1>7 DEF Next

LEMMA OneMore ==
  ASSUME NEW n \in Nat, NEW S \in SUBSET (1..n), NEW T, T = S \cup {n + 1}
  PROVE  Cardinality(S) \in Nat /\ Cardinality(T) = Cardinality(S) + 1
<1>0. IsFiniteSet(1..n)
  BY FS_Interval
<1>1. IsFiniteSet(S)
  BY <1>0, FS_Subset
<1>2. n + 1 \notin S
  OBVIOUS
<1> QED BY <1>1, <1>2, FS_AddElement, FS_CardinalityType

\* The sets the record counts, once e has happened too.
LEMMA LogGrows ==
  ASSUME log \in Seq(Event), NEW e \in Event, log' = Append(log, e), NEW p
  PROVE  /\ PurchasesOf(log', p) = PurchasesOf(log, p) \cup (IF e.act = "buy" /\ e.actor = p THEN {Len(log) + 1} ELSE {})
         /\ \A k : OfKind(log', p, k)
                     = OfKind(log, p, k) \cup (IF e.act = "buy" /\ e.actor = p /\ e.kind = k THEN {Len(log) + 1} ELSE {})
         /\ UsedBy(p)' = UsedBy(p) \cup (IF e.act # "buy" /\ e.actor = p THEN {Len(log) + 1} ELSE {})
<1> DEFINE n == Len(log)
<1>1. /\ n \in Nat /\ DOMAIN log = 1..n /\ DOMAIN log' = 1..(n + 1) /\ log'[n + 1] = e
      /\ \A i \in 1..n : log'[i] = log[i]
  BY AppendProperties
<1> HIDE DEF n
<1>2. \A i : i \in 1..(n + 1) <=> (i \in 1..n \/ i = n + 1)
  BY <1>1
<1>3. n + 1 \notin 1..n
  BY <1>1
<1>4. PurchasesOf(log', p) = PurchasesOf(log, p) \cup (IF e.act = "buy" /\ e.actor = p THEN {n + 1} ELSE {})
  BY <1>1, <1>2, <1>3 DEF PurchasesOf
<1>5. ASSUME NEW k
      PROVE  OfKind(log', p, k)
               = OfKind(log, p, k)
                   \cup (IF e.act = "buy" /\ e.actor = p /\ e.kind = k THEN {n + 1} ELSE {})
  BY <1>1, <1>2, <1>3, <1>4 DEF OfKind, PurchasesOf
<1>6. UsedBy(p)' = UsedBy(p) \cup (IF e.act # "buy" /\ e.actor = p THEN {n + 1} ELSE {})
  BY <1>1, <1>2, <1>3 DEF UsedBy
<1> QED BY <1>4, <1>5, <1>6 DEF n

LEMMA OneOrNoMore ==
  ASSUME NEW n \in Nat, NEW S \in SUBSET (1..n), NEW T, NEW c \in BOOLEAN, T = S \cup (IF c THEN {n + 1} ELSE {})
  PROVE  Cardinality(T) = Cardinality(S) + (IF c THEN 1 ELSE 0)
<1>1. CASE c
  <2>1. T = S \cup {n + 1}
    BY <1>1
  <2> QED BY <1>1, <2>1, OneMore
<1>2. CASE ~c
  <2>1. T = S
    BY <1>2
  <2>2. Cardinality(S) \in Nat
    BY OneMore
  <2> QED BY <1>2, <2>1, <2>2
<1> QED BY <1>1, <1>2

\* And how many they are, and what they cost.
LEMMA TotalGrows ==
  ASSUME log \in Seq(Event), NEW e \in Event, log' = Append(log, e), NEW p
  PROVE  /\ Total(log, PurchasesOf(log, p)) \in Int
         /\ Total(log', PurchasesOf(log', p))
              = Total(log, PurchasesOf(log, p)) + (IF e.act = "buy" /\ e.actor = p THEN e.cost ELSE 0)
<1> DEFINE n == Len(log)
<1>0. n \in Nat /\ DOMAIN log = 1..n
  OBVIOUS
<1>1. PurchasesOf(log', p) = PurchasesOf(log, p) \cup (IF e.act = "buy" /\ e.actor = p THEN {n + 1} ELSE {})
  BY LogGrows
<1>2. \A x \in Event : x.cost \in Int
  BY DEF Event
<1>3. n + 1 \notin PurchasesOf(log, p)
  BY DEF PurchasesOf
<1>4. (\A i \in 1..n : i \in PurchasesOf(log, p) <=> i \in PurchasesOf(log', p))
      /\ (n + 1 \in PurchasesOf(log', p) <=> (e.act = "buy" /\ e.actor = p))
  <2> HIDE DEF n
  <2> QED BY <1>0, <1>1, <1>3
<1>5. /\ Total(log, PurchasesOf(log, p)) \in Int
      /\ Total(Append(log, e), PurchasesOf(log', p))
           = Total(log, PurchasesOf(log, p)) + (IF n + 1 \in PurchasesOf(log', p) THEN e.cost ELSE 0)
  BY <1>2, <1>4, TotalOfNext
<1> QED BY <1>4, <1>5

LEMMA KindGrows ==
  ASSUME log \in Seq(Event), NEW e \in Event, log' = Append(log, e), NEW p, NEW k
  PROVE  Cardinality(OfKind(log', p, k)) = Cardinality(OfKind(log, p, k)) + (IF e.act = "buy" /\ e.actor = p /\ e.kind = k THEN 1 ELSE 0)
<1> DEFINE n == Len(log)
<1>0. n \in Nat /\ DOMAIN log = 1..n
  OBVIOUS
<1> DEFINE S == OfKind(log, p, k)
           T == OfKind(log', p, k)
           c == e.act = "buy" /\ e.actor = p /\ e.kind = k
<1>1. S \in SUBSET (1..n)
  BY <1>0 DEF OfKind, PurchasesOf
<1>2. c \in BOOLEAN /\ T = S \cup (IF c THEN {n + 1} ELSE {})
  BY LogGrows
<1> HIDE DEF S, T, c, n
<1>3. Cardinality(T) = Cardinality(S) + (IF c THEN 1 ELSE 0)
  BY <1>0, <1>1, <1>2, OneOrNoMore
<1> QED BY <1>3 DEF S, T, c

LEMMA UsedGrows ==
  ASSUME log \in Seq(Event), NEW e \in Event, log' = Append(log, e), NEW p
  PROVE  Cardinality(UsedBy(p)') = Cardinality(UsedBy(p)) + (IF e.act # "buy" /\ e.actor = p THEN 1 ELSE 0)
<1> DEFINE n == Len(log)
<1>0. n \in Nat /\ DOMAIN log = 1..n
  OBVIOUS
<1> DEFINE S == UsedBy(p)
           T == UsedBy(p)'
           c == e.act # "buy" /\ e.actor = p
<1>1. S \in SUBSET (1..n)
  BY <1>0 DEF UsedBy
<1>2. c \in BOOLEAN /\ T = S \cup (IF c THEN {n + 1} ELSE {})
  BY LogGrows
<1> HIDE DEF S, T, c, n
<1>3. Cardinality(T) = Cardinality(S) + (IF c THEN 1 ELSE 0)
  BY <1>0, <1>1, <1>2, OneOrNoMore
<1> QED BY <1>3 DEF S, T, c

LEMMA ReceivedGrows ==
  ASSUME log \in Seq(Event), NEW e \in Event, log' = Append(log, e), NEW p, NEW how
  PROVE  Cardinality(Received(p, how)') = Cardinality(Received(p, how)) + (IF e.target = p /\ e.act = how THEN 1 ELSE 0)
<1> DEFINE n == Len(log)
<1>0. n \in Nat /\ DOMAIN log = 1..n
  OBVIOUS
<1> DEFINE S == Received(p, how)
           T == Received(p, how)'
           c == e.target = p /\ e.act = how
<1>1. S \in SUBSET (1..n)
  BY <1>0 DEF Received
<1>2. c \in BOOLEAN /\ T = S \cup (IF c THEN {n + 1} ELSE {})
  <2>1. /\ DOMAIN log' = 1..(n + 1) /\ log'[n + 1] = e
        /\ \A i \in 1..n : log'[i] = log[i]
    BY AppendProperties
  <2> HIDE DEF n
  <2>2. \A i : i \in 1..(n + 1) <=> (i \in 1..n \/ i = n + 1)
    BY <1>0
  <2>3. n + 1 \notin 1..n
    BY <1>0
  <2> QED BY <1>0, <2>1, <2>2, <2>3 DEF Received
<1> HIDE DEF S, T, c, n
<1>3. Cardinality(T) = Cardinality(S) + (IF c THEN 1 ELSE 0)
  BY <1>0, <1>1, <1>2, OneOrNoMore
<1> QED BY <1>3 DEF S, T, c

LEMMA OneEachStays ==
  ASSUME OneEach, log \in Seq(Event), NEW r, ~Replayed(r), NEW e \in Event, e.actor = r.by, e.id = r.id,
         log' = Append(log, e)
  PROVE  OneEach'
<1> DEFINE n == Len(log)
<1>1. /\ n \in Nat /\ DOMAIN log = 1..n /\ DOMAIN log' = 1..(n + 1) /\ log'[n + 1] = e
      /\ \A i \in 1..n : log'[i] = log[i]
  BY AppendProperties
<1> HIDE DEF n
<1>2. \A i : i \in 1..(n + 1) <=> (i \in 1..n \/ i = n + 1)
  BY <1>1
<1>3. \A i \in 1..n : ~ (log[i].actor = r.by /\ log[i].id = r.id)
  BY <1>1 DEF Replayed
<1> QED BY <1>1, <1>2, <1>3 DEF OneEach


\* A purchase is counted, with what it cost.
LEMMA BuyAccounted ==
  ASSUME MarketInductive, RecordInv, NEW r, RequestOK(r), r.act = "buy", ~Replayed(r), Buys(r)
  PROVE  RecordInv'
<1> DEFINE e == [act |-> "buy", kind |-> r.kind, actor |-> r.by, target |-> None,
                 cost |-> item[r.kind].price, id |-> r.id, at |-> now]
<1>0. CatalogueInv /\ HolderInv /\ DarkInv /\ EngineTypes
  BY DEF MarketInductive
<1>1. r.by \in People /\ r.kind \in Kinds /\ r.id \in Int /\ now \in Nat /\ item[r.kind].price \in Nat
      /\ None \notin People /\ "blackout" \in Kinds /\ "shield" \in Kinds
  BY <1>0, PricesAre, MarketAssumption DEF RequestOK, DarkInv, Kinds
<1>2. /\ e \in Event /\ log \in Seq(Event) /\ log' = Append(log, e) /\ dark' = dark
      /\ e.act = "buy" /\ e.actor = r.by /\ e.kind = r.kind /\ e.target = None /\ e.cost = item[r.kind].price /\ e.id = r.id
  BY <1>0, <1>1 DEF Event, EngineTypes, Buys
<1> HIDE DEF e
<1>3. OneEach'
  BY <1>2, OneEachStays DEF RecordInv
<1>4. ASSUME NEW p \in People
      PROVE  Accounted(p)'
  <2>0. Accounted(p)
    BY DEF RecordInv
  <2>1. /\ Total(log, PurchasesOf(log, p)) \in Int
        /\ Total(log', PurchasesOf(log', p)) = Total(log, PurchasesOf(log, p)) + (IF r.by = p THEN e.cost ELSE 0)
        /\ Cardinality(UsedBy(p)') = Cardinality(UsedBy(p)) + (IF FALSE THEN 1 ELSE 0)
    <3>1. PICK x \in Event : x = e
      BY <1>2
    <3>2. log \in Seq(Event) /\ log' = Append(log, x)
      BY <1>2, <3>1
    <3>3. /\ Total(log, PurchasesOf(log, p)) \in Int
          /\ Total(log', PurchasesOf(log', p))
               = Total(log, PurchasesOf(log, p)) + (IF x.act = "buy" /\ x.actor = p THEN x.cost ELSE 0)
      BY <3>2, TotalGrows
    <3>4. Cardinality(UsedBy(p)') = Cardinality(UsedBy(p)) + (IF x.act # "buy" /\ x.actor = p THEN 1 ELSE 0)
      BY <3>2, UsedGrows
    <3> QED BY <1>2, <3>1, <3>3, <3>4
  <2>1a. ASSUME NEW k
         PROVE  Cardinality(OfKind(log', p, k)) = Cardinality(OfKind(log, p, k)) + (IF r.by = p /\ r.kind = k THEN 1 ELSE 0)
    <3>1. PICK x \in Event : x = e
      BY <1>2
    <3>2. log \in Seq(Event) /\ log' = Append(log, x)
      BY <1>2, <3>1
    <3>3. Cardinality(OfKind(log', p, k))
            = Cardinality(OfKind(log, p, k)) + (IF x.act = "buy" /\ x.actor = p /\ x.kind = k THEN 1 ELSE 0)
      BY <3>2, KindGrows
    <3> QED BY <1>2, <3>1, <3>3
  <2>1b. ASSUME NEW a
         PROVE  Cardinality(Received(p, a)') = Cardinality(Received(p, a)) + (IF FALSE THEN 1 ELSE 0)
    <3>1. PICK x \in Event : x = e
      BY <1>2
    <3>2. log \in Seq(Event) /\ log' = Append(log, x)
      BY <1>2, <3>1
    <3>3. Cardinality(Received(p, a)') = Cardinality(Received(p, a)) + (IF x.target = p /\ x.act = a THEN 1 ELSE 0)
      BY <3>2, ReceivedGrows
    <3> QED BY <1>1, <1>2, <3>1, <3>3
  <2>2. /\ Cardinality(UsedBy(p)) \in Nat /\ \A act : Cardinality(Received(p, act)) \in Nat
        /\ \A k : Cardinality(OfKind(log, p, k)) \in Nat
    <3>1. UsedBy(p) \subseteq DOMAIN log /\ (\A act : Received(p, act) \subseteq DOMAIN log)
          /\ \A k : OfKind(log, p, k) \subseteq DOMAIN log
      BY DEF UsedBy, Received, OfKind, PurchasesOf
    <3> QED BY <1>2, <3>1, SomeOf
  <2>3. HoldingOK(holder[p]) /\ DOMAIN holder = People
    BY <1>0 DEF HolderInv
  <2>4. holder[p].held \in [Kinds -> Nat] /\ holder[p].bought \in [Kinds -> Nat] /\ Len(holder[p].rows) \in Nat
    BY <2>3 DEF HoldingOK, Holding
  <2>5. coins' = [coins EXCEPT ![r.by] = @ - e.cost] /\ holder' = [holder EXCEPT ![r.by] = Bought(@, r.kind)]
    BY <1>2 DEF Buys
  <2>6. coins'[p] = coins[p] - (IF r.by = p THEN e.cost ELSE 0) /\ coins[p] \in Int /\ e.cost \in Int /\ Purse \in Int
    BY <1>0, <1>1, <1>2, <2>5, MarketAssumption DEF EngineTypes
  <2>7. /\ Absorbed(holder'[p]) = Absorbed(holder[p])
        /\ \A x \in Kinds : holder'[p].bought[x] = holder[p].bought[x] + (IF r.by = p /\ r.kind = x THEN 1 ELSE 0)
        /\ holder'[p].held["blackout"] = holder[p].held["blackout"] + (IF r.by = p /\ r.kind = "blackout" THEN 1 ELSE 0)
        /\ holder'[p].held["shield"] + Len(holder'[p].rows)
             = holder[p].held["shield"] + Len(holder[p].rows) + (IF r.by = p /\ r.kind = "shield" THEN 1 ELSE 0)
    <3>1. CASE r.by = p
      <4>1. holder'[p] = Bought(holder[p], r.kind)
        BY <1>1, <2>3, <2>5, <3>1
      <4>2. /\ Absorbed(Bought(holder[p], r.kind)) = Absorbed(holder[p])
            /\ \A x \in Kinds : Bought(holder[p], r.kind).bought[x] = holder[p].bought[x] + (IF x = r.kind THEN 1 ELSE 0)
            /\ Bought(holder[p], r.kind).held["blackout"] = holder[p].held["blackout"] + (IF r.kind = "blackout" THEN 1 ELSE 0)
            /\ Bought(holder[p], r.kind).held["shield"] + Len(Bought(holder[p], r.kind).rows)
                 = holder[p].held["shield"] + Len(holder[p].rows) + (IF r.kind = "shield" THEN 1 ELSE 0)
        BY <1>0, <1>1, <2>3, BoughtIs
      <4> QED BY <3>1, <4>1, <4>2
    <3>2. CASE r.by # p
      <4>1. holder'[p] = holder[p]
        BY <2>3, <2>5, <3>2
      <4>2. \A x \in Kinds : holder[p].bought[x] \in Nat /\ holder[p].held[x] \in Nat
        BY <2>4
      <4>3. /\ holder'[p].held["blackout"] = holder[p].held["blackout"] + 0
            /\ holder'[p].held["shield"] + Len(holder'[p].rows) = holder[p].held["shield"] + Len(holder[p].rows) + 0
        BY <1>1, <2>4, <4>1, <4>2
      <4>4. \A x \in Kinds : holder'[p].bought[x] = holder[p].bought[x] + 0
        BY <4>1, <4>2
      <4> QED BY <3>2, <4>1, <4>3, <4>4
    <3> QED BY <3>1, <3>2
  <2>8. coins'[p] = Purse - Total(log', PurchasesOf(log', p))
    BY <2>0, <2>1, <2>6 DEF Accounted
  <2>9. \A k \in Kinds : holder'[p].bought[k] = Cardinality(OfKind(log', p, k))
    <3> TAKE k \in Kinds
    <3>1. holder[p].bought[k] = Cardinality(OfKind(log, p, k))
      BY <2>0 DEF Accounted
    <3> QED BY <2>1a, <2>7, <3>1
  <2>10. holder'[p].held["blackout"] + Cardinality(UsedBy(p)') = holder'[p].bought["blackout"]
    <3>1. holder[p].held["blackout"] + Cardinality(UsedBy(p)) = holder[p].bought["blackout"]
      BY <2>0 DEF Accounted
    <3>2. holder[p].held["blackout"] \in Nat /\ holder[p].bought["blackout"] \in Nat
      BY <1>1, <2>4
    <3>3. holder'[p].bought["blackout"] = holder[p].bought["blackout"] + (IF r.by = p /\ r.kind = "blackout" THEN 1 ELSE 0)
      BY <1>1, <2>7
    <3> QED BY <2>1, <2>2, <2>7, <3>1, <3>2, <3>3
  <2>11. holder'[p].held["shield"] + Len(holder'[p].rows) = holder'[p].bought["shield"]
    <3>1. holder[p].held["shield"] + Len(holder[p].rows) = holder[p].bought["shield"]
      BY <2>0 DEF Accounted
    <3>2. holder'[p].bought["shield"] = holder[p].bought["shield"] + (IF r.by = p /\ r.kind = "shield" THEN 1 ELSE 0)
      BY <1>1, <2>7
    <3> QED BY <2>7, <3>1, <3>2
  <2>12. Len(dark'[p]) = Cardinality(Received(p, "use")')
    <3>1. Len(dark[p]) = Cardinality(Received(p, "use"))
      BY <2>0 DEF Accounted
    <3> QED BY <1>2, <2>1b, <2>2, <3>1
  <2>13. Cardinality(Absorbed(holder'[p])) = Cardinality(Received(p, "blocked")')
    <3>1. Cardinality(Absorbed(holder[p])) = Cardinality(Received(p, "blocked"))
      BY <2>0 DEF Accounted, Absorbed
    <3> QED BY <2>1b, <2>2, <2>7, <3>1
  <2> QED BY <2>8, <2>9, <2>10, <2>11, <2>12, <2>13 DEF Accounted, Absorbed
<1> QED BY <1>3, <1>4 DEF RecordInv

\* So is a blackout used, or absorbed: by whoever used it and at whom it was aimed.
LEMMA UseAccounted ==
  ASSUME MarketInductive, RecordInv, NEW r, RequestOK(r), r.act = "use", ~Replayed(r),
         ~UseRefused(r.by, r.target), Uses(r)
  PROVE  RecordInv'
<1> DEFINE t == r.target
           shielded == UpOf(Faced(holder[t]))
           how == IF shielded THEN "blocked" ELSE "use"
           e == [act |-> how, kind |-> "blackout", actor |-> r.by, target |-> t, cost |-> 0, id |-> r.id, at |-> now]
<1>0. CatalogueInv /\ HolderInv /\ DarkInv /\ EngineTypes
  BY DEF MarketInductive
<1>1. r.by \in People /\ t \in People \ {r.by} /\ r.id \in Int /\ now \in Nat /\ "blackout" \in Kinds /\ "shield" \in Kinds
  BY <1>0 DEF RequestOK, DarkInv, Kinds
<1>2. /\ holder' = [holder EXCEPT ![t] = Absorb(@), ![r.by].held["blackout"] = @ - 1]
      /\ dark' = IF shielded THEN dark ELSE [dark EXCEPT ![t] = Stacked(@, item["blackout"].seconds)]
      /\ coins' = coins
  BY DEF Uses
<1>3. /\ e \in Event /\ log \in Seq(Event) /\ log' = Append(log, e)
      /\ e.act = how /\ e.act # "buy" /\ e.actor = r.by /\ e.target = t /\ e.id = r.id
      /\ (how = "use" <=> ~shielded) /\ (how = "blocked" <=> shielded)
  BY <1>0, <1>1 DEF Event, EngineTypes, Uses
<1> HIDE DEF e, how, shielded
<1>4. OneEach'
  BY <1>3, OneEachStays DEF RecordInv
<1>5. HoldingOK(holder[t]) /\ HoldingOK(holder[r.by]) /\ DOMAIN holder = People
  BY <1>0, <1>1 DEF HolderInv
<1>6. /\ HoldingOK(Absorb(holder[t])) /\ SameStock(holder[t], Absorb(holder[t]))
      /\ ~shielded => Absorbed(Absorb(holder[t])) = Absorbed(holder[t])
      /\ shielded => \E i \in Nat \ Absorbed(holder[t]) : Absorbed(Absorb(holder[t])) = Absorbed(holder[t]) \cup {i}
  BY <1>0, <1>1, <1>5, AbsorbIs DEF shielded
<1> DEFINE h == [holder[r.by] EXCEPT !.held["blackout"] = @ - 1]
<1>7. /\ h.bought = holder[r.by].bought /\ h.rows = holder[r.by].rows
      /\ h.held["blackout"] = holder[r.by].held["blackout"] - 1 /\ h.held["shield"] = holder[r.by].held["shield"]
  BY <1>5, UsedIs DEF UseRefused
<1>8. holder'[r.by] = h
  BY <1>1, <1>2, <1>5
<1>9. holder'[t] = Absorb(holder[t]) /\ \A p \in People \ {t, r.by} : holder'[p] = holder[p]
  BY <1>1, <1>2, <1>5
<1> HIDE DEF h
<1>10. ASSUME NEW p \in People
       PROVE  Accounted(p)'
  <2>0. Accounted(p)
    BY DEF RecordInv
  <2>1. /\ Total(log, PurchasesOf(log, p)) \in Int
        /\ Total(log', PurchasesOf(log', p)) = Total(log, PurchasesOf(log, p)) + (IF FALSE THEN e.cost ELSE 0)
        /\ Cardinality(UsedBy(p)') = Cardinality(UsedBy(p)) + (IF r.by = p THEN 1 ELSE 0)
    <3>1. PICK x \in Event : x = e
      BY <1>3
    <3>2. log \in Seq(Event) /\ log' = Append(log, x)
      BY <1>3, <3>1
    <3>3. /\ Total(log, PurchasesOf(log, p)) \in Int
          /\ Total(log', PurchasesOf(log', p))
               = Total(log, PurchasesOf(log, p)) + (IF x.act = "buy" /\ x.actor = p THEN x.cost ELSE 0)
      BY <3>2, TotalGrows
    <3>4. Cardinality(UsedBy(p)') = Cardinality(UsedBy(p)) + (IF x.act # "buy" /\ x.actor = p THEN 1 ELSE 0)
      BY <3>2, UsedGrows
    <3> QED BY <1>3, <3>1, <3>3, <3>4
  <2>1a. ASSUME NEW k
         PROVE  Cardinality(OfKind(log', p, k)) = Cardinality(OfKind(log, p, k)) + (IF FALSE THEN 1 ELSE 0)
    <3>1. PICK x \in Event : x = e
      BY <1>3
    <3>2. log \in Seq(Event) /\ log' = Append(log, x)
      BY <1>3, <3>1
    <3>3. Cardinality(OfKind(log', p, k))
            = Cardinality(OfKind(log, p, k)) + (IF x.act = "buy" /\ x.actor = p /\ x.kind = k THEN 1 ELSE 0)
      BY <3>2, KindGrows
    <3> QED BY <1>3, <3>1, <3>3
  <2>1b. ASSUME NEW a
         PROVE  Cardinality(Received(p, a)') = Cardinality(Received(p, a)) + (IF t = p /\ how = a THEN 1 ELSE 0)
    <3>1. PICK x \in Event : x = e
      BY <1>3
    <3>2. log \in Seq(Event) /\ log' = Append(log, x)
      BY <1>3, <3>1
    <3>3. Cardinality(Received(p, a)') = Cardinality(Received(p, a)) + (IF x.target = p /\ x.act = a THEN 1 ELSE 0)
      BY <3>2, ReceivedGrows
    <3> QED BY <1>1, <1>3, <3>1, <3>3
  <2>2. /\ Cardinality(UsedBy(p)) \in Nat /\ \A a : Cardinality(Received(p, a)) \in Nat
        /\ \A k : Cardinality(OfKind(log, p, k)) \in Nat
    <3>1. UsedBy(p) \subseteq DOMAIN log /\ (\A a : Received(p, a) \subseteq DOMAIN log)
          /\ \A k : OfKind(log, p, k) \subseteq DOMAIN log
      BY DEF UsedBy, Received, OfKind, PurchasesOf
    <3> QED BY <1>3, <3>1, SomeOf
  <2>3. HoldingOK(holder[p])
    BY <1>0 DEF HolderInv
  <2>4. holder[p].held \in [Kinds -> Nat] /\ holder[p].bought \in [Kinds -> Nat] /\ holder[p].rows \in Seq(ShieldRow)
    BY <2>3 DEF HoldingOK, Holding
  <2>5. /\ holder'[p].bought = holder[p].bought
        /\ holder'[p].held["blackout"] = holder[p].held["blackout"] - (IF r.by = p THEN 1 ELSE 0)
        /\ holder'[p].held["shield"] + Len(holder'[p].rows) = holder[p].held["shield"] + Len(holder[p].rows)
        /\ ~ (t = p /\ shielded) => Absorbed(holder'[p]) = Absorbed(holder[p])
        /\ t = p /\ shielded => \E i \in Nat \ Absorbed(holder[p]) : Absorbed(holder'[p]) = Absorbed(holder[p]) \cup {i}
    <3>0. holder[p].held["blackout"] \in Nat
      BY <1>1, <2>4
    <3>1. CASE p = r.by
      BY <1>1, <1>7, <1>8, <3>1 DEF Absorbed
    <3>2. CASE p = t
      BY <1>1, <1>6, <1>9, <3>0, <3>2 DEF SameStock
    <3>3. CASE p # r.by /\ p # t
      <4>1. holder'[p] = holder[p]
        BY <1>9, <3>3
      <4> QED BY <3>0, <3>3, <4>1
    <3> QED BY <3>1, <3>2, <3>3
  <2>6. coins'[p] = Purse - Total(log', PurchasesOf(log', p))
    BY <2>0, <2>1, <1>2 DEF Accounted
  <2>7. \A k \in Kinds : holder'[p].bought[k] = Cardinality(OfKind(log', p, k))
    <3> TAKE k \in Kinds
    <3>1. holder[p].bought[k] = Cardinality(OfKind(log, p, k))
      BY <2>0 DEF Accounted
    <3> QED BY <2>1a, <2>2, <2>5, <3>1
  <2>8. holder'[p].held["blackout"] + Cardinality(UsedBy(p)') = holder'[p].bought["blackout"]
    <3>1. holder[p].held["blackout"] + Cardinality(UsedBy(p)) = holder[p].bought["blackout"]
      BY <2>0 DEF Accounted
    <3>2. holder[p].held["blackout"] \in Nat
      BY <1>1, <2>4
    <3> QED BY <2>1, <2>2, <2>5, <3>1, <3>2
  <2>9. holder'[p].held["shield"] + Len(holder'[p].rows) = holder'[p].bought["shield"]
    BY <2>0, <2>5 DEF Accounted
  <2>10. Len(dark'[p]) = Cardinality(Received(p, "use")')
    <3>1. Len(dark[p]) = Cardinality(Received(p, "use"))
      BY <2>0 DEF Accounted
    <3>2. Len(dark'[p]) = Len(dark[p]) + (IF t = p /\ how = "use" THEN 1 ELSE 0)
      <4>0. EndToEnd(dark[p]) /\ DOMAIN dark = People /\ Len(dark[p]) \in Nat
        BY <1>0 DEF DarkInv, EndToEnd
      <4>1. CASE t = p /\ ~shielded
        <5>1. dark'[p] = Stacked(dark[p], item["blackout"].seconds)
          BY <1>2, <4>0, <4>1
        <5>2. Len(Stacked(dark[p], item["blackout"].seconds)) = Len(dark[p]) + 1
          BY <1>0, <1>1, <4>0, PricesAre, StackedIs
        <5> QED BY <1>3, <4>1, <5>1, <5>2
      <4>2. CASE ~ (t = p /\ ~shielded)
        <5>1. dark'[p] = dark[p]
          BY <1>2, <4>0, <4>2
        <5> QED BY <1>3, <4>0, <4>2, <5>1
      <4> QED BY <4>1, <4>2
    <3> QED BY <2>1b, <3>1, <3>2
  <2>11. Cardinality(Absorbed(holder'[p])) = Cardinality(Received(p, "blocked")')
    <3>1. Cardinality(Absorbed(holder[p])) = Cardinality(Received(p, "blocked"))
      BY <2>0 DEF Accounted, Absorbed
    <3>2. IsFiniteSet(Absorbed(holder[p])) /\ Cardinality(Absorbed(holder[p])) \in Nat
      <4>1. Absorbed(holder[p]) \subseteq DOMAIN holder[p].rows
        BY DEF Absorbed
      <4> QED BY <2>4, <4>1, SomeOf
    <3>3. CASE t = p /\ shielded
      <4>1. PICK i \in Nat \ Absorbed(holder[p]) : Absorbed(holder'[p]) = Absorbed(holder[p]) \cup {i}
        BY <2>5, <3>3
      <4>2. Cardinality(Absorbed(holder'[p])) = Cardinality(Absorbed(holder[p])) + 1
        BY <3>2, <4>1, FS_AddElement
      <4> QED BY <1>3, <2>1b, <3>1, <3>3, <4>2
    <3>4. CASE ~ (t = p /\ shielded)
      BY <1>3, <2>1b, <2>2, <2>5, <3>1, <3>4
    <3> QED BY <3>3, <3>4
  <2> QED BY <2>6, <2>7, <2>8, <2>9, <2>10, <2>11 DEF Accounted, Absorbed
<1> QED BY <1>4, <1>10 DEF RecordInv

LEMMA RecordSame ==
  ASSUME RecordInv, UNCHANGED <<coins, holder, dark, log>>
  PROVE  RecordInv'
<1>1. ASSUME NEW p \in People
      PROVE  Accounted(p)'
  <2>1. UsedBy(p)' = UsedBy(p) /\ \A act : Received(p, act)' = Received(p, act)
    BY DEF UsedBy, Received
  <2>2. Accounted(p)
    BY DEF RecordInv
  <2> QED BY <2>1, <2>2 DEF Accounted
<1> QED BY <1>1 DEF RecordInv, OneEach

LEMMA RecordStarts == Init => RecordInv
<1> SUFFICES ASSUME NEW b \in Budgets, StartsFrom(b)
             PROVE  RecordInv
  BY DEF Init
<1>1. /\ log = b.log /\ log \in Seq(Earlier) /\ now \in Nat /\ CatalogueInv
      /\ \A i \in DOMAIN log : log[i].act = "buy" /\ log[i].target = None
  <2>1. log = b.log /\ log \in Seq(Earlier) /\ now = 0
    BY MarketAssumption DEF StartsFrom
  <2>2. CatalogueInv
    BY CatalogueStarts DEF StartsFrom
  <2> QED BY <2>1, <2>2, EarlierIsEvent
<1>2. OneEach
  BY <1>1, MarketAssumption DEF OneEach
<1>3. ASSUME NEW p \in People
      PROVE  Accounted(p)
  <2> DEFINE count == [k \in Kinds |-> Cardinality(OfKind(log, p, k))]
             h == [held |-> count, bought |-> count, rows |-> << >>]
  <2>1. HoldingOK(h) /\ holder[p] = Settle(h)
    BY <1>1, FirstHolding
  <2>2. SameStock(h, holder[p]) /\ Absorbed(holder[p]) = Absorbed(h)
    <3> HIDE DEF h
    <3> QED BY <1>1, <2>1, SettleIs
  <2>3. h.bought = count /\ h.held = count /\ h.rows = << >> /\ Absorbed(h) = {}
    BY DEF Absorbed
  <2>4. "blackout" \in Kinds /\ "shield" \in Kinds
    BY DEF Kinds
  <2>5. count \in [Kinds -> Nat]
    BY <2>1 DEF HoldingOK, Holding
  <2>6. \A k \in Kinds : holder[p].bought[k] = Cardinality(OfKind(log, p, k))
    BY <2>2, <2>3 DEF SameStock
  <2> HIDE DEF h, count
  <2>7. UsedBy(p) = {} /\ Received(p, "use") = {} /\ Received(p, "blocked") = {}
    <3>1. None \notin People
      BY MarketAssumption
    <3> QED BY <1>1, <3>1 DEF UsedBy, Received
  <2>8. holder[p].held["blackout"] + Cardinality(UsedBy(p)) = holder[p].bought["blackout"]
    BY <2>2, <2>3, <2>4, <2>5, <2>7, FS_EmptySet DEF SameStock
  <2>9. holder[p].held["shield"] + Len(holder[p].rows) = holder[p].bought["shield"]
    BY <2>2, <2>3, <2>4, <2>5 DEF SameStock
  <2>10. Len(dark[p]) = 0 /\ coins[p] = Purse - Total(log, PurchasesOf(log, p))
    BY <1>1 DEF StartsFrom
  <2> QED BY <2>2, <2>3, <2>6, <2>7, <2>8, <2>9, <2>10, FS_EmptySet DEF Accounted, Absorbed
<1> QED BY <1>2, <1>3 DEF RecordInv

LEMMA RecordStep ==
  ASSUME MarketInductive, RecordInv, [Next]_vars
  PROVE  RecordInv'
<1>1. ASSUME NEW p \in People, TickSettles(p)
      PROVE  RecordInv'
  <2>0. HolderInv /\ now \in Nat /\ CatalogueInv
    BY DEF MarketInductive, DarkInv
  <2>1. holder' = [holder EXCEPT ![p] = Settle(@)] /\ UNCHANGED <<coins, dark, log>>
    BY <1>1 DEF TickSettles
  <2>2. HoldingOK(holder[p]) /\ DOMAIN holder = People
    BY <2>0 DEF HolderInv
  <2>3. SameStock(holder[p], Settle(holder[p])) /\ Absorbed(Settle(holder[p])) = Absorbed(holder[p])
    BY <2>0, <2>2, SettleIs
  <2>4. \A q \in People : SameStock(holder[q], holder'[q]) /\ Absorbed(holder'[q]) = Absorbed(holder[q])
    <3> TAKE q \in People
    <3>1. CASE q = p
      BY <2>1, <2>2, <2>3, <3>1
    <3>2. CASE q # p
      <4>1. holder'[q] = holder[q]
        BY <2>1, <2>2, <3>2
      <4> QED BY <4>1 DEF SameStock
    <3> QED BY <3>1, <3>2
  <2>5. ASSUME NEW q \in People
        PROVE  Accounted(q)'
    <3>1. Accounted(q)
      BY DEF RecordInv
    <3> QED BY <2>1, <2>4, <3>1 DEF Accounted, SameStock, Absorbed, PurchasesOf, UsedBy, Received
  <2> QED BY <2>1, <2>5 DEF RecordInv, OneEach
<1>2. ASSUME NEW r \in requests, Served(r)
      PROVE  RecordInv'
  <2>0. RequestOK(r)
    BY DEF MarketInductive, WebInv, RequestsInv
  <2>1. CASE Refused(r) \/ Replayed(r)
    BY <1>2, <2>1, RecordSame DEF Served
  <2>2. CASE ~(Refused(r) \/ Replayed(r)) /\ r.act = "buy"
    BY <1>2, <2>0, <2>2, BuyAccounted DEF Served
  <2>3. CASE ~(Refused(r) \/ Replayed(r)) /\ r.act # "buy"
    <3>1. r.act = "use"
      BY <2>0, <2>3 DEF RequestOK
    <3> QED BY <1>2, <2>0, <2>3, <3>1, UseAccounted DEF Served, Refused
  <2> QED BY <2>1, <2>2, <2>3
<1>3. ASSUME \A p \in People : ~TickSettles(p), \A r \in requests : ~Served(r)
      PROVE  RecordInv'
  BY <1>3, RowsStay, RecordSame
<1> QED BY <1>1, <1>2, <1>3

LEMMA RecordFollows == MarketInductive /\ RecordInv => RecordExplains
<1> SUFFICES ASSUME MarketInductive, RecordInv, NEW p \in People
             PROVE  LET bought == PurchasesOf(log, p) IN
    /\ \A i, j \in bought \cup UsedBy(p) : log[i].id = log[j].id => i = j
    /\ coins[p] = Purse - Total(log, bought)
    /\ \A k \in Kinds : holder[p].bought[k] = Cardinality({i \in bought : log[i].kind = k})
    /\ holder[p].held["blackout"] + Cardinality(UsedBy(p)) = holder[p].bought["blackout"]
    /\ holder[p].held["shield"] + Len(holder[p].rows) = holder[p].bought["shield"]
    /\ Len(dark[p]) = Cardinality(Received(p, "use"))
    /\ Cardinality({i \in DOMAIN holder[p].rows : ShieldSummary(holder[p].rows[i]) = "absorbed an attack"})
         = Cardinality(Received(p, "blocked"))
  BY DEF RecordExplains
<1>1. \A i, j \in PurchasesOf(log, p) \cup UsedBy(p) : log[i].id = log[j].id => i = j
  <2>1. \A i \in PurchasesOf(log, p) \cup UsedBy(p) : i \in DOMAIN log /\ log[i].actor = p
    BY DEF PurchasesOf, UsedBy
  <2> QED BY <2>1 DEF RecordInv, OneEach
<1>2. {i \in DOMAIN holder[p].rows : ShieldSummary(holder[p].rows[i]) = "absorbed an attack"}
        = {i \in DOMAIN holder[p].rows : holder[p].rows[i].absorbed}
  BY DEF ShieldSummary
<1>3. Accounted(p)
  BY DEF RecordInv
<1> QED BY <1>1, <1>2, <1>3 DEF Accounted, OfKind

\* The organisers' record of a participant explains what they hold, to the coin and the
\* shield, however many requests were lost or came twice.
THEOREM RecordHolds == Spec => []RecordExplains
<1>1. Init => RecordInv
  BY RecordStarts
<1>2. MarketInductive /\ RecordInv /\ [Next]_vars => RecordInv'
  BY RecordStep
<1>3. MarketInductive /\ RecordInv => RecordExplains
  BY RecordFollows
<1> QED BY <1>1, <1>2, <1>3, MarketCorrect, PTL DEF Spec

-----------------------------------------------------------------------------
(* What an attack meets.                                                    *)

\* A blackout lands only where no shield is up and none that waits could be.
LEMMA LandsUnshielded ==
  ASSUME MarketInductive, [Next]_vars, NEW p \in People, Len(dark'[p]) > Len(dark[p])
  PROVE  /\ ~UpOf(holder[p])
         /\ holder[p].held["shield"] > 0 => ~LastsWell("shield", item["shield"].seconds)
<1>0. /\ CatalogueInv /\ HolderInv /\ DarkInv /\ now \in Nat /\ DOMAIN dark = People /\ HoldingOK(holder[p])
      /\ Len(dark[p]) \in Nat
  BY DEF MarketInductive, DarkInv, HolderInv, EndToEnd
<1>1. dark' # dark
  BY <1>0
<1>2. \A q \in People : ~TickSettles(q)
  BY <1>1 DEF TickSettles
<1>3. PICK r \in requests : Served(r)
  BY <1>1, <1>2, RowsStay
<1>4. RequestOK(r)
  BY DEF MarketInductive, WebInv, RequestsInv
<1>5. ~(Refused(r) \/ Replayed(r)) /\ r.act # "buy" /\ Uses(r)
  BY <1>1, <1>3 DEF Served, Buys
<1> DEFINE shielded == UpOf(Faced(holder[r.target]))
<1>6. dark' = IF shielded THEN dark ELSE [dark EXCEPT ![r.target] = Stacked(@, item["blackout"].seconds)]
  BY <1>5 DEF Uses
<1> HIDE DEF shielded
<1>7. ~shielded /\ p = r.target
  <2>1. ~shielded
    BY <1>1, <1>6
  <2>2. p # r.target => dark'[p] = dark[p]
    BY <1>0, <1>6, <2>1
  <2> QED BY <1>0, <2>1, <2>2
<1>8. ~UpOf(Settle(holder[p]))
  BY <1>7 DEF shielded, Faced
<1>9. (holder[p].held["shield"] = 0 \/ ~Startable) /\ ~UpOf(holder[p])
  BY <1>0, <1>8, SettleIs
<1> QED BY <1>9 DEF Startable

\* There is no moment between two shields in which an attack lands.
THEOREM ShieldsHold == Spec => ShieldTakesIt
<1>1. ASSUME MarketInductive, [Next]_vars
      PROVE  [\A p \in People :
                Len(dark'[p]) > Len(dark[p]) =>
                  /\ ~UpOf(holder[p])
                  /\ holder[p].held["shield"] > 0 => ~LastsWell("shield", item["shield"].seconds)]_vars
  BY <1>1, LandsUnshielded
<1> QED BY <1>1, MarketCorrect, PTL DEF Spec, ShieldTakesIt

-----------------------------------------------------------------------------
(* How long the breaks are.                                                 *)

LEMMA PauseStarts == Init => PauseInv
<1> SUFFICES ASSUME NEW b \in Budgets, StartsFrom(b)
             PROVE  PauseInv
  BY DEF Init
<1>1. \A p \in People : Len(rest[p]) = 0
  BY DEF StartsFrom
<1>2. \A o \in Organisers : form[o].of = None
  BY DEF StartsFrom, CatalogueInit, NoForm
<1> QED BY <1>1, <1>2, CatalogueAssumption DEF PauseInv, BreaksDouble, LeavesPause

\* Another organiser's form, and the rules if they are not saved, stay.
LEMMA OneFormLeaves ==
  ASSUME PauseInv, NEW o \in Organisers, \A x \in Organisers \ {o} : form'[x] = form[x], LeavesPause(form'[o])
  PROVE  \A x \in Organisers : LeavesPause(form'[x])
<1> TAKE x \in Organisers
<1>1. CASE x = o
  BY <1>1
<1>2. CASE x # o
  <2>1. form'[x] = form[x] /\ LeavesPause(form[x])
    BY <1>2 DEF PauseInv
  <2> QED BY <2>1
<1> QED BY <1>1, <1>2

LEMMA OrganiserLeavesPause ==
  ASSUME PauseStands, CatalogueInv, PauseInv, NEW o \in Organisers, Organiser(o) \/ OrganiserServed(o)
  PROVE  rule'.pause = rule.pause /\ \A x \in Organisers : LeavesPause(form'[x])
<1> DEFINE h == form[o]
           g == form'[o]
<1>0. /\ FormOK(h) /\ LeavesPause(h) /\ DOMAIN form = Organisers
      /\ h = [of |-> h.of, row |-> h.row, draft |-> h.draft, sent |-> h.sent]
      /\ "rules" # None /\ "pause" \in DOMAIN rule /\ DOMAIN h = {"of", "row", "draft", "sent"}
  BY CatalogueAssumption DEF CatalogueInv, RowsInv, FormsInv, FormOK, PauseInv, IsRow, ValuesOf, RuleValues
<1>1. ASSUME NEW of \in Kinds \cup {"rules"}, OpenForm(o, of)
      PROVE  rule' = rule /\ LeavesPause(g) /\ \A x \in Organisers \ {o} : form'[x] = form[x]
  <2>1. g.draft = << >> /\ g.sent = None
    BY <1>0, <1>1 DEF OpenForm, NoForm
  <2> QED BY <1>0, <1>1, <2>1 DEF OpenForm, LeavesPause
<1>2. ASSUME TypedRow(o) \/ TypedNumber(o)
      PROVE  rule' = rule /\ LeavesPause(g) /\ \A x \in Organisers \ {o} : form'[x] = form[x]
  <2>1. PICK f, v : Edit(o, f, v) /\ (h.of = "rules" => f # "pause")
    BY <1>2, CatalogueAssumption DEF TypedRow, TypedNumber, PauseStands, Kinds
  <2>2. g.of = h.of /\ g.sent = h.sent /\ g.draft = EditedTo(h.draft, f, v)
    BY <1>0, <2>1 DEF Edit
  <2>3. DOMAIN g.draft = DOMAIN h.draft \cup {f}
    BY <2>2 DEF EditedTo
  <2> QED BY <1>0, <2>1, <2>2, <2>3 DEF Edit, LeavesPause
<1>3. ASSUME Discard(o)
      PROVE  rule' = rule /\ LeavesPause(g) /\ \A x \in Organisers \ {o} : form'[x] = form[x]
  <2>1. g.of = h.of /\ g.sent = h.sent /\ g.draft = << >>
    BY <1>0, <1>3 DEF Discard
  <2> QED BY <1>0, <1>3, <2>1 DEF Discard, LeavesPause
<1>4. ASSUME NEW patch, NEW by, Send(o, patch, patch, by), h.of = "rules" => "pause" \notin DOMAIN patch
      PROVE  rule' = rule /\ LeavesPause(g) /\ \A x \in Organisers \ {o} : form'[x] = form[x]
  <2>1. g.of = h.of /\ g.draft = h.draft /\ g.sent.patch = patch
    BY <1>0, <1>4 DEF Send
  <2> QED BY <1>0, <1>4, <2>1 DEF Send, LeavesPause
<1>5. ASSUME Save(o) \/ SaveNumbers(o) \/ PutOnSale(o)
      PROVE  rule' = rule /\ LeavesPause(g) /\ \A x \in Organisers \ {o} : form'[x] = form[x]
  <2>1. \E patch, by : Send(o, patch, patch, by) /\ (h.of = "rules" => "pause" \notin DOMAIN patch)
    <3>1. CASE Save(o) \/ SaveNumbers(o)
      BY <1>0, <3>1 DEF Save, SaveNumbers, Patch, LeavesPause
    <3>2. CASE PutOnSale(o)
      BY <3>2 DEF PutOnSale, Kinds
    <3> QED BY <1>5, <3>1, <3>2
  <2> QED BY <1>4, <2>1
<1>6. ASSUME Flip(o)
      PROVE  rule' = rule /\ LeavesPause(g) /\ \A x \in Organisers \ {o} : form'[x] = form[x]
  <2>1. g.of = h.of /\ g.draft = h.draft /\ g.sent.patch = Switched(o)
    BY <1>0, <1>6 DEF Flip
  <2>2. "pause" \notin DOMAIN Switched(o)
    BY DEF Switched
  <2> QED BY <1>0, <1>6, <2>1, <2>2 DEF Flip, LeavesPause
<1>7. ASSUME SaveAnswered(o)
      PROVE  rule' = rule /\ LeavesPause(g) /\ \A x \in Organisers \ {o} : form'[x] = form[x]
  <2>1. g.of = h.of /\ g.sent = None /\ (g.draft = << >> \/ g.draft = h.draft)
    BY <1>0, <1>7 DEF SaveAnswered
  <2> QED BY <1>0, <1>7, <2>1 DEF SaveAnswered, LeavesPause
<1>8. ASSUME OrganiserServed(o)
      PROVE  rule'.pause = rule.pause /\ LeavesPause(g) /\ \A x \in Organisers \ {o} : form'[x] = form[x]
  <2>1. PICK lost : SaveServed(o, lost)
    BY <1>8 DEF OrganiserServed
  <2> DEFINE sent == h.sent
             at == IF Accepts(h.of, sent.patch) /\ ~lost THEN "saved" ELSE "failed"
  <2>2. SentOK(h.of, sent) /\ sent # None
    BY <1>0, <2>1 DEF SaveServed, FormOK, NoForm
  <2>3. form' = [form EXCEPT ![o].sent.at = at]
    BY <2>1 DEF SaveServed
  <2> HIDE DEF at
  <2>4. g.of = h.of /\ g.draft = h.draft /\ g.sent = [sent EXCEPT !.at = at]
    BY <1>0, <2>3
  <2>5. g.sent.patch = sent.patch
    BY <2>2, <2>4 DEF SentOK
  <2>6. rule'.pause = rule.pause
    <3>1. CASE rule' = rule
      BY <3>1
    <3>2. CASE h.of = "rules" /\ rule' = Onto(rule, sent.patch)
      <4>1. "pause" \notin DOMAIN sent.patch
        BY <1>0, <2>2, <3>2 DEF LeavesPause
      <4> QED BY <1>0, <3>2, <4>1 DEF Onto
    <3> QED BY <2>1, <3>1, <3>2 DEF SaveServed
  <2> QED BY <1>0, <2>2, <2>3, <2>4, <2>5, <2>6 DEF LeavesPause
<1>9. rule'.pause = rule.pause /\ LeavesPause(g) /\ \A x \in Organisers \ {o} : form'[x] = form[x]
  BY <1>1, <1>2, <1>3, <1>5, <1>6, <1>7, <1>8 DEF Organiser
<1> QED BY <1>9, OneFormLeaves

\* Only the organisers touch their forms and the rules.
LEMMA CatalogueUntouched ==
  ASSUME [Next]_vars, \A o \in Organisers : ~(Organiser(o) \/ OrganiserServed(o))
  PROVE  UNCHANGED catalogue
<1>1. ASSUME Going
      PROVE  UNCHANGED catalogue
  BY <1>1 DEF Going, TickScans, TickSettles, Show, LoadServed, LoadAnswered, Hear, Served, Replied
<1>2. ASSUME Tick \/ ContestMoves
      PROVE  UNCHANGED catalogue
  BY <1>2 DEF Tick, ContestMoves
<1>3. ASSUME NEW p \in People, Choice(p)
      PROVE  UNCHANGED catalogue
  BY <1>3 DEF Choice, PressBuy, PressUse, PressTarget, Click, Hide, Refresh
<1>4. ASSUME NEW p \in People, Checking(p) \/ ReachedZero(p) \/ CheckFailed(p)
                               \/ \E i \in DOMAIN page[p].loads : LoadFailed(p, i)
      PROVE  UNCHANGED catalogue
  BY <1>4 DEF Checking, Heartbeat, CheckServed, CheckAnswered, ReachedZero, CheckFailed, LoadFailed
<1>5. ASSUME NEW r \in requests, NeverReaches(r)
      PROVE  UNCHANGED catalogue
  BY <1>5 DEF NeverReaches
<1>6. ASSUME UNCHANGED vars
      PROVE  UNCHANGED catalogue
  BY <1>6 DEF vars
<1> QED BY <1>1, <1>2, <1>3, <1>4, <1>5, <1>6 DEF Next

\* What the breaks are after a step: as they were, or one more after an attack on t.
LEMMA BreaksMove ==
  ASSUME MarketInductive, [Next]_vars, rest' # rest
  PROVE  \E r \in requests :
           /\ Served(r) /\ Uses(r) /\ ~UseRefused(r.by, r.target) /\ RequestOK(r) /\ r.act = "use"
           /\ DOMAIN rest' = People
           /\ \A p \in People \ {r.target} : rest'[p] = rest[p]
           /\ \/ rest'[r.target] = rest[r.target]
              \/ rest'[r.target] = Append(rest[r.target],
                   [from |-> now, ends |-> IF rule.forever THEN None ELSE now + Doubled(r.target)])
<1>1. \A q \in People : ~TickSettles(q)
  BY DEF TickSettles
<1>2. PICK r \in requests : Served(r)
  BY <1>1, RowsStay
<1>3. RequestOK(r)
  BY DEF MarketInductive, WebInv, RequestsInv
<1>4. ~(Refused(r) \/ Replayed(r)) /\ r.act # "buy" /\ Uses(r)
  BY <1>2 DEF Served, Buys
<1>5. r.act = "use" /\ ~UseRefused(r.by, r.target)
  BY <1>3, <1>4 DEF RequestOK, Refused
<1>6. \E absorbed : rest' = Rested(r.target, absorbed)
  BY <1>4 DEF Uses
<1>7. CatalogueInv /\ now \in Nat /\ rest \in [People -> Seq(Break)] /\ r.target \in People
  BY <1>3, <1>5 DEF MarketInductive, DarkInv, EngineTypes, RequestOK
<1>8. PICK absorbed : rest' = Rested(r.target, absorbed)
  BY <1>6
<1>9. /\ Rested(r.target, absorbed) \in [People -> Seq(Break)]
      /\ \A p \in People \ {r.target} : Rested(r.target, absorbed)[p] = rest[p]
      /\ \/ Rested(r.target, absorbed)[r.target] = rest[r.target]
         \/ Rested(r.target, absorbed)[r.target] = Append(rest[r.target],
              [from |-> now, ends |-> IF rule.forever THEN None ELSE now + Doubled(r.target)])
  BY <1>7, RestedIs
<1> QED BY <1>2, <1>3, <1>4, <1>5, <1>8, <1>9

LEMMA PauseStep ==
  ASSUME PauseStands, MarketInductive, PauseInv, [Next]_vars
  PROVE  PauseInv'
<1>0. CatalogueInv /\ now \in Nat /\ rest \in [People -> Seq(Break)] /\ rule.pause \in Nat
  BY PauseIs DEF MarketInductive, DarkInv, EngineTypes
<1>1. rule'.pause = rule.pause /\ \A x \in Organisers : LeavesPause(form'[x])
  <2>1. CASE \E o \in Organisers : Organiser(o) \/ OrganiserServed(o)
    BY <1>0, <2>1, OrganiserLeavesPause
  <2>2. CASE ~ \E o \in Organisers : Organiser(o) \/ OrganiserServed(o)
    <3>1. rule' = rule /\ form' = form
      BY <2>2, CatalogueUntouched DEF catalogue
    <3> QED BY <3>1 DEF PauseInv
  <2> QED BY <2>1, <2>2
<1>2. CASE rest' = rest
  BY <1>1, <1>2 DEF PauseInv, BreaksDouble, LeavesPause
<1>3. CASE rest' # rest
  <2>1. PICK r \in requests :
           /\ RequestOK(r) /\ r.act = "use" /\ DOMAIN rest' = People
           /\ \A p \in People \ {r.target} : rest'[p] = rest[p]
           /\ \/ rest'[r.target] = rest[r.target]
              \/ rest'[r.target] = Append(rest[r.target],
                   [from |-> now, ends |-> IF rule.forever THEN None ELSE now + Doubled(r.target)])
    BY <1>3, BreaksMove
  <2> DEFINE t == r.target
             n == Len(rest[t])
             one == [from |-> now, ends |-> IF rule.forever THEN None ELSE now + Doubled(t)]
  <2>2. t \in People
    BY <2>1 DEF RequestOK
  <2>3. n \in Nat /\ Doubled(t) \in Nat /\ Doubled(t) = rule.pause * TwoTo(n)
    <3>1. n \in Nat
      BY <1>0, <2>2
    <3>2. Doubled(t) \in Nat
      BY <1>0, <2>2, RestedIs
    <3>3. Doubled(t) = rule.pause * TwoTo(n)
      BY DEF Doubled
    <3> QED BY <3>1, <3>2, <3>3
  <2>4. one \in Break /\ (one.ends # None => one.ends - one.from = rule.pause * TwoTo(n))
    BY <1>0, <2>3 DEF Break
  <2> HIDE DEF one
  <2>5. ASSUME NEW p \in People, NEW i \in 1..Len(rest'[p]), rest'[p][i].ends # None
        PROVE  rest'[p][i].ends - rest'[p][i].from = rule'.pause * TwoTo(i - 1)
    <3>1. CASE rest'[p] = rest[p]
      BY <1>1, <2>5, <3>1 DEF PauseInv, BreaksDouble
    <3>2. CASE p = t /\ rest'[t] = Append(rest[t], one)
      <4>1. /\ Len(rest'[p]) = n + 1 /\ rest'[p][n + 1] = one
            /\ \A j \in 1..n : rest'[p][j] = rest[p][j]
        BY <1>0, <2>2, <2>4, <3>2, AppendProperties
      <4>2. CASE i = n + 1
        <5>1. i - 1 = n /\ rest'[p][i] = one
          BY <2>3, <4>1, <4>2
        <5> QED BY <1>1, <2>4, <2>5, <5>1
      <4>3. CASE i # n + 1
        <5>1. i \in 1..n /\ rest'[p][i] = rest[p][i] /\ i \in 1..Len(rest[p])
          BY <2>3, <3>2, <4>1, <4>3
        <5> QED BY <1>1, <2>5, <5>1 DEF PauseInv, BreaksDouble
      <4> QED BY <4>2, <4>3
    <3> QED BY <2>1, <3>1, <3>2 DEF one
  <2>6. BreaksDouble'
    BY <2>5 DEF BreaksDouble
  <2> QED BY <1>1, <2>6 DEF PauseInv, LeavesPause
<1> QED BY <1>2, <1>3


\* Nobody is attacked in a break; the attack that reaches the cap starts one, twice as long
\* as the one before.
LEMMA PeaceGiven ==
  ASSUME MarketInductive, PauseInv, [Next]_vars, NEW p \in People, Len(log') > Len(log), log'[Len(log')].target = p
  PROVE  /\ ~OnBreak(p)
         /\ (rule.cap > 0 /\ log'[Len(log')].act \in Counted /\ Cardinality(Since(p)) >= rule.cap - 1)
              => Len(rest'[p]) = Len(rest[p]) + 1
         /\ \A i \in 1..(Len(rest'[p]) - 1) :
              (i = Len(rest[p]) /\ rest'[p][i + 1].ends # None)
              => rest'[p][i + 1].ends - rest'[p][i + 1].from >= 2 * (rest[p][i].ends - rest[p][i].from)
<1>0. /\ CatalogueInv /\ now \in Nat /\ rest \in [People -> Seq(Break)] /\ log \in Seq(Event)
      /\ rule.pause \in Nat /\ rule.cap \in Nat /\ None \notin People
  BY PauseIs, MarketAssumption DEF MarketInductive, DarkInv, EngineTypes
<1>1. \A q \in People : ~TickSettles(q)
  <2>1. log' # log
    BY <1>0
  <2> QED BY <2>1 DEF TickSettles
<1>2. PICK r \in requests : Served(r)
  <2>1. log' # log
    BY <1>0
  <2> QED BY <1>1, <2>1, RowsStay
<1>3. RequestOK(r)
  BY DEF MarketInductive, WebInv, RequestsInv
<1>4. ~(Refused(r) \/ Replayed(r))
  <2>1. log' # log
    BY <1>0
  <2> QED BY <1>2, <2>1 DEF Served
<1>5. r.act # "buy"
  <2>1. ASSUME Buys(r)
        PROVE  FALSE
    <3> DEFINE e == [act |-> "buy", kind |-> r.kind, actor |-> r.by, target |-> None,
                     cost |-> item[r.kind].price, id |-> r.id, at |-> now]
    <3>1. log' = Append(log, e) /\ e.target = None
      BY <2>1 DEF Buys
    <3> HIDE DEF e
    <3>2. log'[Len(log')] = e
      BY <1>0, <3>1
    <3> QED BY <1>0, <3>1, <3>2
  <2> QED BY <1>2, <1>4, <2>1 DEF Served
<1>6. Uses(r) /\ ~UseRefused(r.by, r.target)
  BY <1>2, <1>4, <1>5 DEF Served, Refused
<1> DEFINE shielded == UpOf(Faced(holder[r.target]))
           act == IF shielded THEN "blocked" ELSE "use"
           e == [act |-> act, kind |-> "blackout", actor |-> r.by, target |-> r.target, cost |-> 0, id |-> r.id, at |-> now]
<1>7. log' = Append(log, e) /\ e.target = r.target /\ e.act = act /\ rest' = Rested(r.target, shielded)
  BY <1>6 DEF Uses
<1> HIDE DEF e
<1>8. log'[Len(log')] = e /\ p = r.target
  <2>1. log'[Len(log')] = e
    BY <1>0, <1>7
  <2> QED BY <1>7, <2>1
<1>9. ~OnBreak(p)
  BY <1>6, <1>8 DEF UseRefused
<1> HIDE DEF shielded
<1> DEFINE n == Len(rest[p])
           one == [from |-> now, ends |-> IF rule.forever THEN None ELSE now + Doubled(p)]
<1>10. n \in Nat /\ Doubled(p) \in Nat /\ Doubled(p) = rule.pause * TwoTo(n)
  <2>1. n \in Nat
    BY <1>0
  <2>2. Doubled(p) \in Nat
    BY <1>0, RestedIs
  <2>3. Doubled(p) = rule.pause * TwoTo(n)
    BY DEF Doubled
  <2> QED BY <2>1, <2>2, <2>3
<1>11. one \in Break /\ (one.ends # None => one.ends - one.from = Doubled(p))
  BY <1>0, <1>10 DEF Break
<1>12. /\ Rested(p, shielded) = IF rule.cap > 0 /\ (shielded => rule.absorbed) /\ ReachesCap(p)
                                  THEN [rest EXCEPT ![p] = Append(@, one)] ELSE rest
  BY DEF Rested
<1> HIDE DEF one
<1>13. /\ Append(rest[p], one) \in Seq(Break) /\ Len(Append(rest[p], one)) = n + 1
       /\ Append(rest[p], one)[n + 1] = one
  BY <1>0, <1>11, AppendProperties
<1>14. ASSUME rule.cap > 0, log'[Len(log')].act \in Counted, Cardinality(Since(p)) >= rule.cap - 1
       PROVE  Len(rest'[p]) = n + 1
  <2>1. shielded => rule.absorbed
    BY <1>7, <1>8, <1>14 DEF Counted
  <2>2. Cardinality(Since(p)) \in Nat
    <3>1. Since(p) \subseteq DOMAIN log
      BY DEF Since
    <3> QED BY <1>0, <3>1, SomeOf
  <2>3. ReachesCap(p)
    BY <1>0, <1>14, <2>2 DEF ReachesCap
  <2>4. rest' = [rest EXCEPT ![p] = Append(@, one)]
    BY <1>7, <1>8, <1>12, <1>14, <2>1, <2>3
  <2> QED BY <1>0, <1>13, <2>4
<1>15. ASSUME NEW i \in 1..(Len(rest'[p]) - 1), i = n, rest'[p][i + 1].ends # None
       PROVE  rest'[p][i + 1].ends - rest'[p][i + 1].from >= 2 * (rest[p][i].ends - rest[p][i].from)
  <2>1. rest'[p] = Append(rest[p], one)
    <3>1. CASE rest' = rest
      BY <1>10, <1>15, <3>1
    <3>2. CASE rest' = [rest EXCEPT ![p] = Append(@, one)]
      BY <1>0, <3>2
    <3> QED BY <1>7, <1>8, <1>12, <3>1, <3>2
  <2>2. rest'[p][i + 1] = one /\ one.ends - one.from = rule.pause * TwoTo(n)
    BY <1>10, <1>11, <1>13, <1>15, <2>1
  <2>3. n > 0 /\ n - 1 \in Nat /\ n \in 1..n
    BY <1>10, <1>15
  <2>4. rest[p][n].ends # None
    <3>1. rest[p] # << >> /\ Last(rest[p]) = rest[p][n]
      BY <1>0, <2>3 DEF Last
    <3> QED BY <1>9, <3>1 DEF OnBreak
  <2>5. rest[p][n].ends - rest[p][n].from = rule.pause * TwoTo(n - 1)
    BY <2>3, <2>4 DEF PauseInv, BreaksDouble
  <2>6. TwoTo(n) = 2 * TwoTo(n - 1) /\ TwoTo(n - 1) \in Int
    <3>1. TwoTo(n - 1 + 1) = 2 * TwoTo(n - 1) /\ TwoTo(n - 1) \in Int
      BY <2>3, TwoToDoubles
    <3>2. n - 1 + 1 = n
      BY <1>10
    <3> QED BY <3>1, <3>2
  <2>7. rule.pause * TwoTo(n) = 2 * (rule.pause * TwoTo(n - 1))
    <3>1. \A a, b \in Int : a * (2 * b) = 2 * (a * b)
      OBVIOUS
    <3> QED BY <1>0, <2>6, <3>1
  <2>8. rule.pause * TwoTo(n - 1) \in Int
    <3>1. \A a, b \in Int : a * b \in Int
      OBVIOUS
    <3> QED BY <1>0, <2>6, <3>1
  <2> HIDE DEF n
  <2> QED BY <1>15, <2>2, <2>5, <2>7, <2>8
<1> QED BY <1>9, <1>14, <1>15

\* An attack meets what its target is entitled to: a shield, or a break, each break twice as
\* long as the one before, where the organisers leave its length alone.
THEOREM AttacksMeetTheRules ==
  ASSUME PauseStands
  PROVE  Spec => AttacksAsRuled
<1>1. Init => PauseInv
  BY PauseStarts
<1>2. MarketInductive /\ PauseInv /\ [Next]_vars => PauseInv'
  BY PauseStep
<1>3. ASSUME MarketInductive, PauseInv, [Next]_vars
      PROVE  [\A p \in People :
                (Len(log') > Len(log) /\ log'[Len(log')].target = p) =>
                  /\ ~OnBreak(p)
                  /\ (rule.cap > 0 /\ log'[Len(log')].act \in Counted /\ Cardinality(Since(p)) >= rule.cap - 1)
                       => Len(rest'[p]) = Len(rest[p]) + 1
                  /\ \A i \in 1..(Len(rest'[p]) - 1) :
                       (i = Len(rest[p]) /\ rest'[p][i + 1].ends # None)
                       => rest'[p][i + 1].ends - rest'[p][i + 1].from >= 2 * (rest[p][i].ends - rest[p][i].from)]_vars
  BY <1>3, PeaceGiven
<1> QED BY <1>1, <1>2, <1>3, MarketCorrect, ShieldsHold, PTL DEF Spec, AttacksAsRuled, HuntedGetPeace
=============================================================================
