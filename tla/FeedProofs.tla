------------------------------ MODULE FeedProofs ------------------------------
(***************************************************************************)
(* What a page may rely on, for any number of publishers, changes, failed  *)
(* requests and pruned rows.  The ids of the table first, then the lemmas  *)
(* about the operators that read it, then one invariant of the page's      *)
(* cursor, poll and re-read that every step keeps.                         *)
(***************************************************************************)
EXTENDS FeedProperties, FiniteSetTheorems, SequenceTheorems, WellFoundedInduction, TLAPS

\* Every row has an id of its own that the sequence has given; one row is inserted at a
\* time and its id is above every committed one.
TableInv ==
  /\ \A e \in event : e.id \in 1..lastId
  /\ \A d, e \in event : d.id = e.id => d = e
  /\ \A p \in Publishers : publisher[p].at = "inserting" =>
       /\ publisher[p].id = lastId
       /\ lastId # 0
       /\ \A e \in event : e.id # lastId
       /\ \A q \in Publishers : publisher[q].at = "inserting" => q = p

\* The bound on the changes holds of what is committed and of what has an id.
ChangesCounted ==
  /\ lastId + Cardinality(Unnumbered) <= MaxChanges
  /\ contest.auction + contest.announced <= lastId + Cardinality(Unnumbered)

\* The page knows of nothing that has not been published.
NothingAhead ==
  /\ cursor <= Latest /\ told.readAt <= Latest /\ told.failedAt <= Latest
  /\ reading.value.cursor <= reading.value.at /\ reading.value.at <= Latest
  /\ reading.at = "answered" => told.readAt <= reading.value.at
  /\ \A i \in DOMAIN told.heard : told.heard[i] <= cursor
  /\ seen = overlay.seen

\* An answer tells of what lies between the two cursors, in order, and of all of it
\* unless it says that some may be gone.
AnswerFits(a) ==
  /\ cursor <= a.cursor /\ a.cursor <= Latest
  /\ \A i \in DOMAIN a.events : cursor < a.events[i].id /\ a.events[i].id <= a.cursor
  /\ \A i, j \in DOMAIN a.events : i < j => a.events[i].id < a.events[j].id
  /\ ~a.reset =>
       \A e \in event : ToMe(e) /\ cursor < e.id /\ e.id <= a.cursor
                          => \E i \in DOMAIN a.events : a.events[i].id = e.id

\* The answer held still fits while it is held.
AnswerInv == poll.at # "idle" => page.at = "open" /\ AnswerFits(poll.answer)

\* A poll that waits for a re-read gets one that began after its answer, and after the
\* last failure.
RereadInv ==
  /\ poll.at = "rereading" =>
       /\ reading.at # "idle"
       /\ reading.at = "answered" /\ ~reading.again =>
            poll.answer.cursor <= reading.value.at /\ told.failedAt <= reading.value.at
  /\ poll.at = "reread" =>
       /\ reading.at = "idle"
       /\ poll.answer.cursor <= told.readAt /\ told.failedAt <= told.readAt

\* What the page relies on, beside the table and the types.
PageInv == NothingAhead /\ AnswerInv /\ RereadInv /\ NothingMissed /\ HeardOnceInOrder

FeedInductive == TypeOK /\ TableInv /\ ChangesCounted /\ PageInv

-----------------------------------------------------------------------------
(* Sets of numbers.                                                         *)

\* Every nonempty set of natural numbers has a least element.
LEMMA LeastNat ==
  ASSUME NEW S \in SUBSET Nat, S # {}
  PROVE  \E x \in S : \A y \in S : x <= y
<1>1. PICK x \in S : \A y \in S : ~ (<<y, x>> \in OpToRel(<, Nat))
  <2> DEFINE R == OpToRel(<, Nat)
  <2>1. IsWellFoundedOn(R, Nat)
    BY NatLessThanWellFounded
  <2> HIDE DEF R
  <2>2. \E x \in S : \A y \in S : ~ (<<y, x>> \in R)
    BY <2>1, WFMin
  <2> QED BY <2>2 DEF R
<1>2. \A y \in S : ~ (y < x)
  BY <1>1 DEF OpToRel
<1> QED BY <1>2

\* Min is what it is called.
LEMMA MinIsLeast ==
  ASSUME NEW S \in SUBSET Nat, S # {}
  PROVE  Min(S) \in S /\ \A y \in S : Min(S) <= y
BY LeastNat DEF Min

\* Max too, of a bounded set.
LEMMA MaxIsGreatest ==
  ASSUME NEW S \in SUBSET Nat, S # {}, NEW n \in Nat, \A x \in S : x <= n
  PROVE  Max(S) \in S /\ \A y \in S : y <= Max(S)
<1> DEFINE D == {m \in Nat : \E x \in S : m = n - x}
<1>1. PICK s \in S : TRUE
  OBVIOUS
<1>2. n - s \in D
  <2>1. s \in Nat /\ s <= n
    OBVIOUS
  <2> QED BY <2>1
<1>3. PICK d \in D : \A y \in D : d <= y
  BY <1>2, LeastNat
<1>4. PICK x \in S : d = n - x
  BY <1>3
<1>5. \A y \in S : y <= x
  <2> TAKE y \in S
  <2>1. y \in Nat /\ y <= n /\ x \in Nat /\ x <= n
    OBVIOUS
  <2>2. n - y \in D
    BY <2>1
  <2>3. d <= n - y
    BY <1>3, <2>2
  <2> QED BY <1>4, <2>1, <2>3
<1>6. \E z \in S : \A y \in S : z >= y
  BY <1>5
<1>7. Max(S) \in S /\ \A y \in S : Max(S) >= y
  BY <1>6 DEF Max
<1> QED BY <1>7

\* Ids are bounded.
LEMMA GreatestId ==
  ASSUME NEW S \in SUBSET Ids, S # {}
  PROVE  Max(S) \in S /\ \A y \in S : y <= Max(S)
<1>1. MaxChanges \in Nat /\ S \in SUBSET Nat /\ \A x \in S : x <= MaxChanges
  BY FeedAssumption DEF Ids
<1> QED BY <1>1, MaxIsGreatest

-----------------------------------------------------------------------------
(* What the table's readers return.                                         *)

\* The greatest id of some rows, or 0.
LEMMA GreatestOfRows ==
  ASSUME NEW rows \in SUBSET Row
  PROVE  LET m == Max({0} \cup {e.id : e \in rows}) IN
         /\ m \in Ids
         /\ \A e \in rows : e.id <= m
         /\ m = 0 \/ \E e \in rows : e.id = m
<1> DEFINE S == {0} \cup {e.id : e \in rows}
           m == Max(S)
<1>1. S \in SUBSET Ids /\ S # {}
  BY FeedAssumption DEF Row, Ids
<1> HIDE DEF S
<1>2. m \in S /\ \A y \in S : y <= m
  BY <1>1, GreatestId
<1> QED BY <1>1, <1>2 DEF S

\* Latest is the greatest id, or 0.
LEMMA LatestIsGreatest ==
  ASSUME event \subseteq Row
  PROVE  /\ Latest \in Ids
         /\ \A e \in event : e.id <= Latest
         /\ Latest = 0 \/ \E e \in event : e.id = Latest
BY GreatestOfRows DEF Latest

\* It only grows.
LEMMA LatestGrows ==
  ASSUME event \subseteq Row, event' \subseteq Row, event \subseteq event'
  PROVE  Latest' \in Ids /\ Latest <= Latest'
<1>1. Latest' \in Ids /\ \A e \in event' : e.id <= Latest'
  BY GreatestOfRows DEF Latest
<1>2. Latest \in Ids /\ (Latest = 0 \/ \E e \in event : e.id = Latest)
  BY LatestIsGreatest
<1> QED BY <1>1, <1>2, FeedAssumption DEF Ids

\* Newest is the greatest id in the table, which the greatest id ever is not behind.
LEMMA NewestIsGreatest ==
  ASSUME event \subseteq Row
  PROVE  /\ Newest \in Ids /\ Newest <= Latest
         /\ \A e \in Table : e.id <= Newest
<1> DEFINE S == {e.id : e \in Table}
<1>1. Latest \in Ids /\ \A e \in event : e.id <= Latest
  BY LatestIsGreatest
<1>2. S \in SUBSET Ids /\ Table \subseteq event
  BY DEF Table, Row
<1>3. CASE Table = {}
  BY <1>1, <1>3, FeedAssumption DEF Newest, Ids
<1>4. CASE Table # {}
  <2>1. S # {} /\ Newest = Max(S)
    BY <1>4 DEF Newest
  <2> HIDE DEF S
  <2>2. Newest \in S /\ \A y \in S : y <= Newest
    BY <1>2, <2>1, GreatestId
  <2> QED BY <1>1, <1>2, <2>2 DEF S
<1> QED BY <1>3, <1>4

Ordered(s, rows) ==
  /\ s \in [1..Cardinality(rows) -> rows]
  /\ \A i, j \in 1..Cardinality(rows) : i < j => s[i].id < s[j].id

\* The rows with an id below k can be put in order, if no two have the same id.
LEMMA RowsBelowInOrder ==
  ASSUME NEW rows \in SUBSET Row, \A d, e \in rows : d.id = e.id => d = e, NEW k \in Nat
  PROVE  /\ IsFiniteSet({e \in rows : e.id < k})
         /\ \E s : Ordered(s, {e \in rows : e.id < k})
<1> DEFINE Below(m) == {e \in rows : e.id < m}
           Good(m) == IsFiniteSet(Below(m)) /\ \E s : Ordered(s, Below(m))
<1>0. \A e \in rows : e.id \in Nat
  BY FeedAssumption DEF Row, Ids
<1>1. Good(0)
  <2>1. Below(0) = {}
    BY <1>0
  <2>2. IsFiniteSet({}) /\ Cardinality({}) = 0
    BY FS_EmptySet
  <2>3. Ordered(<< >>, {})
    BY <2>2 DEF Ordered
  <2> QED BY <2>1, <2>2, <2>3
<1>2. ASSUME NEW m \in Nat, Good(m) PROVE Good(m + 1)
  <2> DEFINE n == Cardinality(Below(m))
  <2>1. IsFiniteSet(Below(m)) /\ n \in Nat
    BY <1>2, FS_CardinalityType
  <2>2. PICK s : Ordered(s, Below(m))
    BY <1>2
  <2>3. s \in [1..n -> Below(m)] /\ \A i, j \in 1..n : i < j => s[i].id < s[j].id
    BY <2>2 DEF Ordered
  <2>4. CASE \E e \in rows : e.id = m
    <3>1. PICK e \in rows : e.id = m
      BY <2>4
    <3>2. Below(m + 1) = Below(m) \cup {e} /\ e \notin Below(m)
      BY <1>0, <3>1
    <3>3. IsFiniteSet(Below(m + 1)) /\ Cardinality(Below(m + 1)) = n + 1
      <4> DEFINE B == Below(m)
      <4>1. IsFiniteSet(B) /\ e \notin B /\ Below(m + 1) = B \cup {e}
        BY <2>1, <3>2
      <4> HIDE DEF B
      <4>2. IsFiniteSet(B \cup {e}) /\ Cardinality(B \cup {e}) = Cardinality(B) + 1
        BY <4>1, FS_AddElement
      <4> QED BY <4>1, <4>2 DEF B
    <3> DEFINE t == [i \in 1..(n + 1) |-> IF i <= n THEN s[i] ELSE e]
    <3>4. t \in [1..(n + 1) -> Below(m + 1)]
      BY <2>1, <2>3, <3>2
    <3>5. \A i, j \in 1..(n + 1) : i < j => t[i].id < t[j].id
      <4> TAKE i, j \in 1..(n + 1)
      <4> HAVE i < j
      <4>1. i \in 1..n /\ t[i] = s[i] /\ s[i] \in Below(m)
        BY <2>1, <2>3
      <4>2. CASE j \in 1..n
        BY <2>1, <2>3, <4>1, <4>2
      <4>3. CASE j = n + 1
        BY <2>1, <3>1, <4>1, <4>3
      <4> QED BY <2>1, <4>2, <4>3
    <3>6. Ordered(t, Below(m + 1))
      BY <3>3, <3>4, <3>5 DEF Ordered
    <3> QED BY <3>3, <3>6
  <2>5. CASE ~ \E e \in rows : e.id = m
    <3>1. Below(m + 1) = Below(m)
      BY <1>0, <2>5
    <3> QED BY <1>2, <3>1
  <2> QED BY <2>4, <2>5
<1> HIDE DEF Good
<1>3. Good(k)
  <2> DEFINE Bad == {m \in Nat : ~Good(m)}
  <2>1. SUFFICES ASSUME Bad # {} PROVE FALSE
    OBVIOUS
  <2>2. PICK m \in Bad : \A x \in Bad : m <= x
    BY <2>1, LeastNat
  <2>3. m # 0
    BY <1>1
  <2>4. m - 1 \in Nat /\ m - 1 \notin Bad /\ (m - 1) + 1 = m
    BY <2>2, <2>3
  <2>5. Good(m)
    BY <1>2, <2>4
  <2> QED BY <2>5
<1> QED BY <1>3 DEF Good

\* InOrder returns all the rows it is given, each once and in the order of their ids.
LEMMA InOrderLists ==
  ASSUME NEW rows \in SUBSET Row, \A d, e \in rows : d.id = e.id => d = e
  PROVE  LET s == InOrder(rows) IN
         /\ s \in Seq(Row)
         /\ \A i \in DOMAIN s : s[i] \in rows
         /\ \A i, j \in DOMAIN s : i < j => s[i].id < s[j].id
         /\ \A e \in rows : \E i \in DOMAIN s : s[i] = e
<1> DEFINE n == Cardinality(rows)
           Increasing(s) == \A i, j \in 1..n : i < j => s[i].id < s[j].id
<1>1. MaxChanges + 1 \in Nat /\ rows = {e \in rows : e.id < MaxChanges + 1}
  BY FeedAssumption DEF Row, Ids
<1>2. IsFiniteSet(rows) /\ \E s : Ordered(s, rows)
  <2>1. LET B == {e \in rows : e.id < MaxChanges + 1} IN IsFiniteSet(B) /\ \E s : Ordered(s, B)
    BY <1>1, RowsBelowInOrder
  <2> QED BY <1>1, <2>1
<1>3. InOrder(rows) \in [1..n -> rows] /\ Increasing(InOrder(rows))
  BY <1>2 DEF InOrder, Ordered
<1>4. n \in Nat
  BY <1>2, FS_CardinalityType
<1> DEFINE s == InOrder(rows)
<1>5. s \in Seq(Row) /\ DOMAIN s = 1..n
  BY <1>3, <1>4
<1>6. \A e \in rows : \E i \in 1..n : s[i] = e
  <2>1. \A i, j \in 1..n : s[i] = s[j] => i = j
    <3> TAKE i, j \in 1..n
    <3> HAVE s[i] = s[j]
    <3>1. s[i].id \in Nat
      BY <1>3, FeedAssumption DEF Row, Ids
    <3> QED BY <1>3, <1>4, <3>1
  <2>2. s \in Injection(1..n, rows)
    BY <1>3, <2>1 DEF Injection, IsInjective
  <2>3. Cardinality(1..n) = n
    BY <1>4, FS_Interval
  <2>4. s \in Surjection(1..n, rows)
    BY <1>2, <2>2, <2>3, FS_Injection
  <2> QED BY <2>4 DEF Surjection
<1> QED BY <1>3, <1>5, <1>6

\* An answer to a poll: the rows between the two cursors in order, all of them unless
\* some may be gone.
LEMMA SinceAnswers ==
  ASSUME TypeOK, TableInv, cursor <= Latest
  PROVE  Since(cursor) \in Answer /\ AnswerFits(Since(cursor))
<1> DEFINE rows == {e \in Table : e.id > cursor /\ e.name # "other"}
           es == InOrder(rows)
           a == Since(cursor)
<1>1. /\ event \subseteq Row /\ cursor \in Ids /\ Table \subseteq event
      /\ \A d, e \in event : d.id = e.id => d = e
  BY DEF TypeOK, TableInv, Table
<1>2. /\ rows \in SUBSET Row
      /\ \A d, e \in rows : d.id = e.id => d = e
  BY <1>1
<1>3. /\ es \in Seq(Row)
      /\ \A i \in DOMAIN es : es[i] \in rows
      /\ \A i, j \in DOMAIN es : i < j => es[i].id < es[j].id
      /\ \A e \in rows : \E i \in DOMAIN es : es[i] = e
  BY <1>2, InOrderLists
<1>4. Newest \in Ids /\ Newest <= Latest /\ \A e \in Table : e.id <= Newest
  BY <1>1, NewestIsGreatest
<1> DEFINE c == Max({cursor, Newest})
<1>5. c \in Ids /\ cursor <= c /\ Newest <= c /\ c <= Latest
  <2>1. {cursor, Newest} \in SUBSET Ids /\ {cursor, Newest} # {}
    BY <1>1, <1>4
  <2>2. c \in {cursor, Newest} /\ \A y \in {cursor, Newest} : y <= c
    BY <2>1, GreatestId
  <2> QED BY <1>1, <1>4, <2>2
<1>6. a.events = es /\ a.cursor = c /\ a.reset = Gap(cursor) /\ a \in Answer
  <2>1. Gap(cursor) \in BOOLEAN
    BY DEF Gap
  <2>2. a = [events |-> es, cursor |-> c, reset |-> Gap(cursor)]
    BY DEF Since
  <2> HIDE DEF es, c, a
  <2> QED BY <1>3, <1>5, <2>1, <2>2 DEF Answer
<1>7. \A i \in DOMAIN es : cursor < es[i].id /\ es[i].id <= c
  <2> TAKE i \in DOMAIN es
  <2>1. es[i] \in Table /\ es[i].id > cursor /\ es[i].id <= Newest /\ es[i].id \in Ids
    BY <1>1, <1>3, <1>4 DEF Row
  <2> HIDE DEF es, c
  <2> QED BY <1>1, <1>4, <1>5, <2>1, FeedAssumption DEF Ids
<1>8. ASSUME ~Gap(cursor), NEW e \in event, ToMe(e), cursor < e.id, e.id <= c
      PROVE  \E i \in DOMAIN es : es[i].id = e.id
  <2>1. e.id \in Nat /\ pruned \in Nat /\ cursor \in Nat /\ \A d \in Table : d.id \in Ids
    BY <1>1, FeedAssumption DEF TypeOK, Row, Ids
  <2>2. Table # {}
    <3>1. SUFFICES ASSUME Table = {} PROVE FALSE
      OBVIOUS
    <3>2. Newest = 0
      BY <3>1 DEF Newest
    <3>3. c \in {cursor, 0}
      BY <1>5, <3>2, <2>1, FeedAssumption DEF Ids, Max
    <3> QED BY <1>8, <2>1, <3>3
  <2> DEFINE S == {d.id : d \in Table}
  <2>3. S \in SUBSET Nat /\ S # {}
    BY <2>1, <2>2, FeedAssumption DEF Ids
  <2>4. Oldest \in S
    BY <2>3, MinIsLeast DEF Oldest
  <2>5. PICK d \in Table : d.id = Oldest
    BY <2>4
  <2>6. Oldest \in Nat /\ pruned < Oldest /\ Oldest - 1 <= cursor
    BY <1>8, <2>1, <2>2, <2>5, FeedAssumption DEF Gap, Table, Ids
  <2>7. e \in rows
    BY <1>8, <2>1, <2>6 DEF Table, ToMe
  <2> HIDE DEF es
  <2> QED BY <1>3, <2>7
<1> HIDE DEF es, c, a
<1>9. AnswerFits(a)
  BY <1>3, <1>5, <1>6, <1>7, <1>8 DEF AnswerFits
<1> QED BY <1>6, <1>9 DEF a

\* Cursors, ids and what they are compared with are numbers.
LEMMA CursorsAreIds ==
  ASSUME TypeOK
  PROVE  /\ cursor \in Int /\ told.readAt \in Int /\ told.failedAt \in Int
         /\ reading.value.at \in Int /\ reading.value.cursor \in Int
         /\ poll.answer.cursor \in Int
         /\ \A e \in event : e.id \in Int
         /\ \A i \in Ids : i \in Int
<1>1. \A i \in Ids : i \in Int
  BY FeedAssumption DEF Ids
<1>2. cursor \in Ids /\ \A e \in event : e.id \in Ids
  BY DEF TypeOK, Row
<1>3. told.readAt \in Ids /\ told.failedAt \in Ids
  BY DEF TypeOK
<1>4. reading.value.at \in Ids /\ reading.value.cursor \in Ids
  BY DEF TypeOK, StateRead
<1>5. poll.answer.cursor \in Ids
  BY DEF TypeOK, Answer
<1> QED BY <1>1, <1>2, <1>3, <1>4, <1>5

-----------------------------------------------------------------------------
(* The engine's steps.                                                      *)

\* How many changes wait for an id, before and after one joins them or leaves.
LEMMA UnnumberedCount ==
  /\ IsFiniteSet(Unnumbered) /\ Cardinality(Unnumbered) \in Nat
  /\ \A p : Cardinality(Unnumbered \cup {p})
              = IF p \in Unnumbered THEN Cardinality(Unnumbered) ELSE Cardinality(Unnumbered) + 1
  /\ \A p : Cardinality(Unnumbered \ {p})
              = IF p \in Unnumbered THEN Cardinality(Unnumbered) - 1 ELSE Cardinality(Unnumbered)
<1>1. IsFiniteSet(Unnumbered)
  <2>1. Unnumbered \in SUBSET Publishers
    BY DEF Unnumbered
  <2> QED BY <2>1, FeedAssumption, FS_Subset
<1> QED BY <1>1, FS_CardinalityType, FS_AddElement, FS_RemoveElement

\* The engine keeps the table's ids in order and the types.
LEMMA EngineKeepsTable ==
  ASSUME TypeOK, TableInv, ChangesCounted, Engine
  PROVE  TypeOK' /\ TableInv' /\ ChangesCounted'
<1> DEFINE Publisher == [at : {"idle", "committed", "publishing", "inserting"},
                         name : Names, value : Version, id : Ids]
           n == Cardinality(Unnumbered)
<1>0. /\ MaxChanges \in Nat /\ n \in Nat /\ lastId \in Ids /\ contest \in Contest
      /\ publisher \in [Publishers -> Publisher]
      /\ lastId + n <= MaxChanges
      /\ contest.auction + contest.announced <= lastId + n
  BY FeedAssumption, UnnumberedCount DEF TypeOK, ChangesCounted
<1>1. ASSUME NEW p \in Publishers, NEW name \in Names, Commit(p, name)
      PROVE  TypeOK' /\ TableInv' /\ ChangesCounted'
  <2>1. p \notin Unnumbered /\ Unnumbered' = Unnumbered \cup {p}
    BY <1>0, <1>1 DEF Commit, Unnumbered, Idle
  <2>2. Cardinality(Unnumbered') = n + 1
    BY <2>1, UnnumberedCount
  <2>3. lastId' = lastId /\ lastId + n < MaxChanges
    BY <1>1 DEF Commit
  <2>4. /\ contest' \in [auction : Nat, announced : Nat]
        /\ contest'.auction + contest'.announced <= contest.auction + contest.announced + 1
    BY <1>0, <1>1 DEF Commit, Names, Contest, Version
  <2>5. contest' \in Contest
    BY <1>0, <2>3, <2>4 DEF Contest, Version, Ids
  <2>6. publisher' \in [Publishers -> Publisher]
    <3> DEFINE r == [Idle EXCEPT !.at = IF name = "auction" THEN "committed" ELSE "publishing",
                                 !.name = name]
    <3>1. 0 \in Ids /\ 0 \in Version
      BY <1>0 DEF Ids, Version
    <3>2. r \in Publisher
      BY <3>1 DEF Idle
    <3>3. publisher' = [publisher EXCEPT ![p] = r]
      BY <1>1 DEF Commit
    <3> HIDE DEF r
    <3> QED BY <1>0, <3>2, <3>3
  <2>7. TypeOK'
    BY <1>1, <2>3, <2>5, <2>6 DEF TypeOK, Commit, copy, polling
  <2>8. TableInv'
    BY <1>0, <1>1 DEF TableInv, Commit, Idle
  <2>9. ChangesCounted'
    BY <1>0, <2>2, <2>3, <2>4, <2>5 DEF ChangesCounted, Ids, Contest, Version
  <2> QED BY <2>7, <2>8, <2>9
<1>2. ASSUME NEW p \in Publishers, ReadSnapshot(p)
      PROVE  TypeOK' /\ TableInv' /\ ChangesCounted'
  <2>1. Unnumbered' = Unnumbered /\ publisher' \in [Publishers -> Publisher]
    BY <1>0, <1>2 DEF ReadSnapshot, Unnumbered, Contest
  <2>2. TypeOK'
    BY <1>2, <2>1 DEF TypeOK, ReadSnapshot, copy, polling
  <2>3. TableInv'
    BY <1>0, <1>2 DEF TableInv, ReadSnapshot
  <2>4. ChangesCounted'
    BY <1>2, <2>1 DEF ChangesCounted, ReadSnapshot
  <2> QED BY <2>2, <2>3, <2>4
<1>3. ASSUME NEW p \in Publishers, Insert(p)
      PROVE  TypeOK' /\ TableInv' /\ ChangesCounted'
  <2>1. p \in Unnumbered /\ Unnumbered' = Unnumbered \ {p}
    BY <1>0, <1>3 DEF Insert, Unnumbered
  <2>2. Cardinality(Unnumbered') = n - 1 /\ Cardinality(Unnumbered') \in Nat
    BY <2>1, UnnumberedCount, FS_RemoveElement, FS_CardinalityType
  <2>3. lastId' = lastId + 1 /\ lastId' \in Ids
    BY <1>0, <1>3, <2>2 DEF Insert, Ids
  <2>4. publisher' \in [Publishers -> Publisher]
    BY <1>0, <1>3, <2>3 DEF Insert
  <2>5. TypeOK'
    BY <1>3, <2>3, <2>4 DEF TypeOK, Insert, copy, polling
  <2>6. \A e \in event : e.id \in 1..lastId
    BY DEF TableInv
  <2>7. TableInv'
    BY <1>0, <1>3, <2>3, <2>6 DEF TableInv, Insert, EventLockFree, Ids
  <2>8. ChangesCounted'
    BY <1>0, <1>3, <2>2, <2>3 DEF ChangesCounted, Insert, Ids
  <2> QED BY <2>5, <2>7, <2>8
<1>4. ASSUME NEW p \in Publishers, Publish(p)
      PROVE  TypeOK' /\ TableInv' /\ ChangesCounted'
  <2> DEFINE row == [id |-> publisher[p].id, name |-> publisher[p].name,
                     value |-> publisher[p].value]
  <2>1. publisher' = [publisher EXCEPT ![p] = Idle] /\ publisher[p].at = "inserting"
        /\ lastId' = lastId /\ contest' = contest
    BY <1>4 DEF Publish
  <2>2. publisher' \in [Publishers -> Publisher] /\ Unnumbered' = Unnumbered
    BY <1>0, <2>1 DEF Idle, Unnumbered, Names, Ids, Version
  <2>3. event' \subseteq event \cup {row} /\ row \in Row /\ row.id = lastId /\ lastId # 0
    BY <1>0, <1>4 DEF Publish, Row, TableInv
  <2>4. told' \in [heard : Seq(Ids), readAt : Ids, failedAt : Ids, lost : BOOLEAN]
    BY <1>4 DEF Publish, TypeOK
  <2>5. TypeOK'
    BY <1>4, <2>1, <2>2, <2>3, <2>4 DEF TypeOK, Publish, copy, polling
  <2>6. ChangesCounted'
    BY <2>1, <2>2 DEF ChangesCounted
  <2>7. TableInv'
    <3>1. \A e \in event' : e.id \in 1..lastId
      BY <1>0, <2>3 DEF TableInv, Ids
    <3>2. \A d, e \in event' : d.id = e.id => d = e
      BY <2>1, <2>3 DEF TableInv
    <3>3. \A q \in Publishers : publisher'[q].at # "inserting"
      BY <1>0, <2>1 DEF TableInv, Idle
    <3> QED BY <2>1, <3>1, <3>2, <3>3 DEF TableInv
  <2> QED BY <2>5, <2>6, <2>7
<1>5. ASSUME Prune
      PROVE  TypeOK' /\ TableInv' /\ ChangesCounted'
  <2>1. pruned' \in Ids
    BY <1>5 DEF Prune, Table, TypeOK, Row
  <2>2. TypeOK'
    BY <1>5, <2>1 DEF TypeOK, Prune, copy, polling
  <2> QED BY <1>5, <2>2 DEF Prune, TableInv, ChangesCounted, Unnumbered
<1> QED BY <1>1, <1>2, <1>3, <1>4, <1>5 DEF Engine

\* A row that is published is newer than all before it, and pages are left alone.
LEMMA EngineOnlyAdds ==
  ASSUME TypeOK, TableInv, TypeOK', Engine
  PROVE  /\ event \subseteq event' /\ Latest <= Latest'
         /\ \A e \in event' \ event : Latest < e.id
         /\ UNCHANGED <<page, copy, polling, overlay, seen>>
         /\ told'.heard = told.heard /\ told'.readAt = told.readAt
         /\ told'.failedAt = told.failedAt
<1>0. /\ event \subseteq Row /\ event' \subseteq Row
      /\ told \in [heard : Seq(Ids), readAt : Ids, failedAt : Ids, lost : BOOLEAN]
  BY DEF TypeOK
<1>1. CASE event' = event /\ told' = told /\ UNCHANGED <<page, copy, polling, overlay, seen>>
  BY <1>0, <1>1, LatestGrows
<1>2. ASSUME NEW p \in Publishers, Publish(p)
      PROVE  /\ event \subseteq event'
             /\ \A e \in event' \ event : Latest < e.id
             /\ UNCHANGED <<page, copy, polling, overlay, seen>>
             /\ told'.heard = told.heard /\ told'.readAt = told.readAt
             /\ told'.failedAt = told.failedAt
  <2>1. \A e \in event' \ event : e.id = lastId
    BY <1>2 DEF Publish, TableInv
  <2>2. /\ lastId \in Nat /\ lastId # 0
        /\ \A e \in event : e.id \in 1..lastId /\ e.id # lastId
    <3>1. lastId \in Nat
      BY FeedAssumption DEF TypeOK, Ids
    <3>2. publisher[p].at = "inserting"
      BY <1>2 DEF Publish
    <3> QED BY <3>1, <3>2 DEF TableInv
  <2>3. Latest < lastId
    BY <1>0, <2>2, LatestIsGreatest
  <2>4. told'.heard = told.heard /\ told'.readAt = told.readAt /\ told'.failedAt = told.failedAt
    BY <1>0, <1>2 DEF Publish
  <2> QED BY <1>2, <2>1, <2>3, <2>4 DEF Publish
<1>3. CASE \E p \in Publishers : Publish(p)
  BY <1>0, <1>2, <1>3, LatestGrows
<1> QED BY <1>1, <1>3 DEF Engine, Commit, ReadSnapshot, Insert, Prune

\* So what a page relies on stays.
LEMMA EngineKeepsPage ==
  ASSUME TypeOK, TableInv, TypeOK', PageInv, Engine
  PROVE  PageInv'
<1>1. /\ event \subseteq event' /\ Latest <= Latest'
      /\ \A e \in event' \ event : Latest < e.id
      /\ UNCHANGED <<page, copy, polling, overlay, seen>>
      /\ told'.heard = told.heard /\ told'.readAt = told.readAt
      /\ told'.failedAt = told.failedAt
  BY EngineOnlyAdds
<1>2. /\ page' = page /\ reading' = reading /\ cursor' = cursor /\ poll' = poll
      /\ overlay' = overlay /\ seen' = seen
  BY <1>1 DEF copy, polling
<1>3. /\ cursor \in Int /\ told.readAt \in Int /\ told.failedAt \in Int
      /\ reading.value.at \in Int /\ reading.value.cursor \in Int
      /\ poll.answer.cursor \in Int
      /\ \A e \in event' : e.id \in Int
  <2>1. \A e \in event' : e.id \in Ids
    BY DEF TypeOK, Row
  <2> QED BY <2>1, CursorsAreIds
<1>4. Latest \in Int /\ Latest' \in Int
  BY <1>1, FeedAssumption, LatestIsGreatest, LatestGrows DEF TypeOK, Ids
<1>5. NothingAhead'
  BY <1>1, <1>2, <1>3, <1>4 DEF PageInv, NothingAhead
<1>6. AnswerInv'
  <2>1. SUFFICES ASSUME poll.at # "idle", AnswerFits(poll.answer) PROVE AnswerFits(poll.answer)'
    BY <1>2 DEF PageInv, AnswerInv
  <2>2. \A e \in event' : e.id <= poll.answer.cursor => e \in event
    BY <1>1, <1>3, <1>4, <2>1 DEF AnswerFits
  <2> QED BY <1>1, <1>2, <1>3, <1>4, <2>1, <2>2 DEF AnswerFits
<1>7. RereadInv'
  BY <1>1, <1>2 DEF PageInv, RereadInv
<1>8. NothingMissed'
  <2>1. \A e \in event' : e.id <= cursor => e \in event
    BY <1>1, <1>3, <1>4 DEF PageInv, NothingAhead
  <2> QED BY <1>1, <1>2, <2>1 DEF PageInv, NothingMissed, ToMe
<1>9. HeardOnceInOrder'
  BY <1>1 DEF PageInv, HeardOnceInOrder
<1> QED BY <1>5, <1>6, <1>7, <1>8, <1>9 DEF PageInv

-----------------------------------------------------------------------------
(* The page's steps keep the types.                                         *)

Reading == [at : {"idle", "asked", "answered"}, again : BOOLEAN, value : StateRead]
Poll == [at : {"idle", "answered", "rereading", "reread"}, answer : Answer]
Told == [heard : Seq(Ids), readAt : Ids, failedAt : Ids, lost : BOOLEAN]

\* Nothing read, nothing polled.
LEMMA Zeroes ==
  0 \in Ids /\ 0 \in Version /\ Version = Ids /\ NoReading \in Reading /\ NoPoll \in Poll
<1>1. 0 \in Ids /\ 0 \in Version /\ Version = Ids
  BY FeedAssumption DEF Ids, Version
<1>2. << >> \in Seq(Row)
  OBVIOUS
<1> QED BY <1>1, <1>2 DEF NoReading, NoPoll, Reading, Poll, StateRead, Answer

\* refresh: a re-read is under way, and the value held is forgotten or kept.
LEMMA RefreshAsks ==
  ASSUME NEW r \in Reading
  PROVE  /\ Refresh(r) \in Reading /\ Refresh(r).at # "idle"
         /\ Refresh(r).at = "answered" => /\ r.at = "answered" /\ Refresh(r).again
                                          /\ Refresh(r).value = r.value
         /\ Refresh(r).value = r.value \/ Refresh(r).value = NoReading.value
<1>1. [NoReading EXCEPT !.at = "asked"] \in Reading
  BY Zeroes DEF Reading
<1> QED BY <1>1, Zeroes DEF Refresh, Reading, NoReading

\* However often it is called.
LEMMA RefreshTimesAsks ==
  ASSUME NEW r \in Reading, NEW n
  PROVE  /\ RefreshTimes(r, n) \in Reading
         /\ RefreshTimes(r, n).at = "answered" => /\ r.at = "answered"
                                                  /\ RefreshTimes(r, n).value = r.value
         /\ RefreshTimes(r, n).value = r.value \/ RefreshTimes(r, n).value = NoReading.value
<1>1. Refresh(r) \in Reading /\ Refresh(Refresh(r)) \in Reading
  BY RefreshAsks
<1> QED BY <1>1, RefreshAsks DEF RefreshTimes

\* state_for reads values of their types.
LEMMA StateNowType ==
  ASSUME TypeOK
  PROVE  /\ StateNow \in StateRead
         /\ StateNow.cursor <= StateNow.at /\ StateNow.at = Latest
BY LatestIsGreatest, NewestIsGreatest DEF TypeOK, StateNow, StateRead, Contest

\* A page that mounts, or hears of announcements, queues known ones.
LEMMA InterruptType ==
  ASSUME TypeOK, NEW n \in Version, Interrupt(n)
  PROVE  /\ overlay' \in [seen : Version, queue : Seq(Version)] /\ seen' \in Version
         /\ seen = overlay.seen => seen' = overlay'.seen
<1>1. overlay.seen \in Version /\ overlay.queue \in Seq(Version) /\ seen \in Version
      /\ MaxChanges \in Nat /\ overlay \in [seen : Version, queue : Seq(Version)]
  BY FeedAssumption DEF TypeOK
<1>2. CASE n > overlay.seen
  <2> DEFINE new == [i \in 1..(n - overlay.seen) |-> overlay.seen + i]
  <2>1. new \in Seq(Version)
    <3>1. n - overlay.seen \in Nat /\ \A i \in 1..(n - overlay.seen) : overlay.seen + i \in Version
      BY <1>1, <1>2 DEF Version
    <3>2. new \in [1..(n - overlay.seen) -> Version]
      BY <3>1
    <3> QED BY <3>1, <3>2
  <2>2. overlay.queue \o new \in Seq(Version)
    BY <1>1, <2>1, ConcatProperties
  <2>3. overlay' = [seen |-> n, queue |-> overlay.queue \o new] /\ seen' = n
    BY <1>2 DEF Interrupt
  <2> HIDE DEF new
  <2> QED BY <2>2, <2>3
<1>3. CASE ~(n > overlay.seen)
  BY <1>1, <1>3 DEF Interrupt
<1> QED BY <1>2, <1>3

\* What it queues is newer than what this browser has shown.
LEMMA InterruptQueues ==
  ASSUME TypeOK, seen = overlay.seen, NEW n \in Version, Interrupt(n),
         NEW i \in DOMAIN overlay'.queue
  PROVE  \/ overlay'.queue[i] > seen
         \/ \E j \in DOMAIN overlay.queue : overlay.queue[j] = overlay'.queue[i]
<1>1. overlay.seen \in Nat /\ n \in Nat /\ overlay.queue \in Seq(Int)
  <2>1. Version \subseteq Nat /\ overlay.queue \in Seq(Version) /\ overlay.seen \in Version
    BY FeedAssumption DEF TypeOK, Version
  <2>2. Version \subseteq Int
    BY <2>1
  <2> QED BY <2>1, <2>2, SeqMonotonic
<1>2. CASE n > overlay.seen
  <2> DEFINE new == [k \in 1..(n - overlay.seen) |-> overlay.seen + k]
  <2>1. overlay'.queue = overlay.queue \o new
    <3>1. overlay' = [seen |-> n, queue |-> overlay.queue \o new]
      BY <1>2 DEF Interrupt
    <3> HIDE DEF new
    <3> QED BY <3>1
  <2>2. n - overlay.seen \in Nat /\ \A k \in 1..(n - overlay.seen) : new[k] \in Int /\ new[k] > seen
    BY <1>1, <1>2
  <2>3. new \in Seq(Int) /\ Len(new) = n - overlay.seen
    <3>1. new \in [1..(n - overlay.seen) -> Int]
      BY <1>1, <2>2
    <3> HIDE DEF new
    <3> QED BY <2>2, <3>1
  <2> HIDE DEF new
  <2>4. i \in 1..(Len(overlay.queue) + Len(new)) /\ Len(overlay.queue) \in Nat
    BY <1>1, <2>1, <2>3, ConcatProperties
  <2>5. (overlay.queue \o new)[i]
          = IF i <= Len(overlay.queue) THEN overlay.queue[i] ELSE new[i - Len(overlay.queue)]
    BY <1>1, <2>3, <2>4, ConcatProperties
  <2>6. CASE i <= Len(overlay.queue)
    <3>1. i \in DOMAIN overlay.queue
      BY <1>1, <2>4, <2>6
    <3> QED BY <2>1, <2>5, <2>6, <3>1
  <2>7. CASE ~(i <= Len(overlay.queue))
    <3>1. i - Len(overlay.queue) \in 1..(n - overlay.seen)
      <4> DEFINE a == Len(overlay.queue)
                 b == n - overlay.seen
      <4>1. a \in Nat /\ b \in Nat /\ i \in 1..(a + b) /\ ~(i <= a)
        BY <2>2, <2>3, <2>4, <2>7
      <4> HIDE DEF a, b
      <4>2. i - a \in 1..b
        BY <4>1
      <4> QED BY <4>2 DEF a, b
    <3> QED BY <2>1, <2>2, <2>5, <2>7, <3>1
  <2> QED BY <2>6, <2>7
<1>3. CASE ~(n > overlay.seen)
  BY <1>3 DEF Interrupt
<1> QED BY <1>2, <1>3

\* Every step of the page keeps the types.
LEMMA BrowserKeepsTypes ==
  ASSUME TypeOK, TableInv, cursor <= Latest, Browser
  PROVE  TypeOK'
<1>0. /\ event \subseteq Row /\ reading \in Reading /\ poll \in Poll /\ told \in Told
      /\ state \in Contest /\ page \in [at : {"closed", "loading", "open"}, opened : 0..MaxOpens]
      /\ Latest \in Ids
  BY LatestIsGreatest DEF TypeOK, Reading, Poll, Told
<1>1. CASE Open
  <2>1. page' \in [at : {"closed", "loading", "open"}, opened : 0..MaxOpens]
    BY <1>0, <1>1, FeedAssumption DEF Open
  <2>2. reading' \in Reading /\ poll' \in Poll
    BY <1>1, Zeroes, StateNowType DEF Open, Reading
  <2> QED BY <1>1, <2>1, <2>2 DEF Open, TypeOK, Reading, Poll, server
<1>2. CASE Mount
  <2>1. reading.value \in StateRead /\ seen \in Version
    BY <1>0 DEF Reading, TypeOK
  <2>2. Max({seen, reading.value.announced}) \in Version
    <3>1. {seen, reading.value.announced} \in SUBSET Ids
      BY <2>1, Zeroes DEF StateRead
    <3> QED BY <3>1, GreatestId, Zeroes
  <2>3. overlay' \in [seen : Version, queue : Seq(Version)] /\ seen' \in Version
    BY <1>2, <2>2 DEF Mount
  <2>4. /\ page' \in [at : {"closed", "loading", "open"}, opened : 0..MaxOpens]
        /\ state' \in Contest /\ cursor' \in Ids /\ reading' \in Reading /\ failures' \in Nat
        /\ connection' = "connecting"
    BY <1>0, <1>2, <2>1, Zeroes DEF Mount, StateRead, Contest, InitialCursor
  <2>5. told' \in Told
    BY <1>0, <1>2, <2>1, Zeroes DEF Mount, StateRead, Told
  <2> QED BY <1>2, <2>3, <2>4, <2>5 DEF Mount, TypeOK, Reading, Told, server
<1>3. CASE Dismiss
  <2>1. overlay' \in [seen : Version, queue : Seq(Version)]
    <3>1. overlay \in [seen : Version, queue : Seq(Version)] /\ overlay.queue # << >>
      BY <1>3 DEF TypeOK, Dismiss
    <3>2. Tail(overlay.queue) \in Seq(Version)
      BY <3>1, HeadTailProperties
    <3> QED BY <1>3, <3>1, <3>2 DEF Dismiss
  <2> QED BY <1>3, <2>1 DEF Dismiss, TypeOK, server, copy, polling
<1>4. CASE PollServed
  <2>1. poll' \in Poll
    BY <1>4, SinceAnswers DEF PollServed, Poll
  <2> QED BY <1>4, <2>1 DEF PollServed, TypeOK, Poll, server, copy
<1>5. ASSUME CaughtByTick
      PROVE  /\ failures' \in Nat /\ connection' \in {"connecting", "open", "lost"}
             /\ poll' \in Poll /\ told' \in Told
  BY <1>0, <1>5, Zeroes DEF CaughtByTick, TypeOK, Told
<1>6. CASE PollFails
  BY <1>5, <1>6 DEF PollFails, TypeOK, Poll, Told, server, copy
<1>7. CASE PollRereads
  <2>1. reading' \in Reading /\ poll' \in Poll
    BY <1>0, <1>7, RefreshAsks DEF PollRereads, Poll
  <2> QED BY <1>7, <2>1 DEF PollRereads, TypeOK, Reading, Poll, server
<1>8. CASE PollApplied
  <2> DEFINE es == poll.answer.events
             snapshots == {i \in DOMAIN es : es[i].name = "auction"}
             announced == {i \in DOMAIN es : es[i].name = "announce"}
  <2>1. es \in Seq(Row) /\ poll.answer.cursor \in Ids
    BY <1>0 DEF Poll, Answer
  <2>2. state' \in Contest
    <3>1. state' = IF snapshots = {} THEN state
                   ELSE [state EXCEPT !.auction = es[Max(snapshots)].value]
      BY <1>8 DEF PollApplied
    <3>2. CASE snapshots # {}
      <4>1. Max(snapshots) \in snapshots
        <5>1. Len(es) \in Nat /\ snapshots \in SUBSET Nat /\ \A i \in snapshots : i <= Len(es)
          BY <2>1
        <5> HIDE DEF snapshots
        <5> QED BY <3>2, <5>1, MaxIsGreatest
      <4>2. es[Max(snapshots)] \in Row
        <5>1. Max(snapshots) \in DOMAIN es
          BY <4>1
        <5> HIDE DEF snapshots, es
        <5> QED BY <2>1, <5>1
      <4> HIDE DEF snapshots, es
      <4> QED BY <1>0, <3>1, <3>2, <4>2 DEF Row, Contest
    <3> HIDE DEF snapshots, es
    <3> QED BY <1>0, <3>1, <3>2
  <2>3. reading' \in Reading
    <3>1. reading' = RefreshTimes(reading, Cardinality(announced))
      BY <1>8 DEF PollApplied
    <3> QED BY <1>0, <3>1, RefreshTimesAsks
  <2>4. told' \in Told
    <3> DEFINE ids == [i \in DOMAIN es |-> es[i].id]
    <3>1. ids \in Seq(Ids)
      <4> HIDE DEF es
      <4>1. \A i \in 1..Len(es) : es[i].id \in Ids
        <5>1. \A i \in 1..Len(es) : es[i] \in Row
          BY <2>1
        <5> QED BY <5>1 DEF Row
      <4>2. Len(es) \in Nat /\ DOMAIN es = 1..Len(es)
        BY <2>1
      <4>3. ids \in [1..Len(es) -> Ids]
        BY <4>1, <4>2
      <4> QED BY <4>2, <4>3
    <3>2. told' = [told EXCEPT !.heard = @ \o ids, !.failedAt = 0]
      BY <1>8 DEF PollApplied
    <3> HIDE DEF ids
    <3> QED BY <1>0, <3>1, <3>2, Zeroes, ConcatProperties DEF Told
  <2>5. poll' \in Poll /\ cursor' \in Ids /\ failures' \in Nat /\ connection' = "open"
    BY <1>8, <2>1, Zeroes DEF PollApplied
  <2>6. UNCHANGED <<server, page, overlay, seen>>
    BY <1>8 DEF PollApplied
  <2> QED BY <2>2, <2>3, <2>4, <2>5, <2>6 DEF TypeOK, Reading, Poll, Told, server
<1>9. CASE ReadAnswered
  <2>1. reading' \in Reading
    BY <1>0, <1>9, StateNowType DEF ReadAnswered, Reading
  <2> QED BY <1>9, <2>1 DEF ReadAnswered, TypeOK, Reading, server, polling
<1>10. CASE ReadApplied
  <2>1. reading.value \in StateRead
    BY <1>0 DEF Reading
  <2>2. /\ state' \in Contest /\ told' \in Told /\ poll' \in Poll /\ reading' \in Reading
        /\ reading.value.announced \in Version
    BY <1>0, <1>10, <2>1, Zeroes DEF ReadApplied, StateRead, Contest, Told, Poll, Reading
  <2>3. overlay' \in [seen : Version, queue : Seq(Version)] /\ seen' \in Version
    BY <1>10, <2>2, InterruptType DEF ReadApplied
  <2> QED BY <1>10, <2>2, <2>3 DEF ReadApplied, TypeOK, Reading, Poll, Told, server
<1>11. CASE ReadFails
  <2>1. reading' \in Reading
    BY <1>11, Zeroes DEF ReadFails
  <2>2. /\ failures' \in Nat /\ connection' \in {"connecting", "open", "lost"}
        /\ poll' \in Poll /\ told' \in Told
    <3>1. CASE poll.at = "rereading"
      BY <1>5, <1>11, <3>1 DEF ReadFails
    <3>2. CASE poll.at # "rereading"
      BY <1>0, <1>11, <3>2 DEF ReadFails, TypeOK, Told
    <3> QED BY <3>1, <3>2
  <2> QED BY <1>11, <2>1, <2>2 DEF ReadFails, TypeOK, Reading, Poll, Told, server
<1> QED BY <1>1, <1>2, <1>3, <1>4, <1>6, <1>7, <1>8, <1>9, <1>10, <1>11 DEF Browser

-----------------------------------------------------------------------------
(* The page's steps keep what it relies on.                                 *)

\* No step of the page writes to the server.
LEMMA BrowserKeepsTable ==
  ASSUME TableInv, ChangesCounted, Browser
  PROVE  TableInv' /\ ChangesCounted' /\ Latest' = Latest /\ event' = event
<1>1. UNCHANGED server
  BY DEF Browser, Open, Mount, Dismiss, PollServed, PollFails, PollRereads, PollApplied,
         ReadAnswered, ReadApplied, ReadFails, server
<1> QED BY <1>1 DEF server, TableInv, ChangesCounted, Unnumbered, Latest

\* A failure that tick catches drops the answer and remembers what was published then.
LEMMA CatchingKeepsPage ==
  ASSUME TypeOK, PageInv, CaughtByTick, Latest' = Latest, event' = event,
         UNCHANGED <<page, cursor, overlay, seen>>,
         reading' = reading \/ reading' = NoReading
  PROVE  PageInv'
<1>0. /\ told \in Told /\ reading \in Reading /\ Latest \in Nat
  <2>1. Latest \in Ids
    BY LatestIsGreatest DEF TypeOK
  <2> QED BY <2>1, FeedAssumption DEF TypeOK, Told, Reading, Ids
<1>1. poll' = NoPoll /\ told' = [told EXCEPT !.failedAt = Latest]
  BY DEF CaughtByTick
<1>2. told'.heard = told.heard /\ told'.readAt = told.readAt /\ told'.failedAt = Latest
  BY <1>0, <1>1 DEF Told
<1>3. reading'.value.cursor <= reading'.value.at /\ reading'.value.at <= Latest
      /\ (reading'.at = "answered" => told'.readAt <= reading'.value.at)
  BY <1>0, <1>2, Zeroes DEF PageInv, NothingAhead, NoReading
<1>4. NothingAhead'
  BY <1>0, <1>2, <1>3 DEF PageInv, NothingAhead
<1>5. AnswerInv' /\ RereadInv'
  BY <1>1 DEF AnswerInv, RereadInv, NoPoll
<1>6. NothingMissed' /\ HeardOnceInOrder'
  BY <1>2 DEF PageInv, NothingMissed, HeardOnceInOrder, ToMe
<1> QED BY <1>4, <1>5, <1>6 DEF PageInv

\* An answer, of a poll and of a re-read.
LEMMA AnsweringKeepsPage ==
  ASSUME TypeOK, TableInv, PageInv, Latest' = Latest, event' = event,
         PollServed \/ ReadAnswered
  PROVE  PageInv'
<1>0. reading \in Reading /\ Latest \in Nat
  <2>1. Latest \in Ids
    BY LatestIsGreatest DEF TypeOK
  <2> QED BY <2>1, FeedAssumption DEF TypeOK, Reading, Ids
<1>1. CASE PollServed
  <2>1. /\ page.at = "open" /\ poll'.at = "answered" /\ poll'.answer = Since(cursor)
        /\ UNCHANGED <<page, reading, cursor, overlay, seen, told>>
    BY <1>1 DEF PollServed, copy
  <2>2. AnswerFits(Since(cursor))
    BY SinceAnswers DEF PageInv, NothingAhead
  <2>3. AnswerInv'
    <3>1. AnswerFits(Since(cursor)) => AnswerFits(poll.answer)'
      BY <2>1 DEF AnswerFits
    <3> QED BY <2>1, <2>2, <3>1 DEF AnswerInv
  <2>4. NothingAhead' /\ RereadInv'
    BY <2>1 DEF PageInv, NothingAhead, RereadInv
  <2>5. NothingMissed' /\ HeardOnceInOrder'
    BY <2>1 DEF PageInv, NothingMissed, HeardOnceInOrder, ToMe
  <2> QED BY <2>3, <2>4, <2>5 DEF PageInv
<1>2. CASE ReadAnswered
  <2>1. /\ reading.at = "asked" /\ reading'.at = "answered" /\ reading'.value = StateNow
        /\ reading'.again = reading.again
        /\ UNCHANGED <<page, poll, cursor, overlay, seen, told>>
    BY <1>0, <1>2 DEF ReadAnswered, Reading, polling
  <2>2. StateNow.cursor <= StateNow.at /\ StateNow.at = Latest
    BY StateNowType
  <2>3. NothingAhead'
    BY <1>0, <2>1, <2>2 DEF PageInv, NothingAhead
  <2>4. AnswerInv' /\ RereadInv'
    BY <2>1, <2>2 DEF PageInv, NothingAhead, AnswerInv, AnswerFits, RereadInv
  <2>5. NothingMissed' /\ HeardOnceInOrder'
    BY <2>1 DEF PageInv, NothingMissed, HeardOnceInOrder, ToMe
  <2> QED BY <2>3, <2>4, <2>5 DEF PageInv
<1> QED BY <1>1, <1>2

\* A page is opened, mounted, or an announcement on it dismissed.
LEMMA OpeningKeepsPage ==
  ASSUME TypeOK, PageInv, Latest' = Latest, event' = event, Open \/ Mount \/ Dismiss
  PROVE  PageInv'
<1>0. /\ reading \in Reading /\ Latest \in Nat
      /\ page \in [at : {"closed", "loading", "open"}, opened : 0..MaxOpens]
  <2>1. Latest \in Ids
    BY LatestIsGreatest DEF TypeOK
  <2> QED BY <2>1, FeedAssumption DEF TypeOK, Reading, Ids
<1>1. CASE Open
  <2>1. /\ page'.at = "loading" /\ poll' = NoPoll
        /\ reading'.at = "idle" /\ reading'.value = StateNow
        /\ UNCHANGED <<cursor, overlay, seen, told>>
    BY <1>1 DEF Open, NoReading
  <2>2. StateNow.cursor <= StateNow.at /\ StateNow.at = Latest
    BY StateNowType
  <2>3. NothingAhead'
    BY <1>0, <2>1, <2>2 DEF PageInv, NothingAhead
  <2>4. AnswerInv' /\ RereadInv' /\ NothingMissed'
    BY <2>1 DEF AnswerInv, RereadInv, NothingMissed, NoPoll
  <2>5. HeardOnceInOrder'
    BY <2>1 DEF PageInv, HeardOnceInOrder
  <2> QED BY <2>3, <2>4, <2>5 DEF PageInv
<1>2. CASE Mount
  <2>1. /\ cursor' = reading.value.cursor /\ reading' = NoReading /\ seen' = overlay'.seen
        /\ told'.heard = << >> /\ told'.readAt = reading.value.at /\ told'.failedAt = 0
        /\ poll' = poll
    BY <1>2 DEF Mount, InitialCursor
  <2>2. poll.at = "idle"
    BY <1>2 DEF Mount, PageInv, AnswerInv
  <2>3. cursor' <= told'.readAt /\ told'.readAt <= Latest
    BY <2>1 DEF PageInv, NothingAhead
  <2>4. /\ cursor \in Int /\ reading.value.at \in Int /\ reading.value.cursor \in Int
        /\ \A e \in event : e.id \in Int
    BY CursorsAreIds
  <2>5. NothingAhead'
    BY <1>0, <2>1, <2>3, <2>4 DEF NothingAhead, NoReading
  <2>6. AnswerInv' /\ RereadInv'
    BY <2>1, <2>2 DEF AnswerInv, RereadInv
  <2>7. NothingMissed'
    BY <2>1, <2>3, <2>4 DEF NothingMissed
  <2>8. HeardOnceInOrder'
    BY <2>1 DEF HeardOnceInOrder
  <2> QED BY <2>5, <2>6, <2>7, <2>8 DEF PageInv
<1>3. CASE Dismiss
  <2>1. overlay'.seen = overlay.seen
    BY <1>3 DEF Dismiss, TypeOK
  <2>2. UNCHANGED <<page, reading, poll, cursor, seen, told>>
    BY <1>3 DEF Dismiss, copy, polling
  <2>3. NothingAhead' /\ RereadInv' /\ HeardOnceInOrder'
    BY <2>1, <2>2 DEF PageInv, NothingAhead, RereadInv, HeardOnceInOrder
  <2>4. AnswerInv' /\ NothingMissed'
    BY <2>2 DEF PageInv, AnswerInv, AnswerFits, NothingMissed, ToMe
  <2> QED BY <2>3, <2>4 DEF PageInv
<1> QED BY <1>1, <1>2, <1>3

\* A poll waits for a re-read, and a re-read is applied.
LEMMA RereadingKeepsPage ==
  ASSUME TypeOK, PageInv, Latest' = Latest, event' = event, PollRereads \/ ReadApplied
  PROVE  PageInv'
<1>0. reading \in Reading /\ poll \in Poll /\ told \in Told /\ Latest \in Nat
  <2>1. Latest \in Ids
    BY LatestIsGreatest DEF TypeOK
  <2> QED BY <2>1, FeedAssumption DEF TypeOK, Reading, Poll, Told, Ids
<1>1. CASE PollRereads
  <2>1. /\ page.at = "open" /\ poll.at = "answered"
        /\ poll'.at = "rereading" /\ poll'.answer = poll.answer
        /\ reading' = Refresh(reading)
        /\ UNCHANGED <<page, cursor, overlay, seen, told>>
    BY <1>0, <1>1 DEF PollRereads, Poll
  <2>2. /\ Refresh(reading).at # "idle"
        /\ Refresh(reading).at = "answered" =>
             /\ reading.at = "answered" /\ Refresh(reading).again
             /\ Refresh(reading).value = reading.value
        /\ Refresh(reading).value = reading.value \/ Refresh(reading).value = NoReading.value
    BY <1>0, RefreshAsks
  <2>3. NothingAhead'
    BY <1>0, <2>1, <2>2 DEF PageInv, NothingAhead, NoReading
  <2>4. AnswerInv' /\ NothingMissed'
    BY <2>1 DEF PageInv, AnswerInv, AnswerFits, NothingMissed, ToMe
  <2>5. RereadInv' /\ HeardOnceInOrder'
    BY <2>1, <2>2 DEF PageInv, RereadInv, HeardOnceInOrder
  <2> QED BY <2>3, <2>4, <2>5 DEF PageInv
<1>2. CASE ReadApplied
  <2>1. /\ reading.at = "answered" /\ reading'.value = NoReading.value
        /\ reading'.again = FALSE
        /\ reading'.at = IF reading.again THEN "asked" ELSE "idle"
        /\ told'.heard = told.heard /\ told'.failedAt = told.failedAt
        /\ told'.readAt = reading.value.at
        /\ poll'.answer = poll.answer
        /\ poll'.at = IF poll.at = "rereading" /\ ~reading.again THEN "reread" ELSE poll.at
        /\ UNCHANGED <<page, cursor>>
    BY <1>0, <1>2 DEF ReadApplied, NoReading, Poll, Told
  <2>2. seen' = overlay'.seen
    <3>1. reading.value.announced \in Version /\ Interrupt(reading.value.announced)
      BY <1>0, <1>2 DEF ReadApplied, Reading, StateRead
    <3> QED BY <3>1, InterruptType DEF PageInv, NothingAhead
  <2>3. /\ told.readAt <= reading.value.at /\ reading.value.at <= Latest
        /\ told.readAt \in Int /\ reading.value.at \in Int
        /\ \A e \in event : e.id \in Int
    BY <2>1, CursorsAreIds DEF PageInv, NothingAhead
  <2>4. NothingAhead'
    BY <1>0, <2>1, <2>2, <2>3 DEF PageInv, NothingAhead, NoReading
  <2>5. AnswerInv'
    BY <2>1 DEF PageInv, AnswerInv, AnswerFits
  <2>6. RereadInv'
    BY <2>1 DEF PageInv, RereadInv
  <2>7. NothingMissed'
    BY <2>1, <2>3 DEF PageInv, NothingMissed, ToMe
  <2>8. HeardOnceInOrder'
    BY <2>1 DEF PageInv, HeardOnceInOrder
  <2> QED BY <2>4, <2>5, <2>6, <2>7, <2>8 DEF PageInv
<1> QED BY <1>1, <1>2

\* The events of an answer are applied and the cursor moves past them.
LEMMA ApplyingKeepsPage ==
  ASSUME TypeOK, TypeOK', PageInv, Latest' = Latest, event' = event, PollApplied
  PROVE  PageInv'
<1> DEFINE es == poll.answer.events
           ids == [i \in DOMAIN es |-> es[i].id]
<1>0. reading \in Reading /\ poll \in Poll /\ told \in Told /\ Latest \in Nat
  <2>1. Latest \in Ids
    BY LatestIsGreatest DEF TypeOK
  <2> QED BY <2>1, FeedAssumption DEF TypeOK, Reading, Poll, Told, Ids
<1>1. /\ page.at = "open" /\ poll.at # "idle"
      /\ poll.at = "reread" \/ (poll.at = "answered" /\ ~poll.answer.reset)
      /\ told' = [told EXCEPT !.heard = @ \o ids, !.failedAt = 0]
      /\ cursor' = poll.answer.cursor /\ poll' = NoPoll
      /\ UNCHANGED <<page, overlay, seen>>
  BY DEF PollApplied, MustReread
<1>2. told'.heard = told.heard \o ids /\ told'.readAt = told.readAt /\ told'.failedAt = 0
  BY <1>0, <1>1 DEF Told
<1>3. /\ reading'.value = reading.value \/ reading'.value = NoReading.value
      /\ reading'.at = "answered" => reading.at = "answered" /\ reading'.value = reading.value
  <2>1. \E n : reading' = RefreshTimes(reading, n)
    BY DEF PollApplied
  <2> QED BY <1>0, <2>1, RefreshTimesAsks
<1>4. AnswerFits(poll.answer) /\ (poll.at = "reread" => poll.answer.cursor <= told.readAt)
  BY <1>1 DEF PageInv, AnswerInv, RereadInv
<1>5. /\ es \in Seq(Row) /\ told.heard \in Seq(Ids)
      /\ \A i \in Ids : i \in Int
      /\ cursor \in Int /\ poll.answer.cursor \in Int /\ \A e \in event : e.id \in Int
      /\ told.readAt \in Int /\ reading.value.at \in Int
  BY <1>0, CursorsAreIds DEF Poll, Answer, Told
<1> HIDE DEF es
<1>6. /\ ids \in Seq(Ids) /\ DOMAIN ids = 1..Len(ids) /\ DOMAIN es = DOMAIN ids
      /\ \A i \in DOMAIN ids : ids[i] = es[i].id
  <2>1. DOMAIN es = 1..Len(es) /\ Len(es) \in Nat /\ \A i \in 1..Len(es) : es[i] \in Row
    BY <1>5
  <2>2. \A i \in 1..Len(es) : es[i].id \in Ids
    BY <2>1 DEF Row
  <2>3. ids \in [1..Len(es) -> Ids]
    BY <2>1, <2>2
  <2> QED BY <2>1, <2>3
<1>7. /\ \A i \in DOMAIN ids : cursor < ids[i] /\ ids[i] <= poll.answer.cursor
      /\ \A i, j \in DOMAIN ids : i < j => ids[i] < ids[j]
      /\ ~poll.answer.reset =>
           \A e \in event : ToMe(e) /\ cursor < e.id /\ e.id <= poll.answer.cursor
                              => \E i \in DOMAIN ids : ids[i] = e.id
  BY <1>4, <1>6 DEF AnswerFits, es
<1> HIDE DEF ids
<1> DEFINE heard == told.heard \o ids
           n == Len(told.heard)
<1>8. /\ n \in Nat /\ DOMAIN told.heard = 1..n
      /\ heard \in Seq(Ids) /\ DOMAIN heard = 1..(n + Len(ids)) /\ Len(ids) \in Nat
      /\ \A i \in 1..(n + Len(ids)) : heard[i] = IF i <= n THEN told.heard[i] ELSE ids[i - n]
  BY <1>5, <1>6, ConcatProperties
<1> HIDE DEF heard
<1>9. \A i \in DOMAIN heard : \/ i \in 1..n /\ heard[i] = told.heard[i]
                              \/ i > n /\ i - n \in DOMAIN ids /\ heard[i] = ids[i - n]
  BY <1>6, <1>8
<1>10. /\ \A i \in 1..n : told.heard[i] <= cursor /\ told.heard[i] \in Int
       /\ \A i \in DOMAIN ids : ids[i] \in Int
       /\ cursor <= poll.answer.cursor /\ poll.answer.cursor <= Latest
  <2>1. \A i \in 1..n : told.heard[i] \in Ids
    BY <1>5, <1>8
  <2>2. \A i \in DOMAIN ids : ids[i] \in Ids
    BY <1>6
  <2>3. \A i \in 1..n : told.heard[i] <= cursor
    BY <1>8 DEF PageInv, NothingAhead
  <2> QED BY <1>4, <1>5, <2>1, <2>2, <2>3 DEF AnswerFits
<1>11. \A i \in DOMAIN heard : heard[i] <= poll.answer.cursor
  BY <1>5, <1>7, <1>9, <1>10
<1>12. NothingAhead'
  BY <1>0, <1>1, <1>2, <1>3, <1>5, <1>10, <1>11, Zeroes DEF heard, PageInv, NothingAhead, NoReading
<1>13. HeardOnceInOrder'
  <2>1. SUFFICES ASSUME NEW i \in DOMAIN heard, NEW j \in DOMAIN heard, i < j
                 PROVE  heard[i] < heard[j]
    BY <1>2 DEF HeardOnceInOrder, heard
  <2>2. i \in Int /\ j \in Int
    BY <1>8
  <2>3. CASE j <= n
    <3>1. i \in 1..n /\ j \in 1..n
      BY <1>8, <2>1, <2>2, <2>3
    <3>2. told.heard[i] < told.heard[j]
      BY <1>8, <2>1, <3>1 DEF PageInv, HeardOnceInOrder
    <3> QED BY <1>8, <3>1, <3>2
  <2>4. CASE i <= n /\ j > n
    <3>1. i \in 1..n /\ heard[i] = told.heard[i] /\ told.heard[i] <= cursor
      BY <1>8, <1>9, <1>10, <2>1, <2>2, <2>4
    <3>2. j - n \in DOMAIN ids /\ heard[j] = ids[j - n]
      BY <1>8, <1>9, <2>1, <2>2, <2>4
    <3>3. cursor < ids[j - n]
      BY <1>7, <3>2
    <3> QED BY <1>5, <1>10, <3>1, <3>2, <3>3
  <2>5. CASE i > n
    <3>1. i - n < j - n /\ i - n \in DOMAIN ids /\ j - n \in DOMAIN ids
      BY <1>8, <1>9, <2>1, <2>2, <2>5
    <3>2. ids[i - n] < ids[j - n]
      BY <1>7, <3>1
    <3> QED BY <1>8, <1>9, <2>1, <2>2, <2>5, <3>2
  <2> QED BY <1>8, <2>2, <2>3, <2>4, <2>5
<1>14. NothingMissed'
  <2>1. SUFFICES ASSUME NEW e \in event, ToMe(e), e.id <= poll.answer.cursor
                 PROVE  (\E i \in DOMAIN heard : heard[i] = e.id) \/ e.id <= told.readAt
    BY <1>1, <1>2 DEF NothingMissed, heard, ToMe
  <2>2. CASE e.id <= cursor
    <3>1. (\E i \in 1..n : told.heard[i] = e.id) \/ e.id <= told.readAt
      BY <1>1, <1>8, <2>1, <2>2 DEF PageInv, NothingMissed
    <3>2. \A i \in 1..n : i \in DOMAIN heard /\ heard[i] = told.heard[i]
      BY <1>8
    <3> QED BY <3>1, <3>2
  <2>3. CASE cursor < e.id /\ poll.at = "reread"
    BY <1>4, <1>5, <2>1, <2>3
  <2>4. CASE cursor < e.id /\ ~poll.answer.reset
    <3>1. PICK i \in DOMAIN ids : ids[i] = e.id
      BY <1>7, <2>1, <2>4
    <3>2. i \in Nat /\ i >= 1 /\ i <= Len(ids) /\ (n + i) - n = i
      BY <1>6, <1>8
    <3>3. n + i \in 1..(n + Len(ids)) /\ ~(n + i <= n)
      BY <1>8, <3>2
    <3>4. n + i \in DOMAIN heard /\ heard[n + i] = ids[i]
      BY <1>8, <3>2, <3>3
    <3> QED BY <3>1, <3>4
  <2> QED BY <1>1, <1>5, <2>2, <2>3, <2>4
<1>15. AnswerInv' /\ RereadInv'
  BY <1>1 DEF AnswerInv, RereadInv, NoPoll
<1> QED BY <1>12, <1>13, <1>14, <1>15 DEF PageInv

\* A re-read no poll waits for fails.
LEMMA FailingKeepsPage ==
  ASSUME TypeOK, PageInv, Latest' = Latest, event' = event, ReadFails, poll.at # "rereading"
  PROVE  PageInv'
<1>0. told \in Told /\ Latest \in Nat
  <2>1. Latest \in Ids
    BY LatestIsGreatest DEF TypeOK
  <2> QED BY <2>1, FeedAssumption DEF TypeOK, Told, Ids
<1>1. /\ told'.heard = told.heard /\ told'.readAt = told.readAt
      /\ told'.failedAt = told.failedAt
      /\ reading' = NoReading /\ reading.at # "idle"
      /\ UNCHANGED <<page, poll, cursor, overlay, seen>>
  BY <1>0 DEF ReadFails, Told
<1>2. NothingAhead'
  BY <1>0, <1>1 DEF PageInv, NothingAhead, NoReading
<1>3. AnswerInv' /\ RereadInv'
  BY <1>1 DEF PageInv, AnswerInv, AnswerFits, RereadInv
<1>4. NothingMissed' /\ HeardOnceInOrder'
  BY <1>1 DEF PageInv, NothingMissed, HeardOnceInOrder, ToMe
<1> QED BY <1>2, <1>3, <1>4 DEF PageInv

-----------------------------------------------------------------------------
(* The theorems.                                                            *)

LEMMA FeedInitially == Init => FeedInductive
<1> SUFFICES ASSUME Init PROVE FeedInductive
  OBVIOUS
<1>1. /\ event = {} /\ lastId = 0 /\ cursor = 0 /\ reading = NoReading /\ poll = NoPoll
      /\ publisher = [p \in Publishers |-> Idle]
      /\ told = [heard |-> << >>, readAt |-> 0, failedAt |-> 0, lost |-> FALSE]
      /\ contest = [auction |-> 0, announced |-> 0] /\ page = [at |-> "closed", opened |-> 0]
      /\ overlay = [seen |-> 0, queue |-> << >>] /\ seen = 0
  BY DEF Init
<1>2. Idle \in [at : {"idle", "committed", "publishing", "inserting"},
                name : Names, value : Version, id : Ids]
  BY Zeroes DEF Idle, Names
<1>3. page \in [at : {"closed", "loading", "open"}, opened : 0..MaxOpens]
  BY <1>1, FeedAssumption
<1>4. TypeOK
  BY <1>1, <1>2, <1>3, Zeroes DEF Init, TypeOK, Contest, Reading, Poll
<1>5. Unnumbered = {}
  BY <1>1 DEF Unnumbered, Idle
<1>6. TableInv /\ ChangesCounted
  BY <1>1, <1>5, FS_EmptySet, FeedAssumption DEF TableInv, ChangesCounted, Idle
<1>7. Latest \in Nat
  BY <1>4, FeedAssumption, LatestIsGreatest DEF TypeOK, Ids
<1>8. PageInv
  BY <1>1, <1>7 DEF PageInv, NothingAhead, AnswerInv, RereadInv, NothingMissed,
                    HeardOnceInOrder, NoReading, NoPoll
<1> QED BY <1>4, <1>6, <1>8 DEF FeedInductive

LEMMA FeedStep == FeedInductive /\ [Next]_vars => FeedInductive'
<1> SUFFICES ASSUME FeedInductive, [Next]_vars PROVE FeedInductive'
  OBVIOUS
<1>0. TypeOK /\ TableInv /\ ChangesCounted /\ PageInv
  BY DEF FeedInductive
<1>1. CASE Engine
  <2>1. TypeOK' /\ TableInv' /\ ChangesCounted'
    BY <1>0, <1>1, EngineKeepsTable
  <2> QED BY <1>0, <1>1, <2>1, EngineKeepsPage DEF FeedInductive
<1>2. CASE Browser
  <2>1. TableInv' /\ ChangesCounted' /\ Latest' = Latest /\ event' = event
    BY <1>0, <1>2, BrowserKeepsTable
  <2>2. TypeOK'
    BY <1>0, <1>2, BrowserKeepsTypes DEF PageInv, NothingAhead
  <2>3. PageInv'
    <3>1. CASE Open \/ Mount \/ Dismiss
      BY <1>0, <2>1, <3>1, OpeningKeepsPage
    <3>2. CASE PollServed \/ ReadAnswered
      BY <1>0, <2>1, <3>2, AnsweringKeepsPage
    <3>3. CASE PollRereads \/ ReadApplied
      BY <1>0, <2>1, <3>3, RereadingKeepsPage
    <3>4. CASE PollApplied
      BY <1>0, <2>1, <2>2, <3>4, ApplyingKeepsPage
    <3>5. CASE PollFails
      <4>1. CaughtByTick /\ reading' = reading /\ UNCHANGED <<page, cursor, overlay, seen>>
        BY <3>5 DEF PollFails, copy
      <4> QED BY <1>0, <2>1, <4>1, CatchingKeepsPage
    <3>6. CASE ReadFails /\ poll.at = "rereading"
      <4>1. /\ CaughtByTick /\ reading' = NoReading
            /\ UNCHANGED <<page, cursor, overlay, seen>>
        BY <3>6 DEF ReadFails
      <4> QED BY <1>0, <2>1, <4>1, CatchingKeepsPage
    <3>7. CASE ReadFails /\ poll.at # "rereading"
      BY <1>0, <2>1, <3>7, FailingKeepsPage
    <3> QED BY <1>2, <3>1, <3>2, <3>3, <3>4, <3>5, <3>6, <3>7 DEF Browser
  <2> QED BY <2>1, <2>2, <2>3 DEF FeedInductive
<1>3. CASE UNCHANGED vars
  <2>1. TypeOK' /\ TableInv' /\ ChangesCounted' /\ Latest' = Latest
    BY <1>0, <1>3 DEF vars, server, copy, polling, TypeOK, TableInv, ChangesCounted,
                      Unnumbered, Latest
  <2>2. PageInv'
    BY <1>0, <1>3, <2>1 DEF vars, server, copy, polling, PageInv, NothingAhead, AnswerInv,
                            AnswerFits, RereadInv, NothingMissed, HeardOnceInOrder, ToMe
  <2> QED BY <2>1, <2>2 DEF FeedInductive
<1> QED BY <1>1, <1>2, <1>3 DEF Next

\* The invariant behind the theorems below: the ids of the table are in order, an answer
\* held still tells of all that lies between the two cursors, and a poll that waits gets
\* a re-read that began after its answer.
THEOREM FeedCorrect == Spec => []FeedInductive
<1>1. FeedInductive /\ [Next]_vars => FeedInductive'
  BY FeedStep
<1> QED BY FeedInitially, <1>1, PTL DEF Spec

\* A page that has polled past an event has heard it or has re-read the state since, and
\* hears none twice or out of order: the advisory lock around the insert, the cursor read
\* with the state and the re-read after a gap are enough, whatever is pruned, fails or
\* is retried (events.py, contest-provider.tsx).
THEOREM NoEventIsMissed == Spec => []FeedInv
<1>1. FeedInductive => FeedInv
  BY DEF FeedInductive, PageInv, FeedInv
<1> QED BY <1>1, FeedCorrect, PTL

\* A poll that succeeds after failures shows a state read since the last of them, and an
\* announcement is queued for the screen only if this browser has never shown it.
THEOREM PageIsNeverStale == Spec => NothingStaleShown
<1>1. FeedInductive /\ [Next]_vars =>
        [page.at = "open" /\ page' = page /\ failures > 0 /\ failures' = 0
           => told'.readAt >= told.failedAt]_vars
  <2> SUFFICES ASSUME FeedInductive, Next, page.at = "open", page' = page,
                      failures > 0, failures' = 0
               PROVE  told'.readAt >= told.failedAt
    BY DEF vars
  <2>0. failures \in Nat /\ told \in Told
    BY DEF FeedInductive, TypeOK, Told
  <2>1. PollApplied
    <3>1. failures' # failures
      BY <2>0
    <3>2. ~ Engine
      BY <3>1 DEF Engine, Commit, ReadSnapshot, Insert, Publish, Prune, polling
    <3>3. ~ CaughtByTick
      BY <2>0 DEF CaughtByTick
    <3>4. ~ (Open \/ Mount \/ Dismiss)
      BY <3>1 DEF Open, Mount, Dismiss, polling
    <3>5. ~ (PollServed \/ PollRereads \/ ReadAnswered \/ ReadApplied)
      BY <3>1 DEF PollServed, PollRereads, ReadAnswered, ReadApplied, polling
    <3>6. ~ (PollFails \/ ReadFails)
      BY <3>1, <3>3 DEF PollFails, ReadFails
    <3> QED BY <3>2, <3>4, <3>5, <3>6 DEF Next, Browser
  <2>2. poll.at = "reread" /\ told'.readAt = told.readAt
    BY <2>0, <2>1 DEF PollApplied, MustReread, Told
  <2>3. told.failedAt <= told.readAt
    BY <2>2 DEF FeedInductive, PageInv, RereadInv
  <2> QED BY <2>2, <2>3, CursorsAreIds DEF FeedInductive
<1>2. FeedInductive /\ [Next]_vars =>
        [page.at = "open" /\ page' = page =>
           \A i \in DOMAIN overlay'.queue :
             \/ overlay'.queue[i] > seen
             \/ \E j \in DOMAIN overlay.queue : overlay.queue[j] = overlay'.queue[i]]_vars
  <2> SUFFICES ASSUME FeedInductive, Next, page.at = "open", page' = page,
                      NEW i \in DOMAIN overlay'.queue
               PROVE  \/ overlay'.queue[i] > seen
                      \/ \E j \in DOMAIN overlay.queue : overlay.queue[j] = overlay'.queue[i]
    BY DEF vars
  <2>0. /\ overlay \in [seen : Version, queue : Seq(Version)] /\ seen = overlay.seen
        /\ Version \subseteq Int /\ reading \in Reading
    BY FeedAssumption DEF FeedInductive, PageInv, NothingAhead, TypeOK, Version, Reading
  <2>1. CASE overlay' = overlay
    BY <2>1
  <2>2. CASE Dismiss
    <3>1. overlay.queue # << >> /\ overlay'.queue = Tail(overlay.queue)
      BY <2>0, <2>2 DEF Dismiss
    <3>2. /\ Tail(overlay.queue)[i] = overlay.queue[i + 1] /\ i + 1 \in DOMAIN overlay.queue
      BY <2>0, <3>1, HeadTailProperties
    <3> QED BY <3>1, <3>2
  <2>3. CASE ReadApplied
    <3>1. reading.value.announced \in Version /\ Interrupt(reading.value.announced)
      BY <2>0, <2>3 DEF ReadApplied, Reading, StateRead
    <3> QED BY <2>0, <3>1, InterruptQueues DEF FeedInductive
  <2>4. ~ Mount
    BY DEF Mount
  <2> QED BY <2>1, <2>2, <2>3, <2>4
        DEF Next, Engine, Browser, Commit, ReadSnapshot, Insert, Publish, Prune, Open,
            PollServed, PollFails, PollRereads, PollApplied, ReadAnswered, ReadFails
<1>3. Spec => ReconnectionRereads
  BY <1>1, FeedCorrect, PTL DEF Spec, ReconnectionRereads
<1>4. Spec => InterruptsOnce
  BY <1>2, FeedCorrect, PTL DEF Spec, InterruptsOnce
<1> QED BY <1>3, <1>4 DEF NothingStaleShown
=============================================================================
