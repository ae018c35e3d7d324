---------------------------- MODULE HackingProofs ----------------------------
(***************************************************************************)
(* What holds of Section B and of writing a Phase 1 question for any       *)
(* number of authors, attempts, copies and judge's jobs.                   *)
(*                                                                         *)
(* Forms and rows are of two kinds, a puzzle and a list of copies, so      *)
(* their shape is stated by their fields rather than by one type.          *)
(***************************************************************************)
EXTENDS Hacking, FiniteSetTheorems, SequenceTheorems, TLAPS

-----------------------------------------------------------------------------
(* The question and the pages it is written on.                             *)

Copies == [id : Nat \cup {None}, lang : Languages, code : Codes]

\* No copy is listed twice; those not saved yet have no id.
OncePerId(f) ==
  \A i, j \in DOMAIN f : f[i].id # None /\ f[i].id = f[j].id => i = j

\* What a form, a payload or a row holds: never nothing, and of a hacking question copies.
WellFormed(f) ==
  /\ DOMAIN f # {}
  /\ section = "hacking" => f \in Seq(Copies) /\ OncePerId(f)

\* Ids are given out once, in order.
RowInv ==
  /\ section \in Sections
  /\ DOMAIN q = {"there", "published", "ready", "voided", "content", "proven", "nextId"}
  /\ q.nextId \in Nat \ {0} /\ q.proven \subseteq 1..q.nextId
  /\ WellFormed(q.content)
  /\ section = "hacking" => \A i \in DOMAIN q.content : q.content[i].id \in 1..q.nextId-1

\* What a page shows is what its author wrote, of a question that was there.
PageInv ==
  /\ DOMAIN builder = Authors /\ DOMAIN written = Authors
  /\ \A a \in Authors :
       /\ DOMAIN builder[a] = {"open", "form", "initial", "row"}
       /\ WellFormed(builder[a].form) /\ WellFormed(builder[a].initial)
       /\ builder[a].open => builder[a].row.there /\ builder[a].form = written[a]

\* What is on its way: a form, or a test of the copy it names.
RequestInv ==
  /\ DOMAIN update = Authors /\ DOMAIN test = Authors
  /\ \A a \in Authors :
       /\ DOMAIN update[a] = {"at", "payload"}
       /\ update[a].at # "none" => WellFormed(update[a].payload)
       /\ DOMAIN test[a] = {"at", "id", "input", "content"}
       /\ section = "hacking" /\ test[a].at = "judged" => test[a].content.id = test[a].id

\* A proof is of the copy as it stands, unless it was saved while being tested.
ProofInv ==
  /\ section = "hacking" =>
       /\ ~raced => \A i \in DOMAIN q.content : q.content[i].id \in q.proven => q.content[i] \in shown
       /\ q.ready => Ready(q.content, q.proven)
  /\ section = "puzzles" => (q.ready /\ ~raced => q.content \in shown)

AuthoringInv == RowInv /\ PageInv /\ RequestInv /\ ProofInv

-----------------------------------------------------------------------------
(* The attempts.                                                            *)

Verdicts == {"invalid", "hacked", "missed", "IE"}
AttemptRow ==
  [copy : Nat \cup {None}, input : Codes \cup {None}, state : {"pending", "queued", "done"},
   job : Nat, outcome : Verdicts \cup {"none"}, points : Int]

AttemptTypes ==
  /\ attempt \in Seq(AttemptRow)
  /\ job \in Seq([code : Codes, input : Codes \cup {None}])
  /\ collected \subseteq [attempt : Nat, job : Nat, outcome : Verdicts \cup {"gone"}]
  /\ \A c \in collected : c.attempt \in DOMAIN attempt
  /\ DOMAIN page = {"at", "stale", "busy", "data"}
  /\ page.at = "shown" \/ attempt # << >> => section = "hacking"

\* Only the newest attempt may be under way; one aims at a copy that is there, or at none.
AttemptInv ==
  /\ \A i \in DOMAIN attempt :
       /\ attempt[i].job \in 0..Len(job)
       /\ attempt[i].state = "queued" <=> attempt[i].job # 0 /\ attempt[i].state # "done"
       /\ attempt[i].state # "done" => i = Len(attempt) /\ attempt[i].outcome = "none" /\ attempt[i].points = 0
       /\ attempt[i].copy # None => \E k \in DOMAIN q.content : q.content[k].id = attempt[i].copy

\* Points above zero are those of a hack, and of the only one that scored.
ScoreInv ==
  /\ \A i \in DOMAIN attempt : attempt[i].points > 0 => attempt[i].outcome = "hacked"
  /\ \A i, j \in DOMAIN attempt : attempt[i].points > 0 /\ attempt[j].points > 0 => i = j

HackingInv == AuthoringInv /\ AttemptTypes /\ AttemptInv /\ ScoreInv

-----------------------------------------------------------------------------
(* Forms.                                                                   *)

\* A copy taken off a form leaves the others, in their order.
LEMMA RemovedFromForm ==
  ASSUME NEW S, NEW f \in Seq(S), NEW i \in DOMAIN f
  PROVE  /\ RemoveAt(f, i) \in Seq(S) /\ Len(RemoveAt(f, i)) = Len(f) - 1
         /\ \A j \in DOMAIN RemoveAt(f, i) : RemoveAt(f, i)[j] = IF j < i THEN f[j] ELSE f[j + 1]
<1>1. i \in 1..Len(f) /\ i - 1 \in 0..Len(f) /\ Len(f) \in Nat
  OBVIOUS
<1>2. SubSeq(f, 1, i - 1) \in Seq(S) /\ Len(SubSeq(f, 1, i - 1)) = i - 1
      /\ \A j \in 1..(i - 1) : SubSeq(f, 1, i - 1)[j] = f[j]
  BY <1>1
<1>3. SubSeq(f, i + 1, Len(f)) \in Seq(S) /\ Len(SubSeq(f, i + 1, Len(f))) = Len(f) - i
      /\ \A j \in 1..(Len(f) - i) : SubSeq(f, i + 1, Len(f))[j] = f[i + j]
  BY <1>1
<1> DEFINE s == SubSeq(f, 1, i - 1)
           t == SubSeq(f, i + 1, Len(f))
<1>4. RemoveAt(f, i) = s \o t
  BY DEF RemoveAt
<1> HIDE DEF s, t
<1>5. s \o t \in Seq(S) /\ Len(s \o t) = Len(s) + Len(t)
      /\ \A j \in 1..(Len(s) + Len(t)) : (s \o t)[j] = IF j <= Len(s) THEN s[j] ELSE t[j - Len(s)]
  <2>1. s \in Seq(S) /\ t \in Seq(S)
    BY <1>2, <1>3 DEF s, t
  <2> QED BY <2>1, ConcatProperties
<1>6. Len(s) = i - 1 /\ Len(t) = Len(f) - i /\ (\A j \in 1..(i - 1) : s[j] = f[j])
      /\ \A j \in 1..(Len(f) - i) : t[j] = f[i + j]
  BY <1>2, <1>3 DEF s, t
<1>7. Len(s \o t) = Len(f) - 1
  BY <1>1, <1>5, <1>6
<1>8. ASSUME NEW j \in DOMAIN (s \o t) PROVE (s \o t)[j] = IF j < i THEN f[j] ELSE f[j + 1]
  <2>1. j \in 1..(Len(f) - 1) /\ DOMAIN (s \o t) = 1..(Len(f) - 1)
    BY <1>1, <1>5, <1>7
  <2>2. CASE j < i
    <3>1. j <= Len(s) /\ j \in 1..(i - 1) /\ j \in 1..(Len(s) + Len(t))
      BY <1>1, <1>6, <2>1, <2>2
    <3> QED BY <1>5, <1>6, <2>2, <3>1
  <2>3. CASE ~(j < i)
    <3>0. Len(s) = i - 1 /\ Len(t) = Len(f) - i /\ i \in Nat /\ j \in Nat /\ Len(f) \in Nat
          /\ i <= j /\ j <= Len(f) - 1 /\ 1 <= i
      BY <1>1, <1>6, <2>1, <2>3
    <3>1. ~(j <= Len(s)) /\ j - Len(s) \in 1..(Len(f) - i) /\ j \in 1..(Len(s) + Len(t))
          /\ i + (j - Len(s)) = j + 1
      BY <3>0
    <3>2. t[j - Len(s)] = f[i + (j - Len(s))]
      BY <1>6, <3>1, Zenon
    <3> QED BY <1>5, <2>3, <3>1, <3>2
  <2> QED BY <2>2, <2>3
<1> QED BY <1>4, <1>5, <1>7, <1>8

\* Copies edited, added without an id or removed are a form of copies.
LEMMA EditedCopies ==
  ASSUME NEW f \in Seq(Copies), OncePerId(f), f # << >>
  PROVE  /\ \A i \in DOMAIN f, c \in Codes :
              LET g == [f EXCEPT ![i].code = c] IN g \in Seq(Copies) /\ OncePerId(g) /\ DOMAIN g # {}
         /\ \A l \in Languages, c \in Codes :
              LET g == Append(f, Copy(None, l, c)) IN g \in Seq(Copies) /\ OncePerId(g) /\ DOMAIN g # {}
         /\ \A i \in DOMAIN f :
              LET g == RemoveAt(f, i) IN
              Len(f) > 1 => g \in Seq(Copies) /\ OncePerId(g) /\ DOMAIN g # {}
<1>1. ASSUME NEW i \in DOMAIN f, NEW c \in Codes
      PROVE  LET g == [f EXCEPT ![i].code = c] IN g \in Seq(Copies) /\ OncePerId(g) /\ DOMAIN g # {}
  <2> DEFINE g == [f EXCEPT ![i].code = c]
  <2>1. f[i] \in Copies /\ [f[i] EXCEPT !.code = c] \in Copies /\ [f[i] EXCEPT !.code = c].id = f[i].id
    <3>1. f[i] \in Copies
      BY ElementOfSeq
    <3> QED BY <3>1 DEF Copies
  <2>2. g \in Seq(Copies) /\ DOMAIN g = DOMAIN f
    BY <2>1
  <2>3. \A j \in DOMAIN f : g[j].id = f[j].id
    BY <2>1
  <2>4. DOMAIN f # {}
    OBVIOUS
  <2> HIDE DEF g
  <2>5. OncePerId(g)
    BY <2>2, <2>3 DEF OncePerId
  <2> QED BY <2>2, <2>4, <2>5 DEF g
<1>2. ASSUME NEW l \in Languages, NEW c \in Codes
      PROVE  LET g == Append(f, Copy(None, l, c)) IN g \in Seq(Copies) /\ OncePerId(g) /\ DOMAIN g # {}
  <2> DEFINE r == Copy(None, l, c)
             g == Append(f, r)
  <2>1. r \in Copies /\ r.id = None
    BY DEF Copies, Copy
  <2> HIDE DEF r
  <2>2. g \in Seq(Copies) /\ Len(g) = Len(f) + 1 /\ g[Len(f) + 1] = r /\ \A j \in 1..Len(f) : g[j] = f[j]
    BY <2>1
  <2> HIDE DEF g
  <2>3. OncePerId(g) /\ DOMAIN g # {}
    BY <2>1, <2>2 DEF OncePerId
  <2> QED BY <2>2, <2>3 DEF g, r
<1>3. ASSUME NEW i \in DOMAIN f, Len(f) > 1
      PROVE  LET g == RemoveAt(f, i) IN g \in Seq(Copies) /\ OncePerId(g) /\ DOMAIN g # {}
  <2> DEFINE g == RemoveAt(f, i)
  <2>1. g \in Seq(Copies) /\ Len(g) = Len(f) - 1
        /\ \A j \in DOMAIN g : g[j] = IF j < i THEN f[j] ELSE f[j + 1]
    BY RemovedFromForm, Zenon
  <2> HIDE DEF g
  <2>2. DOMAIN g # {}
    BY <1>3, <2>1
  <2>3. OncePerId(g)
    <3> SUFFICES ASSUME NEW j \in DOMAIN g, NEW k \in DOMAIN g, g[j].id # None, g[j].id = g[k].id
                 PROVE  j = k
      BY DEF OncePerId
    <3>1. j \in 1..Len(f) - 1 /\ k \in 1..Len(f) - 1 /\ i \in 1..Len(f) /\ DOMAIN f = 1..Len(f)
      BY <2>1
    <3> DEFINE at(n) == IF n < i THEN n ELSE n + 1
    <3>2. at(j) \in DOMAIN f /\ at(k) \in DOMAIN f /\ g[j] = f[at(j)] /\ g[k] = f[at(k)]
      BY <2>1, <3>1
    <3>3. at(j) = at(k)
      BY <3>2, Zenon DEF OncePerId
    <3> QED BY <3>1, <3>3
  <2> QED BY <2>1, <2>2, <2>3 DEF g
<1> QED BY <1>1, <1>2, <1>3, Zenon

\* A form sent, and a stored question shown, are well formed.
LEMMA PayloadWellFormed ==
  ASSUME NEW f, WellFormed(f), section \in Sections
  PROVE  WellFormed(Payload(f))
<1>1. section = "puzzles" \/ section = "hacking"
  BY AuthoringAssumption
<1>2. CASE section = "puzzles"
  BY <1>2 DEF WellFormed, Payload, Puzzle
<1>3. CASE section = "hacking"
  BY <1>3 DEF WellFormed, Payload
<1> QED BY <1>1, <1>2, <1>3

LEMMA FormWellFormed ==
  ASSUME NEW f, WellFormed(f)
  PROVE  WellFormed(Form(f))
BY DEF WellFormed, Form

\* Well formed is said of a section, which does not change.
LEMMA StaysWellFormed ==
  ASSUME section' = section
  PROVE  \A f : WellFormed(f) <=> /\ DOMAIN f # {}
                                  /\ section' = "hacking" => f \in Seq(Copies) /\ OncePerId(f)
BY DEF WellFormed

-----------------------------------------------------------------------------
(* The engine stores a form.                                                *)

NewRows(f) == {i \in DOMAIN f : f[i].id \notin CopyIds}
NewRowsBefore(f, i) == {j \in 1..i-1 : f[j].id \notin CopyIds}

\* New rows are counted as they come.
LEMMA NewRowsCount ==
  ASSUME NEW f \in Seq(Copies)
  PROVE  /\ Cardinality(NewRows(f)) \in Nat
         /\ \A i \in NewRows(f) :
              /\ Cardinality(NewRowsBefore(f, i)) \in Nat
              /\ Cardinality(NewRowsBefore(f, i)) < Cardinality(NewRows(f))
              /\ \A k \in NewRows(f) :
                   i < k => Cardinality(NewRowsBefore(f, i)) < Cardinality(NewRowsBefore(f, k))
<1>1. DOMAIN f = 1..Len(f) /\ Len(f) \in Nat
  OBVIOUS
<1>2. IsFiniteSet(NewRows(f)) /\ Cardinality(NewRows(f)) \in Nat
  <2>1. IsFiniteSet(1..Len(f)) /\ NewRows(f) \in SUBSET (1..Len(f))
    BY <1>1, FS_Interval DEF NewRows
  <2> QED BY <2>1, FS_Subset, FS_CardinalityType
<1>3. ASSUME NEW i \in NewRows(f), NEW S \in SUBSET NewRows(f), NewRowsBefore(f, i) \cup {i} \subseteq S
      PROVE  /\ Cardinality(NewRowsBefore(f, i)) \in Nat
             /\ Cardinality(NewRowsBefore(f, i)) < Cardinality(S)
  <2> DEFINE B == NewRowsBefore(f, i)
  <2>1. i \in 1..Len(f) /\ i \notin B
    BY <1>1 DEF NewRows, NewRowsBefore
  <2>2. B \in SUBSET NewRows(f) /\ B \cup {i} \in SUBSET S
    BY <1>3
  <2> HIDE DEF B
  <2>3. IsFiniteSet(B) /\ IsFiniteSet(S)
    BY <1>2, <1>3, <2>2, FS_Subset
  <2>4. Cardinality(B \cup {i}) = Cardinality(B) + 1
    BY <2>1, <2>3, FS_AddElement
  <2>5. Cardinality(B \cup {i}) <= Cardinality(S)
    BY <2>2, <2>3, FS_Subset
  <2>6. Cardinality(B) \in Nat /\ Cardinality(S) \in Nat
    BY <2>3, FS_CardinalityType
  <2> QED BY <2>4, <2>5, <2>6 DEF B
<1>4. ASSUME NEW i \in NewRows(f) PROVE NewRowsBefore(f, i) \cup {i} \subseteq NewRows(f)
  BY <1>1 DEF NewRows, NewRowsBefore
<1>5. ASSUME NEW i \in NewRows(f), NEW k \in NewRows(f), i < k
      PROVE  NewRowsBefore(f, i) \cup {i} \subseteq NewRowsBefore(f, k)
  BY <1>1, <1>5 DEF NewRows, NewRowsBefore
<1>6. ASSUME NEW i \in NewRows(f)
      PROVE  /\ Cardinality(NewRowsBefore(f, i)) \in Nat
             /\ Cardinality(NewRowsBefore(f, i)) < Cardinality(NewRows(f))
  BY <1>3, <1>4
<1>7. ASSUME NEW i \in NewRows(f), NEW k \in NewRows(f), i < k
      PROVE  Cardinality(NewRowsBefore(f, i)) < Cardinality(NewRowsBefore(f, k))
  <2>1. NewRowsBefore(f, k) \in SUBSET NewRows(f)
    BY <1>4
  <2> QED BY <1>3, <1>5, <1>7, <2>1
<1> QED BY <1>2, <1>6, <1>7

\* A copy that is stored comes back as it was sent; any other gets an id nobody had.
LEMMA ReplacedRows ==
  ASSUME RowInv, section = "hacking", NEW f \in Seq(Copies), OncePerId(f), DOMAIN f # {}
  PROVE  /\ Replaced(f) \in Seq(Copies) /\ DOMAIN Replaced(f) = DOMAIN f /\ OncePerId(Replaced(f))
         /\ \A i \in DOMAIN f :
              /\ i \notin NewRows(f) => Replaced(f)[i] = f[i] /\ f[i].id \in 1..q.nextId-1
              /\ i \in NewRows(f) =>
                   Replaced(f)[i].id \in q.nextId..(q.nextId + Cardinality(NewRows(f)) - 1)
<1> DEFINE g == Replaced(f)
           id(i) == q.nextId + Cardinality(NewRowsBefore(f, i))
           most == Cardinality(NewRows(f))
<1>1. DOMAIN f = 1..Len(f) /\ Len(f) \in Nat /\ q.nextId \in Nat \ {0} /\ most \in Nat
  BY NewRowsCount DEF RowInv
<1>2. CopyIds \subseteq 1..q.nextId-1
  BY DEF RowInv, CopyIds
<1>3. \A i \in NewRows(f) : id(i) \in q.nextId..(q.nextId + most - 1)
  BY <1>1, NewRowsCount
<1>4. \A i, k \in NewRows(f) : i < k => id(i) < id(k)
  BY <1>1, NewRowsCount
<1>5. g = [i \in DOMAIN f |-> IF f[i].id \in CopyIds THEN f[i] ELSE [f[i] EXCEPT !.id = id(i)]]
  BY Zenon DEF Replaced, NewRowsBefore
<1> HIDE DEF g, id, most
<1>6. \A i \in DOMAIN f : f[i] \in Copies
  BY <1>1, ElementOfSeq
<1>7. ASSUME NEW i \in DOMAIN f, i \notin NewRows(f) PROVE g[i] = f[i] /\ f[i].id \in 1..q.nextId-1
  BY <1>2, <1>5, <1>7 DEF NewRows
<1>8. ASSUME NEW i \in NewRows(f)
      PROVE  g[i] \in Copies /\ g[i].id = id(i) /\ id(i) \in q.nextId..(q.nextId + most - 1)
  <2>1. i \in DOMAIN f /\ f[i].id \notin CopyIds /\ f[i] \in Copies
    BY <1>6 DEF NewRows
  <2>2. g[i] = [f[i] EXCEPT !.id = id(i)]
    BY <1>5, <2>1
  <2>3. id(i) \in Nat /\ id(i) \in q.nextId..(q.nextId + most - 1)
    BY <1>1, <1>3
  <2> QED BY <2>1, <2>2, <2>3 DEF Copies
<1>9. g \in Seq(Copies) /\ DOMAIN g = DOMAIN f
  <2>1. DOMAIN g = 1..Len(f)
    BY <1>1, <1>5
  <2>2. \A i \in 1..Len(f) : g[i] \in Copies
    BY <1>1, <1>6, <1>7, <1>8
  <2>3. g \in [1..Len(f) -> Copies]
    BY <1>1, <1>5, <2>2
  <2> QED BY <1>1, <2>1, <2>3
<1>10. OncePerId(g)
  <2> SUFFICES ASSUME NEW i \in DOMAIN f, NEW k \in DOMAIN f, g[i].id # None, g[i].id = g[k].id
               PROVE  i = k
    BY <1>9 DEF OncePerId
  <2>1. CASE i \notin NewRows(f) /\ k \notin NewRows(f)
    BY <1>7, <2>1 DEF OncePerId
  <2>2. CASE i \in NewRows(f) /\ k \in NewRows(f)
    <3>1. id(i) = id(k) /\ id(i) \in Int
      BY <1>1, <1>8, <2>2
    <3>2. ~(i < k) /\ ~(k < i)
      BY <1>4, <2>2, <3>1
    <3> QED BY <1>1, <3>2
  <2>3. CASE i \in NewRows(f) /\ k \notin NewRows(f)
    BY <1>1, <1>7, <1>8, <2>3
  <2>4. CASE i \notin NewRows(f) /\ k \in NewRows(f)
    BY <1>1, <1>7, <1>8, <2>4
  <2> QED BY <2>1, <2>2, <2>3, <2>4
<1> QED BY <1>7, <1>8, <1>9, <1>10 DEF g, most

\* Saving keeps the row in order, and only proofs of copies that come back unchanged.
LEMMA SavedRow ==
  ASSUME RowInv, ProofInv, NEW f, WellFormed(f), q' = Updated(f), UNCHANGED <<section, shown, raced>>
  PROVE  RowInv' /\ ProofInv'
<1>1. section = "puzzles" \/ section = "hacking"
  BY AuthoringAssumption DEF RowInv
<1>2. CASE section = "puzzles"
  <2>1. q' = [q EXCEPT !.content = f, !.ready = FALSE]
    BY <1>2 DEF Updated
  <2>2. DOMAIN q' = DOMAIN q /\ q'.content = f /\ ~q'.ready /\ q'.nextId = q.nextId /\ q'.proven = q.proven
    BY <2>1 DEF RowInv
  <2> QED BY <1>2, <2>2 DEF RowInv, ProofInv, WellFormed
<1>3. CASE section = "hacking"
  <2> DEFINE g == Replaced(f)
             kept == Kept(f)
             more == Cardinality(NewRows(f))
  <2>1. f \in Seq(Copies) /\ OncePerId(f) /\ DOMAIN f # {}
    BY <1>3 DEF WellFormed
  <2>2. more \in Nat /\ more = Cardinality({i \in DOMAIN f : f[i].id \notin CopyIds})
    BY <2>1, NewRowsCount DEF NewRows
  <2>3. q' = [q EXCEPT !.content = g, !.proven = kept, !.ready = Ready(g, kept), !.nextId = @ + more]
    BY <1>3, <2>2 DEF Updated
  <2> HIDE DEF g, kept, more
  <2>4. /\ DOMAIN q' = DOMAIN q /\ q'.content = g /\ q'.proven = kept /\ q'.nextId = q.nextId + more
        /\ q'.ready = Ready(g, kept)
    BY <2>3 DEF RowInv
  <2>5. /\ g \in Seq(Copies) /\ DOMAIN g = DOMAIN f /\ OncePerId(g)
        /\ \A i \in DOMAIN f :
             /\ i \notin NewRows(f) => g[i] = f[i] /\ f[i].id \in 1..q.nextId-1
             /\ i \in NewRows(f) => g[i].id \in q.nextId..(q.nextId + more - 1)
    BY <1>3, <2>1, ReplacedRows DEF g, more
  <2>6. q.nextId \in Nat \ {0} /\ q.proven \subseteq 1..q.nextId
    BY DEF RowInv
  <2>7. kept \subseteq q.proven /\ kept \subseteq 1..q.nextId-1
    <3>1. CopyIds \subseteq 1..q.nextId-1
      BY <1>3 DEF RowInv, CopyIds
    <3>2. kept \subseteq CopyIds /\ kept \subseteq q.proven
      BY DEF kept, Kept, Same, CopyIds, ToSet
    <3> QED BY <3>1, <3>2
  <2>8. \A i \in DOMAIN g : g[i].id \in 1..(q.nextId + more)-1
    BY <2>2, <2>5, <2>6
  <2>9. RowInv'
    <3>1. q'.nextId \in Nat \ {0} /\ q'.proven \subseteq 1..q'.nextId
      <4>1. \A n \in Nat \ {0}, m \in Nat : n + m \in Nat \ {0} /\ 1..n-1 \subseteq 1..n + m
        OBVIOUS
      <4>2. q.nextId + more \in Nat \ {0} /\ 1..q.nextId-1 \subseteq 1..q.nextId + more
        BY <2>2, <2>6, <4>1
      <4> QED BY <2>4, <2>7, <4>2, Zenon
    <3>2. section' \in Sections /\ section' = section
      BY DEF RowInv
    <3>3. WellFormed(q.content)'
      BY <2>1, <2>4, <2>5 DEF WellFormed
    <3>4. \A i \in DOMAIN q'.content : q'.content[i].id \in 1..q'.nextId-1
      <4>1. \A i \in DOMAIN g : g[i].id \in 1..q'.nextId-1
        BY <2>4, <2>8, Zenon
      <4> QED BY <2>4, <4>1, Zenon
    <3>5. DOMAIN q' = {"there", "published", "ready", "voided", "content", "proven", "nextId"}
      BY <2>4 DEF RowInv
    <3> QED BY <3>1, <3>2, <3>3, <3>4, <3>5 DEF RowInv
  <2>10. ASSUME ~raced, NEW i \in DOMAIN g, g[i].id \in kept PROVE g[i] \in shown
    <3>1. i \notin NewRows(f) /\ g[i] = f[i]
      BY <2>2, <2>5, <2>6, <2>7, <2>10
    <3>2. PICK d \in ToSet(f) : Same(d) /\ d.id = f[i].id
      BY <2>10, <3>1 DEF kept, Kept
    <3>3. PICK k \in DOMAIN f : d = f[k]
      BY DEF ToSet
    <3>4. f[i].id # None
      BY <2>5, <2>6, <3>1, AuthoringAssumption
    <3>5. k = i
      BY <2>1, <2>5, <3>2, <3>3, <3>4 DEF OncePerId
    <3>6. PICK m \in DOMAIN q.content : q.content[m] = f[i]
      BY <3>2, <3>3, <3>5 DEF Same
    <3>7. q.content[m].id \in q.proven
      BY <2>7, <2>10, <3>1, <3>6
    <3> QED BY <1>3, <2>10, <3>1, <3>6, <3>7 DEF ProofInv
  <2>11. ProofInv'
    BY <1>3, <2>4, <2>10 DEF ProofInv, Ready
  <2> QED BY <2>9, <2>11
<1> QED BY <1>1, <1>2, <1>3

-----------------------------------------------------------------------------
(* A page.                                                                  *)

\* What an author's page becomes: still what the author wrote, of a question that is there.
LEMMA PageStep ==
  ASSUME PageInv, section' = section, NEW a \in Authors, NEW b, NEW w,
         DOMAIN b = {"open", "form", "initial", "row"}, WellFormed(b.form), WellFormed(b.initial),
         b.open => b.row.there /\ b.form = w,
         builder' = [builder EXCEPT ![a] = b], written' = [written EXCEPT ![a] = w]
  PROVE  PageInv'
<1>1. DOMAIN builder' = Authors /\ DOMAIN written' = Authors
  BY DEF PageInv
<1>2. ASSUME NEW c \in Authors
      PROVE  /\ DOMAIN builder'[c] = {"open", "form", "initial", "row"}
             /\ WellFormed(builder'[c].form) /\ WellFormed(builder'[c].initial)
             /\ builder'[c].open => builder'[c].row.there /\ builder'[c].form = written'[c]
  <2>1. CASE c = a
    <3>1. builder'[c] = b /\ written'[c] = w
      BY <2>1 DEF PageInv
    <3> QED BY <3>1
  <2>2. CASE c # a
    <3>1. builder'[c] = builder[c] /\ written'[c] = written[c]
      BY <2>2 DEF PageInv
    <3> QED BY <3>1 DEF PageInv
  <2> QED BY <2>1, <2>2
<1>3. \A f : WellFormed(f) <=> /\ DOMAIN f # {}
                               /\ section' = "hacking" => f \in Seq(Copies) /\ OncePerId(f)
  BY StaysWellFormed, Zenon
<1> QED BY <1>1, <1>2, <1>3 DEF PageInv, WellFormed

\* Most steps leave three of the four parts alone.
LEMMA RowStays ==
  ASSUME RowInv, ProofInv, UNCHANGED <<section, q, shown, raced>>
  PROVE  RowInv' /\ ProofInv'
BY DEF RowInv, ProofInv, WellFormed

\* Nobody writes on a page.
LEMMA PageStays ==
  ASSUME PageInv, UNCHANGED <<section, builder, written>>
  PROVE  PageInv'
BY DEF PageInv, WellFormed

\* No request goes on.
LEMMA RequestsStay ==
  ASSUME RequestInv, UNCHANGED <<section, update, test>>
  PROVE  RequestInv'
BY DEF RequestInv, WellFormed

\* An edit puts a form on the page and in what was written.
LEMMA EditStep ==
  ASSUME AuthoringInv, NEW a \in Authors, NEW form, WellFormed(form), builder[a].open, Edit(a, form)
  PROVE  AuthoringInv'
<1> DEFINE b == [builder[a] EXCEPT !.form = form]
<1>0. builder' = [builder EXCEPT ![a] = b] /\ written' = [written EXCEPT ![a] = form]
      /\ UNCHANGED <<section, q, update, test, shown, raced>>
  BY DEF Edit
<1>1. /\ DOMAIN b = {"open", "form", "initial", "row"} /\ b.form = form
      /\ b.initial = builder[a].initial /\ b.row = builder[a].row /\ b.open = builder[a].open
  BY DEF AuthoringInv, PageInv
<1> HIDE DEF b
<1>2. WellFormed(b.initial) /\ b.row.there
  BY <1>1 DEF AuthoringInv, PageInv
<1>3. PageInv'
  <2>1. PageInv /\ WellFormed(b.form) /\ (b.open => b.row.there /\ b.form = form) /\ section' = section
    BY <1>0, <1>1, <1>2 DEF AuthoringInv
  <2> QED BY <1>0, <1>1, <1>2, <2>1, PageStep, Zenon
<1> QED BY <1>0, <1>3, RowStays, RequestsStay, Zenon DEF AuthoringInv

\* The hand of an author: a puzzle keeps its fields, a hacking question its copies apart.
LEMMA Edits ==
  ASSUME AuthoringInv, NEW a \in Authors,
         EditKind(a) \/ EditOptions(a) \/ EditKey(a) \/ EditCopies(a)
  PROVE  AuthoringInv'
<1> DEFINE f == builder[a].form
<1>0. WellFormed(f) /\ section \in Sections
  BY DEF AuthoringInv, PageInv, RowInv
<1>1. ASSUME section = "puzzles", NEW g, DOMAIN g = DOMAIN f
      PROVE  WellFormed(g)
  BY <1>0, <1>1 DEF WellFormed
<1>2. CASE EditKind(a)
  <2>1. builder[a].open /\ section = "puzzles"
        /\ \/ Edit(a, [f EXCEPT !.kind = "mcq_single"])
           \/ Edit(a, [f EXCEPT !.kind = "long_text", !.grading = "manual"])
    BY <1>2 DEF EditKind, Editing
  <2> HIDE DEF f
  <2>2. /\ DOMAIN [f EXCEPT !.kind = "mcq_single"] = DOMAIN f
        /\ DOMAIN [f EXCEPT !.kind = "long_text", !.grading = "manual"] = DOMAIN f
    OBVIOUS
  <2> QED BY <1>1, <2>1, <2>2, EditStep
<1>3. CASE EditOptions(a)
  <2>1. builder[a].open /\ section = "puzzles"
        /\ \/ \E i \in DOMAIN f.options, w \in Words : Edit(a, [f EXCEPT !.options[i] = w])
           \/ Edit(a, [f EXCEPT !.options = Append(@, "")])
           \/ \E i \in DOMAIN f.options : Edit(a, [f EXCEPT !.options = RemoveAt(@, i)])
    BY <1>3, Zenon DEF EditOptions, Editing
  <2> HIDE DEF f
  <2>2. /\ \A i, w : DOMAIN [f EXCEPT !.options[i] = w] = DOMAIN f
        /\ DOMAIN [f EXCEPT !.options = Append(@, "")] = DOMAIN f
        /\ \A i : DOMAIN [f EXCEPT !.options = RemoveAt(@, i)] = DOMAIN f
    OBVIOUS
  <2>3. CASE \E i \in DOMAIN f.options, w \in Words : Edit(a, [f EXCEPT !.options[i] = w])
    BY <1>1, <2>1, <2>2, <2>3, EditStep
  <2>4. CASE Edit(a, [f EXCEPT !.options = Append(@, "")])
    BY <1>1, <2>1, <2>2, <2>4, EditStep
  <2>5. CASE \E i \in DOMAIN f.options : Edit(a, [f EXCEPT !.options = RemoveAt(@, i)])
    BY <1>1, <2>1, <2>2, <2>5, EditStep
  <2> QED BY <2>1, <2>3, <2>4, <2>5
<1>4. CASE EditKey(a)
  <2>1. builder[a].open /\ section = "puzzles"
        /\ \/ \E g \in {"auto", "manual"} : Edit(a, [f EXCEPT !.grading = g])
           \/ \E i \in DOMAIN Clean(f.options) : Edit(a, [f EXCEPT !.key = i])
    BY <1>4, Zenon DEF EditKey, Editing
  <2> HIDE DEF f
  <2>2. /\ \A g : DOMAIN [f EXCEPT !.grading = g] = DOMAIN f
        /\ \A i : DOMAIN [f EXCEPT !.key = i] = DOMAIN f
    OBVIOUS
  <2> QED BY <1>1, <2>1, <2>2, EditStep
<1>5. CASE EditCopies(a)
  <2>1. builder[a].open /\ section = "hacking"
        /\ \/ \E i \in DOMAIN f, c \in Codes : Edit(a, [f EXCEPT ![i].code = c])
           \/ \E l \in Spare(f), c \in Codes : Edit(a, Append(f, Copy(None, l, c)))
           \/ Len(f) > 1 /\ \E i \in DOMAIN f : Edit(a, RemoveAt(f, i))
    BY <1>5, Zenon DEF EditCopies, Editing
  <2> HIDE DEF f
  <2>2. f \in Seq(Copies) /\ OncePerId(f) /\ f # << >>
    BY <1>0, <2>1 DEF WellFormed
  <2>3. \A g : g \in Seq(Copies) /\ OncePerId(g) /\ DOMAIN g # {} => WellFormed(g)
    BY DEF WellFormed
  <2>4. CASE \E i \in DOMAIN f, c \in Codes : Edit(a, [f EXCEPT ![i].code = c])
    <3>1. PICK i \in DOMAIN f, c \in Codes : Edit(a, [f EXCEPT ![i].code = c])
      BY <2>4
    <3>2. WellFormed([f EXCEPT ![i].code = c])
      BY <2>2, <2>3, EditedCopies, Zenon
    <3> QED BY <2>1, <3>1, <3>2, EditStep, Zenon
  <2>5. CASE \E l \in Spare(f), c \in Codes : Edit(a, Append(f, Copy(None, l, c)))
    <3>1. PICK l \in Languages, c \in Codes : Edit(a, Append(f, Copy(None, l, c)))
      BY <2>5, Zenon DEF Spare
    <3>2. WellFormed(Append(f, Copy(None, l, c)))
      BY <2>2, <2>3, EditedCopies, Zenon
    <3> QED BY <2>1, <3>1, <3>2, EditStep, Zenon
  <2>6. CASE Len(f) > 1 /\ \E i \in DOMAIN f : Edit(a, RemoveAt(f, i))
    <3>1. PICK i \in DOMAIN f : Edit(a, RemoveAt(f, i))
      BY <2>6
    <3>2. WellFormed(RemoveAt(f, i))
      BY <2>2, <2>3, <2>6, EditedCopies, Zenon
    <3> QED BY <2>1, <3>1, <3>2, EditStep, Zenon
  <2> QED BY <2>1, <2>4, <2>5, <2>6
<1> QED BY <1>2, <1>3, <1>4, <1>5

\* The page is opened or set back.
LEMMA OpensAndDiscards ==
  ASSUME AuthoringInv, NEW a \in Authors, OpenBuilder(a) \/ Discard(a)
  PROVE  AuthoringInv'
<1>1. CASE OpenBuilder(a)
  <2> DEFINE form == Form(q.content)
             b == [open |-> TRUE, form |-> form, initial |-> form, row |-> q]
  <2>1. /\ builder' = [builder EXCEPT ![a] = b] /\ written' = [written EXCEPT ![a] = form]
        /\ q.there /\ UNCHANGED <<section, q, update, test, shown, raced>>
    BY <1>1 DEF OpenBuilder
  <2>2. WellFormed(form)
    BY FormWellFormed DEF AuthoringInv, RowInv
  <2> HIDE DEF form
  <2>3. /\ DOMAIN b = {"open", "form", "initial", "row"} /\ b.open /\ b.form = form
        /\ b.initial = form /\ b.row = q
    OBVIOUS
  <2> HIDE DEF b
  <2>4. PageInv'
    BY <2>1, <2>2, <2>3, PageStep, Zenon DEF AuthoringInv
  <2> QED BY <2>1, <2>4, RowStays, RequestsStay, Zenon DEF AuthoringInv
<1>2. CASE Discard(a)
  <2> DEFINE b == [builder[a] EXCEPT !.form = builder[a].initial]
  <2>1. /\ builder' = [builder EXCEPT ![a] = b] /\ written' = [written EXCEPT ![a] = builder[a].initial]
        /\ builder[a].open /\ UNCHANGED <<section, q, update, test, shown, raced>>
    BY <1>2 DEF Discard
  <2>2. /\ DOMAIN b = {"open", "form", "initial", "row"} /\ b.form = builder[a].initial
        /\ b.initial = builder[a].initial /\ b.row = builder[a].row
    BY DEF AuthoringInv, PageInv
  <2>3. WellFormed(builder[a].initial) /\ builder[a].row.there
    BY <2>1 DEF AuthoringInv, PageInv
  <2> HIDE DEF b
  <2>4. PageInv'
    BY <2>1, <2>2, <2>3, PageStep, Zenon DEF AuthoringInv
  <2> QED BY <2>1, <2>4, RowStays, RequestsStay, Zenon DEF AuthoringInv
<1> QED BY <1>1, <1>2

\* The question is read again: what was typed stays, a form without edits follows.
LEMMA ReadAgain ==
  ASSUME AuthoringInv, NEW a \in Authors, NEW row, row = q \/ row.there, q.there,
         section' = section, StillWritten(a),
         builder' = [builder EXCEPT ![a] = [Merged(builder[a], Form(q.content)) EXCEPT !.row = row]]
  PROVE  PageInv'
<1> DEFINE old == builder[a]
           new == Form(q.content)
           form == IF old.form = old.initial THEN new ELSE old.form
           w == IF written[a] = old.initial THEN new ELSE written[a]
           b == [Merged(old, new) EXCEPT !.row = row]
<1>1. WellFormed(new)
  BY FormWellFormed DEF AuthoringInv, RowInv
<1>2. /\ DOMAIN old = {"open", "form", "initial", "row"} /\ WellFormed(old.form)
      /\ old.open => old.form = written[a]
  BY DEF AuthoringInv, PageInv
<1>3. builder' = [builder EXCEPT ![a] = b]
  OBVIOUS
<1>4. written' = [written EXCEPT ![a] = w]
  BY DEF StillWritten
<1> HIDE DEF old, new
<1>5. /\ DOMAIN b = {"open", "form", "initial", "row"} /\ b.open = old.open
      /\ b.initial = new /\ b.row = row /\ b.form = form
  BY <1>2 DEF Merged
<1> HIDE DEF b
<1>6. WellFormed(form) /\ (old.open => form = w)
  BY <1>1, <1>2
<1>7. WellFormed(b.form) /\ WellFormed(b.initial) /\ (b.open => b.row.there /\ b.form = w)
  BY <1>1, <1>5, <1>6
<1> HIDE DEF w, form
<1> QED BY <1>3, <1>4, <1>5, <1>7, PageStep, Zenon DEF AuthoringInv

\* A page whose question is gone closes.
LEMMA Closes ==
  ASSUME AuthoringInv, NEW a \in Authors, section' = section, NEW w,
         written' = [written EXCEPT ![a] = w],
         builder' = [builder EXCEPT ![a] = [builder[a] EXCEPT !.open = FALSE]]
  PROVE  PageInv'
<1> DEFINE b == [builder[a] EXCEPT !.open = FALSE]
<1>1. /\ DOMAIN b = {"open", "form", "initial", "row"} /\ ~b.open
      /\ b.form = builder[a].form /\ b.initial = builder[a].initial
  BY DEF AuthoringInv, PageInv
<1>2. WellFormed(builder[a].form) /\ WellFormed(builder[a].initial)
  BY DEF AuthoringInv, PageInv
<1>3. builder' = [builder EXCEPT ![a] = b]
  OBVIOUS
<1> HIDE DEF b
<1> QED BY <1>1, <1>2, <1>3, PageStep, Zenon DEF AuthoringInv

\* onSaved and onChanged.
LEMMA Reloads ==
  ASSUME AuthoringInv, NEW a \in Authors, section' = section, Reload(a), StillWritten(a)
  PROVE  PageInv'
<1>1. CASE q.there
  <2> DEFINE new == Form(q.content)
             b == [Merged(builder[a], new) EXCEPT !.row = q]
  <2>1. builder' = [builder EXCEPT ![a] = Merged(builder[a], new)]
    BY <1>1 DEF Reload
  <2>2. Merged(builder[a], new) = b
    <3>1. DOMAIN builder[a] = {"open", "form", "initial", "row"}
      BY DEF AuthoringInv, PageInv
    <3> HIDE DEF new
    <3> QED BY <3>1 DEF Merged
  <2>3. builder' = [builder EXCEPT ![a] = [Merged(builder[a], Form(q.content)) EXCEPT !.row = q]]
    BY <2>1, <2>2
  <2> QED BY <1>1, <2>3, ReadAgain, Zenon
<1>2. CASE ~q.there
  <2>1. builder' = [builder EXCEPT ![a] = [builder[a] EXCEPT !.open = FALSE]]
    BY <1>2 DEF Reload
  <2>2. written' = [written EXCEPT ![a] = written[a]]
    BY <1>2 DEF StillWritten
  <2> QED BY <2>1, <2>2, Closes, Zenon
<1> QED BY <1>1, <1>2

\* A save or a test of one page, as it becomes.
LEMMA RequestStep ==
  ASSUME RequestInv, section' = section, NEW a \in Authors, NEW u, NEW t,
         DOMAIN u = {"at", "payload"}, u.at # "none" => WellFormed(u.payload),
         DOMAIN t = {"at", "id", "input", "content"},
         section = "hacking" /\ t.at = "judged" => t.content.id = t.id,
         DOMAIN update' = Authors, DOMAIN test' = Authors,
         \A c \in Authors : /\ update'[c] = (IF c = a THEN u ELSE update[c])
                           /\ test'[c] = (IF c = a THEN t ELSE test[c])
  PROVE  RequestInv'
<1>2. ASSUME NEW c \in Authors
      PROVE  /\ DOMAIN update'[c] = {"at", "payload"} /\ (update'[c].at # "none" => WellFormed(update'[c].payload))
             /\ DOMAIN test'[c] = {"at", "id", "input", "content"}
             /\ (section = "hacking" /\ test'[c].at = "judged" => test'[c].content.id = test'[c].id)
  <2>1. CASE c = a
    <3>1. update'[c] = u /\ test'[c] = t
      BY <2>1
    <3> QED BY <3>1
  <2>2. CASE c # a
    <3>1. update'[c] = update[c] /\ test'[c] = test[c]
      BY <2>2
    <3> QED BY <3>1 DEF RequestInv
  <2> QED BY <2>1, <2>2
<1>3. \A f : WellFormed(f) <=> /\ DOMAIN f # {}
                               /\ section' = "hacking" => f \in Seq(Copies) /\ OncePerId(f)
  BY StaysWellFormed, Zenon
<1> QED BY <1>2, <1>3 DEF RequestInv, WellFormed

\* A save goes on, or ends.
LEMMA UpdateStep ==
  ASSUME RequestInv, UNCHANGED <<section, test>>, NEW a \in Authors, NEW u,
         DOMAIN u = {"at", "payload"}, u.at # "none" => WellFormed(u.payload),
         update' = [update EXCEPT ![a] = u]
  PROVE  RequestInv'
<1>1. DOMAIN test[a] = {"at", "id", "input", "content"}
      /\ (section = "hacking" /\ test[a].at = "judged" => test[a].content.id = test[a].id)
  BY DEF RequestInv
<1>2. /\ DOMAIN update' = Authors /\ DOMAIN test' = Authors
      /\ \A c \in Authors : update'[c] = (IF c = a THEN u ELSE update[c])
                          /\ test'[c] = (IF c = a THEN test[a] ELSE test[c])
  BY DEF RequestInv
<1> QED BY <1>1, <1>2, RequestStep

\* A test goes on, or ends.
LEMMA TestStep ==
  ASSUME RequestInv, UNCHANGED <<section, update>>, NEW a \in Authors, NEW t,
         DOMAIN t = {"at", "id", "input", "content"},
         section = "hacking" /\ t.at = "judged" => t.content.id = t.id,
         test' = [test EXCEPT ![a] = t]
  PROVE  RequestInv'
<1>1. DOMAIN update[a] = {"at", "payload"} /\ (update[a].at # "none" => WellFormed(update[a].payload))
  BY DEF RequestInv
<1>2. /\ DOMAIN update' = Authors /\ DOMAIN test' = Authors
      /\ \A c \in Authors : update'[c] = (IF c = a THEN update[a] ELSE update[c])
                          /\ test'[c] = (IF c = a THEN t ELSE test[c])
  BY DEF RequestInv
<1> QED BY <1>1, <1>2, RequestStep, Zenon

-----------------------------------------------------------------------------
(* A save and a test.                                                       *)

\* What is saved is the form as it is on the page, well formed.
LEMMA Saves ==
  ASSUME AuthoringInv, NEW a \in Authors, Save(a) \/ SaveStored(a) \/ SaveAnswered(a)
  PROVE  AuthoringInv'
<1>0. DOMAIN update[a] = {"at", "payload"} /\ WellFormed(builder[a].form) /\ section \in Sections
  BY DEF AuthoringInv, RowInv, PageInv, RequestInv
<1>1. CASE Save(a)
  <2> DEFINE u == [at |-> "sent", payload |-> Payload(builder[a].form)]
  <2>1. update' = [update EXCEPT ![a] = u] /\ UNCHANGED <<section, q, builder, test, shown, raced, written>>
    BY <1>1 DEF Save, ghosts
  <2>2. DOMAIN u = {"at", "payload"} /\ WellFormed(u.payload)
    BY <1>0, PayloadWellFormed
  <2> HIDE DEF u
  <2>3. RequestInv'
    BY <2>1, <2>2, UpdateStep DEF AuthoringInv
  <2> QED BY <2>1, <2>3, RowStays, PageStays, Zenon DEF AuthoringInv
<1>2. CASE SaveStored(a)
  <2>1. update[a].at = "sent" /\ UNCHANGED <<section, builder, test, shown, raced, written>>
    BY <1>2 DEF SaveStored, ghosts
  <2>2. WellFormed(update[a].payload)
    BY <2>1 DEF AuthoringInv, RequestInv
  <2>3. CASE q.there
    <3> DEFINE u == [update[a] EXCEPT !.at = "stored"]
    <3>1. q' = Updated(update[a].payload) /\ update' = [update EXCEPT ![a] = u]
      BY <1>2, <2>3 DEF SaveStored
    <3>2. DOMAIN u = {"at", "payload"} /\ u.payload = update[a].payload
      BY <1>0
    <3> HIDE DEF u
    <3>3. RequestInv'
      BY <2>1, <2>2, <3>1, <3>2, UpdateStep DEF AuthoringInv
    <3>4. RowInv' /\ ProofInv'
      BY <2>1, <2>2, <3>1, SavedRow DEF AuthoringInv
    <3> QED BY <2>1, <3>3, <3>4, PageStays, Zenon DEF AuthoringInv
  <2>4. CASE ~q.there
    <3>1. q' = q /\ update' = [update EXCEPT ![a] = NoUpdate]
      BY <1>2, <2>4 DEF SaveStored
    <3>2. DOMAIN NoUpdate = {"at", "payload"} /\ NoUpdate.at = "none"
      BY DEF NoUpdate
    <3>3. RequestInv'
      BY <2>1, <3>1, <3>2, UpdateStep DEF AuthoringInv
    <3> QED BY <2>1, <3>1, <3>3, PageStays, RowStays, Zenon DEF AuthoringInv
  <2> QED BY <2>3, <2>4
<1>3. CASE SaveAnswered(a)
  <2>1. /\ update' = [update EXCEPT ![a] = NoUpdate] /\ Reload(a) /\ StillWritten(a)
        /\ UNCHANGED <<section, q, test, shown, raced>>
    BY <1>3 DEF SaveAnswered
  <2>2. DOMAIN NoUpdate = {"at", "payload"} /\ NoUpdate.at = "none"
    BY DEF NoUpdate
  <2>3. RequestInv'
    BY <2>1, <2>2, UpdateStep DEF AuthoringInv
  <2> QED BY <2>1, <2>3, Reloads, RowStays, Zenon DEF AuthoringInv
<1> QED BY <1>1, <1>2, <1>3

\* A test is sent of what the page shows, and its answer read.
LEMMA SendsTest ==
  ASSUME AuthoringInv, NEW a \in Authors, RunSelfTest(a) \/ ProveCopy(a) \/ TestReads(a) \/ TestAnswered(a)
  PROVE  AuthoringInv'
<1>0. DOMAIN NoTest = {"at", "id", "input", "content"} /\ NoTest.at = "none"
  BY DEF NoTest
<1>1. ASSUME NEW id, NEW input, Test(a, id, input) PROVE AuthoringInv'
  <2> DEFINE t == [NoTest EXCEPT !.at = "sent", !.id = id, !.input = input]
  <2>1. test' = [test EXCEPT ![a] = t] /\ UNCHANGED <<section, q, builder, update, shown, raced, written>>
    BY <1>1 DEF Test, ghosts
  <2>2. DOMAIN t = {"at", "id", "input", "content"} /\ t.at = "sent"
    BY DEF NoTest
  <2> HIDE DEF t
  <2>3. RequestInv'
    BY <2>1, <2>2, TestStep DEF AuthoringInv
  <2> QED BY <2>1, <2>3, RowStays, PageStays, Zenon DEF AuthoringInv
<1>2. CASE RunSelfTest(a)
  BY <1>1, <1>2, Zenon DEF RunSelfTest
<1>3. CASE ProveCopy(a)
  BY <1>1, <1>3, Zenon DEF ProveCopy
<1>4. CASE TestReads(a)
  <2> DEFINE copy == CHOOSE c \in ToSet(q.content) : c.id = test[a].id
             content == IF section = "puzzles" THEN q.content ELSE copy
             gone == ~q.there \/ (section = "hacking" /\ test[a].id \notin CopyIds)
             t == IF gone THEN NoTest ELSE [test[a] EXCEPT !.at = "judged", !.content = content]
  <2>1. test' = [test EXCEPT ![a] = t] /\ UNCHANGED <<section, q, builder, update, shown, raced, written>>
    BY <1>4, Zenon DEF TestReads, ghosts
  <2>2. DOMAIN t = {"at", "id", "input", "content"}
        /\ (section = "hacking" /\ t.at = "judged" => t.content.id = t.id)
    <3>1. CASE gone
      BY <1>0, <3>1
    <3>2. CASE ~gone
      <4>1. section = "hacking" => copy.id = test[a].id
        BY <3>2 DEF CopyIds, ToSet
      <4>2. DOMAIN test[a] = {"at", "id", "input", "content"}
        BY DEF AuthoringInv, RequestInv
      <4> HIDE DEF copy
      <4>3. section = "hacking" => content.id = test[a].id
        BY <4>1
      <4> HIDE DEF content
      <4>4. t = [test[a] EXCEPT !.at = "judged", !.content = content]
        BY <3>2
      <4> HIDE DEF t, gone
      <4> QED BY <4>2, <4>3, <4>4
    <3> QED BY <3>1, <3>2
  <2> HIDE DEF t
  <2>3. RequestInv'
    BY <2>1, <2>2, TestStep DEF AuthoringInv
  <2> QED BY <2>1, <2>3, RowStays, PageStays, Zenon DEF AuthoringInv
<1>5. CASE TestAnswered(a)
  <2>1. /\ test' = [test EXCEPT ![a] = NoTest] /\ Reload(a) /\ StillWritten(a)
        /\ UNCHANGED <<section, q, update, shown, raced>>
    BY <1>5 DEF TestAnswered
  <2>2. RequestInv'
    BY <1>0, <2>1, TestStep DEF AuthoringInv
  <2> QED BY <2>1, <2>2, Reloads, RowStays, Zenon DEF AuthoringInv
<1> QED BY <1>2, <1>3, <1>4, <1>5

\* A test that passes proves the copy it was run on, as long as the row still holds it.
LEMMA WritesTest ==
  ASSUME AuthoringInv, NEW a \in Authors, TestWrites(a)
  PROVE  AuthoringInv'
<1> DEFINE t == [test[a] EXCEPT !.at = "written"]
           content == test[a].content
           id == test[a].id
           passed == Passed(test[a])
<1>1. /\ test' = [test EXCEPT ![a] = t] /\ test[a].at = "judged"
      /\ UNCHANGED <<section, builder, update, written>>
  BY DEF TestWrites
<1>2. /\ q' = IF ~q.there THEN q
              ELSE IF section = "puzzles" THEN [q EXCEPT !.ready = passed] ELSE Recorded(id, passed)
      /\ shown' = IF passed THEN shown \cup {content} ELSE shown
      /\ raced' = (raced \/ content \notin (IF section = "puzzles" THEN {q.content} ELSE ToSet(q.content)))
  BY Zenon DEF TestWrites
<1>3. DOMAIN t = {"at", "id", "input", "content"} /\ t.at = "written"
  BY DEF AuthoringInv, RequestInv
<1>4. section = "hacking" => content.id = id
  BY <1>1 DEF AuthoringInv, RequestInv
<1> HIDE DEF t, content, id, passed
<1>5. RequestInv'
  BY <1>1, <1>3, TestStep DEF AuthoringInv
<1>6. PageInv'
  BY <1>1, PageStays DEF AuthoringInv
<1>7. shown \subseteq shown' /\ (~raced' => ~raced)
  BY <1>2
<1>8. section \in Sections /\ section' = section /\ (section = "puzzles" \/ section = "hacking")
  BY <1>1, AuthoringAssumption DEF AuthoringInv, RowInv
<1>9. RowInv' /\ ProofInv'
  <2>1. CASE ~q.there
    <3>1. q' = q
      BY <1>2, <2>1
    <3> QED BY <1>7, <1>8, <3>1 DEF AuthoringInv, RowInv, ProofInv, WellFormed
  <2>2. CASE q.there /\ section = "puzzles"
    <3>1. q' = [q EXCEPT !.ready = passed]
      BY <1>2, <2>2
    <3>2. DOMAIN q' = DOMAIN q /\ q'.content = q.content /\ q'.proven = q.proven /\ q'.nextId = q.nextId
          /\ q'.ready = passed
      BY <3>1 DEF AuthoringInv, RowInv
    <3>3. passed /\ ~raced' => q.content \in shown'
      BY <1>2, <2>2
    <3>4. RowInv'
      BY <1>8, <2>2, <3>2 DEF AuthoringInv, RowInv, WellFormed
    <3>5. ProofInv'
      BY <1>8, <2>2, <3>2, <3>3 DEF ProofInv
    <3> QED BY <3>4, <3>5
  <2>3. CASE q.there /\ section = "hacking"
    <3> DEFINE now == IF passed THEN q.proven \cup ({id} \cap CopyIds) ELSE q.proven \ {id}
    <3>1. q' = [q EXCEPT !.proven = now, !.ready = Ready(q.content, now)]
      BY <1>2, <2>3 DEF Recorded
    <3> HIDE DEF now
    <3>2. DOMAIN q' = DOMAIN q /\ q'.content = q.content /\ q'.proven = now /\ q'.nextId = q.nextId
          /\ q'.ready = Ready(q.content, now)
      BY <3>1 DEF AuthoringInv, RowInv
    <3>3. q.content \in Seq(Copies) /\ OncePerId(q.content) /\ q.nextId \in Nat \ {0}
          /\ q.proven \subseteq 1..q.nextId /\ \A i \in DOMAIN q.content : q.content[i].id \in 1..q.nextId-1
      BY <2>3 DEF AuthoringInv, RowInv, WellFormed
    <3>4. CopyIds \subseteq 1..q.nextId
      BY <3>3 DEF CopyIds
    <3>5. now \subseteq 1..q.nextId
      BY <3>3, <3>4 DEF now
    <3>6. RowInv'
      <4>1. RowInv
        BY DEF AuthoringInv
      <4> QED BY <1>8, <3>2, <3>5, <4>1 DEF RowInv, WellFormed
    <3>7. ASSUME ~raced', NEW i \in DOMAIN q.content, q.content[i].id \in now
          PROVE  q.content[i] \in shown'
      <4>1. CASE q.content[i].id \in q.proven
        BY <1>7, <2>3, <3>7, <4>1 DEF AuthoringInv, ProofInv
      <4>2. CASE q.content[i].id \notin q.proven
        <5>1. passed /\ q.content[i].id = id
          BY <3>7, <4>2 DEF now
        <5>2. PICK k \in DOMAIN q.content : q.content[k] = content
          BY <1>2, <2>3, <3>7 DEF ToSet
        <5>3. q.content[k].id = q.content[i].id /\ q.content[i].id # None
          BY <1>4, <2>3, <3>3, <5>1, <5>2, AuthoringAssumption
        <5>4. k = i
          BY <3>3, <5>3 DEF OncePerId
        <5> QED BY <1>2, <5>1, <5>2, <5>4
      <4> QED BY <4>1, <4>2
    <3>8. ProofInv'
      BY <1>8, <2>3, <3>2, <3>7 DEF ProofInv
    <3> QED BY <3>6, <3>8
  <2> QED BY <1>8, <2>1, <2>2, <2>3
<1> QED BY <1>5, <1>6, <1>9 DEF AuthoringInv

-----------------------------------------------------------------------------
(* The controls, and all an author may do.                                  *)

\* A control changes where the question stands, and neither what it holds nor what is proven.
LEMMA Presses ==
  ASSUME AuthoringInv, NEW a \in Authors, NEW control \in Controls, Control(a, control)
  PROVE  AuthoringInv'
<1>1. q.there /\ q' = Acted(control) /\ StillWritten(a) /\ UNCHANGED <<section, update, test, shown, raced>>
  BY DEF Control, Accepts
<1>2. /\ DOMAIN q' = DOMAIN q /\ q'.content = q.content /\ q'.proven = q.proven /\ q'.nextId = q.nextId
      /\ q'.ready = q.ready /\ (control # "delete" => q'.there = q.there)
  BY <1>1 DEF Acted, Controls, AuthoringInv, RowInv
<1>3. RowInv' /\ ProofInv'
  <2>1. RowInv /\ ProofInv
    BY DEF AuthoringInv
  <2> QED BY <1>1, <1>2, <2>1 DEF RowInv, ProofInv, WellFormed
<1>4. PageInv'
  <2>1. CASE control = "delete"
    <3>1. builder' = [builder EXCEPT ![a] = [builder[a] EXCEPT !.open = FALSE]]
      BY <2>1 DEF Control
    <3>2. PICK w : written' = [written EXCEPT ![a] = w]
      BY Zenon, <1>1 DEF StillWritten
    <3> QED BY <1>1, <3>1, <3>2, Closes, Zenon
  <2>2. CASE control # "delete"
    <3>1. builder' = [builder EXCEPT ![a] = [Merged(builder[a], Form(q.content)) EXCEPT !.row = q']]
      BY <2>2 DEF Control
    <3>2. q'.there
      BY <1>1, <1>2, <2>2
    <3> QED BY <1>1, <3>1, <3>2, ReadAgain, Zenon
  <2> QED BY <2>1, <2>2
<1> QED BY <1>1, <1>3, <1>4, RequestsStay, Zenon DEF AuthoringInv

\* Every step of an author.
LEMMA AuthorStep ==
  ASSUME AuthoringInv, NEW a \in Authors, Author(a)
  PROVE  AuthoringInv'
BY Edits, OpensAndDiscards, Saves, SendsTest, WritesTest, Presses, Zenon DEF Author

\* A draft as the wizard sends it.
LEMMA AuthoringStarts ==
  AuthoringInit => AuthoringInv
<1> SUFFICES ASSUME AuthoringInit PROVE AuthoringInv
  OBVIOUS
<1>1. section \in Sections /\ (section = "puzzles" \/ section = "hacking")
  BY AuthoringAssumption DEF AuthoringInit
<1> DEFINE content == IF section = "puzzles" THEN Puzzle("mcq_single", "auto", SetToSeq(Words \ {""}), 1)
                      ELSE <<Copy(1, CHOOSE l \in Languages : TRUE, CHOOSE c \in Codes : TRUE)>>
<1>2. q = NewQuestion(content)
  BY DEF AuthoringInit
<1>3. section = "hacking" => /\ content \in Seq(Copies) /\ Len(content) = 1 /\ content[1].id = 1
  BY AuthoringAssumption DEF Copies, Copy
<1>4. section = "puzzles" => DOMAIN content # {}
  BY DEF Puzzle
<1> HIDE DEF content
<1>5. WellFormed(content)
  BY <1>1, <1>3, <1>4 DEF WellFormed, OncePerId
<1>6. /\ DOMAIN q = {"there", "published", "ready", "voided", "content", "proven", "nextId"}
      /\ q.content = content /\ q.proven = {} /\ ~q.ready
      /\ q.nextId = IF section = "hacking" THEN Len(content) + 1 ELSE 1
  BY <1>2 DEF NewQuestion
<1>7. RowInv
  <2>1. q.nextId \in Nat \ {0} /\ (section = "hacking" => q.nextId = 2)
    <3>1. CASE section = "hacking"
      <4>1. q.nextId = Len(content) + 1 /\ Len(content) = 1
        BY <1>3, <1>6, <3>1
      <4>2. q.nextId = 2
        BY <4>1
      <4> QED BY <4>2
    <3>2. CASE section # "hacking"
      <4>1. q.nextId = 1
        BY <1>6, <3>2
      <4> QED BY <3>2, <4>1
    <3> QED BY <3>1, <3>2
  <2>2. section = "hacking" => \A i \in DOMAIN q.content : q.content[i].id \in 1..q.nextId-1
    BY <1>3, <1>6, <2>1
  <2> QED BY <1>1, <1>5, <1>6, <2>1, <2>2 DEF RowInv
<1>8. PageInv
  BY <1>5, <1>6 DEF AuthoringInit, PageInv
<1>9. RequestInv
  BY DEF AuthoringInit, RequestInv, NoUpdate, NoTest
<1>10. ProofInv
  BY <1>6 DEF ProofInv
<1> QED BY <1>7, <1>8, <1>9, <1>10 DEF AuthoringInv

-----------------------------------------------------------------------------
(* Section B, over a question nobody writes meanwhile.                      *)

LEMMA WritingStays ==
  ASSUME AuthoringInv, UNCHANGED writing
  PROVE  AuthoringInv'
BY RowStays, PageStays, RequestsStay, Zenon DEF AuthoringInv, writing, ghosts

\* The attempt under way goes on, or ends; points are for the first hack.
LEMMA AttemptGoesOn ==
  ASSUME HackingInv, UNCHANGED q, NEW i \in DOMAIN attempt, attempt[i].state # "done",
         NEW r \in AttemptRow, r.copy = attempt[i].copy, attempt' = [attempt EXCEPT ![i] = r],
         job' \in Seq([code : Codes, input : Codes \cup {None}]), Len(job) <= Len(job'),
         r.job \in 0..Len(job'), r.state = "queued" <=> r.job # 0 /\ r.state # "done",
         r.state # "done" => r.outcome = "none" /\ r.points = 0,
         r.points > 0 => r.outcome = "hacked" /\ \A k \in DOMAIN attempt : attempt[k].outcome # "hacked"
  PROVE  /\ attempt' \in Seq(AttemptRow) /\ DOMAIN attempt' = DOMAIN attempt
         /\ AttemptInv' /\ ScoreInv'
         /\ \A k \in DOMAIN attempt : attempt[k].state = "done" => attempt'[k] = attempt[k]
<1>1. attempt \in Seq(AttemptRow) /\ job \in Seq([code : Codes, input : Codes \cup {None}])
      /\ AttemptInv /\ ScoreInv
  BY DEF HackingInv, AttemptTypes
<1>2. /\ attempt' \in Seq(AttemptRow) /\ DOMAIN attempt' = DOMAIN attempt /\ Len(attempt') = Len(attempt)
      /\ attempt'[i] = r /\ \A k \in DOMAIN attempt : k # i => attempt'[k] = attempt[k]
  BY <1>1
<1>3. i = Len(attempt)
  BY <1>1 DEF AttemptInv
<1>4. Len(job) \in Nat /\ Len(job') \in Nat
  BY <1>1
<1>5. ASSUME NEW k \in DOMAIN attempt
      PROVE  /\ attempt'[k].job \in 0..Len(job')
             /\ attempt'[k].state = "queued" <=> attempt'[k].job # 0 /\ attempt'[k].state # "done"
             /\ attempt'[k].state # "done" =>
                  k = Len(attempt) /\ attempt'[k].outcome = "none" /\ attempt'[k].points = 0
             /\ attempt'[k].copy # None => \E m \in DOMAIN q.content : q.content[m].id = attempt'[k].copy
  <2>1. CASE k = i
    BY <1>1, <1>2, <1>3, <2>1 DEF AttemptInv
  <2>2. CASE k # i
    <3>1. attempt'[k] = attempt[k]
      BY <1>2, <2>2
    <3>2. attempt[k].job \in 0..Len(job')
      BY <1>1, <1>4 DEF AttemptInv
    <3> QED BY <1>1, <3>1, <3>2 DEF AttemptInv
  <2> QED BY <2>1, <2>2
<1>6. AttemptInv'
  BY <1>2, <1>5 DEF AttemptInv
<1>7. ScoreInv'
  <2>1. \A k \in DOMAIN attempt' : attempt'[k].points > 0 => attempt'[k].outcome = "hacked"
    BY <1>1, <1>2 DEF ScoreInv
  <2>2. ASSUME NEW k \in DOMAIN attempt', NEW m \in DOMAIN attempt', attempt'[k].points > 0, attempt'[m].points > 0
        PROVE  k = m
    BY <1>1, <1>2, <2>2 DEF ScoreInv
  <2> QED BY <2>1, <2>2 DEF ScoreInv
<1> QED BY <1>2, <1>3, <1>6, <1>7

\* send_one: a pending attempt is the newest, and its copy is one of the question's.
LEMMA Sends ==
  ASSUME HackingInv, SendOne
  PROVE  /\ HackingInv'
         /\ \A k \in DOMAIN attempt : attempt[k].state = "done" => attempt'[k] = attempt[k]
<1>1. /\ UNCHANGED writing /\ UNCHANGED <<section, q, page, collected>>
  BY DEF SendOne, writing
<1>2. AuthoringInv' /\ AttemptTypes /\ AttemptInv /\ ScoreInv
  BY <1>1, WritingStays DEF HackingInv
<1>3. PICK i \in Pending :
        /\ attempt[i].copy # None
        /\ \/ /\ job' = Append(job, [code |-> CopyOf(i).code, input |-> attempt[i].input])
              /\ \/ attempt' = [attempt EXCEPT ![i].state = "queued", ![i].job = Len(job')]
                 \/ UNCHANGED attempt
           \/ attempt' = Ended(i, "IE", 0) /\ UNCHANGED job
           \/ UNCHANGED <<attempt, job>>
  <2>1. attempt \in Seq(AttemptRow)
    BY <1>2 DEF AttemptTypes
  <2>2. PICK k \in Pending : TRUE
    BY DEF SendOne
  <2>3. k \in DOMAIN attempt /\ attempt[k].state = "pending"
    BY DEF Pending
  <2>4. \A m \in Pending : k <= m
    BY <1>2, <2>1, <2>3 DEF Pending, AttemptInv
  <2> DEFINE oldest == CHOOSE n \in Pending : \A m \in Pending : n <= m
  <2>5. oldest \in Pending
    BY <2>4
  <2>6. /\ attempt[oldest].copy # None
        /\ \/ /\ job' = Append(job, [code |-> CopyOf(oldest).code, input |-> attempt[oldest].input])
              /\ \/ attempt' = [attempt EXCEPT ![oldest].state = "queued", ![oldest].job = Len(job')]
                 \/ UNCHANGED attempt
           \/ attempt' = Ended(oldest, "IE", 0) /\ UNCHANGED job
           \/ UNCHANGED <<attempt, job>>
    BY Zenon DEF SendOne
  <2> HIDE DEF oldest
  <2> QED BY <2>5, <2>6
<1>4. i \in DOMAIN attempt /\ attempt[i].state = "pending" /\ attempt[i] \in AttemptRow
      /\ attempt \in Seq(AttemptRow) /\ job \in Seq([code : Codes, input : Codes \cup {None}])
  BY <1>2, ElementOfSeq DEF Pending, AttemptTypes
<1>5. attempt[i].outcome = "none" /\ attempt[i].points = 0 /\ attempt[i].job = 0
  BY <1>2, <1>4 DEF AttemptInv
<1> DEFINE new == [code |-> CopyOf(i).code, input |-> attempt[i].input]
<1>6. new \in [code : Codes, input : Codes \cup {None}]
  <2>1. section = "hacking" /\ q.content \in Seq(Copies)
    BY <1>2, <1>4 DEF AttemptTypes, HackingInv, AuthoringInv, RowInv, WellFormed
  <2>2. \E c \in ToSet(q.content) : c.id = attempt[i].copy
    BY <1>2, <1>3, <1>4 DEF AttemptInv, ToSet
  <2>3. CopyOf(i) \in ToSet(q.content)
    BY <2>2 DEF CopyOf
  <2>4. CopyOf(i) \in Copies
    BY <2>1, <2>3, ElementOfSeq DEF ToSet
  <2> QED BY <1>4, <2>4 DEF AttemptRow, Copies
<1> HIDE DEF new
<1>7. Append(job, new) \in Seq([code : Codes, input : Codes \cup {None}]) /\ Len(Append(job, new)) = Len(job) + 1
      /\ Len(job) \in Nat
  BY <1>4, <1>6
<1>8. ASSUME NEW r \in AttemptRow, r.copy = attempt[i].copy, attempt' = [attempt EXCEPT ![i] = r],
             job' \in Seq([code : Codes, input : Codes \cup {None}]), Len(job) <= Len(job'),
             r.job \in 0..Len(job'), r.state = "queued" <=> r.job # 0 /\ r.state # "done",
             r.state # "done" => r.outcome = "none", r.points = 0
      PROVE  /\ HackingInv'
             /\ \A k \in DOMAIN attempt : attempt[k].state = "done" => attempt'[k] = attempt[k]
  <2>1. /\ attempt' \in Seq(AttemptRow) /\ DOMAIN attempt' = DOMAIN attempt
        /\ AttemptInv' /\ ScoreInv'
        /\ \A k \in DOMAIN attempt : attempt[k].state = "done" => attempt'[k] = attempt[k]
    <3>1. ~(r.points > 0) /\ attempt[i].state # "done" /\ UNCHANGED q
      BY <1>1, <1>4, <1>8
    <3> QED BY <1>4, <1>8, <3>1, AttemptGoesOn
  <2>2. AttemptTypes'
    BY <1>1, <1>2, <1>4, <1>8, <2>1 DEF AttemptTypes
  <2> QED BY <1>2, <2>1, <2>2 DEF HackingInv
<1>9. CASE job' = Append(job, new) /\ attempt' = [attempt EXCEPT ![i].state = "queued", ![i].job = Len(job')]
  <2> DEFINE r == [attempt[i] EXCEPT !.state = "queued", !.job = Len(job')]
  <2>1. Len(job') \in Nat /\ Len(job') # 0 /\ Len(job) <= Len(job') /\ Len(job') \in 0..Len(job')
        /\ job' \in Seq([code : Codes, input : Codes \cup {None}])
    BY <1>7, <1>9
  <2>2. r \in AttemptRow /\ r.copy = attempt[i].copy /\ r.state = "queued" /\ r.job = Len(job')
        /\ r.outcome = "none" /\ r.points = 0
    BY <1>4, <1>5, <2>1 DEF AttemptRow
  <2>3. attempt' = [attempt EXCEPT ![i] = r]
    BY <1>4, <1>9
  <2> HIDE DEF r
  <2> QED BY <1>8, <2>1, <2>2, <2>3
<1>10. CASE attempt' = Ended(i, "IE", 0) /\ UNCHANGED job
  <2> DEFINE r == [attempt[i] EXCEPT !.state = "done", !.outcome = "IE", !.points = 0]
  <2>1. r \in AttemptRow /\ r.copy = attempt[i].copy /\ r.state = "done" /\ r.job = 0
        /\ r.outcome = "IE" /\ r.points = 0
    BY <1>4, <1>5 DEF AttemptRow, Verdicts
  <2>2. attempt' = [attempt EXCEPT ![i] = r]
    BY <1>4, <1>10 DEF Ended
  <2>3. job' \in Seq([code : Codes, input : Codes \cup {None}]) /\ Len(job) <= Len(job') /\ 0 \in 0..Len(job')
    BY <1>4, <1>7, <1>10
  <2> HIDE DEF r
  <2> QED BY <1>8, <2>1, <2>2, <2>3
<1>11. CASE UNCHANGED attempt /\ (job' = Append(job, new) \/ UNCHANGED job)
  <2>1. job' \in Seq([code : Codes, input : Codes \cup {None}]) /\ Len(job) <= Len(job') /\ Len(job') \in Nat
    <3>1. CASE job' = Append(job, new)
      BY <1>7, <3>1
    <3>2. CASE job' = job
      BY <1>4, <3>2
    <3> QED BY <1>11, <3>1, <3>2
  <2>2. AttemptTypes'
    BY <1>1, <1>2, <1>11, <2>1 DEF AttemptTypes
  <2>3. AttemptInv'
    <3>1. \A k \in DOMAIN attempt : attempt[k].job \in 0..Len(job')
      BY <1>2, <1>7, <2>1 DEF AttemptInv
    <3> QED BY <1>1, <1>2, <1>11, <3>1 DEF AttemptInv
  <2>4. ScoreInv'
    BY <1>2, <1>11 DEF ScoreInv
  <2> QED BY <1>2, <1>11, <2>2, <2>3, <2>4 DEF HackingInv
<1> QED BY <1>3, <1>9, <1>10, <1>11 DEF new

\* settle: only what still waits for that job; late and double results change nothing.
LEMMA Settles ==
  ASSUME HackingInv, NEW c \in collected, Settle(c)
  PROVE  /\ HackingInv'
         /\ \A k \in DOMAIN attempt : attempt[k].state = "done" => attempt'[k] = attempt[k]
<1>1. UNCHANGED <<section, q, builder, update, test, shown, raced, written, job>> /\ collected' \subseteq collected
  BY DEF Settle, authoring, ghosts
<1>2. AuthoringInv' /\ AttemptTypes /\ AttemptInv /\ ScoreInv
  BY <1>1, WritingStays DEF HackingInv, writing, ghosts
<1>3. page'.at = page.at /\ DOMAIN page' = DOMAIN page
  BY <1>2 DEF Settle, AttemptTypes
<1>4. c \in [attempt : Nat, job : Nat, outcome : Verdicts \cup {"gone"}] /\ c.attempt \in DOMAIN attempt
      /\ attempt \in Seq(AttemptRow) /\ job \in Seq([code : Codes, input : Codes \cup {None}])
  BY <1>2 DEF AttemptTypes
<1> DEFINE i == c.attempt
<1>5. CASE attempt' = attempt
  <2>1. AttemptTypes' /\ AttemptInv' /\ ScoreInv'
    BY <1>1, <1>2, <1>3, <1>5 DEF AttemptTypes, AttemptInv, ScoreInv
  <2> QED BY <1>2, <1>5, <2>1 DEF HackingInv
<1>6. ASSUME attempt[i].state # "done", NEW r \in AttemptRow, r.copy = attempt[i].copy,
             attempt' = [attempt EXCEPT ![i] = r],
             r.job \in 0..Len(job), r.state = "queued" <=> r.job # 0 /\ r.state # "done",
             r.state # "done" => r.outcome = "none" /\ r.points = 0,
             r.points > 0 => r.outcome = "hacked" /\ \A k \in DOMAIN attempt : attempt[k].outcome # "hacked"
      PROVE  /\ HackingInv'
             /\ \A k \in DOMAIN attempt : attempt[k].state = "done" => attempt'[k] = attempt[k]
  <2>1. /\ i \in DOMAIN attempt /\ UNCHANGED q /\ Len(job) <= Len(job') /\ r.job \in 0..Len(job')
        /\ job' \in Seq([code : Codes, input : Codes \cup {None}])
    BY <1>1, <1>4, <1>6
  <2> HIDE DEF i
  <2>2. /\ attempt' \in Seq(AttemptRow) /\ DOMAIN attempt' = DOMAIN attempt
        /\ AttemptInv' /\ ScoreInv'
        /\ \A k \in DOMAIN attempt : attempt[k].state = "done" => attempt'[k] = attempt[k]
    BY <1>6, <2>1, AttemptGoesOn
  <2>3. AttemptTypes'
    BY <1>1, <1>2, <1>3, <1>4, <2>2 DEF AttemptTypes
  <2> QED BY <1>2, <2>2, <2>3 DEF HackingInv
<1>7. attempt[i] \in AttemptRow /\ attempt[i].job \in 0..Len(job) /\ Len(job) \in Nat
      /\ (attempt[i].state # "done" => attempt[i].outcome = "none" /\ attempt[i].points = 0)
  BY <1>2, <1>4, ElementOfSeq DEF AttemptInv
<1>8. CASE attempt[i].state # "done" /\ attempt' = Resent(i)
  <2> DEFINE r == [attempt[i] EXCEPT !.state = "pending", !.job = 0]
  <2>1. r \in AttemptRow /\ r.copy = attempt[i].copy /\ r.state = "pending" /\ r.job = 0
        /\ r.outcome = "none" /\ r.points = 0
    BY <1>7, <1>8 DEF AttemptRow
  <2>2. attempt' = [attempt EXCEPT ![i] = r]
    BY <1>4, <1>8 DEF Resent
  <2> HIDE DEF r
  <2>3. 0 \in 0..Len(job) /\ ~(r.points > 0)
    BY <1>7, <2>1
  <2> QED BY <1>6, <1>8, <2>1, <2>2, <2>3
<1>9. CASE attempt[i].state # "done" /\ c.outcome # "gone" /\ attempt' = Ended(i, c.outcome, PointsFor(i, c.outcome))
  <2> DEFINE p == PointsFor(i, c.outcome)
             r == [attempt[i] EXCEPT !.state = "done", !.outcome = c.outcome, !.points = p]
  <2>1. p \in Int /\ (p > 0 => c.outcome = "hacked" /\ \A k \in DOMAIN attempt : attempt[k].outcome # "hacked")
    BY DEF PointsFor, Points, Penalty
  <2> HIDE DEF p
  <2>2. r \in AttemptRow /\ r.copy = attempt[i].copy /\ r.state = "done" /\ r.job = attempt[i].job
        /\ r.outcome = c.outcome /\ r.points = p
    BY <1>4, <1>7, <1>9, <2>1 DEF AttemptRow
  <2>3. attempt' = [attempt EXCEPT ![i] = r]
    BY <1>4, <1>9 DEF Ended, p
  <2> HIDE DEF r
  <2> QED BY <1>6, <1>7, <1>9, <2>1, <2>2, <2>3
<1>10. \/ attempt' = attempt
       \/ attempt[i].state # "done" /\ attempt' = Resent(i)
       \/ attempt[i].state # "done" /\ c.outcome # "gone" /\ attempt' = Ended(i, c.outcome, PointsFor(i, c.outcome))
  BY DEF Settle, WaitsFor
<1> QED BY <1>5, <1>8, <1>9, <1>10

\* submit: only when the last attempt has ended, on a copy that is there.
LEMMA Submits ==
  ASSUME HackingInv, NEW copy \in 1..q.nextId, NEW input \in Codes \cup {None}, Submit(copy, input)
  PROVE  /\ HackingInv'
         /\ \A k \in DOMAIN attempt : attempt[k].state = "done" => attempt'[k] = attempt[k]
<1>1. UNCHANGED <<section, q, builder, update, test, shown, raced, written, job, collected>>
  BY DEF Submit, authoring, ghosts
<1>2. AuthoringInv' /\ AttemptTypes /\ AttemptInv /\ ScoreInv
  BY <1>1, WritingStays DEF HackingInv, writing, ghosts
<1>3. page'.at = page.at /\ DOMAIN page' = DOMAIN page
  BY <1>2 DEF Submit, AttemptTypes
<1>4. attempt \in Seq(AttemptRow) /\ job \in Seq([code : Codes, input : Codes \cup {None}]) /\ Len(job) \in Nat
  BY <1>2 DEF AttemptTypes
<1>5. CASE ~Takes(copy)
  <2>1. attempt' = attempt
    BY <1>5 DEF Submit
  <2>2. AttemptTypes' /\ AttemptInv' /\ ScoreInv'
    BY <1>1, <1>2, <1>3, <2>1 DEF AttemptTypes, AttemptInv, ScoreInv
  <2> QED BY <1>2, <2>1, <2>2 DEF HackingInv
<1>6. CASE Takes(copy)
  <2> DEFINE r == NewAttempt(copy, input)
  <2>1. attempt' = Append(attempt, r)
    BY <1>6 DEF Submit
  <2>2. section = "hacking" /\ (\E k \in DOMAIN q.content : q.content[k].id = copy) /\ MayAttempt
    BY <1>6 DEF Takes
  <2>3. r \in AttemptRow /\ r.copy = copy /\ r.state = "pending" /\ r.job = 0 /\ r.outcome = "none"
        /\ r.points = 0 /\ ~(r.points > 0)
    <3>1. copy \in Nat
      BY DEF HackingInv, AuthoringInv, RowInv
    <3> QED BY <3>1 DEF NewAttempt, AttemptRow
  <2> HIDE DEF r
  <2>4. /\ attempt' \in Seq(AttemptRow) /\ Len(attempt') = Len(attempt) + 1 /\ Len(attempt) \in Nat
        /\ attempt'[Len(attempt) + 1] = r /\ \A k \in 1..Len(attempt) : attempt'[k] = attempt[k]
    BY <1>4, <2>1, <2>3
  <2>5. \A k \in 1..Len(attempt) : attempt[k].state = "done"
    <3>1. CASE attempt = << >>
      BY <3>1
    <3>2. CASE attempt # << >>
      <4>1. attempt[Len(attempt)].state = "done"
        BY <2>2, <3>2 DEF MayAttempt, Last
      <4> QED BY <1>2, <1>4, <4>1 DEF AttemptInv
    <3> QED BY <3>1, <3>2
  <2>6. AttemptTypes'
    <3>1. DOMAIN attempt \subseteq DOMAIN attempt'
      BY <1>4, <2>4
    <3> QED BY <1>1, <1>2, <1>3, <2>2, <2>4, <3>1 DEF AttemptTypes
  <2>7. AttemptInv'
    <3>1. ASSUME NEW k \in 1..Len(attempt) + 1
          PROVE  /\ attempt'[k].job \in 0..Len(job)
                 /\ attempt'[k].state = "queued" <=> attempt'[k].job # 0 /\ attempt'[k].state # "done"
                 /\ attempt'[k].state # "done" =>
                      k = Len(attempt) + 1 /\ attempt'[k].outcome = "none" /\ attempt'[k].points = 0
                 /\ attempt'[k].copy # None => \E m \in DOMAIN q.content : q.content[m].id = attempt'[k].copy
      <4>1. CASE k = Len(attempt) + 1
        BY <1>4, <2>2, <2>3, <2>4, <4>1
      <4>2. CASE k \in 1..Len(attempt)
        <5>1. attempt'[k] = attempt[k] /\ attempt[k].state = "done" /\ k \in DOMAIN attempt
          BY <1>4, <2>4, <2>5, <4>2
        <5> QED BY <1>2, <5>1 DEF AttemptInv
      <4> QED BY <2>4, <4>1, <4>2
    <3>2. DOMAIN attempt' = 1..Len(attempt) + 1
      BY <2>4
    <3> QED BY <1>1, <2>4, <3>1, <3>2 DEF AttemptInv
  <2>8. ScoreInv'
    <3>1. DOMAIN attempt' = 1..Len(attempt) + 1 /\ DOMAIN attempt = 1..Len(attempt)
      BY <1>4, <2>4
    <3>2. \A k \in DOMAIN attempt' : attempt'[k].points > 0 => k \in DOMAIN attempt /\ attempt'[k] = attempt[k]
      BY <2>3, <2>4, <3>1
    <3> HIDE DEF r
    <3> QED BY <1>2, <3>2 DEF ScoreInv
  <2>9. \A k \in DOMAIN attempt : attempt[k].state = "done" => attempt'[k] = attempt[k]
    BY <1>4, <2>4
  <2> QED BY <1>2, <2>6, <2>7, <2>8, <2>9 DEF HackingInv
<1> QED BY <1>5, <1>6

\* What neither writes the question nor an attempt.
LEMMA NothingSent ==
  ASSUME HackingInv, UNCHANGED <<section, q, builder, update, test, shown, raced, written, attempt, job>>,
         DOMAIN page' = DOMAIN page, page'.at = "shown" => page.at = "shown" \/ section = "hacking",
         \A c \in collected' : c \in collected
           \/ (c \in [attempt : Nat, job : Nat, outcome : Verdicts \cup {"gone"}] /\ c.attempt \in DOMAIN attempt)
  PROVE  HackingInv'
<1>1. AuthoringInv' /\ AttemptTypes /\ AttemptInv /\ ScoreInv
  BY WritingStays DEF HackingInv, writing, ghosts
<1>2. AttemptTypes'
  BY <1>1 DEF AttemptTypes
<1>3. AttemptInv' /\ ScoreInv'
  BY <1>1 DEF AttemptInv, ScoreInv
<1> QED BY <1>1, <1>2, <1>3 DEF HackingInv

\* An author's step keeps the section.
LEMMA AuthorKeepsSection ==
  ASSUME NEW a \in Authors, Author(a)
  PROVE  section' = section
<1>1. CASE OpenBuilder(a) \/ Discard(a)
  BY <1>1 DEF OpenBuilder, Discard
<1>2. CASE EditKind(a) \/ EditOptions(a)
  BY <1>2, Zenon DEF EditKind, EditOptions, Edit
<1>3. CASE EditKey(a) \/ EditCopies(a)
  BY <1>3, Zenon DEF EditKey, EditCopies, Edit
<1>4. CASE Save(a) \/ SaveStored(a) \/ SaveAnswered(a)
  BY <1>4 DEF Save, SaveStored, SaveAnswered
<1>5. CASE RunSelfTest(a) \/ ProveCopy(a)
  BY <1>5, Zenon DEF RunSelfTest, ProveCopy, Test
<1>6. CASE TestReads(a) \/ TestWrites(a) \/ TestAnswered(a)
  BY <1>6, Zenon DEF TestReads, TestWrites, TestAnswered
<1>7. CASE \E c \in Controls : Control(a, c)
  BY <1>7, Zenon DEF Control
<1> QED BY <1>1, <1>2, <1>3, <1>4, <1>5, <1>6, <1>7, Zenon DEF Author

\* The question changes under the attempts, which forget a copy that is gone.
LEMMA Organises ==
  ASSUME HackingInv, Organiser
  PROVE  /\ HackingInv'
         /\ \A k \in DOMAIN attempt : /\ attempt'[k].state = attempt[k].state
                                      /\ attempt'[k].outcome = attempt[k].outcome
                                      /\ attempt'[k].points = attempt[k].points
<1>1. PICK a \in Authors : Author(a)
  BY DEF Organiser
<1>2. AuthoringInv' /\ section' = section
  BY <1>1, AuthorStep, AuthorKeepsSection DEF HackingInv
<1>3. UNCHANGED <<job, collected>> /\ attempt' = IF q' = q THEN attempt ELSE Forgotten(q'.content)
  BY DEF Organiser
<1>4. AttemptTypes /\ AttemptInv /\ ScoreInv
  BY DEF HackingInv
<1>5. page'.at = page.at /\ DOMAIN page' = DOMAIN page
  BY <1>4 DEF Organiser, AttemptTypes
<1>6. attempt \in Seq(AttemptRow) /\ \A k \in DOMAIN attempt : attempt[k] \in AttemptRow
  BY <1>4, ElementOfSeq DEF AttemptTypes
<1> DEFINE content == q'.content
           ids == {content[i].id : i \in DOMAIN content}
           row(k) == IF attempt[k].copy \in ids THEN attempt[k] ELSE [attempt[k] EXCEPT !.copy = None]
<1>7. ASSUME NEW k \in DOMAIN attempt
      PROVE  /\ row(k) \in AttemptRow /\ row(k).state = attempt[k].state /\ row(k).job = attempt[k].job
             /\ row(k).outcome = attempt[k].outcome /\ row(k).points = attempt[k].points
             /\ row(k).copy # None => \E m \in DOMAIN content : content[m].id = row(k).copy
  <2>1. CASE attempt[k].copy \in ids
    BY <1>6, <2>1
  <2>2. CASE attempt[k].copy \notin ids
    <3>1. row(k) = [attempt[k] EXCEPT !.copy = None]
      BY <2>2
    <3> HIDE DEF row, ids, content
    <3> QED BY <1>6, <3>1 DEF AttemptRow
  <2> QED BY <2>1, <2>2
<1>8. CASE q' # q
  <2>1. attempt' = [k \in DOMAIN attempt |-> row(k)]
    BY <1>3, <1>8 DEF Forgotten
  <2> HIDE DEF row, ids
  <2>2. DOMAIN attempt' = DOMAIN attempt /\ \A k \in DOMAIN attempt : attempt'[k] = row(k)
    BY <2>1
  <2>3. attempt' \in Seq(AttemptRow) /\ Len(attempt') = Len(attempt)
    <3>1. DOMAIN attempt = 1..Len(attempt) /\ Len(attempt) \in Nat
      BY <1>6
    <3>2. attempt' \in [1..Len(attempt) -> AttemptRow]
      BY <1>7, <2>1, <3>1
    <3> QED BY <3>1, <3>2
  <2>4. attempt' # << >> => attempt # << >>
    BY <1>6, <2>3
  <2>5. AttemptTypes'
    BY <1>2, <1>3, <1>4, <1>5, <2>2, <2>3, <2>4 DEF AttemptTypes
  <2>6. \A k \in DOMAIN attempt : /\ attempt'[k].state = attempt[k].state
                                  /\ attempt'[k].outcome = attempt[k].outcome
                                  /\ attempt'[k].points = attempt[k].points
                                  /\ attempt'[k].job = attempt[k].job
                                  /\ attempt'[k].copy # None =>
                                       \E m \in DOMAIN content : content[m].id = attempt'[k].copy
    BY <1>7, <2>2
  <2>7. AttemptInv'
    BY <1>3, <1>4, <2>2, <2>3, <2>6 DEF AttemptInv
  <2>8. ScoreInv'
    BY <1>4, <2>2, <2>6 DEF ScoreInv
  <2> QED BY <1>2, <2>5, <2>6, <2>7, <2>8 DEF HackingInv
<1>9. CASE q' = q
  <2>1. attempt' = attempt
    BY <1>3, <1>9
  <2>2. AttemptTypes' /\ AttemptInv' /\ ScoreInv'
    BY <1>2, <1>3, <1>4, <1>5, <1>9, <2>1 DEF AttemptTypes, AttemptInv, ScoreInv
  <2> QED BY <1>2, <2>1, <2>2 DEF HackingInv
<1> QED BY <1>8, <1>9

-----------------------------------------------------------------------------
(* Every step, and what follows.                                            *)

\* HackingInv is inductive, and a settled attempt keeps all but its copy.
LEMMA HackingStep ==
  ASSUME HackingInv, [Next]_vars
  PROVE  /\ HackingInv'
         /\ \A k \in DOMAIN attempt : attempt[k].state = "done" =>
              /\ attempt'[k].state = attempt[k].state
              /\ attempt'[k].outcome = attempt[k].outcome
              /\ attempt'[k].points = attempt[k].points
<1>1. CASE Organiser
  BY <1>1, Organises
<1>2. CASE SendOne
  BY <1>2, Sends
<1>3. CASE \E i \in DOMAIN attempt : Collect(i)
  <2>1. PICK i \in DOMAIN attempt : Collect(i)
    BY <1>3
  <2>2. PICK outcome \in {Judged(job[attempt[i].job]), "IE", "gone"} :
          collected' = collected \cup {[attempt |-> i, job |-> attempt[i].job, outcome |-> outcome]}
    BY <2>1 DEF Collect
  <2>3. UNCHANGED <<section, q, builder, update, test, shown, raced, written, attempt, job, page>>
    BY <2>1 DEF Collect, writing, ghosts
  <2>4. outcome \in Verdicts \cup {"gone"}
    BY DEF Judged, Verdicts
  <2>5. i \in Nat /\ attempt[i].job \in Nat
    BY <2>1 DEF HackingInv, AttemptTypes, AttemptInv
  <2>6. \A c \in collected' : c \in collected
          \/ (c \in [attempt : Nat, job : Nat, outcome : Verdicts \cup {"gone"}] /\ c.attempt \in DOMAIN attempt)
    BY <2>2, <2>4, <2>5
  <2>7. DOMAIN page' = DOMAIN page /\ (page'.at = "shown" => page.at = "shown" \/ section = "hacking")
    BY <2>3
  <2>8. HackingInv'
    BY <2>3, <2>6, <2>7, NothingSent, Zenon
  <2> QED BY <2>3, <2>8
<1>4. CASE \E c \in collected : Settle(c)
  BY <1>4, Settles
<1>5. CASE \E c \in 1..q.nextId, input \in Codes \cup {None} : Submit(c, input)
  BY <1>5, Submits
<1>6. CASE CooledDown \/ TimeUp \/ FinishSection \/ UNCHANGED vars
  <2>1. UNCHANGED <<section, q, builder, update, test, shown, raced, written, attempt, job, page, collected>>
    BY <1>6 DEF CooledDown, TimeUp, FinishSection, vars, hacking, authoring, ghosts
  <2>2. /\ UNCHANGED <<section, q, builder, update, test, shown, raced, written, attempt, job>>
        /\ attempt' = attempt /\ \A c \in collected' : c \in collected
    BY <2>1
  <2>3. DOMAIN page' = DOMAIN page /\ (page'.at = "shown" => page.at = "shown" \/ section = "hacking")
    BY <2>1
  <2>4. HackingInv'
    BY <2>2, <2>3, NothingSent, Zenon
  <2> QED BY <2>2, <2>4
<1>7. CASE LoadSection \/ SubmitAnswered
  <2>1. UNCHANGED <<section, q, builder, update, test, shown, raced, written, attempt, job, collected>>
    BY <1>7 DEF LoadSection, SubmitAnswered, authoring, ghosts
  <2>2. DOMAIN page' = DOMAIN page /\ (page'.at = "shown" => page.at = "shown" \/ section = "hacking")
    BY <1>7 DEF LoadSection, SubmitAnswered, HackingInv, AttemptTypes
  <2>3. /\ UNCHANGED <<section, q, builder, update, test, shown, raced, written, attempt, job>>
        /\ attempt' = attempt /\ \A c \in collected' : c \in collected
    BY <2>1
  <2>4. HackingInv'
    BY <2>2, <2>3, NothingSent, Zenon
  <2> QED BY <2>3, <2>4
<1> QED BY <1>1, <1>2, <1>3, <1>4, <1>5, <1>6, <1>7 DEF Next, Participant, Scheduler

\* Nothing has been sent yet.
LEMMA HackingStarts ==
  Init => HackingInv
<1> SUFFICES ASSUME Init PROVE HackingInv
  OBVIOUS
<1>1. AuthoringInv
  BY AuthoringStarts DEF Init
<1>2. attempt = << >> /\ job = << >> /\ collected = {} /\ page = NoPage
  BY DEF Init
<1>3. AttemptTypes /\ AttemptInv /\ ScoreInv
  BY <1>2 DEF AttemptTypes, AttemptInv, ScoreInv, NoPage
<1> QED BY <1>1, <1>3 DEF HackingInv

\* Section B and the question it is about stay as they should for any number of authors,
\* attempts, copies and judge's jobs.
THEOREM HackingCorrect == Spec => []HackingInv
<1>1. HackingInv /\ [Next]_vars => HackingInv'
  BY HackingStep
<1> QED BY HackingStarts, <1>1, PTL DEF Spec

\* A set whose members are all the same has one member at most.
LEMMA OneAtMost ==
  ASSUME NEW S, \A x, y \in S : x = y
  PROVE  Cardinality(S) <= 1
<1>1. CASE S = {}
  BY <1>1, FS_EmptySet
<1>2. CASE S # {}
  <2>1. PICK x \in S : S = {x}
    BY <1>2
  <2> QED BY <2>1, FS_Singleton
<1> QED BY <1>1, <1>2

\* However often the button is pressed, whatever results come late or twice, and whatever
\* becomes of the copies: one attempt at a time is judged, a question scores once, and a page
\* that has just loaded offers what the engine takes.
LEMMA HackingCounts ==
  HackingInv => AttemptsCount
<1> SUFFICES ASSUME HackingInv PROVE AttemptsCount
  OBVIOUS
<1>1. AttemptTypes /\ AttemptInv /\ ScoreInv
  BY DEF HackingInv
<1>2. attempt \in Seq(AttemptRow) /\ \A i \in DOMAIN attempt : attempt[i] \in AttemptRow
  BY <1>1, ElementOfSeq DEF AttemptTypes
<1>3. TypeOK
  <2>1. section \in Sections /\ q.proven \subseteq 1..q.nextId
    BY DEF HackingInv, AuthoringInv, RowInv
  <2>2. ASSUME NEW i \in DOMAIN attempt
        PROVE  /\ attempt[i].state \in {"pending", "queued", "done"}
               /\ attempt[i].job \in 0..Len(job)
               /\ attempt[i].state = "queued" <=> attempt[i].job # 0 /\ attempt[i].state # "done"
               /\ attempt[i].state # "done" => attempt[i].outcome = "none" /\ attempt[i].points = 0
    BY <1>1, <1>2 DEF AttemptInv, AttemptRow
  <2>3. \A a \in Authors : builder[a].form # << >>
    BY DEF HackingInv, AuthoringInv, PageInv, WellFormed
  <2> QED BY <2>1, <2>2, <2>3 DEF TypeOK
<1>4. Cardinality({i \in DOMAIN attempt : attempt[i].state # "done"}) <= 1
  <2> DEFINE S == {i \in DOMAIN attempt : attempt[i].state # "done"}
  <2>1. \A x, y \in S : x = y
    BY <1>1 DEF AttemptInv
  <2> HIDE DEF S
  <2>2. Cardinality(S) <= 1
    BY <2>1, OneAtMost
  <2> QED BY <2>2 DEF S
<1>5. Cardinality({i \in DOMAIN attempt : attempt[i].points > 0}) <= 1
  <2> DEFINE S == {i \in DOMAIN attempt : attempt[i].points > 0}
  <2>1. \A x, y \in S : x = y
    BY <1>1 DEF ScoreInv
  <2> HIDE DEF S
  <2>2. Cardinality(S) <= 1
    BY <2>1, OneAtMost
  <2> QED BY <2>2 DEF S
<1>6. ASSUME page.at = "shown", page.data = SectionFor, NEW c \in 1..q.nextId, SubmitButton(c), ~cooling
      PROVE  Takes(c)
  <2>1. /\ page.data.open = open /\ page.data.inFlight = InFlight
        /\ page.data.copies = IF Published /\ ~q.voided THEN CopyIds ELSE {}
    BY <1>6 DEF SectionFor
  <2>2. /\ ~page.data.inFlight /\ page.data.open /\ ~finished /\ c \in page.data.copies
    BY <1>6, Zenon DEF SubmitButton, PageLocked
  <2>3. open /\ ~InFlight /\ Published /\ c \in CopyIds
    BY <2>1, <2>2
  <2>4. section = "hacking"
    BY <1>1, <1>6 DEF AttemptTypes
  <2>5. \E i \in DOMAIN q.content : q.content[i].id = c
    BY <2>3 DEF CopyIds
  <2>6. attempt = << >> \/ Last(attempt).state = "done"
    <3>1. CASE attempt # << >>
      <4>1. Len(attempt) \in DOMAIN attempt
        BY <1>2, <3>1
      <4> QED BY <2>3, <4>1 DEF InFlight, Last
    <3> QED BY <3>1
  <2> QED BY <1>6, <2>2, <2>3, <2>4, <2>5, <2>6 DEF Takes, MayAttempt
<1>7. OneAttemptAtATime
  BY <1>4, <1>6 DEF OneAttemptAtATime
<1> QED BY <1>3, <1>5, <1>7 DEF AttemptsCount, FirstHackScoresOnce

\* One attempt of Section B at a time is judged, one hack of the question scores, and the
\* button offers what the engine takes (section-b, hacking/service, hack_jobs).
THEOREM AttemptsAreCounted == Spec => []AttemptsCount
BY HackingCorrect, HackingCounts, PTL

\* A question is ready only as long as its key, or the input of every copy, was run against
\* what is stored (self_tests, solutions).
THEOREM ReadyWasShown == Spec => []ReadyIsProven
<1>1. HackingInv => ReadyIsProven
  <2> SUFFICES ASSUME HackingInv, q.there, q.ready, ~raced
               PROVE  IF section = "puzzles" THEN q.content \in shown ELSE ToSet(q.content) \subseteq shown
    BY DEF ReadyIsProven
  <2>1. ProofInv /\ (section = "puzzles" \/ section = "hacking")
    BY AuthoringAssumption DEF HackingInv, AuthoringInv, RowInv
  <2>2. CASE section = "puzzles"
    BY <2>1, <2>2 DEF ProofInv
  <2>3. CASE section = "hacking"
    <3>1. \A i \in DOMAIN q.content : q.content[i].id \in q.proven
      BY <2>1, <2>3 DEF ProofInv, Ready
    <3> QED BY <2>1, <2>3, <3>1 DEF ProofInv, ToSet
  <2> QED BY <2>1, <2>2, <2>3
<1> QED BY HackingCorrect, <1>1, PTL

\* Whoever saves, tests, publishes or deletes meanwhile, a builder shows what its author
\* wrote, and its controls are those the engine takes (puzzle-builder, hack-builder).
THEOREM BuildersStayTrue == Spec => []BuildersAgree
<1>1. HackingInv => NothingWrittenIsLost
  BY DEF HackingInv, AuthoringInv, PageInv, NothingWrittenIsLost
<1>2. HackingInv => ControlsWork
  <2> SUFFICES ASSUME HackingInv, NEW a \in Authors, builder[a].open, builder[a].row = q
               PROVE  /\ \A c \in Menu(q) \cup VerifyControls(q) : Accepts(c)
                      /\ Menu(q) = VerifyControls(q) \/ q.voided
    BY DEF ControlsWork
  <2>1. q.there
    BY DEF HackingInv, AuthoringInv, PageInv
  <2>2. \A c \in Menu(q) \cup VerifyControls(q) : Accepts(c)
    BY <2>1 DEF Menu, VerifyControls, PuzzleMenu, HackMenu, PuzzleControls, HackControls, StateOf, Accepts
  <2>3. Menu(q) = VerifyControls(q) \/ q.voided
    <3>1. CASE q.voided
      BY <3>1
    <3>2. CASE ~q.voided /\ q.published
      <4>1. StateOf(q) = "live"
        BY <3>2 DEF StateOf
      <4> QED BY <3>2, <4>1 DEF Menu, VerifyControls, PuzzleMenu, HackMenu, PuzzleControls, HackControls
    <3>3. CASE ~q.voided /\ ~q.published /\ q.ready
      <4>1. StateOf(q) = "ready"
        BY <3>3 DEF StateOf
      <4> QED BY <3>3, <4>1 DEF Menu, VerifyControls, PuzzleMenu, HackMenu, PuzzleControls, HackControls
    <3>4. CASE ~q.voided /\ ~q.published /\ ~q.ready
      <4>1. StateOf(q) = "draft"
        BY <3>4 DEF StateOf
      <4> QED BY <3>4, <4>1 DEF Menu, VerifyControls, PuzzleMenu, HackMenu, PuzzleControls, HackControls
    <3> QED BY <3>1, <3>2, <3>3, <3>4
  <2> QED BY <2>2, <2>3
<1>3. HackingInv => BuildersAgree
  BY <1>1, <1>2 DEF BuildersAgree
<1> QED BY HackingCorrect, <1>3, PTL

\* What an attempt was judged, and its points, are never written over: not by a result of
\* another job, not by the same result again, and not when its copy is removed.
THEOREM SettledForGood == Spec => SettledStands
<1>1. HackingInv /\ [Next]_vars
        => [\A i \in DOMAIN attempt : attempt[i].state = "done" => Settled(i)' = Settled(i)]_vars
  BY HackingStep DEF Settled
<1> QED BY HackingCorrect, <1>1, PTL DEF Spec, SettledStands
=============================================================================
