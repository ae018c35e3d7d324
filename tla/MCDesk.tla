-------------------------------- MODULE MCDesk --------------------------------
(* What may happen in one behaviour of Desk: a union of scenarios.           *)
EXTENDS Desk, TLC

CONSTANTS p1, p2

MCDefaults == [mode |-> "online", proctoring |-> TRUE, warnings |-> 1, start |-> 2, board |-> "live"]
Edit(field, value) == [field |-> field, value |-> value]
MCEdits == {Edit("mode", "offline"), Edit("board", "hidden"), Edit("warnings", 0)}

Budget(phase, held, people, through, seated, organisers, may) ==
  [phase |-> phase, held |-> held, people |-> people, through |-> through, seated |-> seated,
   organisers |-> organisers, versions |-> 1, may |-> [op \in Ops |-> IF op \in DOMAIN may THEN may[op] ELSE 0]]

\* A budget of the problem pages: nobody is seated, and `versions` are published.
Stocked(phase, versions, organisers, may) ==
  [Budget(phase, FALSE, {p1}, {p1}, {}, organisers, may) EXCEPT !.versions = versions]

One == {"o1"}
Two == {"o1", "o2"}

ZipOf(ok, record, fault) == [ok |-> ok, record |-> record, fault |-> fault]
MCZips == {ZipOf(TRUE, "none", "none"), ZipOf(FALSE, "good", "none"),
           ZipOf(FALSE, "none", "reference"), ZipOf(FALSE, "none", "root")}

SetupOf(zip) == [start |-> 2, board |-> "hidden", zip |-> zip, order |-> <<"this", "other">>]
MCSetups == {SetupOf(ZipOf(TRUE, "good", "none")), SetupOf(ZipOf(FALSE, "none", "root"))}

MCBudgets == {
  Budget("p1_puzzles", TRUE, {p1}, {}, {p1}, One, "leave" :> 2 @@ "lost" :> 1 @@ "reload" :> 1 @@ "person" :> 1 @@ "unlock" :> 1),
  Budget("p1_puzzles", TRUE, {p1}, {}, {p1}, One, "leave" :> 1 @@ "slow" :> 2 @@ "late" :> 1 @@ "reload" :> 1),
  Budget("p1_puzzles", TRUE, {p1}, {}, {p1}, One, "leave" :> 1 @@ "people" :> 2 @@ "disqualify" :> 1 @@ "requalify" :> 1),
  Budget("p1_hacking", TRUE, {p1}, {}, {p1}, One, "leave" :> 1 @@ "advance" :> 1),
  Budget("p1_hacking", TRUE, {p1}, {}, {p1}, One, "leave" :> 1 @@ "form" :> 1 @@ "edit" :> 1 @@ "save" :> 1),
  Budget("review", TRUE, {p1, p2}, {}, {p1}, One, "review" :> 2 @@ "tick one" :> 2 @@ "select" :> 2 @@ "advance" :> 1 @@ "look" :> 1),
  Budget("auction1", FALSE, {p1, p2}, {p1}, {p2}, One, "coin" :> 2 @@ "review" :> 1 @@ "tick one" :> 2 @@ "select" :> 2 @@ "lost answer" :> 1),
  Budget("auction1", FALSE, {p1}, {p1}, {}, Two, "form" :> 2 @@ "edit" :> 2 @@ "discard" :> 1 @@ "save" :> 2),
  Budget("coding1", FALSE, {p1}, {p1}, {}, Two, "form" :> 1 @@ "edit" :> 1 @@ "save" :> 1 @@ "advance" :> 1),
  Budget("registration", FALSE, {p1}, {}, {}, Two, "registration" :> 2 @@ "register" :> 1 @@ "advance" :> 1 @@ "look" :> 1),
  Budget("registration", FALSE, {p1}, {}, {p1}, Two, "remove" :> 1 @@ "people" :> 1 @@ "registration" :> 1 @@ "advance" :> 1),
  Budget("p1_hacking", FALSE, {p1}, {}, {}, Two, "advance" :> 1 @@ "extend" :> 2 @@ "minute" :> 3 @@ "lost answer" :> 1),
  Budget("p1_hacking", FALSE, {p1}, {}, {}, Two, "advance" :> 2 @@ "lost answer" :> 1 @@ "look" :> 1),
  Budget("final", FALSE, {p1}, {p1}, {p1}, Two, "advance" :> 2 @@ "announce" :> 1),
  Budget("review", FALSE, {p1}, {p1}, {}, One, "advance" :> 1 @@ "stock" :> 2 @@ "look" :> 1),
  Budget("coding1", FALSE, {p1}, {p1}, {p1}, One, "reset" :> 1 @@ "create" :> 1 @@ "open" :> 1 @@ "register" :> 1 @@ "form" :> 1),
  Stocked("registration", 0, Two, "upload" :> 2 @@ "problems" :> 2 @@ "publish" :> 1),
  Stocked("registration", 0, Two, "create" :> 1 @@ "import" :> 1 @@ "lost answer" :> 1),
  Stocked("registration", 1, Two, "upload" :> 1 @@ "problems" :> 2 @@ "publish" :> 2 @@ "validate" :> 1),
  Stocked("registration", 1, Two, "upload" :> 2 @@ "publish" :> 2),
  Stocked("review", 0, One, "import" :> 1 @@ "validate all" :> 1 @@ "problems" :> 1 @@ "publish" :> 1 @@ "advance" :> 1),
  Stocked("coding1", 1, Two, "upload" :> 1 @@ "problems" :> 2 @@ "publish" :> 2 @@ "submit" :> 2),
  Stocked("review", 1, Two, "order" :> 2 @@ "drag" :> 2 @@ "reorder" :> 2 @@ "advance" :> 1),
  Stocked("registration", 0, Two, "import" :> 1 @@ "order" :> 1 @@ "drag" :> 1 @@ "reorder" :> 1),
  Stocked("review", 1, Two, "problems" :> 1 @@ "details" :> 1 @@ "place" :> 1 @@ "describe" :> 1 @@ "order" :> 1 @@ "drag" :> 1 @@ "reorder" :> 1),
  Stocked("registration", 0, Two, "setup" :> 2),
  Stocked("registration", 1, Two, "setup" :> 1 @@ "problems" :> 1 @@ "publish" :> 1),
  Stocked("coding1", 1, One, "setup" :> 1 @@ "submit" :> 1 @@ "form" :> 1 @@ "edit" :> 1 @@ "save" :> 1) }

ASSUME BudgetsKeepTo == SlowStaysInTheRound /\ StartStands /\ OneSelects
=============================================================================
