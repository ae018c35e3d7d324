------------------------------- MODULE Packages -------------------------------
(***************************************************************************)
(* One question's package: its versions on the volume and the live one     *)
(* (packages/volume.py, publishing.py, validation.py, problem_zip.py), the *)
(* question's row and its place in the running order                       *)
(* (coding/question_authoring.py), the submissions a publish rejudges, and *)
(* the organisers' problem pages (admin/problems).  A second question,     *)
(* complete and published, is there only for its place in the order.       *)
(*                                                                         *)
(* A judgement is what it was judged with: that a superseded one never     *)
(* comes back is shown in Judging.                                         *)
(***************************************************************************)
EXTENDS Proctor

CONSTANTS Organisers,
          Zips          \* the packages uploaded: does the reference pass, the record inside, and what is wrong with it

VARIABLES
  volume,    \* the version directories and the `current` symlink (0: none)
  question,  \* the question row, None while there is none
  other,     \* the place of the second question
  subs,      \* per submission: the version it was judged with, 0 while pending
  counted,   \* history: how many submissions the last publish counted
  shop,      \* per organiser: the problem pages as loaded
  task,      \* per organiser: the request of theirs that is being served
  now        \* the clock, in minutes

shelf == <<volume, question, other, subs, counted, shop, task>>
stock == <<volume, question, other, subs, counted>>

Latest == Len(volume.versions)
LotsExist == At(contest.phase) > At("review")

\* check_round_open: at any time of Phase 2, but not once a coding round's time is up.
RoundOpen == InPhase2(contest.phase) /\ ~(contest.ends # None /\ contest.ends <= now)

LatestOrCurrent == IF volume.current # 0 THEN volume.current ELSE Latest

\* _auction_checks: a question the judge does not serve.
PackageBlocks == question # None /\ volume.current = 0

Step(o, at) == task' = [task EXCEPT ![o].at = at]
Doing(o, ops, at) == task[o] # None /\ task[o].op \in ops /\ task[o].at = at

-----------------------------------------------------------------------------
(* Uploads.                                                                 *)

Imported == {"import", "setup"}
Uploads == {"upload", "create"} \cup Imported

\* A zip without a problem.json at its root is refused; _claim_next_version lists the
\* directories, then tries to make the next one.
UploadReads(o) ==
  /\ Doing(o, Uploads, "sent")
  /\ IF task[o].arg.fault = "root" THEN Step(o, "failed")
     ELSE task' = [task EXCEPT ![o].at = "numbered", ![o].version = Latest + 1]
  /\ UNCHANGED <<stock, shop, left>>

\* Mutant: a directory that is there already will do.
ClaimedAnyway(n) == n

\* mkdir fails for whoever is second, who tries the next number.
Claimed(n) == IF n <= Latest THEN Latest + 1 ELSE n

UploadClaims(o) ==
  LET v == Claimed(task[o].version)
      empty == [full |-> FALSE, ok |-> FALSE, record |-> "none"] IN
  /\ Doing(o, Uploads, "numbered")
  /\ volume' = [volume EXCEPT !.versions = IF v <= Latest THEN [@ EXCEPT ![v] = empty] ELSE Append(@, empty)]
  /\ task' = [task EXCEPT ![o].at = "claimed", ![o].version = v]
  /\ UNCHANGED <<question, other, subs, counted, shop, left>>

\* The files of the zip, a validation record among them if it has one.
UploadFills(o) ==
  /\ Doing(o, Uploads, "claimed")
  /\ volume' = [volume EXCEPT !.versions[task[o].version] =
                  [full |-> TRUE, ok |-> task[o].arg.ok, record |-> task[o].arg.record]]
  /\ Step(o, IF task[o].op \in Imported THEN "filled" ELSE "done")
  /\ UNCHANGED <<question, other, subs, counted, shop, left>>

\* write_question on conflict updates, and says nothing of the version; a new row is not validated.
Row(order) == IF question = None THEN [version |-> 0, validated |-> FALSE, order |-> order]
              ELSE [question EXCEPT !.order = order]

\* _import_details: an imported question keeps its place, or goes to the end.
ImportDescribes(o) ==
  /\ Doing(o, Imported, "filled")
  /\ question' = [Row(IF question = None THEN 2 ELSE question.order) EXCEPT
                    !.validated = volume.versions[task[o].version].record = "good"]
  /\ Step(o, IF task[o].op = "setup" THEN "described" ELSE "done")
  /\ UNCHANGED <<volume, other, subs, counted, shop, left>>

\* _maybe_go_live: what was live where the setup was made, in registration and if proven there.
MaybeGoesLive(o) ==
  /\ Doing(o, {"setup"}, "described")
  /\ Step(o, IF contest.phase = "registration" /\ task[o].arg.record = "good" THEN "proven" ELSE "done")
  /\ UNCHANGED <<stock, shop, left>>

-----------------------------------------------------------------------------
(* Validation.                                                              *)

Validations == {"validate", "validate all"}

\* The judge runs the reference over every testcase, and the outcome is written beside it.
ValidateRuns(o) ==
  LET v == IF task[o].op = "validate" THEN task[o].version ELSE LatestOrCurrent
      ok == volume.versions[v].full /\ volume.versions[v].ok IN
  /\ Doing(o, Validations, "sent")
  /\ IF v = 0 THEN Step(o, "done") /\ UNCHANGED volume
     ELSE /\ volume' = [volume EXCEPT !.versions[v].record = IF ok THEN "good" ELSE "bad"]
          /\ task' = [task EXCEPT ![o].at = "recorded", ![o].version = v, ![o].ok = ok]
  /\ UNCHANGED <<question, other, subs, counted, shop, left>>

\* mark_validated, of the question, whichever version is live.
ValidateMarks(o) ==
  /\ Doing(o, Validations, "recorded")
  /\ question' = IF question = None THEN None ELSE [question EXCEPT !.validated = task[o].ok]
  /\ Step(o, "done")
  /\ UNCHANGED <<volume, other, subs, counted, shop, left>>

-----------------------------------------------------------------------------
(* Publishing, by an organiser or for a setup.                              *)

Publishers == {"publish", "setup"}

\* Mutant: publishes of one problem do not wait for each other.
LockIsNotTaken == TRUE

\* The advisory lock of the problem is held from the count to the commit.
LockIsFree == \A o \in Organisers : ~Doing(o, Publishers, "swapped")

Affected == IF InPhase2(contest.phase) \/ contest.phase = "ended" THEN Len(subs) ELSE 0

PublishSwaps(o) ==
  /\ Doing(o, {"publish"}, "sent") \/ Doing(o, {"setup"}, "proven")
  /\ LockIsFree
  /\ IF Affected # task[o].confirmed THEN Step(o, "failed") /\ UNCHANGED volume
     ELSE Step(o, "swapped") /\ volume' = [volume EXCEPT !.current = task[o].version]
  /\ UNCHANGED <<question, other, subs, counted, shop, left>>

\* The flag follows the version.
PublishCommits(o) ==
  LET v == task[o].version IN
  /\ Doing(o, Publishers, "swapped")
  /\ question' = IF question = None THEN None
                 ELSE [question EXCEPT !.version = v, !.validated = volume.versions[v].record = "good"]
  /\ counted' = task[o].confirmed
  /\ Step(o, "committed")
  /\ UNCHANGED <<volume, other, subs, shop, left>>

\* rejudge_question supersedes the current judgement, and a fresh one is pending.
Requeued(by) == 0

PublishRejudges(o) ==
  /\ Doing(o, Publishers, "committed")
  /\ subs' = IF task[o].confirmed > 0 THEN [i \in DOMAIN subs |-> Requeued(subs[i])] ELSE subs
  /\ Step(o, "done")
  /\ UNCHANGED <<volume, question, other, counted, shop, left>>

-----------------------------------------------------------------------------
(* Details and the running order.                                           *)

\* upsert writes the whole form, and does not ask whether there are lots.
DescribeServed(o) ==
  /\ Doing(o, {"describe"}, "sent")
  /\ question' = Row(task[o].arg)
  /\ Step(o, "done")
  /\ UNCHANGED <<volume, other, subs, counted, shop, left>>

PlaceIn(ids, id) == CHOOSE i \in DOMAIN ids : ids[i] = id

\* Every question that has a row takes its place in the list.
Placed(ids) ==
  /\ question' = IF question = None THEN None ELSE [question EXCEPT !.order = PlaceIn(ids, "this")]
  /\ other' = PlaceIn(ids, "other")

\* reorder: the whole list, before there are lots.
ReorderServed(o) ==
  LET ids == task[o].arg
      whole == {"this", "other"} \ (IF question = None THEN {"this"} ELSE {}) IN
  /\ Doing(o, {"reorder"}, "sent")
  /\ IF Range(ids) # whole \/ LotsExist THEN Step(o, "failed") /\ UNCHANGED <<question, other>>
     ELSE Placed(ids) /\ Step(o, "done")
  /\ UNCHANGED <<volume, subs, counted, shop, left>>

-----------------------------------------------------------------------------
(* The organisers' problem pages.                                           *)

\* What the list merges of the volume and the rows.  A problem whose newest upload is still
\* being written, and that has nothing live, is not in it.
Listed == volume.current # 0 \/ (Latest # 0 /\ volume.versions[Latest].full)
Shown == [listed |-> Listed, versions |-> Latest, current |-> volume.current, row |-> question, other |-> other,
          proven |-> LatestOrCurrent # 0 /\ volume.versions[LatestOrCurrent].record = "good"]

\* stageOf.
StageOf(v) ==
  IF ~v.listed THEN "no-package"
  ELSE IF ~v.proven /\ (v.row = None \/ ~v.row.validated) THEN "unvalidated"
  ELSE IF v.row = None THEN "no-details"
  ELSE IF v.current = 0 THEN "unpublished" ELSE "ready"

\* The stages of the problem's own page, each done or not.
Stages(v) == [package |-> v.listed,
              validate |-> (v.listed /\ v.proven) \/ (v.row # None /\ v.row.validated),
              details |-> v.row # None,
              publish |-> v.listed /\ v.current # 0]

\* The blast radius is asked for when the page opens, and again when another version is live.
Reloaded(page) ==
  [page EXCEPT !.seen = Shown,
               !.blast = IF page.seen = None THEN Len(subs)
                         ELSE IF page.seen.current # volume.current THEN Len(subs) ELSE @]

ShopLoads(o) ==
  /\ shop[o].seen # Shown /\ task[o] = None /\ Spend("problems")
  /\ shop' = [shop EXCEPT ![o] = Reloaded(@)]
  /\ UNCHANGED <<stock, task>>

\* The Details tab keeps what it was opened with: useState(initial).
OpensDetails(o) ==
  /\ shop[o].seen # None /\ shop[o].form = None /\ Spend("details")
  /\ shop' = [shop EXCEPT ![o].form = IF shop[o].seen.row = None THEN 1 ELSE shop[o].seen.row.order]
  /\ UNCHANGED <<stock, task>>

EditsPlace(o) ==
  /\ shop[o].form # None /\ Spend("place")
  /\ \E n \in 1..2 : n # shop[o].form /\ shop' = [shop EXCEPT ![o].form = n]
  /\ UNCHANGED <<stock, task>>

\* The order page: as loaded, and as dragged.
Ids == IF question = None THEN <<"other">>
       ELSE IF question.order <= other THEN <<"this", "other">> ELSE <<"other", "this">>

OpensOrder(o) ==
  /\ shop[o].list = None /\ Spend("order")
  /\ shop' = [shop EXCEPT ![o].list = [rows |-> Ids, order |-> Ids, started |-> LotsExist]]
  /\ UNCHANGED <<stock, task>>

\* ReorderList: a row is taken out and put back elsewhere, dragged or moved by a key.
Dragged(rows) == {InsertAt(RemoveAt(rows, i), j, rows[i]) : i, j \in DOMAIN rows} \ {rows}

Drags(o) ==
  /\ shop[o].list # None /\ ~shop[o].list.started /\ Spend("drag")
  /\ \E rows \in Dragged(shop[o].list.order) : shop' = [shop EXCEPT ![o].list.order = rows]
  /\ UNCHANGED <<stock, task>>

\* One request at a time is modelled of each organiser.
Asked(o, op, version, confirmed, arg) ==
  /\ task[o] = None
  /\ task' = [task EXCEPT ![o] = [op |-> op, at |-> "sent", version |-> version, confirmed |-> confirmed,
                                  ok |-> FALSE, arg |-> arg]]

Submit(o, op, version, confirmed, arg) == Asked(o, op, version, confirmed, arg) /\ UNCHANGED <<stock, shop>>

\* Upload a version, and the import dialog, send what they are given.
UploadsVersion(o) == \E z \in Zips : Spend("upload") /\ Submit(o, "upload", 0, 0, z)
Imports(o) == \E z \in Zips : Spend("import") /\ Submit(o, "import", 0, 0, z)

\* inspectPackage: no problem.json, or one that names a reference that is not there.
Inspected(z) == z.fault = "none"

\* The New problem wizard opens the zip first.
Creates(o) == \E z \in Zips : Inspected(z) /\ Spend("create") /\ Submit(o, "create", 0, 0, z)

ValidatesOne(o) ==
  /\ shop[o].seen # None /\ shop[o].seen.listed
  /\ \E v \in 1..shop[o].seen.versions : Spend("validate") /\ Submit(o, "validate", v, 0, None)

ValidatesAll(o) == Spend("validate all") /\ Submit(o, "validate all", 0, 0, None)

\* PublishBlock: the latest upload the page knows of, if it is not live, and the number it shows.
PublishesLatest(o) ==
  /\ shop[o].seen # None /\ shop[o].seen.listed
  /\ shop[o].seen.versions \notin {0, shop[o].seen.current}
  /\ Spend("publish") /\ Submit(o, "publish", shop[o].seen.versions, shop[o].blast, None)

\* Whatever else was edited, the place is sent with it.
SavesDetails(o) == shop[o].form # None /\ Spend("describe") /\ Submit(o, "describe", 0, 0, shop[o].form)

SavesOrder(o) ==
  /\ shop[o].list # None /\ shop[o].list.order # shop[o].list.rows
  /\ Spend("reorder") /\ Submit(o, "reorder", 0, 0, shop[o].list.order)

\* The wizard takes the place after the last it saw, or the one the question has.
WizardPlace(v) == IF v = None THEN 1 ELSE IF v.row = None THEN v.other + 1 ELSE v.row.order

\* The wizard sends the details when the package is up; the other pages load again.
ShopAnswered(o) ==
  /\ task[o] # None /\ task[o].op # "setup" /\ task[o].at = "done"
  /\ IF task[o].op = "create"
       THEN /\ task' = [task EXCEPT ![o] = [@ EXCEPT !.op = "describe", !.at = "sent",
                                                     !.arg = WizardPlace(shop[o].seen)]]
            /\ UNCHANGED shop
       ELSE /\ task' = [task EXCEPT ![o] = None]
            /\ shop' = [shop EXCEPT ![o] =
                 IF task[o].op = "reorder" THEN [@ EXCEPT !.list = [rows |-> Ids, order |-> Ids, started |-> LotsExist]]
                 ELSE Reloaded(@)]
  /\ UNCHANGED <<stock, left>>

\* Refused, or the answer is lost: nothing is loaded again, and the wizard stops half way.
ShopRefused(o) ==
  /\ task[o] # None /\ task[o].op # "setup"
  /\ \/ task[o].at = "failed" /\ UNCHANGED left
     \/ task[o].at = "done" /\ Spend("lost answer")
  /\ task' = [task EXCEPT ![o] = None]
  /\ UNCHANGED <<stock, shop>>

-----------------------------------------------------------------------------
(* Submissions.                                                             *)

CompetitorSubmits ==
  /\ RoundOpen /\ volume.current # 0 /\ Spend("submit")
  /\ subs' = Append(subs, 0)
  /\ UNCHANGED <<volume, question, other, counted, shop, task>>

\* The judge mounts the volume, and runs what is live.
JudgeRuns ==
  \E i \in DOMAIN subs :
    /\ subs[i] = 0
    /\ subs' = [subs EXCEPT ![i] = volume.current]
    /\ UNCHANGED <<volume, question, other, counted, shop, task, left>>

ShelfInit ==
  /\ volume = [versions |-> [i \in 1..left.versions |-> [full |-> TRUE, ok |-> TRUE, record |-> "good"]],
               current |-> left.versions]
  /\ question = IF left.versions = 0 THEN None ELSE [version |-> left.versions, validated |-> TRUE, order |-> 2]
  /\ other = 1 /\ subs = << >> /\ counted = 0
  /\ shop = [o \in Organisers |-> [seen |-> None, blast |-> 0, form |-> None, list |-> None]]
  /\ task = [o \in Organisers |-> None]

Serves(o) ==
  \/ UploadReads(o) \/ UploadClaims(o) \/ UploadFills(o) \/ ImportDescribes(o) \/ MaybeGoesLive(o)
  \/ ValidateRuns(o) \/ ValidateMarks(o)
  \/ PublishSwaps(o) \/ PublishCommits(o) \/ PublishRejudges(o)
  \/ DescribeServed(o) \/ ReorderServed(o)

Shops(o) ==
  \/ ShopLoads(o) \/ OpensDetails(o) \/ EditsPlace(o) \/ OpensOrder(o) \/ Drags(o)
  \/ UploadsVersion(o) \/ Creates(o) \/ Imports(o) \/ ValidatesOne(o) \/ ValidatesAll(o) \/ PublishesLatest(o)
  \/ SavesDetails(o) \/ SavesOrder(o) \/ ShopAnswered(o) \/ ShopRefused(o)

ShelfNext ==
  \/ \E o \in left.organisers : Serves(o) \/ Shops(o)
  \/ CompetitorSubmits \/ JudgeRuns

-----------------------------------------------------------------------------
(* Properties.                                                              *)

\* The parts of the shelf have their shapes: versions are numbered without gaps, and what is
\* live or being filled is one of them.
ShelfOK ==
  /\ volume.current \in 0..Latest
  /\ \A i \in DOMAIN subs : subs[i] \in 0..Latest
  /\ \A o \in Organisers : task[o] # None =>
       /\ task[o].at \in {"claimed", "filled", "recorded", "swapped", "committed"} => task[o].version \in 1..Latest

\* An upload never touches a version that is there, the live one least of all: two uploads at
\* once get two numbers.
VersionsStand ==
  [][\A i \in DOMAIN volume.versions : volume.versions[i].full =>
       /\ i \in DOMAIN volume'.versions /\ volume'.versions[i].full
       /\ volume'.versions[i].ok = volume.versions[i].ok]_<<volume>>

Publishing == \E o \in Organisers : Doing(o, Publishers, "swapped") \/ Doing(o, Publishers, "committed")

\* publishing.py: "the symlink and the question row always name the same version", whoever
\* else is publishing; the row of a question described after a publish names none.
RowNamesTheLive ==
  ~Publishing /\ question # None => question.version \in {0, volume.current}

\* What the organiser confirmed is rejudged: no submission the last publish counted keeps the
\* judgement of an earlier version.
RejudgedByTheLive ==
  ~Publishing => \A i \in 1..counted : i \in DOMAIN subs => subs[i] \in {0, volume.current}

AllDone(v) == \A stage \in DOMAIN Stages(v) : Stages(v)[stage]

\* A problem the list calls ready, or whose own page shows every stage done, does not stop the
\* first auction, however old the page is; the two pages, which each work it out, agree.
ReadyIsServed ==
  \A o \in Organisers : shop[o].seen # None =>
    /\ (StageOf(shop[o].seen) = "ready") <=> AllDone(shop[o].seen)
    /\ AllDone(shop[o].seen) => ~PackageBlocks
=============================================================================
