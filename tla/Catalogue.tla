------------------------------- MODULE Catalogue -------------------------------
(***************************************************************************)
(* What the organisers decide of the powerups: the rows on sale and the    *)
(* rules of attacking (engine/marketplace/catalogue, contest settings),    *)
(* edited on web components/admin/powerups: a powerup's form, saved whole  *)
(* on Save, and the attack rules, whose switches save when flipped.        *)
(***************************************************************************)
EXTENDS Integers, FiniteSets, SequencesExt

CONSTANTS
  None,
  Organisers,
  Edits,        \* what is typed into a form: [kind, field, value]
  RuleEdits     \* what is changed of the rules: [field, value]

Kinds == {"blackout", "shield"}
Fields == {"on", "price", "seconds", "maxHeld", "maxBought", "where"}
UntilAbsorbed == -1

\* What a field holds; the form keeps numbers from below zero.
FieldValues == [on |-> BOOLEAN, price |-> Nat, seconds |-> {None} \cup Int, maxHeld |-> {None} \cup Nat,
                maxBought |-> {None} \cup Nat, where |-> SUBSET STRING]
RuleValues == [cap |-> Nat, pause |-> Nat, absorbed |-> BOOLEAN, forever |-> BOOLEAN]
ValuesOf(of) == IF of = "rules" THEN RuleValues ELSE FieldValues

IsPatch(of, d) == DOMAIN d \subseteq DOMAIN ValuesOf(of) /\ \A f \in DOMAIN d : d[f] \in ValuesOf(of)[f]
IsRow(of, r) == IsPatch(of, r) /\ DOMAIN r = DOMAIN ValuesOf(of)

ASSUME CatalogueAssumption ==
  /\ None \notin Kinds \cup {"rules"}
  /\ \A e \in Edits : e.kind \in Kinds /\ e.field \in Fields /\ e.value \in FieldValues[e.field]
  /\ \A e \in RuleEdits : e.field \in DOMAIN RuleValues /\ e.value \in RuleValues[e.field]

VARIABLES
  item,         \* powerup, by kind
  rule,         \* contest: the attack cap and what follows it
  meant,        \* for the properties: each row as its last editors meant it
  form          \* an organiser's page: of a kind or of the rules, its rows, its draft, its request

catalogue == <<item, rule, meant, form>>

NoForm == [of |-> None, row |-> None, draft |-> << >>, sent |-> None]

-----------------------------------------------------------------------------
(* The row and the draft.  A draft is a function on the fields edited.      *)

Onto(row, draft) == [f \in DOMAIN row |-> IF f \in DOMAIN draft THEN draft[f] ELSE row[f]]
EditedTo(draft, f, v) == [g \in DOMAIN draft \cup {f} |-> IF g = f THEN v ELSE draft[g]]

\* valueOf: what the form shows; draft ?? row.
Shows(o, f) ==
  IF f \in DOMAIN form[o].draft /\ form[o].draft[f] # None THEN form[o].draft[f] ELSE form[o].row[f]

Dirty(o) == DOMAIN form[o].draft # {}

RowOf(of) == IF of = "rules" THEN rule ELSE item[of]

\* _check_duration.
LastsWell(kind, seconds) ==
  seconds # None /\ (seconds > 0 \/ (kind = "shield" /\ seconds = UntilAbsorbed))

Accepts(of, patch) == "seconds" \in DOMAIN patch /\ of \in Kinds => LastsWell(of, patch.seconds)

\* save, saveNumbers: only the fields edited; the others are undefined, and not sent.
Patch(o) == form[o].draft

-----------------------------------------------------------------------------
(* The organiser's page.                                                    *)

CatalogueInit(items, rules) ==
  /\ item = items /\ rule = rules
  /\ meant = [of \in Kinds \cup {"rules"} |-> IF of = "rules" THEN rules ELSE items[of]]
  /\ form = [o \in Organisers |-> NoForm]

OpenForm(o, of) ==
  /\ form[o] = NoForm
  /\ form' = [form EXCEPT ![o].of = of, ![o].row = RowOf(of)]
  /\ UNCHANGED <<item, rule, meant>>

Edit(o, f, v) ==
  /\ form[o].of # None /\ f \in DOMAIN form[o].row
  /\ form' = [form EXCEPT ![o].draft = EditedTo(@, f, v)]
  /\ UNCHANGED <<item, rule, meant>>

TypedRow(o) == \E e \in Edits : form[o].of = e.kind /\ Edit(o, e.field, e.value)
TypedNumber(o) == \E e \in RuleEdits : form[o].of = "rules" /\ Edit(o, e.field, e.value)

Discard(o) ==
  Dirty(o) /\ form' = [form EXCEPT ![o].draft = << >>] /\ UNCHANGED <<item, rule, meant>>

Send(o, patch, edits, by) ==
  /\ form[o].sent = None
  /\ form' = [form EXCEPT ![o].sent = [patch |-> patch, edits |-> edits, by |-> by, at |-> "sent"]]
  /\ UNCHANGED <<item, rule, meant>>

Save(o) == form[o].of \in Kinds /\ Dirty(o) /\ Send(o, Patch(o), form[o].draft, "save")
SaveNumbers(o) == form[o].of = "rules" /\ Dirty(o) /\ Send(o, Patch(o), form[o].draft, "save")

\* Put on sale, take off sale.
PutOnSale(o) ==
  /\ form[o].of \in Kinds
  /\ LET on == [on |-> ~Shows(o, "on")] IN Send(o, on, on, "sale")

\* A switch shows its new position at once (a second flip before the answer is left out).
Switched(o) == [absorbed |-> ~form[o].row.absorbed]
Flip(o) ==
  /\ form[o].of = "rules" /\ form[o].sent = None
  /\ LET on == Switched(o) IN
     form' = [form EXCEPT ![o].row = Onto(@, on),
                          ![o].sent = [patch |-> on, edits |-> on, by |-> "flip", at |-> "sent"]]
  /\ UNCHANGED <<item, rule, meant>>

\* The engine locks the row and writes the fields it was given; the answer may be lost.
SaveServed(o, lost) ==
  /\ form[o].sent # None /\ form[o].sent.at = "sent"
  /\ LET of == form[o].of
         sent == form[o].sent
         ok == Accepts(of, sent.patch) IN
     /\ item' = IF ok /\ of \in Kinds THEN [item EXCEPT ![of] = Onto(@, sent.patch)] ELSE item
     /\ rule' = IF ok /\ of = "rules" THEN Onto(rule, sent.patch) ELSE rule
     /\ meant' = IF ok THEN [meant EXCEPT ![of] = Onto(@, sent.edits)] ELSE meant
     /\ form' = [form EXCEPT ![o].sent.at = IF ok /\ ~lost THEN "saved" ELSE "failed"]

\* Saved: the draft is emptied, what was typed meanwhile too, and the row loaded again.
\* Failed: the draft stays; a switch is loaded again.
SaveAnswered(o) ==
  /\ form[o].sent # None /\ form[o].sent.at # "sent"
  /\ LET saved == form[o].sent.at = "saved"
         by == form[o].sent.by IN
     form' = [form EXCEPT ![o].sent = None,
              ![o].draft = IF saved /\ by = "save" THEN << >> ELSE @,
              ![o].row = IF saved # (by = "flip") THEN RowOf(form[o].of) ELSE @]
  /\ UNCHANGED <<item, rule, meant>>

-----------------------------------------------------------------------------
(* What the forms guarantee.                                                *)

\* A save changes what its organiser edited and nothing else: two organisers on one powerup
\* keep each other's changes, whatever their pages had loaded.
EditsSurvive ==
  /\ \A k \in Kinds : item[k] = meant[k]
  /\ rule = meant["rules"]
=============================================================================
