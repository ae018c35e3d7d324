-------------------------------- MODULE MCMarket --------------------------------
(* Instances of the marketplace for TLC. *)
EXTENDS Market

CONSTANTS a, b

Item(price, seconds, held, bought) ==
  [on |-> TRUE, price |-> price, seconds |-> seconds, maxHeld |-> held, maxBought |-> bought, where |-> {"coding1"}]
Items(seconds) == [k \in Kinds |-> IF k = "blackout" THEN Item(2, 2, 2, None) ELSE Item(1, seconds, None, 2)]
Rules(cap, absorbed, forever) == [cap |-> cap, pause |-> 1, absorbed |-> absorbed, forever |-> forever]

Had(p, k, i) == [act |-> "buy", kind |-> k, actor |-> p, target |-> None, cost |-> IF k = "shield" THEN 1 ELSE 2,
                 id |-> -i, at |-> 0]
Blackouts(n) == [i \in 1..n |-> Had(a, "blackout", i)]

Budget(earlier, items, rules, shoppers, watchers, buy, use, ticks, edits, saves, moves, hides, refreshes, faults) ==
  [log |-> earlier, items |-> items, rules |-> rules, phase |-> IF moves = 0 THEN "coding1" ELSE "p1_hacking",
   left |-> [shoppers |-> shoppers, watchers |-> watchers, buy |-> buy, use |-> use, ticks |-> ticks, edits |-> edits,
             saves |-> saves, moves |-> moves, hides |-> hides, refreshes |-> refreshes, faults |-> faults]]

MCEdits == {[kind |-> "blackout", field |-> "seconds", value |-> -1], [kind |-> "blackout", field |-> "maxHeld", value |-> None],
            [kind |-> "shield", field |-> "seconds", value |-> UntilAbsorbed], [kind |-> "shield", field |-> "price", value |-> 2]}
MCRuleEdits == {[field |-> "cap", value |-> 1], [field |-> "forever", value |-> TRUE]}

MCBudgets == {
  \* a buys, with clicks lost or sent twice
  Budget(<< >>, Items(1), Rules(0, TRUE, FALSE), {a}, {}, 2, 0, 0, 0, 0, 0, 0, 0, 1),
  \* a attacks b, who has shields
  Budget(Blackouts(2) \o <<Had(b, "shield", 3), Had(b, "shield", 4)>>, Items(1), Rules(0, TRUE, FALSE), {a}, {}, 0, 2, 2, 0, 0, 0, 0, 0, 1),
  Budget(Blackouts(2) \o <<Had(b, "shield", 4)>>, Items(UntilAbsorbed), Rules(2, FALSE, FALSE), {a}, {}, 1, 2, 1, 0, 0, 0, 0, 0, 0),
  \* a attacks b, who takes breaks
  Budget(Blackouts(3), Items(1), Rules(1, TRUE, FALSE), {a}, {}, 0, 3, 3, 0, 0, 0, 0, 0, 0),
  \* b's screen
  Budget(Blackouts(1), Items(1), Rules(0, TRUE, FALSE), {a}, {b}, 0, 1, 2, 0, 0, 0, 1, 1, 0),
  Budget(Blackouts(1), Items(1), Rules(0, TRUE, FALSE), {a}, {b}, 0, 1, 2, 0, 0, 0, 0, 0, 1),
  Budget(Blackouts(2), Items(1), Rules(0, TRUE, FALSE), {a}, {b}, 0, 2, 1, 0, 0, 0, 0, 0, 0),
  \* the organisers
  Budget(Blackouts(1), Items(1), Rules(2, TRUE, FALSE), {}, {}, 0, 0, 0, 2, 2, 0, 0, 0, 0),
  Budget(Blackouts(1), Items(1), Rules(2, TRUE, FALSE), {a}, {}, 1, 1, 0, 0, 0, 2, 0, 0, 0)}

=============================================================================
