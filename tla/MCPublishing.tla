---------------------------- MODULE MCPublishing ------------------------------
(* Two scheduled posts and one with a key, with disjoint, shared or no     *)
(* media, of which some may be removed; a row may stop being acceptable or *)
(* not parse.                                                              *)
EXTENDS Publishing, TLC

CONSTANTS s1, s2, d1, m1, m2

Plan(media, n, removable, frail, illegible) ==
    [uses |-> media, limit |-> n, removable |-> removable,
     frail |-> frail, illegible |-> illegible]
PlanChoices == {
    Plan((s1 :> {}) @@ (s2 :> {}), 1, {}, {s1}, {}),
    Plan((s1 :> {}) @@ (s2 :> {}), 2, {}, {}, {}),
    Plan((s1 :> {m1}) @@ (s2 :> {}), 1, {}, {}, {s1}),
    Plan((s1 :> {m1}), 1, {m1}, {s1}, {}),
    Plan((s1 :> {m1}) @@ (d1 :> {m1, m2}), 1, {}, {}, {}),
    Plan((s1 :> {}) @@ (d1 :> {}), 1, {}, {}, {})}
=============================================================================
