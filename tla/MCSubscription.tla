--------------------------- MODULE MCSubscription ---------------------------
(* Two subscriptions one after the other or at a time, a friend, two        *)
(* workers.                                                                 *)
EXTENDS Subscription, TLC

Symmetry == Permutations(Workers) \cup Permutations(Friends) \cup Permutations(Subs)
=============================================================================
