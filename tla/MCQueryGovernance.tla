-------------------------- MODULE MCQueryGovernance --------------------------
(***************************************************************************)
(* Small instances of QueryGovernance for TLC: a day is one or two ticks of *)
(* the clock, a month two days.                                             *)
(***************************************************************************)
EXTENDS QueryGovernance, TLC

CONSTANTS r1, r2, r3, w1, w2

TwoWorkspaces == r1 :> w1 @@ r2 :> w1 @@ r3 :> w2
OneRequest == r1 :> w1

EveryTick(t) == t
EveryTwoTicks(t) == t - (t % 2)
EveryFourTicks(t) == t - (t % 4)

OnlyBilled == {{"billed"}}
BothOrBilled == {{"processed", "billed"}, {"billed"}}

\* The requests of w1 are interchangeable: no action or property names one.
RequestSymmetry == Permutations({r1, r2})
=============================================================================
