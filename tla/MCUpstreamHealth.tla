--------------------------- MODULE MCUpstreamHealth ---------------------------
(* Small instances of UpstreamHealth. *)
EXTENDS UpstreamHealth, TLC

CONSTANTS c1, c2, c3, e1, e2, p1

TwoCalls == {c1, c2}
CallSymmetry == Permutations(Calls)

FirstFailure == [k \in Keys |-> 1]
SecondFailure == [k \in Keys |-> IF k \in Endpoints THEN 2 ELSE 1]
=============================================================================
