----------------------------- MODULE MCClmmPool -----------------------------
(* The model-checking instance of ClmmPool.                                *)
EXTENDS ClmmQuote, TLC

CONSTANTS p1, p2

FourTicks    == {-3, -2, -1, 2}
TwoPositions == {p1, p2}
Position     == Permutations(TwoPositions)
ThreeRanges  == {<<-3, -1>>, <<-1, 2>>, <<-2, 2>>}
Around       == {-1}
NoneOrTwo    == {{}, {"Decrease"}}
=============================================================================
