----------------------------- MODULE MCCombat -----------------------------
\* Combat on a row of three cells [-10,0) [0,10) [10,20): the origin, where players
\* start, is the edge of the first two.
EXTENDS Combat

\* In range of the origin and in another cell; two cells away from that.
CombatPositions == {<<-1, 0>>, <<15, 0>>}
EastWest == {<<1, 0>>, <<-1, 0>>}

MinusTen == -10
MinusOne == -1
=============================================================================
