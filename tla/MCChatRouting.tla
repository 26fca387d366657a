-------------------------- MODULE MCChatRouting --------------------------
\* ChatRouting on small fields: the ratios of cell, say and shout distance are the
\* code's (10000, 2000, 8000).  Players start at the origin, a cell's corner.
EXTENDS ChatRouting

\* Four by three cells [-20,-10) [-10,0) [0,10) [10,20) by [-10,0) [0,10) [10,20):
\* in the cell of the origin at shout distance, across its corner at say distance,
\* a cell further, and beyond the field.
ChatPositions == {<<7, 0>>, <<-1, -1>>, <<15, 9>>, <<-35, 25>>}

\* For shouts: where say does not reach.
ShoutPositions == {<<7, 0>>}

MinusTwenty == -20
MinusTen == -10
=============================================================================
