------------------------ MODULE MCPlayerVisibility ------------------------
\* PlayerVisibility on a small grid.
EXTENDS PlayerVisibility

\* Three cells in a row, [-1,1) [1,3) [3,5): the first and the last, which
\* do not touch.
RowPositions == {<<0, 0>>, <<9, 0>>}

MinusOne == -1
=============================================================================
