------------------------------ MODULE MCLogin ------------------------------
\* Login with names and passwords of one or two characters.
EXTENDS Login

MCNames == {<<7>>, <<7, 8>>}
MCPasswords == {<<3>>, <<4, 5>>}
MCUsername == <<7, 8>>
MCPassword == <<4, 5>>
=============================================================================
