-------------------------- MODULE MCDatabasePool --------------------------
\* DatabasePool on a small instance.
EXTENDS DatabasePool
=============================================================================
