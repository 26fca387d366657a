------------------------ MODULE MCSessionLifecycle ------------------------
\* SessionLifecycle on a small instance.
EXTENDS SessionLifecycle
=============================================================================
