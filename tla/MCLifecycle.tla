---------------------------- MODULE MCLifecycle ----------------------------
\* Model-checking instance of Lifecycle alone (MCProcess holds the other one).
EXTENDS Lifecycle
=============================================================================
