------------------------------ MODULE MCOutbox ------------------------------
\* Instances of Outbox for TLC: one process on a few items.
EXTENDS Outbox

CONSTANTS a, b, daemon
=============================================================================
