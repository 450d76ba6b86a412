---------------------------- MODULE MCLifecycle -----------------------------
EXTENDS Lifecycle
CONSTANTS r1, w1, t1
MCServerOf == [r \in Requests |-> IF r = w1 THEN "wss" ELSE "rest"]
=============================================================================
