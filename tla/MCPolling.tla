----------------------------- MODULE MCPolling ------------------------------
(* Two conversations, the first with two messages and, after a removal, two *)
(* rows; two slots.                                                         *)
EXTENDS Polling

CONSTANTS k1, k2, r1, r2, r3

MCRowChat == [r \in Rows |-> IF r = r3 THEN k2 ELSE k1]
MCChatOf == [m \in Messages |-> IF m = 2 THEN k2 ELSE k1]
=============================================================================
