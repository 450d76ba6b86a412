----------------------------- MODULE MCBackend ------------------------------
(* Three requests of any kind, two of them for one id.                      *)
EXTENDS Backend

CONSTANTS r1, r2, r3, k1, k2, u1, u2

MCIdOf == [r \in Requests |-> IF r = r3 THEN k2 ELSE k1]

MCUsersOf == [r \in Requests |-> CASE r = r1 -> {u1, u2}
                                   [] r = r2 -> {u1}
                                   [] OTHER -> {}]
=============================================================================
