------------------------------ MODULE MCParts -------------------------------
(* Two requests, callers, connections and topics; the mail address of an    *)
(* account and the same one with a capital letter; a user with three        *)
(* devices, two of which a query returns.                                   *)
EXTENDS Parts

CONSTANTS q1, q2, Mixed, Plain, p1, p2, Admin, h1, h2, k1, k2, b1, b2, t1, t2
CONSTANTS u1, d1, d2, d3

MCLower == [e \in {Mixed, Plain} |-> Plain]
MCKnown == [e \in {Plain} |-> p1]
MCOwnerOf == [d \in Devices |-> u1]
=============================================================================
