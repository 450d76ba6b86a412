---------------------------- MODULE MCSignaling -----------------------------
(* One connection with two offers for one call, and a candidate, a close    *)
(* and a data item for it; two chat frames are written to it meanwhile.     *)
EXTENDS Signaling

CONSTANTS offer1, offer2, ice, close, data, w1, w2, callA

MCKind ==
    [h \in Handlers |-> CASE h = ice -> "ice"
                          [] h = close -> "close"
                          [] h = data -> "data"
                          [] OTHER -> "offer"]
MCCall == [h \in Handlers |-> callA]
=============================================================================
