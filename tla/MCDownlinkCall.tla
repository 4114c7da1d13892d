--------------------------- MODULE MCDownlinkCall ---------------------------
(* One service call next to one property set: replies to the first are     *)
(* sent on its channel by the router and by the handler, replies to the    *)
(* second by the handler alone.  The first is answered twice or less.      *)
EXTENDS DownlinkCall

CONSTANTS s1, p1

MCCalls   == {s1, p1}
MCKind    == [c \in MCCalls |-> IF c = s1 THEN "service" ELSE "property"]
MCReplies == [c \in MCCalls |-> IF c = s1 THEN 2 ELSE 1]
=============================================================================
