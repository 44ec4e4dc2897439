------------------------- MODULE MCWebhookDelivery -------------------------
(***************************************************************************)
(* Instances of WebhookDelivery for TLC: one route to one target, and the  *)
(* posts a1 and a2 that repeat one push.                                   *)
(***************************************************************************)
EXTENDS WebhookDelivery

CONSTANTS a1, a2, ra, t1

MCPush     == [p \in Posts |-> 1]
MCRouteOf  == [p \in Posts |-> ra]
MCTargetOf == [r \in Routes |-> t1]

=============================================================================
