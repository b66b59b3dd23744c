------------------------------ MODULE MCServer ------------------------------
(***************************************************************************)
(* The running server, for TLC: it accepts and drains connections, opens    *)
(* the workspaces of its list, moves bodies through bridges, answers ranges *)
(* of contents, and limits failed authentications.  In these modules the    *)
(* five share no state, so a behaviour is that of one of them.              *)
(***************************************************************************)
EXTENDS Registry, Serving, Bridge, ContentRange, RateLimiter

VARIABLE part   \* the one that moves

\* "x" and "y" are of one /64.
MCCountedAs == [c \in Peers |-> IF c = "y" THEN "x" ELSE c]

ServerInit ==
    /\ part \in {"registry", "serving", "bridge", "range", "limiter"}
    /\ RegistryInit /\ ServingInit /\ BridgeInit /\ RangeInit /\ LimiterInit
    /\ part # "range" => item.size = 0

ServerNext ==
    /\ UNCHANGED part
    /\ \/ part = "registry" /\ RegistryNext /\ UNCHANGED <<serving, bridge, answer, limiter>>
       \/ part = "serving" /\ ServingNext /\ UNCHANGED <<registry, bridge, answer, limiter>>
       \/ part = "bridge" /\ BridgeNext /\ UNCHANGED <<registry, serving, answer, limiter>>
       \/ part = "range" /\ RangeNext /\ UNCHANGED <<registry, serving, bridge, limiter>>
       \/ part = "limiter" /\ LimiterNext /\ UNCHANGED <<registry, serving, bridge, answer>>

ServerSpec ==
    ServerInit /\ [][ServerNext]_<<part, registry, serving, bridge, answer, limiter>>

=============================================================================
