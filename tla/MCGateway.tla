------------------------------- MODULE MCGateway -------------------------------
(***************************************************************************)
(* The gateway for TLC.  Its middleware and its doors keep no state in     *)
(* common, so their interleavings tell nothing: a behaviour runs one of    *)
(* the idempotency keys, the rate limit and the doors, and the others stay *)
(* where they began.                                                       *)
(***************************************************************************)
EXTENDS GatewayIdempotency, GatewayRateLimit, Doors, TLC

VARIABLE part

gatewayVars == <<part, vars, limiterVars, doorsVars>>

GatewayInit == /\ part \in {"keys", "limit", "doors"}
               /\ Init /\ LimiterInit /\ DoorsInit
               /\ part # "keys" => \A q, r \in Requests : key[q] = key[r]

GatewayNext == /\ UNCHANGED part
               /\ \/ part = "keys"  /\ Next        /\ UNCHANGED <<limiterVars, doorsVars>>
                  \/ part = "limit" /\ LimiterNext /\ UNCHANGED <<vars, doorsVars>>
                  \/ part = "doors" /\ DoorsNext   /\ UNCHANGED <<vars, limiterVars>>

GatewaySpec == GatewayInit /\ [][GatewayNext]_gatewayVars

Symmetry == Permutations(Requests) \cup Permutations(Keys) \cup Permutations(Handlers)

=============================================================================
