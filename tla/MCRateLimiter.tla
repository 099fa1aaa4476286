--------------------------- MODULE MCRateLimiter ----------------------------
(* Instances of RateLimiter for TLC.                                       *)
EXTENDS RateLimiter, TLC

CONSTANTS r1, r2, r3, r4, r5, c1, c2, p1, p2

Symmetry == Permutations({r1, r2, r3, r4, r5})

\* Two clients, one direct and one through the gateway.
TwoClients == {[peer |-> c1, chain |-> <<>>, real |-> Invalid],
               [peer |-> p1, chain |-> <<c2>>, real |-> c2]}

\* Every header of up to three entries, through a proxy or not.
Chains == UNION {[1 .. n -> {c1, c2, p1, p2, Invalid}] : n \in 0 .. 3}
AllInputs == [peer : {c1, p1}, chain : Chains, real : {c1, c2, Invalid}]

\* Bound: either the requests of two clients over time, or one request of any kind.
TwoClientsOrOneInput ==
    /\ \/ input \in [Arrivals -> TwoClients]
       \/ \E in \in AllInputs : input = [r \in Arrivals |-> in]
    /\ LimiterInit

OverTime   == input \in [Arrivals -> TwoClients]
OneRequest == now = 0 /\ \A r, q \in Arrivals : verdict[r] # "idle" /\ verdict[q] # "idle" => r = q
Bounded    == OverTime \/ OneRequest
=============================================================================
