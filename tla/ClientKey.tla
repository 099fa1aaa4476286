----------------------------- MODULE ClientKey ------------------------------
(***************************************************************************)
(* The key a rate limiter counts a request under: the address of the       *)
(* client, which a trusted proxy names in a header (routes/rate_limit.rs   *)
(* of users-service and of accounts-service).                              *)
(*                                                                         *)
(* The two copies differ in one thing: an entry of X-Forwarded-For that is *)
(* no address is skipped by users-service, and makes accounts-service      *)
(* disregard the header.  An address is a model value; text that does not  *)
(* parse as one is Invalid.  All requests have a peer address.             *)
(***************************************************************************)
EXTENDS Naturals, Sequences

CONSTANTS Addresses,      \* IP addresses
          Proxies,        \* the trusted ones
          Invalid,        \* a header entry that is no address
          SkipsInvalid    \* which of the two services this is

ASSUME ProxiesAssumption == Proxies \subseteq Addresses
ASSUME InvalidAssumption == Invalid \notin Addresses
ASSUME SkipsInvalidAssumption == SkipsInvalid \in BOOLEAN

\* peer: the other end of the connection; chain: X-Forwarded-For, empty
\* without it; real: X-Real-IP, Invalid without it.
Input == [peer : Addresses, chain : Seq(Addresses \cup {Invalid}),
          real : Addresses \cup {Invalid}]

Has(s, x) == \E i \in DOMAIN s : s[i] = x

\* The positions of the entries that are read; none if the header does not
\* count at all.
ParseForwardedFor(chain) ==
    IF ~SkipsInvalid /\ Has(chain, Invalid) THEN {}
    ELSE {i \in DOMAIN chain : chain[i] # Invalid}

LastOf(positions) == CHOOSE i \in positions : \A j \in positions : j <= i

Untrusted(chain) == {i \in ParseForwardedFor(chain) : chain[i] \notin Proxies}

\* Mutant: the client is the first entry.
ForwardedFirst(chain) == chain[CHOOSE i \in Untrusted(chain) : \A j \in Untrusted(chain) : i <= j]

\* The last entry that is not a trusted proxy.
LastUntrusted(chain) == chain[LastOf(Untrusted(chain))]

\* The chain counts if the hop before us, its last entry, is a proxy we
\* trust or the peer itself.
ForwardedCounts(chain, peer) ==
    /\ Untrusted(chain) # {}
    /\ chain[LastOf(ParseForwardedFor(chain))] \in Proxies \cup {peer}

ExtractClientKey(in) ==
    IF in.peer \notin Proxies THEN in.peer
    ELSE IF ForwardedCounts(in.chain, in.peer) THEN LastUntrusted(in.chain)
    ELSE IF in.real # Invalid THEN in.real
    ELSE in.peer
=============================================================================
