----------------------------- MODULE MCTenancy ------------------------------
(* Instances of Tenancy for TLC: two businesses, one with an API key.      *)
EXTENDS Tenancy, TLC

CONSTANTS r1, r2, r3, b1, b2, e1, e2, e3, k1, k2

Symmetry == Permutations({r1, r2, r3})

AdminEmails == (b1 :> e1) @@ (b2 :> e2)
KeyOfFirst  == (k1 :> b1)

\* The endpoints that share rows: those that work with keys and the users made
\* with them, those that add an address, those that only read a key.
Groups == {{"createUser", "createKey", "revokeKey"},
           {"register", "apply", "createUser"},
           {"validate", "resolve", "listKeys", "me", "revokeKey"}}

\* Bound: the requests of a behaviour are of one group.
OneGroup ==
    \E g \in Groups : \A r \in Requests : req[r].kind \in g \cup {"none"}
=============================================================================
