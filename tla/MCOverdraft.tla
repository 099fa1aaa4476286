---------------------------- MODULE MCOverdraft -----------------------------
(* Instances of Overdraft for TLC.                                         *)
EXTENDS Overdraft, TLC

CONSTANTS a1, a2, k1, k2, k3, k4, r1, r2, r3

Symmetry == Permutations({r1, r2, r3})

Op(kind, from, to, n) == [kind |-> kind, from |-> from, to |-> to, amount |-> n]

\* Transfers of all there is, a deposit, and a withdrawal that needs it: it
\* finds too little when another debit was posted since its check, or when
\* the transfer to its account overwrites the deposit.
Mixed == (k1 :> Op("withdraw", a1, a1, 5)) @@ (k2 :> Op("transfer", a1, a2, 2))
         @@ (k3 :> Op("transfer", a2, a1, 2)) @@ (k4 :> Op("deposit", a1, a1, 3))

\* The state but for what no action and no property of the run reads any more:
\* `after` and `shown`, the key of an answered request, a mark once in its row.
View ==
    <<ledgerVars, row, pc, [r \in Requests |-> IF pc[r] \in Answers THEN None ELSE key[r]],
      sent, claimed, undercut, [r \in Requests |-> IF pc[r] = "create" THEN mark[r] ELSE 0]>>
=============================================================================
