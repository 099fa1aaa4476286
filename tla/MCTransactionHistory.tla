------------------------ MODULE MCTransactionHistory ------------------------
(* Instances of TransactionHistory for TLC.                                *)
EXTENDS TransactionHistory, TLC

CONSTANTS a, b

\* An old deposit, then a deposit, a transfer and a withdrawal.
FourPayments ==
    (0 :> [kind |-> "deposit",  from |-> a, to |-> a, amount |-> 1])
    @@ (1 :> [kind |-> "deposit",  from |-> b, to |-> b, amount |-> 2])
    @@ (2 :> [kind |-> "transfer", from |-> a, to |-> b, amount |-> 4])
    @@ (3 :> [kind |-> "withdraw", from |-> b, to |-> b, amount |-> 8])

NewestLists ==
    [op : {"account"}, account : {a, b}, limit : {2}]
    \cup [op : {"organization"}, page : {1}, perPage : {2, 100}]

AnyPage == [op : {"organization"}, page : 1 .. 2, perPage : {2}]
Singles == [op : {"transaction"}, id : 1 .. 2]

\* What follows an answer changes nothing that is said of it: `listed` and
\* `book` stay, `still` is settled, and `overlapped` only grows.
Unanswered == \E l \in Listings : phase[l] \in {"rows", "balances"}
=============================================================================
