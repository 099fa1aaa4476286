----------------------------- MODULE MCAccounts -----------------------------
(* Instances of Accounts for TLC: one user with a saving account.          *)
EXTENDS Accounts, TLC

CONSTANTS i1, i2, i3, u1, n1, n2, n3, r1, r2, r3

Symmetry == Permutations({r1, r2, r3})

OneAccount ==
    [i \in {i1} |-> [user |-> u1, type |-> "saving", number |-> n1, status |-> "active"]]

\* A second account is created, under either id; status changes of the first
\* account and of one that may or may not exist; money to itself and between.
AllOperations ==
    [op : {"create"}, user : {u1}, type : {"checking"}]
    \cup [op : {"change"}, id : {i1, i2}, status : {"active", "suspended", "closed"}]
    \cup [op : {"money"}, from : {i1}, to : {i1, i2}]
=============================================================================
