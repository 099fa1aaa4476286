---------------------------- MODULE MCAuditTrail ----------------------------
(* Instances of AuditTrail for TLC.                                        *)
EXTENDS AuditTrail

CONSTANTS r1, r2

Users(a)    == [service |-> "users", action |-> a]
Accounts(a) == [service |-> "accounts", action |-> a]

\* One action of each kind: with a nil organization, without, not in the catalog.
Each == {Users("users.auth.login"), Users("users.sdk.user.create"),
         Accounts("accounts.money.deposit")}
Both      == {Users("users.auth.login"), Accounts("accounts.money.deposit")}
Failing   == {Users("users.auth.refresh")}
Transfers == {Accounts("accounts.money.transfer")}

Posts == {[action |-> "ledger.transaction.post", organization |-> o, outcome |-> "success",
           reason |-> 0, stamp |-> 0] : o \in {"tenant", "nil"}}
=============================================================================
