----------------------------- MODULE Overdraft ------------------------------
(***************************************************************************)
(* accounts-service: the overdraft check of withdrawals and transfers      *)
(* against the ledger's balances, and the balance a money request answers  *)
(* (services/account_service.rs, handlers/accounts.rs, ledger_grpc.rs),    *)
(* over the ledger's postings (LedgerBalances).                            *)
(*                                                                         *)
(* The check is a read of the ledger before the transaction row exists;    *)
(* the debit comes with the posting, at once or when a retry worker gets   *)
(* to a row that was left pending, and the ledger never refuses one for    *)
(* want of funds.  A key that already has a row skips the check.           *)
(*                                                                         *)
(* All accounts are active, of one organization and currency (Accounts has *)
(* the rest).  Leases and attempts are TransactionPosting's: here a row    *)
(* has one caller.  A call may reach the ledger at any time after it was   *)
(* sent, or never, and rows are sent again: `sent` forgets nothing.        *)
(*                                                                         *)
(* `undercut` and the row's `mark` are bookkeeping of the model: how often *)
(* a posting has left an account with less than its credits and what it    *)
(* had before, being a debit or overwriting another posting.               *)
(*                                                                         *)
(* A definition commented "Mutant" is used by no specification: it is the  *)
(* next definition with a plausible bug, and shows that a property notices.*)
(***************************************************************************)
EXTENDS LedgerBalances

CONSTANTS Requests,   \* HTTP requests: each is served once
          Opening,    \* the amount every account starts with
          None

\* A transaction is known by its idempotency key.
Keys == Txns

ASSUME OpeningAssumption == Opening \in Nat
ASSUME NoneAssumption == None \notin Keys

VARIABLES
    row,       \* the transactions row of each key
    pc,        \* where each request is; a status code once answered
    key,       \* the idempotency key of each request
    sent,      \* the keys the ledger was called for
    claimed,   \* the keys the retry worker is calling for
    mark,      \* history: `undercut` of the account when the request read its balance
    undercut,
    after,     \* history: the payer's balance right after each key was posted
    shown      \* balance_after in the answer of each request

vars == <<ledgerVars, row, pc, key, sent, claimed, mark, undercut, after, shown>>

-----------------------------------------------------------------------------
Statuses == {"absent", "pending", "posting", "posted", "failed"}
Answers  == {"200", "202", "400", "500"}
Steps    == {"lookup", "balance", "create", "resolve", "post", "wait", "answer"}

Debits(k) == Payments[k].kind # "deposit"
Payer(k)  == Payments[k].from
Payee(k)  == Payments[k].to

Go(r, step)      == pc' = [pc EXCEPT ![r] = step]
SetStatus(k, s)  == row' = [row EXCEPT ![k].status = s]
unchangedLedger  == <<ledgerVars, undercut, after>>
unchangedCalls   == <<sent, claimed>>

Initially == [h \in Holders |-> IF h = Cash THEN 0 ELSE -Opening]

Init ==
    /\ BalancesInit(Initially, {})
    /\ row = [k \in Keys |-> [status |-> "absent", mark |-> 0]]
    /\ pc = [r \in Requests |-> "idle"]
    /\ key = [r \in Requests |-> None]
    /\ sent = {} /\ claimed = {}
    /\ mark = [r \in Requests |-> 0]
    /\ undercut = [a \in Parties |-> 0]
    /\ after = [k \in Keys |-> 0]
    /\ shown = [r \in Requests |-> 0]

-----------------------------------------------------------------------------
\* Headers, amount and accounts are valid.  A deposit has nothing to check.
Receive(r, k) ==
    /\ pc[r] = "idle"
    /\ key' = [key EXCEPT ![r] = k]
    /\ Go(r, IF Debits(k) THEN "lookup" ELSE "create")
    /\ UNCHANGED <<row, mark, shown, unchangedCalls, unchangedLedger>>

\* A row for the key is the answer, or is posted without a check.
FindByIdempotency(r) ==
    /\ pc[r] = "lookup"
    /\ Go(r, CASE row[key[r]].status = "absent"               -> "balance"
               [] row[key[r]].status \in {"posted", "posting"} -> "answer"
               [] row[key[r]].status \in {"pending", "failed"} -> "create")
    /\ UNCHANGED <<row, key, mark, shown, unchangedCalls, unchangedLedger>>

\* Mutant: the payee's balance is compared.
SufficientOfPayee(k) == Display(stored[Payee(k)]) >= Payments[k].amount

Sufficient(k) == Display(stored[Payer(k)]) >= Payments[k].amount

\* get_account_balance, the answer parsed, negated and compared.
CheckBalance(r) ==
    /\ pc[r] = "balance"
    /\ mark' = [mark EXCEPT ![r] = undercut[Payer(key[r])]]
    /\ \/ Go(r, IF Sufficient(key[r]) THEN "create" ELSE "400")
       \/ Go(r, "500")
    /\ UNCHANGED <<row, key, shown, unchangedCalls, unchangedLedger>>

CreateOrGetByIdempotency(r) ==
    /\ pc[r] = "create"
    /\ row' = IF row[key[r]].status = "absent"
              THEN [row EXCEPT ![key[r]] = [status |-> "pending", mark |-> mark[r]]]
              ELSE row
    /\ Go(r, "resolve")
    /\ UNCHANGED <<key, mark, shown, unchangedCalls, unchangedLedger>>

\* A pending row is claimed, any other is the answer.
ResolveImmediateLedgerPost(r) ==
    /\ pc[r] = "resolve"
    /\ IF row[key[r]].status = "pending"
       THEN SetStatus(key[r], "posting") /\ Go(r, "post")
       ELSE Go(r, "answer") /\ UNCHANGED row
    /\ UNCHANGED <<key, mark, shown, unchangedCalls, unchangedLedger>>

-----------------------------------------------------------------------------
\* LedgerGrpc::post_transaction is called.
HandlerPosts(r) ==
    /\ pc[r] = "post"
    /\ sent' = sent \cup {key[r]}
    /\ Go(r, "wait")
    /\ UNCHANGED <<row, key, claimed, mark, shown, unchangedLedger>>

\* The posting is committed, whatever the payer's balance.
LedgerPosts(k) ==
    /\ CommitPosting(k)
    /\ undercut' = [a \in Parties |-> IF (Debits(k) /\ a = Payer(k)) \/ Overwrites(k, a)
                                      THEN undercut[a] + 1 ELSE undercut[a]]
    /\ after' = [after EXCEPT ![k] = stored'[Payer(k)]]

LedgerWorks(k) ==
    /\ k \in sent
    /\ \/ WorkOn(k) /\ UNCHANGED <<undercut, after>>
       \/ LedgerPosts(k)
    /\ UNCHANGED <<row, pc, key, unchangedCalls, mark, shown>>

\* The UPDATE that records the outcome of a call: posted, or pending again
\* when it was refused, not delivered, or not answered in time.
RecordAnswer(k) ==
    \/ k \in booked /\ SetStatus(k, "posted")
    \/ SetStatus(k, "pending")

HandlerRecords(r) ==
    /\ pc[r] = "wait"
    /\ RecordAnswer(key[r])
    /\ Go(r, "answer")
    /\ UNCHANGED <<key, unchangedCalls, mark, shown, unchangedLedger>>

StatusCode(k) ==
    CASE row[k].status = "posted"                 -> "200"
      [] row[k].status \in {"pending", "posting"} -> "202"
      [] row[k].status = "failed"                 -> "500"

\* The handler reads the payer's balance for the response; 0 if it cannot.
Answer(r) ==
    /\ pc[r] = "answer" /\ Payments[key[r]].kind # "transfer"
    /\ Go(r, StatusCode(key[r]))
    /\ \E b \in {0, Display(stored[Payer(key[r])])} : shown' = [shown EXCEPT ![r] = b]
    /\ UNCHANGED <<row, key, mark, unchangedCalls, unchangedLedger>>

\* A transfer answers both balances, read in one call; the payer's is the
\* transaction's balance_after.
AnswerTransfer(r) ==
    /\ pc[r] = "answer" /\ Payments[key[r]].kind = "transfer"
    /\ Go(r, StatusCode(key[r]))
    /\ \/ shown' = [shown EXCEPT ![r] = Display(stored[Payer(key[r])])]
       \/ shown' = [shown EXCEPT ![r] = 0]
    /\ UNCHANGED <<row, key, mark, unchangedCalls, unchangedLedger>>

\* The retry worker claims a row that was left pending and calls for it, or
\* gives it up.
RetryWorkerPosts(k) ==
    /\ row[k].status = "pending"
    /\ SetStatus(k, "posting")
    /\ sent' = sent \cup {k} /\ claimed' = claimed \cup {k}
    /\ UNCHANGED <<pc, key, mark, shown, unchangedLedger>>

RetryWorkerRecords(k) ==
    /\ k \in claimed
    /\ RecordAnswer(k)
    /\ claimed' = claimed \ {k}
    /\ UNCHANGED <<pc, key, sent, mark, shown, unchangedLedger>>

RetryWorkerGivesUp(k) ==
    /\ row[k].status = "pending"
    /\ SetStatus(k, "failed")
    /\ UNCHANGED <<pc, key, unchangedCalls, mark, shown, unchangedLedger>>

Deposit(r) ==
    \/ CreateOrGetByIdempotency(r) \/ ResolveImmediateLedgerPost(r)
    \/ HandlerPosts(r) \/ HandlerRecords(r) \/ Answer(r)

Withdraw(r) == FindByIdempotency(r) \/ CheckBalance(r) \/ Deposit(r)

Transfer(r) == Withdraw(r) \/ AnswerTransfer(r)

Next ==
    \/ \E r \in Requests : (\E k \in Keys : Receive(r, k)) \/ Transfer(r)
    \/ \E k \in Keys : \/ RetryWorkerPosts(k) \/ RetryWorkerRecords(k) \/ RetryWorkerGivesUp(k)
                      \/ LedgerWorks(k)

Spec == Init /\ [][Next]_vars

-----------------------------------------------------------------------------
(* Properties.                                                             *)

\* Every variable has its type.
TypeOK ==
    /\ stored \in [Holders -> Int]
    /\ booked \subseteq Keys
    /\ loaded \in [Keys -> [Holders -> Int \cup {Unread}]]
    /\ overlapped \subseteq Holders
    /\ row \in [Keys -> [status : Statuses, mark : Nat]]
    /\ pc \in [Requests -> Steps \cup Answers \cup {"idle"}]
    /\ key \in [Requests -> Keys \cup {None}]
    /\ sent \subseteq Keys /\ claimed \subseteq sent
    /\ mark \in [Requests -> Nat]
    /\ undercut \in [Parties -> Nat]
    /\ after \in [Keys -> Int]
    /\ shown \in [Requests -> Int]

\* A debit overdraws its account only when, since its own check read the
\* balance, another debit of that account was posted or a posting of another
\* transaction was overwritten there: the check is right, but holds nothing
\* back (withdraw_with_idempotency, transfer_with_idempotency).
OverdraftTakesRival ==
    [][\A k \in booked' \ booked :
          Debits(k) /\ row[k].mark = undercut[Payer(k)]
          => Display(stored'[Payer(k)]) >= 0]_vars

\* A balance is the opening one and each posted transaction once, whatever
\* replies were lost and however often a key was tried, unless two postings
\* of the account were at work at once (update_balance!).
BalancesAddUp ==
    \A h \in Holders \ overlapped :
        Display(stored[h]) = Display(Initially[h]) + Balance(booked, h)

-----------------------------------------------------------------------------
(* Claims of the repository that the code does not keep.                   *)

\* account_service.rs:371: "New transaction: block overdrafts before creating".
NoOverdraft == \A a \in Parties : Display(stored[a]) >= 0

\* models/transaction.rs:191: "balance_after: account balance in cents after
\* the transaction (from Ledger)"; 0 stands for unavailable.
BalanceAfterIsAfter ==
    \A r \in Requests :
        pc[r] = "200" => shown[r] \in {0, Display(after[key[r]])}
=============================================================================
