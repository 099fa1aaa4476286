--------------------------- MODULE LedgerPosting ---------------------------
(***************************************************************************)
(* ledger-service: what happens to one PostTransaction call, from gRPC     *)
(* (app/grpc/ledger_service.rb) through LedgerPoster                       *)
(* (app/services/ledger_poster.rb) to the four tables in PostgreSQL.       *)
(*                                                                         *)
(* Every call runs on a thread of its own.  A new posting is one database  *)
(* transaction at READ COMMITTED: what it writes is in work[c] until it    *)
(* commits, and until then the rows and unique-index entries it wrote      *)
(* block whoever wants to write the same ones.  Reads never block and see  *)
(* committed rows.  A pending row found for the key ("ledger row exists    *)
(* but was never posted") is completed without a transaction: each         *)
(* statement then commits by itself.                                       *)
(*                                                                         *)
(* One SQL statement is one step; the lookups of LedgerAccount.resolve and *)
(* its insert are one (the loser of a race reads the winner's row; the row *)
(* lock that read takes blocks only other losers and is left out).         *)
(* Organization, environment and currency are fixed: every query filters   *)
(* on them.  `overlapped` is bookkeeping of the model.                     *)
(*                                                                         *)
(* A definition commented "Mutant" is used by no specification.            *)
(***************************************************************************)
EXTENDS Integers, FiniteSets, FiniteSetsExt

CONSTANTS Calls,      \* PostTransaction calls: each is served once
          Keys,       \* idempotency keys
          Accounts,   \* external account ids
          Cash,       \* the account SYSTEM_CASH_CONTROL
          Postings,   \* what a call may ask: source, destination and amount
          None,       \* no key, posting or balance
          Leftover,   \* keys whose row was left pending by someone else
          Opened      \* accounts that earlier postings may have left with balance 0

ASSUME AccountsAssumption == Cash \in Accounts
ASSUME PostingsAssumption ==
    Postings \subseteq [source : Accounts, destination : Accounts, amount : Int]
ASSUME ValuesAssumption   == None \notin Int \cup Keys \cup Postings
ASSUME LeftoverAssumption == Leftover \subseteq Keys
ASSUME OpenedAssumption   == Opened \subseteq Accounts

VARIABLES
    txn,        \* ledger_transactions: the status of each key's row
    entries,    \* ledger_entries
    accounts,   \* ledger_accounts: the account ids that have a row
    balance,    \* account_balances: balance_cents of each account
    audited,    \* keys for which ledger.transaction.post was emitted
    pc,         \* where each call is; its answer once it has one
    side,       \* which side of the posting the call is working on
    req,        \* the key and posting of each call
    seen,       \* the balance a call read and has not written back yet
    work,       \* what the open transaction of a call wrote
    overlapped  \* history: accounts two postings worked on at a time

vars == <<txn, entries, accounts, balance, audited, pc, side, req, seen, work, overlapped>>

-----------------------------------------------------------------------------
(* Rows and double-entry rules.                                            *)

Sides == {"source", "destination"}

Entry == [call : Calls, side : Sides, key : Keys, account : Accounts,
          type : {"debit", "credit"}, amount : Int]

\* What a transaction wrote and has not committed.  The transaction is open
\* once its first statement, the insert of the ledger transaction, is done.
Work == [open : BOOLEAN, accounts : SUBSET Accounts, entries : SUBSET Entry,
         balance : [Accounts -> Int \cup {None}]]

NoWork == [open |-> FALSE, accounts |-> {}, entries |-> {},
           balance |-> [a \in Accounts |-> None]]

\* Only SYSTEM_ accounts are assets, and callers use one of them.
AccountType(a) == IF a = Cash THEN "asset" ELSE "liability"

DetectOperation(p) ==
    CASE p.source = Cash /\ p.destination # Cash -> "deposit"
      [] p.destination = Cash /\ p.source # Cash -> "withdraw"
      [] OTHER                                   -> "transfer"

AccountChange(op, s) ==
    CASE op = "transfer" -> IF s = "source" THEN "decrease" ELSE "increase"
      [] op = "deposit"  -> "increase"
      [] op = "withdraw" -> "decrease"

EntryType(type, change) ==
    IF (type = "asset") = (change = "increase") THEN "debit" ELSE "credit"

\* Debits raise the stored balance, credits lower it.
Signed(type, amount) == IF type = "debit" THEN amount ELSE 0 - amount

-----------------------------------------------------------------------------
(* Calls, transactions and locks.                                          *)

Active   == {"find", "partial", "create", "resolve", "entry", "read", "write",
             "mark", "committed"}
Answers  == {"posted", "failed", "gone"}

Key(c)        == req[c].key
Account(c)    == req[c].posting[side[c]]
Amount(c)     == req[c].posting.amount
SideType(c)   == EntryType(AccountType(Account(c)),
                           AccountChange(DetectOperation(req[c].posting), side[c]))
EntriesOf(k)  == {e \in entries : e.key = k}

Go(c, p)      == pc' = [pc EXCEPT ![c] = p] /\ UNCHANGED side

\* First the source, then the destination, then whatever comes next.
NextSide(c, again, next) ==
    IF side[c] = "source"
    THEN pc' = [pc EXCEPT ![c] = again] /\ side' = [side EXCEPT ![c] = "destination"]
    ELSE pc' = [pc EXCEPT ![c] = next]  /\ side' = [side EXCEPT ![c] = "source"]

\* A statement's effect w: kept back in a transaction, else published at once.
Publish(w) ==
    /\ accounts' = accounts \cup w.accounts
    /\ entries' = entries \cup w.entries
    /\ balance' = [a \in Accounts |-> IF w.balance[a] = None THEN balance[a]
                                                             ELSE w.balance[a]]

Write(c, w) ==
    IF work[c].open
    THEN work' = [work EXCEPT ![c] = w] /\ UNCHANGED <<accounts, entries, balance>>
    ELSE Publish(w) /\ UNCHANGED work

\* The call ends with an answer; an open transaction is rolled back.
Rollback(c, answer) ==
    /\ pc' = [pc EXCEPT ![c] = answer]
    /\ side' = [side EXCEPT ![c] = "source"]
    /\ seen' = [seen EXCEPT ![c] = None]
    /\ work' = [work EXCEPT ![c] = NoWork]

\* Rows and index entries that d wrote and has not committed.
HoldsKey(d, k)     == work[d].open /\ Key(d) = k
HoldsAccount(d, a) == a \in work[d].accounts
HoldsBalance(d, a) == work[d].balance[a] # None

\* The next statement of c has to wait for d to commit or roll back.
WaitsFor(c, d) ==
    /\ c # d
    /\ \/ pc[c] = "create"  /\ HoldsKey(d, Key(c))
       \/ pc[c] = "resolve" /\ HoldsAccount(d, Account(c))
       \/ pc[c] = "write"   /\ HoldsBalance(d, Account(c))

Blocked(c) == \E d \in Calls : WaitsFor(c, d)

Using(d, a) == HoldsBalance(d, a) \/ (pc[d] = "write" /\ Account(d) = a)

-----------------------------------------------------------------------------
(* Initial state: no posting under these keys yet.  Entries of earlier     *)
(* postings, which cancel out, are left out.                               *)

Init ==
    /\ txn = [k \in Keys |-> IF k \in Leftover THEN "pending" ELSE "absent"]
    /\ entries = {}
    /\ accounts \in SUBSET Opened
    /\ balance = [a \in Accounts |-> IF a \in accounts THEN 0 ELSE None]
    /\ audited = {}
    /\ pc = [c \in Calls |-> "idle"]
    /\ side = [c \in Calls |-> "source"]
    /\ req = [c \in Calls |-> [key |-> None, posting |-> None]]
    /\ seen = [c \in Calls |-> None]
    /\ work = [c \in Calls |-> NoWork]
    /\ overlapped = {}

-----------------------------------------------------------------------------
(* One call: LedgerService.post_transaction and LedgerPoster.call.         *)

stored == <<txn, entries, accounts, balance, audited>>

\* validate_inputs!: only the amount can be wrong once the rest is fixed.
Receive(c, k, p) ==
    /\ pc[c] = "idle"
    /\ req' = [req EXCEPT ![c] = [key |-> k, posting |-> p]]
    /\ Go(c, IF p.amount > 0 THEN "find" ELSE "failed")
    /\ UNCHANGED <<stored, seen, work, overlapped>>

\* find_existing and existing_result: a posted row is the answer whatever
\* this call asks for.
FindExisting(c) ==
    /\ pc[c] = "find"
    /\ Go(c, CASE txn[Key(c)] = "posted"  -> "posted"
               [] txn[Key(c)] = "pending" -> "partial"
               [] txn[Key(c)] = "absent"  -> "create")
    /\ UNCHANGED <<stored, req, seen, work, overlapped>>

\* Mutant: a row that has entries is taken for complete.
MarkPartialPosted(c) ==
    /\ pc[c] = "partial"
    /\ Go(c, IF EntriesOf(Key(c)) # {} THEN "mark" ELSE "resolve")
    /\ UNCHANGED <<stored, req, seen, work, overlapped>>

\* complete_posting_for_existing!: a row with entries needs a human.
CheckPartial(c) ==
    /\ pc[c] = "partial"
    /\ Go(c, IF EntriesOf(Key(c)) # {} THEN "failed" ELSE "resolve")
    /\ UNCHANGED <<stored, req, seen, work, overlapped>>

\* Mutant: no unique index on the idempotency key.
CreateWithoutIndex(c) ==
    /\ pc[c] = "create"
    /\ Go(c, "resolve")
    /\ work' = [work EXCEPT ![c].open = TRUE]
    /\ UNCHANGED <<stored, req, seen, overlapped>>

\* The insert waits for a call that inserted the same key, and fails if that
\* one committed.
CreateLedgerTransaction(c) ==
    /\ pc[c] = "create"
    /\ ~Blocked(c)
    /\ IF txn[Key(c)] = "absent"
       THEN /\ Go(c, "resolve")
            /\ work' = [work EXCEPT ![c].open = TRUE]
            /\ UNCHANGED seen
       ELSE Rollback(c, "failed")
    /\ UNCHANGED <<stored, req, overlapped>>

\* Mutant: the transaction of a refused self-transfer is never ended.
RefuseAndForget(c) == pc' = [pc EXCEPT ![c] = "failed"] /\ UNCHANGED <<side, seen, work>>

\* validate_account_types!
SelfTransfer(c) == req[c].posting.source = req[c].posting.destination

RefuseSelfTransfer(c) == Rollback(c, "failed")

\* LedgerAccount.resolve for each side, then validate_account_types!.  With
\* equal sides the second one finds what the first one found.
ResolveLedgerAccount(c) ==
    /\ pc[c] = "resolve"
    /\ ~Blocked(c)
    /\ IF side[c] = "destination" /\ SelfTransfer(c)
       THEN RefuseSelfTransfer(c) /\ UNCHANGED <<accounts, entries, balance>>
       ELSE /\ NextSide(c, "resolve", "entry")
            /\ IF Account(c) \in accounts
               THEN UNCHANGED <<accounts, entries, balance, work>>
               ELSE Write(c, [work[c] EXCEPT !.accounts = @ \cup {Account(c)}])
            /\ UNCHANGED seen
    /\ UNCHANGED <<txn, audited, req, overlapped>>

\* create_double_entry!: one entry for each side.
CreateEntry(c) ==
    /\ pc[c] = "entry"
    /\ Write(c, [work[c] EXCEPT !.entries = @ \cup
            {[call |-> c, side |-> side[c], key |-> Key(c), account |-> Account(c),
              type |-> SideType(c), amount |-> Amount(c)]}])
    /\ NextSide(c, "entry", "read")
    /\ UNCHANGED <<txn, audited, req, seen, overlapped>>

\* update_balance!: find_or_initialize_by takes no lock.
ReadBalance(c) ==
    /\ pc[c] = "read"
    /\ seen' = [seen EXCEPT ![c] = balance[Account(c)]]
    /\ overlapped' = IF \E d \in Calls \ {c} : Using(d, Account(c))
                     THEN overlapped \cup {Account(c)} ELSE overlapped
    /\ Go(c, "write")
    /\ UNCHANGED <<stored, req, work>>

NewBalance(c) == (IF seen[c] = None THEN 0 ELSE seen[c]) + Signed(SideType(c), Amount(c))

\* Mutant: the balance is saved on a connection of its own.
SaveBalanceAtOnce(c) ==
    /\ balance' = [balance EXCEPT ![Account(c)] = NewBalance(c)]
    /\ UNCHANGED <<accounts, entries, work>>

SaveBalance(c) == Write(c, [work[c] EXCEPT !.balance[Account(c)] = NewBalance(c)])

\* The value computed from what was read replaces the row, whatever it holds
\* by now; a row read as missing is inserted and must still be missing.
WriteBalance(c) ==
    /\ pc[c] = "write"
    /\ ~Blocked(c)
    /\ IF seen[c] = None /\ balance[Account(c)] # None
       THEN Rollback(c, "failed") /\ UNCHANGED <<accounts, entries, balance>>
       ELSE /\ SaveBalance(c)
            /\ NextSide(c, "read", "mark")
            /\ seen' = [seen EXCEPT ![c] = None]
    /\ UNCHANGED <<txn, audited, req, overlapped>>

\* mark_as_posted! and the commit.  after_commit with on: :update runs only
\* for a row that existed before the transaction: for one created and updated
\* in the same transaction ActiveRecord reports a create.
MarkAsPosted(c) ==
    /\ pc[c] = "mark"
    /\ txn' = [txn EXCEPT ![Key(c)] = "posted"]
    /\ Publish(work[c])
    /\ work' = [work EXCEPT ![c] = NoWork]
    /\ audited' = IF work[c].open THEN audited ELSE audited \cup {Key(c)}
    /\ Go(c, "committed")
    /\ UNCHANGED <<req, seen, overlapped>>

AnswerPosted(c) ==
    /\ pc[c] = "committed"
    /\ Go(c, "posted")
    /\ UNCHANGED <<stored, req, seen, work, overlapped>>

Step(c) ==
    \/ FindExisting(c) \/ CheckPartial(c) \/ CreateLedgerTransaction(c)
    \/ ResolveLedgerAccount(c) \/ CreateEntry(c)
    \/ ReadBalance(c) \/ WriteBalance(c)
    \/ MarkAsPosted(c) \/ AnswerPosted(c)

-----------------------------------------------------------------------------
(* Failures.                                                               *)

\* Mutant: the rescue answers posted.
AnswerOfErrorPosted == "posted"
AnswerOfError       == "failed"

\* A statement fails, no connection is free, or the acknowledgement of the
\* commit is lost: the rescue clauses turn any exception into "failed".
StatementFails(c) ==
    /\ pc[c] \in Active
    /\ Rollback(c, AnswerOfError)
    /\ UNCHANGED <<stored, req, overlapped>>

\* The process is killed, or the client's connection is gone.
CallDies(c) ==
    /\ pc[c] \in Active
    /\ Rollback(c, "gone")
    /\ UNCHANGED <<stored, req, overlapped>>

\* PostgreSQL ends one of the transactions that wait for each other.
Deadlocked(c) ==
    \E D \in SUBSET Calls :
        /\ c \in D
        /\ \A d \in D : /\ \E e \in D : WaitsFor(d, e)
                        /\ \E e \in D : WaitsFor(e, d)

DeadlockDetected(c) ==
    /\ Deadlocked(c)
    /\ Rollback(c, AnswerOfError)
    /\ UNCHANGED <<stored, req, overlapped>>

-----------------------------------------------------------------------------
(* Specifications.                                                         *)

Next ==
    \E c \in Calls :
        \/ \E k \in Keys, p \in Postings : Receive(c, k, p)
        \/ Step(c)
        \/ StatementFails(c) \/ CallDies(c) \/ DeadlockDetected(c)

Spec == Init /\ [][Next]_vars

(* Every call has a thread the operating system schedules, the database    *)
(* serves a statement that is not blocked, and it looks for deadlocks.     *)
Fairness == \A c \in Calls : WF_vars(Step(c)) /\ WF_vars(DeadlockDetected(c))

FairSpec == Spec /\ Fairness

-----------------------------------------------------------------------------
(* Properties.                                                             *)

(* Every variable has its type.                                            *)
TypeOK ==
    /\ txn \in [Keys -> {"absent", "pending", "posted"}]
    /\ entries \subseteq Entry
    /\ accounts \subseteq Accounts
    /\ balance \in [Accounts -> Int \cup {None}]
    /\ audited \subseteq Keys
    /\ pc \in [Calls -> {"idle"} \cup Active \cup Answers]
    /\ side \in [Calls -> Sides]
    /\ req \in [Calls -> [key : Keys \cup {None}, posting : Postings \cup {None}]]
    /\ seen \in [Calls -> Int \cup {None}]
    /\ work \in [Calls -> Work]
    /\ overlapped \subseteq Accounts

\* The entries of a posting as bookkeeping wants them: whoever gives is
\* debited, whoever receives is credited, the cash account included.
Effect(p) == {[account |-> p.source,      type |-> "debit",  amount |-> p.amount],
              [account |-> p.destination, type |-> "credit", amount |-> p.amount]}

Plain(E) == {[account |-> e.account, type |-> e.type, amount |-> e.amount] : e \in E}

Asked(k) == {req[c].posting : c \in {d \in Calls : Key(d) = k}}

(* A posted transaction has one debit and one credit of the same amount,   *)
(* those some call asked for under its key, whatever calls raced, retried, *)
(* failed or died; a key without a posted transaction has no entry at all  *)
(* (LedgerPoster.call's transaction block, the unique index).              *)
DoubleEntry ==
    \A k \in Keys \ Leftover :
        IF txn[k] = "posted"
        THEN /\ Cardinality(EntriesOf(k)) = 2
             /\ \E p \in Asked(k) : Plain(EntriesOf(k)) = Effect(p)
        ELSE EntriesOf(k) = {}

(* Whether the row was new or left pending, it says posted only when one   *)
(* call wrote both sides of its posting (complete_posting_for_existing!).  *)
PostedIsComplete ==
    \A k \in Keys : txn[k] = "posted" =>
        \E c \in Calls :
            /\ Key(c) = k
            /\ Plain({e \in EntriesOf(k) : e.call = c}) = Effect(req[c].posting)

EntriesAt(a) == {e \in entries : e.account = a}
AmountOf(E)  == MapThenSumSet(LAMBDA e : Signed(e.type, e.amount), E)
EntrySum(a)  == AmountOf(EntriesAt(a))

Balance(a) == IF balance[a] = None THEN 0 ELSE balance[a]

\* Accounts with an entry that a completion wrote outside a transaction.
Completed == {e.account : e \in {d \in entries : d.key \in Leftover}}

(* The stored balance of an account is the sum of its committed entries,   *)
(* as long as no two calls were between reading and committing that        *)
(* balance at a time and no pending row of it was completed statement by   *)
(* statement (AccountBalance.update_balance!).                             *)
BalanceFollowsEntries ==
    \A a \in Accounts \ (overlapped \cup Completed) : Balance(a) = EntrySum(a)

Fresh == Keys \ Leftover

(* For the keys it finds fresh the ledger is the dependency that           *)
(* TransactionPosting counts on: it acts for a key once, with the entries  *)
(* of one call, and answers posted only then.                              *)
Abs == INSTANCE OutboundTask WITH
    Tasks     <- Fresh,
    Payloads  <- {Effect(p) : p \in Postings},
    NoPayload <- {},
    accepted  <- {k \in Fresh : \E c \in Calls : Key(c) = k},
    effect    <- [k \in Fresh |-> IF txn[k] = "posted" THEN Plain(EntriesOf(k)) ELSE {}],
    confirmed <- {k \in Fresh : \E c \in Calls : pc[c] = "posted" /\ Key(c) = k}

ImplementsOutboundTask == Abs!Spec

(* No call waits for ever, though transfers in opposite directions lock    *)
(* the same balances in opposite orders.                                   *)
EveryCallAnswered ==
    \A c \in Calls : pc[c] \in Active ~> pc[c] \in Answers

-----------------------------------------------------------------------------
(* Claims of the repository that the code does not keep.                   *)

(* "Update balance transactionally" (account_balance.rb:17).               *)
BalanceMatchesEntries == \A a \in Accounts : Balance(a) = EntrySum(a)

(* "Create both entries (must balance: one debit, one credit, same         *)
(* amount)" (ledger_poster.rb:214), also when a pending row is completed.  *)
PostedHasTwoEntries ==
    \A k \in Keys : txn[k] = "posted" => Cardinality(EntriesOf(k)) = 2

(* "append to audit-service after a ledger row is durably posted"          *)
(* (audit_append.rb:3), here once its call has answered.                   *)
PostedIsAudited ==
    \A c \in Calls : pc[c] = "posted" => Key(c) \in audited
=============================================================================
