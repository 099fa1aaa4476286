------------------------ MODULE TransactionHistory --------------------------
(***************************************************************************)
(* accounts-service: listing transactions with the balance after each      *)
(* (handlers/transactions.rs, services/transaction_service.rs).            *)
(*                                                                         *)
(* A listing reads transaction rows, newest first, then asks the ledger    *)
(* for the present balance of each account among them, and walks back:     *)
(* each older row is shown the balance less what the newer rows did, as    *)
(* far as their status says they are posted.  Rows and balances are two    *)
(* databases and change meanwhile: a posting (LedgerBalances) reaches the  *)
(* ledger before its row says so, and may be overwritten there.            *)
(*                                                                         *)
(* All transactions are of one organization and currency, all accounts of  *)
(* production; a transaction is a number, the later one created later, and *)
(* a list is the set of its rows: the numbers order it.                    *)
(* The rows in `Legacy` are older than the column environment: a migration *)
(* has given them the sandbox (20260216000001), and older accounts were    *)
(* given production (20240101000005), so no list shows these rows.  `book` *)
(* and `still` are history: what the ledger had posted when the rows were  *)
(* read, and whether the rows agreed with it and no posting or failed call *)
(* came before the last balance.                                           *)
(*                                                                         *)
(* A definition commented "Mutant" is used by no specification: it is the  *)
(* next definition with a plausible bug, and shows that a property notices.*)
(***************************************************************************)
EXTENDS LedgerBalances

CONSTANTS Legacy,     \* rows from before there were environments, now of the sandbox
          Listings,   \* HTTP requests
          Questions   \* what they may ask for

Question ==
    [op : {"account"}, account : Parties, limit : Nat]
    \cup [op : {"organization"}, page : Nat \ {0}, perPage : Nat \ {0}]
    \cup [op : {"transaction"}, id : Txns]

ASSUME NumbersAssumption   == Txns \subseteq Nat
ASSUME LegacyAssumption    == Legacy \subseteq Txns /\ \A t \in Legacy, u \in Txns \ Legacy : t < u
ASSUME QuestionsAssumption == Questions \subseteq Question

VARIABLES
    status,    \* the status of each transaction's row
    phase,     \* the next step of each listing; a status code once answered
    asked,     \* what it asks for
    rows,      \* the rows it read: the status of each
    balances,  \* the balances it read, Unread before
    listed,    \* its answer: one or two entries for each row
    book, still

historyVars == <<ledgerVars, status, phase, asked, rows, balances, listed, book, still>>

-----------------------------------------------------------------------------
RowStatuses == {"absent", "pending", "posted", "failed"}
Involves(t, a) == a \in {Payments[t].from, Payments[t].to}

\* Mutant: the recipient's balance goes down, too.
AlwaysPays(s, t, a) ==
    IF s # "posted" THEN 0
    ELSE IF Payments[t].kind = "deposit" THEN Payments[t].amount ELSE - Payments[t].amount

\* What the transaction did to the account, going by the row's status.
BalanceDelta(s, t, a) ==
    IF s # "posted" THEN 0
    ELSE CASE Payments[t].kind = "deposit"  -> Payments[t].amount
           [] Payments[t].kind = "withdraw" -> - Payments[t].amount
           [] Payments[t].kind = "transfer" -> IF Payments[t].from = a THEN - Payments[t].amount
                                               ELSE Payments[t].amount

NoRows == [t \in {} |-> "absent"]

HistoryInit ==
    /\ status = [t \in Txns |-> IF t \in Legacy THEN "posted" ELSE "absent"]
    /\ BalancesInit([h \in Holders |-> - Balance(Legacy, h)], Legacy)
    /\ phase = [l \in Listings |-> "rows"]
    /\ asked \in [Listings -> Questions]
    /\ rows = [l \in Listings |-> NoRows]
    /\ balances = [l \in Listings |-> [a \in Parties |-> Unread]]
    /\ listed = [l \in Listings |-> {}]
    /\ book = [l \in Listings |-> {}]
    /\ still = [l \in Listings |-> FALSE]

-----------------------------------------------------------------------------
(* The transactions.                                                       *)

unchangedListings == <<phase, asked, rows, balances, listed, book>>

Create(t) ==
    /\ status[t] = "absent"
    /\ status' = [status EXCEPT ![t] = "pending"]
    /\ UNCHANGED <<ledgerVars, still, unchangedListings>>

\* The ledger posts a transaction, perhaps by a call the row has given up on.
LedgerBooks(t) ==
    /\ CommitPosting(t)
    /\ still' = [l \in Listings |-> still[l] /\ phase[l] # "balances"]

LedgerWorksOn(t) ==
    /\ status[t] # "absent"
    /\ \/ WorkOn(t) /\ UNCHANGED still
       \/ LedgerBooks(t)
    /\ UNCHANGED <<status, unchangedListings>>

\* The row is given its outcome; a late answer may find it failed already.
RecordOutcome(t) ==
    /\ \/ /\ status[t] \in {"pending", "failed"} /\ t \in booked
          /\ status' = [status EXCEPT ![t] = "posted"]
       \/ /\ status[t] = "pending"
          /\ status' = [status EXCEPT ![t] = "failed"]
    /\ UNCHANGED <<ledgerVars, still, unchangedListings>>

-----------------------------------------------------------------------------
(* The listings.                                                           *)

unchangedTransactions == <<status, ledgerVars>>

RowsAgree == \A t \in Txns : status[t] = "posted" <=> t \in booked

\* The rows the queries can return: of one environment.
Listable == {t \in Txns \ Legacy : status[t] # "absent"}

\* ORDER BY created_at DESC LIMIT n OFFSET from
Limited(set, from, n) ==
    {t \in set : Cardinality({u \in set : u > t}) \in from .. from + n - 1}

Found(q) ==
    CASE q.op = "account"      -> Limited({t \in Listable : Involves(t, q.account)}, 0, q.limit)
      [] q.op = "organization" -> Limited(Listable, (q.page - 1) * q.perPage, q.perPage)
      [] q.op = "transaction"  -> {t \in {q.id} : status[t] # "absent"}

\* find_by_account_id, find_by_organization_id_paginated or find_by_id; a
\* single transaction that is not there is answered 404.
ReadRows(l) ==
    /\ phase[l] = "rows"
    /\ \/ /\ rows' = [rows EXCEPT ![l] = [t \in Found(asked[l]) |-> status[t]]]
          /\ book' = [book EXCEPT ![l] = booked]
          /\ still' = [still EXCEPT ![l] = RowsAgree]
          /\ phase' = [phase EXCEPT ![l] = IF asked[l].op = "transaction" /\ Found(asked[l]) = {}
                                           THEN "404" ELSE "balances"]
       \/ phase' = [phase EXCEPT ![l] = "500"] /\ UNCHANGED <<rows, book, still>>
    /\ UNCHANGED <<asked, balances, listed, unchangedTransactions>>

\* The accounts that are shown with a row; of a transfer both, when the list
\* is of an organization.
Shown(l, t) ==
    CASE asked[l].op = "account"       -> {asked[l].account}
      [] asked[l].op = "organization"  -> {Payments[t].from, Payments[t].to}
      [] asked[l].op = "transaction"   -> {Payments[t].from}

\* The accounts whose balances the answer needs.
Needed(l) == UNION {Shown(l, t) : t \in DOMAIN rows[l]}

\* get_account_balance, 0 when it fails.
ReadBalance(l, a) ==
    /\ phase[l] = "balances" /\ a \in Needed(l) /\ balances[l][a] = Unread
    /\ \/ balances' = [balances EXCEPT ![l][a] = Display(stored[a])] /\ UNCHANGED still
       \/ /\ balances' = [balances EXCEPT ![l][a] = 0]
          /\ still' = [still EXCEPT ![l] = FALSE]
    /\ UNCHANGED <<phase, asked, rows, listed, book, unchangedTransactions>>

\* What the rows r newer than t did to the account.
Undone(r, t, a) ==
    MapThenSumSet(LAMBDA u : BalanceDelta(r[u], u, a),
                  {u \in DOMAIN r : u > t /\ Involves(u, a)})

\* The present balance of account a, walked back to row t.
WalkBack(l, t, a) == balances[l][a] - Undone(rows[l], t, a)

Entries(l, t) == {[id |-> t, status |-> rows[l][t], account |-> a, balance |-> WalkBack(l, t, a)] :
                  a \in Shown(l, t)}

Respond(l) ==
    /\ phase[l] = "balances" /\ \A a \in Needed(l) : balances[l][a] # Unread
    /\ listed' = [listed EXCEPT ![l] = UNION {Entries(l, t) : t \in DOMAIN rows[l]}]
    /\ phase' = [phase EXCEPT ![l] = "200"]
    /\ UNCHANGED <<asked, rows, balances, book, still, unchangedTransactions>>

ListTransactions(l) == ReadRows(l) \/ (\E a \in Parties : ReadBalance(l, a)) \/ Respond(l)

HistoryNext ==
    \/ \E t \in Txns : Create(t) \/ LedgerWorksOn(t) \/ RecordOutcome(t)
    \/ \E l \in Listings : ListTransactions(l)

HistorySpec == HistoryInit /\ [][HistoryNext]_historyVars

-----------------------------------------------------------------------------
(* Properties.                                                             *)

\* Every variable has its type.
HistoryTypeOK ==
    /\ status \in [Txns -> RowStatuses]
    /\ stored \in [Holders -> Int]
    /\ booked \subseteq Txns
    /\ loaded \in [Txns -> [Holders -> Int \cup {Unread}]]
    /\ overlapped \subseteq Holders
    /\ phase \in [Listings -> {"rows", "balances", "200", "404", "500"}]
    /\ asked \in [Listings -> Questions]
    /\ \A l \in Listings :
          /\ DOMAIN rows[l] \subseteq Txns
          /\ \A t \in DOMAIN rows[l] : rows[l][t] \in RowStatuses \ {"absent"}
          /\ \A e \in listed[l] : e.balance \in Int
    /\ balances \in [Listings -> [Parties -> Int \cup {Unread}]]
    /\ book \in [Listings -> SUBSET Txns]
    /\ still \in [Listings -> BOOLEAN]

\* Every posted transaction is shown the balance its account had once it and
\* everything listed after it, the older ones, were posted.  Of an account
\* that two postings have worked on at once, the stored balance itself may
\* be wrong.
Right(l) ==
    \A e \in listed[l] :
        e.status = "posted" /\ e.account \notin overlapped =>
            e.balance = Balance({t \in book[l] : t <= e.id}, e.account)

Newest(l) == asked[l].op = "account" \/ (asked[l].op = "organization" /\ asked[l].page = 1)

\* The list of an account and the first page of an organization's show the
\* right balances, whatever their length, whatever is pending or failed, and
\* in whatever order the transactions were posted, when the rows agreed with
\* the ledger, it posted nothing meanwhile, and no two postings of the account
\* were ever at work at once (list_account_transactions, list_transactions).
NewestAreRight == \A l \in Listings : phase[l] = "200" /\ still[l] /\ Newest(l) => Right(l)

-----------------------------------------------------------------------------
(* What the repository says and the code does not do.                      *)

\* "Compute historical balance_after per transaction (same logic as
\* list_account_transactions)" (handlers/transactions.rs:177): on any page.
EveryPageIsRight ==
    \A l \in Listings :
        phase[l] = "200" /\ still[l] /\ asked[l].op = "organization" => Right(l)

\* "account balance in cents after the transaction (from Ledger)"
\* (models/transaction.rs:191): of a single transaction.
OneIsRight ==
    \A l \in Listings :
        phase[l] = "200" /\ still[l] /\ asked[l].op = "transaction" => Right(l)

\* "include legacy transactions (NULL environment)"
\* (services/transaction_service.rs:30): those of the account are listed,
\* whatever environment a migration has given them since.
LegacyListed ==
    \A l \in Listings :
        phase[l] = "200" /\ asked[l].op = "account" /\ Cardinality(listed[l]) < asked[l].limit =>
            \A t \in Legacy : Involves(t, asked[l].account) =>
                \E e \in listed[l] : e.id = t
=============================================================================
