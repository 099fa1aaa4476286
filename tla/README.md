# Formal model of Rails Core

Rails Core is a set of four services behind an nginx gateway that keep customer
accounts and move money between them.  This directory holds TLA+ modules for the
parts whose correctness depends on the order of steps of several processes, TLC
configurations that check them on small instances, and proofs that TLAPS checks.
`PROJECT.json` maps every definition to the lines it models, and lists the runs,
the mutants that show that each property can fail, the hazards and the theorems.

## The system

| Part | State | Operations | Talks to |
|---|---|---|---|
| accounts-service (Rust): outbox | `transactions`: status, retry columns, unique (organization, environment, idempotency key) | deposit, withdraw, transfer (HTTP); retry worker; reconciler | ledger over gRPC, its own PostgreSQL |
| accounts-service: overdraft check | none of its own: it reads the ledger's balance before the row exists | check, balance of the answer | ledger |
| accounts-service: accounts | `accounts` | create, change status, close | users-service over gRPC |
| accounts-service: lists | none: reads two databases | transactions of an account or an organization, one transaction, accounts | ledger |
| ledger-service (Rails) | `ledger_transactions`, `ledger_entries` (immutable), `ledger_accounts`, `account_balances` | PostTransaction, GetAccountBalance(s) | PostgreSQL, audit-service |
| users-service (Rust): authentication | `user_sessions`, `password_reset_tokens`, passwords | login, refresh, revoke, request a reset, reset | PostgreSQL, e-mail, audit-service |
| users-service: tenancy | businesses, environments, users, API keys, beta applications | register, create user, issue, list and revoke keys, validate a key and resolve a user (gRPC), apply | PostgreSQL, audit-service |
| rate limiters (users-, accounts-service) | a window per client in memory | allow | - |
| audit-service (Rust) | append-only `audit_events` | AppendAuditEvent (gRPC), append and paged query (HTTP) | users-service for authentication |
| gateway, Docker, scripts | configuration | - | - |

What is hard, and what makes each part correct:

* **Outbox.** HTTP handlers, one retry worker per replica and one reconciler per
  replica write the same rows with independent SQL statements; between claiming
  a row and recording the ledger's answer nothing is locked and the final UPDATE
  does not look at the status.  Calls time out after the ledger committed,
  replicas crash with claimed rows.  Correct means: success is reported only for
  what the ledger did, the ledger acts once per key, nothing hangs.
* **Ledger.** Calls run concurrently under READ COMMITTED.  Correct means: a
  transaction is posted completely or not at all, once per key, with balanced
  entries; balances equal the sum of entries.
* **Overdraft.** The check reads the ledger before the row exists and reserves
  nothing; two requests can pass it together.  The balance it reads may later be
  overwritten by a posting that read an older one.
* **Account lifecycle.** Check-then-act on the number of accounts of a type, on
  a drawn account number and on the closed status.
* **Lists.** Pages are separate queries, rows are inserted between them, and
  balances come from another database than the rows.
* **Sessions and reset tokens.** Check-then-act across statements, row locks
  taken in different orders, answers lost after the COMMIT.
* **Businesses and keys.** Uniqueness under racing registrations, a key revoked
  while it is in use, headers that name somebody else's environment.
* **Rate limiter.** Windows that meet, clients behind a proxy that may put
  anything into the headers.
* **Audit.** Reports are sent after the commit, once, with a deadline: they are
  late, lost, or die with the process; the store is append-only.

## Modules

| Module | Models | Theorems in |
|---|---|---|
| `OutboundTask` | what `docs/outbound-reliability-contract.md` promises of an outbound side effect: durable first, performed at most once, confirmed only afterwards | - |
| `TransactionPosting` | the outbox of accounts-service with its callers and the ledger as they see it; implements `OutboundTask` | `TransactionPostingProofs` |
| `LedgerPosting` | PostTransaction inside ledger-service, down to its SQL statements; implements `OutboundTask` too | `LedgerPostingProofs` |
| `LedgerBalances` | how postings read and overwrite the stored balances, as accounts-service sees it; extended by the next two | `BalancesAndListsProofs` |
| `Overdraft` | the overdraft check against the ledger, and the balance answered | `BalancesAndListsProofs` |
| `TransactionHistory` | lists of transactions with the balance after each | `BalancesAndListsProofs` |
| `Accounts` | creation, status changes, and what money requests read of an account | `AccountsProofs` |
| `Paging` | the paged lists of accounts, transactions and audit events | `BalancesAndListsProofs` |
| `Authentication` | sessions and password resets of one user | `AuthenticationProofs` |
| `Tenancy` | businesses, users, API keys and their validation, beta applications | `TenancyProofs` |
| `ClientKey`, `RateLimiter` | the key a request is counted under, and the window counter (extends `ClientKey`) | `LimiterAndTrailProofs` |
| `AuditTrail` | reports of mutations, audit-service's validation and store | `LimiterAndTrailProofs` |
| `Sums` | no code: what a sum over a finite set is | itself |
| `MC...` | instances of each for TLC | - |

How they compose.  `TransactionPosting` and `LedgerPosting` meet in
`OutboundTask`: the first has the ledger as an external party that acts at most
once per key and answers ok only when it acted; the second shows that the
ledger's code keeps that promise.  `Overdraft` and `TransactionHistory` share
`LedgerBalances`, the part of `LedgerPosting` that decides what a stored balance is:
reads without a lock, writes that overwrite, row locks until the end of the
transaction.  The other modules each take one concern of the
same requests and reduce what a neighbour has to one step: in `Accounts` a
transaction row is an `intent` that is posted somehow, in `Overdraft` a row
has one caller at a time, in `TransactionHistory` a row gets its outcome some time after the
ledger acted, `AuditTrail` has the work of a handler as one step with an outcome.
Sessions are `Authentication`'s; `Tenancy` has requests that carry one.

A module's last section, where it has one, states claims of the repository (a
comment, a doc, an error text) that the code does not keep: see "Divergences".
Definitions commented "Mutant" are used by no specification; `PROJECT.json` names
the property each of them breaks.

## TransactionPosting

### State

`tx[k]` is the row of key `k` (`models/transaction.rs`).  Timestamps become
flags: `waiting` (next_retry_at in the future), `stale` (updated_at older than
the posting lease), `age` (created_at under two seconds, over, or over the
maximum pending age), `terminal` (terminal_failure_at set).  Each comparison with
the clock in the SQL is a flag, and the time actions (`LeaseExpires`,
`BackoffElapses`, `RowAges`) set them in any order, so no real duration is
assumed and the length of a back-off (`compute_retry_delay_ms`) does not matter.
The one exception is `LeaseOutlastsCall`: the defaults make the lease (600 s)
longer than one ledger call (60 s), so with TRUE the lease of a row a handler has
claimed cannot expire during its call.  A worker's rows are stamped when their
batch of up to 200 is claimed, so theirs may expire at any time, also during their
own call, when the calls before it were slow.

`hpc`/`hreq` are the HTTP requests, `wpc`/`batch` the retry workers with the rows
they claimed, `sweep` the reconciler's next statement, `call` the ledger call each
caller has in flight, `orphans` the calls whose caller has gone.  `ledger[k]` is
what the ledger posted for `k`.  `reclaimed` and `faults` are history: keys whose
lease was ever taken away, and the number of crashes and failed updates.

### Actions

One action per SQL statement or call (see `map` in `PROJECT.json`):

* requests: `StartRequest` (validation passed), `FindByIdempotency`,
  `CheckBalance`, `CreateOrGetByIdempotency`, `TryClaimPendingForPost` (claim and
  send), `FindById`, `RecordOutcome`; `HandlerFails` is every `?`,
  `HandlerVanishes` a dropped connection or a crash;
* worker: `ReclaimStalePostingRows`, `ClaimPendingTransactions`,
  `PostNextClaimed`, `RecordPostResult`; `RecordFails` is the ignored result of
  the last update, `WorkerCrashes` a restart of the replica;
* reconciler: `ReconcileRequeue`, `ReconcileFail`;
* ledger and network: `LedgerPosts`, `LedgerRejects`, `CallTimesOut` (before or
  after the commit), `OrphanPosts`, `OrphanIsLost`.

Abstractions: the overdraft check is its verdict; several reconcilers are one,
since each sweep is two independent statements; the claim's LIMIT of 200 is above
the number of keys; retry_count stops one above the maximum; the worker's branch
for rows without an environment is dead since the column became NOT NULL
(`migrations_accounts/20260216000001`).

### Properties

| Property | Says |
|---|---|
| `PostedIsOnLedger` | a posted row has its transaction on the ledger |
| `ConfirmedIsOnLedger` | 200 is answered only for what the ledger holds |
| `ExclusiveUntilReclaimed` | until a lease of the key is taken away, one handler or worker holds it, and its row says posting |
| `FinalUntilReclaimed` | posted and failed are final until then |
| `TerminalStampMatches` | terminal_failure_at is set exactly on failed rows until then |
| `AttemptsBounded` | the retry worker stays within the maximum, nothing untried fails |
| `ImplementsOutboundTask` | the outbox implements `OutboundTask` |
| `EverySettles` | every row ends posted or failed and stays so |
| `EveryRequestAnswered` | every request gets an answer |

`ExclusiveUntilReclaimed`, `FinalUntilReclaimed` and `TerminalStampMatches` name
the exact condition under which they hold: once a lease has been taken away the
unconditional updates break all three (see "Divergences").

### Runs

* `posting_contention`: 1 key, deposit and withdraw, 2 requests, 1 worker,
  1 attempt, 1 fault, lease of any length: safety and the refinement.
* `posting_replicas`: 1 key, 1 request, 2 workers, 2 attempts, 1 fault: liveness
  and bounded attempts.

Why the bounds are enough: keys interact only through a worker's batch; a claim
involves two parties, and two requests with a worker and the reconciler give
every pair; one attempt reaches the maximum and two show the back-off between
attempts; one fault suffices to strand a row, and liveness asks only that faults
be finite.  `MCTransactionPosting_batch.cfg` has two keys in one batch.  The
theorems have no such bounds.

Fairness (`Fairness`): tokio polls each task that can run, so each request, each
worker loop and the reconciler loop is weakly fair; time passes; a ledger call
ends at its client-side timeout at the latest.  Nothing is assumed of the ledger:
it may refuse or ignore every call.

## LedgerPosting

### State

`txn`, `entries`, `accounts` and `balance` are the committed rows of
`ledger_transactions`, `ledger_entries`, `ledger_accounts` and
`account_balances`; `work[c]` is what call `c` wrote in its open transaction;
`pc`, `side` and `req` are where the call is in `LedgerPoster#call`, for which
side of the posting, and what it was asked; `seen` is the balance it has read and
not yet written back.  `audited` is the keys for which the audit event was
emitted.  `overlapped` is history: accounts whose balance two calls were working
on at a time.

### Actions

One action per SQL statement: `Receive` (validation), `FindExisting`,
`CheckPartial`, `CreateLedgerTransaction`, `ResolveLedgerAccount` (source, then
destination, then the refusal of a self-transfer), `CreateEntry` (twice),
`ReadBalance` and `WriteBalance` (for each side), `MarkAsPosted` (with the
commit), `AnswerPosted`.  `StatementFails` is any exception, `CallDies` a killed
process, `DeadlockDetected` PostgreSQL ending one transaction of a cycle.

The database is READ COMMITTED: reads see committed rows and never wait; an
insert waits for an uncommitted one with the same unique key, an update for an
uncommitted write of the same row (`WaitsFor`).  When the other transaction has
ended, the insert fails on a duplicate and the update overwrites the row.  A
pending row found for the key is completed outside any transaction, as the code
does: `Write` then publishes each statement at once.

Abstractions: one organization, environment and currency (every query filters on
them); `SYSTEM_CASH_CONTROL` is the only system account, since no caller names
another; the loser of a race for a ledger account reads the winner's row (the
lock that read takes is left out, it blocks only other losers); of the audit
event only whether the hook runs.  Amounts and balances are unbounded integers.
`Opened` accounts have a row whose balance is 0, as earlier postings that cancel
out leave it; the entries of those are left out.  `Leftover` keys have a pending
row: `LedgerPoster` never commits one, so the runs with one ask what the code
would do with rows of another origin, which `complete_posting_for_existing!`
exists for.

### Properties

| Property | Says |
|---|---|
| `DoubleEntry` | of the keys without a leftover row, a posted one has one debit and one credit of the amount one of its calls asked for, any other has no entries |
| `PostedIsComplete` | a row, left pending or new, says posted only when a single call wrote both sides |
| `BalanceFollowsEntries` | the balance of an account is the sum of its entries, if no two calls worked on it at a time and no leftover row was completed on it |
| `ImplementsOutboundTask` | for the keys without a leftover row (`Fresh`) the ledger acts at most once and answers posted only when it has |
| `EveryCallAnswered` | every call ends, though postings lock balances in opposite orders |

`BalanceFollowsEntries` names the exact condition under which it holds; the run
`lost_update` shows that it fails without it.

### Runs

* `ledger_calls`: 2 calls, two new keys and one left pending, cash and one customer
  open, another new, every kind of posting (deposit, withdrawal, transfers both
  ways, a self-transfer, an amount of 0).
* `lost_update`: the same without a leftover row; violated: a balance loses a
  posting.

Why the bounds are enough: keys meet only at the unique index, and two calls
have one key or two, new or not; accounts meet only at rows both calls write,
and every pair of postings that shares one, both, or the two in opposite orders
is among them; a cycle of waits takes two calls with new keys. The theorems have
no such bounds.

`CHECK_DEADLOCK FALSE`, here and in the modules below: each request is served
once, so the system stops when all are answered.  That none stops earlier is
`EveryCallAnswered`.

Fairness: every call has a thread (`GRPC::RpcServer`), the database serves a
statement that is not blocked (weak fairness of `Step`), and it detects
deadlocks (weak fairness of `DeadlockDetected`: a cycle of waits persists until
one of its transactions is ended).  Failures have no fairness.

## LedgerBalances

State: `stored` are the rows of `account_balances`, debits positive, of every
customer account and of the cash account; `booked` are the transactions the ledger
has posted; `loaded[t]` is what the open posting of `t` has read of its two
accounts.  History: `overlapped`, the accounts where two postings were at work at
once, from the read of the balance to the commit.

Actions: `BeginPosting` (the rows of the transaction, then the read of the source's
balance), `WriteSource` (its write, which takes the row lock, and the read of the
destination's), `CommitPosting` (the write of the destination and the COMMIT),
`RollBackPosting` (an error, a death, or the end of a deadlock).  A write stores what
was read plus or minus the amount (`AccountBalance.update_balance!`), so of two
postings that both read an account before either commits, the second loses the
effect of the first there.  Deposits write the cash account first, which locks it: of
two, the second reads the customer's balance after the first has committed, and may
overwrite only the cash account's.  Any other two postings of a customer's account
may overwrite each other there.

Left to `LedgerPosting`: the other statements, several calls with one key (its
lock of the key's row leaves one at work), rows left pending.  Assumed: every
account has its balance row (the INSERT of the first one, with its unique index, is
in `LedgerPosting`).

## Overdraft

State: the ledger's is `LedgerBalances`' (`Display` negates a balance, as
`negate_ledger_balance_for_display` does); `row[k]` is the transaction row; `pc`,
`key`, `shown` are a request, its key and the balance it answers; `sent` the keys the
ledger was ever called for, `claimed` those the retry worker is calling for.  A call
may arrive at any time after it was sent, or never, and nothing leaves `sent`: that
allows more than the ledger can do, which the properties bear.  History:
`undercut[a]` counts the postings that left an account with less than its credits
and what it had before: its debits, and those that overwrote another posting there.
A request's and a row's `mark` is that count when the check read the balance,
`after[k]` the payer's balance right after the posting.

Actions: `FindByIdempotency` (an existing row skips the check), `CheckBalance`
(one read of the ledger), `CreateOrGetByIdempotency`,
`ResolveImmediateLedgerPost` (claim, or find the row taken or done),
`HandlerPosts` (the call), `LedgerWorks` (the steps of a posting, `LedgerPosts` its
commit), `HandlerRecords` (the outcome of the call, which may have been refused,
lost or too late), `Answer` (a second read of the balance), `RetryWorkerPosts`,
`RetryWorkerRecords`, `RetryWorkerGivesUp`.  The ledger never refuses a debit for
want of funds.

| Property | Says |
|---|---|
| `BalancesAddUp` | a balance is the opening amount and each posted transaction once, whatever was retried or lost, unless two postings of the account were at work at once |
| `OverdraftTakesRival` | a debit overdraws its account only if, since its own check read the balance, another debit of the account was posted or a posting of another transaction was overwritten there |

Both conditions are needed.  Without the first, a deposit and a transfer that read
one balance leave less than the sum, as in `lost_update` of `LedgerPosting`.  With
rival debits alone for the second, TLC has a deposit counted by the check of a
withdrawal and then overwritten by a transfer to the account that began before it.

Run `overdraft_payments`: 3 requests with any of 4 keys - transfers of all there is
in both directions, a deposit, a withdrawal that needs the deposit.  After the
deposit two debits race, or the transfer to the account overwrites it: three
postings either way.  Where two suffice, the third request retries one of the keys.
The run's `View` leaves out what nothing reads any more (`after`, `shown`, the key
of an answered request, a mark that is in its row): remove it to check
`BalanceAfterIsAfter`.

## Accounts

State: `account[i]` is the row of an id, `intent[r]` the transaction row of a
money request, `pc`, `req`, `tries`, `number` are where a request is, what it
asks, the draws it has left and the number it drew.  History: `earlier[r]`, the
requests answered before a create counted, and `since[r]`, the statuses seen
while the request was served.

Actions: create is `ResolveUser`, `CountByUserAndType`, `GenerateAccountNumber`
(up to `MaxRetries` draws), `Insert` (the unique index on the number); a status
change or close is `FindById` with its check, then the unconditional
`UpdateStatus`; a money request is `CheckActive` for one or two accounts,
`CreateIntent`, `PostNow`, or `PostLater` by the retry worker.

| Property | Says |
|---|---|
| `SecondAccountTakesOverlap` | a create that counted after another of the same user and type was answered adds no second account |
| `ReopenedOnlyByOverlap` | a closed account is reopened only by a request that arrived while it was open |
| `MoneyNeedsActiveAccounts` | money moves only between accounts that were each active while the request was served |
| `NumbersUnique`, `TypeOK` | proved; not in the listed run |
| `EveryRequestAnswered` | in `MCAccounts_answered.cfg` |

Run `accounts_requests`: 3 requests of one user who has a saving account, 3 ids,
3 numbers, 2 draws, every operation.  Each hazard takes two overlapping requests;
the third changes the account between their statements.  Fairness (`FairSpec`):
each request is a task of its own; no statement waits for another request.

## TransactionHistory

State: `status` are the transaction rows; the ledger is `LedgerBalances`', another
database: it posts first, the row tells so later (`LedgerBooks`, `RecordOutcome`).
`phase`, `asked`, `rows`, `balances`, `listed` are a listing, what it asks, the
rows and balances it has read and its answer.  A transaction is a number, the
later one created later, so a list is the set of its rows (`Limited` takes those
with so many newer ones) and the number orders it.  History: `book` is the ledger
when the rows were read, `still` whether rows and ledger agreed and nothing was
posted, and no balance call failed, until the last balance.

Actions: `LedgerWorksOn` (the steps of a posting, `LedgerBooks` its commit),
`ReadRows` (with its status codes), `ReadBalance` per account (the stored balance; 0
when the ledger does not answer), `Respond` with the walk back (`BalanceDelta`,
`Undone`, `WalkBack`).  An account of another environment (404) is left out.

`NewestAreRight`: the list of an account, or the first page of an organization,
shows for every posted row the balance the account had then, whatever is pending
or failed among the rows and in whatever order they were posted, if `still`, of
every account no two postings of which were ever at work at once.  That condition
is about all of the account's past: an update lost at any time shifts every balance
the walk back shows from then on.

Run `history_newest`: a deposit from before environments (`Legacy`: a migration
made such rows sandbox rows and older accounts production accounts, so that no
list shows them, while the ledger's balance counts them), a deposit, a transfer
and a withdrawal over two accounts, with limits of 2 and a page of 100. The amounts
are powers of two, so that no two sums agree. One listing is enough: listings write
nothing, and what follows its answer changes nothing said of it (`Unanswered`).

## Paging

State: `table` are the rows, `stage`, `page`, `query`, `total` a client's walk.
History: `had`, `got`, `twice`, `fresh`: the rows there were at the start, those
shown, whether one was shown again, whether its list grew.

Actions: `Insert` (a row may belong anywhere in the order, its time is taken
before it is committed), `Begin` and `Continue` (the client), `CountRows`,
`SelectPage` (two statements), `Fail`.  `PerPage`, `AtLeastOne` and `Offset` are
the defaults, limits and arithmetic of the parameters; the offset is computed in
32 bits (`Wrap`).  Filters other than organization and environment are left out.
The client stops at a short page; one that stops at total_pages may miss rows
inserted meanwhile, and one that asks for a page so large that the offset wraps
gets an earlier page.  `TableAssumption`: a table has fewer rows than the 2^32 at
which the offset of a walk would wrap.

| Property | Says |
|---|---|
| `WalkIsComplete` | a walk shows every row there was when it began |
| `RepeatTakesInsert` | a row is shown twice only if one was inserted |
| `TotalIsOfTheList` | the total is the number of rows at some moment of the walk |

Run `paging_lists`: 4 rows, 2 times, 2 environments, pages of 1 and 2: ties of
time on both sides of a page boundary, insertions before, on and after it, and
rows of the other environment among them.

## Authentication

State: `session`, `token`, `password` are the committed rows; `mailed` the tokens
that reached the user; `pc`, `req` a request's next statement and what it
presents; `seen` the rows its running UPDATE has picked and not yet locked,
`held` those it has locked.  History: `maker`, `committed`, `gone[r]` (what was
unusable when `r` arrived), `finished[r]` (what was answered then).

Actions, one per statement: login (`CheckPassword`, `InsertSession`), refresh
(`FindSession`, `ReplaceSession`, `CommitRefresh`), revocation
(`FindActiveSession`, `UpdateSession`, `FinishRevoke`), a reset request
(`FindUser`, `InvalidateTokens`, `InsertToken`, `SendMail`, `FindBusiness`), a
reset (`ClaimToken`, `UpdatePassword`, `InvalidateOtherTokens`, `RevokeSessions`,
`CommitReset`).  `Lock` takes a row or skips one that no longer matches;
`SessionExpires`, `TokenExpires`, `StatementFails` (with the COMMIT whose answer
is lost) and `DeadlockDetected` complete it.  One user; the environment a login
selects is left out.

| Property | Says |
|---|---|
| `TokenUsedOnce` | a reset token sets one password, whatever resets race for it and whatever answers are lost |
| `SpentStaysSpent` | what was revoked, used, replaced, expired or reset before a request arrived does not serve it |
| `OutlivesResetOnlyByOverlap` | a session outlives a reset only if its login or refresh was not yet answered when the reset arrived |
| `TwoUsableTokensTakeOverlap` | two usable tokens come from overlapping requests |
| `EveryRequestAnswered` | no request waits for ever, though resets lock tokens and the user in different orders |

Run `auth_requests`: 2 requests of any kind, 1 session and 2 tokens at the start,
so that two resets meet with one token or lock two in opposite orders.  With 3
requests each half is checked alone: `MCAuthentication_sessions.cfg`,
`MCAuthentication_resets.cfg`.  Fairness: the runtime polls each request,
PostgreSQL serves statements that are not blocked and finds deadlocks.

## Tenancy

State: `businesses`, `users`, `keys`, `applications` are the tables; `ctx[r]` is
the business and environment a request was authenticated for.  History:
`revoked[r]`, the keys revoked when `r` arrived.

Actions: `CheckEmail`, `InsertBusiness` (business, environments, admin: one
transaction), `InsertSession`; `FindKey`, `FindEnvironment`, `InsertUser`;
`FindAdmin` and `ResolveUser` (gRPC); `Authenticate`, `CheckRole`, `InsertKey`,
`UpdateKey`, `ListApiKeys`, `Me`; `CheckApplication`, `InsertApplication`;
`StatementFails`.  A request may name any environment of any business.  Names and
passwords are left out: a lookup by name may fail at will.  AuthContext's check
of an API key is that of ApiKeyOnlyContext.

| Property | Says |
|---|---|
| `TenantsApart` | a user, its environment, its key and the key's maker are of one business |
| `RevokedKeyIsDead` | a key revoked before a request arrived gets nothing done |
| `RevokedOnce` | one request revokes a key, for an admin's business |
| `AnswersMatchRows` | 409 names a taken address; an answered registration has its rows |
| `OneUserPerEmail`, `OneApplicationPerEmail`, `TypeOK` | proved; not in the listed run |

Run `tenancy_requests`: 2 businesses, one with a key, 3 requests, 3 addresses,
2 keys.  The constraint `OneGroup` keeps a behaviour's requests among endpoints
that share rows; `TenancyProofs` has neither that bound nor the others.

## ClientKey and RateLimiter

`ClientKey` is `extract_client_key` as operators; `SkipsInvalid` selects the copy
of users-service (TRUE) or accounts-service.  The list `parse_forwarded_for` returns
is the set of the positions of the entries it keeps: the position is the order.
`RateLimiter` has `now`, the window (`start`, `count`) per client, and what became
of each request (`verdict`); `at`, `win`, `refusedAt` are history.  `Admit` and
`Refuse` are the middleware with `allow` under its mutex, `Tick` the clock,
`Restart` the loss of the store.  Each process counts for itself.

| Property | Says |
|---|---|
| `LessThanTwiceMax` | in any stretch as long as a window a client gets less than two windows' requests |
| `RefusedOnlyWhenFull` | a client is refused only after a full window's requests within a window's length |
| `KeyIsClient` | clients behind a proxy are counted under their own address, whatever they put into the header |

Run `rate_requests`: 5 requests (one more than two windows of 2) of two clients
over three window lengths, and one request with every header of up to three
entries.  The restriction to these two kinds of behaviour is the initial
predicate of the run with the constraint `Bounded`.  The copy of users-service:
`MCRateLimiter_users_keys.cfg`.

## AuditTrail

State: a request (`pc`, `asked`, `status`, `committed`), its report (`task`,
`event`), the call at audit-service (`call`), the HTTP appends (`append`), the
table (`rows`).  `stamp` is occurred_at, by one clock that gives no time twice.
History: `earlier`.

Actions: `Work` (the handler, with what it came to), `Emit` (the event that
`emit_users_mutation` and `emit_accounts_mutation` build and send, with
`TruncateReason` and `OutcomeFromStatus`), `Reply`, `Deadline`, `Answer`
(users-service awaits the report, accounts-service spawns it), `Crash`;
`ValidateAuditEvent`, `InsertAuditEvent` (which may fail, or succeed with its
answer lost), `LoseCall`; `HttpAppend`.  Checks no emitter can fail (schema
version, UUIDs, blank fields) are left out, and so is the allowlist of metadata
keys: one emitter fails it (`create_sdk_user` sends `api_key_id`), whose action is
refused as unknown anyway.  An HTTP client may repeat its append.  How status and
commit are related is an assumption of `Work`: nothing is committed by a 400, and
before a status under 400 the rows are; of a money request that is the intent, so a
202 is reported as a success though the ledger may refuse the posting later.
Events of environment "unknown" are stored but never listed.

| Property | Says |
|---|---|
| `RowTellsOutcome` | the work of a row of success was committed (of a money request, its intent), that of a client's error was not |
| `AtMostOneRow` | a request leaves at most one row |
| `AwaitedInOrder` | requests to users-service that follow one another are stamped in that order |
| `AcknowledgedIsStored`, `TypeOK` | proved; not in the listed run |
| `EveryRequestAnswered` | in `MCAuditTrail_answers.cfg`: answers do not wait for a hanging audit-service |

Run `audit_reports`: 2 requests and an HTTP append, one action of each kind (nil
organization allowed, not allowed, missing in the catalog), short reasons or
none, 1 crash.  Reports meet only in the table, so two show every order.
Fairness: handlers and reports go on and time does; audit-service need not.

## Divergences

Claims of the repository that the code does not keep.  Each is a definition in
the last section of its module.  `lost_update` is a listed run; to see another,
run its configuration, or replace the properties of the configuration named by
the claim: TLC prints a behaviour that violates it.

| Claim (definition) | Where it is made | What the code does | Configuration |
|---|---|---|---|
| `BalanceMatchesEntries` | account_balance.rb:17 "Update balance transactionally" | `update_balance!` reads without a lock; the second of two postings that share an account overwrites the first | `MCLedgerPosting_lost_update` (listed) |
| `SinglePoster` | account_service.rs:23 "claimed ... so the retry worker cannot start a concurrent ledger post" | a row that waits in a batch past its lease is claimed and posted by others, too; the ledger's idempotency keeps the money right | in `MCTransactionPosting_contention` |
| `FailedIsTerminal` | outbound-reliability-contract.md:8 "failed terminally" | an answer that arrives after the reconciler failed the row makes it posted or pending | in `MCTransactionPosting_contention` |
| `LedgerMatchesRow` | account_service.rs:353 "if we already have a transaction for this key, use it" | the amount of the request at hand is posted, not that of the pending row | in `MCTransactionPosting_contention` |
| `PostedHasTwoEntries` | ledger_poster.rb:214 "must balance: one debit, one credit" | two calls complete one leftover row: four entries | in `MCLedgerPosting_calls` |
| `PostedIsAudited` | audit_append.rb:3 "after a ledger row is durably posted" | `after_commit on: :update` does not run for a row created in the same transaction: ordinary postings emit nothing | in `MCLedgerPosting_calls` |
| `NoOverdraft` | account_service.rs:371 "block overdrafts before creating" | two debits read the same balance, or a credit the check saw is overwritten before the debit | in `MCOverdraft_payments` |
| `BalanceAfterIsAfter` | models/transaction.rs:191 "after the transaction" | the balance is read in a later call | in `MCOverdraft_payments`, without its VIEW |
| `OneAccountOfEachType` | account_repository.rs:334 "max 1 checking, 1 saving per user" | count and insert are two statements, no index | in `MCAccounts_requests` |
| `ClosedStaysClosed` | account_service.rs:178 "Cannot reactivate a closed account" | the UPDATE does not look at the status again | in `MCAccounts_requests` |
| `EveryPageIsRight` | handlers/transactions.rs:177 "same logic as list_account_transactions" | page 2 and later start from the present balance | `MCTransactionHistory_pages` |
| `OneIsRight` | models/transaction.rs:191 | a single transaction shows the present balance | `MCTransactionHistory_single` |
| `LegacyListed` | transaction_service.rs:30 "include legacy transactions (NULL environment)" | a migration has made them sandbox rows and older accounts production accounts: the query excludes them | in `MCTransactionHistory_newest` |
| `OnlyLatestTokenUsable` | password_reset.rs:103 "only the latest token is usable" | overlapping requests leave each other's token | `MCAuthentication_latest_token` |
| `ResetRevokesAllSessions` | password_reset.rs:351 "Revoke all active sessions" | a login or refresh under way leaves one | in `MCAuthentication_requests` |
| `KeyValidInBothEnvironments` | business.rs:103 "Create admin user (in both environments)" | the admin is in the sandbox only: keys fail in production | in `MCTenancy_requests` |
| `AdminActsInBothEnvironments` | auth.rs:188 "access both sandbox and production" | key endpoints answer 403 for production | in `MCTenancy_requests` |
| `CatalogIsFull` | validate.rs:20 "Full v1 mutation catalog" | `users.sdk.user.create` is not in it and is refused | in `MCAuditTrail_reports` |
| `NilOnlyWhereAllowed` | validate.rs:11 "may use the all-zero organization UUID" | failures of refresh, revoke and of keys are reported with it and refused | `MCAuditTrail_tenant` |
| `CutReasonIsAccepted` | audit_emit.rs:300 "caps_at_500_chars_with_ellipsis" | 501 characters, refused | `MCAuditTrail_reason` |
| `ReportedBeforeAnswer` | audit-trail-architecture.md:54 | accounts-service answers first | in `MCAuditTrail_reports` |

Passing configurations beyond the listed runs: `MCTransactionPosting_batch`,
`MCAuditTrail_answers`, `MCAccounts_answered`, `MCRateLimiter_users_keys`,
`MCAuthentication_sessions`, `MCAuthentication_resets`.

## Proofs

The assumptions on constants are the named ASSUMEs of the modules; TLC evaluates
them in every run.  The theorems have no bound on requests, replicas, keys,
amounts or time.  Two modules prove about several components, whose names are
therefore distinct: `LimiterAndTrailProofs` and `BalancesAndListsProofs`.

About `TransactionPosting`:

* `TypesAreKept`: `TypeOK`, strengthened by what calls and batches refer to
  (`TypeInv`): a call names a key and an intent, it exists exactly while its
  caller is calling, and whatever is done for a key is done after its row exists
  (rows are never deleted).  The last part is what lets the ledger act only for
  durable rows.
* `PostedRowsAreOnLedger`, `ConfirmedRequestsAreOnLedger`: neither is inductive
  alone, since "posted" and 200 both come from an answer a caller holds.
  `LedgerInv` adds that a call answered ok names a key the ledger holds.
* `OutboxImplementsOutboundTask`: insert, first post and reply 200 are the steps
  of the abstract task; every other step is a stutter.  It uses both invariants.
* `ClaimsAreExclusive`, `StampsMatch`, `AttemptsAreBounded`, `StatusesAreFinal`:
  consequences of `ClaimInv`, one invariant per key.  Until a lease of the key is
  taken away its holder is one, its row says posting and has the attempts the
  holder read (`Lease`); a pending row has an attempt left (`RowOk`); reclaimed or
  not, a worker's key has been tried (`Tried`).  That is why UPDATEs that do not
  look at the status keep it: nobody else can have changed the row.

About `LedgerPosting`:

* `LedgerTypeCorrect` and `PostingsAreDoubleEntry`.  `DoubleEntry` is not
  inductive: the two entries appear in one step, the commit, so one must know what
  the open transaction holds.  `PostingInv` says it: where a call is determines
  what its transaction has written (`CallInv`); two open transactions never have
  the same key (`OneWriter`, the unique index); and a key has all entries of one
  call or none (`KeyInv`).
* `LedgerImplementsOutboundTask`: receiving a call, its commit and an answer of
  posted are the steps of the abstract task for the keys without a leftover row;
  what is done for a leftover row is a stutter.  It adds `AnswerInv`: whoever is
  about to answer posted names a posted row.
* `PostedRowsAreComplete`: a posted row, new or leftover, that one call ended has
  two entries.  `PostingInv` says nothing of a leftover row, whose entries may
  come from several calls, so `CompleteInv` adds what each call has committed to
  it, which follows from where it is (`CommittedInv`): nothing before it writes,
  and while it works all that it wrote outside a transaction.  The call that marks
  the row has then committed both sides (`MarkCompletes`), and never touches its
  entries again (`CompletedStays`).
* `BalancesFollowEntries`: the stored balance is the sum of the entries, on the
  accounts no two calls worked on at once and no call completed a leftover row of.
  `BalanceInv` says of such an account (`AccountInv`) that one call works on it,
  that what the call read is still stored, and that what its open transaction
  holds back is that plus its entry; the entry appears with the balance, at the
  commit.  Each step is one of a few kinds (`StepKinds`); a commit adds one entry
  of each of its accounts to a sum (`AccountKept`, with `SumAdd` of `Sums`).

About sums (`Sums`).  `MapThenSumSet` is defined by a recursive function chosen by
CHOOSE; `SumDef` and `SumRemove` show that it is 0 for the empty set and that an
element can be taken out.  The library's induction principles take a predicate as
a parameter; `SmallerFirst` and `OneByOne` are induction over the subsets of a
finite set with a set in its place, from the theorem that the strict subset
ordering is well-founded.  From these come the sum of one element more (`SumAdd`),
of two disjoint sets (`SumUnion`), of equal functions (`SumSame`) and of zeros.

About `Accounts` (`AccountsInv`): `NumbersAreNeverShared`,
`SecondAccountsOverlap`, `MoneyMovesBetweenActive`, `ReopeningOverlaps`.  The
invariant is what each request knows at its next statement: what it asks (`Asks`),
what the statement relies on (`Ready`), the statuses it can have read
(`Witnessed`), and, for a create, that nobody answered before its count made an
account like its own (`Alone`, with `Made`).

About `Tenancy` (`TypeOK`, `DataInv`, `RequestInv`): `AddressesAreUnique`,
`ApplicationsAreUnique`, `BusinessesAreApart`, `RevocationIsFinal`,
`OneRevocation`, `AnswersTellTheRows`.  `DataInv` is about rows (a key was made by
an admin of its business); `RequestInv` about a request: what it carries (`Asks`),
where it can be (`At`), whose business it is scoped to (`Scoped`), that its key
was active when it came (`Alive`), what its answer tells (`Told`).

About `Authentication` (`AuthInv`): `AuthTypeCorrect`, `TokensAreUsedOnce`,
`SpentIsNeverServed`, `ResetsEndOldSessions`, `RequestsEndOldTokens`.  The
invariant is about the row locks and about each request.  A lock has one holder
(`Exclusive`); a locked token stays open and a reset that goes on has locked its
own (`Redeems`), which is why the check that is repeated under the lock still holds
at the COMMIT.  A request is at a statement of its kind and presents a row that
was there when it came (`Place`, `Asks`); if that row was spent by then, the
request has not got past its check (`Spent`); and the rows of answered requests
that are still open are seen or held by the UPDATE that sweeps them, and ended
when it has committed (`Sweeps`).  The
theorems assume only that requests, sessions and tokens are different things
(`RequestsAssumption`) and what the module says of the initial rows.

About `RateLimiter` (`LimiterInv`): `LessThanTwoWindows` and `NoLongerLockout`.
Every window began with a request (`HasOpener`), windows of a client lie further
apart than their length (`Apart`), and the count is that of the current window
(`Counted`).  A stretch as long as a window then meets at most two windows, and of
the first it misses the request that began it.

About `ClientKey`: `ClientsAreToldApart`.  The last entry of a header that is no
proxy is the client's, for a header of any length (`ClientIsFound`): behind the
client's entry are proxies only, so the entry before the peer is one and the chain
counts, or the client's is the last, the chain does not count and X-Real-IP does.

About `AuditTrail` (`TrailInv`): `RowsTellOutcomes`, `OneRowAtMost`,
`AcknowledgedRowsAreStored`, `AwaitedReportsAreInOrder`.  `Reporting` says where a
report can be, `StoredAs` whether it has a row, `Told` what it says of the work,
`Sequence` that an awaited report was built before the next request began.

About `LedgerBalances` (`LedgerInv`, for any opening balances): an account that is
not `overlapped` has what the posted transactions did to it, and at most one
open posting has read it (`Exclusive`), which read just that; so its commit adds its
own effect and no more (`CommitMeans`, `CommitKeeps`).

About `Overdraft`:

* `OverdraftsTakeRivals`.  `CheckInv`: a debit that may still be posted was checked
  against a balance of an account that has not been undercut since, and it covers
  the debit, or the account was undercut (`Covered`); so does what an open posting
  of it has read of the account (`Funded`), since a balance that is not undercut
  only goes up.  What a row's check read stays with the row, whoever posts it.
* `BalancesAlwaysAddUp` is `LedgerInv` for the opening balances.

About `TransactionHistory` (`HistoryInv`): `NewestBalancesAreRight`.  A list that
agreed with the ledger when it was read has every posted transaction of its
accounts that is newer than one of its rows (`Agrees`): it is newer than a listed
row, so fewer rows are newer than it and it is within the limit, and it is not one
of `Legacy`, all of which are older.  The balances read meanwhile are those of that
moment (`PresentBalances`), of accounts that are not `overlapped`.  Then the walk back is arithmetic of sums
(`WalkBackArrives`): the posted transactions are the older and the newer ones, what
is undone is what the newer ones did (`DeltaIsEffect`), the rest add 0.

About `Paging` (`ListInv`): `WalksAreComplete`, `RepeatsTakeInserts`,
`TotalsAreOfTheList`.  The rank of a row is the number of rows before it in its
list (`Rank`); ORDER BY makes it a bijection onto the numbers below the length, so
LIMIT and OFFSET select the rows of some ranks.  Insertions only raise ranks.  So
the rows of the beginning that a walk has not shown have at least the rank of its
next page (`Ahead`), and without an insertion what it has shown are exactly the
rows of smaller rank (`Exact`); a short page is the end of the list.

Only model-checked: liveness (`EverySettles`, `EveryRequestAnswered`,
`EveryCallAnswered`), outside the prover's reach like ENABLED.  Every invariant and
every action property of the listed passing runs, and both refinements, are
theorems.

## Plan

Done: the modules above, their runs and theorems, and the composition of the
overdraft check and of the lists with postings that may lose an update.  Left: the
hazards named below that no property covers.

## Not modelled

Components: ledger-service's read endpoints, and the HTTP shells, configuration,
start-up, e-mail and telemetry of the services, which keep no state; the gateway,
Docker files, scripts and collections.  What of them decides a modelled step (a
status code, the header the gateway sets, the client of users-service) is in the
module of that step.

Hazards known and not covered: `balance_cents` is a 64-bit column that the shared
cash account may leave (account_balance.rb:30; balances are unbounded here); entry
types follow the stored account_type, which rows older than the column may have
wrong (ledger_poster.rb:211; the types are right here); a mail that fails after
the old tokens were invalidated leaves the user without one (password_reset.rs:128;
modelled, no property forbids it).
