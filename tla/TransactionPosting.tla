------------------------- MODULE TransactionPosting -------------------------
(***************************************************************************)
(* accounts-service: how a deposit, withdrawal or transfer gets from an    *)
(* HTTP request into the ledger.                                           *)
(*                                                                         *)
(* The `transactions` table is an outbox.  Three kinds of process write    *)
(* it, each with plain SQL statements and no lock held between them:       *)
(*   - HTTP handlers (services/account_service.rs) create the row of an    *)
(*     idempotency key, claim it (pending -> posting), call the ledger and *)
(*     record the answer;                                                  *)
(*   - retry workers (services/transaction_retry.rs), one per replica,     *)
(*     reclaim rows whose posting lease is stale, claim every due pending  *)
(*     row, call the ledger for each in turn and record the answers;       *)
(*   - the reconciler (services/transaction_reconcile.rs) requeues stale   *)
(*     posting rows and fails old pending rows.                            *)
(*                                                                         *)
(* The ledger is what its gRPC PostTransaction shows a caller              *)
(* (ledger-service, LedgerPoster): it posts a key once and answers         *)
(* "posted" to every later call with that key.  A call may be refused,     *)
(* lose its reply, or reach the ledger after its caller gave up.           *)
(*                                                                         *)
(* One SQL statement is one step.  Clock comparisons (updated_at older     *)
(* than the lease, next_retry_at in the past, created_at old enough) are   *)
(* flags of the row that the time actions set, so any real durations are   *)
(* covered.  `reclaimed` and `faults` are bookkeeping of the model.        *)
(*                                                                         *)
(* A definition commented "Mutant" is used by no specification: it is the  *)
(* next definition with a plausible bug, and shows that a property notices.*)
(***************************************************************************)
EXTENDS Naturals

CONSTANTS Keys,          \* idempotency keys (unique per organization and environment)
          Intents,       \* kind, accounts and amount asked for by a request
          Checked,       \* the intents that are withdrawals or transfers
          None,          \* no row, no ledger transaction, no call
          Handlers,      \* HTTP requests: each is served once
          Workers,       \* retry workers, one per replica
          MaxAttempts,   \* LEDGER_RETRY_MAX_ATTEMPTS
          MaxFaults,     \* bound on worker crashes and failed status updates
          LeaseOutlastsCall  \* TRUE: the lease is longer than one ledger call (the defaults)

ASSUME KeysAssumption      == Keys # {}
ASSUME IntentsAssumption   == Checked \subseteq Intents /\ None \notin Intents \cup Keys
ASSUME CallersAssumption   == Handlers \cap Workers = {}
ASSUME AttemptsAssumption  == MaxAttempts \in Nat \ {0}
ASSUME FaultsAssumption    == MaxFaults \in Nat
ASSUME LeaseAssumption     == LeaseOutlastsCall \in BOOLEAN

VARIABLES
    tx,         \* the row of each key
    ledger,     \* what the ledger posted for each key, or None
    call,       \* the ledger call each handler or worker is making
    orphans,    \* calls whose caller gave up but the ledger may still serve
    hpc,        \* where each HTTP request is; a status code once answered
    hreq,       \* the key and intent of each HTTP request
    wpc,        \* where each retry worker is
    batch,      \* rows a worker claimed and has not posted yet, as claimed
    sweep,      \* the reconciler's next statement
    reclaimed,  \* history: keys whose posting lease was ever taken away
    faults      \* worker crashes and failed status updates so far

vars == <<tx, ledger, call, orphans, hpc, hreq, wpc, batch, sweep, reclaimed, faults>>

-----------------------------------------------------------------------------
(* Rows and calls.                                                         *)

Callers  == Handlers \cup Workers
Statuses == {"pending", "posting", "posted", "failed"}
Ages     == {"fresh", "ripe", "aged"}

\* retry_count matters only against MaxAttempts, so it stops one above it.
Attempts == 0 .. MaxAttempts + 1

Row == [status   : Statuses \cup {"absent"},
        intent   : Intents \cup {None},
        attempts : Attempts,    \* retry_count
        waiting  : BOOLEAN,     \* next_retry_at is in the future
        stale    : BOOLEAN,     \* updated_at is older than the posting lease
        age      : Ages,        \* created_at: under 2 s, over 2 s, over the maximum
        terminal : BOOLEAN]     \* terminal_failure_at is set

Claim == [key : Keys, intent : Intents, attempts : Attempts]
Call  == [key : Keys \cup {None}, intent : Intents \cup {None}, attempts : Attempts,
          outcome : {"none", "sent", "ok", "err"}]

NoRow == [status |-> "absent", intent |-> None, attempts |-> 0,
          waiting |-> FALSE, stale |-> FALSE, age |-> "fresh", terminal |-> FALSE]

NewRow(i) == [NoRow EXCEPT !.status = "pending", !.intent = i]

\* Mutant: the contract's name for the status instead of the table's.
UpdateStatusRenamed(r, s) ==
    [r EXCEPT !.status = IF s = "posted" THEN "succeeded" ELSE s, !.stale = FALSE]

UpdateStatus(r, s) == [r EXCEPT !.status = s, !.stale = FALSE]

ScheduleRetry(r) ==
    [r EXCEPT !.status = "pending", !.waiting = TRUE, !.terminal = FALSE, !.stale = FALSE]

\* Mutant: terminal_failure_at is not set.
MarkTerminalFailureUnstamped(r) ==
    [r EXCEPT !.status = "failed", !.waiting = FALSE, !.stale = FALSE]

MarkTerminalFailure(r) ==
    [r EXCEPT !.status = "failed", !.waiting = FALSE, !.terminal = TRUE, !.stale = FALSE]

NextAttempt(n) == IF n > MaxAttempts THEN n ELSE n + 1

ClaimForRetry(r) ==
    [r EXCEPT !.status = "posting", !.attempts = NextAttempt(@), !.stale = FALSE]

\* Mutants: a WHERE clause with the wrong status, or without one.
StalePostingWrongStatus(r) == r.status = "pending" /\ r.stale
DueAtAnyStatus(r)          == r.status # "absent" /\ r.age # "fresh" /\ ~r.waiting
TooLongAtAnyStatus(r)      == r.status # "absent" /\ r.age = "aged" /\ r.attempts >= 1

StalePosting(r)    == r.status = "posting" /\ r.stale
DueForRetry(r)     == r.status = "pending" /\ r.age # "fresh" /\ ~r.waiting
PendingTooLong(r)  == r.status = "pending" /\ r.age = "aged" /\ r.attempts >= 1

\* Mutant: one comparison against the maximum is off by one.
AttemptsExhaustedLate(n) == n > MaxAttempts
AttemptsExhausted(n)     == n >= MaxAttempts

\* Mutant: a transaction in progress is reported as done.
MutationHttpStatusOptimistic(s) == IF s = "failed" THEN "500" ELSE "200"

MutationHttpStatus(s) ==
    CASE s = "posted"                -> "200"
      [] s \in {"pending", "posting"} -> "202"
      [] s = "failed"                -> "500"

SetRow(k, r) == tx' = [tx EXCEPT ![k] = r]

\* Reclaim and requeue are the same statement, run by worker and reconciler.
RequeueStalePosting ==
    /\ tx' = [k \in Keys |-> IF StalePosting(tx[k]) THEN UpdateStatus(tx[k], "pending")
                                                     ELSE tx[k]]
    /\ reclaimed' = reclaimed \cup {k \in Keys : StalePosting(tx[k])}

IdleCall == [key |-> None, intent |-> None, attempts |-> 0, outcome |-> "none"]

SendCall(c, k, i, n) ==
    call' = [call EXCEPT ![c] = [key |-> k, intent |-> i, attempts |-> n, outcome |-> "sent"]]

EndCall(c) == call' = [call EXCEPT ![c] = IdleCall]

\* The caller goes away; a call the ledger has not answered may still arrive.
Abandon(c) ==
    /\ EndCall(c)
    /\ orphans' = IF call[c].outcome = "sent"
                  THEN orphans \cup {[key |-> call[c].key, intent |-> call[c].intent]}
                  ELSE orphans

-----------------------------------------------------------------------------
(* Initial state: an empty table and an idle service.                      *)

Init ==
    /\ tx = [k \in Keys |-> NoRow]
    /\ ledger = [k \in Keys |-> None]
    /\ call = [c \in Callers |-> IdleCall]
    /\ orphans = {}
    /\ hpc = [h \in Handlers |-> "idle"]
    /\ hreq = [h \in Handlers |-> [key |-> None, intent |-> None]]
    /\ wpc = [w \in Workers |-> "reclaim"]
    /\ batch = [w \in Workers |-> {}]
    /\ sweep = "requeue"
    /\ reclaimed = {}
    /\ faults = 0

-----------------------------------------------------------------------------
(* HTTP handlers.                                                          *)

Go(h, pc)  == hpc' = [hpc EXCEPT ![h] = pc]
Key(h)     == hreq[h].key
Status(h)  == tx[Key(h)].status

unchangedByHandler == <<wpc, batch, sweep, reclaimed, faults>>

\* The request passed validation: accounts exist, are active and match.
\* A deposit goes straight to the insert, the others look the key up first.
StartRequest(h, k, i) ==
    /\ hpc[h] = "idle"
    /\ hreq' = [hreq EXCEPT ![h] = [key |-> k, intent |-> i]]
    /\ Go(h, IF i \in Checked THEN "lookup" ELSE "create")
    /\ UNCHANGED <<tx, ledger, call, orphans, unchangedByHandler>>

\* find_by_idempotency: a posted or posting row is the answer; a pending or
\* failed one skips the overdraft check; no row means a new transaction.
FindByIdempotency(h) ==
    /\ hpc[h] = "lookup"
    /\ Go(h, CASE Status(h) = "absent"               -> "balance"
               [] Status(h) \in {"posted", "posting"} -> MutationHttpStatus(Status(h))
               [] OTHER                               -> "create")
    /\ UNCHANGED <<tx, ledger, call, orphans, hreq, unchangedByHandler>>

\* The overdraft check reads the ledger; only its verdict matters here.
CheckBalance(h) ==
    /\ hpc[h] = "balance"
    /\ Go(h, "create") \/ Go(h, "400")
    /\ UNCHANGED <<tx, ledger, call, orphans, hreq, unchangedByHandler>>

\* Insert the row of the key or read the one that is there, then the first
\* half of resolve_immediate_ledger_post: a row that is not pending is the
\* answer.
CreateOrGetByIdempotency(h) ==
    /\ hpc[h] = "create"
    /\ IF Status(h) = "absent"
       THEN SetRow(Key(h), NewRow(hreq[h].intent))
       ELSE UNCHANGED tx
    /\ Go(h, IF Status(h) \in {"absent", "pending"} THEN "claim"
                                                    ELSE MutationHttpStatus(Status(h)))
    /\ UNCHANGED <<ledger, call, orphans, hreq, unchangedByHandler>>

\* Mutant: the claim does not ask for a pending row.
ClaimAnyRow(h) ==
    /\ hpc[h] = "claim"
    /\ SetRow(Key(h), UpdateStatus(tx[Key(h)], "posting"))
    /\ SendCall(h, Key(h), hreq[h].intent, 0)
    /\ Go(h, "calling")
    /\ UNCHANGED <<ledger, orphans, hreq, unchangedByHandler>>

\* The second half claims with a conditional update.  The call carries the
\* request's own intent, not the row's.
TryClaimPendingForPost(h) ==
    /\ hpc[h] = "claim"
    /\ IF Status(h) = "pending"
       THEN /\ SetRow(Key(h), UpdateStatus(tx[Key(h)], "posting"))
            /\ SendCall(h, Key(h), hreq[h].intent, 0)
            /\ Go(h, "calling")
       ELSE /\ Go(h, "reread")
            /\ UNCHANGED <<tx, call>>
    /\ UNCHANGED <<ledger, orphans, hreq, unchangedByHandler>>

FindById(h) ==
    /\ hpc[h] = "reread"
    /\ Go(h, MutationHttpStatus(Status(h)))
    /\ UNCHANGED <<tx, ledger, call, orphans, hreq, unchangedByHandler>>

\* The ledger answered, or the call timed out: the row is overwritten
\* whatever its status is by now, and the reply reports what was written.
RecordOutcome(h) ==
    /\ hpc[h] = "calling"
    /\ \/ /\ call[h].outcome = "ok"
          /\ SetRow(Key(h), UpdateStatus(tx[Key(h)], "posted"))
          /\ Go(h, MutationHttpStatus("posted"))
       \/ /\ call[h].outcome = "err"
          /\ SetRow(Key(h), UpdateStatus(tx[Key(h)], "pending"))
          /\ Go(h, MutationHttpStatus("pending"))
    /\ EndCall(h)
    /\ UNCHANGED <<ledger, orphans, hreq, unchangedByHandler>>

\* Any statement or balance call fails: `?` returns an error and the row
\* keeps whatever status it has.
HandlerFails(h) ==
    /\ \/ hpc[h] \in {"lookup", "balance", "create", "claim", "reread"}
       \/ hpc[h] = "calling" /\ call[h].outcome \in {"ok", "err"}
    /\ Go(h, "500")
    /\ EndCall(h)
    /\ UNCHANGED <<tx, ledger, orphans, hreq, unchangedByHandler>>

\* The replica crashes or the connection closes and the future is dropped.
HandlerVanishes(h) ==
    /\ hpc[h] \in {"lookup", "balance", "create", "claim", "reread", "calling"}
    /\ Go(h, "gone")
    /\ Abandon(h)
    /\ UNCHANGED <<tx, ledger, hreq, unchangedByHandler>>

HandlerStep(h) ==
    \/ \E k \in Keys, i \in Intents : StartRequest(h, k, i)
    \/ FindByIdempotency(h)
    \/ CheckBalance(h)
    \/ CreateOrGetByIdempotency(h)
    \/ TryClaimPendingForPost(h)
    \/ FindById(h)
    \/ RecordOutcome(h)

-----------------------------------------------------------------------------
(* Retry workers: retry_worker_poll_once, forever.                         *)

GoWorker(w, pc) == wpc' = [wpc EXCEPT ![w] = pc]

unchangedByWorker == <<hpc, hreq, sweep>>

ReclaimStalePostingRows(w) ==
    /\ wpc[w] = "reclaim"
    /\ RequeueStalePosting
    /\ GoWorker(w, "claim")
    /\ UNCHANGED <<ledger, call, orphans, batch, faults, unchangedByWorker>>

\* Every due row at once (the LIMIT of 200 is above the number of keys; a
\* row that another statement has locked is not pending when it is done).
\* A poll that claims nothing, or fails, sleeps and starts over.
ClaimPendingTransactions(w) ==
    LET due == {k \in Keys : DueForRetry(tx[k])}
        rows == [k \in Keys |-> IF k \in due THEN ClaimForRetry(tx[k]) ELSE tx[k]]
    IN  /\ wpc[w] = "claim"
        /\ tx' = rows
        /\ batch' = [batch EXCEPT ![w] =
                {[key |-> k, intent |-> tx[k].intent, attempts |-> rows[k].attempts] : k \in due}]
        /\ GoWorker(w, IF due = {} THEN "reclaim" ELSE "posting")
        /\ UNCHANGED <<ledger, call, orphans, reclaimed, faults, unchangedByWorker>>

\* process_claimed_ledger_posts takes the claimed rows one at a time, in the
\* order the UPDATE returned them, and never looks at the row again.  (The
\* branch for a row without an environment is dead: the column is NOT NULL.)
PostNextClaimed(w) ==
    /\ wpc[w] = "posting"
    /\ \E c \in batch[w] :
          /\ SendCall(w, c.key, c.intent, c.attempts)
          /\ batch' = [batch EXCEPT ![w] = @ \ {c}]
    /\ GoWorker(w, "calling")
    /\ UNCHANGED <<tx, ledger, orphans, reclaimed, faults, unchangedByWorker>>

AfterPost(w) == IF batch[w] = {} THEN "reclaim" ELSE "posting"

\* Unconditional updates again; retry_count is the one the claim returned.
RecordPostResult(w) ==
    LET k == call[w].key
    IN  /\ wpc[w] = "calling"
        /\ \/ /\ call[w].outcome = "ok"
              /\ SetRow(k, UpdateStatus(tx[k], "posted"))
           \/ /\ call[w].outcome = "err"
              /\ SetRow(k, IF AttemptsExhausted(call[w].attempts)
                           THEN MarkTerminalFailure(tx[k])
                           ELSE ScheduleRetry(tx[k]))
        /\ EndCall(w)
        /\ GoWorker(w, AfterPost(w))
        /\ UNCHANGED <<ledger, orphans, batch, reclaimed, faults, unchangedByWorker>>

\* `let _ =`: a status update that fails is ignored and the row stays posting.
RecordFails(w) ==
    /\ faults < MaxFaults
    /\ wpc[w] = "calling"
    /\ call[w].outcome \in {"ok", "err"}
    /\ faults' = faults + 1
    /\ EndCall(w)
    /\ GoWorker(w, AfterPost(w))
    /\ UNCHANGED <<tx, ledger, orphans, batch, reclaimed, unchangedByWorker>>

\* The replica goes down with its claimed rows and comes back polling.
WorkerCrashes(w) ==
    /\ faults < MaxFaults
    /\ faults' = faults + 1
    /\ Abandon(w)
    /\ batch' = [batch EXCEPT ![w] = {}]
    /\ GoWorker(w, "reclaim")
    /\ UNCHANGED <<tx, ledger, reclaimed, unchangedByWorker>>

WorkerStep(w) ==
    \/ ReclaimStalePostingRows(w)
    \/ ClaimPendingTransactions(w)
    \/ PostNextClaimed(w)
    \/ RecordPostResult(w)

-----------------------------------------------------------------------------
(* The reconciler: two statements per sweep.                               *)

unchangedByReconciler == <<ledger, call, orphans, hpc, hreq, wpc, batch, faults>>

ReconcileRequeue ==
    /\ sweep = "requeue"
    /\ RequeueStalePosting
    /\ sweep' = "fail"
    /\ UNCHANGED unchangedByReconciler

ReconcileFail ==
    /\ sweep = "fail"
    /\ tx' = [k \in Keys |-> IF PendingTooLong(tx[k]) THEN MarkTerminalFailure(tx[k])
                                                      ELSE tx[k]]
    /\ sweep' = "requeue"
    /\ UNCHANGED <<reclaimed, unchangedByReconciler>>

-----------------------------------------------------------------------------
(* The ledger as its callers see it.                                       *)

unchangedByLedger == <<tx, hpc, hreq, wpc, batch, sweep, reclaimed, faults>>

Answer(c, o) == call' = [call EXCEPT ![c].outcome = o]

\* Mutant: no look for an existing transaction.
PostEveryTime(k, i) == ledger' = [ledger EXCEPT ![k] = i]

\* LedgerPoster: the first call with a key posts it; a later one finds the
\* posted transaction and returns it whatever its own parameters are.
PostOnce(k, i) == ledger' = [ledger EXCEPT ![k] = IF @ = None THEN i ELSE @]

LedgerPosts(c) ==
    /\ call[c].outcome = "sent"
    /\ PostOnce(call[c].key, call[c].intent)
    /\ Answer(c, "ok")
    /\ UNCHANGED <<orphans, unchangedByLedger>>

\* Mutant: the status of the response is not looked at.
RejectionTakenAsPosted(c) ==
    /\ call[c].outcome = "sent"
    /\ Answer(c, "ok")
    /\ UNCHANGED <<ledger, orphans, unchangedByLedger>>

\* Validation or the database fails; nothing is committed.
LedgerRejects(c) ==
    /\ call[c].outcome = "sent"
    /\ Answer(c, "err")
    /\ UNCHANGED <<ledger, orphans, unchangedByLedger>>

\* Mutant: the call has no deadline.
CallNeverTimesOut(c) == FALSE /\ UNCHANGED vars

\* The client-side timeout fires, before or after the ledger committed.
CallTimesOut(c) ==
    /\ call[c].outcome \in {"sent", "ok"}
    /\ Answer(c, "err")
    /\ orphans' = IF call[c].outcome = "sent"
                  THEN orphans \cup {[key |-> call[c].key, intent |-> call[c].intent]}
                  ELSE orphans
    /\ UNCHANGED <<ledger, unchangedByLedger>>

\* A call nobody waits for is served late, or is lost.
OrphanPosts(o) ==
    /\ PostOnce(o.key, o.intent)
    /\ orphans' = orphans \ {o}
    /\ UNCHANGED <<call, unchangedByLedger>>

OrphanIsLost(o) ==
    /\ orphans' = orphans \ {o}
    /\ UNCHANGED <<ledger, call, unchangedByLedger>>

-----------------------------------------------------------------------------
(* Time.                                                                   *)

unchangedByTime == <<ledger, call, orphans, hpc, hreq, wpc, batch, sweep,
                     reclaimed, faults>>

\* The lease of k is young: a handler, which claims one row, is calling.  A
\* worker's rows are stamped when their batch is claimed, and each call may
\* take a whole ledger timeout: theirs may be used up before their own begins.
JustClaimed(k) == \E h \in Handlers : call[h].outcome # "none" /\ call[h].key = k

LeaseExpires(k) ==
    /\ tx[k].status = "posting" /\ ~tx[k].stale
    /\ LeaseOutlastsCall => ~JustClaimed(k)
    /\ tx' = [tx EXCEPT ![k].stale = TRUE]
    /\ UNCHANGED unchangedByTime

BackoffElapses(k) ==
    /\ tx[k].waiting
    /\ tx' = [tx EXCEPT ![k].waiting = FALSE]
    /\ UNCHANGED unchangedByTime

RowAges(k) ==
    /\ tx[k].status \in {"pending", "posting"}   \* the age of the others is not read
    /\ \/ tx[k].age = "fresh" /\ tx' = [tx EXCEPT ![k].age = "ripe"]
       \/ tx[k].age = "ripe"  /\ tx' = [tx EXCEPT ![k].age = "aged"]
    /\ UNCHANGED unchangedByTime

-----------------------------------------------------------------------------
(* Specifications.                                                         *)

Next ==
    \/ \E h \in Handlers : HandlerStep(h) \/ HandlerFails(h) \/ HandlerVanishes(h)
    \/ \E w \in Workers : WorkerStep(w) \/ RecordFails(w) \/ WorkerCrashes(w)
    \/ ReconcileRequeue \/ ReconcileFail
    \/ \E c \in Callers : LedgerPosts(c) \/ LedgerRejects(c) \/ CallTimesOut(c)
    \/ \E o \in orphans : OrphanPosts(o) \/ OrphanIsLost(o)
    \/ \E k \in Keys : LeaseExpires(k) \/ BackoffElapses(k) \/ RowAges(k)

Spec == Init /\ [][Next]_vars

(* The runtime polls every task that can run, both background loops never  *)
(* return, time passes, and a ledger call ends at its client-side timeout  *)
(* at the latest.  Nothing is assumed of the ledger itself.                *)
Fairness ==
    /\ \A h \in Handlers : WF_vars(HandlerStep(h))
    /\ \A w \in Workers : WF_vars(WorkerStep(w))
    /\ WF_vars(ReconcileRequeue \/ ReconcileFail)
    /\ \A c \in Callers : WF_vars(CallTimesOut(c))
    /\ \A k \in Keys : WF_vars(LeaseExpires(k)) /\ WF_vars(BackoffElapses(k))
                                                /\ WF_vars(RowAges(k))

FairSpec == Spec /\ Fairness

-----------------------------------------------------------------------------
(* Properties.                                                             *)

Codes  == {"200", "202", "400", "500", "gone"}
Active == {"lookup", "balance", "create", "claim", "reread", "calling"}

(* Every variable has its type.                                            *)
TypeOK ==
    /\ tx \in [Keys -> Row]
    /\ ledger \in [Keys -> Intents \cup {None}]
    /\ call \in [Callers -> Call]
    /\ orphans \subseteq [key : Keys, intent : Intents]
    /\ hpc \in [Handlers -> {"idle"} \cup Active \cup Codes]
    /\ hreq \in [Handlers -> [key : Keys \cup {None}, intent : Intents \cup {None}]]
    /\ wpc \in [Workers -> {"reclaim", "claim", "posting", "calling"}]
    /\ batch \in [Workers -> SUBSET Claim]
    /\ sweep \in {"requeue", "fail"}
    /\ reclaimed \subseteq Keys
    /\ faults \in 0 .. MaxFaults

(* A row says posted only when the ledger holds the transaction, whichever *)
(* of the unconditional status updates wrote it and however many callers   *)
(* were racing (account_service.rs, transaction_retry.rs).                 *)
PostedIsOnLedger ==
    \A k \in Keys : tx[k].status = "posted" => ledger[k] # None

(* A client is answered 200 only when the outbound side effect has         *)
(* happened (handlers/accounts.rs, mutation_http_status).                  *)
ConfirmedIsOnLedger ==
    \A h \in Handlers : hpc[h] = "200" => ledger[hreq[h].key] # None

\* c is working on k: its ledger call is under way, or k waits in its batch.
Holds(c, k) ==
    \/ call[c].outcome # "none" /\ call[c].key = k
    \/ c \in Workers /\ \E b \in batch[c] : b.key = k

(* While no lease of a key was taken away, its claim is exclusive: at most *)
(* one handler or worker is between claiming the row and recording the     *)
(* answer, and the row says posting meanwhile (try_claim_pending_for_post, *)
(* claim_pending_transactions_for_ledger_post).                            *)
ExclusiveUntilReclaimed ==
    \A k \in Keys \ reclaimed : \A c \in Callers :
        Holds(c, k) =>
            /\ tx[k].status = "posting"
            /\ \A d \in Callers : Holds(d, k) => c = d

(* terminal_failure_at is set exactly on failed rows, as long as nobody    *)
(* writes a row it no longer holds (update_status leaves the column alone).*)
TerminalStampMatches ==
    \A k \in Keys \ reclaimed : tx[k].terminal <=> tx[k].status = "failed"

(* The retry worker gives a row at most MaxAttempts attempts, unless a     *)
(* lease was lost, and never fails a row it has not tried.                 *)
AttemptsBounded ==
    \A k \in Keys :
        /\ k \notin reclaimed => tx[k].attempts <= MaxAttempts
        /\ tx[k].status = "failed" => tx[k].attempts >= 1

(* posted and failed are final, unless a lease of the key was taken away.  *)
FinalUntilReclaimed ==
    [][\A k \in Keys \ reclaimed :
          tx[k].status \in {"posted", "failed"} => tx'[k].status = tx[k].status]_vars

(* The outbox implements the contract of an outbound task.                 *)
Abs == INSTANCE OutboundTask WITH
    Tasks     <- Keys,
    Payloads  <- Intents,
    NoPayload <- None,
    accepted  <- {k \in Keys : tx[k].status # "absent"},
    effect    <- ledger,
    confirmed <- {k \in Keys : \E h \in Handlers : hpc[h] = "200" /\ hreq[h].key = k}

ImplementsOutboundTask == Abs!Spec

(* Work never hangs: from some point on every row stays posted or failed,  *)
(* whatever the ledger does, if crashes and failed updates are finite.     *)
EverySettles ==
    \A k \in Keys : <>[](tx[k].status \in {"absent", "posted", "failed"})

(* Every request that started is answered, or its connection is gone.      *)
EveryRequestAnswered ==
    \A h \in Handlers : hpc[h] \in Active ~> hpc[h] \in Codes

-----------------------------------------------------------------------------
(* Claims of the repository that the code does not keep.                   *)

(* "`pending` is claimed so the retry worker cannot start a concurrent     *)
(* ledger post for the same row" (account_service.rs:23).                  *)
SinglePoster ==
    \A k \in Keys : \A c, d \in Callers :
        /\ call[c].outcome = "sent" /\ call[c].key = k
        /\ call[d].outcome = "sent" /\ call[d].key = k
        => c = d

(* "Guarantee each outbound task ends in posted/succeeded, pending with    *)
(* retry schedule, or failed terminally" (outbound-reliability-contract):  *)
(* a failed row is never anything else again.                              *)
FailedIsTerminal ==
    [][\A k \in Keys : tx[k].status = "failed" => tx'[k].status = "failed"]_vars

(* "Idempotency: if we already have a transaction for this key, use it"    *)
(* (account_service.rs:353): what the ledger posted is what the row says.  *)
LedgerMatchesRow ==
    \A k \in Keys : ledger[k] # None => ledger[k] = tx[k].intent
=============================================================================
