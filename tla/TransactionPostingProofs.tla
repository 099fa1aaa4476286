----------------------- MODULE TransactionPostingProofs ---------------------
(***************************************************************************)
(* Theorems about TransactionPosting, for every set of keys, intents,      *)
(* requests and workers, every number of attempts and any number of        *)
(* crashes: its types; that success is never reported before the ledger    *)
(* has posted; that the outbox implements OutboundTask; that claims are    *)
(* exclusive, attempts bounded and statuses final until a lease of the key *)
(* is taken away.                                                          *)
(***************************************************************************)
EXTENDS TransactionPosting, TLAPS

-----------------------------------------------------------------------------
(* Rows and calls stay rows and calls.                                     *)

(* NextAttempt saturates within Attempts and never decreases.              *)
LEMMA NextAttemptType ==
    ASSUME NEW n \in Attempts
    PROVE  /\ NextAttempt(n) \in Attempts
           /\ NextAttempt(n) >= 1
           /\ NextAttempt(n) >= n
BY AttemptsAssumption DEF NextAttempt, Attempts

(* Every update of a row yields a row (transaction_repository.rs).         *)
LEMMA RowUpdates ==
    ASSUME NEW r \in Row
    PROVE  /\ \A s \in Statuses : /\ UpdateStatus(r, s) \in Row
                                  /\ UpdateStatus(r, s).status = s
                                  /\ UpdateStatus(r, s).intent = r.intent
           /\ /\ ScheduleRetry(r) \in Row
              /\ ScheduleRetry(r).status = "pending"
              /\ ScheduleRetry(r).intent = r.intent
           /\ /\ MarkTerminalFailure(r) \in Row
              /\ MarkTerminalFailure(r).status = "failed"
              /\ MarkTerminalFailure(r).intent = r.intent
           /\ /\ ClaimForRetry(r) \in Row
              /\ ClaimForRetry(r).status = "posting"
              /\ ClaimForRetry(r).intent = r.intent
BY NextAttemptType DEF Row, UpdateStatus, ScheduleRetry, MarkTerminalFailure,
                       ClaimForRetry, Statuses, Ages

(* A fresh row is a row (create_or_get_by_idempotency).                    *)
LEMMA NewRowType ==
    /\ NoRow \in Row
    /\ \A i \in Intents : NewRow(i) \in Row /\ NewRow(i).status = "pending" /\ NewRow(i).intent = i
<1>1. 0 \in Attempts
  BY AttemptsAssumption DEF Attempts
<1>2. NoRow \in Row
  BY <1>1 DEF Row, NoRow, Ages
<1>3. ASSUME NEW i \in Intents
      PROVE  NewRow(i) \in Row /\ NewRow(i).status = "pending" /\ NewRow(i).intent = i
  BY <1>1 DEF Row, NoRow, NewRow, Statuses, Ages
<1>4. QED
  BY <1>2, <1>3

(* An idle call and a call that was sent are calls (ledger_grpc.rs).       *)
LEMMA CallType ==
    /\ IdleCall \in Call
    /\ \A k \in Keys, i \in Intents, n \in Attempts :
          [key |-> k, intent |-> i, attempts |-> n, outcome |-> "sent"] \in Call
BY AttemptsAssumption DEF IdleCall, Call, Attempts

(* A call under way names a key and an intent: the part of the type        *)
(* invariant that the ledger's actions need.                               *)
CallsAreNamed ==
    \A c \in Callers :
        call[c].outcome # "none" => call[c].key \in Keys /\ call[c].intent \in Intents

(* A request that started names a key and an intent.                       *)
RequestsAreNamed ==
    \A h \in Handlers :
        /\ hpc[h] # "idle" => hreq[h].key \in Keys /\ hreq[h].intent \in Intents
        /\ hpc[h] = "calling" <=> call[h].outcome # "none"
        /\ hpc[h] = "calling" => call[h].key = hreq[h].key

WorkersCall ==
    \A w \in Workers : wpc[w] = "calling" <=> call[w].outcome # "none"

(* A row that exists has an intent, and whatever is done for a key is done *)
(* after its row was inserted: rows are never deleted.                     *)
HasRow(k) == tx[k].status # "absent"

RowExists ==
    /\ \A k \in Keys : HasRow(k) => tx[k].intent \in Intents
    /\ \A h \in Handlers : hpc[h] \in {"claim", "reread"} => HasRow(hreq[h].key)
    /\ \A c \in Callers : call[c].outcome # "none" => HasRow(call[c].key)
    /\ \A w \in Workers : \A b \in batch[w] : HasRow(b.key)
    /\ \A o \in orphans : HasRow(o.key)

RowsKept ==
    \A k \in Keys :
        /\ HasRow(k) => HasRow(k)'
        /\ HasRow(k)' => tx'[k].intent \in Intents

TypeInv == TypeOK /\ CallsAreNamed /\ RequestsAreNamed /\ WorkersCall /\ RowExists

(* What an action leaves alone keeps its part of the type invariant.       *)
LEMMA InitTypeInv == Init => TypeInv
<1> SUFFICES ASSUME Init
             PROVE  TypeInv
  OBVIOUS
<1>1. TypeOK
  BY NewRowType, CallType, FaultsAssumption DEF Init, TypeOK
<1>2. CallsAreNamed /\ RequestsAreNamed /\ WorkersCall /\ RowExists
  BY CallersAssumption
     DEF Init, CallsAreNamed, RequestsAreNamed, WorkersCall, RowExists, HasRow, IdleCall,
         Callers, NoRow
<1>3. QED
  BY <1>1, <1>2 DEF TypeInv

(* Work in progress keeps its rows if rows are kept.                       *)
LEMMA WorkKeepsRows ==
    ASSUME TypeInv, RowsKept, UNCHANGED <<batch, orphans>>,
           \A h \in Handlers :
               hpc'[h] \in {"claim", "reread"} => tx'[hreq'[h].key].status # "absent",
           \A c \in Callers :
               \/ call'[c].outcome = "none"
               \/ call'[c] = call[c]
               \/ tx'[call'[c].key].status # "absent"
    PROVE  RowExists'
<1>1. \A k \in Keys : HasRow(k)' => tx'[k].intent \in Intents
  BY DEF RowsKept
<1>2. \A c \in Callers : call'[c].outcome # "none" => tx'[call'[c].key].status # "absent"
  BY DEF TypeInv, CallsAreNamed, RowExists, RowsKept, HasRow
<1>3. \A w \in Workers : \A b \in batch'[w] : tx'[b.key].status # "absent"
  BY DEF TypeInv, TypeOK, RowExists, RowsKept, HasRow, Claim
<1>4. \A o \in orphans' : tx'[o.key].status # "absent"
  BY DEF TypeInv, TypeOK, RowExists, RowsKept, HasRow
<1>5. QED
  BY <1>1, <1>2, <1>3, <1>4 DEF RowExists, HasRow

(* Every handler step keeps the types (account_service.rs).                *)
LEMMA HandlerTypeInv ==
    ASSUME TypeInv, NEW h \in Handlers,
           HandlerStep(h) \/ HandlerFails(h) \/ HandlerVanishes(h)
    PROVE  TypeInv'
<1> USE CallersAssumption DEF TypeInv, TypeOK, CallsAreNamed, RequestsAreNamed, WorkersCall,
        RowExists, RowsKept, HasRow, Callers, Go, Key, Status, Active, Codes, unchangedByHandler
<1>1. CASE \E k \in Keys, i \in Intents : StartRequest(h, k, i)
  BY <1>1 DEF StartRequest
<1>2. CASE FindByIdempotency(h)
  BY <1>2 DEF FindByIdempotency, MutationHttpStatus
<1>3. CASE CheckBalance(h)
  <2>1. /\ UNCHANGED <<tx, ledger, call, orphans, hreq, unchangedByHandler>>
        /\ hpc[h] = "balance" /\ (Go(h, "create") \/ Go(h, "400"))
    BY ONLY <1>3 DEF CheckBalance
  <2>2. CASE Go(h, "create")
    BY <2>1, <2>2
  <2>3. CASE Go(h, "400")
    BY <2>1, <2>3
  <2>4. QED
    BY <2>1, <2>2, <2>3
<1>4. CASE CreateOrGetByIdempotency(h)
  <2>1. tx' \in [Keys -> Row]
    BY <1>4, NewRowType DEF CreateOrGetByIdempotency, SetRow
  <2>2. tx[Key(h)] \in Row
    BY <1>4 DEF CreateOrGetByIdempotency
  <2>3. hpc' \in [Handlers -> {"idle"} \cup Active \cup Codes]
    BY <1>4, <2>2 DEF CreateOrGetByIdempotency, MutationHttpStatus, Row, Statuses
  <2>4. hpc'[h] \in {"claim", "200", "202", "500"}
    BY <1>4, <2>2 DEF CreateOrGetByIdempotency, MutationHttpStatus, Row, Statuses
  <2>5. tx'[Key(h)].status # "absent"
    BY <1>4, <2>2, NewRowType DEF CreateOrGetByIdempotency, SetRow
  <2>6. RowsKept
    <3>1. CASE Status(h) = "absent"
      <4>1. tx' = [tx EXCEPT ![Key(h)] = NewRow(hreq[h].intent)] /\ Key(h) \in Keys
            /\ hreq[h].intent \in Intents
        BY <1>4, <3>1 DEF CreateOrGetByIdempotency, SetRow
      <4>2. NewRow(hreq[h].intent).status = "pending" /\ NewRow(hreq[h].intent).intent \in Intents
        BY ONLY <4>1, NewRowType
      <4>3. QED
        BY <4>1, <4>2
    <3>2. CASE Status(h) # "absent"
      BY <1>4, <3>2 DEF CreateOrGetByIdempotency
    <3>3. QED
      BY <3>1, <3>2
  <2>7. /\ hpc' = [hpc EXCEPT ![h] = hpc'[h]] /\ hpc[h] = "create"
        /\ UNCHANGED <<ledger, call, orphans, hreq, wpc, batch, sweep, reclaimed, faults>>
    BY <1>4 DEF CreateOrGetByIdempotency
  <2>8. TypeOK'
    BY <2>1, <2>3, <2>7
  <2>9. CallsAreNamed' /\ RequestsAreNamed' /\ WorkersCall'
    BY <2>4, <2>7
  <2>10. \A g \in Handlers :
            hpc'[g] \in {"claim", "reread"} => tx'[hreq'[g].key].status # "absent"
    BY <2>5, <2>6, <2>7
  <2>11. RowExists'
    BY ONLY TypeInv, <2>6, <2>7, <2>10, WorkKeepsRows
  <2>12. QED
    BY <2>8, <2>9, <2>11
<1>5. CASE TryClaimPendingForPost(h)
  <2>1. CASE Status(h) = "pending"
    <3>0. /\ Key(h) \in Keys /\ tx[Key(h)] \in Row
          /\ tx' = [tx EXCEPT ![Key(h)] = UpdateStatus(tx[Key(h)], "posting")]
      BY <1>5, <2>1 DEF TryClaimPendingForPost, SetRow
    <3>1. /\ tx' \in [Keys -> Row]
          /\ RowsKept
      <4>1. /\ UpdateStatus(tx[Key(h)], "posting") \in Row
            /\ UpdateStatus(tx[Key(h)], "posting").status = "posting"
            /\ UpdateStatus(tx[Key(h)], "posting").intent = tx[Key(h)].intent
        BY ONLY <3>0, RowUpdates DEF Statuses
      <4>2. QED
        BY <2>1, <3>0, <4>1
    <3>2. 0 \in Attempts
      BY AttemptsAssumption DEF Attempts
    <3>3. call' \in [Callers -> Call]
      BY <1>5, <2>1, <3>2, CallType DEF TryClaimPendingForPost, SendCall
    <3>4. /\ hpc' = [hpc EXCEPT ![h] = "calling"]
          /\ call' = [call EXCEPT ![h] = [key |-> Key(h), intent |-> hreq[h].intent,
                                          attempts |-> 0, outcome |-> "sent"]]
          /\ UNCHANGED <<ledger, orphans, hreq, wpc, batch, sweep, reclaimed, faults>>
      BY <1>5, <2>1 DEF TryClaimPendingForPost, SendCall
    <3>5. TypeOK'
      BY <3>1, <3>3, <3>4
    <3>6. hpc[h] = "claim"
      BY <1>5 DEF TryClaimPendingForPost
    <3>7. CallsAreNamed' /\ RequestsAreNamed' /\ WorkersCall'
      BY <3>4, <3>6
    <3>8. /\ \A g \in Handlers :
               hpc'[g] \in {"claim", "reread"} => tx'[hreq'[g].key].status # "absent"
          /\ \A c \in Callers \ {h} : call'[c] = call[c]
          /\ tx'[call'[h].key].status # "absent"
      <4>1. call'[h].key = Key(h) /\ \A c \in Callers \ {h} : call'[c] = call[c]
        BY <3>4
      <4>2. tx'[Key(h)].status # "absent"
        BY <2>1, <3>0, <3>1
      <4>3. QED
        BY <3>1, <3>4, <4>1, <4>2
    <3>10. RowExists'
      BY ONLY TypeInv, <3>1, <3>4, <3>8, WorkKeepsRows
    <3>9. QED
      BY <3>5, <3>7, <3>10
  <2>2. CASE Status(h) # "pending"
    BY <1>5, <2>2 DEF TryClaimPendingForPost
  <2>3. QED
    BY <2>1, <2>2
<1>6. CASE FindById(h)
  <2>1. tx[Key(h)] \in Row
    BY <1>6 DEF FindById
  <2>2. QED
    BY <1>6, <2>1 DEF FindById, MutationHttpStatus, Row, Statuses
<1>7. CASE RecordOutcome(h)
  <2>0. /\ Key(h) \in Keys /\ tx[Key(h)] \in Row
        /\ \E s \in {"posted", "pending"} :
              tx' = [tx EXCEPT ![Key(h)] = UpdateStatus(tx[Key(h)], s)]
    BY <1>7 DEF RecordOutcome, SetRow
  <2>1. /\ tx' \in [Keys -> Row]
        /\ RowsKept
    <3>1. PICK s \in {"posted", "pending"} :
              tx' = [tx EXCEPT ![Key(h)] = UpdateStatus(tx[Key(h)], s)]
      BY <2>0
    <3>2. /\ UpdateStatus(tx[Key(h)], s) \in Row
          /\ UpdateStatus(tx[Key(h)], s).status = s
          /\ UpdateStatus(tx[Key(h)], s).intent = tx[Key(h)].intent
      <4>1. s \in Statuses
        BY DEF Statuses
      <4>2. QED
        BY ONLY <2>0, <4>1, RowUpdates
    <3>3. tx[Key(h)].status # "absent"
      BY <1>7 DEF RecordOutcome
    <3>4. tx' \in [Keys -> Row]
      BY <2>0, <3>1, <3>2
    <3>5. RowsKept
      BY <2>0, <3>1, <3>2, <3>3
    <3>6. QED
      BY <3>4, <3>5
  <2>2. call' = [call EXCEPT ![h] = IdleCall] /\ call' \in [Callers -> Call]
    BY <1>7, CallType DEF RecordOutcome, EndCall
  <2>3. hpc' = [hpc EXCEPT ![h] = "200"] \/ hpc' = [hpc EXCEPT ![h] = "202"]
    BY <1>7 DEF RecordOutcome, MutationHttpStatus
  <2>4. /\ hpc[h] = "calling"
        /\ UNCHANGED <<ledger, orphans, hreq, wpc, batch, sweep, reclaimed, faults>>
    BY <1>7 DEF RecordOutcome
  <2>5. TypeOK'
    <3>1. hpc' \in [Handlers -> {"idle"} \cup Active \cup Codes]
      BY <2>3
    <3>2. QED
      BY <2>1, <2>2, <2>4, <3>1
  <2>6. CallsAreNamed' /\ RequestsAreNamed' /\ WorkersCall'
    BY <2>2, <2>3, <2>4 DEF IdleCall
  <2>7. /\ \A g \in Handlers :
             hpc'[g] \in {"claim", "reread"} => tx'[hreq'[g].key].status # "absent"
        /\ \A c \in Callers \ {h} : call'[c] = call[c]
        /\ call'[h].outcome = "none"
    BY <2>1, <2>2, <2>3, <2>4 DEF IdleCall
  <2>8. RowExists'
    BY ONLY TypeInv, <2>1, <2>4, <2>7, WorkKeepsRows
  <2>9. QED
    BY <2>5, <2>6, <2>8
<1>8. CASE HandlerFails(h)
  <2>1. call' \in [Callers -> Call]
    BY <1>8, CallType DEF HandlerFails, EndCall
  <2>2. QED
    BY <1>8, <2>1 DEF HandlerFails, EndCall, IdleCall
<1>9. CASE HandlerVanishes(h)
  <2>1. call' \in [Callers -> Call]
    BY <1>9, CallType DEF HandlerVanishes, Abandon, EndCall
  <2>2. orphans' \subseteq [key : Keys, intent : Intents]
    BY <1>9 DEF HandlerVanishes, Abandon
  <2>3. QED
    BY <1>9, <2>1, <2>2 DEF HandlerVanishes, Abandon, EndCall, IdleCall
<1>10. QED
  BY <1>1, <1>2, <1>3, <1>4, <1>5, <1>6, <1>7, <1>8, <1>9 DEF HandlerStep

(* Requeueing stale rows changes statuses to pending only.                 *)
LEMMA RequeueType ==
    ASSUME TypeInv, RequeueStalePosting
    PROVE  /\ tx' \in [Keys -> Row]
           /\ RowsKept
           /\ reclaimed' \subseteq Keys
<1>1. \A k \in Keys : tx[k] \in Row /\ UpdateStatus(tx[k], "pending") \in Row
                       /\ UpdateStatus(tx[k], "pending").status = "pending"
                       /\ UpdateStatus(tx[k], "pending").intent = tx[k].intent
  BY RowUpdates DEF TypeInv, TypeOK, Statuses
<1>2. \A k \in Keys : StalePosting(tx[k]) => tx[k].status = "posting"
  BY DEF StalePosting
<1>3. QED
  BY <1>1, <1>2 DEF TypeInv, TypeOK, RowExists, RowsKept, HasRow, RequeueStalePosting

(* A step that keeps the callers where they are keeps the type invariant   *)
(* if the rows it writes are rows.                                         *)
LEMMA RowsFrame ==
    ASSUME TypeInv,
           tx' \in [Keys -> Row],
           RowsKept,
           UNCHANGED <<ledger, call, orphans, hpc, hreq, faults>>,
           wpc' \in [Workers -> {"reclaim", "claim", "posting", "calling"}],
           \A w \in Workers : wpc'[w] = "calling" <=> wpc[w] = "calling",
           batch' \in [Workers -> SUBSET Claim],
           \A v \in Workers : \A b \in batch'[v] : HasRow(b.key)',
           sweep' \in {"requeue", "fail"},
           reclaimed' \subseteq Keys
    PROVE  TypeInv'
<1> USE DEF TypeInv
<1>1. TypeOK'
  BY DEF TypeOK
<1>2. CallsAreNamed' /\ RequestsAreNamed' /\ WorkersCall'
  BY DEF CallsAreNamed, RequestsAreNamed, WorkersCall
<1>3. RowExists'
  BY DEF RowExists, RowsKept, HasRow, RequestsAreNamed, CallsAreNamed, TypeOK
<1>4. QED
  BY <1>1, <1>2, <1>3

(* A step of worker w that ends its call, possibly writing a row.          *)
LEMMA WorkerFrame ==
    ASSUME TypeInv, NEW w \in Workers,
           tx' \in [Keys -> Row],
           RowsKept,
           call' = [call EXCEPT ![w] = IdleCall],
           orphans' \subseteq [key : Keys, intent : Intents],
           \A o \in orphans' : HasRow(o.key),
           UNCHANGED <<ledger, hpc, hreq, sweep, reclaimed>>,
           \E pc \in {"reclaim", "posting"} : wpc' = [wpc EXCEPT ![w] = pc],
           \A v \in Workers : batch'[v] \subseteq batch[v],
           batch' \in [Workers -> SUBSET Claim],
           faults' \in 0 .. MaxFaults
    PROVE  TypeInv'
<1> USE DEF TypeInv
<1>1. TypeOK'
  BY CallType DEF TypeOK
<1>2. call'[w].outcome = "none" /\ \A c \in Callers \ {w} : call'[c] = call[c]
  BY DEF TypeOK, Callers, IdleCall
<1>3. CallsAreNamed'
  BY <1>2 DEF CallsAreNamed
<1>4. RequestsAreNamed'
  BY <1>2, CallersAssumption DEF RequestsAreNamed, Callers
<1>5. WorkersCall'
  BY <1>2 DEF WorkersCall, TypeOK, Callers
<1>6. RowExists'
  <2>1. \A k \in Keys : HasRow(k)' => tx'[k].intent \in Intents
    BY DEF RowsKept
  <2>2. \A h \in Handlers : hpc'[h] \in {"claim", "reread"} => tx'[hreq'[h].key].status # "absent"
    BY <1>2, CallersAssumption DEF RowExists, RowsKept, HasRow, RequestsAreNamed, Callers
  <2>3. \A c \in Callers : call'[c].outcome # "none" => tx'[call'[c].key].status # "absent"
    BY <1>2 DEF RowExists, RowsKept, HasRow, CallsAreNamed
  <2>4. \A v \in Workers : \A b \in batch'[v] : HasRow(b.key)'
    BY DEF RowExists, RowsKept, HasRow, TypeOK, Claim
  <2>5. \A o \in orphans' : HasRow(o.key)'
    BY DEF RowsKept, HasRow
  <2>6. QED
    BY <2>1, <2>2, <2>3, <2>4, <2>5 DEF RowExists, HasRow
<1>7. QED
  BY <1>1, <1>3, <1>4, <1>5, <1>6

(* Every worker step keeps the types (transaction_retry.rs).               *)
LEMMA WorkerTypeInv ==
    ASSUME TypeInv, NEW w \in Workers,
           WorkerStep(w) \/ RecordFails(w) \/ WorkerCrashes(w)
    PROVE  TypeInv'
<1> USE DEF GoWorker, unchangedByWorker
<1>0. /\ tx \in [Keys -> Row] /\ call \in [Callers -> Call] /\ w \in Callers
      /\ batch \in [Workers -> SUBSET Claim]
      /\ orphans \subseteq [key : Keys, intent : Intents]
      /\ faults \in 0 .. MaxFaults
      /\ wpc \in [Workers -> {"reclaim", "claim", "posting", "calling"}]
      /\ sweep \in {"requeue", "fail"} /\ reclaimed \subseteq Keys
  BY DEF TypeInv, TypeOK, Callers
<1>1. CASE ReclaimStalePostingRows(w)
  <2>1. RowsKept /\ tx' \in [Keys -> Row] /\ reclaimed' \subseteq Keys
    BY <1>1, RequeueType DEF ReclaimStalePostingRows
  <2>2. \A v \in Workers : \A b \in batch'[v] : HasRow(b.key)'
    BY <1>0, <1>1, <2>1 DEF ReclaimStalePostingRows, TypeInv, RowExists, RowsKept, Claim
  <2>3. QED
    BY <1>0, <1>1, <2>1, <2>2, RowsFrame DEF ReclaimStalePostingRows
<1>2. CASE ClaimPendingTransactions(w)
  <2> DEFINE due  == {k \in Keys : DueForRetry(tx[k])}
             rows == [k \in Keys |-> IF k \in due THEN ClaimForRetry(tx[k]) ELSE tx[k]]
             new  == {[key |-> k, intent |-> tx[k].intent, attempts |-> rows[k].attempts] : k \in due}
  <2>1. \A k \in due : tx[k].status = "pending" /\ tx[k].intent \in Intents
    BY DEF DueForRetry, TypeInv, RowExists, HasRow
  <2>2. \A k \in Keys : /\ rows[k] \in Row
                        /\ tx[k].status # "absent" => rows[k].status # "absent"
                        /\ rows[k].status # "absent" => rows[k].intent \in Intents
    BY <1>0, <2>1, RowUpdates DEF TypeInv, RowExists, HasRow
  <2>3. new \subseteq Claim
    BY <2>1, <2>2 DEF Claim, Row
  <2>4. /\ tx' = rows
        /\ batch' = [batch EXCEPT ![w] = new]
        /\ wpc[w] = "claim"
        /\ \E pc \in {"reclaim", "posting"} : wpc' = [wpc EXCEPT ![w] = pc]
        /\ UNCHANGED <<ledger, call, orphans, hpc, hreq, sweep, faults, reclaimed>>
    BY <1>2 DEF ClaimPendingTransactions
  <2> HIDE DEF due, rows, new
  <2>5. tx' \in [Keys -> Row] /\ RowsKept
    BY <2>2, <2>4 DEF rows, RowsKept, HasRow
  <2>6. batch' \in [Workers -> SUBSET Claim]
    BY <1>0, <2>3, <2>4
  <2>7. /\ wpc' \in [Workers -> {"reclaim", "claim", "posting", "calling"}]
        /\ \A v \in Workers : wpc'[v] = "calling" <=> wpc[v] = "calling"
    BY <1>0, <2>4
  <2>8. \A b \in new : b.key \in Keys /\ HasRow(b.key)
    BY <2>1 DEF new, due, HasRow
  <2>9. \A v \in Workers : \A b \in batch'[v] : HasRow(b.key)'
    BY <1>0, <2>4, <2>5, <2>8 DEF TypeInv, RowExists, RowsKept, Claim
  <2>10. QED
    BY <1>0, <2>4, <2>5, <2>6, <2>7, <2>9, RowsFrame
<1>3. CASE PostNextClaimed(w)
  <2>1. PICK c \in batch[w] :
          /\ call' = [call EXCEPT ![w] = [key |-> c.key, intent |-> c.intent,
                                          attempts |-> c.attempts, outcome |-> "sent"]]
          /\ batch' = [batch EXCEPT ![w] = batch[w] \ {c}]
    BY <1>0, <1>3 DEF PostNextClaimed, SendCall
  <2>2. c.key \in Keys /\ c.intent \in Intents /\ c.attempts \in Attempts
    BY <1>0 DEF Claim
  <2>3. call' \in [Callers -> Call] /\ batch' \in [Workers -> SUBSET Claim]
    BY <1>0, <2>1, <2>2, CallType
  <2>4. /\ wpc' = [wpc EXCEPT ![w] = "calling"]
        /\ UNCHANGED <<tx, ledger, orphans, hpc, hreq, sweep, reclaimed, faults>>
    BY <1>3 DEF PostNextClaimed
  <2>5. call'[w].outcome = "sent" /\ call'[w].key = c.key /\ call'[w].intent = c.intent
    BY <1>0, <2>1
  <2>6. \A d \in Callers \ {w} : call'[d] = call[d]
    BY <1>0, <2>1
  <2>7. TypeOK'
    BY <2>3, <2>4 DEF TypeInv, TypeOK
  <2>8. CallsAreNamed' /\ RequestsAreNamed' /\ WorkersCall'
    BY <1>0, <2>2, <2>4, <2>5, <2>6, CallersAssumption
       DEF TypeInv, CallsAreNamed, RequestsAreNamed, WorkersCall, Callers
  <2>9. RowExists'
    BY <1>0, <2>1, <2>4, <2>5, <2>6 DEF TypeInv, RowExists, HasRow
  <2>10. QED
    BY <2>7, <2>8, <2>9 DEF TypeInv
<1>4. CASE RecordPostResult(w)
  <2> DEFINE k == call[w].key
  <2>1. k \in Keys /\ tx[k] \in Row
    BY <1>0, <1>4 DEF RecordPostResult, TypeInv, CallsAreNamed
  <2>2. \E r \in {UpdateStatus(tx[k], "posted"), MarkTerminalFailure(tx[k]), ScheduleRetry(tx[k])} :
           tx' = [tx EXCEPT ![k] = r]
    BY <1>4 DEF RecordPostResult, SetRow
  <2>3. ASSUME NEW r \in {UpdateStatus(tx[k], "posted"), MarkTerminalFailure(tx[k]),
                          ScheduleRetry(tx[k])}
        PROVE  r \in Row /\ r.status # "absent" /\ r.intent = tx[k].intent
    BY <2>1, <2>3, RowUpdates DEF Statuses
  <2>4. HasRow(k) /\ tx[k].intent \in Intents
    BY <1>0, <1>4, <2>1 DEF RecordPostResult, TypeInv, RowExists
  <2>5. tx' \in [Keys -> Row] /\ RowsKept
    BY <1>0, <2>1, <2>2, <2>3, <2>4 DEF RowsKept, HasRow, TypeInv, RowExists
  <2>6. QED
    BY <1>0, <1>4, <2>5, WorkerFrame DEF RecordPostResult, EndCall, AfterPost, TypeInv, RowExists
<1>5. CASE RecordFails(w)
  <2>0. faults' \in 0 .. MaxFaults
    BY <1>0, <1>5, FaultsAssumption DEF RecordFails
  <2>1. /\ call' = [call EXCEPT ![w] = IdleCall]
        /\ \E pc \in {"reclaim", "posting"} : wpc' = [wpc EXCEPT ![w] = pc]
        /\ UNCHANGED <<tx, ledger, orphans, batch, hpc, hreq, sweep, reclaimed>>
    BY <1>5 DEF RecordFails, EndCall, AfterPost
  <2>2. RowsKept
    BY <2>1 DEF RowsKept, HasRow, TypeInv, RowExists
  <2>3. \A o \in orphans' : HasRow(o.key)
    BY <2>1 DEF TypeInv, RowExists
  <2>4. QED
    BY <1>0, <2>0, <2>1, <2>2, <2>3, WorkerFrame
<1>6. CASE WorkerCrashes(w)
  <2>1. orphans' \subseteq [key : Keys, intent : Intents]
    BY <1>0, <1>6 DEF WorkerCrashes, Abandon, TypeInv, CallsAreNamed
  <2>2. batch' \in [Workers -> SUBSET Claim]
    BY <1>0, <1>6 DEF WorkerCrashes
  <2>3. \A o \in orphans' : HasRow(o.key)
    BY <1>0, <1>6 DEF WorkerCrashes, Abandon, TypeInv, RowExists
  <2>4. \A v \in Workers : batch'[v] \subseteq batch[v]
    BY <1>0, <1>6 DEF WorkerCrashes
  <2>5. /\ call' = [call EXCEPT ![w] = IdleCall]
        /\ wpc' = [wpc EXCEPT ![w] = "reclaim"]
        /\ faults' \in 0 .. MaxFaults
        /\ UNCHANGED <<tx, ledger, hpc, hreq, sweep, reclaimed>>
    BY <1>0, <1>6, FaultsAssumption DEF WorkerCrashes, Abandon, EndCall
  <2>6. RowsKept
    BY <2>5 DEF RowsKept, HasRow, TypeInv, RowExists
  <2>7. QED
    BY <1>0, <2>1, <2>2, <2>3, <2>4, <2>5, <2>6, WorkerFrame
<1>7. QED
  BY <1>1, <1>2, <1>3, <1>4, <1>5, <1>6 DEF WorkerStep

(* The reconciler and the clock only write rows.                           *)
LEMMA RowWriterTypeInv ==
    ASSUME TypeInv,
           \/ ReconcileRequeue \/ ReconcileFail
           \/ \E k \in Keys : LeaseExpires(k) \/ BackoffElapses(k) \/ RowAges(k)
    PROVE  TypeInv'
<1>1. ASSUME tx' \in [Keys -> Row], RowsKept, sweep' \in {"requeue", "fail"},
             reclaimed' \subseteq Keys,
             UNCHANGED <<ledger, call, orphans, hpc, hreq, wpc, batch, faults>>
      PROVE  TypeInv'
  <2>1. \A v \in Workers : \A b \in batch'[v] : HasRow(b.key)'
    BY <1>1 DEF TypeInv, TypeOK, RowExists, RowsKept, HasRow, Claim
  <2>2. /\ wpc' \in [Workers -> {"reclaim", "claim", "posting", "calling"}]
        /\ batch' \in [Workers -> SUBSET Claim]
    BY <1>1 DEF TypeInv, TypeOK
  <2>3. QED
    BY <1>1, <2>1, <2>2, RowsFrame
<1>2. CASE ReconcileRequeue
  BY <1>1, <1>2, RequeueType DEF ReconcileRequeue, unchangedByReconciler
<1>3. CASE ReconcileFail
  <2>1. \A k \in Keys : /\ MarkTerminalFailure(tx[k]) \in Row
                        /\ MarkTerminalFailure(tx[k]).status = "failed"
                        /\ MarkTerminalFailure(tx[k]).intent = tx[k].intent
    BY RowUpdates DEF TypeInv, TypeOK
  <2>2. \A k \in Keys : PendingTooLong(tx[k]) => tx[k].status = "pending"
    BY DEF PendingTooLong
  <2>3. tx' \in [Keys -> Row] /\ RowsKept
    BY <1>3, <2>1, <2>2 DEF ReconcileFail, RowsKept, HasRow, TypeInv, TypeOK, RowExists
  <2>4. QED
    BY <1>1, <1>3, <2>3 DEF ReconcileFail, unchangedByReconciler, TypeInv, TypeOK
<1>4. ASSUME NEW k \in Keys, LeaseExpires(k) \/ BackoffElapses(k) \/ RowAges(k)
      PROVE  TypeInv'
  <2>0. tx[k] \in Row
    BY DEF TypeInv, TypeOK
  <2>1. PICK r \in Row : tx' = [tx EXCEPT ![k] = r] /\ r.status = tx[k].status
                                                   /\ r.intent = tx[k].intent
    <3>1. CASE LeaseExpires(k)
      <4>1. tx' = [tx EXCEPT ![k] = [tx[k] EXCEPT !.stale = TRUE]]
        BY <3>1 DEF LeaseExpires
      <4>2. /\ [tx[k] EXCEPT !.stale = TRUE] \in Row
            /\ [tx[k] EXCEPT !.stale = TRUE].status = tx[k].status
            /\ [tx[k] EXCEPT !.stale = TRUE].intent = tx[k].intent
        BY ONLY <2>0 DEF Row
      <4>3. QED
        BY ONLY <4>1, <4>2
    <3>2. CASE BackoffElapses(k)
      <4>1. tx' = [tx EXCEPT ![k] = [tx[k] EXCEPT !.waiting = FALSE]]
        BY <3>2 DEF BackoffElapses
      <4>2. /\ [tx[k] EXCEPT !.waiting = FALSE] \in Row
            /\ [tx[k] EXCEPT !.waiting = FALSE].status = tx[k].status
            /\ [tx[k] EXCEPT !.waiting = FALSE].intent = tx[k].intent
        BY ONLY <2>0 DEF Row
      <4>3. QED
        BY ONLY <4>1, <4>2
    <3>3. CASE RowAges(k)
      <4>1. \E a \in Ages : tx' = [tx EXCEPT ![k] = [tx[k] EXCEPT !.age = a]]
        BY <3>3 DEF RowAges, Ages
      <4>2. QED
        BY <2>0, <4>1 DEF Row
    <3>4. QED
      BY <1>4, <3>1, <3>2, <3>3
  <2>2. tx' \in [Keys -> Row] /\ RowsKept
    BY <2>1 DEF RowsKept, HasRow, TypeInv, TypeOK, RowExists
  <2>3. QED
    BY <1>1, <1>4, <2>2
       DEF LeaseExpires, BackoffElapses, RowAges, unchangedByTime, TypeInv, TypeOK
<1>5. QED
  BY <1>2, <1>3, <1>4

(* The ledger's steps keep the types.                                      *)
LEMMA LedgerTypeInv ==
    ASSUME TypeInv,
           \/ \E c \in Callers : LedgerPosts(c) \/ LedgerRejects(c) \/ CallTimesOut(c)
           \/ \E o \in orphans : OrphanPosts(o) \/ OrphanIsLost(o)
    PROVE  TypeInv'
<1> USE DEF unchangedByLedger
<1>1. ASSUME NEW c \in Callers, LedgerPosts(c) \/ LedgerRejects(c) \/ CallTimesOut(c)
      PROVE  TypeInv'
  <2>1. /\ call[c].outcome \in {"sent", "ok"}
        /\ call[c].key \in Keys /\ call[c].intent \in Intents /\ HasRow(call[c].key)
    BY <1>1 DEF LedgerPosts, LedgerRejects, CallTimesOut, TypeInv, CallsAreNamed, RowExists
  <2>2. PICK o \in {"ok", "err"} : call' = [call EXCEPT ![c].outcome = o]
    BY <1>1 DEF LedgerPosts, LedgerRejects, CallTimesOut, Answer
  <2>3. call' \in [Callers -> Call]
    BY <2>1, <2>2 DEF TypeInv, TypeOK, Call
  <2>11. ASSUME NEW d \in Callers
         PROVE  /\ call'[d].key = call[d].key
                /\ call'[d].intent = call[d].intent
                /\ call'[d].outcome = "none" => call[d].outcome = "none"
                /\ call[d].outcome = "none" => call'[d].outcome = "none"
    BY <2>1, <2>2 DEF TypeInv, TypeOK, Call
  <2>4. ledger' \in [Keys -> Intents \cup {None}]
    BY <1>1, <2>1 DEF LedgerPosts, LedgerRejects, CallTimesOut, PostOnce, TypeInv, TypeOK
  <2>5. /\ orphans' \subseteq [key : Keys, intent : Intents]
        /\ \A o2 \in orphans' : HasRow(o2.key)
    BY <1>1, <2>1 DEF LedgerPosts, LedgerRejects, CallTimesOut, TypeInv, TypeOK, RowExists
  <2>6. UNCHANGED <<tx, hpc, hreq, wpc, batch, sweep, reclaimed, faults>>
    BY <1>1 DEF LedgerPosts, LedgerRejects, CallTimesOut
  <2>7. TypeOK'
    BY <2>3, <2>4, <2>5, <2>6 DEF TypeInv, TypeOK
  <2>8. CallsAreNamed' /\ RequestsAreNamed' /\ WorkersCall'
    <3>1. CallsAreNamed'
      <4>1. SUFFICES ASSUME NEW d \in Callers, call'[d].outcome # "none"
                     PROVE  call'[d].key \in Keys /\ call'[d].intent \in Intents
        BY DEF CallsAreNamed
      <4>2. call[d].outcome # "none" => call[d].key \in Keys /\ call[d].intent \in Intents
        BY DEF TypeInv, CallsAreNamed
      <4>3. QED
        BY ONLY <2>11, <4>1, <4>2
    <3>2. ASSUME NEW h \in Handlers
          PROVE  /\ hpc'[h] # "idle" => hreq'[h].key \in Keys /\ hreq'[h].intent \in Intents
                 /\ hpc'[h] = "calling" <=> call'[h].outcome # "none"
                 /\ hpc'[h] = "calling" => call'[h].key = hreq'[h].key
      <4>1. h \in Callers
        BY DEF Callers
      <4>2. /\ hpc[h] # "idle" => hreq[h].key \in Keys /\ hreq[h].intent \in Intents
            /\ (hpc[h] = "calling") <=> (call[h].outcome # "none")
            /\ hpc[h] = "calling" => call[h].key = hreq[h].key
        BY DEF TypeInv, RequestsAreNamed
      <4>3. QED
        BY ONLY <2>11, <2>6, <4>1, <4>2
    <3>3. ASSUME NEW w \in Workers
          PROVE  wpc'[w] = "calling" <=> call'[w].outcome # "none"
      <4>1. w \in Callers
        BY DEF Callers
      <4>2. (wpc[w] = "calling") <=> (call[w].outcome # "none")
        BY DEF TypeInv, WorkersCall
      <4>3. QED
        BY ONLY <2>11, <2>6, <4>1, <4>2
    <3>4. QED
      BY <3>1, <3>2, <3>3 DEF RequestsAreNamed, WorkersCall
  <2>9. RowExists'
    <3>1. \A d \in Callers : call'[d].outcome # "none" => tx'[call'[d].key].status # "absent"
      BY <2>11, <2>6 DEF TypeInv, RowExists, HasRow
    <3>2. \A o2 \in orphans' : tx'[o2.key].status # "absent"
      BY <2>5, <2>6 DEF HasRow
    <3>3. QED
      BY <2>6, <3>1, <3>2 DEF TypeInv, RowExists, HasRow
  <2>10. QED
    BY <2>7, <2>8, <2>9 DEF TypeInv
<1>2. ASSUME NEW o \in orphans, OrphanPosts(o) \/ OrphanIsLost(o)
      PROVE  TypeInv'
  <2>1. /\ orphans' \subseteq orphans
        /\ ledger' \in [Keys -> Intents \cup {None}]
        /\ UNCHANGED <<tx, call, hpc, hreq, wpc, batch, sweep, reclaimed, faults>>
    BY <1>2 DEF OrphanPosts, OrphanIsLost, PostOnce, TypeInv, TypeOK
  <2>2. TypeOK'
    BY <2>1 DEF TypeInv, TypeOK
  <2>3. CallsAreNamed' /\ RequestsAreNamed' /\ WorkersCall' /\ RowExists'
    BY <2>1 DEF TypeInv, CallsAreNamed, RequestsAreNamed, WorkersCall, RowExists, HasRow
  <2>4. QED
    BY <2>2, <2>3 DEF TypeInv
<1>3. QED
  BY <1>1, <1>2

(* The type invariant is inductive.                                        *)
LEMMA NextTypeInv == TypeInv /\ [Next]_vars => TypeInv'
<1> SUFFICES ASSUME TypeInv, [Next]_vars
             PROVE  TypeInv'
  OBVIOUS
<1>1. CASE Next
  BY <1>1, HandlerTypeInv, WorkerTypeInv, RowWriterTypeInv, LedgerTypeInv DEF Next
<1>2. CASE UNCHANGED vars
  BY <1>2 DEF vars, TypeInv, TypeOK, CallsAreNamed, RequestsAreNamed, WorkersCall,
              RowExists, HasRow
<1>3. QED
  BY <1>1, <1>2

(* Every variable keeps its type; calls, requests and batches name keys    *)
(* whose row was inserted before anything left the service.                *)
THEOREM TypeCorrect == Spec => []TypeInv
<1>1. Init => TypeInv
  BY InitTypeInv
<1>2. TypeInv /\ [Next]_vars => TypeInv'
  BY NextTypeInv
<1>3. QED
  BY <1>1, <1>2, PTL DEF Spec

(* Every variable has its type, whatever the UPDATEs and the callers do.   *)
THEOREM TypesAreKept == Spec => []TypeOK
<1>1. TypeInv => TypeOK
  BY DEF TypeInv
<1>. QED
  BY <1>1, TypeCorrect, PTL

-----------------------------------------------------------------------------
(* The inductive invariant.  A status of "posted" and a reply of 200 both  *)
(* derive from an answer of the ledger, so the answers a caller holds have *)
(* to be covered as well.                                                  *)

AnsweredIsOnLedger ==
    \A c \in Callers : call[c].outcome = "ok" => ledger[call[c].key] # None

LedgerInv == PostedIsOnLedger /\ ConfirmedIsOnLedger /\ AnsweredIsOnLedger

(* The reply to a request is 200 only for a posted row.                    *)
LEMMA OnlyPostedIs200 ==
    \A s \in Statuses : MutationHttpStatus(s) = "200" <=> s = "posted"
BY DEF MutationHttpStatus, Statuses

LEMMA InitLedgerInv == Init => LedgerInv
BY DEF Init, LedgerInv, PostedIsOnLedger, ConfirmedIsOnLedger, AnsweredIsOnLedger,
       NoRow, IdleCall

(* A step that leaves the ledger alone.                                    *)
LEMMA LedgerFrame ==
    ASSUME TypeInv, LedgerInv, UNCHANGED ledger,
           \A k \in Keys : tx'[k].status = "posted" => tx[k].status = "posted" \/ ledger[k] # None,
           \A h \in Handlers : hpc'[h] = "200" => ledger[hreq'[h].key] # None,
           \A c \in Callers : call'[c].outcome = "ok" => call'[c] = call[c]
    PROVE  LedgerInv'
<1>1. PostedIsOnLedger'
  BY DEF LedgerInv, PostedIsOnLedger
<1>2. ConfirmedIsOnLedger'
  BY DEF ConfirmedIsOnLedger
<1>3. AnsweredIsOnLedger'
  BY DEF LedgerInv, AnsweredIsOnLedger
<1>4. QED
  BY <1>1, <1>2, <1>3 DEF LedgerInv

(* A handler's step (account_service.rs).                                  *)
LEMMA HandlerLedgerInv ==
    ASSUME TypeInv, LedgerInv, NEW h \in Handlers,
           HandlerStep(h) \/ HandlerFails(h) \/ HandlerVanishes(h)
    PROVE  LedgerInv'
<1> USE DEF Go, Key, Status, unchangedByHandler
<1>0. /\ tx \in [Keys -> Row] /\ call \in [Callers -> Call] /\ h \in Callers
      /\ hpc \in [Handlers -> {"idle"} \cup Active \cup Codes]
      /\ hreq \in [Handlers -> [key : Keys \cup {None}, intent : Intents \cup {None}]]
      /\ hpc[h] # "idle" => hreq[h].key \in Keys
      /\ \A g \in Handlers : hpc[g] = "200" => ledger[hreq[g].key] # None
      /\ \A k \in Keys : tx[k].status = "posted" => ledger[k] # None
  BY DEF TypeInv, TypeOK, RequestsAreNamed, Callers, LedgerInv, ConfirmedIsOnLedger,
         PostedIsOnLedger
<1>a. ASSUME NEW k \in Keys, tx[k].status # "absent"
      PROVE  /\ tx[k].status \in Statuses
             /\ MutationHttpStatus(tx[k].status) = "200" => ledger[k] # None
  BY <1>0, <1>a, OnlyPostedIs200 DEF Row
<1>1. CASE \E k \in Keys, i \in Intents : StartRequest(h, k, i)
  <2>1. /\ UNCHANGED <<tx, ledger, call>>
        /\ hpc'[h] # "200"
        /\ \A g \in Handlers \ {h} : hpc'[g] = hpc[g] /\ hreq'[g] = hreq[g]
    BY <1>0, <1>1 DEF StartRequest
  <2>2. QED
    BY <1>0, <2>1, LedgerFrame
<1>2. ASSUME UNCHANGED <<ledger, hreq>>, hpc[h] # "idle",
             \E pc \in Active \cup Codes : /\ hpc' = [hpc EXCEPT ![h] = pc]
                                           /\ pc = "200" => ledger[hreq[h].key] # None,
             \A k \in Keys : tx'[k].status = "posted" => ledger[k] # None,
             \A c \in Callers : call'[c].outcome = "ok" => call'[c] = call[c]
      PROVE  LedgerInv'
  <2>1. \A g \in Handlers : hpc'[g] = "200" => ledger[hreq'[g].key] # None
    BY <1>0, <1>2
  <2>2. QED
    BY <1>2, <2>1, LedgerFrame
<1>3. CASE FindByIdempotency(h)
  <2>1. /\ hpc[h] # "idle" /\ Key(h) \in Keys /\ UNCHANGED <<tx, ledger, call, hreq>>
        /\ hpc' = [hpc EXCEPT ![h] =
                CASE Status(h) = "absent"               -> "balance"
                  [] Status(h) \in {"posted", "posting"} -> MutationHttpStatus(Status(h))
                  [] OTHER                               -> "create"]
    BY <1>0, <1>3 DEF FindByIdempotency
  <2>2. CASE Status(h) \in {"posted", "posting"}
    <3>1. /\ MutationHttpStatus(Status(h)) \in Codes
          /\ MutationHttpStatus(Status(h)) = "200" => ledger[hreq[h].key] # None
      BY <2>1, <2>2, <1>a DEF MutationHttpStatus, Codes
    <3>2. hpc' = [hpc EXCEPT ![h] = MutationHttpStatus(Status(h))]
      BY <2>1, <2>2
    <3>3. QED
      BY <1>0, <1>2, <2>1, <3>1, <3>2
  <2>3. CASE Status(h) \notin {"posted", "posting"}
    <3>1. \E pc \in {"balance", "create"} : hpc' = [hpc EXCEPT ![h] = pc]
      BY <2>1, <2>3
    <3>2. QED
      BY <1>0, <1>2, <2>1, <3>1 DEF Active
  <2>4. QED
    BY <2>2, <2>3
<1>4. CASE CheckBalance(h)
  BY <1>0, <1>2, <1>4 DEF CheckBalance, Active, Codes
<1>5. CASE CreateOrGetByIdempotency(h)
  <2>1. Key(h) \in Keys /\ hreq[h].intent \in Intents
    BY <1>5 DEF CreateOrGetByIdempotency, TypeInv, RequestsAreNamed
  <2>2. NewRow(hreq[h].intent).status = "pending"
    BY <2>1, NewRowType
  <2>3. \A k \in Keys : tx'[k].status = "posted" => ledger[k] # None
    BY <1>0, <1>5, <2>1, <2>2 DEF CreateOrGetByIdempotency, SetRow
  <2>4. \E pc \in Active \cup Codes : /\ hpc' = [hpc EXCEPT ![h] = pc]
                                      /\ pc = "200" => ledger[hreq[h].key] # None
    <3>1. CASE Status(h) \in {"absent", "pending"}
      <4>1. hpc' = [hpc EXCEPT ![h] = "claim"]
        BY <1>5, <3>1 DEF CreateOrGetByIdempotency
      <4>2. "claim" \in Active \cup Codes
        BY DEF Active
      <4>3. QED
        BY <4>1, <4>2
    <3>2. CASE Status(h) \notin {"absent", "pending"}
      <4>1. hpc' = [hpc EXCEPT ![h] = MutationHttpStatus(Status(h))]
        BY <1>5, <3>2 DEF CreateOrGetByIdempotency
      <4>2. /\ MutationHttpStatus(Status(h)) \in Codes
            /\ MutationHttpStatus(Status(h)) = "200" => ledger[hreq[h].key] # None
        <5>1. Status(h) \in {"posting", "posted", "failed"}
          BY <2>1, <3>2, <1>a DEF Statuses
        <5>2. MutationHttpStatus(Status(h)) = "200" => ledger[Key(h)] # None
          BY <2>1, <5>1, <1>a
        <5>3. QED
          BY <5>1, <5>2 DEF MutationHttpStatus, Codes
      <4>3. QED
        BY <4>1, <4>2
    <3>3. QED
      BY <3>1, <3>2
  <2>5. hpc[h] # "idle" /\ UNCHANGED <<ledger, hreq, call>>
    BY <1>5 DEF CreateOrGetByIdempotency
  <2>6. QED
    BY <1>2, <2>3, <2>4, <2>5
<1>6. CASE TryClaimPendingForPost(h)
  <2>1. hpc[h] # "idle" /\ UNCHANGED <<ledger, hreq>> /\ Key(h) \in Keys
    BY <1>0, <1>6 DEF TryClaimPendingForPost
  <2>2. UpdateStatus(tx[Key(h)], "posting").status = "posting"
    BY <1>0, <2>1, RowUpdates DEF Statuses
  <2>3. \A k \in Keys : tx'[k].status = "posted" => ledger[k] # None
    BY <1>0, <1>6, <2>1, <2>2 DEF TryClaimPendingForPost, SetRow
  <2>4. \E pc \in Active \cup Codes : hpc' = [hpc EXCEPT ![h] = pc] /\ pc # "200"
    BY <1>6 DEF TryClaimPendingForPost, Active
  <2>5. \A c \in Callers : call'[c].outcome = "ok" => call'[c] = call[c]
    BY <1>0, <1>6 DEF TryClaimPendingForPost, SendCall
  <2>6. QED
    BY <1>2, <2>1, <2>3, <2>4, <2>5
<1>7. CASE FindById(h)
  <2>1. Key(h) \in Keys /\ tx[Key(h)].status # "absent"
    BY <1>0, <1>7 DEF FindById, TypeInv, RowExists, HasRow
  <2>2. MutationHttpStatus(Status(h)) \in Codes
    BY <2>1, <1>a DEF MutationHttpStatus, Statuses, Codes
  <2>3. MutationHttpStatus(Status(h)) = "200" => ledger[hreq[h].key] # None
    BY <2>1, <1>a
  <2>4. QED
    BY <1>0, <1>2, <1>7, <2>2, <2>3 DEF FindById
<1>8. CASE RecordOutcome(h)
  <2>1. /\ hpc[h] = "calling" /\ Key(h) \in Keys /\ call[h].key = Key(h)
        /\ UNCHANGED <<ledger, hreq>>
        /\ call' = [call EXCEPT ![h] = IdleCall]
    BY <1>0, <1>8 DEF RecordOutcome, EndCall, TypeInv, RequestsAreNamed
  <2>2. PICK s \in {"posted", "pending"} :
           /\ tx' = [tx EXCEPT ![Key(h)] = UpdateStatus(tx[Key(h)], s)]
           /\ hpc' = [hpc EXCEPT ![h] = MutationHttpStatus(s)]
           /\ s = "posted" => call[h].outcome = "ok"
    BY <1>8 DEF RecordOutcome, SetRow
  <2>3. s = "posted" => ledger[Key(h)] # None
    BY <1>0, <2>1, <2>2 DEF LedgerInv, AnsweredIsOnLedger
  <2>4. s \in Statuses /\ UpdateStatus(tx[Key(h)], s).status = s
    BY <1>0, <2>1, RowUpdates DEF Statuses
  <2>5. MutationHttpStatus(s) \in Codes /\ (MutationHttpStatus(s) = "200" <=> s = "posted")
    BY <2>4, OnlyPostedIs200 DEF MutationHttpStatus, Codes
  <2>6. \A k \in Keys : tx'[k].status = "posted" => ledger[k] # None
    BY <1>0, <2>1, <2>2, <2>3, <2>4
  <2>7. \A c \in Callers : call'[c].outcome = "ok" => call'[c] = call[c]
    BY <1>0, <2>1 DEF IdleCall
  <2>8. QED
    BY <1>2, <2>1, <2>2, <2>3, <2>5, <2>6, <2>7
<1>9. CASE HandlerFails(h) \/ HandlerVanishes(h)
  <2>1. /\ UNCHANGED <<tx, ledger, hreq>> /\ hpc[h] # "idle"
        /\ \E pc \in Codes \ {"200"} : hpc' = [hpc EXCEPT ![h] = pc]
        /\ call' = [call EXCEPT ![h] = IdleCall]
    BY <1>9 DEF HandlerFails, HandlerVanishes, Abandon, EndCall, Codes
  <2>2. \A c \in Callers : call'[c].outcome = "ok" => call'[c] = call[c]
    BY <1>0, <2>1 DEF IdleCall
  <2>3. QED
    BY <1>0, <1>2, <2>1, <2>2
<1>10. QED
  BY <1>1, <1>3, <1>4, <1>5, <1>6, <1>7, <1>8, <1>9 DEF HandlerStep

(* A retry worker's step (transaction_retry.rs).                           *)
LEMMA WorkerLedgerInv ==
    ASSUME TypeInv, LedgerInv, NEW w \in Workers,
           WorkerStep(w) \/ RecordFails(w) \/ WorkerCrashes(w)
    PROVE  LedgerInv'
<1> USE DEF GoWorker, unchangedByWorker
<1>0. /\ tx \in [Keys -> Row] /\ call \in [Callers -> Call] /\ w \in Callers
      /\ \A k \in Keys : tx[k].status = "posted" => ledger[k] # None
      /\ \A h \in Handlers : hpc[h] = "200" => ledger[hreq[h].key] # None
  BY DEF TypeInv, TypeOK, Callers, LedgerInv, ConfirmedIsOnLedger, PostedIsOnLedger
<1>1. CASE ReclaimStalePostingRows(w)
  <2>1. \A k \in Keys : tx'[k].status = "posted" => tx[k].status = "posted"
    BY <1>0, <1>1, RowUpdates DEF ReclaimStalePostingRows, RequeueStalePosting, Statuses
  <2>2. UNCHANGED <<ledger, call, hpc, hreq>>
    BY <1>1 DEF ReclaimStalePostingRows
  <2>3. QED
    BY <1>0, <2>1, <2>2, LedgerFrame
<1>2. CASE ClaimPendingTransactions(w)
  <2>1. \A k \in Keys : tx'[k].status = "posted" => tx[k].status = "posted"
    BY <1>0, <1>2, RowUpdates DEF ClaimPendingTransactions
  <2>2. UNCHANGED <<ledger, call, hpc, hreq>>
    BY <1>2 DEF ClaimPendingTransactions
  <2>3. QED
    BY <1>0, <2>1, <2>2, LedgerFrame
<1>3. CASE PostNextClaimed(w)
  <2>1. UNCHANGED <<tx, ledger, hpc, hreq>>
    BY <1>3 DEF PostNextClaimed
  <2>2. \A c \in Callers : call'[c].outcome = "ok" => call'[c] = call[c]
    BY <1>0, <1>3 DEF PostNextClaimed, SendCall
  <2>3. QED
    BY <1>0, <2>1, <2>2, LedgerFrame
<1>4. CASE RecordPostResult(w)
  <2> DEFINE k == call[w].key
  <2>1. /\ k \in Keys /\ tx[k] \in Row /\ UNCHANGED <<ledger, hpc, hreq>>
        /\ call' = [call EXCEPT ![w] = IdleCall]
    BY <1>0, <1>4 DEF RecordPostResult, EndCall, TypeInv, CallsAreNamed
  <2>2. \A c \in Callers : call'[c].outcome = "ok" => call'[c] = call[c]
    BY <1>0, <2>1 DEF IdleCall
  <2>3. CASE call[w].outcome = "ok"
    <3>1. ledger[k] # None
      BY <1>0, <2>3 DEF LedgerInv, AnsweredIsOnLedger
    <3>2. tx' = [tx EXCEPT ![k] = UpdateStatus(tx[k], "posted")]
      BY <1>4, <2>3 DEF RecordPostResult, SetRow
    <3>3. \A j \in Keys : tx'[j].status = "posted" => tx[j].status = "posted" \/ ledger[j] # None
      BY <1>0, <2>1, <3>1, <3>2
    <3>4. QED
      BY <1>0, <2>1, <2>2, <3>3, LedgerFrame
  <2>4. CASE call[w].outcome = "err"
    <3>1. PICK r \in {MarkTerminalFailure(tx[k]), ScheduleRetry(tx[k])} :
             tx' = [tx EXCEPT ![k] = r]
      BY <1>4, <2>4 DEF RecordPostResult, SetRow
    <3>2. r.status # "posted"
      BY <2>1, <3>1, RowUpdates
    <3>3. \A j \in Keys : tx'[j].status = "posted" => tx[j].status = "posted" \/ ledger[j] # None
      BY <1>0, <2>1, <3>1, <3>2
    <3>4. QED
      BY <1>0, <2>1, <2>2, <3>3, LedgerFrame
  <2>5. QED
    BY <1>4, <2>3, <2>4 DEF RecordPostResult
<1>5. CASE RecordFails(w) \/ WorkerCrashes(w)
  <2>1. UNCHANGED <<tx, ledger, hpc, hreq>> /\ call' = [call EXCEPT ![w] = IdleCall]
    BY <1>5 DEF RecordFails, WorkerCrashes, Abandon, EndCall
  <2>2. \A c \in Callers : call'[c].outcome = "ok" => call'[c] = call[c]
    BY <1>0, <2>1 DEF IdleCall
  <2>3. QED
    BY <1>0, <2>1, <2>2, LedgerFrame
<1>6. QED
  BY <1>1, <1>2, <1>3, <1>4, <1>5 DEF WorkerStep

(* The reconciler and the clock never write "posted".                      *)
LEMMA RowWriterLedgerInv ==
    ASSUME TypeInv, LedgerInv,
           \/ ReconcileRequeue \/ ReconcileFail
           \/ \E k \in Keys : LeaseExpires(k) \/ BackoffElapses(k) \/ RowAges(k)
    PROVE  LedgerInv'
<1>0. /\ tx \in [Keys -> Row]
      /\ \A h \in Handlers : hpc[h] = "200" => ledger[hreq[h].key] # None
  BY DEF TypeInv, TypeOK, LedgerInv, ConfirmedIsOnLedger
<1>1. UNCHANGED <<ledger, call, hpc, hreq>>
  BY DEF ReconcileRequeue, ReconcileFail, unchangedByReconciler,
         LeaseExpires, BackoffElapses, RowAges, unchangedByTime
<1>2. \A k \in Keys : tx'[k].status = "posted" => tx[k].status = "posted"
  <2>1. CASE ReconcileRequeue
    BY <1>0, <2>1, RowUpdates DEF ReconcileRequeue, RequeueStalePosting, Statuses
  <2>2. CASE ReconcileFail
    BY <1>0, <2>2, RowUpdates DEF ReconcileFail
  <2>3. ASSUME NEW k \in Keys, LeaseExpires(k) \/ BackoffElapses(k) \/ RowAges(k)
        PROVE  \A j \in Keys : tx'[j].status = tx[j].status
    <3>1. CASE LeaseExpires(k)
      BY <1>0, <3>1 DEF LeaseExpires, Row
    <3>2. CASE BackoffElapses(k)
      BY <1>0, <3>2 DEF BackoffElapses, Row
    <3>3. CASE RowAges(k)
      BY <1>0, <3>3 DEF RowAges, Row
    <3>4. QED
      BY <2>3, <3>1, <3>2, <3>3
  <2>4. QED
    BY <2>1, <2>2, <2>3
<1>3. QED
  BY <1>0, <1>1, <1>2, LedgerFrame

(* The ledger keeps what it posted (LedgerPoster finds the existing        *)
(* transaction) and answers "ok" only for it.                              *)
LEMMA LedgerLedgerInv ==
    ASSUME TypeInv, LedgerInv,
           \/ \E c \in Callers : LedgerPosts(c) \/ LedgerRejects(c) \/ CallTimesOut(c)
           \/ \E o \in orphans : OrphanPosts(o) \/ OrphanIsLost(o)
    PROVE  LedgerInv'
<1> USE DEF unchangedByLedger
<1>0. /\ call \in [Callers -> Call] /\ ledger \in [Keys -> Intents \cup {None}]
      /\ orphans \subseteq [key : Keys, intent : Intents]
      /\ CallsAreNamed /\ RequestsAreNamed
  BY DEF TypeInv, TypeOK
<1>1. ASSUME \A k \in Keys : ledger[k] # None => ledger'[k] # None,
             \A c \in Callers : call'[c].outcome = "ok" =>
                  call'[c] = call[c] \/ ledger'[call'[c].key] # None,
             UNCHANGED <<tx, hpc, hreq>>
      PROVE  LedgerInv'
  <2>1. PostedIsOnLedger'
    BY <1>1 DEF LedgerInv, PostedIsOnLedger
  <2>2. ConfirmedIsOnLedger'
    BY <1>0, <1>1 DEF LedgerInv, ConfirmedIsOnLedger, RequestsAreNamed
  <2>3. AnsweredIsOnLedger'
    BY <1>0, <1>1 DEF LedgerInv, AnsweredIsOnLedger, CallsAreNamed
  <2>4. QED
    BY <2>1, <2>2, <2>3 DEF LedgerInv
<1>2. ASSUME NEW k \in Keys, NEW i \in Intents, PostOnce(k, i)
      PROVE  ledger'[k] # None /\ \A j \in Keys : ledger[j] # None => ledger'[j] # None
  BY <1>0, <1>2, IntentsAssumption DEF PostOnce
<1>3. ASSUME NEW c \in Callers, LedgerPosts(c)
      PROVE  LedgerInv'
  <2>1. call[c].key \in Keys /\ call[c].intent \in Intents
    BY <1>0, <1>3 DEF LedgerPosts, CallsAreNamed
  <2>2. /\ ledger'[call[c].key] # None
        /\ \A j \in Keys : ledger[j] # None => ledger'[j] # None
    BY <1>2, <1>3, <2>1 DEF LedgerPosts
  <2>3. call'[c].key = call[c].key /\ \A d \in Callers \ {c} : call'[d] = call[d]
    BY <1>0, <1>3 DEF LedgerPosts, Answer, Call
  <2>4. UNCHANGED <<tx, hpc, hreq>>
    BY <1>3 DEF LedgerPosts
  <2>5. QED
    BY <1>1, <2>2, <2>3, <2>4
<1>4. ASSUME NEW c \in Callers, LedgerRejects(c) \/ CallTimesOut(c)
      PROVE  LedgerInv'
  <2>1. call'[c].outcome = "err" /\ \A d \in Callers \ {c} : call'[d] = call[d]
    BY <1>0, <1>4 DEF LedgerRejects, CallTimesOut, Answer, Call
  <2>2. UNCHANGED <<tx, ledger, hpc, hreq>>
    BY <1>4 DEF LedgerRejects, CallTimesOut
  <2>3. QED
    BY <1>1, <2>1, <2>2
<1>5. ASSUME NEW o \in orphans, OrphanPosts(o) \/ OrphanIsLost(o)
      PROVE  LedgerInv'
  <2>1. o.key \in Keys /\ o.intent \in Intents /\ UNCHANGED <<tx, call, hpc, hreq>>
    BY <1>0, <1>5 DEF OrphanPosts, OrphanIsLost
  <2>2. \A j \in Keys : ledger[j] # None => ledger'[j] # None
    BY <1>2, <1>5, <2>1 DEF OrphanPosts, OrphanIsLost
  <2>3. QED
    BY <1>1, <2>1, <2>2
<1>6. QED
  BY <1>3, <1>4, <1>5

(* LedgerInv is inductive on top of the type invariant.                    *)
LEMMA NextLedgerInv == TypeInv /\ LedgerInv /\ [Next]_vars => LedgerInv'
<1> SUFFICES ASSUME TypeInv, LedgerInv, [Next]_vars
             PROVE  LedgerInv'
  OBVIOUS
<1>1. CASE Next
  BY <1>1, HandlerLedgerInv, WorkerLedgerInv, RowWriterLedgerInv, LedgerLedgerInv DEF Next
<1>2. CASE UNCHANGED vars
  BY <1>2 DEF vars, LedgerInv, PostedIsOnLedger, ConfirmedIsOnLedger, AnsweredIsOnLedger
<1>3. QED
  BY <1>1, <1>2

LEMMA LedgerInvAlways == Spec => []LedgerInv
<1>1. Init => LedgerInv
  BY InitLedgerInv
<1>2. TypeInv /\ LedgerInv /\ [Next]_vars => LedgerInv'
  BY NextLedgerInv
<1>3. QED
  BY <1>1, <1>2, TypeCorrect, PTL DEF Spec

(* A row says posted only when the ledger holds its transaction, for any   *)
(* number of requests, replicas, keys and crashes.                         *)
THEOREM PostedRowsAreOnLedger == Spec => []PostedIsOnLedger
<1>1. LedgerInv => PostedIsOnLedger
  BY DEF LedgerInv
<1>2. QED
  BY <1>1, LedgerInvAlways, PTL

(* A client is answered 200 only for a transaction the ledger holds.       *)
THEOREM ConfirmedRequestsAreOnLedger == Spec => []ConfirmedIsOnLedger
<1>1. LedgerInv => ConfirmedIsOnLedger
  BY DEF LedgerInv
<1>2. QED
  BY <1>1, LedgerInvAlways, PTL

-----------------------------------------------------------------------------
(* The outbox implements OutboundTask.  Only three kinds of step are not   *)
(* a stutter of the abstract task: the insert of a row, the ledger's first *)
(* post of a key, and the reply 200.                                       *)

Confirmed == {k \in Keys : \E h \in Handlers : hpc[h] = "200" /\ hreq[h].key = k}

SameRows == \A k \in Keys : (tx'[k].status = "absent") <=> (tx[k].status = "absent")

SameReplies ==
    \A h \in Handlers : /\ (hpc'[h] = "200") <=> (hpc[h] = "200")
                        /\ hpc[h] = "200" => hreq'[h].key = hreq[h].key

LEMMA AbsStutter ==
    ASSUME SameRows, SameReplies, UNCHANGED ledger
    PROVE  UNCHANGED Abs!vars
<1>1. {k \in Keys : tx[k].status # "absent"}' = {k \in Keys : tx[k].status # "absent"}
  BY DEF SameRows
<1>2. Confirmed' = Confirmed
  BY DEF SameReplies, Confirmed
<1>3. QED
  BY <1>1, <1>2 DEF Abs!vars, Confirmed

(* A reply: h stops at 200, for a key the ledger has posted.               *)
LEMMA AbsConfirm ==
    ASSUME TypeInv, LedgerInv', NEW h \in Handlers, SameRows, UNCHANGED <<ledger, hreq>>,
           hreq[h].key \in Keys, hpc'[h] = "200",
           \A g \in Handlers \ {h} : hpc'[g] = hpc[g]
    PROVE  Abs!Next
<1> PICK k \in Keys : k = hreq[h].key
  OBVIOUS
<1>1. {j \in Keys : tx[j].status # "absent"}' = {j \in Keys : tx[j].status # "absent"}
  BY DEF SameRows
<1>2. ledger[k] # None
  BY DEF LedgerInv, ConfirmedIsOnLedger
<1>3. Confirmed' = Confirmed \cup {k}
  BY DEF Confirmed
<1>4. Abs!Confirm(k)
  BY <1>1, <1>2, <1>3 DEF Abs!Confirm, Confirmed
<1>5. QED
  BY <1>4 DEF Abs!Next

LEMMA AbsInit == Init => Abs!Init
<1> SUFFICES ASSUME Init
             PROVE  Abs!Init
  OBVIOUS
<1>1. {k \in Keys : tx[k].status # "absent"} = {}
  BY DEF Init, NoRow
<1>2. Confirmed = {}
  BY DEF Init, Confirmed
<1>3. ledger = [k \in Keys |-> None]
  BY DEF Init
<1>4. QED
  BY <1>1, <1>2, <1>3 DEF Abs!Init, Confirmed

LEMMA AbsHandler ==
    ASSUME TypeInv, LedgerInv', NEW h \in Handlers,
           HandlerStep(h) \/ HandlerFails(h) \/ HandlerVanishes(h)
    PROVE  Abs!Next \/ UNCHANGED Abs!vars
<1> USE DEF Go, Key, Status, unchangedByHandler
<1>0. /\ tx \in [Keys -> Row] /\ h \in Callers
      /\ hpc \in [Handlers -> {"idle"} \cup Active \cup Codes]
      /\ hreq \in [Handlers -> [key : Keys \cup {None}, intent : Intents \cup {None}]]
      /\ hpc[h] # "idle" => hreq[h].key \in Keys /\ hreq[h].intent \in Intents
  BY DEF TypeInv, TypeOK, RequestsAreNamed, Callers
<1>1. ASSUME hpc[h] # "idle", hpc[h] # "200", SameRows, UNCHANGED <<ledger, hreq>>,
             hpc' = [hpc EXCEPT ![h] = hpc'[h]]
      PROVE  Abs!Next \/ UNCHANGED Abs!vars
  <2>1. \A g \in Handlers \ {h} : hpc'[g] = hpc[g]
    BY <1>0, <1>1
  <2>2. CASE hpc'[h] = "200"
    BY <1>0, <1>1, <2>1, <2>2, AbsConfirm
  <2>3. CASE hpc'[h] # "200"
    <3>1. SameReplies
      BY <1>1, <2>1, <2>3 DEF SameReplies
    <3>2. QED
      BY <1>1, <3>1, AbsStutter
  <2>4. QED
    BY <2>2, <2>3
<1>2. CASE \E k \in Keys, i \in Intents : StartRequest(h, k, i)
  <2>1. /\ UNCHANGED <<tx, ledger>> /\ hpc[h] # "200" /\ hpc'[h] # "200"
        /\ \A g \in Handlers \ {h} : hpc'[g] = hpc[g] /\ hreq'[g] = hreq[g]
    BY <1>0, <1>2 DEF StartRequest
  <2>2. SameRows /\ SameReplies
    BY <2>1 DEF SameRows, SameReplies
  <2>3. QED
    BY <2>1, <2>2, AbsStutter
<1>3. CASE \/ FindByIdempotency(h) \/ CheckBalance(h) \/ FindById(h)
           \/ HandlerFails(h) \/ HandlerVanishes(h)
  <2>1. /\ hpc[h] # "idle" /\ hpc[h] # "200" /\ UNCHANGED <<tx, ledger, hreq>>
        /\ hpc' = [hpc EXCEPT ![h] = hpc'[h]]
    BY <1>0, <1>3 DEF FindByIdempotency, CheckBalance, FindById, HandlerFails, HandlerVanishes
  <2>2. SameRows
    BY <2>1 DEF SameRows
  <2>3. QED
    BY <1>1, <2>1, <2>2
<1>4. CASE TryClaimPendingForPost(h) \/ RecordOutcome(h)
  <2>1. /\ hpc[h] # "idle" /\ hpc[h] # "200" /\ UNCHANGED <<ledger, hreq>>
        /\ hpc' = [hpc EXCEPT ![h] = hpc'[h]]
    BY <1>0, <1>4 DEF TryClaimPendingForPost, RecordOutcome
  <2>2. Key(h) \in Keys /\ tx[Key(h)].status # "absent"
    BY <1>0, <1>4, <2>1 DEF TryClaimPendingForPost, RecordOutcome, TypeInv, RowExists, HasRow,
                            RequestsAreNamed
  <2>3. \/ UNCHANGED tx
        \/ \E s \in Statuses : tx' = [tx EXCEPT ![Key(h)] = UpdateStatus(tx[Key(h)], s)]
    BY <1>4 DEF TryClaimPendingForPost, RecordOutcome, SetRow, Statuses
  <2>4. \A s \in Statuses : UpdateStatus(tx[Key(h)], s).status # "absent"
    BY <1>0, <2>2, RowUpdates DEF Statuses
  <2>5. SameRows
    BY <1>0, <2>2, <2>3, <2>4 DEF SameRows
  <2>6. QED
    BY <1>1, <2>1, <2>5
<1>5. CASE CreateOrGetByIdempotency(h)
  <2>1. /\ hpc[h] # "idle" /\ hpc[h] # "200" /\ UNCHANGED <<ledger, hreq>>
        /\ hpc' = [hpc EXCEPT ![h] = hpc'[h]]
    BY <1>0, <1>5 DEF CreateOrGetByIdempotency
  <2>2. CASE Status(h) # "absent"
    <3>1. SameRows
      BY <1>5, <2>2 DEF CreateOrGetByIdempotency, SameRows
    <3>2. QED
      BY <1>1, <2>1, <3>1
  <2>3. CASE Status(h) = "absent"
    <3>1. /\ tx' = [tx EXCEPT ![Key(h)] = NewRow(hreq[h].intent)]
          /\ hpc' = [hpc EXCEPT ![h] = "claim"]
      BY <1>5, <2>3 DEF CreateOrGetByIdempotency, SetRow
    <3>2. NewRow(hreq[h].intent).status = "pending"
      BY <1>0, <2>1, NewRowType
    <3>3. {k \in Keys : tx[k].status # "absent"}'
              = {k \in Keys : tx[k].status # "absent"} \cup {Key(h)}
      BY <1>0, <2>1, <3>1, <3>2
    <3>4. SameReplies
      BY <1>0, <2>1, <3>1 DEF SameReplies
    <3>5. Confirmed' = Confirmed
      BY <3>4 DEF SameReplies, Confirmed
    <3>6. PICK k \in Keys : k = Key(h)
      BY <1>0, <2>1
    <3>7. Abs!Accept(k)
      BY <2>1, <3>3, <3>5, <3>6 DEF Abs!Accept, Confirmed
    <3>8. QED
      BY <3>7 DEF Abs!Next
  <2>4. QED
    BY <2>2, <2>3
<1>6. QED
  BY <1>2, <1>3, <1>4, <1>5 DEF HandlerStep

(* Retry workers, the reconciler and the clock only move rows that exist.  *)
LEMMA AbsWorker ==
    ASSUME TypeInv,
           \/ \E w \in Workers : WorkerStep(w) \/ RecordFails(w) \/ WorkerCrashes(w)
           \/ ReconcileRequeue \/ ReconcileFail
           \/ \E k \in Keys : LeaseExpires(k) \/ BackoffElapses(k) \/ RowAges(k)
    PROVE  UNCHANGED Abs!vars
<1>0. tx \in [Keys -> Row]
  BY DEF TypeInv, TypeOK
<1>1. UNCHANGED <<ledger, hpc, hreq>>
  BY DEF WorkerStep, ReclaimStalePostingRows, ClaimPendingTransactions, PostNextClaimed,
         RecordPostResult, RecordFails, WorkerCrashes, ReconcileRequeue, ReconcileFail,
         LeaseExpires, BackoffElapses, RowAges, unchangedByWorker, unchangedByReconciler,
         unchangedByTime
<1>2. SameRows
  <2>1. CASE RequeueStalePosting
    BY <1>0, <2>1, RowUpdates DEF RequeueStalePosting, StalePosting, SameRows, Statuses
  <2>2. ASSUME NEW w \in Workers, ClaimPendingTransactions(w)
        PROVE  SameRows
    <3>1. tx' = [k \in Keys |-> IF DueForRetry(tx[k]) THEN ClaimForRetry(tx[k]) ELSE tx[k]]
      BY <2>2 DEF ClaimPendingTransactions
    <3>2. QED
      BY <1>0, <3>1, RowUpdates DEF DueForRetry, SameRows
  <2>3. ASSUME NEW w \in Workers, RecordPostResult(w)
        PROVE  SameRows
    <3> DEFINE k == call[w].key
    <3>1. k \in Keys /\ tx[k] \in Row /\ tx[k].status # "absent"
      BY <1>0, <2>3 DEF RecordPostResult, TypeInv, CallsAreNamed, RowExists, HasRow, Callers
    <3>2. PICK r \in {UpdateStatus(tx[k], "posted"), MarkTerminalFailure(tx[k]),
                      ScheduleRetry(tx[k])} : tx' = [tx EXCEPT ![k] = r]
      BY <2>3 DEF RecordPostResult, SetRow
    <3>3. r.status # "absent"
      BY <3>1, <3>2, RowUpdates DEF Statuses
    <3>4. QED
      BY <1>0, <3>1, <3>2, <3>3 DEF SameRows
  <2>4. CASE ReconcileFail
    BY <1>0, <2>4, RowUpdates DEF ReconcileFail, PendingTooLong, SameRows
  <2>5. ASSUME NEW k \in Keys, LeaseExpires(k) \/ BackoffElapses(k) \/ RowAges(k)
        PROVE  SameRows
    <3>1. CASE LeaseExpires(k)
      BY <1>0, <3>1 DEF LeaseExpires, Row, SameRows
    <3>2. CASE BackoffElapses(k)
      BY <1>0, <3>2 DEF BackoffElapses, Row, SameRows
    <3>3. CASE RowAges(k)
      BY <1>0, <3>3 DEF RowAges, Row, SameRows
    <3>4. QED
      BY <2>5, <3>1, <3>2, <3>3
  <2>6. CASE UNCHANGED tx
    BY <2>6 DEF SameRows
  <2>7. QED
    BY <2>1, <2>2, <2>3, <2>4, <2>5, <2>6
       DEF WorkerStep, ReclaimStalePostingRows, PostNextClaimed, RecordFails, WorkerCrashes,
           ReconcileRequeue
<1>3. SameReplies
  BY <1>1 DEF SameReplies
<1>4. QED
  BY <1>1, <1>2, <1>3, AbsStutter

(* A call that reaches the ledger posts an accepted key, or finds it       *)
(* posted and changes nothing.                                             *)
LEMMA AbsLedger ==
    ASSUME TypeInv,
           \/ \E c \in Callers : LedgerPosts(c) \/ LedgerRejects(c) \/ CallTimesOut(c)
           \/ \E o \in orphans : OrphanPosts(o) \/ OrphanIsLost(o)
    PROVE  Abs!Next \/ UNCHANGED Abs!vars
<1> USE DEF unchangedByLedger
<1>1. UNCHANGED <<tx, hpc, hreq>>
  BY DEF LedgerPosts, LedgerRejects, CallTimesOut, OrphanPosts, OrphanIsLost
<1>2. SameRows /\ SameReplies
  BY <1>1 DEF SameRows, SameReplies
<1>3. ASSUME NEW k \in Keys, NEW i \in Intents, tx[k].status # "absent", PostOnce(k, i)
      PROVE  Abs!Next \/ UNCHANGED Abs!vars
  <2>1. CASE ledger[k] = None
    <3>1. ledger' = [ledger EXCEPT ![k] = i]
      BY <1>3, <2>1 DEF PostOnce, TypeInv, TypeOK
    <3>2. Abs!Perform(k, i)
      BY <1>1, <1>3, <2>1, <3>1 DEF Abs!Perform
    <3>3. QED
      BY <3>2 DEF Abs!Next
  <2>2. CASE ledger[k] # None
    <3>1. ledger' = ledger
      BY <1>3, <2>2 DEF PostOnce, TypeInv, TypeOK
    <3>2. QED
      BY <1>2, <3>1, AbsStutter
  <2>3. QED
    BY <2>1, <2>2
<1>4. ASSUME NEW c \in Callers, LedgerPosts(c)
      PROVE  Abs!Next \/ UNCHANGED Abs!vars
  BY <1>3, <1>4 DEF LedgerPosts, TypeInv, CallsAreNamed, RowExists, HasRow
<1>5. ASSUME NEW o \in orphans, OrphanPosts(o)
      PROVE  Abs!Next \/ UNCHANGED Abs!vars
  BY <1>3, <1>5 DEF OrphanPosts, TypeInv, TypeOK, RowExists, HasRow
<1>6. CASE UNCHANGED ledger
  BY <1>2, <1>6, AbsStutter
<1>7. QED
  BY <1>4, <1>5, <1>6 DEF LedgerRejects, CallTimesOut, OrphanIsLost

(* The outbox with its handlers, retry workers and reconciler implements   *)
(* the abstract outbound task: the ledger acts only for a durable row, at  *)
(* most once per key, before any client is answered 200.                   *)
THEOREM OutboxImplementsOutboundTask == Spec => ImplementsOutboundTask
<1>1. Init => Abs!Init
  BY AbsInit
<1>2. TypeInv /\ LedgerInv' /\ [Next]_vars => [Abs!Next]_(Abs!vars)
  <2> SUFFICES ASSUME TypeInv, LedgerInv', [Next]_vars
               PROVE  Abs!Next \/ UNCHANGED Abs!vars
    OBVIOUS
  <2>1. CASE Next
    BY <2>1, AbsHandler, AbsWorker, AbsLedger DEF Next
  <2>2. CASE UNCHANGED vars
    <3>1. SameRows /\ SameReplies /\ UNCHANGED ledger
      BY <2>2 DEF vars, SameRows, SameReplies
    <3>2. QED
      BY <3>1, AbsStutter
  <2>3. QED
    BY <2>1, <2>2
<1>3. QED
  BY <1>1, <1>2, TypeCorrect, LedgerInvAlways, PTL DEF Spec, ImplementsOutboundTask, Abs!Spec

-----------------------------------------------------------------------------
(* Claims.  Every part of the invariant is about one key, and every step   *)
(* changes one key's row or work or only takes work away, so the proof is  *)
(* for one arbitrary key k.                                                *)

Called(c, k) == call[c].outcome # "none" /\ call[c].key = k

\* A worker only has keys it has counted an attempt for, reclaimed or not.
Tried(k) ==
    /\ tx[k].status = "failed" => tx[k].attempts >= 1
    /\ \A w \in Workers : Holds(w, k) => tx[k].attempts >= 1

\* A pending row has an attempt left.
RowOk(k) ==
    /\ tx[k].terminal <=> tx[k].status = "failed"
    /\ tx[k].attempts <= MaxAttempts
    /\ tx[k].status = "pending" => tx[k].attempts < MaxAttempts

\* The holder is one, the row says posting, a worker has it once and with the
\* number of attempts the row has, a handler leaves an attempt to the worker.
Lease(k) ==
    /\ \A c \in Callers : Holds(c, k) => /\ tx[k].status = "posting"
                                         /\ \A d \in Callers : Holds(d, k) => c = d
    /\ \A h \in Handlers : Called(h, k) => tx[k].attempts < MaxAttempts
    /\ \A w \in Workers : Called(w, k) => /\ call[w].attempts = tx[k].attempts
                                          /\ \A b \in batch[w] : b.key # k
    /\ \A w \in Workers : \A b \in batch[w] :
          b.key = k => /\ b.attempts = tx[k].attempts
                       /\ \A a \in batch[w] : a.key = k => a = b

KeyInv(k) == Tried(k) /\ (k \notin reclaimed => Lease(k) /\ RowOk(k))

ClaimInv == \A k \in Keys : KeyInv(k)

\* What a step does to a key: the invariant stays, and so does a final status.
Kept(k) ==
    /\ KeyInv(k)'
    /\ k \notin reclaimed /\ tx[k].status \in {"posted", "failed"} => tx'[k].status = tx[k].status

-----------------------------------------------------------------------------
(* Rows, and steps that leave a key alone.                                 *)

LEMMA UpdateFields ==
    ASSUME NEW r \in Row, NEW s \in Statuses, NEW u, u = UpdateStatus(r, s)
    PROVE  u.status = s /\ u.attempts = r.attempts /\ u.terminal = r.terminal
BY DEF Row, UpdateStatus

LEMMA OutcomeFields ==
    ASSUME NEW r \in Row, NEW u, u \in {ScheduleRetry(r), MarkTerminalFailure(r)}
    PROVE  /\ u.attempts = r.attempts
           /\ u = ScheduleRetry(r) => u.status = "pending" /\ u.terminal = FALSE
           /\ u = MarkTerminalFailure(r) => u.status = "failed" /\ u.terminal = TRUE
BY DEF Row, ScheduleRetry, MarkTerminalFailure

LEMMA ClaimFields ==
    ASSUME NEW r \in Row, NEW u, u = ClaimForRetry(r)
    PROVE  /\ u.status = "posting" /\ u.attempts = NextAttempt(r.attempts)
           /\ u.terminal = r.terminal
BY DEF Row, ClaimForRetry

LEMMA Rows ==
    ASSUME TypeInv, TypeInv', NEW k \in Keys
    PROVE  /\ tx[k] \in Row /\ tx[k].attempts \in Nat /\ tx[k].terminal \in BOOLEAN
           /\ tx'[k] \in Row /\ tx'[k].attempts \in Nat /\ tx'[k].terminal \in BOOLEAN
<1>1. tx[k] \in Row /\ tx'[k] \in Row
  BY DEF TypeInv, TypeOK
<1>2. tx[k].attempts \in Attempts /\ tx'[k].attempts \in Attempts
  BY <1>1 DEF Row
<1> QED
  BY <1>1, <1>2, AttemptsAssumption DEF Row, Attempts

LEMMA TriedKeeps ==
    ASSUME NEW k \in Keys, TypeInv, TypeInv', Tried(k),
           tx'[k].attempts >= tx[k].attempts,
           tx'[k].status = "failed" => tx[k].status = "failed" \/ tx'[k].attempts >= 1,
           \A w \in Workers : Holds(w, k)' => Holds(w, k) \/ tx'[k].attempts >= 1
    PROVE  Tried(k)'
<1>1. tx[k].attempts \in Nat /\ tx'[k].attempts \in Nat
  BY Rows
<1> QED
  BY <1>1 DEF Tried

\* The row's status, attempts and stamp are as before, and work only ends.
Quiet(k) ==
    /\ tx'[k].status = tx[k].status
    /\ tx'[k].attempts = tx[k].attempts
    /\ tx'[k].terminal = tx[k].terminal
    /\ k \in reclaimed => k \in reclaimed'
    /\ \A c \in Callers : Called(c, k)' => Called(c, k) /\ call'[c].attempts = call[c].attempts
    /\ \A w \in Workers : \A b \in batch'[w] : b.key = k => b \in batch[w]

LEMMA QuietKeeps ==
    ASSUME NEW k \in Keys, TypeInv, TypeInv', KeyInv(k), Quiet(k)
    PROVE  Kept(k)
<1>1. \A c \in Callers : Holds(c, k)' => Holds(c, k)
  BY DEF Quiet, Holds, Called
<1>2. Tried(k)'
  <2>1. tx'[k].attempts >= tx[k].attempts
    BY Rows DEF Quiet
  <2>2. \A w \in Workers : Holds(w, k)' => Holds(w, k)
    BY <1>1 DEF Callers
  <2> QED
    BY <2>1, <2>2, TriedKeeps DEF KeyInv, Quiet
<1>3. ASSUME k \notin reclaimed' PROVE Lease(k)' /\ RowOk(k)'
  <2>1. Lease(k) /\ RowOk(k)
    BY <1>3 DEF Quiet, KeyInv
  <2>2. RowOk(k)'
    BY <2>1 DEF Quiet, RowOk
  <2>3. /\ \A h \in Handlers : Called(h, k)' => Called(h, k)
        /\ \A w \in Workers : Called(w, k)' => Called(w, k) /\ call'[w].attempts = call[w].attempts
    BY DEF Quiet, Callers
  <2>4. Lease(k)'
    BY <1>1, <2>1, <2>3 DEF Quiet, Lease
  <2> QED
    BY <2>2, <2>4
<1> QED
  BY <1>2, <1>3 DEF Kept, KeyInv, Quiet

\* Nobody has the key afterwards.
LEMMA FreeKeeps ==
    ASSUME NEW k \in Keys, Tried(k)', RowOk(k)', \A c \in Callers : ~Holds(c, k)'
    PROVE  KeyInv(k)'
<1>1. /\ \A c \in Callers : ~Called(c, k)'
      /\ \A w \in Workers : \A b \in batch'[w] : b.key # k
  BY DEF Holds, Called, Callers
<1>2. Lease(k)'
  BY <1>1 DEF Lease, Callers
<1> QED
  BY <1>2 DEF KeyInv

\* Whoever holds a key that nobody reclaimed holds it alone.
LEMMA Alone ==
    ASSUME NEW k \in Keys, Lease(k), NEW c \in Callers, Holds(c, k)
    PROVE  /\ tx[k].status = "posting"
           /\ \A d \in Callers \ {c} : ~Holds(d, k)
BY DEF Lease

-----------------------------------------------------------------------------
(* The steps.                                                              *)

\* A handler writes the outcome of its call, a worker that of its own: the
\* holder gives the key back.
LEMMA HolderWrites ==
    ASSUME NEW k \in Keys, TypeInv, TypeInv', KeyInv(k), NEW c \in Callers, Called(c, k),
           UNCHANGED <<batch, reclaimed>>, call' = [call EXCEPT ![c] = IdleCall],
           tx'[k].attempts = tx[k].attempts,
           tx'[k].status = "failed" => tx'[k].attempts >= 1,
           k \notin reclaimed => RowOk(k)'
    PROVE  Kept(k)
<1>1. call \in [Callers -> Call]
  BY DEF TypeInv, TypeOK
<1>2. /\ ~Called(c, k)' /\ \A d \in Callers \ {c} : call'[d] = call[d]
  BY <1>1 DEF Called, IdleCall
<1>3. \A d \in Callers : Holds(d, k)' => Holds(d, k)
  BY <1>2 DEF Holds, Called
<1>4. Tried(k)'
  <2>1. tx'[k].attempts >= tx[k].attempts
    BY Rows
  <2>2. \A w \in Workers : Holds(w, k)' => Holds(w, k)
    BY <1>3 DEF Callers
  <2> QED
    BY <2>1, <2>2, TriedKeeps DEF KeyInv
<1>5. CASE k \in reclaimed
  BY <1>4, <1>5 DEF Kept, KeyInv
<1>6. CASE k \notin reclaimed
  <2>1. Lease(k) /\ Holds(c, k)
    BY <1>6 DEF KeyInv, Holds, Called
  <2>2. tx[k].status = "posting" /\ \A d \in Callers \ {c} : ~Holds(d, k)
    BY <2>1, Alone
  <2>3. ~Holds(c, k)'
    <3>1. c \in Workers => \A b \in batch[c] : b.key # k
      BY <2>1 DEF Lease
    <3> QED
      BY <1>2, <3>1 DEF Holds, Called
  <2>4. \A d \in Callers : ~Holds(d, k)'
    BY <1>3, <2>2, <2>3
  <2> QED
    BY <1>4, <1>6, <2>2, <2>4, FreeKeeps DEF Kept
<1> QED
  BY <1>5, <1>6

LEMMA HandlerKeeps ==
    ASSUME NEW k \in Keys, TypeInv, TypeInv', KeyInv(k), NEW h \in Handlers,
           HandlerStep(h) \/ HandlerFails(h) \/ HandlerVanishes(h)
    PROVE  Kept(k)
<1> USE DEF Go, Key, Status, unchangedByHandler
<1>0. /\ tx \in [Keys -> Row] /\ call \in [Callers -> Call] /\ h \in Callers /\ h \notin Workers
      /\ UNCHANGED <<batch, reclaimed>>
  <2>1. UNCHANGED <<batch, reclaimed>>
    BY DEF HandlerStep, StartRequest, FindByIdempotency, CheckBalance, CreateOrGetByIdempotency,
           TryClaimPendingForPost, FindById, RecordOutcome, HandlerFails, HandlerVanishes
  <2> QED
    BY <2>1, CallersAssumption DEF TypeInv, TypeOK, Callers
<1>1. ASSUME tx'[k] = tx[k],
             \A c \in Callers : Called(c, k)' => call'[c] = call[c]
      PROVE  Kept(k)
  BY <1>0, <1>1, QuietKeeps DEF Quiet, Called
<1>2. CASE \/ \E j \in Keys, i \in Intents : StartRequest(h, j, i)
           \/ FindByIdempotency(h) \/ CheckBalance(h) \/ FindById(h)
  <2>1. UNCHANGED <<tx, call>>
    BY <1>2 DEF StartRequest, FindByIdempotency, CheckBalance, FindById
  <2> QED
    BY <1>1, <2>1
<1>3. CASE HandlerFails(h) \/ HandlerVanishes(h)
  <2>1. UNCHANGED tx /\ call' = [call EXCEPT ![h] = IdleCall]
    BY <1>3 DEF HandlerFails, HandlerVanishes, Abandon, EndCall
  <2>2. \A c \in Callers : Called(c, k)' => call'[c] = call[c]
    BY <1>0, <2>1 DEF Called, IdleCall
  <2> QED
    BY <1>1, <2>1, <2>2
<1>4. CASE CreateOrGetByIdempotency(h)
  <2>1. UNCHANGED call /\ hreq[h].intent \in Intents /\ Key(h) \in Keys
    BY <1>4 DEF CreateOrGetByIdempotency, TypeInv, RequestsAreNamed
  <2>2. CASE tx'[k] = tx[k]
    BY <1>1, <2>1, <2>2
  <2>3. CASE tx'[k] # tx[k]
    <3>1. tx[k].status = "absent" /\ tx'[k] = NewRow(hreq[h].intent)
      BY <1>0, <1>4, <2>1, <2>3 DEF CreateOrGetByIdempotency, SetRow
    <3>2. tx'[k].status = "pending" /\ tx'[k].attempts = 0 /\ tx'[k].terminal = FALSE
      BY <3>1 DEF NewRow, NoRow
    <3>3. \A c \in Callers : ~Holds(c, k)
      BY <3>1 DEF Holds, TypeInv, RowExists, HasRow
    <3>4. \A c \in Callers : ~Holds(c, k)'
      BY <1>0, <2>1, <3>3 DEF Holds
    <3>5. RowOk(k)'
      BY <3>2, AttemptsAssumption DEF RowOk
    <3>6. Tried(k)'
      BY <3>2, <3>4 DEF Tried, Callers
    <3> QED
      BY <3>1, <3>4, <3>5, <3>6, FreeKeeps DEF Kept
  <2> QED
    BY <2>2, <2>3
<1>5. CASE TryClaimPendingForPost(h)
  <2>1. CASE Status(h) # "pending"
    <3>1. UNCHANGED <<tx, call>>
      BY <1>5, <2>1 DEF TryClaimPendingForPost
    <3> QED
      BY <1>1, <3>1
  <2>2. CASE Status(h) = "pending"
    <3>1. /\ tx' = [tx EXCEPT ![Key(h)] = UpdateStatus(tx[Key(h)], "posting")]
          /\ call' = [call EXCEPT ![h] = [key |-> Key(h), intent |-> hreq[h].intent,
                                          attempts |-> 0, outcome |-> "sent"]]
      BY <1>5, <2>2 DEF TryClaimPendingForPost, SetRow, SendCall
    <3>2. /\ call'[h].key = Key(h) /\ call'[h].outcome = "sent"
          /\ \A c \in Callers \ {h} : call'[c] = call[c]
      BY <1>0, <3>1
    <3>3. CASE k # Key(h)
      <4>1. tx'[k] = tx[k] /\ \A c \in Callers : Called(c, k)' => call'[c] = call[c]
        BY <1>0, <3>1, <3>2, <3>3 DEF Called
      <4> QED
        BY <1>1, <4>1
    <3>4. CASE k = Key(h)
      <4>1. /\ tx[k].status = "pending" /\ tx'[k].status = "posting"
            /\ tx'[k].attempts = tx[k].attempts /\ tx'[k].terminal = tx[k].terminal
        <5>1. /\ tx'[k] = UpdateStatus(tx[k], "posting") /\ tx[k] \in Row
              /\ tx[k].status = "pending" /\ "posting" \in Statuses
          BY <1>0, <2>2, <3>1, <3>4 DEF Statuses
        <5> QED
          BY ONLY <5>1, UpdateFields
      <4>2. \A c \in Callers \ {h} : /\ Holds(c, k)' => Holds(c, k)
                                     /\ Called(c, k)' => Called(c, k)
        BY <1>0, <3>2 DEF Holds, Called
      <4>3. Tried(k)'
        <5>1. tx'[k].attempts >= tx[k].attempts
          BY <4>1, Rows
        <5>2. \A w \in Workers : Holds(w, k)' => Holds(w, k)
          BY <1>0, <4>2 DEF Callers
        <5> QED
          BY <4>1, <5>1, <5>2, TriedKeeps DEF KeyInv
      <4>4. ASSUME k \notin reclaimed PROVE Lease(k)' /\ RowOk(k)'
        <5>1. Lease(k) /\ RowOk(k)
          BY <4>4 DEF KeyInv
        <5>2. /\ \A c \in Callers : ~Holds(c, k)
          BY <4>1, <5>1 DEF Lease
        <5>3. RowOk(k)'
          BY <4>1, <5>1, Rows DEF RowOk
        <5>4. /\ \A c \in Callers : Holds(c, k)' => c = h
              /\ \A w \in Workers : /\ ~Called(w, k)'
                                    /\ \A b \in batch'[w] : b.key # k
          BY <1>0, <4>2, <5>2 DEF Holds, Called, Callers
        <5>5. Lease(k)'
          BY <4>1, <5>1, <5>4 DEF Lease, RowOk
        <5> QED
          BY <5>3, <5>5
      <4> QED
        BY <1>0, <4>1, <4>3, <4>4 DEF Kept, KeyInv
    <3> QED
      BY <3>3, <3>4
  <2> QED
    BY <2>1, <2>2
<1>6. CASE RecordOutcome(h)
  <2>1. /\ hpc[h] = "calling" /\ Key(h) \in Keys /\ Called(h, Key(h))
        /\ call' = [call EXCEPT ![h] = IdleCall]
    BY <1>6 DEF RecordOutcome, EndCall, TypeInv, RequestsAreNamed, Called
  <2>2. PICK s \in {"posted", "pending"} : tx' = [tx EXCEPT ![Key(h)] = UpdateStatus(tx[Key(h)], s)]
    BY <1>6 DEF RecordOutcome, SetRow
  <2>3. CASE k # Key(h)
    <3>1. tx'[k] = tx[k] /\ \A c \in Callers : Called(c, k)' => call'[c] = call[c]
      BY <1>0, <2>1, <2>2, <2>3 DEF Called, IdleCall
    <3> QED
      BY <1>1, <3>1
  <2>4. CASE k = Key(h)
    <3>1. /\ tx'[k].status = s /\ tx'[k].attempts = tx[k].attempts
          /\ tx'[k].terminal = tx[k].terminal
      <4>1. tx'[k] = UpdateStatus(tx[k], s) /\ tx[k] \in Row /\ s \in Statuses
        BY <1>0, <2>2, <2>4 DEF Statuses
      <4> QED
        BY ONLY <4>1, UpdateFields
    <3>2. ASSUME k \notin reclaimed PROVE RowOk(k)'
      <4>1. Lease(k) /\ RowOk(k) /\ Called(h, k) /\ Holds(h, k)
        BY <2>1, <2>4, <3>2 DEF KeyInv, Holds, Called
      <4>2. tx[k].status = "posting" /\ tx[k].attempts < MaxAttempts
        BY <1>0, <4>1 DEF Lease
      <4>3. tx[k].terminal = FALSE
        BY <4>1, <4>2, Rows DEF RowOk
      <4> QED
        BY <3>1, <4>1, <4>2, <4>3 DEF RowOk
    <3>3. Called(h, k) /\ tx'[k].status # "failed"
      BY <2>1, <2>4, <3>1
    <3> QED
      BY <1>0, <2>1, <3>1, <3>2, <3>3, HolderWrites
  <2> QED
    BY <2>3, <2>4
<1> QED
  BY <1>2, <1>3, <1>4, <1>5, <1>6 DEF HandlerStep

\* Workers and the reconciler return a key whose lease is over.
LEMMA RequeueKeeps ==
    ASSUME NEW k \in Keys, TypeInv, TypeInv', KeyInv(k), RequeueStalePosting,
           UNCHANGED <<call, batch>>
    PROVE  Kept(k)
<1>0. tx \in [Keys -> Row]
  BY DEF TypeInv, TypeOK
<1>1. CASE ~StalePosting(tx[k])
  <2>1. tx'[k] = tx[k] /\ (k \in reclaimed => k \in reclaimed')
    BY <1>1 DEF RequeueStalePosting
  <2> QED
    BY <2>1, QuietKeeps DEF Quiet, Called
<1>2. CASE StalePosting(tx[k])
  <2>1. tx'[k] = UpdateStatus(tx[k], "pending") /\ k \in reclaimed' /\ tx[k].status = "posting"
    BY <1>2 DEF RequeueStalePosting, StalePosting
  <2>2. tx'[k].status = "pending" /\ tx'[k].attempts = tx[k].attempts
    BY <1>0, <2>1, UpdateFields DEF Statuses
  <2>3. Tried(k)'
    <3>1. tx'[k].attempts >= tx[k].attempts
      BY <2>2, Rows
    <3>2. \A w \in Workers : Holds(w, k)' => Holds(w, k)
      BY DEF Holds
    <3> QED
      BY <2>2, <3>1, <3>2, TriedKeeps DEF KeyInv
  <2> QED
    BY <2>1, <2>3 DEF Kept, KeyInv
<1> QED
  BY <1>1, <1>2

LEMMA ClaimKeeps ==
    ASSUME NEW k \in Keys, TypeInv, TypeInv', KeyInv(k), NEW w \in Workers,
           ClaimPendingTransactions(w)
    PROVE  Kept(k)
<1> DEFINE due == {j \in Keys : DueForRetry(tx[j])}
           rows == [j \in Keys |-> IF j \in due THEN ClaimForRetry(tx[j]) ELSE tx[j]]
<1>0. /\ tx \in [Keys -> Row] /\ batch \in [Workers -> SUBSET Claim] /\ w \in Callers
      /\ wpc[w] = "claim" /\ UNCHANGED <<call, reclaimed>>
      /\ tx' = rows
      /\ batch' = [batch EXCEPT ![w] =
            {[key |-> j, intent |-> tx[j].intent, attempts |-> rows[j].attempts] : j \in due}]
  BY DEF ClaimPendingTransactions, TypeInv, TypeOK, Callers
<1>1. /\ \A v \in Workers \ {w} : batch'[v] = batch[v]
      /\ \A b \in batch'[w] : \E j \in due :
            b = [key |-> j, intent |-> tx[j].intent, attempts |-> tx'[j].attempts]
  BY <1>0
<1>2. ~Called(w, k)
  BY <1>0 DEF Called, TypeInv, WorkersCall
<1>3. CASE k \notin due
  <2>1. tx'[k] = tx[k] /\ \A b \in batch'[w] : b.key # k
    BY <1>0, <1>1, <1>3
  <2> QED
    BY <1>0, <1>1, <2>1, QuietKeeps DEF Quiet, Called
<1>4. CASE k \in due
  <2>1. tx[k].status = "pending" /\ tx'[k] = ClaimForRetry(tx[k])
    BY <1>0, <1>4 DEF DueForRetry
  <2>2. /\ tx'[k].status = "posting" /\ tx'[k].attempts = NextAttempt(tx[k].attempts)
        /\ tx'[k].terminal = tx[k].terminal
    BY <1>0, <2>1, ClaimFields
  <2>3. tx'[k].attempts >= 1 /\ tx'[k].attempts >= tx[k].attempts
    <3>1. tx[k].attempts \in Attempts
      BY <1>0 DEF Row
    <3> QED
      BY <2>2, <3>1, NextAttemptType
  <2>4. Tried(k)'
    BY <2>2, <2>3, TriedKeeps DEF KeyInv
  <2>5. ASSUME k \notin reclaimed PROVE Lease(k)' /\ RowOk(k)'
    <3>1. Lease(k) /\ RowOk(k)
      BY <2>5 DEF KeyInv
    <3>2. \A c \in Callers : ~Holds(c, k)
      BY <2>1, <3>1 DEF Lease
    <3>3. RowOk(k)'
      BY <2>1, <2>2, <3>1, Rows, AttemptsAssumption DEF RowOk, NextAttempt
    <3>4. /\ \A c \in Callers : ~Called(c, k)'
          /\ \A v \in Workers \ {w} : \A b \in batch'[v] : b.key # k
      BY <1>0, <1>1, <3>2 DEF Holds, Called, Callers
    <3>5. \A b \in batch'[w] : b.key = k =>
             b = [key |-> k, intent |-> tx[k].intent, attempts |-> tx'[k].attempts]
      BY <1>1
    <3>6. \A c \in Callers : Holds(c, k)' => c = w
      BY <3>4 DEF Holds, Called
    <3>7. Lease(k)'
      BY <2>2, <3>4, <3>5, <3>6 DEF Lease, Callers
    <3> QED
      BY <3>3, <3>7
  <2> QED
    BY <1>0, <2>1, <2>4, <2>5 DEF Kept, KeyInv
<1> QED
  BY <1>3, <1>4

LEMMA WorkerKeeps ==
    ASSUME NEW k \in Keys, TypeInv, TypeInv', KeyInv(k), NEW w \in Workers,
           WorkerStep(w) \/ RecordFails(w) \/ WorkerCrashes(w)
    PROVE  Kept(k)
<1>0. /\ tx \in [Keys -> Row] /\ call \in [Callers -> Call] /\ w \in Callers
      /\ batch \in [Workers -> SUBSET Claim]
  BY DEF TypeInv, TypeOK, Callers
<1>1. CASE ReclaimStalePostingRows(w)
  BY <1>1, RequeueKeeps DEF ReclaimStalePostingRows
<1>2. CASE ClaimPendingTransactions(w)
  BY <1>2, ClaimKeeps
<1>3. CASE PostNextClaimed(w)
  <2>1. PICK b \in batch[w] :
           /\ call' = [call EXCEPT ![w] = [key |-> b.key, intent |-> b.intent,
                                           attempts |-> b.attempts, outcome |-> "sent"]]
           /\ batch' = [batch EXCEPT ![w] = @ \ {b}]
    BY <1>3 DEF PostNextClaimed, SendCall
  <2>2. /\ UNCHANGED <<tx, reclaimed>> /\ ~Called(w, k)
        /\ call'[w].key = b.key /\ call'[w].attempts = b.attempts
        /\ \A c \in Callers \ {w} : call'[c] = call[c]
        /\ batch'[w] = batch[w] \ {b}
        /\ \A v \in Workers \ {w} : batch'[v] = batch[v]
    BY <1>0, <1>3, <2>1 DEF PostNextClaimed, Called, TypeInv, WorkersCall
  <2>3. CASE b.key # k
    BY <2>2, <2>3, QuietKeeps DEF Quiet, Called
  <2>4. CASE b.key = k
    <3>1. /\ Holds(w, k)
          /\ \A c \in Callers : Holds(c, k)' => Holds(c, k)
      BY <1>0, <2>2, <2>4 DEF Holds
    <3>2. Tried(k)'
      <4>1. tx'[k].attempts >= tx[k].attempts
        BY <2>2, Rows
      <4>2. \A v \in Workers : Holds(v, k)' => Holds(v, k)
        BY <3>1 DEF Callers
      <4> QED
        BY <2>2, <4>1, <4>2, TriedKeeps DEF KeyInv
    <3>3. ASSUME k \notin reclaimed PROVE Lease(k)' /\ RowOk(k)'
      <4>1. Lease(k) /\ RowOk(k)
        BY <3>3 DEF KeyInv
      <4>2. tx[k].status = "posting" /\ \A c \in Callers \ {w} : ~Holds(c, k)
        BY <1>0, <3>1, <4>1, Alone
      <4>3. b.attempts = tx[k].attempts /\ \A a \in batch[w] : a.key = k => a = b
        BY <2>4, <4>1 DEF Lease
      <4>4. /\ \A c \in Callers : Holds(c, k)' => c = w
            /\ \A a \in batch'[w] : a.key # k
            /\ call'[w].attempts = tx[k].attempts
        BY <2>2, <3>1, <4>2, <4>3
      <4>5. /\ \A v \in Workers : \A a \in batch'[v] : a.key # k
            /\ \A c \in Callers : Called(c, k)' => c = w
        BY <4>4 DEF Holds, Called, Callers
      <4>6. w \notin Handlers
        BY CallersAssumption
      <4>7. Lease(k)'
        BY <2>2, <4>2, <4>4, <4>5, <4>6 DEF Lease, Callers
      <4>8. RowOk(k)'
        BY <2>2, <4>1 DEF RowOk
      <4> QED
        BY <4>7, <4>8
    <3> QED
      BY <2>2, <3>2, <3>3 DEF Kept, KeyInv
  <2> QED
    BY <2>3, <2>4
<1>4. CASE RecordPostResult(w)
  <2>1. PICK j \in Keys : j = call[w].key
    BY <1>0, <1>4 DEF RecordPostResult, TypeInv, CallsAreNamed
  <2>2. /\ Called(w, j) /\ call' = [call EXCEPT ![w] = IdleCall]
        /\ UNCHANGED <<batch, reclaimed>>
    BY <1>4, <2>1 DEF RecordPostResult, EndCall, Called
  <2>3. PICK r : /\ tx' = [tx EXCEPT ![j] = r]
                 /\ \/ r = UpdateStatus(tx[j], "posted")
                    \/ r = MarkTerminalFailure(tx[j])
                    \/ r = ScheduleRetry(tx[j]) /\ call[w].attempts < MaxAttempts
    <3>1. call[w].attempts \in Nat
      BY <1>0, AttemptsAssumption DEF Call, Attempts
    <3> QED
      BY <1>4, <2>1, <3>1, AttemptsAssumption DEF RecordPostResult, SetRow, AttemptsExhausted
  <2>4. CASE k # j
    <3>1. tx'[k] = tx[k] /\ \A c \in Callers : Called(c, k)' => call'[c] = call[c]
      BY <1>0, <2>2, <2>3, <2>4 DEF Called, IdleCall
    <3> QED
      BY <2>2, <3>1, QuietKeeps DEF Quiet, Called
  <2>5. CASE k = j
    <3>1. tx'[k] = r /\ tx[k] \in Row
      BY <1>0, <2>3, <2>5
    <3>2. /\ r = UpdateStatus(tx[k], "posted") =>
                r.status = "posted" /\ r.attempts = tx[k].attempts /\ r.terminal = tx[k].terminal
          /\ r = MarkTerminalFailure(tx[k]) =>
                r.status = "failed" /\ r.attempts = tx[k].attempts /\ r.terminal = TRUE
          /\ r = ScheduleRetry(tx[k]) =>
                r.status = "pending" /\ r.attempts = tx[k].attempts /\ r.terminal = FALSE
      <4>1. "posted" \in Statuses
        BY DEF Statuses
      <4>2. r = UpdateStatus(tx[k], "posted") =>
               r.status = "posted" /\ r.attempts = tx[k].attempts /\ r.terminal = tx[k].terminal
        BY ONLY <3>1, <4>1, UpdateFields
      <4>3. r = MarkTerminalFailure(tx[k]) =>
               r.status = "failed" /\ r.attempts = tx[k].attempts /\ r.terminal = TRUE
        BY ONLY <3>1, OutcomeFields
      <4>4. r = ScheduleRetry(tx[k]) =>
               r.status = "pending" /\ r.attempts = tx[k].attempts /\ r.terminal = FALSE
        BY ONLY <3>1, OutcomeFields
      <4> QED
        BY ONLY <4>2, <4>3, <4>4
    <3>3. tx'[k].attempts = tx[k].attempts
      BY <2>3, <2>5, <3>1, <3>2
    <3>4. Holds(w, k) /\ Called(w, k)
      BY <2>2, <2>5 DEF Holds, Called
    <3>5. tx[k].attempts >= 1
      BY <3>4 DEF KeyInv, Tried
    <3>6. ASSUME k \notin reclaimed PROVE RowOk(k)'
      <4>1. Lease(k) /\ RowOk(k)
        BY <3>6 DEF KeyInv
      <4>2. tx[k].status = "posting" /\ call[w].attempts = tx[k].attempts
        BY <1>0, <3>4, <4>1 DEF Lease
      <4>3. tx[k].terminal = FALSE /\ tx[k].attempts <= MaxAttempts
        BY <4>1, <4>2, Rows DEF RowOk
      <4>4. CASE r = UpdateStatus(tx[k], "posted")
        BY <3>1, <3>2, <4>3, <4>4 DEF RowOk
      <4>5. CASE r = MarkTerminalFailure(tx[k])
        BY <3>1, <3>2, <4>3, <4>5 DEF RowOk
      <4>6. CASE r = ScheduleRetry(tx[k]) /\ call[w].attempts < MaxAttempts
        BY <3>1, <3>2, <4>2, <4>3, <4>6 DEF RowOk
      <4> QED
        BY <2>3, <2>5, <4>4, <4>5, <4>6
    <3> QED
      BY <1>0, <2>2, <3>3, <3>4, <3>5, <3>6, HolderWrites
  <2> QED
    BY <2>4, <2>5
<1>5. CASE RecordFails(w) \/ WorkerCrashes(w)
  <2>1. /\ UNCHANGED <<tx, reclaimed>> /\ call' = [call EXCEPT ![w] = IdleCall]
        /\ batch' = batch \/ batch' = [batch EXCEPT ![w] = {}]
    BY <1>5 DEF RecordFails, WorkerCrashes, Abandon, EndCall
  <2>2. /\ \A c \in Callers : Called(c, k)' => call'[c] = call[c]
        /\ \A v \in Workers : batch'[v] \subseteq batch[v]
    BY <1>0, <2>1 DEF Called, IdleCall
  <2> QED
    BY <2>1, <2>2, QuietKeeps DEF Quiet, Called
<1> QED
  BY <1>1, <1>2, <1>3, <1>4, <1>5 DEF WorkerStep

LEMMA ReconcilerKeeps ==
    ASSUME NEW k \in Keys, TypeInv, TypeInv', KeyInv(k), ReconcileRequeue \/ ReconcileFail
    PROVE  Kept(k)
<1>0. tx \in [Keys -> Row] /\ UNCHANGED <<call, batch>>
  BY DEF TypeInv, TypeOK, ReconcileRequeue, ReconcileFail, unchangedByReconciler
<1>1. CASE ReconcileRequeue
  BY <1>0, <1>1, RequeueKeeps DEF ReconcileRequeue
<1>2. CASE ReconcileFail /\ ~PendingTooLong(tx[k])
  <2>1. tx'[k] = tx[k] /\ UNCHANGED reclaimed
    BY <1>2 DEF ReconcileFail
  <2> QED
    BY <1>0, <2>1, QuietKeeps DEF Quiet, Called
<1>3. CASE ReconcileFail /\ PendingTooLong(tx[k])
  <2>1. /\ tx'[k] = MarkTerminalFailure(tx[k]) /\ UNCHANGED reclaimed /\ tx[k] \in Row
        /\ tx[k].status = "pending" /\ tx[k].attempts >= 1
    BY <1>0, <1>3 DEF ReconcileFail, PendingTooLong
  <2>2. tx'[k].status = "failed" /\ tx'[k].attempts = tx[k].attempts /\ tx'[k].terminal = TRUE
    <3>1. tx'[k] \in {ScheduleRetry(tx[k]), MarkTerminalFailure(tx[k])} /\ tx[k] \in Row
      BY ONLY <2>1
    <3>r. PICK r \in Row : r = tx[k]
      BY ONLY <3>1
    <3>u. PICK u : u = tx'[k]
      OBVIOUS
    <3>2. r \in Row /\ r = tx[k] /\ u = tx'[k]
      BY ONLY <3>r, <3>u
    <3>3. u.status = "failed" /\ u.attempts = r.attempts /\ u.terminal = TRUE
      <4>1. u \in {ScheduleRetry(r), MarkTerminalFailure(r)} /\ u = MarkTerminalFailure(r)
        BY ONLY <2>1, <3>2
      <4> QED
        BY ONLY <4>1, <3>2, OutcomeFields
    <3> QED
      BY ONLY <3>2, <3>3
  <2>3. \A c \in Callers : Holds(c, k)' => Holds(c, k)
    BY <1>0 DEF Holds
  <2>4. Tried(k)'
    <3>1. tx[k].attempts \in Nat
      BY Rows
    <3>2. tx'[k].attempts >= tx[k].attempts
      BY ONLY <2>2, <3>1
    <3>3. \A w \in Workers : Holds(w, k)' => Holds(w, k)
      BY <2>3 DEF Callers
    <3> QED
      BY <2>1, <2>2, <3>2, <3>3, TriedKeeps DEF KeyInv
  <2>5. ASSUME k \notin reclaimed PROVE KeyInv(k)'
    <3>1. Lease(k) /\ RowOk(k)
      BY <2>5 DEF KeyInv
    <3>2. \A c \in Callers : ~Holds(c, k)'
      BY <2>1, <2>3, <3>1 DEF Lease
    <3>3. RowOk(k)'
      BY <2>2, <3>1 DEF RowOk
    <3> QED
      BY <2>4, <3>2, <3>3, FreeKeeps
  <2> QED
    BY <2>1, <2>4, <2>5 DEF Kept, KeyInv
<1> QED
  BY <1>1, <1>2, <1>3

LEMMA LedgerKeeps ==
    ASSUME NEW k \in Keys, TypeInv, TypeInv', KeyInv(k),
           \/ \E c \in Callers : LedgerPosts(c) \/ LedgerRejects(c) \/ CallTimesOut(c)
           \/ \E o \in orphans : OrphanPosts(o) \/ OrphanIsLost(o)
    PROVE  Kept(k)
<1>1. UNCHANGED <<tx, batch, reclaimed>>
  BY DEF LedgerPosts, LedgerRejects, CallTimesOut, OrphanPosts, OrphanIsLost, unchangedByLedger
<1>2. \/ UNCHANGED call
      \/ \E c \in Callers, o \in {"ok", "err"} :
            call[c].outcome # "none" /\ call' = [call EXCEPT ![c].outcome = o]
  BY DEF LedgerPosts, LedgerRejects, CallTimesOut, OrphanPosts, OrphanIsLost, Answer
<1>3. \A c \in Callers : Called(c, k)' => Called(c, k) /\ call'[c].attempts = call[c].attempts
  <2>1. call \in [Callers -> Call]
    BY DEF TypeInv, TypeOK
  <2> QED
    BY <1>2, <2>1 DEF Called, Call
<1> QED
  BY <1>1, <1>3, QuietKeeps DEF Quiet

LEMMA TimeKeeps ==
    ASSUME NEW k \in Keys, TypeInv, TypeInv', KeyInv(k), NEW j \in Keys,
           LeaseExpires(j) \/ BackoffElapses(j) \/ RowAges(j)
    PROVE  Kept(k)
<1>0. tx \in [Keys -> Row] /\ UNCHANGED <<call, batch, reclaimed>>
  BY DEF TypeInv, TypeOK, LeaseExpires, BackoffElapses, RowAges, unchangedByTime
<1>1. /\ tx'[k].status = tx[k].status /\ tx'[k].attempts = tx[k].attempts
      /\ tx'[k].terminal = tx[k].terminal
  <2>1. CASE LeaseExpires(j)
    BY <1>0, <2>1 DEF LeaseExpires, Row
  <2>2. CASE BackoffElapses(j)
    BY <1>0, <2>2 DEF BackoffElapses, Row
  <2>3. CASE RowAges(j)
    BY <1>0, <2>3 DEF RowAges, Row
  <2> QED
    BY <2>1, <2>2, <2>3
<1> QED
  BY <1>0, <1>1, QuietKeeps DEF Quiet, Called

-----------------------------------------------------------------------------
(* The theorems.                                                           *)

LEMMA InitClaimInv == Init => ClaimInv
<1> SUFFICES ASSUME Init, NEW k \in Keys PROVE KeyInv(k)
  BY DEF ClaimInv
<1>1. \A c \in Callers : ~Called(c, k)
  BY DEF Init, Called, IdleCall
<1>2. \A w \in Workers : batch[w] = {}
  BY DEF Init
<1>3. \A c \in Callers : ~Holds(c, k)
  BY <1>1, <1>2 DEF Holds, Called
<1>4. tx[k].status = "absent" /\ tx[k].attempts = 0 /\ tx[k].terminal = FALSE
  <2>1. tx[k] = NoRow
    BY DEF Init
  <2> QED
    BY ONLY <2>1 DEF NoRow
<1>5. Tried(k) /\ RowOk(k)
  BY <1>3, <1>4, AttemptsAssumption DEF Tried, RowOk, Callers
<1>6. Lease(k)
  BY <1>1, <1>2, <1>3 DEF Lease, Callers
<1> QED
  BY <1>5, <1>6 DEF KeyInv

LEMMA NextKeeps ==
    ASSUME TypeInv, TypeInv', ClaimInv, [Next]_vars, NEW k \in Keys
    PROVE  Kept(k)
<1>0. KeyInv(k)
  BY DEF ClaimInv
<1>1. CASE Next
  BY <1>0, <1>1, HandlerKeeps, WorkerKeeps, ReconcilerKeeps, LedgerKeeps, TimeKeeps DEF Next
<1>2. CASE UNCHANGED vars
  BY <1>0, <1>2, QuietKeeps DEF vars, Quiet, Called
<1> QED
  BY <1>1, <1>2

LEMMA ClaimInvAlways == Spec => []ClaimInv
<1>1. TypeInv /\ TypeInv' /\ ClaimInv /\ [Next]_vars => ClaimInv'
  BY NextKeeps DEF ClaimInv, Kept
<1> QED
  BY <1>1, InitClaimInv, TypeCorrect, PTL DEF Spec

\* Until a lease of the key is taken away, try_claim_pending_for_post and the
\* worker's claim leave one holder, and its row says posting.
THEOREM ClaimsAreExclusive == Spec => []ExclusiveUntilReclaimed
<1>1. ClaimInv => ExclusiveUntilReclaimed
  BY DEF ClaimInv, KeyInv, Lease, ExclusiveUntilReclaimed
<1> QED
  BY <1>1, ClaimInvAlways, PTL

\* Until then mark_terminal_failure and update_status keep terminal_failure_at
\* and the status together.
THEOREM StampsMatch == Spec => []TerminalStampMatches
<1>1. ClaimInv => TerminalStampMatches
  BY DEF ClaimInv, KeyInv, RowOk, TerminalStampMatches
<1> QED
  BY <1>1, ClaimInvAlways, PTL

\* process_claimed_ledger_posts gives a row at most the configured number of
\* attempts until then, and nothing that was never tried is failed.
THEOREM AttemptsAreBounded == Spec => []AttemptsBounded
<1>1. ClaimInv => AttemptsBounded
  BY DEF ClaimInv, KeyInv, Tried, RowOk, AttemptsBounded
<1> QED
  BY <1>1, ClaimInvAlways, PTL

\* Until then no unconditional UPDATE touches a row that is posted or failed.
THEOREM StatusesAreFinal == Spec => FinalUntilReclaimed
<1>1. TypeInv /\ TypeInv' /\ ClaimInv /\ [Next]_vars =>
         [\A k \in Keys \ reclaimed :
             tx[k].status \in {"posted", "failed"} => tx'[k].status = tx[k].status]_vars
  BY NextKeeps DEF Kept
<1> QED
  BY <1>1, ClaimInvAlways, TypeCorrect, PTL DEF Spec, FinalUntilReclaimed
=============================================================================
