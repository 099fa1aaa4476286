----------------------------- MODULE AuditTrail -----------------------------
(***************************************************************************)
(* The audit trail: users-service and accounts-service report what their   *)
(* mutations came to (audit_emit.rs), audit-service validates and stores   *)
(* the events (validate.rs, grpc_server.rs, routes/audit_events.rs).       *)
(*                                                                         *)
(* A handler does its work, then an event is built and sent, once, with a  *)
(* deadline; a failure is logged.  users-service waits for that before it  *)
(* answers, accounts-service hands it to a task.  A call may be lost or    *)
(* go on after its deadline, an INSERT may fail or lose its answer, the    *)
(* processes may crash.                                                    *)
(*                                                                         *)
(* What a mutation of users-service commits is its rows; of a money        *)
(* request it is the transaction row, the intent.  The ledger may refuse   *)
(* it later: a 202 is reported as a success all the same.                  *)
(*                                                                         *)
(* `stamp` is occurred_at: the moment an event is built, by one clock that *)
(* never gives a time twice.  A reason is its length.  `earlier` is        *)
(* history: the requests that were answered before each one's work.        *)
(*                                                                         *)
(* A definition commented "Mutant" is used by no specification: it is the  *)
(* next definition with a plausible bug, and shows that a property notices.*)
(***************************************************************************)
EXTENDS Naturals, Sequences

CONSTANTS Requests,    \* requests to the emitting services
          Asked,       \* their endpoints: service and action
          Reasons,     \* lengths of the error messages, 0 for none
          Appends,     \* requests to audit-service's HTTP endpoint
          Appended,    \* the events they carry
          MaxCrashes   \* bound on crashes of emitting processes

Services == {"users", "accounts"}

UsersActions == {"users.business.register", "users.auth.login", "users.auth.refresh",
                 "users.auth.revoke", "users.password_reset.request",
                 "users.password_reset.complete", "users.beta.apply", "users.api_key.create",
                 "users.api_key.revoke", "users.sdk.user.create"}
MoneyActions == {"accounts.money.deposit", "accounts.money.withdraw", "accounts.money.transfer"}
AccountsActions == {"accounts.account.create", "accounts.account.update_status",
                    "accounts.account.close"} \cup MoneyActions

\* Actions that may use the nil organization.
OrgZeroAllowed == {"users.business.register", "users.auth.login", "users.password_reset.request",
                   "users.password_reset.complete", "users.beta.apply"}

AllActions == (UsersActions \ {"users.sdk.user.create"}) \cup AccountsActions
              \cup {"ledger.transaction.post"}

Event == [action : UsersActions \cup AllActions, organization : {"tenant", "nil"},
          outcome : {"success", "client_error", "server_error"}, reason : Nat, stamp : Nat]

ASSUME AskedAssumption == \A q \in Asked :
    \/ q.service = "users" /\ q.action \in UsersActions
    \/ q.service = "accounts" /\ q.action \in AccountsActions
ASSUME ReasonsAssumption  == Reasons \subseteq Nat
ASSUME AppendedAssumption == \A e \in Appended : e \in Event
ASSUME AppendsAssumption  == Appends \cap Requests = {}
ASSUME CrashesAssumption  == MaxCrashes \in Nat

VARIABLES
    pc,         \* each request: "idle", "served" (the work is done), "answered", "gone"
    asked,      \* its endpoint
    status,     \* the HTTP status of what its work came to
    committed,  \* whether the work was committed: of a money request, its intent
    task,       \* the report: "none", "ready", "waiting" for the answer, and its end
    event,      \* the event built for it
    call,       \* the call at audit-service
    append,     \* the status of each HTTP append, 0 before
    rows,       \* audit_events, in the order of insertion
    stamp,      \* events built so far
    crashes,
    earlier

vars == <<pc, asked, status, committed, task, event, call, append, rows, stamp, crashes, earlier>>

-----------------------------------------------------------------------------
NoEvent == [action |-> "users.auth.login", organization |-> "nil", outcome |-> "success",
            reason |-> 0, stamp |-> 0]

Reported == {"skipped", "acknowledged", "failed"}
Awaits(r) == asked[r].service = "users"

\* Mutant: an answer of exactly 500 counts as the client's error.
OutcomeAbove500(s) ==
    IF s > 500 THEN "server_error" ELSE IF s >= 400 THEN "client_error" ELSE "success"

OutcomeFromStatus(s) ==
    IF s >= 500 THEN "server_error" ELSE IF s >= 400 THEN "client_error" ELSE "success"

\* A reason is cut to 500 characters and the ellipsis.
TruncateReason(n) == IF n > 500 THEN 501 ELSE n

\* The organization a handler reports: failures in users-service know none,
\* nor do applications and requests to reset the password of nobody; accounts
\* without one, or not found, are not reported.
Organizations(q, s) ==
    CASE q.service = "accounts"                       -> {"tenant", "unknown"}
      [] q.action = "users.sdk.user.create"           -> {"tenant"}
      [] q.action = "users.beta.apply"                -> {"nil"}
      [] q.action = "users.password_reset.request"    -> IF s < 400 THEN {"tenant", "nil"} ELSE {"nil"}
      [] q.service = "users" /\ q.action \notin {"users.sdk.user.create", "users.beta.apply",
                                                "users.password_reset.request"}
                                                      -> IF s < 400 THEN {"tenant"} ELSE {"nil"}

\* The reason is that of an error; a money request with a failed row is
\* reported as a 500 without one.
ReasonsOf(q, s) ==
    {n \in Reasons : /\ s < 400 => n = 0
                     /\ n = 0 => s < 400 \/ (s = 500 /\ q.action \in MoneyActions)}

\* validate_audit_event.  Of what an emitter can fail, this leaves out the
\* allowlist of metadata keys: create_sdk_user sends another (`api_key_id`),
\* but its action is refused before that.
Known(e)      == e.action \in AllActions
HasTenant(e)  == e.organization = "nil" => e.action \in OrgZeroAllowed
ShortEnough(e) == e.reason <= 500
Valid(e)      == Known(e) /\ HasTenant(e) /\ ShortEnough(e)

Row(from, e) == [from |-> from, event |-> e]

Init ==
    /\ pc = [r \in Requests |-> "idle"]
    /\ asked \in [Requests -> Asked]
    /\ status = [r \in Requests |-> 0]
    /\ committed = [r \in Requests |-> FALSE]
    /\ task = [r \in Requests |-> "none"]
    /\ event = [r \in Requests |-> NoEvent]
    /\ call = [r \in Requests |-> "none"]
    /\ append = [x \in Appends |-> 0]
    /\ rows = << >>
    /\ stamp = 0
    /\ crashes = 0
    /\ earlier = [r \in Requests |-> {}]

-----------------------------------------------------------------------------
(* The emitting services.                                                  *)

\* The handler's work.  A status under 400 comes after the commit, a 400 from
\* a check before it; a 500 leaves open whether anything was committed.
Work(r, s) ==
    /\ pc[r] = "idle"
    /\ pc' = [pc EXCEPT ![r] = "served"]
    /\ status' = [status EXCEPT ![r] = s]
    /\ \E done \in BOOLEAN :
          /\ s < 400 => done
          /\ s = 400 => ~done
          /\ committed' = [committed EXCEPT ![r] = done]
    /\ task' = [task EXCEPT ![r] = "ready"]
    /\ earlier' = [earlier EXCEPT ![r] = {q \in Requests : pc[q] = "answered"}]
    /\ UNCHANGED <<asked, event, call, append, rows, stamp, crashes>>

\* The event is built and sent, when the organization is known and the service
\* is configured with an audit client.
Emit(r) ==
    /\ task[r] = "ready"
    /\ \/ /\ \E o \in Organizations(asked[r], status[r]) \ {"unknown"},
                  n \in ReasonsOf(asked[r], status[r]) :
                event' = [event EXCEPT ![r] =
                       [action |-> asked[r].action, organization |-> o,
                        outcome |-> OutcomeFromStatus(status[r]),
                        reason |-> TruncateReason(n), stamp |-> stamp + 1]]
          /\ stamp' = stamp + 1
          /\ task' = [task EXCEPT ![r] = "waiting"]
          /\ call' = [call EXCEPT ![r] = "received"]
       \/ /\ task' = [task EXCEPT ![r] = "skipped"]
          /\ UNCHANGED <<event, stamp, call>>
    /\ UNCHANGED <<pc, asked, status, committed, append, rows, crashes, earlier>>

EndTask(r, how) ==
    /\ task[r] = "waiting"
    /\ task' = [task EXCEPT ![r] = how]
    /\ UNCHANGED <<pc, asked, status, committed, event, call, append, rows, stamp, crashes, earlier>>

Reply(r) ==
    \/ call[r] = "stored" /\ EndTask(r, "acknowledged")
    \/ call[r] \in {"refused", "failed"} /\ EndTask(r, "failed")

\* Mutant: a report that is late is sent again.
DeadlineResends(r) == EndTask(r, "ready")

\* AUDIT_APPEND_TIMEOUT_MS, or the connection breaks.
Deadline(r) == EndTask(r, "failed")

\* Mutant: users-service does not wait for the report either.
AnswerAtOnce(r) ==
    /\ pc[r] = "served"
    /\ pc' = [pc EXCEPT ![r] = "answered"]
    /\ UNCHANGED <<asked, status, committed, task, event, call, append, rows, stamp, crashes, earlier>>

\* The request is answered with the status of its work.
Answer(r) ==
    /\ pc[r] = "served"
    /\ Awaits(r) => task[r] \in Reported
    /\ pc' = [pc EXCEPT ![r] = "answered"]
    /\ UNCHANGED <<asked, status, committed, task, event, call, append, rows, stamp, crashes, earlier>>

\* A process ends, with its requests and its tasks.
Crash(service) ==
    LET mine == {r \in Requests : asked[r].service = service}
    IN  /\ crashes < MaxCrashes
        /\ crashes' = crashes + 1
        /\ pc' = [r \in Requests |-> IF r \in mine /\ pc[r] = "served" THEN "gone" ELSE pc[r]]
        /\ task' = [r \in Requests |->
                       IF r \in mine /\ task[r] \in {"ready", "waiting"} THEN "dead" ELSE task[r]]
        /\ UNCHANGED <<asked, status, committed, event, call, append, rows, stamp, earlier>>

-----------------------------------------------------------------------------
(* audit-service.                                                          *)

unchangedEmitters == <<pc, asked, status, committed, task, event, stamp, crashes, earlier>>

ValidateAuditEvent(r) ==
    /\ call[r] = "received"
    /\ call' = [call EXCEPT ![r] = IF Valid(event[r]) THEN "valid" ELSE "refused"]
    /\ UNCHANGED <<append, rows, unchangedEmitters>>

\* The INSERT, which may fail, also after it was committed.
InsertAuditEvent(r) ==
    /\ call[r] = "valid"
    /\ \/ /\ rows' = Append(rows, Row(r, event[r]))
          /\ \E how \in {"stored", "failed"} : call' = [call EXCEPT ![r] = how]
       \/ /\ call' = [call EXCEPT ![r] = "failed"]
          /\ UNCHANGED rows
    /\ UNCHANGED <<append, unchangedEmitters>>

\* The call or its answer is lost, or audit-service drops it at a restart.
LoseCall(r) ==
    /\ call[r] \in {"received", "valid"} \/ (task[r] = "waiting" /\ call[r] # "lost")
    /\ call' = [call EXCEPT ![r] = "lost"]
    /\ UNCHANGED <<append, rows, unchangedEmitters>>

\* An HTTP append: its token, its environment, the same validation and INSERT.
HttpAppend(x, e) ==
    /\ append[x] = 0
    /\ \/ append' = [append EXCEPT ![x] = 401] /\ UNCHANGED rows
       \/ append' = [append EXCEPT ![x] = 400] /\ UNCHANGED rows
       \/ /\ Valid(e)
          /\ rows' = Append(rows, Row(x, e))
          /\ \E s \in {201, 500} : append' = [append EXCEPT ![x] = s]
       \/ /\ Valid(e)
          /\ append' = [append EXCEPT ![x] = 500]
          /\ UNCHANGED rows
    /\ UNCHANGED <<call, unchangedEmitters>>

-----------------------------------------------------------------------------
Handle(r) == (\E s \in {200, 400, 500} : Work(r, s)) \/ Answer(r)
Report(r) == Emit(r) \/ Reply(r) \/ Deadline(r)
Ingest(r) == ValidateAuditEvent(r) \/ InsertAuditEvent(r) \/ LoseCall(r)

Next ==
    \/ \E r \in Requests : Handle(r) \/ Report(r) \/ Ingest(r)
    \/ \E s \in Services : Crash(s)
    \/ \E x \in Appends, e \in Appended : HttpAppend(x, e)

\* A handler and its report go on, and time does; audit-service need not.
Fairness == \A r \in Requests : WF_vars(Answer(r)) /\ WF_vars(Emit(r)) /\ WF_vars(Deadline(r))

Spec == Init /\ [][Next]_vars /\ Fairness

-----------------------------------------------------------------------------
(* Properties.                                                             *)

\* Every variable has its type.
TypeOK ==
    /\ pc \in [Requests -> {"idle", "served", "answered", "gone"}]
    /\ asked \in [Requests -> Asked]
    /\ status \in [Requests -> {0, 200, 400, 500}]
    /\ committed \in [Requests -> BOOLEAN]
    /\ task \in [Requests -> {"none", "ready", "waiting", "dead"} \cup Reported]
    /\ event \in [Requests -> Event]
    /\ call \in [Requests -> {"none", "received", "valid", "stored", "refused", "failed", "lost"}]
    /\ append \in [Appends -> {0, 201, 400, 401, 500}]
    /\ \A i \in DOMAIN rows : rows[i].from \in Requests \cup Appends /\ rows[i].event \in Event
    /\ stamp \in Nat /\ crashes \in 0 .. MaxCrashes
    /\ earlier \in [Requests -> SUBSET Requests]

Stored(r) == {i \in DOMAIN rows : rows[i].from = r}

\* A row tells what became of the work: a success was committed (of a money
\* request, its intent), a client's error was not; only a server error leaves
\* it open (outcome_from_status, and handlers that report after the commit).
RowTellsOutcome ==
    \A r \in Requests : \A i \in Stored(r) :
        /\ rows[i].event.outcome = "success" => committed[r]
        /\ rows[i].event.outcome = "client_error" => ~committed[r]

\* A request leaves at most one row, whatever was late or lost (the report is
\* never repeated).
AtMostOneRow == \A r \in Requests : \A i, j \in Stored(r) : i = j

\* A report that was acknowledged is in the table (append_audit_event answers
\* after the INSERT).
AcknowledgedIsStored == \A r \in Requests : task[r] = "acknowledged" => Stored(r) # {}

\* Requests to users-service that follow one another are listed in that
\* order, though the rows of late calls may be inserted in any order: the
\* event is built before the answer (emit_users_mutation is awaited).
AwaitedInOrder ==
    \A r, s \in Requests :
        Awaits(r) /\ r \in earlier[s] =>
            \A i \in Stored(r), j \in Stored(s) : rows[i].event.stamp < rows[j].event.stamp

\* Every request is answered although audit-service may hang, unless the
\* process crashes (the deadline of the call).
EveryRequestAnswered ==
    \A r \in Requests : pc[r] = "served" ~> pc[r] \in {"answered", "gone"}

-----------------------------------------------------------------------------
(* What the repository says and the code does not do.                      *)

\* "Full v1 mutation catalog." (audit-service validate.rs:20): every mutation
\* that is reported is in it.
CatalogIsFull == \A r \in Requests : call[r] = "refused" => Known(event[r])

\* "Actions that may use the all-zero organization UUID (no tenant yet)."
\* (audit-service validate.rs:11): the only ones that are reported with it.
NilOnlyWhereAllowed == \A r \in Requests : call[r] = "refused" => HasTenant(event[r])

\* "truncate_reason_caps_at_500_chars_with_ellipsis" (users-service
\* audit_emit.rs:300): a reason that was cut is no longer too long.
CutReasonIsAccepted == \A r \in Requests : call[r] = "refused" => ShortEnough(event[r])

\* The report of a transfer comes before its answer
\* (docs/audit-trail-architecture.md:54).
ReportedBeforeAnswer ==
    \A r \in Requests : pc[r] = "answered" => task[r] \in Reported
=============================================================================
