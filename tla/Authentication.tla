--------------------------- MODULE Authentication ---------------------------
(***************************************************************************)
(* users-service: sessions and password resets of one user                 *)
(* (routes/auth.rs, routes/password_reset.rs).                             *)
(*                                                                         *)
(* A login adds a session; a refresh revokes a session and adds another; a *)
(* revocation revokes one.  A reset request invalidates the reset tokens   *)
(* it finds and adds one, which is mailed; a reset redeems a token: it     *)
(* sets the password, uses up the other tokens and revokes the sessions.   *)
(*                                                                         *)
(* PostgreSQL runs the statements under READ COMMITTED: an UPDATE picks    *)
(* its rows from what is committed when it starts (`seen`), then locks     *)
(* them one by one (`held`), waits for a lock another transaction holds,   *)
(* and skips a row that no longer matches by then.  What it changes is     *)
(* published at the COMMIT.  `pc[r]` is the statement that comes next.     *)
(*                                                                         *)
(* A password is named by the request that set it.  `gone` and `finished`  *)
(* are what a request can know to be over when it arrives, `committed` the *)
(* requests whose transaction committed, all bookkeeping of the model.     *)
(*                                                                         *)
(* A definition commented "Mutant" is used by no specification: it is the  *)
(* next definition with a plausible bug, and shows that a property notices.*)
(***************************************************************************)
EXTENDS Naturals, FiniteSets

CONSTANTS Requests,        \* HTTP requests: each is served once
          Sessions,        \* ids for rows of user_sessions, a bound
          Tokens,          \* ids for rows of password_reset_tokens, a bound
          Kinds,           \* the endpoints in use
          FirstSessions,   \* active sessions at the start
          FirstTokens,     \* unused reset tokens at the start
          User,            \* the row of the user
          Initial          \* the first password; the maker of the first rows

AllKinds == {"login", "refresh", "revoke", "request", "reset"}

ASSUME FirstAssumption  == FirstSessions \subseteq Sessions /\ FirstTokens \subseteq Tokens
ASSUME KindsAssumption  == Kinds \subseteq AllKinds
ASSUME UserAssumption   == User \notin Sessions \cup Tokens /\ Sessions \cap Tokens = {}
ASSUME InitialAssumption == Initial \notin Requests \cup Sessions \cup Tokens
ASSUME RequestsAssumption == Requests \cap (Sessions \cup Tokens) = {}

VARIABLES
    session,    \* "expired" is an active row past its expires_at
    token,      \* "expired" is an unused row past its expires_at
    password,   \* the user's password
    mailed,     \* tokens that reached the user
    maker,      \* the request that added each session and token
    pc,         \* the next statement of each request; a status code once answered
    req,        \* the endpoint of each request and what it presents
    seen,       \* rows the running UPDATE still has to lock
    held,       \* rows the open transaction has changed and keeps locked
    committed,  \* history: requests whose transaction committed
    gone,       \* history: what was no longer usable when each request arrived
    finished    \* history: requests answered when each request arrived

vars == <<session, token, password, mailed, maker, pc, req, seen, held,
          committed, gone, finished>>

-----------------------------------------------------------------------------
Answers == {"200", "400", "401", "500"}
Active  == {"checkPassword", "insertSession", "findSession", "replaceSession",
            "commitRefresh", "findActiveSession", "updateSession", "finishRevoke",
            "findUser", "invalidateTokens", "insertToken", "sendMail",
            "findBusiness", "claimToken", "updatePassword", "otherTokens",
            "revokeSessions", "commitReset"}
Rows    == Sessions \cup Tokens \cup {User}

OpenSessions == {s \in Sessions : session[s] \in {"active", "expired"}}
OpenTokens   == {t \in Tokens : token[t] \in {"unused", "expired"}}
Usable       == {s \in Sessions : session[s] = "active"}
                \cup {t \in Tokens : token[t] = "unused"}
Presented(r) == req[r].subject
Passwords    == {Initial} \cup {r \in committed : req[r].kind = "reset"}

unchangedData == <<session, token, password, mailed, maker, committed>>
unchangedPast == <<req, gone, finished>>

Init ==
    /\ session = [s \in Sessions |-> IF s \in FirstSessions THEN "active" ELSE "absent"]
    /\ token = [t \in Tokens |-> IF t \in FirstTokens THEN "unused" ELSE "absent"]
    /\ password = Initial
    /\ mailed = FirstTokens
    /\ maker = [x \in Sessions \cup Tokens |-> Initial]
    /\ pc = [r \in Requests |-> "idle"]
    /\ req = [r \in Requests |-> [kind |-> "none", subject |-> Initial]]
    /\ seen = [r \in Requests |-> {}]
    /\ held = [r \in Requests |-> {}]
    /\ committed = {}
    /\ gone = [r \in Requests |-> {}]
    /\ finished = [r \in Requests |-> {}]

-----------------------------------------------------------------------------
(* Statements and transactions.                                            *)

Go(r, step) == pc' = [pc EXCEPT ![r] = step]

\* The statement r was at is over: it holds every row it saw and still wanted.
At(r, step) == pc[r] = step /\ seen[r] = {}

\* A statement that changes nothing in the database.
Read(r, step) ==
    /\ Go(r, step)
    /\ UNCHANGED <<seen, held, unchangedData, unchangedPast>>

\* An UPDATE starts: `rows` match its WHERE clause.
See(r, rows, step) ==
    /\ seen' = [seen EXCEPT ![r] = rows \ held[r]]
    /\ Go(r, step)
    /\ UNCHANGED <<held, unchangedData, unchangedPast>>

\* A row that still matches once it is free; the UPDATE of a refresh goes
\* by id alone.
Matches(r, x) == x \in OpenSessions \cup OpenTokens \cup {User} \/ req[r].kind = "refresh"

Free(x) == \A r \in Requests : x \notin held[r]

Lock(r, x) ==
    /\ x \in seen[r] /\ Free(x)
    /\ seen' = [seen EXCEPT ![r] = @ \ {x}]
    /\ held' = [held EXCEPT ![r] = IF Matches(r, x) THEN @ \cup {x} ELSE @]
    /\ UNCHANGED <<pc, unchangedData, unchangedPast>>

\* What COMMIT publishes, with the rows the transaction adds: changed
\* sessions are revoked, changed tokens used.
Publish(r, newSessions, newTokens) ==
    /\ session' = [s \in Sessions |-> IF s \in newSessions THEN "active"
                                      ELSE IF s \in held[r] THEN "revoked" ELSE session[s]]
    /\ token' = [t \in Tokens |-> IF t \in newTokens THEN "unused"
                                  ELSE IF t \in held[r] THEN "used" ELSE token[t]]
    /\ password' = IF User \in held[r] THEN r ELSE password
    /\ maker' = [x \in Sessions \cup Tokens |->
                    IF x \in newSessions \cup newTokens THEN r ELSE maker[x]]
    /\ committed' = committed \cup {r}
    /\ held' = [held EXCEPT ![r] = {}]
    /\ UNCHANGED <<mailed, seen, unchangedPast>>

\* The acknowledgement of a COMMIT may be lost: the answer is 500 then.
Commit(r, newSessions, newTokens, step) ==
    /\ Publish(r, newSessions, newTokens)
    /\ Go(r, step) \/ Go(r, "500")

Rollback(r, answer) ==
    /\ seen' = [seen EXCEPT ![r] = {}]
    /\ held' = [held EXCEPT ![r] = {}]
    /\ Go(r, answer)
    /\ UNCHANGED <<unchangedData, unchangedPast>>

NewSession == {s \in Sessions : session[s] = "absent"}
NewToken   == {t \in Tokens : token[t] = "absent"}

First(kind) ==
    CASE kind = "login"   -> "checkPassword"
      [] kind = "refresh" -> "findSession"
      [] kind = "revoke"  -> "findActiveSession"
      [] kind = "request" -> "findUser"
      [] kind = "reset"   -> "claimToken"

\* A client presents a password that was set, a session's refresh token, or
\* a reset token from a mail.
CanPresent(kind) ==
    CASE kind = "login"                 -> Passwords
      [] kind \in {"refresh", "revoke"} -> {s \in Sessions : session[s] # "absent"}
      [] kind = "reset"                 -> mailed
      [] kind = "request"               -> {Initial}

Receive(r, kind, x) ==
    /\ pc[r] = "idle"
    /\ x \in CanPresent(kind)
    /\ req' = [req EXCEPT ![r] = [kind |-> kind, subject |-> x]]
    /\ gone' = [gone EXCEPT ![r] = ((Sessions \cup Tokens) \ Usable)
                                   \cup (Passwords \ {password})]
    /\ finished' = [finished EXCEPT ![r] = {q \in Requests : pc[q] \in Answers}]
    /\ Go(r, First(kind))
    /\ UNCHANGED <<seen, held, unchangedData>>

-----------------------------------------------------------------------------
(* Login: the password is compared with what the SELECT read, then the     *)
(* session is inserted.                                                    *)
CheckPassword(r) ==
    /\ At(r, "checkPassword")
    /\ Read(r, IF Presented(r) = password THEN "insertSession" ELSE "401")

InsertSession(r) ==
    /\ At(r, "insertSession")
    /\ \E s \in NewSession : Commit(r, {s}, {}, "200")

Login(r) == CheckPassword(r) \/ InsertSession(r)

-----------------------------------------------------------------------------
(* Refresh: the session is checked, then revoked and replaced.             *)

\* Mutant: the status of the session is not looked at.
FindSessionOfAnyStatus(r) ==
    /\ At(r, "findSession")
    /\ Read(r, "replaceSession")

FindSession(r) ==
    /\ At(r, "findSession")
    /\ Read(r, IF Presented(r) \in Usable THEN "replaceSession" ELSE "401")

ReplaceSession(r) ==
    /\ At(r, "replaceSession")
    /\ See(r, {Presented(r)}, "commitRefresh")

\* The INSERT of the new session and the COMMIT.
CommitRefresh(r) ==
    /\ At(r, "commitRefresh")
    /\ \E s \in NewSession : Commit(r, {s}, {}, "200")

Refresh(r) == FindSession(r) \/ ReplaceSession(r) \/ CommitRefresh(r)

-----------------------------------------------------------------------------
(* Revocation: one UPDATE outside any transaction.                         *)
FindActiveSession(r) ==
    /\ At(r, "findActiveSession")
    /\ Read(r, IF Presented(r) \in OpenSessions THEN "updateSession" ELSE "400")

UpdateSession(r) ==
    /\ At(r, "updateSession")
    /\ See(r, {Presented(r)} \cap OpenSessions, "finishRevoke")

FinishRevoke(r) ==
    /\ At(r, "finishRevoke")
    /\ IF held[r] = {} THEN Read(r, "400") ELSE Commit(r, {}, {}, "200")

Revoke(r) == FindActiveSession(r) \/ UpdateSession(r) \/ FinishRevoke(r)

-----------------------------------------------------------------------------
(* A reset request.  An unknown address is answered 200 like a known one.  *)
FindUser(r) ==
    /\ At(r, "findUser")
    /\ Read(r, "invalidateTokens") \/ Read(r, "200")

\* Mutant: earlier tokens stay as they are.
InvalidateNoTokens(r) ==
    /\ At(r, "invalidateTokens")
    /\ See(r, {}, "insertToken")

InvalidateTokens(r) ==
    /\ At(r, "invalidateTokens")
    /\ See(r, OpenTokens, "insertToken")

InsertToken(r) ==
    /\ At(r, "insertToken")
    /\ \E t \in NewToken : Commit(r, {}, {t}, "sendMail")

\* The mail goes out or does not; the request goes on either way.
SendMail(r) ==
    /\ At(r, "sendMail")
    /\ \E sent \in SUBSET {t \in Tokens : maker[t] = r} : mailed' = mailed \cup sent
    /\ Go(r, "findBusiness")
    /\ UNCHANGED <<session, token, password, maker, committed, seen, held, unchangedPast>>

FindBusiness(r) ==
    /\ At(r, "findBusiness")
    /\ Read(r, "200")

RequestPasswordReset(r) ==
    \/ FindUser(r) \/ InvalidateTokens(r) \/ InsertToken(r)
    \/ SendMail(r) \/ FindBusiness(r)

-----------------------------------------------------------------------------
(* A reset, one transaction.                                               *)
ClaimToken(r) ==
    /\ At(r, "claimToken")
    /\ See(r, {Presented(r)} \cap Usable, "updatePassword")

\* Mutant: whether the claim changed a row is not looked at.
UpdatePasswordUnclaimed(r) ==
    /\ At(r, "updatePassword")
    /\ See(r, {User}, "otherTokens")

UpdatePassword(r) ==
    /\ At(r, "updatePassword")
    /\ IF Presented(r) \in held[r] THEN See(r, {User}, "otherTokens") ELSE Rollback(r, "400")

InvalidateOtherTokens(r) ==
    /\ At(r, "otherTokens")
    /\ See(r, OpenTokens, "revokeSessions")

\* Mutant: the sessions stay as they are.
RevokeNoSessions(r) ==
    /\ At(r, "revokeSessions")
    /\ See(r, {}, "commitReset")

RevokeSessions(r) ==
    /\ At(r, "revokeSessions")
    /\ See(r, OpenSessions, "commitReset")

CommitReset(r) ==
    /\ At(r, "commitReset")
    /\ Commit(r, {}, {}, "200")

ResetPassword(r) ==
    \/ ClaimToken(r) \/ UpdatePassword(r) \/ InvalidateOtherTokens(r)
    \/ RevokeSessions(r) \/ CommitReset(r)

-----------------------------------------------------------------------------
(* Time and failures.                                                      *)
SessionExpires(s) ==
    /\ session[s] = "active"
    /\ session' = [session EXCEPT ![s] = "expired"]
    /\ UNCHANGED <<token, password, mailed, maker, committed, pc, seen, held, unchangedPast>>

TokenExpires(t) ==
    /\ token[t] = "unused"
    /\ token' = [token EXCEPT ![t] = "expired"]
    /\ UNCHANGED <<session, password, mailed, maker, committed, pc, seen, held, unchangedPast>>

\* A statement fails, or the process dies: the transaction rolls back.
StatementFails(r) ==
    /\ pc[r] \in Active
    /\ Rollback(r, "500")

WaitsFor(r, q) == \E x \in seen[r] \cap held[q] : q # r

\* PostgreSQL ends one of the transactions that wait for each other.
Deadlocked(r) ==
    \E D \in SUBSET Requests :
        /\ r \in D
        /\ \A q \in D : /\ \E p \in D : WaitsFor(q, p)
                        /\ \E p \in D : WaitsFor(p, q)

\* Mutant: nothing looks for deadlocks.
DeadlockUndetected(r) == FALSE /\ Rollback(r, "500")

DeadlockDetected(r) ==
    /\ Deadlocked(r)
    /\ Rollback(r, "500")

-----------------------------------------------------------------------------
(* Specifications.                                                         *)
Step(r) ==
    \/ Login(r) \/ Refresh(r) \/ Revoke(r) \/ RequestPasswordReset(r) \/ ResetPassword(r)
    \/ \E x \in Rows : Lock(r, x)

Next ==
    \/ \E r \in Requests :
          \/ \E kind \in Kinds, x \in Sessions \cup Tokens \cup Requests \cup {Initial} :
                Receive(r, kind, x)
          \/ Step(r) \/ StatementFails(r) \/ DeadlockDetected(r)
    \/ \E s \in Sessions : SessionExpires(s)
    \/ \E t \in Tokens : TokenExpires(t)

Spec == Init /\ [][Next]_vars

(* The runtime polls every request, PostgreSQL serves a statement that is  *)
(* not blocked and looks for deadlocks.                                    *)
Fairness == \A r \in Requests : WF_vars(Step(r)) /\ WF_vars(DeadlockDetected(r))

FairSpec == Spec /\ Fairness

-----------------------------------------------------------------------------
(* Properties.                                                             *)

\* Every variable has its type.
TypeOK ==
    /\ session \in [Sessions -> {"absent", "active", "expired", "revoked"}]
    /\ token \in [Tokens -> {"absent", "unused", "expired", "used"}]
    /\ password \in Requests \cup {Initial}
    /\ mailed \subseteq Tokens
    /\ maker \in [Sessions \cup Tokens -> Requests \cup {Initial}]
    /\ pc \in [Requests -> Active \cup Answers \cup {"idle"}]
    /\ req \in [Requests -> [kind : AllKinds \cup {"none"},
                             subject : Sessions \cup Tokens \cup Requests \cup {Initial}]]
    /\ seen \in [Requests -> SUBSET Rows]
    /\ held \in [Requests -> SUBSET Rows]
    /\ committed \subseteq Requests
    /\ gone \in [Requests -> SUBSET (Sessions \cup Tokens \cup Requests \cup {Initial})]
    /\ finished \in [Requests -> SUBSET Requests]

Resets == {r \in committed : req[r].kind = "reset"}

\* A reset token sets the password once, whatever resets race for it and
\* whatever answers are lost (claim_token_sql).
TokenUsedOnce ==
    \A r, q \in Resets : Presented(r) = Presented(q) => r = q

\* After a reset the sessions that were there before it are over: only a
\* login or refresh not yet answered when the reset arrived leaves one.
OutlivesResetOnlyByOverlap ==
    \A r \in Resets, s \in OpenSessions : maker[s] \notin finished[r] \cup {Initial}

\* What was spent before a request arrived does not serve it: a session that
\* was revoked or expired, a reset token that was used, replaced or expired,
\* a password that was reset.
SpentStaysSpent ==
    \A r \in committed :
        req[r].kind \in {"login", "refresh", "reset"} => Presented(r) \notin gone[r]

\* Of two reset tokens that can both be redeemed, neither was asked for
\* after the other's request was answered.
TwoUsableTokensTakeOverlap ==
    \A t, u \in Usable \cap Tokens :
        t # u /\ maker[u] # Initial => maker[t] \notin finished[maker[u]] \cup {Initial}

\* No request waits for ever, though resets lock tokens and the user in
\* different orders.
EveryRequestAnswered ==
    \A r \in Requests : pc[r] \in Active ~> pc[r] \in Answers

-----------------------------------------------------------------------------
(* Claims of the repository that the code does not keep.                   *)

\* "This ensures only the latest token is usable" (password_reset.rs:103).
OnlyLatestTokenUsable == Cardinality(Usable \cap Tokens) <= 1

\* "Revoke all active sessions for this user to invalidate refresh tokens"
\* (password_reset.rs:351).
ResetRevokesAllSessions ==
    [][\A r \in committed' \ committed :
          req[r].kind = "reset" => OpenSessions' = {}]_vars
=============================================================================
