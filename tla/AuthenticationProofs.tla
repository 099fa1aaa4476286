------------------------ MODULE AuthenticationProofs ------------------------
(***************************************************************************)
(* Theorems about Authentication, for every set of requests, sessions and  *)
(* tokens, and every interleaving, failure, lost answer and deadlock.      *)
(*                                                                         *)
(* The invariant is about one request at a time: where it is, what it      *)
(* presents, what it locked and what its statements have seen.  A step of  *)
(* another request reaches it only through the committed rows, which       *)
(* change in a few ways (CommittedRows).                                   *)
(***************************************************************************)
EXTENDS Authentication, TLAPS

-----------------------------------------------------------------------------
(* The inductive invariant.                                                *)

StepsOf(kind) ==
    {s \in Active :
        \/ kind = "login"   /\ s \in {"checkPassword", "insertSession"}
        \/ kind = "refresh" /\ s \in {"findSession", "replaceSession", "commitRefresh"}
        \/ kind = "revoke"  /\ s \in {"findActiveSession", "updateSession", "finishRevoke"}
        \/ kind = "request" /\ s \in {"findUser", "invalidateTokens", "insertToken",
                                      "sendMail", "findBusiness"}
        \/ kind = "reset"   /\ s \in {"claimToken", "updatePassword", "otherTokens",
                                      "revokeSessions", "commitReset"}}

\* After its commit a request only mails.
After    == {"sendMail", "findBusiness"}

\* Where a request has an UPDATE under way or a lock to keep.
Updating == {"commitRefresh", "finishRevoke", "insertToken", "updatePassword",
             "otherTokens", "revokeSessions", "commitReset"}

\* A reset that found its token.
Claimed  == {"otherTokens", "revokeSessions", "commitReset"}

Place(r) ==
    /\ pc[r] \in Active => pc[r] \in StepsOf(req[r].kind)
    /\ pc[r] \notin Updating => seen[r] = {} /\ held[r] = {}
    /\ r \in committed => pc[r] \in After \cup Answers
    /\ finished[r] \subseteq {q \in Requests : pc[q] \in Answers}

\* What a request presents has been there since it arrived.
Asks(r) ==
    /\ req[r].kind \in {"refresh", "revoke"} => /\ Presented(r) \in Sessions
                                                /\ session[Presented(r)] # "absent"
    /\ req[r].kind = "reset" => Presented(r) \in Tokens /\ token[Presented(r)] # "absent"
    /\ req[r].kind = "refresh" => seen[r] \subseteq Sessions

\* What was spent when a request arrived stays spent, and the request has not
\* got past the check of what it presents.
Spent(r) ==
    /\ gone[r] \cap Requests \subseteq committed
    /\ password \notin gone[r]
    /\ Presented(r) \in gone[r] =>
          /\ req[r].kind = "refresh" => session[Presented(r)] \in {"expired", "revoked"}
          /\ req[r].kind = "reset"   => token[Presented(r)] \in {"expired", "used"}
          /\ pc[r] \notin {"insertSession", "replaceSession", "commitRefresh"} \cup Claimed
          /\ pc[r] = "updatePassword" => Presented(r) \notin seen[r] \cup held[r]
          /\ r \in committed => req[r].kind \notin {"login", "refresh", "reset"}

\* A locked token stays open until the lock is released, and a reset that
\* goes on has locked its own.
Redeems(r) ==
    /\ held[r] \cap Tokens \subseteq OpenTokens
    /\ pc[r] \in Claimed => Presented(r) \in held[r]
    /\ r \in Resets => token[Presented(r)] = "used"

\* Rows made by requests that were over when r arrived, still open.
Old(r) == {x \in OpenSessions \cup OpenTokens : maker[x] \in finished[r] \cup {Initial}}

\* An UPDATE over all open rows leaves none of the old ones.
Sweeps(r) ==
    /\ pc[r] = "commitReset" => Old(r) \cap Sessions \subseteq seen[r] \cup held[r]
    /\ pc[r] = "insertToken" => Old(r) \cap Tokens \subseteq seen[r] \cup held[r]
    /\ r \in committed => /\ req[r].kind = "reset"   => Old(r) \cap Sessions = {}
                          /\ req[r].kind = "request" => Old(r) \cap Tokens = {}

\* A row is locked by one transaction at a time.
Exclusive == \A r, q \in Requests : held[r] \cap held[q] # {} => r = q

\* A row was added by the COMMIT of its maker, a token by a reset request.
Made ==
    /\ \A x \in Sessions \cup Tokens : maker[x] # Initial => maker[x] \in committed
    /\ \A t \in Tokens : maker[t] # Initial => /\ req[maker[t]].kind = "request"
                                               /\ token[t] # "absent"
    /\ \A t \in mailed : token[t] # "absent"

AuthInv ==
    /\ TypeOK /\ Exclusive /\ Made /\ TokenUsedOnce
    /\ \A r \in Requests : Place(r) /\ Asks(r) /\ Spent(r) /\ Redeems(r) /\ Sweeps(r)

-----------------------------------------------------------------------------
(* What the kinds of statements do to the request that runs them.          *)

(* A read only moves its request on.                                       *)
LEMMA ReadStep ==
    ASSUME TypeOK, NEW r \in Requests, NEW step, Read(r, step)
    PROVE  /\ pc'[r] = step
           /\ UNCHANGED <<seen, held, session, token, password, mailed, maker, committed,
                          req, gone, finished>>
BY DEF Read, Go, TypeOK, unchangedData, unchangedPast

(* An UPDATE that starts picks its rows.                                   *)
LEMMA SeeStep ==
    ASSUME TypeOK, NEW r \in Requests, NEW rows, NEW step, See(r, rows, step)
    PROVE  /\ pc'[r] = step
           /\ seen'[r] = rows \ held[r]
           /\ UNCHANGED <<held, session, token, password, mailed, maker, committed,
                          req, gone, finished>>
BY DEF See, Go, TypeOK, unchangedData, unchangedPast

(* A row is locked if it is free and still matches.                        *)
LEMMA LockStep ==
    ASSUME TypeOK, NEW r \in Requests, NEW x, Lock(r, x)
    PROVE  /\ x \in seen[r] /\ Free(x)
           /\ seen'[r] = seen[r] \ {x}
           /\ held'[r] = IF Matches(r, x) THEN held[r] \cup {x} ELSE held[r]
           /\ UNCHANGED <<pc, session, token, password, mailed, maker, committed,
                          req, gone, finished>>
BY DEF Lock, TypeOK, unchangedData, unchangedPast

(* A rollback drops what the transaction saw and locked.                   *)
LEMMA RollbackStep ==
    ASSUME TypeOK, NEW r \in Requests, NEW a, Rollback(r, a)
    PROVE  /\ pc'[r] = a /\ seen'[r] = {} /\ held'[r] = {}
           /\ UNCHANGED <<session, token, password, mailed, maker, committed,
                          req, gone, finished>>
BY DEF Rollback, Go, TypeOK, unchangedData, unchangedPast

(* A COMMIT releases the locks, revokes or uses up what was locked and     *)
(* adds the new rows; its answer may be lost.                              *)
LEMMA CommitStep ==
    ASSUME TypeOK, NEW r \in Requests, NEW S, NEW T,
           NEW step, Commit(r, S, T, step)
    PROVE  /\ pc'[r] \in {step, "500"} /\ held'[r] = {}
           /\ committed' = committed \cup {r}
           /\ password' = IF User \in held[r] THEN r ELSE password
           /\ \A s \in Sessions : session'[s] = IF s \in S THEN "active"
                                                ELSE IF s \in held[r] THEN "revoked"
                                                     ELSE session[s]
           /\ \A t \in Tokens : token'[t] = IF t \in T THEN "unused"
                                            ELSE IF t \in held[r] THEN "used" ELSE token[t]
           /\ \A x \in Sessions \cup Tokens :
                 maker'[x] = IF x \in S \cup T THEN r ELSE maker[x]
           /\ UNCHANGED <<seen, mailed, req, gone, finished>>
<1>1. pc'[r] \in {step, "500"} /\ held'[r] = {}
  BY DEF Commit, Publish, Go, TypeOK
<1>2. QED
  BY <1>1 DEF Commit, Publish, unchangedPast

-----------------------------------------------------------------------------
(* What a step of one request does to the rest.                            *)

Ids == Sessions \cup Tokens \cup Requests \cup {Initial}

\* What a step of request r may do.
Act(r) ==
    \/ \E kind \in Kinds, x \in Ids : Receive(r, kind, x)
    \/ Step(r) \/ StatementFails(r) \/ DeadlockDetected(r)

(* A step of one request leaves the others where they are.                 *)
LEMMA OthersStay ==
    ASSUME TypeOK, NEW r \in Requests, NEW q \in Requests \ {r}, Act(r)
    PROVE  /\ pc'[q] = pc[q] /\ seen'[q] = seen[q] /\ held'[q] = held[q]
           /\ req'[q] = req[q] /\ gone'[q] = gone[q] /\ finished'[q] = finished[q]
<1> DEFINE Stays == /\ pc'[q] = pc[q] /\ seen'[q] = seen[q] /\ held'[q] = held[q]
                    /\ req'[q] = req[q] /\ gone'[q] = gone[q] /\ finished'[q] = finished[q]
<1>1. ASSUME NEW kind, NEW x, Receive(r, kind, x)
      PROVE  Stays
  BY <1>1 DEF Receive, Go, TypeOK
<1>2. ASSUME NEW step, Read(r, step)
      PROVE  Stays
  BY <1>2 DEF Read, Go, TypeOK, unchangedPast
<1>3. ASSUME NEW rows, NEW step, See(r, rows, step)
      PROVE  Stays
  BY <1>3 DEF See, Go, TypeOK, unchangedPast
<1>4. ASSUME NEW x, Lock(r, x)
      PROVE  Stays
  BY <1>4 DEF Lock, TypeOK, unchangedPast
<1>5. ASSUME NEW S, NEW T, NEW step, Commit(r, S, T, step)
      PROVE  Stays
  BY <1>5 DEF Commit, Publish, Go, TypeOK, unchangedPast
<1>6. ASSUME NEW a, Rollback(r, a)
      PROVE  Stays
  BY <1>6 DEF Rollback, Go, TypeOK, unchangedPast
<1>7. CASE Login(r)
  BY <1>2, <1>5, <1>7 DEF Login, CheckPassword, InsertSession
<1>8. CASE Refresh(r)
  BY <1>2, <1>3, <1>5, <1>8 DEF Refresh, FindSession, ReplaceSession, CommitRefresh
<1>9. CASE Revoke(r)
  BY <1>2, <1>3, <1>5, <1>9 DEF Revoke, FindActiveSession, UpdateSession, FinishRevoke
<1>10. CASE RequestPasswordReset(r)
  <2>1. CASE SendMail(r)
    BY <2>1 DEF SendMail, Go, TypeOK, unchangedPast
  <2>2. CASE ~SendMail(r)
    BY <1>2, <1>3, <1>5, <1>10, <2>2
       DEF RequestPasswordReset, FindUser, InvalidateTokens, InsertToken, FindBusiness
  <2>3. QED
    BY <2>1, <2>2
<1>11. CASE ResetPassword(r)
  BY <1>3, <1>5, <1>6, <1>11
     DEF ResetPassword, ClaimToken, UpdatePassword, InvalidateOtherTokens, RevokeSessions,
         CommitReset
<1>12. CASE \E x \in Rows : Lock(r, x)
  BY <1>4, <1>12
<1>13. CASE StatementFails(r) \/ DeadlockDetected(r)
  BY <1>6, <1>13 DEF StatementFails, DeadlockDetected
<1>14. QED
  BY <1>1, <1>7, <1>8, <1>9, <1>10, <1>11, <1>12, <1>13 DEF Act, Step

\* The COMMIT of a request, with what it adds.
CommitsAt(r, S, T) ==
    /\ seen[r] = {}
    /\ \/ /\ pc[r] \in {"insertSession", "commitRefresh"}
          /\ \E s \in NewSession : S = {s}
          /\ T = {} /\ Commit(r, S, T, "200")
       \/ /\ pc[r] = "insertToken"
          /\ S = {}
          /\ \E t \in NewToken : T = {t}
          /\ Commit(r, S, T, "sendMail")
       \/ /\ pc[r] = "finishRevoke" \/ pc[r] = "commitReset"
          /\ S = {} /\ T = {} /\ Commit(r, S, T, "200")

Commits(r) == \E S \in SUBSET Sessions, T \in SUBSET Tokens : CommitsAt(r, S, T)

(* What a COMMIT does, whichever request it belongs to.                    *)
LEMMA CommitsDo ==
    ASSUME TypeOK, NEW r \in Requests, NEW S, NEW T,
           CommitsAt(r, S, T)
    PROVE  /\ pc'[r] \in {IF pc[r] = "insertToken" THEN "sendMail" ELSE "200", "500"}
           /\ held'[r] = {}
           /\ committed' = committed \cup {r}
           /\ password' = IF User \in held[r] THEN r ELSE password
           /\ \A s \in Sessions : session'[s] = IF s \in S THEN "active"
                                                ELSE IF s \in held[r] THEN "revoked"
                                                     ELSE session[s]
           /\ \A t \in Tokens : token'[t] = IF t \in T THEN "unused"
                                            ELSE IF t \in held[r] THEN "used" ELSE token[t]
           /\ \A x \in Sessions \cup Tokens :
                 maker'[x] = IF x \in S \cup T THEN r ELSE maker[x]
           /\ UNCHANGED <<seen, mailed, req, gone, finished>>
<1>1. CASE pc[r] = "insertToken"
  <2>1. Commit(r, S, T, "sendMail")
    BY <1>1 DEF CommitsAt
  <2>2. QED
    BY <1>1, <2>1, CommitStep
<1>2. CASE pc[r] # "insertToken"
  <2>1. Commit(r, S, T, "200")
    BY <1>2 DEF CommitsAt
  <2>2. QED
    BY <1>2, <2>1, CommitStep
<1>3. QED
  BY <1>1, <1>2

(* Committed rows change with a COMMIT only.                               *)
LEMMA WhoCommits ==
    ASSUME NEW r \in Requests, Act(r), ~Commits(r)
    PROVE  UNCHANGED <<session, token, password, maker, committed>>
<1> DEFINE Same == UNCHANGED <<session, token, password, maker, committed>>
<1>1. ASSUME NEW kind, NEW x, Receive(r, kind, x)
      PROVE  Same
  BY <1>1 DEF Receive, unchangedData
<1>2. ASSUME NEW step, Read(r, step)
      PROVE  Same
  BY <1>2 DEF Read, unchangedData
<1>3. ASSUME NEW rows, NEW step, See(r, rows, step)
      PROVE  Same
  BY <1>3 DEF See, unchangedData
<1>4. ASSUME NEW x, Lock(r, x)
      PROVE  Same
  BY <1>4 DEF Lock, unchangedData
<1>5. ASSUME NEW a, Rollback(r, a)
      PROVE  Same
  BY <1>5 DEF Rollback, unchangedData
<1>6. ASSUME NEW S \in SUBSET Sessions, NEW T \in SUBSET Tokens, CommitsAt(r, S, T)
      PROVE  FALSE
  BY <1>6 DEF Commits
<1>7. CASE Login(r)
  <2>1. CASE InsertSession(r)
    <3>1. PICK s \in NewSession : Commit(r, {s}, {}, "200")
      BY <2>1 DEF InsertSession
    <3>2. CommitsAt(r, {s}, {}) /\ {s} \in SUBSET Sessions
      BY <2>1, <3>1 DEF InsertSession, At, CommitsAt, NewSession
    <3>3. QED
      BY <1>6, <3>2
  <2>2. QED
    BY <1>2, <1>7, <2>1 DEF Login, CheckPassword
<1>8. CASE Refresh(r)
  <2>1. CASE CommitRefresh(r)
    <3>1. PICK s \in NewSession : Commit(r, {s}, {}, "200")
      BY <2>1 DEF CommitRefresh
    <3>2. CommitsAt(r, {s}, {}) /\ {s} \in SUBSET Sessions
      BY <2>1, <3>1 DEF CommitRefresh, At, CommitsAt, NewSession
    <3>3. QED
      BY <1>6, <3>2
  <2>2. QED
    BY <1>2, <1>3, <1>8, <2>1 DEF Refresh, FindSession, ReplaceSession
<1>9. CASE Revoke(r)
  <2>1. CASE FinishRevoke(r) /\ held[r] # {}
    <3>1. CommitsAt(r, {}, {})
      BY <2>1 DEF FinishRevoke, At, CommitsAt
    <3>2. QED
      BY <1>6, <3>1
  <2>2. QED
    BY <1>2, <1>3, <1>9, <2>1 DEF Revoke, FindActiveSession, UpdateSession, FinishRevoke
<1>10. CASE RequestPasswordReset(r)
  <2>1. CASE InsertToken(r)
    <3>1. PICK t \in NewToken : Commit(r, {}, {t}, "sendMail")
      BY <2>1 DEF InsertToken
    <3>2. CommitsAt(r, {}, {t}) /\ {t} \in SUBSET Tokens
      BY <2>1, <3>1 DEF InsertToken, At, CommitsAt, NewToken
    <3>3. QED
      BY <1>6, <3>2
  <2>2. CASE SendMail(r)
    BY <2>2 DEF SendMail
  <2>3. QED
    BY <1>2, <1>3, <1>10, <2>1, <2>2
       DEF RequestPasswordReset, FindUser, InvalidateTokens, FindBusiness
<1>11. CASE ResetPassword(r)
  <2>1. CASE CommitReset(r)
    <3>1. CommitsAt(r, {}, {})
      BY <2>1 DEF CommitReset, At, CommitsAt
    <3>2. QED
      BY <1>6, <3>1
  <2>2. QED
    BY <1>3, <1>5, <1>11, <2>1
       DEF ResetPassword, ClaimToken, UpdatePassword, InvalidateOtherTokens, RevokeSessions
<1>12. CASE \E x \in Rows : Lock(r, x)
  BY <1>4, <1>12
<1>13. CASE StatementFails(r) \/ DeadlockDetected(r)
  BY <1>5, <1>13 DEF StatementFails, DeadlockDetected
<1>14. QED
  BY <1>1, <1>7, <1>8, <1>9, <1>10, <1>11, <1>12, <1>13 DEF Act, Step

\* What the invariant says of one request.
Own(r) == Place(r) /\ Asks(r) /\ Spent(r) /\ Redeems(r) /\ Sweeps(r)

(* A COMMIT comes before the request is answered and counts once.          *)
LEMMA CommitIsFirst ==
    ASSUME AuthInv, NEW r \in Requests, NEW S, NEW T, CommitsAt(r, S, T)
    PROVE  /\ r \notin committed /\ pc[r] \notin Answers /\ pc[r] # "idle"
           /\ r # Initial
           /\ S \subseteq NewSession /\ T \subseteq NewToken
BY InitialAssumption DEF AuthInv, Place, CommitsAt, After, Answers

(* Nothing happens to a request that was answered.                         *)
LEMMA AnswerIsLast ==
    ASSUME NEW r \in Requests, Place(r), pc[r] \in Answers, Act(r)
    PROVE  FALSE
<1>1. seen[r] = {}
  BY DEF Place, Answers, Updating
<1>2. ~StatementFails(r)
  BY DEF StatementFails, Active, Answers
<1>3. ~DeadlockDetected(r)
  BY <1>1 DEF DeadlockDetected, Deadlocked, WaitsFor
<1>4. ~\E x \in Rows : Lock(r, x)
  BY <1>1 DEF Lock
<1>5. ~(Login(r) \/ Refresh(r) \/ Revoke(r))
  BY DEF Login, CheckPassword, InsertSession, Refresh, FindSession, ReplaceSession,
         CommitRefresh, Revoke, FindActiveSession, UpdateSession, FinishRevoke, At, Answers
<1>6. ~(RequestPasswordReset(r) \/ ResetPassword(r))
  BY DEF RequestPasswordReset, FindUser, InvalidateTokens, InsertToken, SendMail,
         FindBusiness, ResetPassword, ClaimToken, UpdatePassword, InvalidateOtherTokens,
         RevokeSessions, CommitReset, At, Answers
<1>7. ~\E kind \in Kinds, x \in Ids : Receive(r, kind, x)
  BY DEF Receive, Answers
<1>8. QED
  BY <1>2, <1>3, <1>4, <1>5, <1>6, <1>7 DEF Act, Step

(* How committed rows change: a row stays, is never usable again once it   *)
(* is not, and is changed only by the transaction that locked it; the      *)
(* password becomes that of a request that had not committed.              *)
LEMMA CommittedRows ==
    ASSUME AuthInv, NEW r \in Requests, Act(r)
    PROVE  /\ \A s \in Sessions :
                 /\ session[s] # "absent" => session'[s] # "absent"
                 /\ session[s] \in {"expired", "revoked"} => session'[s] \in {"expired", "revoked"}
           /\ \A t \in Tokens :
                 /\ token[t] # "absent" => token'[t] # "absent"
                 /\ token[t] \in {"expired", "used"} => token'[t] \in {"expired", "used"}
                 /\ token[t] = "used" => token'[t] = "used"
                 /\ t \in OpenTokens /\ t \notin held[r] => t \in OpenTokens'
           /\ committed' = committed \/ (committed' = committed \cup {r} /\ r \notin committed)
           /\ password' = password \/ (password' = r /\ r \notin committed)
<1>0. TypeOK
  BY DEF AuthInv
<1>1. CASE Commits(r)
  <2>1. PICK S \in SUBSET Sessions, T \in SUBSET Tokens : CommitsAt(r, S, T)
    BY <1>1 DEF Commits
  <2>3. /\ committed' = committed \cup {r}
        /\ password' = IF User \in held[r] THEN r ELSE password
        /\ \A s \in Sessions : session'[s] = IF s \in S THEN "active"
                                             ELSE IF s \in held[r] THEN "revoked"
                                                  ELSE session[s]
        /\ \A t \in Tokens : token'[t] = IF t \in T THEN "unused"
                                         ELSE IF t \in held[r] THEN "used" ELSE token[t]
    BY <1>0, <2>1, CommitsDo
  <2>4. r \notin committed /\ S \subseteq NewSession /\ T \subseteq NewToken
    BY <2>1, CommitIsFirst
  <2>5. /\ \A s \in S : session[s] = "absent"
        /\ \A t \in T : token[t] = "absent"
    BY <2>4 DEF NewSession, NewToken
  <2>6. \A t \in Tokens : t \in OpenTokens /\ t \notin held[r] => t \in OpenTokens'
    BY <2>3, <2>5 DEF OpenTokens
  <2>7. \A s \in Sessions :
           /\ session[s] # "absent" => session'[s] # "absent"
           /\ session[s] \in {"expired", "revoked"} => session'[s] \in {"expired", "revoked"}
    BY <2>3, <2>5
  <2>8. \A t \in Tokens :
           /\ token[t] # "absent" => token'[t] # "absent"
           /\ token[t] \in {"expired", "used"} => token'[t] \in {"expired", "used"}
           /\ token[t] = "used" => token'[t] = "used"
    BY <2>3, <2>5
  <2>9. QED
    BY <2>3, <2>4, <2>6, <2>7, <2>8
<1>2. CASE ~Commits(r)
  <2>1. UNCHANGED <<session, token, password, maker, committed>>
    BY <1>2, WhoCommits
  <2>2. QED
    BY <2>1 DEF OpenTokens
<1>3. QED
  BY <1>1, <1>2

(* No open row is added for a request that was already answered.           *)
LEMMA OldShrinks ==
    ASSUME AuthInv, NEW r \in Requests, Act(r), NEW q \in Requests,
           finished'[q] = finished[q]
    PROVE  Old(q)' \subseteq Old(q)
<1>0. TypeOK /\ Place(q)
  BY DEF AuthInv
<1>1. CASE Commits(r)
  <2>1. PICK S \in SUBSET Sessions, T \in SUBSET Tokens : CommitsAt(r, S, T)
    BY <1>1 DEF Commits
  <2>3. /\ \A s \in Sessions : session'[s] = IF s \in S THEN "active"
                                             ELSE IF s \in held[r] THEN "revoked"
                                                  ELSE session[s]
        /\ \A t \in Tokens : token'[t] = IF t \in T THEN "unused"
                                         ELSE IF t \in held[r] THEN "used" ELSE token[t]
        /\ \A x \in Sessions \cup Tokens : maker'[x] = IF x \in S \cup T THEN r ELSE maker[x]
    BY <1>0, <2>1, CommitsDo
  <2>4. r \notin finished[q] \cup {Initial}
    BY <1>0, <2>1, CommitIsFirst DEF Place
  <2>5. ASSUME NEW x \in Old(q)'
        PROVE  x \in Old(q)
    <3>1. /\ x \in (OpenSessions \cup OpenTokens)'
          /\ maker'[x] \in finished[q] \cup {Initial}
      BY <2>5 DEF Old
    <3>2. x \in Sessions \cup Tokens
      BY <3>1 DEF OpenSessions, OpenTokens
    <3>3. x \notin S \cup T /\ maker'[x] = maker[x]
      BY <2>3, <2>4, <3>1, <3>2
    <3>4. x \in OpenSessions \cup OpenTokens
      BY <2>3, <3>1, <3>3 DEF OpenSessions, OpenTokens
    <3>5. QED
      BY <3>1, <3>3, <3>4 DEF Old
  <2>6. QED
    BY <2>5
<1>2. CASE ~Commits(r)
  <2>1. UNCHANGED <<session, token, password, maker, committed>>
    BY <1>2, WhoCommits
  <2>2. QED
    BY <2>1 DEF Old, OpenSessions, OpenTokens
<1>3. QED
  BY <1>1, <1>2

(* A step of one request keeps what the invariant says of another.         *)
LEMMA OthersKept ==
    ASSUME AuthInv, NEW r \in Requests, NEW q \in Requests \ {r}, Act(r)
    PROVE  Own(q)'
<1>0. TypeOK /\ Own(q) /\ Place(r)
  BY DEF AuthInv, Own
<1>1. /\ pc'[q] = pc[q] /\ seen'[q] = seen[q] /\ held'[q] = held[q]
      /\ req'[q] = req[q] /\ gone'[q] = gone[q] /\ finished'[q] = finished[q]
  BY <1>0, OthersStay
<1>2. q \in committed' <=> q \in committed
  BY CommittedRows
<1>3. Presented(q)' = Presented(q)
  BY <1>1 DEF Presented
<1>4. Place(q)'
  <2>1. r \notin finished[q]
    BY <1>0, AnswerIsLast DEF Own, Place
  <2>2. \A p \in finished[q] : p \in Requests /\ pc'[p] \in Answers
    BY <1>0, <2>1, OthersStay DEF Own, Place
  <2>3. QED
    BY <1>0, <1>1, <1>2, <2>2 DEF Own, Place
<1>5. Asks(q)'
  BY <1>0, <1>1, <1>3, CommittedRows DEF Own, Asks
<1>6. Spent(q)'
  <2>1. /\ gone[q] \cap Requests \subseteq committed'
        /\ password' \notin gone[q]
    BY <1>0, CommittedRows DEF Own, Spent
  <2>2. /\ Presented(q) \in gone[q] /\ req[q].kind = "refresh" =>
             session'[Presented(q)] \in {"expired", "revoked"}
        /\ Presented(q) \in gone[q] /\ req[q].kind = "reset" =>
             token'[Presented(q)] \in {"expired", "used"}
    BY <1>0, CommittedRows DEF Own, Spent, Asks
  <2>3. QED
    BY <1>0, <1>1, <1>2, <1>3, <2>1, <2>2 DEF Own, Spent
<1>7. Redeems(q)'
  <2>1. held[q] \cap Tokens \subseteq OpenTokens'
    BY <1>0, CommittedRows DEF Own, Redeems, AuthInv, Exclusive
  <2>2. q \in Resets => token'[Presented(q)] = "used"
    BY <1>0, CommittedRows DEF Own, Redeems, Asks, Resets
  <2>3. QED
    BY <1>0, <1>1, <1>2, <1>3, <2>1, <2>2 DEF Own, Redeems, Resets
<1>8. Sweeps(q)'
  BY <1>0, <1>1, <1>2, OldShrinks DEF Own, Sweeps
<1>9. QED
  BY <1>4, <1>5, <1>6, <1>7, <1>8 DEF Own

-----------------------------------------------------------------------------
(* What a step keeps of its own request, by kind of statement.             *)


(* A read keeps the invariant if the request goes where its endpoint goes, *)
(* and past the check of what it presents only with what was not spent.    *)
LEMMA ReadKeeps ==
    ASSUME AuthInv, NEW r \in Requests, NEW step, Read(r, step),
           seen[r] = {}, held[r] = {},
           step \in StepsOf(req[r].kind) \cup Answers,
           step \in {"insertSession", "replaceSession"} => Presented(r) \notin gone[r],
           step \notin Claimed \cup {"insertToken", "commitRefresh"},
           pc[r] \notin Answers,
           r \in committed => step \in Answers
    PROVE  Own(r)'
<1>0. TypeOK /\ Own(r)
  BY DEF AuthInv, Own
<1>1. /\ pc'[r] = step
      /\ UNCHANGED <<seen, held, session, token, password, mailed, maker, committed,
                     req, gone, finished>>
  BY <1>0, ReadStep
<1>2. Presented(r)' = Presented(r)
  BY <1>1 DEF Presented
<1>3. Place(r)'
  <2>1. pc'[r] \in Active => pc'[r] \in StepsOf(req[r].kind)
    BY <1>1 DEF Active, Answers
  <2>2. finished[r] \subseteq {q \in Requests : pc'[q] \in Answers}
    <3>1. r \notin finished[r]
      BY <1>0 DEF Own, Place
    <3>2. \A q \in Requests \ {r} : pc'[q] = pc[q]
      BY <1>0 DEF Read, Go, TypeOK
    <3>3. QED
      BY <1>0, <3>1, <3>2 DEF Own, Place
  <2>3. QED
    BY <1>0, <1>1, <2>1, <2>2 DEF Own, Place
<1>4. Asks(r)'
  BY <1>0, <1>1, <1>2 DEF Own, Asks
<1>5. Spent(r)'
  BY <1>0, <1>1, <1>2 DEF Own, Spent
<1>6. Redeems(r)'
  BY <1>0, <1>1, <1>2 DEF Own, Redeems, Resets, OpenTokens
<1>7. Sweeps(r)'
  <2>1. pc'[r] # "commitReset" /\ pc'[r] # "insertToken"
    BY <1>1 DEF Claimed
  <2>2. Old(r)' = Old(r)
    BY <1>1 DEF Old, OpenSessions, OpenTokens
  <2>3. QED
    BY <1>0, <1>1, <2>1, <2>2 DEF Own, Sweeps
<1>8. QED
  BY <1>3, <1>4, <1>5, <1>6, <1>7 DEF Own

(* An UPDATE that starts keeps it if it sees every open row where it is    *)
(* meant to, and nothing that was spent.                                   *)
LEMMA SeeKeeps ==
    ASSUME AuthInv, NEW r \in Requests, NEW rows, NEW step, See(r, rows, step),
           pc[r] \notin Answers \cup After,
           step \in StepsOf(req[r].kind) \cap Updating,
           req[r].kind = "refresh" => rows \subseteq Sessions,
           step \in {"commitRefresh"} \cup Claimed => Presented(r) \notin gone[r],
           step = "updatePassword" /\ Presented(r) \in rows \cup held[r] =>
               Presented(r) \notin gone[r],
           step \in Claimed => Presented(r) \in held[r],
           step = "commitReset" => OpenSessions \subseteq rows,
           step = "insertToken" => OpenTokens \subseteq rows
    PROVE  Own(r)'
<1>0. TypeOK /\ Own(r)
  BY DEF AuthInv, Own
<1>1. /\ pc'[r] = step
      /\ seen'[r] = rows \ held[r]
      /\ UNCHANGED <<held, session, token, password, mailed, maker, committed,
                     req, gone, finished>>
  BY <1>0, SeeStep
<1>2. Presented(r)' = Presented(r) /\ r \notin committed
  BY <1>0, <1>1 DEF Presented, Own, Place
<1>3. Place(r)'
  <2>1. finished[r] \subseteq {q \in Requests : pc'[q] \in Answers}
    <3>1. r \notin finished[r]
      BY <1>0 DEF Own, Place
    <3>2. \A q \in Requests \ {r} : pc'[q] = pc[q]
      BY <1>0 DEF See, Go, TypeOK
    <3>3. QED
      BY <1>0, <3>1, <3>2 DEF Own, Place
  <2>2. QED
    BY <1>1, <1>2, <2>1 DEF Place
<1>4. Asks(r)'
  BY <1>0, <1>1, <1>2 DEF Own, Asks
<1>5. Spent(r)'
  <2>1. step \notin {"insertSession", "replaceSession"}
    BY DEF Updating
  <2>2. QED
    BY <1>0, <1>1, <1>2, <2>1 DEF Own, Spent
<1>6. Redeems(r)'
  BY <1>0, <1>1, <1>2 DEF Own, Redeems, Resets, OpenTokens
<1>7. Sweeps(r)'
  <2>1. Old(r)' = Old(r)
    BY <1>1 DEF Old, OpenSessions, OpenTokens
  <2>2. Old(r) \cap Sessions \subseteq OpenSessions /\ Old(r) \cap Tokens \subseteq OpenTokens
    BY UserAssumption DEF Old, OpenSessions, OpenTokens
  <2>3. QED
    BY <1>1, <1>2, <2>1, <2>2 DEF Sweeps
<1>8. QED
  BY <1>3, <1>4, <1>5, <1>6, <1>7 DEF Own

(* A lock taken keeps it: what was seen and still matches is held.         *)
LEMMA LockKeeps ==
    ASSUME AuthInv, NEW r \in Requests, NEW x, Lock(r, x)
    PROVE  Own(r)'
<1>0. TypeOK /\ Own(r)
  BY DEF AuthInv, Own
<1>1. /\ x \in seen[r]
      /\ seen'[r] = seen[r] \ {x}
      /\ held'[r] = IF Matches(r, x) THEN held[r] \cup {x} ELSE held[r]
      /\ UNCHANGED <<pc, session, token, password, mailed, maker, committed,
                     req, gone, finished>>
  BY <1>0, LockStep
<1>2. Presented(r)' = Presented(r)
  BY <1>1 DEF Presented
<1>3. Place(r)'
  BY <1>0, <1>1 DEF Own, Place
<1>4. Asks(r)'
  BY <1>0, <1>1, <1>2 DEF Own, Asks
<1>5. Spent(r)'
  <2>1. seen'[r] \cup held'[r] \subseteq seen[r] \cup held[r]
    BY <1>1
  <2>2. QED
    BY <1>0, <1>1, <1>2, <2>1 DEF Own, Spent
<1>6. Redeems(r)'
  <2>1. held'[r] \cap Tokens \subseteq OpenTokens
    <3>1. x \in Tokens /\ Matches(r, x) => x \in OpenTokens
      BY <1>0, <1>1, UserAssumption DEF Own, Asks, Matches, OpenSessions
    <3>2. QED
      BY <1>0, <1>1, <3>1 DEF Own, Redeems
  <2>2. QED
    BY <1>0, <1>1, <1>2, <2>1 DEF Own, Redeems, Resets, OpenTokens
<1>7. Sweeps(r)'
  <2>1. Old(r)' = Old(r)
    BY <1>1 DEF Old, OpenSessions, OpenTokens
  <2>2. x \in Old(r) => Matches(r, x)
    BY DEF Old, Matches
  <2>3. QED
    BY <1>0, <1>1, <2>1, <2>2 DEF Own, Sweeps
<1>8. QED
  BY <1>3, <1>4, <1>5, <1>6, <1>7 DEF Own

(* A rollback ends the request before its commit, or after it.             *)
LEMMA RollbackKeeps ==
    ASSUME AuthInv, NEW r \in Requests, NEW a \in Answers, Rollback(r, a),
           pc[r] \notin Answers
    PROVE  Own(r)'
<1>0. TypeOK /\ Own(r)
  BY DEF AuthInv, Own
<1>1. /\ pc'[r] = a /\ seen'[r] = {} /\ held'[r] = {}
      /\ UNCHANGED <<session, token, password, mailed, maker, committed,
                     req, gone, finished>>
  BY <1>0, RollbackStep
<1>2. Presented(r)' = Presented(r)
  BY <1>1 DEF Presented
<1>3. a \notin Active \cup Updating \cup Claimed \cup {"insertSession", "replaceSession"}
  BY DEF Answers, Active, Updating, Claimed
<1>4. Place(r)'
  <2>1. finished[r] \subseteq {q \in Requests : pc'[q] \in Answers}
    <3>1. r \notin finished[r]
      BY <1>0 DEF Own, Place
    <3>2. \A q \in Requests \ {r} : pc'[q] = pc[q]
      BY <1>0 DEF Rollback, Go, TypeOK
    <3>3. QED
      BY <1>0, <3>1, <3>2 DEF Own, Place
  <2>2. QED
    BY <1>1, <1>3, <2>1 DEF Place
<1>5. Asks(r)'
  BY <1>0, <1>1, <1>2 DEF Own, Asks
<1>6. Spent(r)'
  BY <1>0, <1>1, <1>2, <1>3 DEF Own, Spent, Updating
<1>7. Redeems(r)'
  BY <1>0, <1>1, <1>2, <1>3 DEF Own, Redeems, Resets, OpenTokens
<1>8. Sweeps(r)'
  <2>1. Old(r)' = Old(r)
    BY <1>1 DEF Old, OpenSessions, OpenTokens
  <2>2. QED
    BY <1>0, <1>1, <1>3, <2>1 DEF Own, Sweeps, Updating
<1>9. QED
  BY <1>4, <1>5, <1>6, <1>7, <1>8 DEF Own

(* A COMMIT keeps it: a reset had locked its token, and whoever updated    *)
(* all open rows had locked those that were old.                           *)
LEMMA CommitKeeps ==
    ASSUME AuthInv, NEW r \in Requests, Act(r), NEW S, NEW T, CommitsAt(r, S, T)
    PROVE  Own(r)'
<1>0. TypeOK /\ Own(r)
  BY DEF AuthInv, Own
<1>1. /\ pc'[r] \in {IF pc[r] = "insertToken" THEN "sendMail" ELSE "200", "500"}
      /\ held'[r] = {}
      /\ committed' = committed \cup {r}
      /\ \A s \in Sessions : session'[s] = IF s \in S THEN "active"
                                           ELSE IF s \in held[r] THEN "revoked"
                                                ELSE session[s]
      /\ \A t \in Tokens : token'[t] = IF t \in T THEN "unused"
                                       ELSE IF t \in held[r] THEN "used" ELSE token[t]
      /\ UNCHANGED <<seen, mailed, req, gone, finished>>
  BY <1>0, CommitsDo
<1>2. /\ r \notin committed /\ pc[r] \notin Answers
      /\ S \subseteq NewSession /\ T \subseteq NewToken
  BY CommitIsFirst
<1>3. /\ seen[r] = {}
      /\ pc[r] \in {"insertSession", "commitRefresh", "insertToken", "finishRevoke",
                    "commitReset"}
      /\ pc[r] \in StepsOf(req[r].kind)
  BY <1>0 DEF CommitsAt, Own, Place, Active
<1>4. Presented(r)' = Presented(r)
  BY <1>1 DEF Presented
<1>5. pc'[r] \in {"200", "500"} \/ (pc'[r] = "sendMail" /\ req[r].kind = "request")
  BY <1>1, <1>3 DEF StepsOf
<1>6. Place(r)'
  <2>1. finished[r] \subseteq {q \in Requests : pc'[q] \in Answers}
    <3>1. r \notin finished[r]
      BY <1>0, <1>2 DEF Own, Place
    <3>2. \A q \in Requests \ {r} : pc'[q] = pc[q]
      BY <1>0, OthersStay
    <3>3. QED
      BY <1>0, <3>1, <3>2 DEF Own, Place
  <2>2. QED
    BY <1>1, <1>3, <1>5, <2>1 DEF Place, StepsOf, Active, After, Answers
<1>7. Asks(r)'
  BY <1>0, <1>1, <1>4, CommittedRows DEF Own, Asks
<1>8. Spent(r)'
  <2>1. gone[r] \cap Requests \subseteq committed' /\ password' \notin gone[r]
    BY <1>0, <1>1, CommittedRows DEF Own, Spent
  <2>2. /\ Presented(r) \in gone[r] /\ req[r].kind = "refresh" =>
             session'[Presented(r)] \in {"expired", "revoked"}
        /\ Presented(r) \in gone[r] /\ req[r].kind = "reset" =>
             token'[Presented(r)] \in {"expired", "used"}
    BY <1>0, CommittedRows DEF Own, Spent, Asks
  <2>3. req[r].kind \in {"login", "refresh", "reset"} => Presented(r) \notin gone[r]
    BY <1>0, <1>3 DEF Own, Spent, StepsOf, Claimed
  <2>4. pc'[r] \notin {"insertSession", "replaceSession", "commitRefresh", "updatePassword"}
                      \cup Claimed
    BY <1>5 DEF Claimed
  <2>5. QED
    BY <1>1, <1>4, <2>1, <2>2, <2>3, <2>4 DEF Spent
<1>9. Redeems(r)'
  <2>1. req[r].kind = "reset" => token'[Presented(r)] = "used"
    <3>1. req[r].kind = "reset" => pc[r] = "commitReset"
      BY <1>3 DEF StepsOf
    <3>2. pc[r] = "commitReset" => T = {}
      BY DEF CommitsAt
    <3>3. QED
      BY <1>0, <1>1, <3>1, <3>2 DEF Own, Redeems, Asks, Claimed
  <2>2. QED
    BY <1>1, <1>4, <1>5, <2>1 DEF Redeems, Resets, Claimed
<1>10. Sweeps(r)'
  <2>1. ASSUME NEW x \in Old(r)', x \in held[r]
        PROVE  FALSE
    <3>1. x \in Old(r)
      BY <1>1, <2>1, OldShrinks
    <3>2. x \notin S \cup T
      BY <1>2, <3>1, UserAssumption DEF Old, OpenSessions, OpenTokens, NewSession, NewToken
    <3>3. QED
      BY <1>1, <2>1, <3>2 DEF Old, OpenSessions, OpenTokens
  <2>2. Old(r)' \subseteq Old(r)
    BY <1>1, OldShrinks
  <2>3. req[r].kind = "reset" => Old(r)' \cap Sessions = {}
    BY <1>0, <1>3, <2>1, <2>2 DEF StepsOf, Own, Sweeps
  <2>4. req[r].kind = "request" => Old(r)' \cap Tokens = {}
    BY <1>0, <1>3, <2>1, <2>2 DEF StepsOf, Own, Sweeps
  <2>5. QED
    BY <1>1, <1>5, <2>3, <2>4 DEF Sweeps
<1>11. QED
  BY <1>6, <1>7, <1>8, <1>9, <1>10 DEF Own

(* A request presents what it was given, and notes what is spent.          *)
LEMMA ReceiveKeeps ==
    ASSUME AuthInv, NEW r \in Requests, NEW kind \in Kinds, NEW x, Receive(r, kind, x)
    PROVE  Own(r)'
<1>0. TypeOK /\ Own(r) /\ Made
  BY DEF AuthInv, Own
<1>1. /\ pc[r] = "idle" /\ pc'[r] = First(kind) /\ x \in CanPresent(kind)
      /\ req'[r] = [kind |-> kind, subject |-> x]
      /\ gone'[r] = ((Sessions \cup Tokens) \ Usable) \cup (Passwords \ {password})
      /\ finished'[r] = {q \in Requests : pc[q] \in Answers}
      /\ UNCHANGED <<session, token, password, mailed, maker, committed, seen, held>>
  BY <1>0 DEF Receive, Go, TypeOK, unchangedData
<1>2. kind \in AllKinds
  BY KindsAssumption
<1>3. pc'[r] \in StepsOf(kind) /\ pc'[r] \notin Updating \cup {"insertSession", "replaceSession"}
  BY <1>1, <1>2 DEF First, AllKinds, StepsOf, Updating, Active
<1>4. /\ seen[r] = {} /\ held[r] = {} /\ r \notin committed
      /\ Presented(r)' = x /\ req'[r].kind = kind
  BY <1>0, <1>1 DEF Own, Place, Updating, After, Answers, Presented
<1>5. Place(r)'
  <2>1. \A q \in finished'[r] : pc'[q] \in Answers
    <3>1. \A q \in Requests \ {r} : pc'[q] = pc[q]
      BY <1>0 DEF Receive, Go, TypeOK
    <3>2. QED
      BY <1>1, <3>1 DEF Answers
  <2>2. QED
    BY <1>1, <1>3, <1>4, <2>1 DEF Place
<1>6. /\ kind \in {"refresh", "revoke"} => x \in Sessions /\ session[x] # "absent"
      /\ kind = "reset" => x \in Tokens /\ token[x] # "absent"
  BY <1>0, <1>1 DEF CanPresent, Made, TypeOK
<1>7. Asks(r)'
  BY <1>1, <1>4, <1>6 DEF Asks
<1>8. Spent(r)'
  <2>1. Passwords \subseteq {Initial} \cup committed
    BY DEF Passwords
  <2>2. password \notin gone'[r]
    BY <1>0, <1>1, RequestsAssumption, InitialAssumption DEF TypeOK
  <2>3. gone'[r] \cap Requests \subseteq committed
    BY <1>1, <2>1, RequestsAssumption, InitialAssumption
  <2>4. x \in Sessions /\ x \in gone'[r] => session[x] # "active"
    BY <1>0, <1>1, <2>1, RequestsAssumption, InitialAssumption DEF Usable, TypeOK
  <2>5. x \in Tokens /\ x \in gone'[r] => token[x] # "unused"
    BY <1>0, <1>1, <2>1, RequestsAssumption, InitialAssumption DEF Usable, TypeOK
  <2>6. /\ kind = "refresh" /\ x \in gone'[r] => session[x] \in {"expired", "revoked"}
        /\ kind = "reset" /\ x \in gone'[r] => token[x] \in {"expired", "used"}
    BY <1>0, <1>6, <2>4, <2>5 DEF TypeOK
  <2>7. QED
    BY <1>1, <1>3, <1>4, <2>2, <2>3, <2>6 DEF Spent, Updating, Claimed
<1>9. Redeems(r)'
  BY <1>1, <1>3, <1>4 DEF Redeems, Resets, Updating, Claimed
<1>10. Sweeps(r)'
  BY <1>1, <1>3, <1>4 DEF Sweeps, Updating
<1>11. QED
  BY <1>5, <1>7, <1>8, <1>9, <1>10 DEF Own

(* Mailing changes nothing but what reached the user.                      *)
LEMMA SendMailKeeps ==
    ASSUME AuthInv, NEW r \in Requests, SendMail(r)
    PROVE  Own(r)'
<1>0. TypeOK /\ Own(r)
  BY DEF AuthInv, Own
<1>1. /\ pc[r] = "sendMail" /\ pc'[r] = "findBusiness"
      /\ UNCHANGED <<session, token, password, maker, committed, seen, held,
                     req, gone, finished>>
  BY <1>0 DEF SendMail, At, Go, TypeOK, unchangedPast
<1>2. Presented(r)' = Presented(r)
  BY <1>1 DEF Presented
<1>3. Place(r)'
  <2>1. pc[r] \in StepsOf(req[r].kind) /\ seen[r] = {} /\ held[r] = {}
    BY <1>0, <1>1 DEF Own, Place, Active, Updating
  <2>2. finished[r] \subseteq {q \in Requests : pc'[q] \in Answers}
    <3>1. r \notin finished[r]
      BY <1>0, <1>1 DEF Own, Place, Answers
    <3>2. \A q \in Requests \ {r} : pc'[q] = pc[q]
      BY <1>0 DEF SendMail, Go, TypeOK
    <3>3. QED
      BY <1>0, <3>1, <3>2 DEF Own, Place
  <2>3. QED
    BY <1>1, <2>1, <2>2 DEF Place, StepsOf, Active, After
<1>4. Asks(r)'
  BY <1>0, <1>1, <1>2 DEF Own, Asks
<1>5. Spent(r)'
  BY <1>0, <1>1, <1>2 DEF Own, Spent, Claimed
<1>6. Redeems(r)'
  BY <1>0, <1>1, <1>2 DEF Own, Redeems, Resets, OpenTokens, Claimed
<1>7. Sweeps(r)'
  <2>1. Old(r)' = Old(r)
    BY <1>1 DEF Old, OpenSessions, OpenTokens
  <2>2. QED
    BY <1>0, <1>1, <2>1 DEF Own, Sweeps
<1>8. QED
  BY <1>3, <1>4, <1>5, <1>6, <1>7 DEF Own

(* Each step of a request keeps what the invariant says of it.             *)
LEMMA OwnKept ==
    ASSUME AuthInv, NEW r \in Requests, Act(r)
    PROVE  Own(r)'
<1>0. TypeOK /\ Own(r)
  BY DEF AuthInv, Own
<1>1. CASE \E kind \in Kinds, x \in Ids : Receive(r, kind, x)
  BY <1>1, ReceiveKeeps
<1>2. CASE StatementFails(r) \/ DeadlockDetected(r)
  <2>1. Rollback(r, "500") /\ pc[r] \notin Answers
    BY <1>0, <1>2, AnswerIsLast DEF StatementFails, DeadlockDetected, Own, Act
  <2>2. QED
    BY <2>1, RollbackKeeps DEF Answers
<1>3. CASE \E x \in Rows : Lock(r, x)
  BY <1>3, LockKeeps
<1>4. CASE Login(r)
  <2>1. CASE CheckPassword(r)
    <3>1. pc[r] = "checkPassword" /\ seen[r] = {} /\ held[r] = {} /\ req[r].kind = "login"
      BY <1>0, <2>1 DEF CheckPassword, At, Own, Place, Updating, Active, StepsOf
    <3>2. r \notin committed
      BY <1>0, <3>1 DEF Own, Place, After, Answers
    <3>3. CASE Presented(r) = password
      <4>1. Read(r, "insertSession") /\ Presented(r) \notin gone[r]
        BY <1>0, <2>1, <3>3 DEF CheckPassword, Own, Spent
      <4>2. QED
        BY <3>1, <3>2, <4>1, ReadKeeps DEF StepsOf, Active, Answers, Claimed
    <3>4. CASE Presented(r) # password
      <4>1. Read(r, "401")
        BY <2>1, <3>4 DEF CheckPassword
      <4>2. QED
        BY <3>1, <3>2, <4>1, ReadKeeps DEF Answers, Claimed
    <3>5. QED
      BY <3>3, <3>4
  <2>2. CASE InsertSession(r)
    <3>1. PICK s \in NewSession : Commit(r, {s}, {}, "200")
      BY <2>2 DEF InsertSession
    <3>2. CommitsAt(r, {s}, {})
      BY <2>2, <3>1 DEF InsertSession, At, CommitsAt
    <3>3. QED
      BY <3>2, CommitKeeps
  <2>3. QED
    BY <1>4, <2>1, <2>2 DEF Login
<1>5. CASE Refresh(r)
  <2>1. CASE FindSession(r)
    <3>1. pc[r] = "findSession" /\ seen[r] = {} /\ held[r] = {} /\ req[r].kind = "refresh"
      BY <1>0, <2>1 DEF FindSession, At, Own, Place, Updating, Active, StepsOf
    <3>2. r \notin committed
      BY <1>0, <3>1 DEF Own, Place, After, Answers
    <3>3. CASE Presented(r) \in Usable
      <4>1. Read(r, "replaceSession")
        BY <2>1, <3>3 DEF FindSession
      <4>2. session[Presented(r)] = "active"
        BY <1>0, <3>1, <3>3, UserAssumption DEF Usable, Own, Asks
      <4>3. Presented(r) \notin gone[r]
        BY <1>0, <3>1, <4>2 DEF Own, Spent
      <4>4. QED
        BY <3>1, <3>2, <4>1, <4>3, ReadKeeps DEF StepsOf, Active, Answers, Claimed
    <3>4. CASE Presented(r) \notin Usable
      <4>1. Read(r, "401")
        BY <2>1, <3>4 DEF FindSession
      <4>2. QED
        BY <3>1, <3>2, <4>1, ReadKeeps DEF Answers, Claimed
    <3>5. QED
      BY <3>3, <3>4
  <2>2. CASE ReplaceSession(r)
    <3>1. pc[r] = "replaceSession" /\ req[r].kind = "refresh"
      BY <1>0, <2>2 DEF ReplaceSession, At, Own, Place, Active, StepsOf
    <3>2. See(r, {Presented(r)}, "commitRefresh")
      BY <2>2 DEF ReplaceSession
    <3>3. {Presented(r)} \subseteq Sessions /\ Presented(r) \notin gone[r]
      BY <1>0, <3>1 DEF Own, Asks, Spent
    <3>4. QED
      BY <3>1, <3>2, <3>3, SeeKeeps DEF StepsOf, Active, Answers, After, Updating, Claimed
  <2>3. CASE CommitRefresh(r)
    <3>1. PICK s \in NewSession : Commit(r, {s}, {}, "200")
      BY <2>3 DEF CommitRefresh
    <3>2. CommitsAt(r, {s}, {})
      BY <2>3, <3>1 DEF CommitRefresh, At, CommitsAt
    <3>3. QED
      BY <3>2, CommitKeeps
  <2>4. QED
    BY <1>5, <2>1, <2>2, <2>3 DEF Refresh
<1>6. CASE Revoke(r)
  <2>1. CASE FindActiveSession(r)
    <3>1. pc[r] = "findActiveSession" /\ seen[r] = {} /\ held[r] = {} /\ req[r].kind = "revoke"
      BY <1>0, <2>1 DEF FindActiveSession, At, Own, Place, Updating, Active, StepsOf
    <3>2. r \notin committed
      BY <1>0, <3>1 DEF Own, Place, After, Answers
    <3>3. PICK step \in {"updateSession", "400"} : Read(r, step)
      BY <2>1 DEF FindActiveSession
    <3>4. QED
      BY <3>1, <3>2, <3>3, ReadKeeps DEF StepsOf, Active, Answers, Claimed
  <2>2. CASE UpdateSession(r)
    <3>1. pc[r] = "updateSession" /\ req[r].kind = "revoke"
      BY <1>0, <2>2 DEF UpdateSession, At, Own, Place, Active, StepsOf
    <3>2. See(r, {Presented(r)} \cap OpenSessions, "finishRevoke")
      BY <2>2 DEF UpdateSession
    <3>3. QED
      BY <3>1, <3>2, SeeKeeps DEF StepsOf, Active, Answers, After, Updating, Claimed
  <2>3. CASE FinishRevoke(r) /\ held[r] = {}
    <3>1. pc[r] = "finishRevoke" /\ seen[r] = {} /\ Read(r, "400")
      BY <2>3 DEF FinishRevoke, At
    <3>2. QED
      BY <2>3, <3>1, ReadKeeps DEF Answers, Claimed
  <2>4. CASE FinishRevoke(r) /\ held[r] # {}
    <3>1. CommitsAt(r, {}, {})
      BY <2>4 DEF FinishRevoke, At, CommitsAt
    <3>2. QED
      BY <3>1, CommitKeeps
  <2>5. QED
    BY <1>6, <2>1, <2>2, <2>3, <2>4 DEF Revoke
<1>7. CASE RequestPasswordReset(r)
  <2>1. CASE FindUser(r)
    <3>1. pc[r] = "findUser" /\ seen[r] = {} /\ held[r] = {} /\ req[r].kind = "request"
      BY <1>0, <2>1 DEF FindUser, At, Own, Place, Updating, Active, StepsOf
    <3>2. r \notin committed
      BY <1>0, <3>1 DEF Own, Place, After, Answers
    <3>3. PICK step \in {"invalidateTokens", "200"} : Read(r, step)
      BY <2>1 DEF FindUser
    <3>4. QED
      BY <3>1, <3>2, <3>3, ReadKeeps DEF StepsOf, Active, Answers, Claimed
  <2>2. CASE InvalidateTokens(r)
    <3>1. pc[r] = "invalidateTokens" /\ req[r].kind = "request"
      BY <1>0, <2>2 DEF InvalidateTokens, At, Own, Place, Active, StepsOf
    <3>2. See(r, OpenTokens, "insertToken")
      BY <2>2 DEF InvalidateTokens
    <3>3. QED
      BY <3>1, <3>2, SeeKeeps DEF StepsOf, Active, Answers, After, Updating, Claimed
  <2>3. CASE InsertToken(r)
    <3>1. PICK t \in NewToken : Commit(r, {}, {t}, "sendMail")
      BY <2>3 DEF InsertToken
    <3>2. CommitsAt(r, {}, {t})
      BY <2>3, <3>1 DEF InsertToken, At, CommitsAt
    <3>3. QED
      BY <3>2, CommitKeeps
  <2>4. CASE SendMail(r)
    BY <2>4, SendMailKeeps
  <2>5. CASE FindBusiness(r)
    <3>1. pc[r] = "findBusiness" /\ seen[r] = {} /\ held[r] = {} /\ Read(r, "200")
      BY <1>0, <2>5 DEF FindBusiness, At, Own, Place, Updating
    <3>2. QED
      BY <3>1, ReadKeeps DEF Answers, Claimed
  <2>6. QED
    BY <1>7, <2>1, <2>2, <2>3, <2>4, <2>5 DEF RequestPasswordReset
<1>8. CASE ResetPassword(r)
  <2>0. /\ req[r].kind = "reset"
        /\ pc[r] \in {"claimToken", "updatePassword", "otherTokens", "revokeSessions",
                      "commitReset"}
    BY <1>0, <1>8 DEF ResetPassword, ClaimToken, UpdatePassword, InvalidateOtherTokens,
       RevokeSessions, CommitReset, At, Own, Place, Active, StepsOf
  <2>1. CASE ClaimToken(r)
    <3>1. See(r, {Presented(r)} \cap Usable, "updatePassword")
      BY <2>1 DEF ClaimToken
    <3>2. held[r] = {}
      BY <1>0, <2>1 DEF ClaimToken, At, Own, Place, Updating
    <3>3. Presented(r) \in Usable => Presented(r) \notin gone[r]
      <4>1. Presented(r) \in Usable => token[Presented(r)] = "unused"
        BY <1>0, <2>0, UserAssumption DEF Usable, Own, Asks
      <4>2. QED
        BY <1>0, <2>0, <4>1 DEF Own, Spent
    <3>4. QED
      BY <2>0, <3>1, <3>2, <3>3, SeeKeeps
         DEF StepsOf, Active, Answers, After, Updating, Claimed
  <2>2. CASE UpdatePassword(r)
    <3>1. CASE Presented(r) \in held[r]
      <4>1. See(r, {User}, "otherTokens")
        BY <2>2, <3>1 DEF UpdatePassword
      <4>2. Presented(r) \notin gone[r]
        BY <1>0, <2>2, <3>1 DEF UpdatePassword, At, Own, Spent
      <4>3. QED
        BY <2>0, <3>1, <4>1, <4>2, SeeKeeps
           DEF StepsOf, Active, Answers, After, Updating, Claimed
    <3>2. CASE Presented(r) \notin held[r]
      <4>1. Rollback(r, "400")
        BY <2>2, <3>2 DEF UpdatePassword
      <4>2. QED
        BY <2>0, <4>1, RollbackKeeps DEF Answers
    <3>3. QED
      BY <3>1, <3>2
  <2>3. CASE InvalidateOtherTokens(r)
    <3>1. See(r, OpenTokens, "revokeSessions")
      BY <2>3 DEF InvalidateOtherTokens
    <3>2. Presented(r) \in held[r] /\ Presented(r) \notin gone[r]
      BY <1>0, <2>3 DEF InvalidateOtherTokens, At, Own, Redeems, Spent, Claimed
    <3>3. QED
      BY <2>0, <3>1, <3>2, SeeKeeps DEF StepsOf, Active, Answers, After, Updating, Claimed
  <2>4. CASE RevokeSessions(r)
    <3>1. See(r, OpenSessions, "commitReset")
      BY <2>4 DEF RevokeSessions
    <3>2. Presented(r) \in held[r] /\ Presented(r) \notin gone[r]
      BY <1>0, <2>4 DEF RevokeSessions, At, Own, Redeems, Spent, Claimed
    <3>3. QED
      BY <2>0, <3>1, <3>2, SeeKeeps DEF StepsOf, Active, Answers, After, Updating, Claimed
  <2>5. CASE CommitReset(r)
    <3>1. CommitsAt(r, {}, {})
      BY <2>5 DEF CommitReset, At, CommitsAt
    <3>2. QED
      BY <3>1, CommitKeeps
  <2>6. QED
    BY <1>8, <2>1, <2>2, <2>3, <2>4, <2>5 DEF ResetPassword
<1>9. QED
  BY <1>1, <1>2, <1>3, <1>4, <1>5, <1>6, <1>7, <1>8 DEF Act, Step

-----------------------------------------------------------------------------
(* What a step keeps of the rest.                                          *)

(* A lock is taken on a free row only, so no row is locked twice.          *)
LEMMA ExclusiveKept ==
    ASSUME AuthInv, NEW r \in Requests, Act(r)
    PROVE  Exclusive'
<1>0. TypeOK /\ Exclusive /\ Own(r)
  BY DEF AuthInv, Own
<1>1. \A q \in Requests \ {r} : held'[q] = held[q]
  BY <1>0, OthersStay
<1>2. \A q \in Requests \ {r} : held'[r] \cap held[q] = {}
  <2>1. ASSUME held'[r] \subseteq held[r]
        PROVE  \A q \in Requests \ {r} : held'[r] \cap held[q] = {}
    BY <1>0, <2>1 DEF Exclusive
  <2>2. ASSUME NEW x, Lock(r, x)
        PROVE  \A q \in Requests \ {r} : held'[r] \cap held[q] = {}
    <3>1. Free(x) /\ held'[r] \subseteq held[r] \cup {x}
      BY <1>0, <2>2, LockStep
    <3>2. QED
      BY <1>0, <3>1 DEF Exclusive, Free
  <2>3. ASSUME NEW S, NEW T, NEW step, Commit(r, S, T, step)
        PROVE  held'[r] \subseteq held[r]
    BY <1>0, <2>3, CommitStep
  <2>4. ASSUME NEW step, Read(r, step)
        PROVE  held'[r] \subseteq held[r]
    BY <1>0, <2>4, ReadStep
  <2>5. ASSUME NEW rows, NEW step, See(r, rows, step)
        PROVE  held'[r] \subseteq held[r]
    BY <1>0, <2>5, SeeStep
  <2>6. ASSUME NEW a, Rollback(r, a)
        PROVE  held'[r] \subseteq held[r]
    BY <1>0, <2>6, RollbackStep
  <2>7. ASSUME NEW kind, NEW x, Receive(r, kind, x)
        PROVE  held'[r] \subseteq held[r]
    BY <2>7 DEF Receive
  <2>8. CASE Login(r)
    BY <2>1, <2>3, <2>4, <2>8 DEF Login, CheckPassword, InsertSession
  <2>9. CASE Refresh(r)
    BY <2>1, <2>3, <2>4, <2>5, <2>9 DEF Refresh, FindSession, ReplaceSession, CommitRefresh
  <2>10. CASE Revoke(r)
    BY <2>1, <2>3, <2>4, <2>5, <2>10 DEF Revoke, FindActiveSession, UpdateSession, FinishRevoke
  <2>11. CASE RequestPasswordReset(r)
    <3>1. CASE SendMail(r)
      BY <2>1, <3>1 DEF SendMail
    <3>2. CASE ~SendMail(r)
      BY <2>1, <2>3, <2>4, <2>5, <2>11, <3>2
         DEF RequestPasswordReset, FindUser, InvalidateTokens, InsertToken, FindBusiness
    <3>3. QED
      BY <3>1, <3>2
  <2>12. CASE ResetPassword(r)
    BY <2>1, <2>3, <2>5, <2>6, <2>12
       DEF ResetPassword, ClaimToken, UpdatePassword, InvalidateOtherTokens, RevokeSessions,
           CommitReset
  <2>13. CASE StatementFails(r) \/ DeadlockDetected(r)
    BY <2>1, <2>6, <2>13 DEF StatementFails, DeadlockDetected
  <2>14. QED
    BY <2>1, <2>2, <2>7, <2>8, <2>9, <2>10, <2>11, <2>12, <2>13 DEF Act, Step
<1>3. QED
  BY <1>0, <1>1, <1>2 DEF Exclusive

(* A committed request presents what it presented.                         *)
LEMMA CommittedAsked ==
    ASSUME AuthInv, NEW r \in Requests, Act(r), NEW q \in committed
    PROVE  req'[q] = req[q]
<1>0. TypeOK /\ q \in Requests /\ Own(q)
  BY DEF AuthInv, Own, TypeOK
<1>1. CASE q # r
  BY <1>0, <1>1, OthersStay
<1>2. CASE q = r
  <2>1. pc[q] # "idle"
    BY <1>0 DEF Own, Place, After, Answers
  <2>2. ~Commits(r)
    BY <1>2, CommitIsFirst DEF Commits
  <2>3. ~\E kind \in Kinds, x \in Ids : Receive(r, kind, x)
    BY <1>2, <2>1 DEF Receive
  <2>4. CASE Step(r)
    BY <1>2, <2>4
       DEF Step, Login, CheckPassword, InsertSession, Refresh, FindSession, ReplaceSession,
           CommitRefresh, Revoke, FindActiveSession, UpdateSession, FinishRevoke,
           RequestPasswordReset, FindUser, InvalidateTokens, InsertToken, SendMail,
           FindBusiness, ResetPassword, ClaimToken, UpdatePassword, InvalidateOtherTokens,
           RevokeSessions, CommitReset, Read, See, Lock, Commit, Publish, Rollback,
           unchangedPast
  <2>5. CASE StatementFails(r) \/ DeadlockDetected(r)
    BY <2>5 DEF StatementFails, DeadlockDetected, Rollback, unchangedPast
  <2>6. QED
    BY <2>3, <2>4, <2>5 DEF Act
<1>3. QED
  BY <1>1, <1>2

(* Rows are added by a COMMIT in the name of its request, and only tokens  *)
(* that are there are mailed.                                              *)
LEMMA MadeKept ==
    ASSUME AuthInv, NEW r \in Requests, Act(r)
    PROVE  Made'
<1>0. TypeOK /\ Own(r) /\ Made
  BY DEF AuthInv, Own
<1>1. \A x \in Sessions \cup Tokens :
         maker[x] # Initial => maker[x] \in committed /\ req'[maker[x]] = req[maker[x]]
  BY <1>0, CommittedAsked DEF Made
<1>2. CASE Commits(r)
  <2>1. PICK S \in SUBSET Sessions, T \in SUBSET Tokens : CommitsAt(r, S, T)
    BY <1>2 DEF Commits
  <2>2. /\ committed' = committed \cup {r}
        /\ \A t \in Tokens : token'[t] = IF t \in T THEN "unused"
                                         ELSE IF t \in held[r] THEN "used" ELSE token[t]
        /\ \A x \in Sessions \cup Tokens : maker'[x] = IF x \in S \cup T THEN r ELSE maker[x]
        /\ UNCHANGED <<mailed, req>>
    BY <1>0, <2>1, CommitsDo
  <2>3. T # {} => req[r].kind = "request"
    BY <1>0, <2>1 DEF CommitsAt, Own, Place, StepsOf, Active
  <2>4. \A x \in Sessions \cup Tokens : maker'[x] # Initial => maker'[x] \in committed'
    BY <1>0, <2>2 DEF Made
  <2>5. \A t \in Tokens : maker'[t] # Initial => /\ req'[maker'[t]].kind = "request"
                                                 /\ token'[t] # "absent"
    BY <1>0, <2>1, <2>2, <2>3, UserAssumption DEF Made
  <2>6. \A t \in mailed' : token'[t] # "absent"
    BY <1>0, <2>2 DEF Made, TypeOK
  <2>7. QED
    BY <2>4, <2>5, <2>6 DEF Made
<1>3. CASE ~Commits(r)
  <2>1. UNCHANGED <<session, token, password, maker, committed>>
    BY <1>3, WhoCommits
  <2>2. \A t \in mailed' : token[t] # "absent"
    <3>1. CASE SendMail(r)
      <4>1. \A t \in mailed' \ mailed : t \in Tokens /\ maker[t] = r
        BY <3>1 DEF SendMail
      <4>2. r # Initial
        BY InitialAssumption
      <4>3. QED
        BY <1>0, <4>1, <4>2 DEF Made
    <3>2. CASE ~SendMail(r)
      <4>1. mailed' = mailed
        BY <3>2 DEF Act, Receive, unchangedData,
           Step, Login, CheckPassword, InsertSession, Refresh, FindSession, ReplaceSession,
           CommitRefresh, Revoke, FindActiveSession, UpdateSession, FinishRevoke,
           RequestPasswordReset, FindUser, InvalidateTokens, InsertToken,
           FindBusiness, ResetPassword, ClaimToken, UpdatePassword, InvalidateOtherTokens,
           RevokeSessions, CommitReset, Read, See, Lock, Commit, Publish, Rollback,
           StatementFails, DeadlockDetected
      <4>2. QED
        BY <1>0, <4>1 DEF Made
    <3>3. QED
      BY <3>1, <3>2
  <2>3. QED
    BY <1>0, <1>1, <2>1, <2>2 DEF Made
<1>4. QED
  BY <1>2, <1>3

(* Two resets with one token would both have to find it open               *)
(* (claim_token_sql).                                                      *)
LEMMA OnceKept ==
    ASSUME AuthInv, NEW r \in Requests, Act(r)
    PROVE  TokenUsedOnce'
<1>0. TypeOK /\ Own(r) /\ TokenUsedOnce
  BY DEF AuthInv, Own
<1>1. \A q \in Resets : Presented(q)' = Presented(q) /\ token[Presented(q)] = "used"
  <2>1. \A q \in Resets : q \in Requests /\ Redeems(q) /\ q \in committed
    BY <1>0 DEF Resets, TypeOK, AuthInv
  <2>2. QED
    BY <2>1, CommittedAsked DEF Redeems, Presented
<1>2. \A q \in Resets' \ {r} : q \in Resets
  BY CommittedRows, CommittedAsked DEF Resets
<1>3. CASE r \in Resets' /\ r \notin Resets
  <2>1. r \notin committed
    BY <1>3, CommittedAsked DEF Resets
  <2>2. Commits(r)
    BY <1>3, <2>1, WhoCommits DEF Resets
  <2>3. PICK S, T : CommitsAt(r, S, T)
    BY <2>2 DEF Commits
  <2>4. req' = req
    BY <1>0, <2>3, CommitsDo
  <2>5. pc[r] = "commitReset" /\ req[r].kind = "reset"
    BY <1>0, <1>3, <2>3, <2>4 DEF CommitsAt, Own, Place, StepsOf, Active, Resets
  <2>6. Presented(r) \in OpenTokens
    BY <1>0, <2>5 DEF Own, Redeems, Asks, Claimed
  <2>7. \A q \in Resets : Presented(q) # Presented(r)
    BY <1>1, <2>6 DEF OpenTokens
  <2>8. Presented(r)' = Presented(r)
    BY <2>4 DEF Presented
  <2>9. QED
    BY <1>0, <1>1, <1>2, <2>7, <2>8 DEF TokenUsedOnce
<1>4. CASE r \notin Resets' \/ r \in Resets
  <2>1. Resets' \subseteq Resets
    BY <1>2, <1>4
  <2>2. QED
    BY <1>0, <1>1, <2>1 DEF TokenUsedOnce
<1>5. QED
  BY <1>3, <1>4

(* A row that expires is no longer usable, but as open as it was.          *)
LEMMA ExpiryKeeps ==
    ASSUME AuthInv, \/ \E s \in Sessions : SessionExpires(s)
                    \/ \E t \in Tokens : TokenExpires(t)
    PROVE  AuthInv'
<1>0. TypeOK
  BY DEF AuthInv
<1>1. UNCHANGED <<password, mailed, maker, committed, pc, seen, held, req, gone, finished>>
  BY DEF SessionExpires, TokenExpires, unchangedPast
<1>2. \A s \in Sessions :
         session'[s] = session[s] \/ (session[s] = "active" /\ session'[s] = "expired")
  BY <1>0 DEF SessionExpires, TokenExpires, TypeOK
<1>3. \A t \in Tokens :
         token'[t] = token[t] \/ (token[t] = "unused" /\ token'[t] = "expired")
  BY <1>0 DEF SessionExpires, TokenExpires, TypeOK
<1>4. TypeOK'
  <2>1. session' \in [Sessions -> {"absent", "active", "expired", "revoked"}]
    BY <1>0 DEF SessionExpires, TokenExpires, TypeOK
  <2>2. token' \in [Tokens -> {"absent", "unused", "expired", "used"}]
    BY <1>0 DEF SessionExpires, TokenExpires, TypeOK
  <2>3. QED
    BY <1>0, <1>1, <2>1, <2>2 DEF TypeOK
<1>5. OpenSessions' = OpenSessions /\ OpenTokens' = OpenTokens
  BY <1>2, <1>3 DEF OpenSessions, OpenTokens
<1>6. Exclusive' /\ TokenUsedOnce'
  BY <1>1 DEF AuthInv, Exclusive, TokenUsedOnce, Resets, Presented
<1>7. Made'
  BY <1>0, <1>1, <1>3 DEF AuthInv, Made, TypeOK
<1>8. ASSUME NEW r \in Requests
      PROVE  Place(r)' /\ Asks(r)' /\ Spent(r)' /\ Redeems(r)' /\ Sweeps(r)'
  <2>0. Own(r)
    BY DEF AuthInv, Own
  <2>1. Presented(r)' = Presented(r) /\ Old(r)' = Old(r)
    BY <1>1, <1>5 DEF Presented, Old
  <2>2. Place(r)'
    BY <1>1, <2>0 DEF Own, Place
  <2>3. Asks(r)'
    BY <1>1, <1>2, <1>3, <2>0, <2>1 DEF Own, Asks
  <2>4. Spent(r)'
    <3>1. /\ Presented(r) \in gone[r] /\ req[r].kind = "refresh" =>
               session'[Presented(r)] \in {"expired", "revoked"}
          /\ Presented(r) \in gone[r] /\ req[r].kind = "reset" =>
               token'[Presented(r)] \in {"expired", "used"}
      BY <1>2, <1>3, <2>0 DEF Own, Spent, Asks
    <3>2. QED
      BY <1>1, <2>0, <2>1, <3>1 DEF Own, Spent
  <2>5. Redeems(r)'
    <3>1. r \in Resets => token'[Presented(r)] = "used"
      BY <1>3, <2>0 DEF Own, Redeems, Asks, Resets
    <3>2. QED
      BY <1>1, <1>5, <2>0, <2>1, <3>1 DEF Own, Redeems, Resets
  <2>6. Sweeps(r)'
    BY <1>1, <2>0, <2>1 DEF Own, Sweeps
  <2>7. QED
    BY <2>2, <2>3, <2>4, <2>5, <2>6
<1>9. QED
  BY <1>4, <1>6, <1>7, <1>8 DEF AuthInv

-----------------------------------------------------------------------------
(* Types.                                                                  *)

(* Every step keeps the types.                                             *)
LEMMA TypeKept ==
    ASSUME AuthInv, NEW r \in Requests, Act(r)
    PROVE  TypeOK'
<1> DEFINE Pcs == Active \cup Answers \cup {"idle"}
<1>0. TypeOK /\ Own(r)
  BY DEF AuthInv, Own
<1>1. ASSUME NEW step \in Active \cup Answers, Read(r, step)
      PROVE  TypeOK'
  BY <1>0, <1>1 DEF Read, Go, TypeOK, unchangedData, unchangedPast
<1>2. ASSUME NEW rows \in SUBSET Rows, NEW step \in Active, See(r, rows, step)
      PROVE  TypeOK'
  BY <1>0, <1>2 DEF See, Go, TypeOK, unchangedData, unchangedPast
<1>3. ASSUME NEW x \in Rows, Lock(r, x)
      PROVE  TypeOK'
  BY <1>0, <1>3 DEF Lock, TypeOK, unchangedData, unchangedPast
<1>4. ASSUME NEW a \in Answers, Rollback(r, a)
      PROVE  TypeOK'
  BY <1>0, <1>4 DEF Rollback, Go, TypeOK, unchangedData, unchangedPast
<1>5. ASSUME NEW S, NEW T, NEW step \in Active \cup Answers, Commit(r, S, T, step)
      PROVE  TypeOK'
  <2>1. pc' \in [Requests -> Pcs]
    BY <1>0, <1>5 DEF Commit, Go, TypeOK, Answers
  <2>2. session' \in [Sessions -> {"absent", "active", "expired", "revoked"}]
    BY <1>0, <1>5 DEF Commit, Publish, TypeOK
  <2>3. token' \in [Tokens -> {"absent", "unused", "expired", "used"}]
    BY <1>0, <1>5 DEF Commit, Publish, TypeOK
  <2>4. /\ password' \in Requests \cup {Initial}
        /\ maker' \in [Sessions \cup Tokens -> Requests \cup {Initial}]
        /\ committed' \subseteq Requests
        /\ held' \in [Requests -> SUBSET Rows]
    BY <1>0, <1>5 DEF Commit, Publish, TypeOK
  <2>5. QED
    BY <1>0, <1>5, <2>1, <2>2, <2>3, <2>4 DEF Commit, Publish, TypeOK, unchangedPast
<1>6. CASE \E kind \in Kinds, x \in Ids : Receive(r, kind, x)
  <2>1. PICK kind \in Kinds, x \in Ids : Receive(r, kind, x)
    BY <1>6
  <2>2. kind \in AllKinds /\ First(kind) \in Active
    BY KindsAssumption DEF AllKinds, First, Active
  <2>3. Passwords \subseteq Requests \cup {Initial}
    BY <1>0 DEF Passwords, TypeOK
  <2>4. pc' \in [Requests -> Pcs]
    BY <1>0, <2>1, <2>2 DEF Receive, Go, TypeOK
  <2>5. req' \in [Requests -> [kind : AllKinds \cup {"none"},
                               subject : Sessions \cup Tokens \cup Requests \cup {Initial}]]
    BY <1>0, <2>1, <2>2 DEF Receive, Ids, TypeOK
  <2>6. gone' \in [Requests -> SUBSET (Sessions \cup Tokens \cup Requests \cup {Initial})]
    <3>1. ((Sessions \cup Tokens) \ Usable) \cup (Passwords \ {password})
             \in SUBSET (Sessions \cup Tokens \cup Requests \cup {Initial})
      BY <2>3
    <3>2. QED
      BY <1>0, <2>1, <3>1 DEF Receive, TypeOK
  <2>7. finished' \in [Requests -> SUBSET Requests]
    BY <1>0, <2>1 DEF Receive, TypeOK
  <2>8. QED
    BY <1>0, <2>1, <2>4, <2>5, <2>6, <2>7 DEF Receive, TypeOK, unchangedData
<1>7. CASE Login(r)
  <2>1. {"insertSession", "401", "200"} \subseteq Active \cup Answers
    BY DEF Active, Answers
  <2>2. QED
    BY <1>1, <1>5, <1>7, <2>1 DEF Login, CheckPassword, InsertSession
<1>8. CASE Refresh(r)
  <2>1. {"replaceSession", "401", "200"} \subseteq Active \cup Answers /\ "commitRefresh" \in Active
    BY DEF Active, Answers
  <2>2. ASSUME ReplaceSession(r)
        PROVE  TypeOK'
    <3>1. pc[r] = "replaceSession" /\ req[r].kind = "refresh"
      BY <1>0, <2>2 DEF ReplaceSession, At, Own, Place, Active, StepsOf
    <3>2. {Presented(r)} \in SUBSET Rows
      BY <1>0, <3>1 DEF Own, Asks, Rows
    <3>3. QED
      BY <1>2, <2>1, <2>2, <3>2 DEF ReplaceSession
  <2>3. QED
    BY <1>1, <1>5, <1>8, <2>1, <2>2 DEF Refresh, FindSession, CommitRefresh
<1>9. CASE Revoke(r)
  <2>1. {"updateSession", "400", "200"} \subseteq Active \cup Answers /\ "finishRevoke" \in Active
    BY DEF Active, Answers
  <2>2. {Presented(r)} \cap OpenSessions \in SUBSET Rows
    BY DEF OpenSessions, Rows
  <2>3. QED
    BY <1>1, <1>2, <1>5, <1>9, <2>1, <2>2
       DEF Revoke, FindActiveSession, UpdateSession, FinishRevoke
<1>10. CASE RequestPasswordReset(r)
  <2>1. /\ {"invalidateTokens", "200", "sendMail", "findBusiness"} \subseteq Active \cup Answers
        /\ "insertToken" \in Active
    BY DEF Active, Answers
  <2>2. OpenTokens \in SUBSET Rows
    BY DEF OpenTokens, Rows
  <2>3. CASE SendMail(r)
    BY <1>0, <2>1, <2>3 DEF SendMail, Go, TypeOK, unchangedPast
  <2>4. CASE ~SendMail(r)
    BY <1>1, <1>2, <1>5, <1>10, <2>1, <2>2, <2>4
       DEF RequestPasswordReset, FindUser, InvalidateTokens, InsertToken, FindBusiness
  <2>5. QED
    BY <2>3, <2>4
<1>11. CASE ResetPassword(r)
  <2>1. /\ {"updatePassword", "otherTokens", "revokeSessions", "commitReset"} \subseteq Active
        /\ {"200", "400"} \subseteq Answers
    BY DEF Active, Answers
  <2>2. /\ {Presented(r)} \cap Usable \in SUBSET Rows /\ {User} \in SUBSET Rows
        /\ OpenTokens \in SUBSET Rows /\ OpenSessions \in SUBSET Rows
    BY DEF Usable, OpenTokens, OpenSessions, Rows
  <2>3. QED
    BY <1>2, <1>4, <1>5, <1>11, <2>1, <2>2
       DEF ResetPassword, ClaimToken, UpdatePassword, InvalidateOtherTokens, RevokeSessions,
           CommitReset
<1>12. CASE StatementFails(r) \/ DeadlockDetected(r)
  BY <1>4, <1>12 DEF StatementFails, DeadlockDetected, Answers
<1>13. QED
  BY <1>3, <1>6, <1>7, <1>8, <1>9, <1>10, <1>11, <1>12 DEF Act, Step

-----------------------------------------------------------------------------
(* The invariant holds.                                                    *)

LEMMA AuthInit == Init => AuthInv
<1> SUFFICES ASSUME Init
             PROVE  AuthInv
  OBVIOUS
<1>1. TypeOK
  BY FirstAssumption DEF Init, TypeOK
<1>2. Exclusive /\ TokenUsedOnce
  BY DEF Init, Exclusive, TokenUsedOnce, Resets
<1>3. Made
  BY FirstAssumption DEF Init, Made
<1>4. ASSUME NEW r \in Requests
      PROVE  Place(r) /\ Asks(r) /\ Spent(r) /\ Redeems(r) /\ Sweeps(r)
  BY DEF Init, Place, Asks, Spent, Redeems, Sweeps, Resets, Active, Updating, Claimed
<1>5. QED
  BY <1>1, <1>2, <1>3, <1>4 DEF AuthInv

LEMMA AuthStep == AuthInv /\ [Next]_vars => AuthInv'
<1> SUFFICES ASSUME AuthInv, [Next]_vars
             PROVE  AuthInv'
  OBVIOUS
<1>1. CASE UNCHANGED vars
  BY <1>1 DEF vars, AuthInv, TypeOK, Exclusive, Made, TokenUsedOnce, Place, Asks, Spent,
              Redeems, Sweeps, Old, Resets, Presented, OpenSessions, OpenTokens
<1>2. ASSUME NEW r \in Requests, Act(r)
      PROVE  AuthInv'
  <2>1. TypeOK' /\ Exclusive' /\ Made' /\ TokenUsedOnce'
    BY <1>2, TypeKept, ExclusiveKept, MadeKept, OnceKept
  <2>2. ASSUME NEW q \in Requests
        PROVE  Own(q)'
    BY <1>2, OwnKept, OthersKept
  <2>3. QED
    BY <2>1, <2>2 DEF AuthInv, Own
<1>3. CASE \/ \E s \in Sessions : SessionExpires(s)
           \/ \E t \in Tokens : TokenExpires(t)
  BY <1>3, ExpiryKeeps
<1>4. QED
  BY <1>1, <1>2, <1>3 DEF Next, Act, Ids

(* Where requests are, what they hold and what is committed, in every      *)
(* state.                                                                  *)
THEOREM AuthInvariant == Spec => []AuthInv
BY AuthInit, AuthStep, PTL DEF Spec

(* Every variable keeps its type.                                          *)
THEOREM AuthTypeCorrect == Spec => []TypeOK
<1>1. AuthInv => TypeOK
  BY DEF AuthInv
<1>2. QED
  BY <1>1, AuthInvariant, PTL

(* However many resets race for a token, one sets the password             *)
(* (claim_token_sql and the row lock of its UPDATE).                       *)
THEOREM TokensAreUsedOnce == Spec => []TokenUsedOnce
<1>1. AuthInv => TokenUsedOnce
  BY DEF AuthInv
<1>2. QED
  BY <1>1, AuthInvariant, PTL

(* What was revoked, used, expired or replaced before a request arrived    *)
(* never serves it (the checks of login, refresh and reset).               *)
THEOREM SpentIsNeverServed == Spec => []SpentStaysSpent
<1>1. AuthInv => SpentStaysSpent
  BY DEF AuthInv, Spent, SpentStaysSpent, TypeOK
<1>2. QED
  BY <1>1, AuthInvariant, PTL

(* A reset leaves no session of a request that was over when it arrived    *)
(* (the UPDATE of user_sessions in reset_password).                        *)
THEOREM ResetsEndOldSessions == Spec => []OutlivesResetOnlyByOverlap
<1>1. AuthInv => OutlivesResetOnlyByOverlap
  <2> SUFFICES ASSUME AuthInv, NEW r \in Resets, NEW s \in OpenSessions
               PROVE  maker[s] \notin finished[r] \cup {Initial}
    BY DEF OutlivesResetOnlyByOverlap
  <2>1. r \in committed /\ r \in Requests /\ req[r].kind = "reset" /\ s \in Sessions
    BY DEF AuthInv, TypeOK, Resets, OpenSessions
  <2>2. s \notin Old(r)
    BY <2>1 DEF AuthInv, Sweeps
  <2>3. QED
    BY <2>2 DEF Old
<1>2. QED
  BY <1>1, AuthInvariant, PTL

(* A reset request leaves no token of a request that was over when it      *)
(* arrived (the UPDATE of password_reset_tokens).                          *)
THEOREM RequestsEndOldTokens == Spec => []TwoUsableTokensTakeOverlap
<1>1. AuthInv => TwoUsableTokensTakeOverlap
  <2> SUFFICES ASSUME AuthInv, NEW t \in Usable \cap Tokens, NEW u \in Usable \cap Tokens,
                      maker[u] # Initial
               PROVE  maker[t] \notin finished[maker[u]] \cup {Initial}
    BY DEF TwoUsableTokensTakeOverlap
  <2>1. t \in OpenTokens
    BY UserAssumption DEF Usable, OpenTokens
  <2>2. PICK r \in Requests : r = maker[u] /\ r \in committed /\ req[r].kind = "request"
    BY DEF AuthInv, Made, TypeOK
  <2>3. t \notin Old(r)
    BY <2>2 DEF AuthInv, Sweeps
  <2>4. QED
    BY <2>1, <2>2, <2>3 DEF Old
<1>2. QED
  BY <1>1, AuthInvariant, PTL

=============================================================================
