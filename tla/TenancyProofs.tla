--------------------------- MODULE TenancyProofs ----------------------------
(***************************************************************************)
(* Theorems about Tenancy: addresses are unique, businesses are apart, a   *)
(* revoked key is dead, for any number of businesses, users and requests.  *)
(*                                                                         *)
(* The invariant says what a request carries (Asks), which of the kinds is *)
(* at a statement (At), and what the statements before it have             *)
(* established: its scope (Scoped), that its key was active when it came   *)
(* (Alive), and what its answer tells (Told).  DataInv is about the rows.  *)
(***************************************************************************)
EXTENDS Tenancy, TLAPS

KeyKinds   == {"createUser", "validate", "resolve"}
RoleKinds  == {"createKey", "revokeKey", "listKeys"}
TokenKinds == RoleKinds \cup {"me"}
Keyed      == KeyKinds \cup {"revokeKey"}

Asks(r) ==
    /\ pc[r] # "idle" => req[r].kind \in AllKinds
    /\ req[r].kind \in {"register", "apply", "createUser", "resolve"} => req[r].email \in Emails
    /\ IF req[r].kind \in Keyed
       THEN req[r].key \in Keys /\ keys[req[r].key].status # "absent"
       ELSE req[r].key = None
    /\ req[r].kind \in TokenKinds =>
         req[r].by \in Ids /\ req[r].env.business \in Ids /\ req[r].env.type \in Types

At(r) ==
    /\ pc[r] = "checkEmail" => req[r].kind \in {"register", "createUser"}
    /\ pc[r] \in {"insertBusiness", "insertSession"} => req[r].kind = "register"
    /\ pc[r] \in {"checkApplication", "insertApplication"} => req[r].kind = "apply"
    /\ pc[r] \in {"findKey", "findEnvironment"} => req[r].kind \in KeyKinds
    /\ pc[r] = "insertUser" => req[r].kind = "createUser"
    /\ pc[r] = "findAdmin" => req[r].kind = "validate"
    /\ pc[r] = "resolveUser" => req[r].kind = "resolve"
    /\ pc[r] = "authenticate" => req[r].kind \in TokenKinds
    /\ pc[r] = "checkRole" => req[r].kind \in RoleKinds
    /\ pc[r] = "insertKey" => req[r].kind = "createKey"
    /\ pc[r] = "updateKey" => req[r].kind = "revokeKey"
    /\ pc[r] = "selectKeys" => req[r].kind = "listKeys"
    /\ pc[r] = "selectMe" => req[r].kind = "me"

\* A is an admin of the business, by whatever environment.
IsAdmin(a, id, b) == a.id = id /\ a.role = "admin" /\ a.business = b

Scoped(r) ==
    /\ pc[r] \in {"findEnvironment", "checkEmail", "insertUser"} /\ req[r].kind \in KeyKinds
       => ctx[r].business = keys[req[r].key].business
    /\ pc[r] = "insertKey" => \E a \in users : IsAdmin(a, req[r].by, ctx[r].business)

Alive(r) ==
    /\ \A k \in revoked[r] : keys[k].status = "revoked"
    /\ /\ pc[r] \in {"findEnvironment", "checkEmail", "insertUser", "findAdmin", "resolveUser", "200"}
       /\ req[r].kind \in KeyKinds
       => req[r].key \notin revoked[r]

Told(r) ==
    /\ pc[r] = "409" => IF req[r].kind = "apply" THEN Applied(req[r].email)
                                                 ELSE EmailTaken(req[r].email)
    /\ pc[r] \in {"insertSession", "200"} /\ req[r].kind = "register" =>
         r \in businesses /\ Admin(r, req[r].email) \in users
    /\ pc[r] = "200" /\ req[r].kind = "revokeKey" =>
         keys[req[r].key].status = "revoked" /\ keys[req[r].key].business = ctx[r].business

RequestInv(r) == Asks(r) /\ At(r) /\ Scoped(r) /\ Alive(r) /\ Told(r)

\* The key was made by an admin of its business.
KeyMade(k) ==
    keys[k].status # "absent" => \E a \in users : IsAdmin(a, keys[k].maker, keys[k].business)

DataInv ==
    /\ OneUserPerEmail /\ OneApplicationPerEmail
    /\ \A u \in users : /\ u.env.business = u.business
                        /\ u.key # None => /\ keys[u.key].business = u.business
                                           /\ keys[u.key].status # "absent"
    /\ \A k \in Keys : KeyMade(k)

Revokers(r, q) ==
    /\ pc[r] = "200" /\ req[r].kind = "revokeKey"
    /\ pc[q] = "200" /\ req[q].kind = "revokeKey" /\ req[q].key = req[r].key
    => q = r

TenancyInv ==
    /\ TypeOK /\ DataInv
    /\ \A r \in Requests : RequestInv(r)
    /\ \A r, q \in Requests : Revokers(r, q)

-----------------------------------------------------------------------------
(* Facts about rows and requests.                                          *)

LEMMA AdminType ==
    ASSUME NEW b \in Ids, NEW e \in Emails
    PROVE  /\ Admin(b, e) \in User /\ IsAdmin(Admin(b, e), b, b)
           /\ Admin(b, e).email = e /\ Admin(b, e).env.business = b /\ Admin(b, e).key = None
BY DEF Admin, User, Env, Environment, Types, IsAdmin

LEMMA UserFields ==
    ASSUME TypeOK, NEW u \in users
    PROVE  /\ u.id \in Ids /\ u.email \in Emails /\ u.business \in Ids
           /\ u.key \in Keys \cup {None} /\ u.env \in Environment
BY DEF TypeOK, User

\* Rows are only added, keys only revoked.
Growing ==
    /\ businesses \subseteq businesses' /\ users \subseteq users'
    /\ applications \subseteq applications'
    /\ \A k \in Keys : keys[k].status # "absent" =>
         /\ keys'[k].status # "absent"
         /\ keys'[k].business = keys[k].business /\ keys'[k].maker = keys[k].maker
         /\ keys[k].status = "revoked" => keys'[k].status = "revoked"

\* What another request's step leaves of a request's knowledge.
LEMMA OthersKeep ==
    ASSUME TenancyInv, Growing, NEW r \in Requests,
           pc'[r] = pc[r], req'[r] = req[r], ctx'[r] = ctx[r], revoked'[r] = revoked[r]
    PROVE  RequestInv(r)'
<1>1. /\ Asks(r) /\ At(r) /\ Scoped(r) /\ Alive(r) /\ Told(r) /\ revoked[r] \subseteq Keys
  BY DEF TenancyInv, RequestInv, TypeOK
<1>2. Asks(r)' /\ At(r)'
  BY <1>1 DEF Asks, At, Growing
<1>3. Scoped(r)'
  <2>1. req[r].kind \in KeyKinds => req[r].key \in Keys /\ keys[req[r].key].status # "absent"
    BY <1>1 DEF Asks, Keyed
  <2> QED
    BY <1>1, <2>1 DEF Scoped, Growing
<1>4. Alive(r)'
  BY <1>1 DEF Alive, Growing
<1>5. Told(r)'
  <2>1. req[r].kind = "revokeKey" => req[r].key \in Keys
    BY <1>1 DEF Asks, Keyed
  <2> QED
    BY <1>1, <2>1 DEF Told, Growing, Applied, EmailTaken, Admin
<1> QED
  BY <1>2, <1>3, <1>4, <1>5 DEF RequestInv

\* A step of one request.
LEMMA OneStep ==
    ASSUME TenancyInv, Growing, TypeOK', DataInv', NEW r \in Requests,
           \A q \in Requests \ {r} : /\ pc'[q] = pc[q] /\ req'[q] = req[q]
                                     /\ ctx'[q] = ctx[q] /\ revoked'[q] = revoked[q],
           RequestInv(r)',
           (pc'[r] = "200" /\ req'[r].kind = "revokeKey") =>
              /\ req'[r].key \in Keys
              /\ keys[req'[r].key].status # "revoked"
    PROVE  TenancyInv'
<1>1. \A q \in Requests \ {r} : RequestInv(q)'
  BY OthersKeep
<1>2. ASSUME NEW q \in Requests, NEW p \in Requests PROVE Revokers(q, p)'
  <2>1. \A s \in Requests : pc[s] = "200" /\ req[s].kind = "revokeKey"
                            => keys[req[s].key].status = "revoked"
    BY DEF TenancyInv, RequestInv, Told
  <2>2. Revokers(q, p)
    BY DEF TenancyInv
  <2> QED
    BY <2>1, <2>2 DEF Revokers
<1> QED
  BY <1>1, <1>2 DEF TenancyInv

\* A step that only moves a request on, or gives it its scope.
LEMMA ReadStep ==
    ASSUME TenancyInv, NEW r \in Requests, NEW step \in Active \cup Answers,
           pc' = [pc EXCEPT ![r] = step], NEW scope \in Environment,
           ctx' = [ctx EXCEPT ![r] = scope],
           UNCHANGED <<businesses, users, keys, applications, req, revoked>>,
           RequestInv(r)', ~(step = "200" /\ req[r].kind = "revokeKey")
    PROVE  TenancyInv'
<1>1. TypeOK' /\ Growing /\ DataInv'
  BY DEF TenancyInv, TypeOK, Growing, DataInv, OneUserPerEmail, OneApplicationPerEmail, KeyMade
<1>2. /\ pc'[r] = step /\ \A q \in Requests \ {r} : pc'[q] = pc[q] /\ ctx'[q] = ctx[q]
      /\ req' = req /\ revoked' = revoked
  BY DEF TenancyInv, TypeOK
<1> QED
  BY <1>1, <1>2, OneStep

\* What a client can send has the fields its kind needs.
LEMMA AskType ==
    ASSUME TypeOK, NEW kind \in AllKinds, NEW ask \in CanAsk(kind)
    PROVE  /\ ask \in Request /\ ask.kind = kind
           /\ kind \in {"register", "apply", "createUser", "resolve"} => ask.email \in Emails
           /\ IF kind \in Keyed THEN ask.key \in Keys /\ keys[ask.key].status # "absent"
                               ELSE ask.key = None
           /\ kind \in TokenKinds =>
                ask.by \in Ids /\ ask.env.business \in Ids /\ ask.env.type \in Types
<1> USE DEF Keyed, KeyKinds, TokenKinds, RoleKinds
<1>1. /\ businesses \subseteq Ids /\ \A u \in users : u.id \in Ids
  BY UserFields DEF TypeOK
<1>2. /\ \A e \in {Env(b, t) : b \in businesses, t \in Types} :
            e \in Environment /\ e.business \in Ids /\ e.type \in Types
      /\ \A e \in {Env(None, t) : t \in Types} : e \in Environment
      /\ NoEnv \in Environment
  BY <1>1 DEF Env, Environment, NoEnv, Types
<1>3. CASE kind \in {"register", "apply"}
  BY <1>2, <1>3 DEF CanAsk, Request, AllKinds
<1>4. CASE kind = "createUser"
  BY <1>2, <1>4 DEF CanAsk, Request, AllKinds
<1>5. CASE kind = "validate"
  BY <1>2, <1>5 DEF CanAsk, Request, AllKinds
<1>6. CASE kind = "resolve"
  BY <1>2, <1>6 DEF CanAsk, Request, AllKinds
<1>7. CASE kind = "revokeKey"
  BY <1>1, <1>2, <1>7 DEF CanAsk, Request, AllKinds
<1>8. CASE kind \in {"createKey", "listKeys", "me"}
  BY <1>1, <1>2, <1>8 DEF CanAsk, Request, AllKinds
<1> QED
  BY <1>3, <1>4, <1>5, <1>6, <1>7, <1>8 DEF AllKinds

-----------------------------------------------------------------------------
(* The steps.                                                              *)

LEMMA ReceiveStep ==
    ASSUME TenancyInv, NEW r \in Requests, NEW kind \in Kinds, NEW ask \in CanAsk(kind),
           Receive(r, ask)
    PROVE  TenancyInv'
<1>0. TypeOK /\ RequestInv(r) /\ kind \in AllKinds
  BY KindsAssumption DEF TenancyInv
<1>1. /\ ask \in Request /\ ask.kind = kind
      /\ kind \in {"register", "apply", "createUser", "resolve"} => ask.email \in Emails
      /\ IF kind \in Keyed THEN ask.key \in Keys /\ keys[ask.key].status # "absent"
                          ELSE ask.key = None
      /\ kind \in TokenKinds =>
           ask.by \in Ids /\ ask.env.business \in Ids /\ ask.env.type \in Types
  BY <1>0, AskType
<1>2. First(kind) \in {"checkEmail", "checkApplication", "findKey", "authenticate"}
      /\ (First(kind) = "checkEmail" => kind = "register")
      /\ (First(kind) = "checkApplication" => kind = "apply")
      /\ (First(kind) = "findKey" => kind \in KeyKinds)
      /\ (First(kind) = "authenticate" => kind \in TokenKinds)
  <2>1. CASE kind = "register"
    BY <2>1 DEF First
  <2>2. CASE kind = "apply"
    BY <2>2 DEF First
  <2>3. CASE kind \in KeyKinds
    BY <2>3 DEF First, KeyKinds
  <2>4. CASE kind \in TokenKinds
    BY <2>4 DEF First, TokenKinds, RoleKinds
  <2> QED
    BY <1>0, <2>1, <2>2, <2>3, <2>4 DEF AllKinds, KeyKinds, TokenKinds, RoleKinds
<1>3. /\ pc[r] = "idle" /\ pc' = [pc EXCEPT ![r] = First(kind)]
      /\ req' = [req EXCEPT ![r] = ask]
      /\ revoked' = [revoked EXCEPT ![r] = {k \in Keys : keys[k].status = "revoked"}]
      /\ UNCHANGED <<businesses, users, keys, applications, ctx>>
  BY <1>1 DEF Receive, Go, unchangedData
<1>4. TypeOK'
  BY <1>0, <1>1, <1>2, <1>3 DEF TypeOK, Active
<1>5. Growing /\ DataInv'
  BY <1>3 DEF TenancyInv, Growing, DataInv, OneUserPerEmail, OneApplicationPerEmail, KeyMade
<1>6. /\ pc'[r] = First(kind) /\ req'[r] = ask
      /\ revoked'[r] = {k \in Keys : keys[k].status = "revoked"}
      /\ \A q \in Requests \ {r} : /\ pc'[q] = pc[q] /\ req'[q] = req[q]
                                    /\ ctx'[q] = ctx[q] /\ revoked'[q] = revoked[q]
  BY <1>0, <1>3 DEF TypeOK
<1>7. Asks(r)' /\ At(r)'
  BY <1>0, <1>1, <1>2, <1>3, <1>6 DEF Asks, At
<1>8. Scoped(r)' /\ Alive(r)' /\ Told(r)'
  BY <1>1, <1>2, <1>3, <1>6 DEF Scoped, Alive, Told, KeyKinds
<1>9. ~(pc'[r] = "200")
  BY <1>2, <1>6
<1> QED
  BY <1>4, <1>5, <1>6, <1>7, <1>8, <1>9, OneStep DEF RequestInv

\* The reads that leave the scope alone.
LEMMA PlainRead ==
    ASSUME TenancyInv, NEW r \in Requests, NEW step \in Active \cup Answers, Read(r, step),
           pc[r] # "idle",
           ~(step = "200" /\ req[r].kind = "revokeKey"),
           At(r)', Scoped(r)', Alive(r)', Told(r)'
    PROVE  TenancyInv'
<1>1. /\ pc' = [pc EXCEPT ![r] = step]
      /\ UNCHANGED <<businesses, users, keys, applications, req, ctx, revoked>>
  BY DEF Read, Go, unchangedData
<1>2. ctx[r] \in Environment /\ ctx' = [ctx EXCEPT ![r] = ctx[r]]
  BY <1>1 DEF TenancyInv, TypeOK
<1>3. Asks(r)'
  BY <1>1 DEF TenancyInv, RequestInv, Asks
<1> QED
  BY <1>1, <1>2, <1>3, ReadStep DEF RequestInv

\* An answer that tells nothing.
LEMMA PlainAnswer ==
    ASSUME TenancyInv, NEW r \in Requests, Read(r, "400") \/ Read(r, "401") \/ Read(r, "403")
                                          \/ Read(r, "404") \/ Read(r, "412") \/ Read(r, "500"),
           pc[r] # "idle"
    PROVE  TenancyInv'
<1>1. PICK step \in {"400", "401", "403", "404", "412", "500"} : Read(r, step)
  OBVIOUS
<1>2. pc'[r] = step /\ UNCHANGED <<users, keys, applications, businesses, req, ctx, revoked>>
  BY <1>1 DEF Read, Go, unchangedData, TenancyInv, TypeOK
<1>3. At(r)' /\ Scoped(r)' /\ Told(r)'
  BY <1>1, <1>2 DEF At, Scoped, Told
<1>4. Alive(r)'
  BY <1>1, <1>2 DEF TenancyInv, RequestInv, Alive
<1>5. step \in Active \cup Answers
  BY <1>1 DEF Answers
<1> QED
  BY <1>1, <1>3, <1>4, <1>5, PlainRead

\* Everything that only reads, or fails.
LEMMA ReadsKeep ==
    ASSUME TenancyInv, NEW r \in Requests,
           \/ CheckEmail(r) \/ InsertSession(r) \/ CheckApplication(r) \/ FindKey(r)
           \/ FindEnvironment(r) \/ FindAdmin(r) \/ ResolveUser(r) \/ Authenticate(r)
           \/ CheckRole(r) \/ RefuseEnvironment(r) \/ ListApiKeys(r) \/ Me(r) \/ StatementFails(r)
    PROVE  TenancyInv'
<1>0. /\ TypeOK /\ Asks(r) /\ At(r) /\ Scoped(r) /\ Alive(r) /\ Told(r)
      /\ ctx[r] \in Environment
  BY DEF TenancyInv, RequestInv, TypeOK
<1> DEFINE Plain == \E step \in {"400", "401", "403", "404", "412", "500"} : Read(r, step)
<1>1. ASSUME Plain, pc[r] # "idle" PROVE TenancyInv'
  BY <1>1, PlainAnswer
<1>2. ASSUME NEW step \in Active \cup Answers, Read(r, step)
      PROVE  pc'[r] = step /\ UNCHANGED <<businesses, users, keys, applications, req, ctx, revoked>>
  BY <1>0, <1>2 DEF Read, Go, unchangedData, TypeOK
<1>3. CASE CheckEmail(r)
  <2>1. pc[r] = "checkEmail"
    BY <1>3 DEF CheckEmail
  <2>2. CASE Read(r, "409") /\ EmailTaken(req[r].email)
    <3>1. "409" \in Active \cup Answers
      BY DEF Answers
    <3>2. pc'[r] = "409" /\ UNCHANGED <<users, keys, applications, businesses, req, revoked>>
      BY <1>2, <2>2, <3>1
    <3>3. At(r)' /\ Scoped(r)' /\ Alive(r)' /\ Told(r)'
      BY <1>0, <2>1, <2>2, <3>2 DEF At, Scoped, Alive, Told, EmailTaken
    <3> QED
      BY <2>1, <2>2, <3>1, <3>3, PlainRead
  <2>3. CASE Read(r, "insertBusiness") /\ req[r].kind = "register"
    <3>1. "insertBusiness" \in Active \cup Answers
      BY DEF Active
    <3>2. pc'[r] = "insertBusiness" /\ UNCHANGED <<users, keys, applications, businesses, req, revoked>>
      BY <1>2, <2>3, <3>1
    <3>3. At(r)' /\ Scoped(r)' /\ Alive(r)' /\ Told(r)'
      BY <1>0, <2>3, <3>2 DEF At, Scoped, Alive, Told
    <3> QED
      BY <2>1, <2>3, <3>1, <3>3, PlainRead
  <2>4. CASE Read(r, "insertUser") /\ req[r].kind = "createUser"
    <3>1. "insertUser" \in Active \cup Answers
      BY DEF Active
    <3>2. pc'[r] = "insertUser" /\ UNCHANGED <<users, keys, applications, businesses, req, ctx, revoked>>
      BY <1>2, <2>4, <3>1
    <3>3. At(r)' /\ Scoped(r)' /\ Alive(r)' /\ Told(r)'
      BY <1>0, <2>1, <2>4, <3>2 DEF At, Scoped, Alive, Told
    <3> QED
      BY <2>1, <2>4, <3>1, <3>3, PlainRead
  <2> QED
    BY <1>0, <1>3, <2>1, <2>2, <2>3, <2>4 DEF CheckEmail, At
<1>4. CASE InsertSession(r)
  <2>1. pc[r] = "insertSession" /\ Read(r, "200") /\ req[r].kind = "register"
    BY <1>0, <1>4 DEF InsertSession, At
  <2>2. "200" \in Active \cup Answers
    BY DEF Answers
  <2>3. pc'[r] = "200" /\ UNCHANGED <<users, keys, applications, businesses, req, revoked>>
    BY <1>2, <2>1, <2>2
  <2>4. At(r)' /\ Scoped(r)' /\ Alive(r)' /\ Told(r)'
    BY <1>0, <2>1, <2>3 DEF At, Scoped, Alive, Told, KeyKinds, Admin
  <2> QED
    BY <2>1, <2>2, <2>4, PlainRead
<1>5. CASE CheckApplication(r)
  <2>1. pc[r] = "checkApplication" /\ req[r].kind = "apply"
    BY <1>0, <1>5 DEF CheckApplication, At
  <2>2. PICK step \in {"409", "insertApplication"} :
            Read(r, step) /\ (step = "409" => Applied(req[r].email))
    BY <1>5 DEF CheckApplication
  <2>3. step \in Active \cup Answers
    BY DEF Answers, Active
  <2>4. pc'[r] = step /\ UNCHANGED <<users, keys, applications, businesses, req, revoked>>
    BY <1>2, <2>2, <2>3
  <2>5. At(r)' /\ Scoped(r)' /\ Alive(r)' /\ Told(r)'
    BY <1>0, <2>1, <2>2, <2>4 DEF At, Scoped, Alive, Told, Applied
  <2> QED
    BY <2>1, <2>2, <2>3, <2>5, PlainRead
<1>6. CASE FindKey(r)
  <2>1. pc[r] = "findKey" /\ req[r].kind \in KeyKinds /\ req[r].key \in Keys
    BY <1>0, <1>6 DEF FindKey, At, Asks, Keyed
  <2>2. CASE Read(r, "401")
    BY <1>1, <2>1, <2>2
  <2>3. CASE keys[req[r].key].status = "active"
    <3>1. PICK scope \in Environment : /\ scope = [ctx[r] EXCEPT !.business = keys[req[r].key].business]
                                       /\ scope.business = keys[req[r].key].business
      <4>1. keys[req[r].key].business \in Ids \cup {None}
        BY <1>0, <2>1 DEF TypeOK, Key
      <4>2. PICK b \in Ids \cup {None} : b = keys[req[r].key].business
        BY <4>1
      <4>3. [ctx[r] EXCEPT !.business = b] \in Environment /\ [ctx[r] EXCEPT !.business = b].business = b
        BY <1>0, <4>2 DEF Environment
      <4> QED
        BY <1>0, <4>2, <4>3
    <3>2. /\ pc' = [pc EXCEPT ![r] = "findEnvironment"] /\ ctx' = [ctx EXCEPT ![r] = scope]
          /\ UNCHANGED <<businesses, users, keys, applications, req, revoked>>
      BY <1>6, <2>3, <3>1 DEF FindKey, Go, unchangedData
    <3>3. pc'[r] = "findEnvironment" /\ ctx'[r] = scope /\ "findEnvironment" \in Active \cup Answers
      BY <1>0, <3>2 DEF TypeOK, Active
    <3>4. req[r].key \notin revoked[r]
      BY <1>0, <2>3 DEF Alive
    <3>5. Asks(r)' /\ At(r)' /\ Scoped(r)' /\ Alive(r)' /\ Told(r)'
      BY <1>0, <2>1, <3>1, <3>2, <3>3, <3>4 DEF Asks, At, Scoped, Alive, Told
    <3> QED
      BY <3>2, <3>3, <3>5, ReadStep DEF RequestInv
  <2> QED
    BY <1>6, <2>2, <2>3 DEF FindKey
<1>7. CASE FindEnvironment(r)
  <2>1. /\ pc[r] = "findEnvironment" /\ req[r].kind \in KeyKinds
        /\ req[r].key \in Keys /\ req[r].key \notin revoked[r]
        /\ ctx[r].business = keys[req[r].key].business
    BY <1>0, <1>7 DEF FindEnvironment, At, Asks, Keyed, Alive, Scoped
  <2>2. CASE Read(r, "403")
    BY <1>1, <2>1, <2>2
  <2>3. CASE EnvOk(r, EnvironmentOf(r))
    <3>1. PICK scope \in Environment : scope = EnvironmentOf(r) /\ scope.business = ctx[r].business
      <4>1. EnvironmentOf(r) \in Environment
        <5>1. req[r].env \in Environment
          BY <1>0 DEF TypeOK, Request
        <5>2. req[r].env.type \in Types \cup {"none"} /\ ctx[r].business \in Ids \cup {None}
          BY <1>0, <5>1 DEF Environment
        <5> QED
          BY <5>1, <5>2 DEF EnvironmentOf, Env, Environment
      <4> QED
        BY <2>3, <4>1 DEF EnvOk
    <3>2. PICK step \in {"checkEmail", "findAdmin", "resolveUser"} :
              /\ step = AfterKey(req[r].kind)
              /\ step = "checkEmail" => req[r].kind = "createUser"
              /\ step = "findAdmin" => req[r].kind = "validate"
              /\ step = "resolveUser" => req[r].kind = "resolve"
      <4>1. CASE req[r].kind = "createUser"
        BY <4>1 DEF AfterKey
      <4>2. CASE req[r].kind = "validate"
        BY <4>2 DEF AfterKey
      <4>3. CASE req[r].kind = "resolve"
        BY <4>3 DEF AfterKey
      <4> QED
        BY <2>1, <4>1, <4>2, <4>3 DEF KeyKinds
    <3>3. /\ pc' = [pc EXCEPT ![r] = step] /\ ctx' = [ctx EXCEPT ![r] = scope]
          /\ UNCHANGED <<businesses, users, keys, applications, req, revoked>>
      BY <1>7, <2>3, <3>1, <3>2 DEF FindEnvironment, Go, unchangedData
    <3>4. pc'[r] = step /\ ctx'[r] = scope /\ step \in Active \cup Answers
      BY <1>0, <3>3 DEF TypeOK, Active
    <3>5. Asks(r)' /\ At(r)' /\ Scoped(r)' /\ Alive(r)' /\ Told(r)'
      BY <1>0, <2>1, <3>1, <3>2, <3>3, <3>4 DEF Asks, At, Scoped, Alive, Told
    <3> QED
      BY <3>2, <3>3, <3>4, <3>5, ReadStep DEF RequestInv
  <2> QED
    BY <1>7, <2>2, <2>3 DEF FindEnvironment
<1>8. CASE FindAdmin(r) \/ ResolveUser(r)
  <2>1. /\ pc[r] \in {"findAdmin", "resolveUser"} /\ req[r].kind \in KeyKinds
        /\ req[r].key \notin revoked[r]
        /\ Plain \/ Read(r, "200")
    BY <1>0, <1>8 DEF FindAdmin, ResolveUser, At, Alive, KeyKinds
  <2>2. CASE Read(r, "200")
    <3>1. "200" \in Active \cup Answers
      BY DEF Answers
    <3>2. pc'[r] = "200" /\ UNCHANGED <<users, keys, applications, businesses, req, revoked>>
      BY <1>2, <2>2, <3>1
    <3>3. At(r)' /\ Scoped(r)' /\ Alive(r)' /\ Told(r)'
      BY <1>0, <2>1, <3>2 DEF At, Scoped, Alive, Told, KeyKinds
    <3> QED
      BY <2>1, <2>2, <3>1, <3>3, PlainRead DEF KeyKinds
  <2> QED
    BY <1>1, <2>1, <2>2
<1>9. CASE Authenticate(r)
  <2>1. pc[r] = "authenticate" /\ req[r].kind \in TokenKinds
    BY <1>0, <1>9 DEF Authenticate, At
  <2>2. CASE Read(r, "403")
    BY <1>1, <2>1, <2>2
  <2>3. CASE /\ pc' = [pc EXCEPT ![r] = AfterToken(req[r].kind)] /\ ctx' = [ctx EXCEPT ![r] = req[r].env]
             /\ UNCHANGED <<businesses, users, keys, applications, req, revoked>>
    <3>1. PICK step \in {"checkRole", "selectMe"} :
              /\ step = AfterToken(req[r].kind)
              /\ step = "checkRole" => req[r].kind \in RoleKinds
              /\ step = "selectMe" => req[r].kind = "me"
      BY <2>1 DEF AfterToken, TokenKinds, RoleKinds
    <3>2. pc'[r] = step /\ step \in Active \cup Answers /\ req[r].env \in Environment
      BY <1>0, <2>3, <3>1 DEF TypeOK, Active, Request
    <3>3. Asks(r)' /\ At(r)' /\ Scoped(r)' /\ Alive(r)' /\ Told(r)'
      BY <1>0, <2>1, <2>3, <3>1, <3>2 DEF Asks, At, Scoped, Alive, Told
    <3> QED
      BY <2>3, <3>1, <3>2, <3>3, ReadStep DEF RequestInv
  <2> QED
    BY <1>9, <2>2, <2>3 DEF Authenticate, Go, unchangedData
<1>10. CASE CheckRole(r)
  <2>1. pc[r] = "checkRole" /\ req[r].kind \in RoleKinds
    BY <1>0, <1>10 DEF CheckRole, At
  <2>2. CASE Read(r, "403")
    BY <1>1, <2>1, <2>2
  <2>3. CASE /\ Read(r, AfterRole(req[r].kind))
             /\ \E u \in users : u.id = req[r].by /\ u.env = ctx[r] /\ u.role = "admin"
    <3>1. PICK step \in {"insertKey", "updateKey", "selectKeys"} :
              /\ step = AfterRole(req[r].kind)
              /\ step = "insertKey" => req[r].kind = "createKey"
              /\ step = "updateKey" => req[r].kind = "revokeKey"
              /\ step = "selectKeys" => req[r].kind = "listKeys"
      BY <2>1 DEF AfterRole, RoleKinds
    <3>2. step \in Active \cup Answers
      BY DEF Active
    <3>3. pc'[r] = step /\ UNCHANGED <<businesses, users, keys, applications, req, ctx, revoked>>
      BY <1>2, <2>3, <3>1, <3>2
    <3>4. \E a \in users : IsAdmin(a, req[r].by, ctx[r].business)
      BY <2>3 DEF TenancyInv, DataInv, IsAdmin
    <3>5. At(r)' /\ Scoped(r)' /\ Alive(r)' /\ Told(r)'
      BY <1>0, <3>1, <3>3, <3>4 DEF At, Scoped, Alive, Told
    <3> QED
      BY <2>1, <2>3, <3>1, <3>2, <3>5, PlainRead
  <2> QED
    BY <1>10, <2>2, <2>3 DEF CheckRole
<1>11. CASE ListApiKeys(r) \/ Me(r)
  <2>1. pc[r] \in {"selectKeys", "selectMe"} /\ Read(r, "200") /\ req[r].kind \in {"listKeys", "me"}
    BY <1>0, <1>11 DEF ListApiKeys, Me, At
  <2>2. "200" \in Active \cup Answers
    BY DEF Answers
  <2>3. pc'[r] = "200" /\ UNCHANGED <<users, keys, applications, businesses, req, revoked>>
    BY <1>2, <2>1, <2>2
  <2>4. At(r)' /\ Scoped(r)' /\ Alive(r)' /\ Told(r)'
    BY <1>0, <2>1, <2>3 DEF At, Scoped, Alive, Told, KeyKinds
  <2> QED
    BY <2>1, <2>2, <2>4, PlainRead
<1>12. CASE RefuseEnvironment(r) \/ StatementFails(r)
  BY <1>1, <1>12 DEF RefuseEnvironment, StatementFails, Active
<1> QED
  BY <1>3, <1>4, <1>5, <1>6, <1>7, <1>8, <1>9, <1>10, <1>11, <1>12

\* The types of the rows.
Typed ==
    /\ businesses \subseteq Ids /\ users \subseteq User
    /\ keys \in [Keys -> Key] /\ applications \subseteq [id : Requests, email : Emails]

\* The unique index, or the check, found the address.
LEMMA TakenStep ==
    ASSUME TenancyInv, NEW r \in Requests, Read(r, "409"), pc[r] # "idle",
           IF req[r].kind = "apply" THEN Applied(req[r].email) ELSE EmailTaken(req[r].email)
    PROVE  TenancyInv'
<1>1. "409" \in Active \cup Answers
  BY DEF Answers
<1>2. pc'[r] = "409" /\ UNCHANGED <<users, keys, applications, businesses, req, revoked>>
  BY DEF Read, Go, unchangedData, TenancyInv, TypeOK
<1>3. At(r)' /\ Scoped(r)'
  BY <1>2 DEF At, Scoped
<1>4. Alive(r)'
  BY <1>2 DEF TenancyInv, RequestInv, Alive
<1>5. Told(r)'
  BY <1>2 DEF Told, Applied, EmailTaken
<1> QED
  BY <1>1, <1>3, <1>4, <1>5, PlainRead

\* A committed statement of one request: its row, and 500 or what follows.
LEMMA WriteStep ==
    ASSUME TenancyInv, Growing, NEW r \in Requests, pc[r] # "idle",
           NEW step \in Active \cup Answers, Done(r, step),
           DataInv', Typed', RequestInv(r)',
           req[r].kind = "revokeKey" => /\ req[r].key \in Keys
                                        /\ keys[req[r].key].status # "revoked"
    PROVE  TenancyInv'
<1>1. PICK s \in {step, "500"} : pc' = [pc EXCEPT ![r] = s]
  BY DEF Done, Go
<1>2. s \in Active \cup Answers
  BY DEF Answers
<1>3. UNCHANGED <<req, ctx, revoked>>
  BY DEF Done
<1>4. TypeOK'
  BY <1>1, <1>2, <1>3 DEF TenancyInv, TypeOK, Typed
<1>5. \A q \in Requests \ {r} : /\ pc'[q] = pc[q] /\ req'[q] = req[q]
                                /\ ctx'[q] = ctx[q] /\ revoked'[q] = revoked[q]
  BY <1>1, <1>3 DEF TenancyInv, TypeOK
<1> QED
  BY <1>3, <1>4, <1>5, OneStep

\* Where it leaves the request.
LEMMA DoneAt ==
    ASSUME TypeOK, NEW r \in Requests, NEW step, Done(r, step)
    PROVE  pc'[r] \in {step, "500"} /\ UNCHANGED <<req, ctx, revoked>>
BY DEF Done, Go, TypeOK

LEMMA InsertBusinessStep ==
    ASSUME TenancyInv, NEW r \in Requests, InsertBusiness(r)
    PROVE  TenancyInv'
<1>0. /\ TypeOK /\ DataInv /\ Asks(r) /\ At(r) /\ Scoped(r) /\ Alive(r) /\ Told(r)
  BY DEF TenancyInv, RequestInv
<1>1. pc[r] = "insertBusiness" /\ req[r].kind = "register" /\ req[r].email \in Emails
  BY <1>0 DEF InsertBusiness, At, Asks
<1>2. CASE EmailTaken(req[r].email) /\ Read(r, "409")
  BY <1>1, <1>2, TakenStep
<1>3. CASE /\ ~EmailTaken(req[r].email)
           /\ businesses' = businesses \cup {r}
           /\ users' = users \cup {Admin(r, req[r].email)}
           /\ UNCHANGED <<keys, applications>>
           /\ Done(r, "insertSession")
  <2>1. /\ r \in Ids /\ Admin(r, req[r].email) \in User
        /\ Admin(r, req[r].email).email = req[r].email
        /\ Admin(r, req[r].email).business = r
        /\ Admin(r, req[r].email).env.business = r /\ Admin(r, req[r].email).key = None
    BY <1>1, AdminType DEF Ids, IsAdmin
  <2>2. Growing
    BY <1>3 DEF Growing
  <2>3. Typed'
    BY <1>0, <1>3, <2>1 DEF Typed, TypeOK
  <2>4. DataInv'
    <3>1. OneUserPerEmail'
      BY <1>0, <1>3, <2>1 DEF DataInv, OneUserPerEmail, EmailTaken
    <3>2. OneApplicationPerEmail'
      BY <1>0, <1>3 DEF DataInv, OneApplicationPerEmail
    <3>3. \A k \in Keys : KeyMade(k)'
      BY <1>0, <1>3 DEF DataInv, KeyMade
    <3> QED
      BY <1>0, <1>3, <2>1, <3>1, <3>2, <3>3 DEF DataInv
  <2>5. pc'[r] \in {"insertSession", "500"} /\ UNCHANGED <<req, ctx, revoked>>
    BY <1>0, <1>3, DoneAt
  <2>6. /\ Asks(r)' /\ At(r)' /\ Scoped(r)'
    BY <1>0, <1>1, <1>3, <2>5 DEF Asks, At, Scoped
  <2>7. Alive(r)' /\ Told(r)'
    BY <1>0, <1>1, <1>3, <2>5 DEF Alive, Told, KeyKinds, Admin
  <2>8. "insertSession" \in Active \cup Answers
    BY DEF Active
  <2> QED
    BY <1>1, <1>3, <2>2, <2>3, <2>4, <2>6, <2>7, <2>8, WriteStep DEF RequestInv
<1> QED
  BY <1>2, <1>3 DEF InsertBusiness, ViolatesUniqueEmail

LEMMA InsertUserStep ==
    ASSUME TenancyInv, NEW r \in Requests, InsertUser(r)
    PROVE  TenancyInv'
<1>0. /\ TypeOK /\ DataInv /\ Asks(r) /\ At(r) /\ Scoped(r) /\ Alive(r) /\ Told(r)
  BY DEF TenancyInv, RequestInv
<1>1. /\ pc[r] = "insertUser" /\ req[r].kind = "createUser" /\ req[r].email \in Emails
      /\ req[r].key \in Keys /\ keys[req[r].key].status # "absent"
      /\ ctx[r].business = keys[req[r].key].business
      /\ req[r].key \notin revoked[r] /\ ctx[r] \in Environment
  BY <1>0 DEF InsertUser, At, Asks, Keyed, KeyKinds, Scoped, Alive, TypeOK
<1>2. CASE EmailTaken(req[r].email) /\ Read(r, "409")
  BY <1>1, <1>2, TakenStep
<1>3. ASSUME NEW u,
             u = [id |-> r, email |-> req[r].email, business |-> ctx[r].business,
                  env |-> ctx[r], role |-> "user", key |-> req[r].key],
             ~EmailTaken(req[r].email), users' = users \cup {u},
             UNCHANGED <<businesses, keys, applications>>, Done(r, "200")
      PROVE  TenancyInv'
  <2>1. ctx[r].business \in Ids
    BY <1>0, <1>1, UserFields DEF DataInv, KeyMade, IsAdmin
  <2>2. /\ u \in User /\ u.email = req[r].email /\ u.env.business = u.business
        /\ u.key = req[r].key /\ u.business = keys[req[r].key].business
    <3>1. r \in Ids
      BY DEF Ids
    <3> QED
      BY <1>1, <1>3, <2>1, <3>1 DEF User
  <2>3. Growing
    BY <1>3 DEF Growing
  <2>4. Typed'
    BY <1>0, <1>3, <2>2 DEF Typed, TypeOK
  <2>5. DataInv'
    <3>1. OneUserPerEmail'
      BY <1>0, <1>3, <2>2 DEF DataInv, OneUserPerEmail, EmailTaken
    <3>2. OneApplicationPerEmail'
      BY <1>0, <1>3 DEF DataInv, OneApplicationPerEmail
    <3>3. \A k \in Keys : KeyMade(k)'
      BY <1>0, <1>3 DEF DataInv, KeyMade
    <3> QED
      BY <1>0, <1>1, <1>3, <2>2, <3>1, <3>2, <3>3 DEF DataInv
  <2>6. pc'[r] \in {"200", "500"} /\ UNCHANGED <<req, ctx, revoked>>
    BY <1>0, <1>3, DoneAt
  <2>7. /\ Asks(r)' /\ At(r)' /\ Scoped(r)'
    BY <1>0, <1>1, <1>3, <2>6 DEF Asks, At, Scoped
  <2>8. Alive(r)' /\ Told(r)'
    BY <1>0, <1>1, <1>3, <2>6 DEF Alive, Told
  <2>9. "200" \in Active \cup Answers
    BY DEF Answers
  <2> QED
    BY <1>1, <1>3, <2>3, <2>4, <2>5, <2>7, <2>8, <2>9, WriteStep DEF RequestInv
<1> QED
  BY <1>2, <1>3 DEF InsertUser, ViolatesUniqueEmail

LEMMA InsertApplicationStep ==
    ASSUME TenancyInv, NEW r \in Requests, InsertApplication(r)
    PROVE  TenancyInv'
<1>0. /\ TypeOK /\ DataInv /\ Asks(r) /\ At(r) /\ Scoped(r) /\ Alive(r) /\ Told(r)
  BY DEF TenancyInv, RequestInv
<1>1. pc[r] = "insertApplication" /\ req[r].kind = "apply" /\ req[r].email \in Emails
  BY <1>0 DEF InsertApplication, At, Asks
<1>2. CASE Applied(req[r].email) /\ Read(r, "409")
  BY <1>1, <1>2, TakenStep
<1>3. ASSUME NEW a, a = [id |-> r, email |-> req[r].email], ~Applied(req[r].email),
             applications' = applications \cup {a},
             UNCHANGED <<businesses, users, keys>>, Done(r, "200")
      PROVE  TenancyInv'
  <2>1. a \in [id : Requests, email : Emails] /\ a.email = req[r].email
    BY <1>1, <1>3
  <2>2. Growing
    BY <1>3 DEF Growing
  <2>3. Typed'
    BY <1>0, <1>3, <2>1 DEF Typed, TypeOK
  <2>4. DataInv'
    <3>1. OneApplicationPerEmail'
      BY <1>0, <1>3, <2>1 DEF DataInv, OneApplicationPerEmail, Applied
    <3>2. OneUserPerEmail'
      BY <1>0, <1>3 DEF DataInv, OneUserPerEmail
    <3>3. \A k \in Keys : KeyMade(k)'
      BY <1>0, <1>3 DEF DataInv, KeyMade
    <3> QED
      BY <1>0, <1>3, <3>1, <3>2, <3>3 DEF DataInv
  <2>5. pc'[r] \in {"200", "500"} /\ UNCHANGED <<req, ctx, revoked>>
    BY <1>0, <1>3, DoneAt
  <2>6. /\ Asks(r)' /\ At(r)' /\ Scoped(r)'
    BY <1>0, <1>1, <1>3, <2>5 DEF Asks, At, Scoped
  <2>7. Alive(r)' /\ Told(r)'
    BY <1>0, <1>1, <1>3, <2>5 DEF Alive, Told, KeyKinds
  <2>8. "200" \in Active \cup Answers
    BY DEF Answers
  <2> QED
    BY <1>1, <1>3, <2>2, <2>3, <2>4, <2>6, <2>7, <2>8, WriteStep DEF RequestInv
<1> QED
  BY <1>2, <1>3 DEF InsertApplication, ViolatesUniqueApplication

LEMMA InsertKeyStep ==
    ASSUME TenancyInv, NEW r \in Requests, InsertKey(r)
    PROVE  TenancyInv'
<1>0. /\ TypeOK /\ DataInv /\ Asks(r) /\ At(r) /\ Scoped(r) /\ Alive(r) /\ Told(r)
  BY DEF TenancyInv, RequestInv
<1>1. /\ pc[r] = "insertKey" /\ req[r].kind = "createKey" /\ req[r].by \in Ids
      /\ \E a \in users : IsAdmin(a, req[r].by, ctx[r].business)
      /\ ctx[r].business \in Ids \cup {None}
  BY <1>0 DEF InsertKey, At, Asks, TokenKinds, RoleKinds, Scoped, TypeOK, Environment
<1>2. PICK k \in Keys, row \in Key :
          /\ row = [status |-> "active", business |-> ctx[r].business, maker |-> req[r].by]
          /\ keys[k].status = "absent" /\ keys' = [keys EXCEPT ![k] = row]
  BY <1>1 DEF InsertKey, Key
<1>3. UNCHANGED <<businesses, users, applications>> /\ Done(r, "200")
  BY DEF InsertKey
<1>4. keys'[k] = row /\ \A j \in Keys \ {k} : keys'[j] = keys[j]
  BY <1>0, <1>2 DEF TypeOK
<1>5. Growing
  BY <1>2, <1>3, <1>4 DEF Growing
<1>6. Typed'
  BY <1>0, <1>2, <1>3 DEF Typed, TypeOK
<1>7. DataInv'
  <2>1. OneUserPerEmail' /\ OneApplicationPerEmail'
    BY <1>0, <1>3 DEF DataInv, OneUserPerEmail, OneApplicationPerEmail
  <2>2. KeyMade(k)'
    BY <1>1, <1>2, <1>3, <1>4 DEF KeyMade
  <2>3. \A j \in Keys \ {k} : KeyMade(j)'
    BY <1>0, <1>3, <1>4 DEF DataInv, KeyMade
  <2>4. \A u \in users : u.key # None => u.key \in Keys \ {k}
    BY <1>0, <1>2, UserFields DEF DataInv
  <2> QED
    BY <1>0, <1>3, <1>4, <2>1, <2>2, <2>3, <2>4 DEF DataInv
<1>8. pc'[r] \in {"200", "500"} /\ UNCHANGED <<req, ctx, revoked>>
  BY <1>0, <1>3, DoneAt
<1>9. /\ Asks(r)' /\ At(r)' /\ Scoped(r)' /\ Told(r)'
  BY <1>0, <1>1, <1>8 DEF Asks, Keyed, KeyKinds, At, Scoped, Told
<1>10. Alive(r)'
  <2>1. revoked[r] \subseteq Keys
    BY <1>0 DEF TypeOK
  <2> QED
    BY <1>0, <1>1, <1>2, <1>4, <1>8, <2>1 DEF Alive, KeyKinds
<1>11. "200" \in Active \cup Answers
  BY DEF Answers
<1> QED
  BY <1>1, <1>3, <1>5, <1>6, <1>7, <1>9, <1>10, <1>11, WriteStep DEF RequestInv

LEMMA UpdateKeyStep ==
    ASSUME TenancyInv, NEW r \in Requests, UpdateKey(r)
    PROVE  TenancyInv'
<1>0. /\ TypeOK /\ DataInv /\ Asks(r) /\ At(r) /\ Scoped(r) /\ Alive(r) /\ Told(r)
  BY DEF TenancyInv, RequestInv
<1>1. /\ pc[r] = "updateKey" /\ req[r].kind = "revokeKey" /\ req[r].key \in Keys
  BY <1>0 DEF UpdateKey, At, Asks, Keyed
<1>2. CASE Read(r, "400")
  BY <1>1, <1>2, PlainAnswer
<1>3. CASE /\ Revocable(req[r].key, r)
           /\ keys' = [keys EXCEPT ![req[r].key].status = "revoked"]
           /\ UNCHANGED <<businesses, users, applications>>
           /\ Done(r, "200")
  <2>1. PICK k \in Keys : k = req[r].key
    BY <1>1
  <2>2. PICK row : row = [keys[k] EXCEPT !.status = "revoked"]
    OBVIOUS
  <2>3. /\ row \in Key /\ row.status = "revoked"
        /\ row.business = keys[k].business /\ row.maker = keys[k].maker
    BY <1>0, <2>2 DEF TypeOK, Key
  <2>4. keys' = [keys EXCEPT ![k] = row]
    BY <1>3, <2>1, <2>2
  <2>5. keys'[k] = row /\ \A j \in Keys \ {k} : keys'[j] = keys[j]
    BY <1>0, <2>4 DEF TypeOK
  <2>6. keys[k].status = "active" /\ keys[k].business = ctx[r].business
    BY <1>3, <2>1 DEF Revocable
  <2>7. Growing
    BY <1>3, <2>3, <2>5, <2>6 DEF Growing
  <2>8. Typed'
    BY <1>0, <1>3, <2>3, <2>4 DEF Typed, TypeOK
  <2>9. DataInv'
    <3>1. OneUserPerEmail' /\ OneApplicationPerEmail'
      BY <1>0, <1>3 DEF DataInv, OneUserPerEmail, OneApplicationPerEmail
    <3>2. \A j \in Keys : KeyMade(j)'
      BY <1>0, <1>3, <2>3, <2>5, <2>6 DEF DataInv, KeyMade
    <3>3. \A u \in users : u.key # None =>
              /\ keys'[u.key].business = u.business /\ keys'[u.key].status # "absent"
      BY <1>0, <2>3, <2>5, UserFields DEF DataInv
    <3> QED
      BY <1>0, <1>3, <3>1, <3>2, <3>3 DEF DataInv
  <2>10. pc'[r] \in {"200", "500"} /\ UNCHANGED <<req, ctx, revoked>>
    BY <1>0, <1>3, DoneAt
  <2>11. /\ Asks(r)' /\ At(r)' /\ Scoped(r)'
    BY <1>0, <1>1, <2>1, <2>3, <2>5, <2>10 DEF Asks, At, Scoped, KeyKinds
  <2>12. Told(r)'
    BY <1>0, <1>1, <2>1, <2>3, <2>5, <2>6, <2>10 DEF Told
  <2>13. Alive(r)'
    <3>1. revoked[r] \subseteq Keys
      BY <1>0 DEF TypeOK
    <3> QED
      BY <1>0, <1>1, <2>3, <2>5, <2>10, <3>1 DEF Alive, KeyKinds
  <2>14. "200" \in Active \cup Answers
    BY DEF Answers
  <2>15. req[r].key \in Keys /\ keys[req[r].key].status # "revoked"
    BY <2>1, <2>6
  <2> QED
    BY <1>1, <1>3, <2>7, <2>8, <2>9, <2>11, <2>12, <2>13, <2>14, <2>15, WriteStep DEF RequestInv
<1> QED
  BY <1>2, <1>3 DEF UpdateKey

-----------------------------------------------------------------------------
(* The invariant.                                                          *)

LEMMA TenancyInitial == Init => TenancyInv
<1> SUFFICES ASSUME Init PROVE TenancyInv
  OBVIOUS
<1>1. \A b \in FirstAdmins : /\ b \in Ids /\ FirstEmail[b] \in Emails
                             /\ Admin(b, FirstEmail[b]) \in User
                             /\ IsAdmin(Admin(b, FirstEmail[b]), b, b)
                             /\ Admin(b, FirstEmail[b]).email = FirstEmail[b]
                             /\ Admin(b, FirstEmail[b]).env.business = b
                             /\ Admin(b, FirstEmail[b]).key = None
  BY FirstAssumption, AdminType DEF Ids
<1>2. NoEnv \in Environment
  BY DEF NoEnv, Environment
<1>3. keys \in [Keys -> Key]
  BY FirstAssumption DEF Init, Key, Ids
<1>4. TypeOK
  <2>1. [kind |-> "none", email |-> None, key |-> None, by |-> None, env |-> NoEnv] \in Request
    BY <1>2 DEF Request
  <2>2. businesses \subseteq Ids /\ users \subseteq User
    BY <1>1 DEF Init
  <2>3. /\ req \in [Requests -> Request] /\ ctx \in [Requests -> Environment]
        /\ pc \in [Requests -> Active \cup Answers \cup {"idle"}]
        /\ revoked \in [Requests -> SUBSET Keys] /\ applications = {}
    BY <1>2, <2>1 DEF Init
  <2> QED
    BY <1>3, <2>2, <2>3 DEF TypeOK
<1>5. DataInv
  <2>1. OneUserPerEmail /\ OneApplicationPerEmail
    BY <1>1, FirstAssumption DEF Init, OneUserPerEmail, OneApplicationPerEmail
  <2>2. \A k \in Keys : KeyMade(k)
    <3> SUFFICES ASSUME NEW k \in Keys, keys[k].status # "absent"
                 PROVE  \E a \in users : IsAdmin(a, keys[k].maker, keys[k].business)
      BY DEF KeyMade
    <3>1. /\ k \in DOMAIN FirstKeys /\ FirstKeys[k] \in FirstAdmins
          /\ keys[k].maker = FirstKeys[k] /\ keys[k].business = FirstKeys[k]
      BY FirstAssumption DEF Init
    <3> QED
      BY <1>1, <3>1 DEF Init
  <2>3. \A u \in users : u.env.business = u.business /\ u.key = None
    BY <1>1 DEF Init, IsAdmin
  <2> QED
    BY <2>1, <2>2, <2>3 DEF DataInv
<1>6. ASSUME NEW r \in Requests PROVE RequestInv(r)
  <2>1. pc[r] = "idle" /\ req[r].kind = "none" /\ req[r].key = None /\ revoked[r] = {}
    BY DEF Init
  <2> QED
    BY <2>1 DEF RequestInv, Asks, At, Scoped, Alive, Told, Keyed, KeyKinds, TokenKinds, RoleKinds
<1>7. ASSUME NEW r \in Requests, NEW q \in Requests PROVE Revokers(r, q)
  BY DEF Init, Revokers
<1> QED
  BY <1>4, <1>5, <1>6, <1>7 DEF TenancyInv

LEMMA TenancyStep == TenancyInv /\ [Next]_vars => TenancyInv'
<1> SUFFICES ASSUME TenancyInv, [Next]_vars PROVE TenancyInv'
  OBVIOUS
<1>1. ASSUME NEW r \in Requests, NEW kind \in Kinds, NEW ask \in CanAsk(kind), Receive(r, ask)
      PROVE  TenancyInv'
  BY <1>1, ReceiveStep
<1>2. ASSUME NEW r \in Requests, Step(r) \/ StatementFails(r) PROVE TenancyInv'
  <2>1. CASE \/ CheckEmail(r) \/ InsertSession(r) \/ CheckApplication(r) \/ FindKey(r)
             \/ FindEnvironment(r) \/ FindAdmin(r) \/ ResolveUser(r) \/ Authenticate(r)
             \/ CheckRole(r) \/ RefuseEnvironment(r) \/ ListApiKeys(r) \/ Me(r)
             \/ StatementFails(r)
    BY <2>1, ReadsKeep
  <2>2. CASE InsertBusiness(r)
    BY <2>2, InsertBusinessStep
  <2>3. CASE InsertUser(r)
    BY <2>3, InsertUserStep
  <2>4. CASE InsertApplication(r)
    BY <2>4, InsertApplicationStep
  <2>5. CASE InsertKey(r)
    BY <2>5, InsertKeyStep
  <2>6. CASE UpdateKey(r)
    BY <2>6, UpdateKeyStep
  <2> QED
    BY <1>2, <2>1, <2>2, <2>3, <2>4, <2>5, <2>6
    DEF Step, RegisterBusiness, CreateSdkUser, ApplyForBeta, ValidateApiKey, CreateApiKey
<1>3. CASE UNCHANGED vars
  BY <1>3 DEF vars, TenancyInv, TypeOK, DataInv, OneUserPerEmail, OneApplicationPerEmail,
     KeyMade, RequestInv, Asks, At, Scoped, Alive, Told, Revokers, Applied, EmailTaken
<1> QED
  BY <1>1, <1>2, <1>3 DEF Next

LEMMA TenancyInvariant == Spec => []TenancyInv
BY TenancyInitial, TenancyStep, PTL DEF Spec

-----------------------------------------------------------------------------
(* The theorems.                                                           *)

\* The rows and requests keep their types through every handler.
THEOREM TenancyTypeCorrect == Spec => []TypeOK
<1>1. TenancyInv => TypeOK
  BY DEF TenancyInv
<1> QED
  BY <1>1, TenancyInvariant, PTL

\* The unique index on users.email, which registrations and user creations run
\* into when both have passed the check, leaves one user per address.
THEOREM AddressesAreUnique == Spec => []OneUserPerEmail
<1>1. TenancyInv => OneUserPerEmail
  BY DEF TenancyInv, DataInv
<1> QED
  BY <1>1, TenancyInvariant, PTL

\* The unique index on beta_applications leaves one application per address,
\* though apply_for_beta checks for it in a statement before.
THEOREM ApplicationsAreUnique == Spec => []OneApplicationPerEmail
<1>1. TenancyInv => OneApplicationPerEmail
  BY DEF TenancyInv, DataInv
<1> QED
  BY <1>1, TenancyInvariant, PTL

\* Every user lives in an environment of its own business, and so do the key
\* that made it and the admin that made the key, whatever environments the
\* requests to ApiKeyOnlyContext and AuthContext name.
THEOREM BusinessesAreApart == Spec => []TenantsApart
<1>1. TenancyInv => TenantsApart
  <2> SUFFICES ASSUME TenancyInv, NEW u \in users
               PROVE  /\ u.env.business = u.business
                      /\ u.key # None =>
                           /\ keys[u.key].business = u.business
                           /\ \E a \in users : /\ a.id = keys[u.key].maker
                                               /\ a.role = "admin" /\ a.business = u.business
    BY DEF TenantsApart
  <2>1. u.key \in Keys \cup {None}
    BY UserFields DEF TenancyInv
  <2> QED
    BY <2>1 DEF TenancyInv, DataInv, KeyMade, IsAdmin
<1> QED
  BY <1>1, TenancyInvariant, PTL

\* The lookup of an active key rejects, for good, every request that comes
\* after revoke_api_key.
THEOREM RevocationIsFinal == Spec => []RevokedKeyIsDead
<1>1. TenancyInv => RevokedKeyIsDead
  <2> SUFFICES ASSUME TenancyInv, NEW r \in Requests, pc[r] = "200", req[r].kind # "revokeKey"
               PROVE  req[r].key \notin revoked[r]
    BY DEF RevokedKeyIsDead
  <2>1. Asks(r) /\ Alive(r) /\ revoked[r] \subseteq Keys
    BY DEF TenancyInv, RequestInv, TypeOK
  <2>2. CASE req[r].kind \in KeyKinds
    BY <2>1, <2>2 DEF Alive
  <2>3. CASE req[r].kind \notin KeyKinds
    BY <2>1, <2>3, NoneAssumption DEF Asks, Keyed
  <2> QED
    BY <2>2, <2>3
<1> QED
  BY <1>1, TenancyInvariant, PTL

\* The UPDATE of revoke_api_key, which asks for an active key of the caller's
\* business, succeeds for one request.
THEOREM OneRevocation == Spec => []RevokedOnce
<1>1. TenancyInv => RevokedOnce
  BY DEF TenancyInv, RequestInv, Told, Revokers, RevokedOnce
<1> QED
  BY <1>1, TenancyInvariant, PTL

\* A 409 names an address somebody has, and a registration that is answered
\* has its rows.
THEOREM AnswersTellTheRows == Spec => []AnswersMatchRows
<1>1. TenancyInv => AnswersMatchRows
  BY DEF TenancyInv, RequestInv, Told, AnswersMatchRows
<1> QED
  BY <1>1, TenancyInvariant, PTL
=============================================================================
