------------------------------ MODULE Tenancy -------------------------------
(***************************************************************************)
(* users-service: businesses, their environments, users and API keys       *)
(* (routes/business.rs, user.rs, apikey.rs, beta.rs, auth.rs of src, and   *)
(* grpc_server.rs, which validates keys for accounts-service).             *)
(*                                                                         *)
(* A registration makes a business with a sandbox and a production         *)
(* environment and an admin; an admin makes and revokes API keys; a key    *)
(* makes users, and is validated for other services.  Nothing ever leaves  *)
(* these tables; of a row only the status of a key changes.                *)
(*                                                                         *)
(* Each SELECT and each autocommitted statement is a step.  A transaction  *)
(* whose only conflict is a unique index is one step: a rival waits for    *)
(* its COMMIT and then finds the row.  A statement that reads rows which   *)
(* never change is joined with the next.  What `pc[r]` names comes next.   *)
(*                                                                         *)
(* A user, a business and an application are named by the request that     *)
(* inserted them.  Sessions are Authentication's; names and passwords are  *)
(* left out, so a lookup by name may fail at will.                         *)
(*                                                                         *)
(* A definition commented "Mutant" is used by no specification: it is the  *)
(* next definition with a plausible bug, and shows that a property notices.*)
(***************************************************************************)
EXTENDS Naturals, FiniteSets

CONSTANTS Requests,        \* HTTP requests and gRPC calls: each is served once
          Emails,          \* normalized addresses
          Keys,            \* ids for rows of api_keys, a bound
          Kinds,           \* the endpoints in use
          FirstAdmins,     \* businesses at the start, each with an admin of its name
          FirstEmail,      \* the admins' addresses
          FirstKeys,       \* the active keys at the start and their business
          None

AllKinds == {"register", "apply", "createUser", "validate", "resolve",
             "createKey", "revokeKey", "listKeys", "me"}
Types == {"sandbox", "production"}
Ids   == Requests \cup FirstAdmins

ASSUME KindsAssumption == Kinds \subseteq AllKinds
ASSUME FirstAssumption ==
    /\ FirstAdmins \cap Requests = {}
    /\ FirstEmail \in [FirstAdmins -> Emails]
    /\ \A a, b \in FirstAdmins : FirstEmail[a] = FirstEmail[b] => a = b
    /\ DOMAIN FirstKeys \subseteq Keys
    /\ \A k \in DOMAIN FirstKeys : FirstKeys[k] \in FirstAdmins
ASSUME NoneAssumption == None \notin Ids \cup Emails \cup Keys

VARIABLES
    businesses,     \* businesses, each with both environments
    users,          \* rows of users
    keys,           \* rows of api_keys
    applications,   \* rows of beta_applications
    pc,             \* the next statement of each request; a status code once answered
    req,            \* what each request asks for
    ctx,            \* business and environment a request was authenticated for
    revoked         \* history: the keys revoked when each request arrived

vars == <<businesses, users, keys, applications, pc, req, ctx, revoked>>

-----------------------------------------------------------------------------
Environment == [business : Ids \cup {None}, type : Types \cup {"none"}]
NoEnv       == [business |-> None, type |-> "none"]

User    == [id : Ids, email : Emails, business : Ids, env : Environment,
            role : {"admin", "user"}, key : Keys \cup {None}]
Key     == [status : {"absent", "active", "revoked"}, business : Ids \cup {None},
            maker : Ids \cup {None}]
Request == [kind : AllKinds \cup {"none"}, email : Emails \cup {None},
            key : Keys \cup {None}, by : Ids \cup {None}, env : Environment]

Answers == {"200", "400", "401", "403", "404", "409", "412", "500"}
Active  == {"checkEmail", "insertBusiness", "insertSession", "checkApplication",
            "insertApplication", "findKey", "findEnvironment", "insertUser",
            "findAdmin", "resolveUser", "authenticate", "checkRole", "insertKey",
            "updateKey", "selectKeys", "selectMe"}

Env(b, t)     == [business |-> b, type |-> t]
HasEnv(e)     == e.business \in businesses /\ e.type \in Types

Admin(b, e) == [id |-> b, email |-> e, business |-> b, env |-> Env(b, "sandbox"),
                role |-> "admin", key |-> None]

EmailTaken(e) == \E u \in users : u.email = e

unchangedData == <<businesses, users, keys, applications>>

Init ==
    /\ businesses = FirstAdmins
    /\ users = {Admin(b, FirstEmail[b]) : b \in FirstAdmins}
    /\ keys = [k \in Keys |->
                  IF k \in DOMAIN FirstKeys
                  THEN [status |-> "active", business |-> FirstKeys[k], maker |-> FirstKeys[k]]
                  ELSE [status |-> "absent", business |-> None, maker |-> None]]
    /\ applications = {}
    /\ pc = [r \in Requests |-> "idle"]
    /\ req = [r \in Requests |-> [kind |-> "none", email |-> None, key |-> None,
                                  by |-> None, env |-> NoEnv]]
    /\ ctx = [r \in Requests |-> NoEnv]
    /\ revoked = [r \in Requests |-> {}]

-----------------------------------------------------------------------------
Go(r, step) == pc' = [pc EXCEPT ![r] = step]

Read(r, step) == Go(r, step) /\ UNCHANGED <<unchangedData, req, ctx, revoked>>

\* A committed statement is answered with what follows, or its
\* acknowledgement is lost.
Done(r, step) ==
    /\ Go(r, step) \/ Go(r, "500")
    /\ UNCHANGED <<req, ctx, revoked>>

First(kind) ==
    CASE kind = "register" -> "checkEmail"
      [] kind = "apply"    -> "checkApplication"
      [] kind \in {"createUser", "validate", "resolve"}        -> "findKey"
      [] kind \in {"createKey", "revokeKey", "listKeys", "me"} -> "authenticate"

\* What a client can send: keys and tokens it was given, any environment of
\* any business by id, or (None) a type for a key's own business.
CanAsk(kind) ==
    LET made   == {k \in Keys : keys[k].status # "absent"}
        ids    == {Env(b, t) : b \in businesses, t \in Types}
        types  == {Env(None, t) : t \in Types}
        signed == {u.id : u \in users}
        Ask(es, ks, us, vs) ==
            [kind : {kind}, email : es, key : ks, by : us, env : vs]
        no == {None}
    IN  CASE kind \in {"register", "apply"} -> Ask(Emails, no, no, {NoEnv})
          [] kind = "createUser"            -> Ask(Emails, made, no, ids \cup types)
          [] kind = "validate"              -> Ask(no, made, no, types)
          [] kind = "resolve"               -> Ask(Emails, made, no, types)
          [] kind = "revokeKey"             -> Ask(no, made, signed, ids)
          [] kind \in {"createKey", "listKeys", "me"} -> Ask(no, no, signed, ids)

Receive(r, ask) ==
    /\ pc[r] = "idle"
    /\ req' = [req EXCEPT ![r] = ask]
    /\ revoked' = [revoked EXCEPT ![r] = {k \in Keys : keys[k].status = "revoked"}]
    /\ Go(r, First(ask.kind))
    /\ UNCHANGED <<unchangedData, ctx>>

-----------------------------------------------------------------------------
(* Registration of a business, and creation of a user with an API key.     *)

\* Mutant: the outcomes of the check are swapped.
CheckEmailSwapped(r) ==
    /\ pc[r] = "checkEmail"
    /\ Read(r, IF ~EmailTaken(req[r].email) THEN "409"
               ELSE IF req[r].kind = "register" THEN "insertBusiness" ELSE "insertUser")

CheckEmail(r) ==
    /\ pc[r] = "checkEmail"
    /\ Read(r, IF EmailTaken(req[r].email) THEN "409"
               ELSE IF req[r].kind = "register" THEN "insertBusiness" ELSE "insertUser")

ViolatesUniqueEmail(e) == EmailTaken(e)

\* The business, both environments and the admin, in one transaction.
InsertBusiness(r) ==
    /\ pc[r] = "insertBusiness"
    /\ IF ViolatesUniqueEmail(req[r].email)
       THEN Read(r, "409")
       ELSE /\ businesses' = businesses \cup {r}
            /\ users' = users \cup {Admin(r, req[r].email)}
            /\ UNCHANGED <<keys, applications>>
            /\ Done(r, "insertSession")

InsertSession(r) ==
    /\ pc[r] = "insertSession"
    /\ Read(r, "200")

RegisterBusiness(r) == InsertBusiness(r) \/ InsertSession(r)

InsertUser(r) ==
    /\ pc[r] = "insertUser"
    /\ IF ViolatesUniqueEmail(req[r].email)
       THEN Read(r, "409")
       ELSE /\ users' = users \cup {[id |-> r, email |-> req[r].email,
                                     business |-> ctx[r].business, env |-> ctx[r],
                                     role |-> "user", key |-> req[r].key]}
            /\ UNCHANGED <<businesses, keys, applications>>
            /\ Done(r, "200")

CreateSdkUser(r) == CheckEmail(r) \/ InsertUser(r)

-----------------------------------------------------------------------------
(* Applications for the beta.                                              *)
Applied(e) == \E a \in applications : a.email = e

ViolatesUniqueApplication(e) == Applied(e)

CheckApplication(r) ==
    /\ pc[r] = "checkApplication"
    /\ Read(r, IF Applied(req[r].email) THEN "409" ELSE "insertApplication")

\* The mail that follows may fail without consequence.
InsertApplication(r) ==
    /\ pc[r] = "insertApplication"
    /\ IF ViolatesUniqueApplication(req[r].email)
       THEN Read(r, "409")
       ELSE /\ applications' = applications \cup {[id |-> r, email |-> req[r].email]}
            /\ UNCHANGED <<businesses, users, keys>>
            /\ Done(r, "200")

ApplyForBeta(r) == CheckApplication(r) \/ InsertApplication(r)

-----------------------------------------------------------------------------
(* Authentication by API key (ApiKeyOnlyContext, validate_api_key_scope).  *)

\* Mutant: a key that exists will do.
FindKeyOfAnyStatus(r) ==
    /\ pc[r] = "findKey"
    /\ Go(r, "findEnvironment")
    /\ ctx' = [ctx EXCEPT ![r].business = keys[req[r].key].business]
    /\ UNCHANGED <<unchangedData, req, revoked>>

FindKey(r) ==
    /\ pc[r] = "findKey"
    /\ IF keys[req[r].key].status = "active"
       THEN /\ Go(r, "findEnvironment")
            /\ ctx' = [ctx EXCEPT ![r].business = keys[req[r].key].business]
            /\ UNCHANGED <<unchangedData, req, revoked>>
       ELSE Read(r, "401")

\* An environment asked for by type is the business's own.
EnvironmentOf(r) ==
    IF req[r].env.business = None THEN Env(ctx[r].business, req[r].env.type) ELSE req[r].env

AfterKey(kind) ==
    CASE kind = "createUser" -> "checkEmail"
      [] kind = "validate"   -> "findAdmin"
      [] kind = "resolve"    -> "resolveUser"

\* Mutant: the environment may be another business's.
EnvOkOfAny(r, e) == HasEnv(e)

\* env_ok: the environment exists and is the business's.
EnvOk(r, e) == HasEnv(e) /\ e.business = ctx[r].business

\* last_used_at is written too, whether or not that works.
FindEnvironment(r) ==
    /\ pc[r] = "findEnvironment"
    /\ IF EnvOk(r, EnvironmentOf(r))
       THEN /\ ctx' = [ctx EXCEPT ![r] = EnvironmentOf(r)]
            /\ Go(r, AfterKey(req[r].kind))
            /\ UNCHANGED <<unchangedData, req, revoked>>
       ELSE Read(r, "403")

\* gRPC: an admin of the environment stands for the key.
FindAdmin(r) ==
    /\ pc[r] = "findAdmin"
    /\ Read(r, IF \E u \in users : u.env = ctx[r] /\ u.role = "admin" THEN "200" ELSE "412")

ResolveUser(r) ==
    /\ pc[r] = "resolveUser"
    /\ \/ Read(r, "404")
       \/ /\ \E u \in users : u.env = ctx[r] /\ u.email = req[r].email
          /\ Read(r, "200")

ValidateApiKey(r) == FindKey(r) \/ FindEnvironment(r) \/ FindAdmin(r)

-----------------------------------------------------------------------------
(* Authentication by access token (AuthContext), and what admins do.       *)

AfterToken(kind) ==
    CASE kind \in {"createKey", "revokeKey", "listKeys"} -> "checkRole"
      [] kind = "me" -> "selectMe"

\* The user is in the environment, or in another one of the same business.
Authenticate(r) ==
    /\ pc[r] = "authenticate"
    /\ IF \E u \in users : u.id = req[r].by /\ u.business = req[r].env.business
       THEN /\ Go(r, AfterToken(req[r].kind))
            /\ ctx' = [ctx EXCEPT ![r] = req[r].env]
            /\ UNCHANGED <<unchangedData, req, revoked>>
       ELSE Read(r, "403")

AfterRole(kind) ==
    CASE kind = "createKey" -> "insertKey"
      [] kind = "revokeKey" -> "updateKey"
      [] kind = "listKeys"  -> "selectKeys"

\* The role is looked up in the environment of the request.
CheckRole(r) ==
    /\ pc[r] = "checkRole"
    /\ Read(r, IF \E u \in users : u.id = req[r].by /\ u.env = ctx[r] /\ u.role = "admin"
               THEN AfterRole(req[r].kind) ELSE "403")

InsertKey(r) ==
    /\ pc[r] = "insertKey"
    /\ \E k \in Keys :
          /\ keys[k].status = "absent"
          /\ keys' = [keys EXCEPT ![k] = [status |-> "active", business |-> ctx[r].business,
                                          maker |-> req[r].by]]
    /\ UNCHANGED <<businesses, users, applications>>
    /\ Done(r, "200")

\* The optional environment of a new key is not one of the business.
RefuseEnvironment(r) ==
    /\ pc[r] = "insertKey"
    /\ Read(r, "400")

CreateApiKey(r) == InsertKey(r) \/ RefuseEnvironment(r)

\* Mutant: any key is revoked by its id alone.
RevocableById(k, r) == keys[k].status # "absent"

Revocable(k, r) == keys[k].status = "active" /\ keys[k].business = ctx[r].business

UpdateKey(r) ==
    /\ pc[r] = "updateKey"
    /\ IF Revocable(req[r].key, r)
       THEN /\ keys' = [keys EXCEPT ![req[r].key].status = "revoked"]
            /\ UNCHANGED <<businesses, users, applications>>
            /\ Done(r, "200")
       ELSE Read(r, "400")

ListApiKeys(r) ==
    /\ pc[r] = "selectKeys"
    /\ Read(r, "200")

Me(r) ==
    /\ pc[r] = "selectMe"
    /\ Read(r, "200")

-----------------------------------------------------------------------------
\* Any statement may fail; a session that cannot be stored leaves the
\* business registered.
StatementFails(r) ==
    /\ pc[r] \in Active
    /\ Read(r, "500")

Step(r) ==
    \/ RegisterBusiness(r) \/ CreateSdkUser(r) \/ ApplyForBeta(r)
    \/ ValidateApiKey(r) \/ ResolveUser(r)
    \/ Authenticate(r) \/ CheckRole(r) \/ CreateApiKey(r) \/ UpdateKey(r)
    \/ ListApiKeys(r) \/ Me(r)

Next ==
    \E r \in Requests :
        \/ \E kind \in Kinds : \E ask \in CanAsk(kind) : Receive(r, ask)
        \/ Step(r) \/ StatementFails(r)

Spec == Init /\ [][Next]_vars

-----------------------------------------------------------------------------
(* Properties.                                                             *)

\* Every variable has its type.
TypeOK ==
    /\ businesses \subseteq Ids
    /\ users \subseteq User
    /\ keys \in [Keys -> Key]
    /\ applications \subseteq [id : Requests, email : Emails]
    /\ pc \in [Requests -> Active \cup Answers \cup {"idle"}]
    /\ req \in [Requests -> Request]
    /\ ctx \in [Requests -> Environment]
    /\ revoked \in [Requests -> SUBSET Keys]

\* One user per address, though registrations and user creations of it race
\* past the check (register_business_inner, create_sdk_user_inner).
OneUserPerEmail ==
    \A u, v \in users : u.email = v.email => u = v

\* One application per address, though two race past the check.
OneApplicationPerEmail ==
    \A a, b \in applications : a.email = b.email => a = b

\* A user is in an environment of its own business, the business of the key
\* that made it, which an admin of that business made: nothing crosses from
\* one business to another, whatever environment the headers name.
TenantsApart ==
    \A u \in users :
        /\ u.env.business = u.business
        /\ u.key # None =>
             /\ keys[u.key].business = u.business
             /\ \E a \in users : /\ a.id = keys[u.key].maker
                                 /\ a.role = "admin" /\ a.business = u.business

\* A key that was revoked before a request arrived gets nothing done.
RevokedKeyIsDead ==
    \A r \in Requests : pc[r] = "200" /\ req[r].kind # "revokeKey" => req[r].key \notin revoked[r]

\* A key is revoked by one request only, made by an admin of its business:
\* later and rival revocations of it are refused.
RevokedOnce ==
    \A r, q \in Requests :
        /\ pc[r] = "200" /\ req[r].kind = "revokeKey"
        => /\ keys[req[r].key].business = ctx[r].business
           /\ pc[q] = "200" /\ req[q].kind = "revokeKey" /\ req[q].key = req[r].key => q = r

\* A refused address is one that somebody has; a registration that was
\* answered has its business, environments and admin.
AnswersMatchRows ==
    \A r \in Requests :
        /\ pc[r] = "409" => IF req[r].kind = "apply" THEN Applied(req[r].email)
                                                     ELSE EmailTaken(req[r].email)
        /\ pc[r] = "200" /\ req[r].kind = "register" =>
             r \in businesses /\ Admin(r, req[r].email) \in users

-----------------------------------------------------------------------------
(* Claims of the repository that the code does not keep.                   *)

\* routes/business.rs:103: "Create admin user (in both environments)"; a key
\* stands for an admin of the environment it is validated for.
KeyValidInBothEnvironments ==
    \A r \in Requests : req[r].kind = "validate" => pc[r] # "412"

\* auth.rs:188: "This allows admins to access both sandbox and production even
\* if they only have a user record in one".
AdminActsInBothEnvironments ==
    \A r \in Requests :
        /\ req[r].kind \in {"createKey", "revokeKey", "listKeys"}
        /\ \E u \in users : /\ u.id = req[r].by /\ u.role = "admin"
                            /\ u.business = req[r].env.business
        => pc[r] # "403"
=============================================================================
