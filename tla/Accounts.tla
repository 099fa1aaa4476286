------------------------------ MODULE Accounts ------------------------------
(***************************************************************************)
(* accounts-service: the life of an account row, from its creation for a   *)
(* user of users-service to its closing, and what money requests read of   *)
(* it (handlers/accounts.rs, services/account_service.rs,                  *)
(* repositories/account_repository.rs, utils/account_number.rs).           *)
(*                                                                         *)
(* Every operation is two or more SQL statements outside any transaction:  *)
(* create counts, draws a number and inserts; a status change reads the    *)
(* row and then updates it without looking at the status again; a deposit  *)
(* or transfer reads the accounts and then inserts its intent, which a     *)
(* retry worker may post much later.  One statement or call is one step.   *)
(*                                                                         *)
(* One environment: every statement filters on it.  A transaction row is   *)
(* only `intent` here: how it is posted is TransactionPosting's subject.   *)
(* `earlier` and `since` are bookkeeping of the model.                     *)
(*                                                                         *)
(* A definition commented "Mutant" is used by no specification: it is the  *)
(* next definition with a plausible bug, and shows that a property notices.*)
(***************************************************************************)
EXTENDS Naturals

CONSTANTS Requests,    \* HTTP requests: each is served once
          Operations,  \* what a request may ask for, see OperationsAssumption
          Ids,         \* account ids
          Users,       \* users of users-service
          Numbers,     \* account numbers the generator can draw
          Opened,      \* the rows the table starts with: a function from some ids
          MaxRetries,  \* MAX_RETRIES of generate_account_number
          None

Types    == {"checking", "saving"}
Statuses == {"active", "suspended", "closed"}

Account == [user : Users, type : Types, number : Numbers, status : Statuses]

Create == [op : {"create"}, user : Users, type : Types]
Change == [op : {"change"}, id : Ids, status : Statuses]
Close  == [op : {"change"}, id : Ids, status : {"closed"}]   \* DELETE
Money  == [op : {"money"}, from : Ids, to : Ids]   \* a deposit or withdrawal has from = to

ASSUME OperationsAssumption == Operations \subseteq Create \cup Change \cup Close \cup Money
ASSUME OpenedAssumption ==
    /\ DOMAIN Opened \subseteq Ids
    /\ \A i \in DOMAIN Opened : Opened[i] \in Account
    /\ \A i, j \in DOMAIN Opened : Opened[i].number = Opened[j].number => i = j
ASSUME RetriesAssumption    == MaxRetries \in Nat \ {0}
ASSUME NoneAssumption       == None \notin Numbers \cup Operations \cup Account

VARIABLES
    account,    \* the row of each id, or None
    intent,     \* the transaction row of each money request
    pc,         \* where each request is; a status code once answered
    req,        \* what each request asks for
    tries,      \* draws of an account number a create has left
    number,     \* the account number a create has drawn
    earlier,    \* history: requests answered before a create counted
    since       \* history: <<id, status>> pairs that held since a request arrived

vars == <<account, intent, pc, req, tries, number, earlier, since>>

-----------------------------------------------------------------------------
Answers == {"200", "201", "202", "400", "401", "404", "500"}
Steps   == {"resolve", "count", "number", "insert", "find", "update",
            "check", "checkTo", "intent", "post"}

Existing == {i \in Ids : account[i] # None}
Pairs    == {<<i, account[i].status>> : i \in Existing}

Go(r, step) == pc' = [pc EXCEPT ![r] = step]

SetAccount(i, row) ==
    /\ account' = [account EXCEPT ![i] = row]
    /\ since' = [r \in Requests |-> IF pc[r] \in Steps THEN since[r] \cup {<<i, row.status>>}
                                                      ELSE since[r]]

SameAccounts == UNCHANGED <<account, since>>

Init ==
    /\ account = [i \in Ids |-> IF i \in DOMAIN Opened THEN Opened[i] ELSE None]
    /\ intent = [r \in Requests |-> "absent"]
    /\ pc = [r \in Requests |-> "idle"]
    /\ req = [r \in Requests |-> None]
    /\ tries = [r \in Requests |-> 0]
    /\ number = [r \in Requests |-> None]
    /\ earlier = [r \in Requests |-> {}]
    /\ since = [r \in Requests |-> {}]

\* The headers and the body passed validation.
Receive(r, o) ==
    /\ pc[r] = "idle"
    /\ req' = [req EXCEPT ![r] = o]
    /\ Go(r, CASE o.op = "create" -> "resolve"
               [] o.op = "change" -> "find"
               [] o.op = "money"  -> "check")
    /\ since' = [since EXCEPT ![r] = Pairs]
    /\ UNCHANGED <<account, intent, tries, number, earlier>>

-----------------------------------------------------------------------------
(* create_account                                                          *)

\* users-service names the user of the API key and e-mail, or refuses.
ResolveUser(r) ==
    /\ pc[r] = "resolve"
    /\ \E step \in {"count", "400", "401", "500"} : Go(r, step)
    /\ SameAccounts /\ UNCHANGED <<intent, req, tries, number, earlier>>

\* Mutant: only accounts that can be used count.
HasAccountOpen(u, t) ==
    \E i \in Existing : account[i].user = u /\ account[i].type = t /\ account[i].status # "closed"

HasAccount(u, t) == \E i \in Existing : account[i].user = u /\ account[i].type = t

CountByUserAndType(r) ==
    /\ pc[r] = "count"
    /\ Go(r, IF HasAccount(req[r].user, req[r].type) THEN "400" ELSE "number")
    /\ tries' = [tries EXCEPT ![r] = MaxRetries]
    /\ earlier' = [earlier EXCEPT ![r] = {s \in Requests : pc[s] \in Answers}]
    /\ SameAccounts /\ UNCHANGED <<intent, req, number>>

NumberExists(n) == \E i \in Existing : account[i].number = n

\* One draw and the SELECT EXISTS that follows it.
GenerateAccountNumber(r, n) ==
    /\ pc[r] = "number"
    /\ Go(r, CASE ~NumberExists(n) -> "insert"
               [] NumberExists(n) /\ tries[r] > 1 -> "number"
               [] OTHER -> "500")
    /\ number' = [number EXCEPT ![r] = n]
    /\ tries' = [tries EXCEPT ![r] = @ - 1]
    /\ SameAccounts /\ UNCHANGED <<intent, req, earlier>>

NewAccount(r) == [user |-> req[r].user, type |-> req[r].type,
                  number |-> number[r], status |-> "active"]

\* account_number is unique; nothing constrains user and type.
Insert(r, i) ==
    /\ pc[r] = "insert" /\ account[i] = None
    /\ IF NumberExists(number[r])
       THEN Go(r, "500") /\ SameAccounts
       ELSE Go(r, "201") /\ SetAccount(i, NewAccount(r))
    /\ UNCHANGED <<intent, req, tries, number, earlier>>

-----------------------------------------------------------------------------
(* update_account_status, close_account                                    *)

\* Mutant: a closed account may not be suspended, but activated.
MayNotSuspend(row, status) == row.status = "closed" /\ status = "suspended"

MayNotChange(row, status) == row.status = "closed" /\ status # "closed"

FindById(r) ==
    /\ pc[r] = "find"
    /\ LET row == account[req[r].id]
       IN  Go(r, IF row = None THEN "404"
                 ELSE IF MayNotChange(row, req[r].status) THEN "400" ELSE "update")
    /\ SameAccounts /\ UNCHANGED <<intent, req, tries, number, earlier>>

\* The UPDATE names the id only; rows are never deleted.
UpdateStatus(r) ==
    /\ pc[r] = "update"
    /\ SetAccount(req[r].id, [account[req[r].id] EXCEPT !.status = req[r].status])
    /\ Go(r, "200")
    /\ UNCHANGED <<intent, req, tries, number, earlier>>

-----------------------------------------------------------------------------
(* deposit, withdraw, transfer, as far as accounts are concerned           *)

\* Mutant: a suspended account may move money.
UsableUnlessClosed(i) == account[i].status # "closed"

Usable(i) == account[i].status = "active"

Party(r) == IF pc[r] = "check" THEN req[r].from ELSE req[r].to

AfterCheck(r) == IF pc[r] = "check" /\ req[r].from # req[r].to THEN "checkTo" ELSE "intent"

CheckActive(r) ==
    /\ pc[r] \in {"check", "checkTo"}
    /\ Go(r, IF account[Party(r)] = None THEN "404"
             ELSE IF Usable(Party(r)) THEN AfterCheck(r) ELSE "400")
    /\ SameAccounts /\ UNCHANGED <<intent, req, tries, number, earlier>>

CreateIntent(r) ==
    /\ pc[r] = "intent"
    /\ intent' = [intent EXCEPT ![r] = "pending"]
    /\ Go(r, "post")
    /\ SameAccounts /\ UNCHANGED <<req, tries, number, earlier>>

\* The handler's own ledger call: posted, or left to the retry worker.
PostNow(r) ==
    /\ pc[r] = "post"
    /\ \/ intent' = [intent EXCEPT ![r] = "posted"] /\ Go(r, "200")
       \/ UNCHANGED intent /\ Go(r, "202")
    /\ SameAccounts /\ UNCHANGED <<req, tries, number, earlier>>

\* The retry worker does not look at the accounts again.
PostLater(r) ==
    /\ pc[r] \in Answers /\ intent[r] = "pending"
    /\ intent' = [intent EXCEPT ![r] = "posted"]
    /\ SameAccounts /\ UNCHANGED <<pc, req, tries, number, earlier>>

-----------------------------------------------------------------------------
\* Any statement may fail, and the client may leave at any await.
StatementFails(r) ==
    /\ pc[r] \in Steps
    /\ Go(r, "500")
    /\ SameAccounts /\ UNCHANGED <<intent, req, tries, number, earlier>>

CreateAccount(r) ==
    \/ ResolveUser(r) \/ CountByUserAndType(r)
    \/ \E n \in Numbers : GenerateAccountNumber(r, n)
    \/ \E i \in Ids : Insert(r, i)

UpdateAccountStatus(r) == FindById(r) \/ UpdateStatus(r)

MoveMoney(r) == CheckActive(r) \/ CreateIntent(r) \/ PostNow(r)

Step(r) == CreateAccount(r) \/ UpdateAccountStatus(r) \/ MoveMoney(r)

Next == \E r \in Requests :
            \/ \E o \in Operations : Receive(r, o)
            \/ Step(r) \/ PostLater(r) \/ StatementFails(r)

\* Each request has a task of its own, which tokio polls while it can run.
Fairness == \A r \in Requests : WF_vars(Step(r))

Spec     == Init /\ [][Next]_vars
FairSpec == Spec /\ Fairness

-----------------------------------------------------------------------------
(* Properties.                                                             *)

TypeOK ==
    /\ account \in [Ids -> Account \cup {None}]
    /\ intent \in [Requests -> {"absent", "pending", "posted"}]
    /\ pc \in [Requests -> Steps \cup Answers \cup {"idle"}]
    /\ req \in [Requests -> Operations \cup {None}]
    /\ tries \in [Requests -> 0 .. MaxRetries]
    /\ number \in [Requests -> Numbers \cup {None}]
    /\ earlier \in [Requests -> SUBSET Requests]
    /\ since \in [Requests -> SUBSET (Ids \X Statuses)]

\* Two creates may both find a number free; no two accounts ever share one
\* (generate_account_number against the unique index).
NumbersUnique ==
    \A i, j \in Existing : account[i].number = account[j].number => i = j

\* A create that counted after another of the same user and type was
\* answered does not add a second account, whatever happened to the first
\* since (count_by_user_and_type): only overlapping creates can.
SecondAccountTakesOverlap ==
    \A r, s \in Requests :
        /\ pc[r] = "201" /\ pc[s] = "201" /\ r # s
        /\ req[r].user = req[s].user /\ req[r].type = req[s].type
        => s \notin earlier[r] /\ r \notin earlier[s]

\* A closed account is reopened only by a request that arrived before it was
\* closed for good (update_account_status reads the status, then updates).
ReopenedOnlyByOverlap ==
    [][\A i \in Existing :
          account[i].status = "closed" /\ account'[i].status # "closed"
          => \E r \in Requests : /\ pc[r] = "update" /\ req[r].id = i
                                 /\ \E s \in {"active", "suspended"} : <<i, s>> \in since[r]]_vars

\* Money moves only between accounts that were active while the request was
\* served, though perhaps not both at a time, nor when it is posted.
MoneyNeedsActiveAccounts ==
    \A r \in Requests :
        intent[r] # "absent"
        => <<req[r].from, "active">> \in since[r] /\ <<req[r].to, "active">> \in since[r]

\* Every request is answered: an account number is drawn MaxRetries times at
\* most (generate_account_number), no statement waits for another request.
EveryRequestAnswered ==
    \A r \in Requests : pc[r] # "idle" ~> pc[r] \in Answers

-----------------------------------------------------------------------------
(* Claims of the repository that the code does not keep.                   *)

\* account_repository.rs:334: "max 1 checking, 1 saving per user".
OneAccountOfEachType ==
    \A i, j \in Existing :
        account[i].user = account[j].user /\ account[i].type = account[j].type => i = j

\* account_service.rs:178: "Cannot reactivate a closed account".
ClosedStaysClosed ==
    [][\A i \in Existing : account[i].status = "closed" => account'[i].status = "closed"]_vars
=============================================================================
