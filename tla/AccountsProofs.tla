--------------------------- MODULE AccountsProofs ---------------------------
(***************************************************************************)
(* Theorems about Accounts: numbers are unique, and a second account of a  *)
(* type, a reopened account and a posting against an account that is not   *)
(* active take requests that overlap.                                      *)
(*                                                                         *)
(* The invariant behind them says what each request knows at each of its   *)
(* statements: what it asks for (Asks), what its next statement relies on  *)
(* (Ready), which statuses it can have read (Witnessed), and, for a        *)
(* create, what the requests answered before its count cannot have done    *)
(* (Alone).                                                                *)
(***************************************************************************)
EXTENDS Accounts, TLAPS

Creating == {"resolve", "count", "number", "insert", "201"}
Changing == {"find", "update"}
Moving   == {"check", "checkTo", "intent", "post"}

Asks(r) ==
    /\ pc[r] # "idle" => req[r] \in Operations
    /\ pc[r] \in Creating => req[r] \in Create
    /\ pc[r] \in Changing => req[r] \in Change
    /\ pc[r] \in Moving \/ intent[r] # "absent" => req[r] \in Money
    /\ pc[r] = "idle" => intent[r] = "absent"

Ready(r) ==
    /\ pc[r] = "number" => tries[r] # 0
    /\ pc[r] = "insert" => number[r] \in Numbers
    /\ pc[r] = "update" => account[req[r].id] # None

\* The requests answered before r counted did not make an account like r's.
Alone(r) ==
    pc[r] \in {"number", "insert", "201"} =>
        \A s \in earlier[r] :
            /\ pc[s] \in Answers
            /\ ~(/\ pc[s] = "201"
                 /\ req[s].user = req[r].user /\ req[s].type = req[r].type)

Made(r) == pc[r] = "201" => HasAccount(req[r].user, req[r].type)

Witnessed(r) ==
    /\ pc[r] \in Steps => Pairs \subseteq since[r]
    /\ pc[r] \in {"checkTo", "intent", "post"} \/ intent[r] # "absent"
       => <<req[r].from, "active">> \in since[r]
    /\ pc[r] \in {"intent", "post"} \/ intent[r] # "absent"
       => <<req[r].to, "active">> \in since[r]
    /\ pc[r] = "update" /\ req[r].status # "closed"
       => \E s \in {"active", "suspended"} : <<req[r].id, s>> \in since[r]

AccountsInv ==
    /\ TypeOK
    /\ \A r \in Requests : Asks(r) /\ Ready(r)
    /\ NumbersUnique
    /\ \A r \in Requests : Made(r) /\ Alone(r)
    /\ \A r \in Requests : Witnessed(r)

-----------------------------------------------------------------------------
(* Types, and what each request asks for.                                  *)

KnownInv == TypeOK /\ \A r \in Requests : Asks(r) /\ Ready(r)

\* A row that exists has an account's fields.
LEMMA RowType ==
    ASSUME TypeOK, NEW i \in Ids, account[i] # None
    PROVE  account[i] \in Account
BY DEF TypeOK

\* What the step of another request leaves of r's knowledge: accounts are
\* only added, or change their status.
LEMMA OthersKeep ==
    ASSUME KnownInv, NEW r \in Requests,
           pc'[r] = pc[r], req'[r] = req[r], intent'[r] = intent[r],
           tries'[r] = tries[r], number'[r] = number[r],
           \A i \in Ids : account[i] # None => account'[i] # None
    PROVE  Asks(r)' /\ Ready(r)'
<1>1. Asks(r) /\ Ready(r)
  BY DEF KnownInv
<1>2. pc[r] = "update" => req[r].id \in Ids
  BY <1>1 DEF Asks, Changing, Change
<1> QED
  BY <1>1, <1>2 DEF Asks, Ready

\* An operation is of the sort its first statement serves.
LEMMA FirstStep ==
    ASSUME NEW o \in Operations
    PROVE  /\ o.op \in {"create", "change", "money"}
           /\ o.op = "create" => o \in Create
           /\ o.op = "change" => o \in Change
           /\ o.op = "money" => o \in Money
BY OperationsAssumption DEF Create, Change, Close, Money, Statuses

LEMMA KnownStep == KnownInv /\ [Next]_vars => KnownInv'
<1> SUFFICES ASSUME KnownInv, [Next]_vars PROVE KnownInv'
  OBVIOUS
<1>0. TypeOK /\ \A r \in Requests : Asks(r) /\ Ready(r)
  BY DEF KnownInv
<1>1. ASSUME NEW r \in Requests, NEW o \in Operations, Receive(r, o) PROVE KnownInv'
  <2>1. /\ pc[r] = "idle" /\ req' = [req EXCEPT ![r] = o]
        /\ since' = [since EXCEPT ![r] = Pairs]
        /\ UNCHANGED <<account, intent, tries, number, earlier>>
    BY <1>1 DEF Receive
  <2>2. \/ pc' = [pc EXCEPT ![r] = "resolve"] /\ o \in Create
        \/ pc' = [pc EXCEPT ![r] = "find"] /\ o \in Change
        \/ pc' = [pc EXCEPT ![r] = "check"] /\ o \in Money
    <3>1. CASE o.op = "create"
      BY <1>1, <3>1, FirstStep DEF Receive, Go
    <3>2. CASE o.op = "change"
      BY <1>1, <3>2, FirstStep DEF Receive, Go
    <3>3. CASE o.op = "money"
      BY <1>1, <3>3, FirstStep DEF Receive, Go
    <3> QED
      BY <3>1, <3>2, <3>3, FirstStep
  <2>3. Pairs \subseteq Ids \X Statuses
    BY <1>0, RowType DEF Pairs, Existing, Account
  <2>4. TypeOK'
    BY <1>0, <2>1, <2>2, <2>3 DEF TypeOK, Steps
  <2>5. Asks(r)' /\ Ready(r)'
    BY <1>0, <2>1, <2>2 DEF TypeOK, Asks, Ready, Creating, Changing, Moving
  <2>6. \A q \in Requests \ {r} : Asks(q)' /\ Ready(q)'
    BY <1>0, <2>1, <2>2, OthersKeep DEF TypeOK
  <2> QED
    BY <2>4, <2>5, <2>6 DEF KnownInv
<1>2. ASSUME NEW r \in Requests, ResolveUser(r) PROVE KnownInv'
  <2>1. /\ pc[r] = "resolve"
        /\ \E step \in {"count", "400", "401", "500"} : pc' = [pc EXCEPT ![r] = step]
        /\ UNCHANGED <<account, since, intent, req, tries, number, earlier>>
    BY <1>2 DEF ResolveUser, Go, SameAccounts
  <2>2. TypeOK'
    BY <1>0, <2>1 DEF TypeOK, Steps, Answers
  <2>3. Asks(r)' /\ Ready(r)'
    BY <1>0, <2>1 DEF TypeOK, Asks, Ready, Creating, Changing, Moving
  <2>4. \A q \in Requests \ {r} : Asks(q)' /\ Ready(q)'
    BY <1>0, <2>1, OthersKeep DEF TypeOK
  <2> QED
    BY <2>2, <2>3, <2>4 DEF KnownInv
<1>3. ASSUME NEW r \in Requests, CountByUserAndType(r) PROVE KnownInv'
  <2>1. /\ pc[r] = "count" /\ tries' = [tries EXCEPT ![r] = MaxRetries]
        /\ \/ pc' = [pc EXCEPT ![r] = "400"]
           \/ pc' = [pc EXCEPT ![r] = "number"]
        /\ earlier' = [earlier EXCEPT ![r] = {s \in Requests : pc[s] \in Answers}]
        /\ UNCHANGED <<account, since, intent, req, number>>
    BY <1>3 DEF CountByUserAndType, Go, SameAccounts
  <2>2. TypeOK'
    BY <1>0, <2>1, RetriesAssumption DEF TypeOK, Steps, Answers
  <2>3. Asks(r)' /\ Ready(r)'
    BY <1>0, <2>1, RetriesAssumption DEF TypeOK, Asks, Ready, Creating, Changing, Moving
  <2>4. \A q \in Requests \ {r} : Asks(q)' /\ Ready(q)'
    BY <1>0, <2>1, OthersKeep DEF TypeOK
  <2> QED
    BY <2>2, <2>3, <2>4 DEF KnownInv
<1>4. ASSUME NEW r \in Requests, NEW n \in Numbers, GenerateAccountNumber(r, n) PROVE KnownInv'
  <2>1. /\ pc[r] = "number"
        /\ \/ pc' = [pc EXCEPT ![r] = "insert"]
           \/ tries[r] > 1 /\ pc' = [pc EXCEPT ![r] = "number"]
           \/ pc' = [pc EXCEPT ![r] = "500"]
        /\ number' = [number EXCEPT ![r] = n] /\ tries' = [tries EXCEPT ![r] = @ - 1]
        /\ UNCHANGED <<account, since, intent, req, earlier>>
    BY <1>4 DEF GenerateAccountNumber, Go, SameAccounts
  <2>2. tries[r] \in 1 .. MaxRetries
    BY <1>0, <2>1 DEF TypeOK, Ready
  <2>3. TypeOK'
    BY <1>0, <2>1, <2>2, RetriesAssumption DEF TypeOK, Steps, Answers
  <2>4. Asks(r)' /\ Ready(r)'
    BY <1>0, <2>1, <2>2, RetriesAssumption DEF TypeOK, Asks, Ready, Creating, Changing, Moving
  <2>5. \A q \in Requests \ {r} : Asks(q)' /\ Ready(q)'
    BY <1>0, <2>1, OthersKeep DEF TypeOK
  <2> QED
    BY <2>3, <2>4, <2>5 DEF KnownInv
<1> DEFINE Noted(i, row) ==
             since' = [q \in Requests |-> IF pc[q] \in Steps THEN since[q] \cup {<<i, row.status>>}
                                                             ELSE since[q]]
<1>5. ASSUME NEW r \in Requests, NEW i \in Ids, Insert(r, i) PROVE KnownInv'
  <2>1. pc[r] = "insert" /\ account[i] = None /\ UNCHANGED <<intent, req, tries, number, earlier>>
    BY <1>5 DEF Insert
  <2>2. req[r] \in Create /\ number[r] \in Numbers
    BY <1>0, <2>1 DEF Asks, Ready, Creating
  <2>3. NewAccount(r) \in Account /\ NewAccount(r).status = "active"
    BY <2>2 DEF NewAccount, Account, Create, Statuses
  <2>4. \/ pc' = [pc EXCEPT ![r] = "500"] /\ UNCHANGED <<account, since>>
        \/ /\ pc' = [pc EXCEPT ![r] = "201"]
           /\ account' = [account EXCEPT ![i] = NewAccount(r)]
           /\ Noted(i, NewAccount(r))
    BY <1>5 DEF Insert, Go, SameAccounts, SetAccount
  <2>5. TypeOK'
    BY <1>0, <2>1, <2>3, <2>4 DEF TypeOK, Steps, Answers, Statuses
  <2>6. Asks(r)' /\ Ready(r)'
    BY <1>0, <2>1, <2>2, <2>4 DEF TypeOK, Asks, Ready, Creating, Changing, Moving
  <2>7. \A q \in Ids : account[q] # None => account'[q] # None
    BY <1>0, <2>1, <2>4 DEF TypeOK
  <2>8. \A q \in Requests \ {r} : Asks(q)' /\ Ready(q)'
    BY <1>0, <2>1, <2>4, <2>7, OthersKeep DEF TypeOK
  <2> QED
    BY <2>5, <2>6, <2>8 DEF KnownInv
<1>6. ASSUME NEW r \in Requests, FindById(r) PROVE KnownInv'
  <2>1. /\ pc[r] = "find" /\ req[r] \in Change
        /\ \/ pc' = [pc EXCEPT ![r] = "404"] \/ pc' = [pc EXCEPT ![r] = "400"]
           \/ pc' = [pc EXCEPT ![r] = "update"] /\ account[req[r].id] # None
        /\ UNCHANGED <<account, since, intent, req, tries, number, earlier>>
    BY <1>0, <1>6 DEF FindById, Go, SameAccounts, Asks, Changing
  <2>2. TypeOK'
    BY <1>0, <2>1 DEF TypeOK, Steps, Answers
  <2>3. Asks(r)' /\ Ready(r)'
    BY <1>0, <2>1 DEF TypeOK, Asks, Ready, Creating, Changing, Moving
  <2>4. \A q \in Requests \ {r} : Asks(q)' /\ Ready(q)'
    BY <1>0, <2>1, OthersKeep DEF TypeOK
  <2> QED
    BY <2>2, <2>3, <2>4 DEF KnownInv
<1>7. ASSUME NEW r \in Requests, UpdateStatus(r) PROVE KnownInv'
  <2>1. PICK i \in Ids : i = req[r].id /\ req[r].status \in Statuses /\ account[i] # None
    BY <1>0, <1>7 DEF UpdateStatus, Asks, Ready, Changing, Change
  <2>2. PICK row \in Account : row = [account[i] EXCEPT !.status = req[r].status]
                               /\ row.status \in Statuses
    BY <1>0, <2>1, RowType DEF Account
  <2>3. /\ pc[r] = "update" /\ pc' = [pc EXCEPT ![r] = "200"]
        /\ account' = [account EXCEPT ![i] = row] /\ Noted(i, row)
        /\ UNCHANGED <<intent, req, tries, number, earlier>>
    BY <1>7, <2>1, <2>2 DEF UpdateStatus, Go, SetAccount
  <2>4. TypeOK'
    BY <1>0, <2>2, <2>3 DEF TypeOK, Answers
  <2>5. Asks(r)' /\ Ready(r)'
    BY <1>0, <2>3 DEF TypeOK, Asks, Ready, Creating, Changing, Moving
  <2>6. \A q \in Ids : account[q] # None => account'[q] # None
    BY <1>0, <2>2, <2>3, NoneAssumption DEF TypeOK
  <2>7. \A q \in Requests \ {r} : Asks(q)' /\ Ready(q)'
    BY <1>0, <2>3, <2>6, OthersKeep DEF TypeOK
  <2> QED
    BY <2>4, <2>5, <2>7 DEF KnownInv
<1>8. ASSUME NEW r \in Requests, CheckActive(r) \/ StatementFails(r) PROVE KnownInv'
  <2>1. /\ pc[r] \in Steps /\ (pc[r] \in Moving \/ StatementFails(r))
        /\ \E step \in {"404", "400", "500", "checkTo", "intent"} :
              /\ step \in {"checkTo", "intent"} => pc[r] \in Moving
              /\ pc' = [pc EXCEPT ![r] = step]
        /\ UNCHANGED <<account, since, intent, req, tries, number, earlier>>
    BY <1>8 DEF CheckActive, StatementFails, AfterCheck, Go, SameAccounts, Steps, Moving
  <2>2. TypeOK'
    BY <1>0, <2>1 DEF TypeOK, Steps, Answers
  <2>3. Asks(r)' /\ Ready(r)'
    BY <1>0, <2>1 DEF TypeOK, Asks, Ready, Creating, Changing, Moving, Steps
  <2>4. \A q \in Requests \ {r} : Asks(q)' /\ Ready(q)'
    BY <1>0, <2>1, OthersKeep DEF TypeOK
  <2> QED
    BY <2>2, <2>3, <2>4 DEF KnownInv
<1>9. ASSUME NEW r \in Requests, CreateIntent(r) \/ PostNow(r) \/ PostLater(r) PROVE KnownInv'
  <2>1. /\ pc[r] \in Moving \/ intent[r] # "absent"
        /\ pc[r] # "idle"
        /\ \/ pc' = pc
           \/ \E step \in {"post", "200", "202"} : pc' = [pc EXCEPT ![r] = step]
        /\ \/ intent' = intent
           \/ \E to \in {"pending", "posted"} : intent' = [intent EXCEPT ![r] = to]
        /\ UNCHANGED <<account, since, req, tries, number, earlier>>
    BY <1>9 DEF CreateIntent, PostNow, PostLater, Go, SameAccounts, Moving, Answers
  <2>2. TypeOK'
    BY <1>0, <2>1 DEF TypeOK, Steps, Answers
  <2>3. Asks(r)' /\ Ready(r)'
    BY <1>0, <2>1 DEF TypeOK, Asks, Ready, Creating, Changing, Moving
  <2>4. \A q \in Requests \ {r} : Asks(q)' /\ Ready(q)'
    BY <1>0, <2>1, OthersKeep DEF TypeOK
  <2> QED
    BY <2>2, <2>3, <2>4 DEF KnownInv
<1>10. CASE UNCHANGED vars
  <2>1. TypeOK'
    BY <1>0, <1>10 DEF TypeOK, vars
  <2>2. \A q \in Requests : Asks(q)' /\ Ready(q)'
    BY <1>0, <1>10, OthersKeep DEF vars
  <2> QED
    BY <2>1, <2>2 DEF KnownInv
<1> QED
  BY <1>1, <1>2, <1>3, <1>4, <1>5, <1>6, <1>7, <1>8, <1>9, <1>10
     DEF Next, Step, CreateAccount, UpdateAccountStatus, MoveMoney

\* Every variable has its type.
THEOREM AccountsTypeCorrect == Spec => []TypeOK
<1>1. Init => KnownInv
  BY OpenedAssumption, RetriesAssumption
     DEF Init, KnownInv, TypeOK, Asks, Ready, Creating, Changing, Moving
<1>2. KnownInv => TypeOK
  BY DEF KnownInv
<1> QED
  BY <1>1, <1>2, KnownStep, PTL DEF Spec

-----------------------------------------------------------------------------
(* The safety properties.                                                  *)

\* A step of another request that leaves the rows' numbers, users and types.
LEMMA OthersStay ==
    ASSUME AccountsInv, NEW r \in Requests,
           pc'[r] = pc[r], req'[r] = req[r], intent'[r] = intent[r], earlier'[r] = earlier[r],
           since[r] \subseteq since'[r],
           pc[r] \in Steps => Pairs' \subseteq since'[r],
           \A u, t : HasAccount(u, t) => HasAccount(u, t)',
           \A q \in Requests : pc[q] \in Answers => pc'[q] = pc[q] /\ req'[q] = req[q]
    PROVE  Made(r)' /\ Alone(r)' /\ Witnessed(r)'
<1>1. Made(r) /\ Alone(r) /\ Witnessed(r) /\ earlier[r] \subseteq Requests
  BY DEF AccountsInv, TypeOK
<1>2. Made(r)'
  BY <1>1 DEF Made
<1>3. Alone(r)'
  BY <1>1 DEF Alone
<1>4. Witnessed(r)'
  BY <1>1 DEF Witnessed
<1> QED
  BY <1>2, <1>3, <1>4

\* A step of one request that leaves the rows alone.
LEMMA PrivateStep ==
    ASSUME AccountsInv, KnownInv', NEW r \in Requests,
           account' = account,
           \A q \in Requests \ {r} : /\ pc'[q] = pc[q] /\ req'[q] = req[q] /\ since'[q] = since[q]
                                     /\ intent'[q] = intent[q] /\ earlier'[q] = earlier[q],
           pc[r] \in Answers => pc'[r] = pc[r] /\ req'[r] = req[r],
           Made(r)' /\ Alone(r)' /\ Witnessed(r)'
    PROVE  AccountsInv'
<1>1. Pairs' = Pairs /\ (NumbersUnique => NumbersUnique')
      /\ \A u, t : HasAccount(u, t)' <=> HasAccount(u, t)
  BY DEF Pairs, Existing, NumbersUnique, HasAccount
<1>2. ASSUME NEW q \in Requests \ {r} PROVE Made(q)' /\ Alone(q)' /\ Witnessed(q)'
  <2>1. pc[q] \in Steps => Pairs \subseteq since[q]
    BY DEF AccountsInv, Witnessed
  <2> QED
    BY <1>1, <2>1, OthersStay
<1> QED
  BY <1>1, <1>2 DEF AccountsInv, KnownInv

\* A step that gives account i the row `row`.
LEMMA RowStep ==
    ASSUME AccountsInv, KnownInv', NEW r \in Requests, NEW i \in Ids, NEW row \in Account,
           account' = [account EXCEPT ![i] = row],
           since' = [q \in Requests |-> IF pc[q] \in Steps THEN since[q] \cup {<<i, row.status>>}
                                                           ELSE since[q]],
           account[i] # None => /\ row.user = account[i].user /\ row.type = account[i].type
                                /\ row.number = account[i].number,
           account[i] = None => ~NumberExists(row.number),
           pc[r] \in Steps, NEW answer \in Answers, pc' = [pc EXCEPT ![r] = answer],
           UNCHANGED <<intent, req, earlier>>,
           Made(r)' /\ Alone(r)'
    PROVE  AccountsInv'
<1>0. /\ TypeOK /\ Steps \cap Answers = {} /\ row # None
      /\ Witnessed(r) /\ Asks(r) /\ pc'[r] = answer
  BY NoneAssumption DEF AccountsInv, Steps, Answers, TypeOK
<1>1. Existing' = Existing \cup {i} /\ account'[i] = row
      /\ \A j \in Existing \ {i} : account'[j] = account[j]
  BY <1>0 DEF TypeOK, Existing
<1>2. NumbersUnique'
  BY <1>0, <1>1 DEF AccountsInv, NumbersUnique, NumberExists, Existing
<1>3. \A u, t : HasAccount(u, t) => HasAccount(u, t)'
  BY <1>1 DEF HasAccount, Existing
<1>4. Pairs' \subseteq Pairs \cup {<<i, row.status>>}
  BY <1>1 DEF Pairs
<1>5. ASSUME NEW q \in Requests \ {r} PROVE Made(q)' /\ Alone(q)' /\ Witnessed(q)'
  <2>1. pc[q] \in Steps => Pairs \subseteq since[q]
    BY DEF AccountsInv, Witnessed
  <2>2. pc'[q] = pc[q] /\ since[q] \subseteq since'[q]
        /\ (pc[q] \in Steps => Pairs' \subseteq since'[q])
    BY <1>0, <1>4, <2>1 DEF TypeOK
  <2>3. \A p \in Requests : pc[p] \in Answers => pc'[p] = pc[p] /\ req'[p] = req[p]
    BY <1>0 DEF TypeOK
  <2> QED
    BY <1>3, <2>2, <2>3, OthersStay
<1>6. Witnessed(r)'
  BY <1>0 DEF Witnessed, Answers
<1> QED
  BY <1>2, <1>5, <1>6 DEF AccountsInv, KnownInv

LEMMA SafetyStep == AccountsInv /\ [Next]_vars => AccountsInv'
<1> SUFFICES ASSUME AccountsInv, [Next]_vars PROVE AccountsInv'
  OBVIOUS
<1>0. KnownInv' /\ TypeOK /\ Steps \cap Answers = {}
  BY KnownStep DEF AccountsInv, KnownInv, Steps, Answers
<1>1. \A r \in Requests : Made(r) /\ Alone(r) /\ Witnessed(r) /\ Asks(r) /\ Ready(r)
  BY DEF AccountsInv
<1>2. \A r \in Requests : (Asks(r) /\ Ready(r))'
  BY <1>0 DEF KnownInv
<1> DEFINE Private(r) ==
             \A q \in Requests \ {r} : /\ pc'[q] = pc[q] /\ req'[q] = req[q] /\ since'[q] = since[q]
                                       /\ intent'[q] = intent[q] /\ earlier'[q] = earlier[q]
<1>3. ASSUME NEW r \in Requests, NEW o \in Operations, Receive(r, o) PROVE AccountsInv'
  <2>1. /\ pc[r] = "idle" /\ req' = [req EXCEPT ![r] = o] /\ account' = account
        /\ since' = [since EXCEPT ![r] = Pairs] /\ UNCHANGED <<intent, earlier>>
    BY <1>3 DEF Receive
  <2>2. \E step \in {"resolve", "find", "check"} : pc' = [pc EXCEPT ![r] = step]
    <3>1. CASE o.op = "create"
      BY <1>3, <3>1 DEF Receive, Go
    <3>2. CASE o.op = "change"
      BY <1>3, <3>2 DEF Receive, Go
    <3>3. CASE o.op = "money"
      BY <1>3, <3>3 DEF Receive, Go
    <3> QED
      BY <3>1, <3>2, <3>3, FirstStep
  <2>3. Private(r) /\ pc[r] \notin Answers
    BY <1>0, <2>1, <2>2 DEF TypeOK, Answers
  <2>4. Made(r)' /\ Alone(r)'
    BY <1>0, <2>2 DEF TypeOK, Made, Alone
  <2>5. Pairs' = Pairs
    BY <2>1 DEF Pairs, Existing
  <2>6. Witnessed(r)'
    <3>1. /\ since'[r] = Pairs /\ intent'[r] = "absent"
          /\ pc'[r] \in {"resolve", "find", "check"}
      BY <1>0, <1>1, <2>1, <2>2 DEF TypeOK, Asks
    <3> QED
      BY <2>5, <3>1 DEF Witnessed
  <2> QED
    BY <1>0, <2>1, <2>3, <2>4, <2>6, PrivateStep
<1>4. ASSUME NEW r \in Requests, NEW step \in Steps \cup Answers,
             pc' = [pc EXCEPT ![r] = step], pc[r] \in Steps,
             step \in {"400", "401", "404", "500"} \/ <<pc[r], step>> = <<"resolve", "count">>,
             UNCHANGED <<account, since, intent, req, earlier>>
      PROVE  AccountsInv'
  <2>1. Private(r) /\ pc[r] \notin Answers /\ pc'[r] = step
    BY <1>0, <1>4 DEF TypeOK
  <2>2. Made(r)' /\ Alone(r)'
    BY <1>4, <2>1 DEF Made, Alone
  <2>3. Pairs' = Pairs
    BY <1>4 DEF Pairs, Existing
  <2>4. Witnessed(r)'
    BY <1>1, <1>4, <2>1, <2>3 DEF Witnessed
  <2> QED
    BY <1>0, <1>4, <2>1, <2>2, <2>4, PrivateStep
<1>5. ASSUME NEW r \in Requests, ResolveUser(r) \/ StatementFails(r) PROVE AccountsInv'
  <2>1. /\ pc[r] \in Steps /\ UNCHANGED <<account, since, intent, req, earlier>>
        /\ \E step \in {"count", "400", "401", "500"} :
              /\ pc' = [pc EXCEPT ![r] = step]
              /\ step = "count" => pc[r] = "resolve"
    BY <1>5 DEF ResolveUser, StatementFails, Go, SameAccounts, Steps
  <2> QED
    BY <1>4, <2>1 DEF Steps, Answers
<1>6. ASSUME NEW r \in Requests, CountByUserAndType(r) PROVE AccountsInv'
  <2>1. /\ pc[r] = "count" /\ UNCHANGED <<account, since, intent, req>>
        /\ earlier' = [earlier EXCEPT ![r] = {s \in Requests : pc[s] \in Answers}]
        /\ \/ pc' = [pc EXCEPT ![r] = "400"]
           \/ /\ pc' = [pc EXCEPT ![r] = "number"]
              /\ ~HasAccount(req[r].user, req[r].type)
    BY <1>6 DEF CountByUserAndType, Go, SameAccounts
  <2>2. Private(r) /\ pc[r] \in Steps /\ pc[r] \notin Answers
    BY <1>0, <2>1 DEF TypeOK, Steps, Answers
  <2>3. Made(r)' /\ pc'[r] \in {"400", "number"}
    BY <1>0, <2>1 DEF TypeOK, Made
  <2>4. Alone(r)'
    <3> SUFFICES ASSUME pc'[r] = "number", NEW s \in Requests, pc[s] \in Answers
                 PROVE  /\ pc'[s] \in Answers
                        /\ ~(/\ pc'[s] = "201"
                             /\ req'[s].user = req'[r].user /\ req'[s].type = req'[r].type)
      BY <1>0, <2>1, <2>3 DEF TypeOK, Alone
    <3>1. pc'[s] = pc[s] /\ req' = req /\ ~HasAccount(req[r].user, req[r].type)
      BY <1>0, <2>1, <2>2 DEF TypeOK
    <3> QED
      BY <1>1, <3>1 DEF Made
  <2>5. Pairs' = Pairs
    BY <2>1 DEF Pairs, Existing
  <2>6. Witnessed(r)'
    BY <1>1, <2>1, <2>2, <2>3, <2>5 DEF Witnessed
  <2> QED
    BY <1>0, <2>1, <2>2, <2>3, <2>4, <2>6, PrivateStep
<1>7. ASSUME NEW r \in Requests, NEW n \in Numbers, GenerateAccountNumber(r, n)
      PROVE  AccountsInv'
  <2>1. /\ pc[r] = "number" /\ UNCHANGED <<account, since, intent, req, earlier>>
        /\ \E step \in {"insert", "number", "500"} : pc' = [pc EXCEPT ![r] = step]
    BY <1>7 DEF GenerateAccountNumber, Go, SameAccounts
  <2>2. Private(r) /\ pc[r] \in Steps /\ pc[r] \notin Answers
        /\ pc'[r] \in {"insert", "number", "500"}
    BY <1>0, <2>1 DEF TypeOK, Steps, Answers
  <2>3. \A s \in earlier[r] : s # r /\ s \in Requests
    BY <1>0, <1>1, <2>1, <2>2 DEF Alone, TypeOK
  <2>4. Made(r)' /\ Alone(r)'
    BY <1>1, <2>1, <2>2, <2>3 DEF Made, Alone
  <2>5. Pairs' = Pairs
    BY <2>1 DEF Pairs, Existing
  <2>6. Witnessed(r)'
    BY <1>1, <2>1, <2>2, <2>5 DEF Witnessed
  <2> QED
    BY <1>0, <2>1, <2>2, <2>4, <2>6, PrivateStep
<1>8. ASSUME NEW r \in Requests, NEW i \in Ids, Insert(r, i) PROVE AccountsInv'
  <2>1. pc[r] = "insert" /\ pc[r] \in Steps /\ account[i] = None /\ UNCHANGED <<intent, req, earlier>>
    BY <1>8 DEF Insert, Steps
  <2>2. CASE NumberExists(number[r])
    BY <1>4, <1>8, <2>1, <2>2 DEF Insert, Go, SameAccounts, Answers
  <2>3. CASE ~NumberExists(number[r])
    <3>1. PICK row \in Account : row = NewAccount(r)
      BY <1>1, <2>1 DEF Asks, Ready, Creating, NewAccount, Account, Create, Statuses
    <3>2. /\ account' = [account EXCEPT ![i] = row] /\ pc' = [pc EXCEPT ![r] = "201"]
          /\ since' = [q \in Requests |-> IF pc[q] \in Steps THEN since[q] \cup {<<i, row.status>>}
                                                              ELSE since[q]]
      BY <1>8, <2>3, <3>1 DEF Insert, Go, SetAccount
    <3>3. /\ ~NumberExists(row.number) /\ row # None
          /\ row.user = req[r].user /\ row.type = req[r].type
      BY <2>3, <3>1, NoneAssumption DEF NewAccount
    <3>4. Made(r)'
      <4>1. account'[i] = row
        BY <1>0, <3>2 DEF TypeOK
      <4> QED
        BY <2>1, <3>3, <4>1 DEF Made, HasAccount, Existing
    <3>5. Alone(r)'
      <4>1. \A s \in earlier[r] : pc'[s] = pc[s] /\ s \in Requests
        BY <1>0, <1>1, <2>1, <3>2 DEF TypeOK, Alone
      <4> QED
        BY <1>1, <2>1, <4>1 DEF Alone
    <3> QED
      BY <1>0, <2>1, <3>2, <3>3, <3>4, <3>5, RowStep DEF Answers
  <2> QED
    BY <2>2, <2>3
<1>9. ASSUME NEW r \in Requests, FindById(r) PROVE AccountsInv'
  <2>1. /\ pc[r] = "find" /\ pc[r] \in Steps /\ UNCHANGED <<account, since, intent, req, earlier>>
        /\ \/ \E step \in {"400", "404"} : pc' = [pc EXCEPT ![r] = step]
           \/ /\ pc' = [pc EXCEPT ![r] = "update"] /\ account[req[r].id] # None
              /\ account[req[r].id].status = "closed" => req[r].status = "closed"
    BY <1>9 DEF FindById, MayNotChange, Go, SameAccounts, Steps
  <2>2. CASE \E step \in {"400", "404"} : pc' = [pc EXCEPT ![r] = step]
    BY <1>4, <2>1, <2>2 DEF Answers
  <2>3. CASE pc' = [pc EXCEPT ![r] = "update"] /\ account[req[r].id] # None
             /\ (account[req[r].id].status = "closed" => req[r].status = "closed")
    <3>1. Private(r) /\ pc[r] \notin Answers /\ pc'[r] = "update" /\ Made(r)' /\ Alone(r)'
      BY <1>0, <2>1, <2>3 DEF TypeOK, Answers, Made, Alone
    <3>2. req[r].id \in Ids /\ account[req[r].id].status \in Statuses
      BY <1>0, <1>1, <2>1, <2>3, RowType DEF Asks, Changing, Change, Account
    <3>3. <<req[r].id, account[req[r].id].status>> \in since[r] /\ Pairs' = Pairs
      BY <1>1, <2>1, <2>3, <3>2 DEF Witnessed, Pairs, Existing
    <3>4. Witnessed(r)'
      BY <1>1, <2>1, <2>3, <3>1, <3>2, <3>3 DEF Witnessed, Statuses
    <3> QED
      BY <1>0, <2>1, <3>1, <3>4, PrivateStep
  <2> QED
    BY <2>1, <2>2, <2>3
<1>10. ASSUME NEW r \in Requests, UpdateStatus(r) PROVE AccountsInv'
  <2>1. PICK i \in Ids : i = req[r].id /\ req[r].status \in Statuses /\ account[i] # None
    BY <1>1, <1>10 DEF UpdateStatus, Asks, Ready, Changing, Change
  <2>2. PICK row \in Account : /\ row = [account[i] EXCEPT !.status = req[r].status]
                               /\ row.user = account[i].user /\ row.type = account[i].type
                               /\ row.number = account[i].number
    <3>1. account[i] \in Account
      BY <1>0, <2>1, RowType
    <3>2. [account[i] EXCEPT !.status = req[r].status] \in Account
      BY ONLY <2>1, <3>1 DEF Account
    <3>3. /\ [account[i] EXCEPT !.status = req[r].status].user = account[i].user
          /\ [account[i] EXCEPT !.status = req[r].status].type = account[i].type
          /\ [account[i] EXCEPT !.status = req[r].status].number = account[i].number
      BY ONLY <3>1 DEF Account
    <3> QED
      BY ONLY <3>2, <3>3
  <2>3. /\ pc[r] = "update" /\ pc[r] \in Steps /\ pc' = [pc EXCEPT ![r] = "200"]
        /\ account' = [account EXCEPT ![i] = row]
        /\ since' = [q \in Requests |-> IF pc[q] \in Steps THEN since[q] \cup {<<i, row.status>>}
                                                            ELSE since[q]]
        /\ UNCHANGED <<intent, req, earlier>>
    BY <1>10, <2>1, <2>2 DEF UpdateStatus, Go, SetAccount, Steps
  <2>4. Made(r)' /\ Alone(r)'
    BY <1>0, <2>3 DEF TypeOK, Made, Alone
  <2> QED
    BY <1>0, <2>1, <2>2, <2>3, <2>4, RowStep DEF Answers
<1>11. ASSUME NEW r \in Requests, CheckActive(r) PROVE AccountsInv'
  <2>1. /\ pc[r] \in {"check", "checkTo"} /\ pc[r] \in Steps
        /\ UNCHANGED <<account, since, intent, req, earlier>>
        /\ \/ \E step \in {"400", "404"} : pc' = [pc EXCEPT ![r] = step]
           \/ /\ pc' = [pc EXCEPT ![r] = AfterCheck(r)]
              /\ account[Party(r)] # None /\ account[Party(r)].status = "active"
    BY <1>11 DEF CheckActive, Usable, Go, SameAccounts, Steps
  <2>2. CASE \E step \in {"400", "404"} : pc' = [pc EXCEPT ![r] = step]
    BY <1>4, <2>1, <2>2 DEF Answers
  <2>3. CASE pc' = [pc EXCEPT ![r] = AfterCheck(r)]
             /\ account[Party(r)] # None /\ account[Party(r)].status = "active"
    <3>1. Party(r) \in Ids /\ req[r] \in Money
      BY <1>1, <2>1 DEF Asks, Moving, Money, Party
    <3>2. <<Party(r), "active">> \in since[r] /\ Pairs' = Pairs /\ Pairs \subseteq since[r]
      BY <1>1, <2>1, <2>3, <3>1 DEF Witnessed, Pairs, Existing
    <3>3. /\ Private(r) /\ pc[r] \notin Answers /\ Made(r)' /\ Alone(r)'
          /\ pc'[r] = AfterCheck(r) /\ pc'[r] \in {"checkTo", "intent"}
      BY <1>0, <2>1, <2>3 DEF TypeOK, Answers, Made, Alone, AfterCheck
    <3>4. Witnessed(r)'
      BY <1>1, <2>1, <3>2, <3>3 DEF Witnessed, Party, AfterCheck
    <3> QED
      BY <1>0, <2>1, <3>3, <3>4, PrivateStep
  <2> QED
    BY <2>1, <2>2, <2>3
<1>12. ASSUME NEW r \in Requests, CreateIntent(r) \/ PostNow(r) PROVE AccountsInv'
  <2>1. /\ pc[r] \in {"intent", "post"} /\ UNCHANGED <<account, since, req, earlier>>
        /\ \E step \in {"post", "200", "202"} : pc' = [pc EXCEPT ![r] = step]
        /\ \E to \in {intent[r], "pending", "posted"} : intent' = [intent EXCEPT ![r] = to]
    <3>1. intent = [intent EXCEPT ![r] = intent[r]]
      BY <1>0 DEF TypeOK
    <3> QED
      BY <1>12, <3>1 DEF CreateIntent, PostNow, Go, SameAccounts
  <2>2. Private(r) /\ pc[r] \in Steps /\ pc[r] \notin Answers /\ Made(r)' /\ Alone(r)'
        /\ pc'[r] \in {"post", "200", "202"}
    BY <1>0, <2>1 DEF TypeOK, Steps, Answers, Made, Alone
  <2>3. Pairs' = Pairs
    BY <2>1 DEF Pairs, Existing
  <2>4. Witnessed(r)'
    BY <1>1, <2>1, <2>2, <2>3 DEF Witnessed
  <2> QED
    BY <1>0, <2>1, <2>2, <2>4, PrivateStep
<1>13. ASSUME NEW r \in Requests, PostLater(r) PROVE AccountsInv'
  <2>1. /\ pc[r] \in Answers /\ intent[r] = "pending" /\ intent' = [intent EXCEPT ![r] = "posted"]
        /\ UNCHANGED <<account, since, pc, req, earlier>>
    BY <1>13 DEF PostLater, SameAccounts
  <2>2. Private(r)
    BY <1>0, <2>1 DEF TypeOK
  <2>3. Pairs' = Pairs /\ (\A u, t : HasAccount(u, t)' <=> HasAccount(u, t))
    BY <2>1 DEF Pairs, Existing, HasAccount
  <2>4. Made(r)' /\ Alone(r)'
    BY <1>1, <2>1, <2>3 DEF Made, Alone
  <2>5. Witnessed(r)'
    BY <1>1, <2>1, <2>3 DEF Witnessed
  <2> QED
    BY <1>0, <2>1, <2>2, <2>4, <2>5, PrivateStep
<1>14. CASE UNCHANGED vars
  BY <1>14 DEF vars, AccountsInv, TypeOK, Asks, Ready, NumbersUnique, Made, Alone, Witnessed,
               Existing, HasAccount, Pairs
<1> QED
  BY <1>3, <1>5, <1>6, <1>7, <1>8, <1>9, <1>10, <1>11, <1>12, <1>13, <1>14
     DEF Next, Step, CreateAccount, UpdateAccountStatus, MoveMoney

LEMMA InvariantHolds == Spec => []AccountsInv
<1>1. Init => AccountsInv
  <2> SUFFICES ASSUME Init PROVE AccountsInv
    OBVIOUS
  <2>1. TypeOK /\ \A r \in Requests : Asks(r) /\ Ready(r)
    BY OpenedAssumption, RetriesAssumption
       DEF Init, TypeOK, Asks, Ready, Creating, Changing, Moving
  <2>2. NumbersUnique
    BY OpenedAssumption DEF Init, NumbersUnique, Existing
  <2>3. \A r \in Requests : Made(r) /\ Alone(r) /\ Witnessed(r)
    BY DEF Init, Made, Alone, Witnessed, Steps
  <2> QED
    BY <2>1, <2>2, <2>3 DEF AccountsInv
<1> QED
  BY <1>1, SafetyStep, PTL DEF Spec

\* No two accounts share a number, though two creates may both have found it
\* free (generate_account_number against the unique index).
THEOREM NumbersAreNeverShared == Spec => []NumbersUnique
<1>1. AccountsInv => NumbersUnique
  BY DEF AccountsInv
<1> QED
  BY <1>1, InvariantHolds, PTL

\* A create that counted after another was answered does not add a second
\* account of its type (count_by_user_and_type).
THEOREM SecondAccountsOverlap == Spec => []SecondAccountTakesOverlap
<1>1. AccountsInv => SecondAccountTakesOverlap
  BY DEF AccountsInv, Alone, SecondAccountTakesOverlap
<1> QED
  BY <1>1, InvariantHolds, PTL

\* Money moves only between accounts that were active while the request was
\* served (the checks before the intent is created).
THEOREM MoneyMovesBetweenActive == Spec => []MoneyNeedsActiveAccounts
<1>1. AccountsInv => MoneyNeedsActiveAccounts
  BY DEF AccountsInv, Witnessed, MoneyNeedsActiveAccounts
<1> QED
  BY <1>1, InvariantHolds, PTL

\* A closed account is reopened only by a request that arrived before it was
\* closed (update_account_status).
THEOREM ReopeningOverlaps == Spec => ReopenedOnlyByOverlap
<1> DEFINE Reopening ==
             \A i \in Existing :
                 account[i].status = "closed" /\ account'[i].status # "closed"
                 => \E r \in Requests :
                       /\ pc[r] = "update" /\ req[r].id = i
                       /\ \E s \in {"active", "suspended"} : <<i, s>> \in since[r]
<1>1. AccountsInv /\ [Next]_vars => [Reopening]_vars
  <2> SUFFICES ASSUME AccountsInv, [Next]_vars,
                      NEW i \in Existing, account[i].status = "closed", account'[i].status # "closed"
               PROVE  \E r \in Requests :
                         /\ pc[r] = "update" /\ req[r].id = i
                         /\ \E s \in {"active", "suspended"} : <<i, s>> \in since[r]
    OBVIOUS
  <2>1. TypeOK /\ i \in Ids /\ account[i] # None /\ account' # account
    BY DEF AccountsInv, Existing
  <2>2. ASSUME NEW r \in Requests, NEW j \in Ids, Insert(r, j) PROVE FALSE
    BY <2>1, <2>2 DEF Insert, SetAccount, SameAccounts, TypeOK
  <2>3. ASSUME NEW r \in Requests, UpdateStatus(r)
        PROVE  /\ pc[r] = "update" /\ req[r].id = i
               /\ \E s \in {"active", "suspended"} : <<i, s>> \in since[r]
    <3>1. Asks(r) /\ Witnessed(r) /\ pc[r] = "update" /\ req[r] \in Change
      BY <2>3 DEF AccountsInv, UpdateStatus, Asks, Changing
    <3>2. PICK j \in Ids : j = req[r].id
      BY <3>1 DEF Change
    <3>3. account' = [account EXCEPT ![j] = [account[j] EXCEPT !.status = req[r].status]]
      BY <2>3, <3>2 DEF UpdateStatus, SetAccount
    <3>4. i = j
      BY <2>1, <3>3 DEF TypeOK
    <3>5. account'[i] = [account[i] EXCEPT !.status = req[r].status] /\ account[i] \in Account
      BY <2>1, <3>3, <3>4 DEF TypeOK
    <3>6. req[r].status # "closed"
      <4>1. account'[i].status = req[r].status
        BY ONLY <3>5 DEF Account
      <4> QED
        BY <4>1
    <3> QED
      BY <3>1, <3>2, <3>4, <3>6 DEF Witnessed
  <2>4. \A r \in Requests : \A o \in Operations : ~Receive(r, o)
    BY <2>1 DEF Receive
  <2>5. \A r \in Requests : /\ ~ResolveUser(r) /\ ~CountByUserAndType(r)
                            /\ \A n \in Numbers : ~GenerateAccountNumber(r, n)
    BY <2>1 DEF ResolveUser, CountByUserAndType, GenerateAccountNumber, SameAccounts
  <2>6. \A r \in Requests : /\ ~FindById(r) /\ ~CheckActive(r) /\ ~CreateIntent(r)
                            /\ ~PostNow(r) /\ ~PostLater(r) /\ ~StatementFails(r)
    BY <2>1 DEF FindById, CheckActive, CreateIntent, PostNow, PostLater, StatementFails, SameAccounts
  <2> QED
    BY <2>1, <2>2, <2>3, <2>4, <2>5, <2>6
       DEF Next, Step, CreateAccount, UpdateAccountStatus, MoveMoney, vars
<1> QED
  BY <1>1, InvariantHolds, PTL DEF Spec, ReopenedOnlyByOverlap
=============================================================================
