------------------------ MODULE LedgerPostingProofs ------------------------
(***************************************************************************)
(* Theorems about LedgerPosting, for every set of calls, keys, accounts    *)
(* and postings, and every interleaving, failure and crash.                *)
(*                                                                         *)
(* That the stored balance is the sum of the entries comes last.           *)
(* BalanceInv: on an account that no two calls worked on at once (Settled) *)
(* one call works at a time, what it read is still stored, and what its    *)
(* transaction holds back is that plus its entry (AccountInv, WorkInv); a  *)
(* commit then adds as much to the balance as to the sum of the entries.   *)
(***************************************************************************)
EXTENDS LedgerPosting, Sums

-----------------------------------------------------------------------------
(* The inductive invariant.                                                *)

Working == {"resolve", "entry", "read", "write", "mark"}

\* The entry create_double_entry! writes for side s of c's posting.
EntryOn(c, s) ==
    [call |-> c, side |-> s, key |-> Key(c), account |-> req[c].posting[s],
     type |-> EntryType(AccountType(req[c].posting[s]),
                        AccountChange(DetectOperation(req[c].posting), s)),
     amount |-> req[c].posting.amount]

Pair(c) == {EntryOn(c, "source"), EntryOn(c, "destination")}

\* The entries an open transaction has written so far.
Written(c) ==
    IF pc[c] = "resolve" \/ (pc[c] = "entry" /\ side[c] = "source") THEN {}
    ELSE IF pc[c] = "entry" THEN {EntryOn(c, "source")}
    ELSE Pair(c)

RequestInv(c) ==
    IF pc[c] = "idle" THEN Key(c) = None
                      ELSE Key(c) \in Keys /\ req[c].posting \in Postings

\* Where a call can be, and what its transaction, if any, has written: a call
\* without a transaction completes a leftover row, a call with one owns a key
\* that has no committed row.
CallInv(c) ==
    /\ RequestInv(c)
    /\ pc[c] \in {"entry", "read", "write", "mark"} => ~SelfTransfer(c)
    /\ pc[c] = "partial" => Key(c) \in Leftover
    /\ pc[c] \in Working /\ ~work[c].open => Key(c) \in Leftover
    /\ ~work[c].open => work[c].entries = {}
    /\ work[c].open => /\ pc[c] \in Working
                       /\ txn[Key(c)] = "absent"
                       /\ work[c].entries = Written(c)

\* One transaction per key: the unique index.
OneWriter == \A c, d \in Calls :
    work[c].open /\ work[d].open /\ Key(c) = Key(d) => c = d

\* A key whose row this code created has all of one call's entries or none.
KeyInv(k) ==
    /\ k \in Leftover => txn[k] # "absent"
    /\ k \notin Leftover =>
          /\ txn[k] # "pending"
          /\ txn[k] = "absent" => EntriesOf(k) = {}
          /\ txn[k] = "posted" => \E c \in Calls : /\ Key(c) = k
                                                   /\ ~SelfTransfer(c)
                                                   /\ EntriesOf(k) = Pair(c)

PostingInv ==
    /\ TypeOK
    /\ \A c \in Calls : CallInv(c)
    /\ OneWriter
    /\ \A k \in Keys : KeyInv(k)

-----------------------------------------------------------------------------
(* Types.                                                                  *)

(* An entry type is a debit or a credit, whatever account and change       *)
(* (entry_type_for).                                                       *)
LEMMA EntryTypeType ==
    \A t, ch : EntryType(t, ch) \in {"debit", "credit"}
BY DEF EntryType

(* The empty transaction is a transaction.                                 *)
LEMMA NoWorkType == NoWork \in Work
BY DEF NoWork, Work

(* The rows a call writes while its request is known are of the right type *)
(* (create_double_entry!).                                                 *)
LEMMA EntryOnType ==
    ASSUME NEW c \in Calls, NEW s \in Sides,
           Key(c) \in Keys, req[c].posting \in Postings
    PROVE  EntryOn(c, s) \in Entry
<1>1. /\ req[c].posting[s] \in Accounts
      /\ req[c].posting.amount \in Int
  BY PostingsAssumption DEF Sides
<1>2. EntryType(AccountType(req[c].posting[s]),
                AccountChange(DetectOperation(req[c].posting), s)) \in {"debit", "credit"}
  BY EntryTypeType
<1>3. QED
  BY <1>1, <1>2 DEF EntryOn, Entry

(* A statement's effect keeps the types of the tables, whether it is kept  *)
(* back or published.                                                      *)
LEMMA WriteType ==
    ASSUME TypeOK, NEW c \in Calls, NEW w \in Work, Write(c, w)
    PROVE  /\ accounts' \subseteq Accounts
           /\ entries' \subseteq Entry
           /\ balance' \in [Accounts -> Int \cup {None}]
           /\ work' \in [Calls -> Work]
<1>1. CASE work[c].open
  BY <1>1 DEF Write, TypeOK
<1>2. CASE ~work[c].open
  BY <1>2 DEF Write, Publish, TypeOK, Work
<1>3. QED
  BY <1>1, <1>2

(* Ending a call keeps the types.                                          *)
LEMMA RollbackType ==
    ASSUME TypeOK, NEW c \in Calls, NEW a \in Answers, Rollback(c, a)
    PROVE  /\ pc' \in [Calls -> {"idle"} \cup Active \cup Answers]
           /\ side' \in [Calls -> Sides]
           /\ seen' \in [Calls -> Int \cup {None}]
           /\ work' \in [Calls -> Work]
BY NoWorkType DEF Rollback, TypeOK, Sides

(* Moving on keeps the types.                                              *)
LEMMA NextSideType ==
    ASSUME TypeOK, NEW c \in Calls, NEW p \in Active, NEW q \in Active, NextSide(c, p, q)
    PROVE  /\ pc' \in [Calls -> {"idle"} \cup Active \cup Answers]
           /\ side' \in [Calls -> Sides]
BY DEF NextSide, TypeOK, Sides

(* Every step keeps the types; a call that has started has a request.      *)
LEMMA TypeStep ==
    ASSUME TypeOK, \A c \in Calls : RequestInv(c), [Next]_vars
    PROVE  TypeOK'
<1>1. CASE UNCHANGED vars
  BY <1>1 DEF TypeOK, vars
<1>2. ASSUME NEW c \in Calls, NEW k \in Keys, NEW p \in Postings, Receive(c, k, p)
      PROVE  TypeOK'
  BY <1>2 DEF Receive, Go, stored, TypeOK, Active, Answers
<1>3. ASSUME NEW c \in Calls, FindExisting(c)
      PROVE  TypeOK'
  <2>1. Key(c) \in Keys
    BY <1>3 DEF FindExisting, RequestInv
  <2>2. txn[Key(c)] \in {"absent", "pending", "posted"}
    BY <2>1 DEF TypeOK
  <2>3. pc' \in [Calls -> {"idle"} \cup Active \cup Answers]
    BY <1>3, <2>2 DEF FindExisting, Go, TypeOK, Active, Answers
  <2>4. QED
    BY <1>3, <2>3 DEF FindExisting, Go, stored, TypeOK
<1>4. ASSUME NEW c \in Calls, CheckPartial(c)
      PROVE  TypeOK'
  BY <1>4 DEF CheckPartial, Go, stored, TypeOK, Active, Answers
<1>5. ASSUME NEW c \in Calls, CreateLedgerTransaction(c)
      PROVE  TypeOK'
  <2>1. CASE txn[Key(c)] = "absent"
    <3>1. work' \in [Calls -> Work]
      <4>1. [work[c] EXCEPT !.open = TRUE] \in Work
        BY DEF TypeOK, Work
      <4>2. work' = [work EXCEPT ![c] = [work[c] EXCEPT !.open = TRUE]]
        BY <1>5, <2>1 DEF CreateLedgerTransaction
      <4>3. QED
        BY <4>1, <4>2 DEF TypeOK
    <3>2. pc' \in [Calls -> {"idle"} \cup Active \cup Answers] /\ UNCHANGED side
      BY <1>5, <2>1 DEF CreateLedgerTransaction, Go, TypeOK, Active
    <3>3. QED
      BY <1>5, <2>1, <3>1, <3>2 DEF CreateLedgerTransaction, stored, TypeOK
  <2>2. CASE txn[Key(c)] # "absent"
    <3>1. Rollback(c, "failed")
      BY <1>5, <2>2 DEF CreateLedgerTransaction
    <3>2. QED
      BY <1>5, <3>1, RollbackType DEF CreateLedgerTransaction, stored, TypeOK, Answers
  <2>3. QED
    BY <2>1, <2>2
<1>6. ASSUME NEW c \in Calls, ResolveLedgerAccount(c)
      PROVE  TypeOK'
  <2>0. RequestInv(c) /\ pc[c] # "idle"
    BY <1>6 DEF ResolveLedgerAccount
  <2>1. Account(c) \in Accounts
    BY <2>0, PostingsAssumption DEF RequestInv, Account, TypeOK, Sides
  <2>2. CASE side[c] = "destination" /\ SelfTransfer(c)
    <3>1. Rollback(c, "failed") /\ UNCHANGED <<accounts, entries, balance>>
      BY <1>6, <2>2 DEF ResolveLedgerAccount, RefuseSelfTransfer
    <3>2. QED
      BY <1>6, <3>1, RollbackType DEF ResolveLedgerAccount, TypeOK, Answers
  <2>3. CASE ~(side[c] = "destination" /\ SelfTransfer(c))
    <3>1. NextSide(c, "resolve", "entry") /\ UNCHANGED seen
      BY <1>6, <2>3 DEF ResolveLedgerAccount
    <3>2. [work[c] EXCEPT !.accounts = @ \cup {Account(c)}] \in Work
      BY <2>1 DEF TypeOK, Work
    <3>3. /\ accounts' \subseteq Accounts
          /\ entries' \subseteq Entry
          /\ balance' \in [Accounts -> Int \cup {None}]
          /\ work' \in [Calls -> Work]
      <4>1. CASE Account(c) \in accounts
        BY <1>6, <2>3, <4>1 DEF ResolveLedgerAccount, TypeOK
      <4>2. CASE Account(c) \notin accounts
        BY <1>6, <2>3, <3>2, <4>2, WriteType DEF ResolveLedgerAccount
      <4>3. QED
        BY <4>1, <4>2
    <3>4. QED
      BY <1>6, <3>1, <3>3, NextSideType DEF ResolveLedgerAccount, TypeOK, Active
  <2>4. QED
    BY <2>2, <2>3
<1>7. ASSUME NEW c \in Calls, CreateEntry(c)
      PROVE  TypeOK'
  <2>0. Key(c) \in Keys /\ req[c].posting \in Postings /\ side[c] \in Sides
    BY <1>7 DEF CreateEntry, RequestInv, TypeOK
  <2>1. EntryOn(c, side[c]) \in Entry
    BY <2>0, EntryOnType
  <2>2. [work[c] EXCEPT !.entries = @ \cup {EntryOn(c, side[c])}] \in Work
    BY <2>1 DEF TypeOK, Work
  <2>3. Write(c, [work[c] EXCEPT !.entries = @ \cup {EntryOn(c, side[c])}])
    BY <1>7 DEF CreateEntry, EntryOn, SideType, Account, Amount
  <2>4. NextSide(c, "entry", "read")
    BY <1>7 DEF CreateEntry
  <2>5. QED
    BY <1>7, <2>2, <2>3, <2>4, WriteType, NextSideType DEF CreateEntry, TypeOK, Active
<1>8. ASSUME NEW c \in Calls, ReadBalance(c)
      PROVE  TypeOK'
  <2>1. Account(c) \in Accounts
    BY <1>8, PostingsAssumption DEF ReadBalance, RequestInv, Account, TypeOK, Sides
  <2>2. QED
    BY <1>8, <2>1 DEF ReadBalance, Go, stored, TypeOK, Active
<1>9. ASSUME NEW c \in Calls, WriteBalance(c)
      PROVE  TypeOK'
  <2>1. Account(c) \in Accounts /\ Amount(c) \in Int
    BY <1>9, PostingsAssumption DEF WriteBalance, RequestInv, Account, Amount, TypeOK, Sides
  <2>2. CASE seen[c] = None /\ balance[Account(c)] # None
    <3>1. Rollback(c, "failed") /\ UNCHANGED <<accounts, entries, balance>>
      BY <1>9, <2>2 DEF WriteBalance
    <3>2. QED
      BY <1>9, <3>1, RollbackType DEF WriteBalance, TypeOK, Answers
  <2>3. CASE ~(seen[c] = None /\ balance[Account(c)] # None)
    <3>1. NewBalance(c) \in Int
      <4>1. Signed(SideType(c), Amount(c)) \in Int
        BY <2>1 DEF Signed
      <4>2. (IF seen[c] = None THEN 0 ELSE seen[c]) \in Int
        BY DEF TypeOK
      <4>3. QED
        BY <4>1, <4>2 DEF NewBalance
    <3>2. [work[c] EXCEPT !.balance[Account(c)] = NewBalance(c)] \in Work
      BY <2>1, <3>1 DEF TypeOK, Work
    <3>3. /\ Write(c, [work[c] EXCEPT !.balance[Account(c)] = NewBalance(c)])
          /\ NextSide(c, "read", "mark")
          /\ seen' = [seen EXCEPT ![c] = None]
      BY <1>9, <2>3 DEF WriteBalance, SaveBalance
    <3>4. QED
      BY <1>9, <3>2, <3>3, WriteType, NextSideType DEF WriteBalance, TypeOK, Active
  <2>4. QED
    BY <2>2, <2>3
<1>10. ASSUME NEW c \in Calls, MarkAsPosted(c)
       PROVE  TypeOK'
  <2>1. Key(c) \in Keys
    BY <1>10 DEF MarkAsPosted, RequestInv
  <2>2. /\ accounts' \subseteq Accounts
        /\ entries' \subseteq Entry
        /\ balance' \in [Accounts -> Int \cup {None}]
    BY <1>10 DEF MarkAsPosted, Publish, TypeOK, Work
  <2>3. work' \in [Calls -> Work]
    BY <1>10, NoWorkType DEF MarkAsPosted, TypeOK
  <2>4. audited' \subseteq Keys
    BY <1>10, <2>1 DEF MarkAsPosted, TypeOK
  <2>5. txn' \in [Keys -> {"absent", "pending", "posted"}]
    BY <1>10, <2>1 DEF MarkAsPosted, TypeOK
  <2>6. QED
    BY <1>10, <2>2, <2>3, <2>4, <2>5 DEF MarkAsPosted, Go, TypeOK, Active
<1>11. ASSUME NEW c \in Calls, AnswerPosted(c)
       PROVE  TypeOK'
  BY <1>11 DEF AnswerPosted, Go, stored, TypeOK, Answers
<1>12. ASSUME NEW c \in Calls, NEW a \in Answers, Rollback(c, a), UNCHANGED <<stored, req, overlapped>>
       PROVE  TypeOK'
  BY <1>12, RollbackType DEF stored, TypeOK
<1>13. QED
  BY <1>1, <1>2, <1>3, <1>4, <1>5, <1>6, <1>7, <1>8, <1>9, <1>10, <1>11, <1>12
     DEF Next, Step, StatementFails, CallDies, DeadlockDetected, AnswerOfError, Answers

-----------------------------------------------------------------------------
(* Calls and their transactions.                                           *)

\* What a step of call c may do.
Act(c) ==
    \/ \E k \in Keys, p \in Postings : Receive(c, k, p)
    \/ Step(c)
    \/ StatementFails(c) \/ CallDies(c) \/ DeadlockDetected(c)

(* A step of one call leaves the others where they are; only the commit of *)
(* its own key touches a status (ledger_poster.rb keeps no shared state).  *)
LEMMA OthersStay ==
    ASSUME TypeOK, NEW c \in Calls, NEW d \in Calls \ {c}, Act(c)
    PROVE  /\ pc'[d] = pc[d]
           /\ side'[d] = side[d]
           /\ req'[d] = req[d]
           /\ work'[d] = work[d]
<1>1. ASSUME NEW k \in Keys, NEW p \in Postings, Receive(c, k, p)
      PROVE  /\ pc'[d] = pc[d] /\ side'[d] = side[d]
             /\ req'[d] = req[d] /\ work'[d] = work[d]
  BY <1>1 DEF Receive, Go, TypeOK
<1>2. ASSUME NEW a, Rollback(c, a), UNCHANGED req
      PROVE  /\ pc'[d] = pc[d] /\ side'[d] = side[d]
             /\ req'[d] = req[d] /\ work'[d] = work[d]
  BY <1>2 DEF Rollback, TypeOK
<1>3. ASSUME NEW p, NEW q, NextSide(c, p, q)
      PROVE  pc'[d] = pc[d] /\ side'[d] = side[d]
  BY <1>3 DEF NextSide, TypeOK
<1>4. ASSUME NEW w, Write(c, w)
      PROVE  work'[d] = work[d]
  BY <1>4 DEF Write, TypeOK
<1>5. CASE FindExisting(c) \/ CheckPartial(c) \/ ReadBalance(c) \/ AnswerPosted(c)
  BY <1>5 DEF FindExisting, CheckPartial, ReadBalance, AnswerPosted, Go, TypeOK
<1>6. CASE CreateLedgerTransaction(c)
  <2>1. CASE txn[Key(c)] = "absent"
    BY <1>6, <2>1 DEF CreateLedgerTransaction, Go, TypeOK
  <2>2. CASE txn[Key(c)] # "absent"
    <3>1. Rollback(c, "failed") /\ UNCHANGED req
      BY <1>6, <2>2 DEF CreateLedgerTransaction
    <3>2. QED
      BY <1>2, <3>1
  <2>3. QED
    BY <2>1, <2>2
<1>7. CASE ResolveLedgerAccount(c)
  <2>1. CASE side[c] = "destination" /\ SelfTransfer(c)
    <3>1. Rollback(c, "failed") /\ UNCHANGED req
      BY <1>7, <2>1 DEF ResolveLedgerAccount, RefuseSelfTransfer
    <3>2. QED
      BY <1>2, <3>1
  <2>2. CASE ~(side[c] = "destination" /\ SelfTransfer(c))
    <3>1. NextSide(c, "resolve", "entry") /\ UNCHANGED req
      BY <1>7, <2>2 DEF ResolveLedgerAccount
    <3>2. UNCHANGED work \/ Write(c, [work[c] EXCEPT !.accounts = @ \cup {Account(c)}])
      BY <1>7, <2>2 DEF ResolveLedgerAccount
    <3>3. QED
      BY <1>3, <1>4, <3>1, <3>2
  <2>3. QED
    BY <2>1, <2>2
<1>8. CASE CreateEntry(c)
  <2>1. NextSide(c, "entry", "read") /\ UNCHANGED req
    BY <1>8 DEF CreateEntry
  <2>2. \E w : Write(c, w)
    BY <1>8 DEF CreateEntry
  <2>3. QED
    BY <1>3, <1>4, <2>1, <2>2
<1>9. CASE WriteBalance(c)
  <2>1. CASE seen[c] = None /\ balance[Account(c)] # None
    <3>1. Rollback(c, "failed") /\ UNCHANGED req
      BY <1>9, <2>1 DEF WriteBalance
    <3>2. QED
      BY <1>2, <3>1
  <2>2. CASE ~(seen[c] = None /\ balance[Account(c)] # None)
    <3>1. /\ NextSide(c, "read", "mark") /\ UNCHANGED req
          /\ Write(c, [work[c] EXCEPT !.balance[Account(c)] = NewBalance(c)])
      BY <1>9, <2>2 DEF WriteBalance, SaveBalance
    <3>2. QED
      BY <1>3, <1>4, <3>1
  <2>3. QED
    BY <2>1, <2>2
<1>10. CASE MarkAsPosted(c)
  BY <1>10 DEF MarkAsPosted, Go, TypeOK
<1>11. CASE StatementFails(c) \/ CallDies(c) \/ DeadlockDetected(c)
  <2>1. UNCHANGED req /\ \E a : Rollback(c, a)
    BY <1>11 DEF StatementFails, CallDies, DeadlockDetected
  <2>2. QED
    BY <1>2, <2>1
<1>12. QED
  BY <1>1, <1>5, <1>6, <1>7, <1>8, <1>9, <1>10, <1>11 DEF Act, Step

(* Nothing but a commit writes a status.                                   *)
LEMMA OnlyCommitWritesStatus ==
    ASSUME NEW c \in Calls, Act(c), ~MarkAsPosted(c)
    PROVE  UNCHANGED txn
BY DEF Act, Step, Receive, FindExisting, CheckPartial, CreateLedgerTransaction,
       ResolveLedgerAccount, CreateEntry, ReadBalance, WriteBalance, AnswerPosted,
       StatementFails, CallDies, DeadlockDetected, stored

(* A call nobody touched keeps its invariant, if its key was not taken.    *)
LEMMA CallKept ==
    ASSUME NEW d \in Calls, CallInv(d),
           pc'[d] = pc[d], side'[d] = side[d], req'[d] = req[d], work'[d] = work[d],
           work[d].open => txn'[Key(d)] = "absent"
    PROVE  CallInv(d)'
<1>1. Key(d)' = Key(d) /\ (SelfTransfer(d) <=> SelfTransfer(d)')
  BY DEF Key, SelfTransfer
<1>2. EntryOn(d, "source")' = EntryOn(d, "source")
      /\ EntryOn(d, "destination")' = EntryOn(d, "destination")
  BY DEF EntryOn, Key
<1>3. Written(d)' = Written(d)
  BY <1>2 DEF Written, Pair
<1>4. QED
  BY <1>1, <1>3 DEF CallInv, RequestInv

(* The key of an open transaction has no committed row, so it is not a     *)
(* leftover one (find_existing, the unique index).                         *)
LEMMA OpenIsNew ==
    ASSUME PostingInv, NEW c \in Calls, work[c].open
    PROVE  /\ Key(c) \in Keys \ Leftover
           /\ txn[Key(c)] = "absent"
<1>1. CallInv(c)
  BY DEF PostingInv
<1>2. pc[c] \in Working /\ txn[Key(c)] = "absent"
  BY <1>1 DEF CallInv
<1>3. Key(c) \in Keys
  BY <1>1, <1>2 DEF CallInv, RequestInv, Working
<1>4. KeyInv(Key(c))
  BY <1>3 DEF PostingInv
<1>5. QED
  BY <1>2, <1>3, <1>4 DEF KeyInv

(* A step of one call keeps the invariant of the others.                   *)
LEMMA OthersKept ==
    ASSUME PostingInv, NEW c \in Calls, NEW d \in Calls \ {c}, Act(c)
    PROVE  CallInv(d)'
<1>1. TypeOK /\ CallInv(c) /\ CallInv(d)
  BY DEF PostingInv
<1>2. /\ pc'[d] = pc[d] /\ side'[d] = side[d]
      /\ req'[d] = req[d] /\ work'[d] = work[d]
  BY <1>1, OthersStay
<1>3. ASSUME work[d].open
      PROVE  txn'[Key(d)] = "absent"
  <2>1. Key(d) \in Keys \ Leftover /\ txn[Key(d)] = "absent"
    BY <1>3, OpenIsNew
  <2>2. CASE MarkAsPosted(c)
    <3>1. Key(c) # Key(d)
      <4>1. CASE work[c].open
        BY <1>3, <4>1 DEF PostingInv, OneWriter
      <4>2. CASE ~work[c].open
        BY <1>1, <2>1, <2>2, <4>2 DEF MarkAsPosted, CallInv, Working
      <4>3. QED
        BY <4>1, <4>2
    <3>2. QED
      BY <1>1, <2>1, <2>2, <3>1 DEF MarkAsPosted, TypeOK
  <2>3. CASE ~MarkAsPosted(c)
    BY <2>1, <2>3, OnlyCommitWritesStatus
  <2>4. QED
    BY <2>2, <2>3
<1>4. QED
  BY <1>1, <1>2, <1>3, CallKept

(* A call that ended, with or without an answer, has no transaction.       *)
LEMMA EndedCall ==
    ASSUME TypeOK, NEW c \in Calls, CallInv(c), NEW a \in Answers,
           pc[c] # "idle", Rollback(c, a), UNCHANGED req
    PROVE  CallInv(c)' /\ ~work'[c].open
<1>1. pc'[c] = a /\ work'[c] = NoWork
  BY DEF Rollback, TypeOK
<1>2. ~work'[c].open /\ work'[c].entries = {}
  BY <1>1 DEF NoWork
<1>3. Key(c)' = Key(c) /\ req'[c] = req[c]
  BY DEF Key
<1>4. a \notin Working \cup {"idle", "partial", "entry", "read", "write", "mark"}
  BY DEF Answers, Working
<1>5. QED
  BY <1>1, <1>2, <1>3, <1>4 DEF CallInv, RequestInv

(* A call keeps its own invariant: it moves from statement to statement,   *)
(* and its transaction has written what comes before (LedgerPoster.call).  *)
LEMMA OwnKept ==
    ASSUME PostingInv, NEW c \in Calls, Act(c)
    PROVE  CallInv(c)'
<1>0. TypeOK /\ CallInv(c)
  BY DEF PostingInv
<1>1. ASSUME NEW k \in Keys, NEW p \in Postings, Receive(c, k, p)
      PROVE  CallInv(c)'
  <2>1. /\ pc'[c] \in {"find", "failed"}
        /\ req'[c] = [key |-> k, posting |-> p]
        /\ work'[c] = work[c]
    BY <1>0, <1>1 DEF Receive, Go, TypeOK
  <2>2. ~work[c].open
    BY <1>0, <1>1 DEF Receive, CallInv, Working
  <2>3. QED
    BY <1>0, <2>1, <2>2 DEF CallInv, RequestInv, Key, Working
<1>2. CASE FindExisting(c)
  <2>1. Key(c) \in Keys /\ ~work[c].open
    BY <1>0, <1>2 DEF FindExisting, CallInv, RequestInv, Working
  <2>2. KeyInv(Key(c)) /\ txn[Key(c)] \in {"absent", "pending", "posted"}
    BY <2>1 DEF PostingInv, TypeOK
  <2>3. /\ pc'[c] \in {"posted", "partial", "create"}
        /\ pc'[c] = "partial" => txn[Key(c)] = "pending"
        /\ UNCHANGED <<req, work>>
    BY <1>0, <1>2, <2>2 DEF FindExisting, Go, TypeOK
  <2>4. Key(c)' = Key(c)
    BY <2>3 DEF Key
  <2>5. pc[c] # "idle"
    BY <1>2 DEF FindExisting
  <2>6. QED
    BY <1>0, <2>1, <2>2, <2>3, <2>4, <2>5 DEF CallInv, RequestInv, Working, KeyInv
<1>3. CASE CheckPartial(c)
  <2>1. /\ pc'[c] \in {"failed", "resolve"} /\ pc[c] = "partial"
        /\ UNCHANGED <<req, work>>
    BY <1>0, <1>3 DEF CheckPartial, Go, TypeOK
  <2>2. Key(c)' = Key(c)
    BY <2>1 DEF Key
  <2>3. QED
    BY <1>0, <2>1, <2>2 DEF CallInv, RequestInv, Working
<1>4. CASE CreateLedgerTransaction(c)
  <2>1. CASE txn[Key(c)] = "absent"
    <3>1. /\ pc'[c] = "resolve" /\ pc[c] = "create"
          /\ work'[c] = [work[c] EXCEPT !.open = TRUE]
          /\ UNCHANGED <<req, txn>>
      BY <1>0, <1>4, <2>1 DEF CreateLedgerTransaction, Go, TypeOK, stored
    <3>2. work[c].entries = {} /\ work[c] \in Work
      BY <1>0, <3>1 DEF CallInv, Working, TypeOK
    <3>3. work'[c].open = TRUE /\ work'[c].entries = {}
      BY <3>1, <3>2 DEF Work
    <3>4. Key(c)' = Key(c)
      BY <3>1 DEF Key
    <3>5. QED
      BY <1>0, <2>1, <3>1, <3>3, <3>4 DEF CallInv, RequestInv, Working, Written
  <2>2. CASE txn[Key(c)] # "absent"
    <3>1. Rollback(c, "failed") /\ UNCHANGED req /\ pc[c] # "idle"
      BY <1>4, <2>2 DEF CreateLedgerTransaction
    <3>2. QED
      BY <1>0, <3>1, EndedCall DEF Answers
  <2>3. QED
    BY <2>1, <2>2
<1>5. CASE ResolveLedgerAccount(c)
  <2>1. CASE side[c] = "destination" /\ SelfTransfer(c)
    <3>1. Rollback(c, "failed") /\ UNCHANGED req /\ pc[c] # "idle"
      BY <1>5, <2>1 DEF ResolveLedgerAccount, RefuseSelfTransfer
    <3>2. QED
      BY <1>0, <3>1, EndedCall DEF Answers
  <2>2. CASE ~(side[c] = "destination" /\ SelfTransfer(c))
    <3>1. /\ NextSide(c, "resolve", "entry") /\ UNCHANGED <<req, txn>>
          /\ pc[c] = "resolve"
      BY <1>5, <2>2 DEF ResolveLedgerAccount
    <3>2. UNCHANGED work \/ Write(c, [work[c] EXCEPT !.accounts = @ \cup {Account(c)}])
      BY <1>5, <2>2 DEF ResolveLedgerAccount
    <3>3. work'[c].open = work[c].open /\ work'[c].entries = work[c].entries
      BY <1>0, <3>2 DEF Write, TypeOK, Work
    <3>4. /\ pc'[c] \in {"resolve", "entry"}
          /\ pc'[c] = "entry" => side'[c] = "source" /\ ~SelfTransfer(c)
      BY <1>0, <2>2, <3>1 DEF NextSide, TypeOK, Sides
    <3>5. Key(c)' = Key(c) /\ (SelfTransfer(c)' <=> SelfTransfer(c))
      BY <3>1 DEF Key, SelfTransfer
    <3>6. work[c].entries = {}
      BY <1>0, <3>1 DEF CallInv, Written
    <3>7. QED
      BY <1>0, <3>1, <3>3, <3>4, <3>5, <3>6 DEF CallInv, RequestInv, Working, Written
  <2>3. QED
    BY <2>1, <2>2
<1>6. CASE CreateEntry(c)
  <2>1. /\ NextSide(c, "entry", "read") /\ UNCHANGED <<req, txn>>
        /\ pc[c] = "entry"
    BY <1>6 DEF CreateEntry
  <2>2. Write(c, [work[c] EXCEPT !.entries = @ \cup {EntryOn(c, side[c])}])
    BY <1>6 DEF CreateEntry, EntryOn, SideType, Account, Amount
  <2>3. /\ work'[c].open = work[c].open
        /\ work[c].open => work'[c].entries = work[c].entries \cup {EntryOn(c, side[c])}
        /\ ~work[c].open => work'[c].entries = work[c].entries
    BY <1>0, <2>2 DEF Write, TypeOK, Work
  <2>4. /\ side[c] = "source" => pc'[c] = "entry" /\ side'[c] = "destination"
        /\ side[c] # "source" => pc'[c] = "read" /\ side[c] = "destination"
    BY <1>0, <2>1 DEF NextSide, TypeOK, Sides
  <2>5. Key(c)' = Key(c) /\ (SelfTransfer(c)' <=> SelfTransfer(c))
    BY <2>1 DEF Key, SelfTransfer
  <2>6. /\ EntryOn(c, "source")' = EntryOn(c, "source")
        /\ EntryOn(c, "destination")' = EntryOn(c, "destination")
    BY <2>1, <2>5 DEF EntryOn
  <2>7. ASSUME work[c].open
        PROVE  work'[c].entries = Written(c)'
    <3>1. work[c].entries = Written(c)
      BY <1>0, <2>7 DEF CallInv
    <3>2. CASE side[c] = "source"
      BY <2>1, <2>3, <2>4, <2>6, <2>7, <3>1, <3>2 DEF Written
    <3>3. CASE side[c] # "source"
      BY <2>1, <2>3, <2>4, <2>6, <2>7, <3>1, <3>3 DEF Written, Pair
    <3>4. QED
      BY <3>2, <3>3
  <2>8. QED
    BY <1>0, <2>1, <2>3, <2>4, <2>5, <2>7 DEF CallInv, RequestInv, Working
<1>7. CASE ReadBalance(c)
  <2>1. /\ pc'[c] = "write" /\ pc[c] = "read"
        /\ UNCHANGED <<req, txn, work, side>>
    BY <1>0, <1>7 DEF ReadBalance, Go, TypeOK, stored
  <2>2. Key(c)' = Key(c) /\ (SelfTransfer(c)' <=> SelfTransfer(c))
    BY <2>1 DEF Key, SelfTransfer
  <2>3. Written(c) = Pair(c) /\ Written(c)' = Pair(c)
    BY <2>1, <2>2 DEF Written, Pair, EntryOn
  <2>4. QED
    BY <1>0, <2>1, <2>2, <2>3 DEF CallInv, RequestInv, Working
<1>8. CASE WriteBalance(c)
  <2>1. CASE seen[c] = None /\ balance[Account(c)] # None
    <3>1. Rollback(c, "failed") /\ UNCHANGED req /\ pc[c] # "idle"
      BY <1>8, <2>1 DEF WriteBalance
    <3>2. QED
      BY <1>0, <3>1, EndedCall DEF Answers
  <2>2. CASE ~(seen[c] = None /\ balance[Account(c)] # None)
    <3>1. /\ NextSide(c, "read", "mark") /\ UNCHANGED <<req, txn>>
          /\ Write(c, [work[c] EXCEPT !.balance[Account(c)] = NewBalance(c)])
          /\ pc[c] = "write"
      BY <1>8, <2>2 DEF WriteBalance, SaveBalance
    <3>2. pc'[c] \in {"read", "mark"}
      BY <1>0, <3>1 DEF NextSide, TypeOK
    <3>3. work'[c].open = work[c].open /\ work'[c].entries = work[c].entries
      BY <1>0, <3>1 DEF Write, TypeOK, Work
    <3>4. Key(c)' = Key(c) /\ (SelfTransfer(c)' <=> SelfTransfer(c))
      BY <3>1 DEF Key, SelfTransfer
    <3>5. Written(c) = Pair(c) /\ Written(c)' = Pair(c)
      BY <3>1, <3>2, <3>4 DEF Written, Pair, EntryOn
    <3>6. QED
      BY <1>0, <3>1, <3>2, <3>3, <3>4, <3>5 DEF CallInv, RequestInv, Working
  <2>3. QED
    BY <2>1, <2>2
<1>9. CASE MarkAsPosted(c)
  <2>1. /\ pc'[c] = "committed" /\ pc[c] = "mark"
        /\ work'[c] = NoWork /\ UNCHANGED req
    BY <1>0, <1>9 DEF MarkAsPosted, Go, TypeOK
  <2>2. ~work'[c].open /\ work'[c].entries = {} /\ Key(c)' = Key(c)
    BY <2>1 DEF NoWork, Key
  <2>3. QED
    BY <1>0, <2>1, <2>2 DEF CallInv, RequestInv, Working
<1>10. CASE AnswerPosted(c)
  <2>1. /\ pc'[c] = "posted" /\ pc[c] = "committed"
        /\ UNCHANGED <<req, work>>
    BY <1>0, <1>10 DEF AnswerPosted, Go, TypeOK
  <2>2. Key(c)' = Key(c)
    BY <2>1 DEF Key
  <2>3. QED
    BY <1>0, <2>1, <2>2 DEF CallInv, RequestInv, Working
<1>11. CASE StatementFails(c) \/ CallDies(c) \/ DeadlockDetected(c)
  <2>1. UNCHANGED req /\ \E a \in Answers : Rollback(c, a)
    BY <1>11 DEF StatementFails, CallDies, DeadlockDetected, AnswerOfError, Answers
  <2>2. pc[c] # "idle"
    BY <1>11 DEF StatementFails, CallDies, DeadlockDetected, Deadlocked, WaitsFor, Active
  <2>3. QED
    BY <1>0, <2>1, <2>2, EndedCall
<1>12. QED
  BY <1>1, <1>2, <1>3, <1>4, <1>5, <1>6, <1>7, <1>8, <1>9, <1>10, <1>11 DEF Act, Step

-----------------------------------------------------------------------------
(* Keys.                                                                   *)

(* A transaction is opened only by the insert of the key's row.            *)
LEMMA OnlyCreateOpens ==
    ASSUME TypeOK, NEW c \in Calls, CallInv(c), Act(c),
           ~CreateLedgerTransaction(c), work'[c].open
    PROVE  work[c].open /\ req'[c] = req[c] /\ ~MarkAsPosted(c)
<1>1. ASSUME NEW a, Rollback(c, a)
      PROVE  FALSE
  BY <1>1 DEF Rollback, NoWork, TypeOK
<1>2. CASE \E k \in Keys, p \in Postings : Receive(c, k, p)
  BY <1>2 DEF Receive, CallInv, Working
<1>3. CASE MarkAsPosted(c)
  BY <1>3 DEF MarkAsPosted, NoWork, TypeOK
<1>4. CASE StatementFails(c) \/ CallDies(c) \/ DeadlockDetected(c)
  BY <1>1, <1>4 DEF StatementFails, CallDies, DeadlockDetected
<1>5. CASE FindExisting(c) \/ CheckPartial(c) \/ ReadBalance(c) \/ AnswerPosted(c)
  BY <1>3, <1>5 DEF FindExisting, CheckPartial, ReadBalance, AnswerPosted
<1>6. CASE ResolveLedgerAccount(c)
  <2>1. UNCHANGED work \/ Write(c, [work[c] EXCEPT !.accounts = @ \cup {Account(c)}])
    BY <1>1, <1>6 DEF ResolveLedgerAccount, RefuseSelfTransfer
  <2>2. work[c].open
    BY <2>1 DEF Write, TypeOK, Work
  <2>3. QED
    BY <1>3, <1>6, <2>2 DEF ResolveLedgerAccount
<1>7. CASE CreateEntry(c)
  BY <1>3, <1>7 DEF CreateEntry, Write, TypeOK, Work
<1>8. CASE WriteBalance(c)
  <2>1. Write(c, [work[c] EXCEPT !.balance[Account(c)] = NewBalance(c)])
    BY <1>1, <1>8 DEF WriteBalance, SaveBalance
  <2>2. work[c].open
    BY <2>1 DEF Write, TypeOK, Work
  <2>3. QED
    BY <1>3, <1>8, <2>2 DEF WriteBalance
<1>9. QED
  BY <1>2, <1>3, <1>4, <1>5, <1>6, <1>7, <1>8 DEF Act, Step

(* Two transactions never hold the same key: the unique index.             *)
LEMMA OneWriterKept ==
    ASSUME PostingInv, NEW c \in Calls, Act(c)
    PROVE  OneWriter'
<1>0. TypeOK /\ OneWriter
  BY DEF PostingInv
<1>1. ASSUME NEW d \in Calls \ {c}
      PROVE  work'[d] = work[d] /\ Key(d)' = Key(d)
  BY <1>0, OthersStay DEF Key
<1>2. ASSUME work'[c].open
      PROVE  /\ Key(c)' = Key(c)
             /\ \A d \in Calls \ {c} : ~(work[d].open /\ Key(d) = Key(c))
  <2>1. CASE CreateLedgerTransaction(c)
    BY <2>1 DEF CreateLedgerTransaction, Blocked, WaitsFor, HoldsKey, Key
  <2>2. CASE ~CreateLedgerTransaction(c)
    <3>1. work[c].open /\ req'[c] = req[c]
      BY <1>0, <1>2, <2>2, OnlyCreateOpens DEF PostingInv
    <3>2. QED
      BY <1>0, <3>1 DEF OneWriter, Key
  <2>3. QED
    BY <2>1, <2>2
<1>3. ASSUME NEW d \in Calls, NEW e \in Calls,
             work'[d].open, work'[e].open, Key(d)' = Key(e)'
      PROVE  d = e
  BY <1>0, <1>1, <1>2, <1>3 DEF OneWriter
<1>4. QED
  BY <1>3 DEF OneWriter

(* Entries are committed only by create_double_entry! outside a            *)
(* transaction and by the commit of one.                                   *)
LEMMA WhoWritesEntries ==
    ASSUME PostingInv, NEW c \in Calls, Act(c), ~MarkAsPosted(c), ~CreateEntry(c)
    PROVE  entries' = entries
<1>0. TypeOK /\ CallInv(c)
  BY DEF PostingInv
<1>1. ASSUME NEW w, w.entries = work[c].entries, Write(c, w)
      PROVE  entries' = entries
  <2>1. ~work[c].open => work[c].entries = {}
    BY <1>0 DEF CallInv
  <2>2. QED
    BY <1>1, <2>1 DEF Write, Publish
<1>2. CASE ResolveLedgerAccount(c)
  <2>1. \/ entries' = entries
        \/ Write(c, [work[c] EXCEPT !.accounts = @ \cup {Account(c)}])
    BY <1>2 DEF ResolveLedgerAccount
  <2>2. [work[c] EXCEPT !.accounts = @ \cup {Account(c)}].entries = work[c].entries
    BY <1>0 DEF TypeOK, Work
  <2>3. QED
    BY <1>1, <2>1, <2>2
<1>3. CASE WriteBalance(c)
  <2>1. \/ entries' = entries
        \/ Write(c, [work[c] EXCEPT !.balance[Account(c)] = NewBalance(c)])
    BY <1>3 DEF WriteBalance, SaveBalance
  <2>2. [work[c] EXCEPT !.balance[Account(c)] = NewBalance(c)].entries = work[c].entries
    BY <1>0 DEF TypeOK, Work
  <2>3. QED
    BY <1>1, <2>1, <2>2
<1>4. QED
  BY <1>2, <1>3
     DEF Act, Step, Receive, FindExisting, CheckPartial, CreateLedgerTransaction,
         ReadBalance, AnswerPosted, StatementFails, CallDies, DeadlockDetected, stored

(* Committed entries of keys that are not leftover appear only with the    *)
(* commit of their key, both at once (LedgerPoster.call's transaction).    *)
LEMMA EntriesAppearTogether ==
    ASSUME PostingInv, NEW c \in Calls, Act(c), NEW k \in Keys \ Leftover
    PROVE  IF MarkAsPosted(c) /\ Key(c) = k
           THEN EntriesOf(k)' = EntriesOf(k) \cup Pair(c) /\ work[c].open
           ELSE EntriesOf(k)' = EntriesOf(k) /\ txn'[k] = txn[k]
<1>0. TypeOK /\ CallInv(c)
  BY DEF PostingInv
<1>1. CASE MarkAsPosted(c)
  <2>1. entries' = entries \cup work[c].entries /\ pc[c] = "mark"
    BY <1>1 DEF MarkAsPosted, Publish
  <2>2. CASE work[c].open
    <3>1. work[c].entries = Pair(c)
      BY <1>0, <2>1, <2>2 DEF CallInv, Written
    <3>2. \A e \in Pair(c) : e.key = Key(c)
      BY DEF Pair, EntryOn
    <3>3. CASE Key(c) = k
      BY <1>1, <2>1, <2>2, <3>1, <3>2, <3>3 DEF EntriesOf
    <3>4. CASE Key(c) # k
      <4>1. EntriesOf(k)' = EntriesOf(k)
        BY <2>1, <3>1, <3>2, <3>4 DEF EntriesOf
      <4>2. txn'[k] = txn[k]
        BY <1>0, <1>1, <3>4 DEF MarkAsPosted, TypeOK
      <4>3. QED
        BY <3>4, <4>1, <4>2
    <3>5. QED
      BY <3>3, <3>4
  <2>3. CASE ~work[c].open
    <3>1. Key(c) # k /\ work[c].entries = {}
      BY <1>0, <2>1, <2>3 DEF CallInv, Working
    <3>2. EntriesOf(k)' = EntriesOf(k)
      BY <2>1, <3>1 DEF EntriesOf
    <3>3. txn'[k] = txn[k]
      BY <1>0, <1>1, <3>1 DEF MarkAsPosted, TypeOK
    <3>4. QED
      BY <3>1, <3>2, <3>3
  <2>4. QED
    BY <2>2, <2>3
<1>2. CASE ~MarkAsPosted(c)
  <2>1. txn' = txn
    BY <1>2, OnlyCommitWritesStatus
  <2>2. CASE CreateEntry(c)
    <3>1. Write(c, [work[c] EXCEPT !.entries = @ \cup {EntryOn(c, side[c])}])
      BY <2>2 DEF CreateEntry, EntryOn, SideType, Account, Amount
    <3>2. CASE work[c].open
      BY <1>2, <2>1, <3>1, <3>2 DEF Write, EntriesOf
    <3>3. CASE ~work[c].open
      <4>1. Key(c) # k /\ work[c].entries = {}
        BY <1>0, <2>2, <3>3 DEF CallInv, Working, CreateEntry
      <4>2. entries' = entries \cup {EntryOn(c, side[c])}
        BY <1>0, <3>1, <3>3, <4>1 DEF Write, Publish, TypeOK, Work
      <4>3. EntryOn(c, side[c]).key # k
        BY <4>1 DEF EntryOn
      <4>4. EntriesOf(k)' = EntriesOf(k)
        BY <4>2, <4>3 DEF EntriesOf
      <4>5. QED
        BY <1>2, <2>1, <4>4
    <3>4. QED
      BY <3>2, <3>3
  <2>3. CASE ~CreateEntry(c)
    <3>1. entries' = entries
      BY <1>2, <2>3, WhoWritesEntries
    <3>2. QED
      BY <1>2, <2>1, <3>1 DEF EntriesOf
  <2>4. QED
    BY <2>2, <2>3
<1>3. QED
  BY <1>1, <1>2

(* A key has all the entries of one of its calls or none.                  *)
LEMMA KeysKept ==
    ASSUME PostingInv, NEW c \in Calls, Act(c), NEW k \in Keys
    PROVE  KeyInv(k)'
<1>0. TypeOK /\ CallInv(c) /\ KeyInv(k)
  BY DEF PostingInv
<1>1. MarkAsPosted(c) => txn'[Key(c)] = "posted" /\ \A j \in Keys \ {Key(c)} : txn'[j] = txn[j]
  <2>1. pc[c] = "mark" => Key(c) \in Keys
    BY <1>0 DEF CallInv, RequestInv
  <2>2. QED
    BY <1>0, <2>1 DEF MarkAsPosted, TypeOK
<1>2. CASE k \in Leftover
  <2>1. txn'[k] # "absent"
    BY <1>0, <1>1, <1>2, OnlyCommitWritesStatus DEF KeyInv
  <2>2. QED
    BY <1>2, <2>1 DEF KeyInv
<1>3. CASE k \notin Leftover
  \* A call that has a key keeps it, and what it asked for.
  <2>1. ASSUME NEW d \in Calls, Key(d) = k
        PROVE  req'[d] = req[d]
    <3>1. CASE d # c
      BY <1>0, <3>1, OthersStay
    <3>2. CASE d = c
      <4>1. pc[c] # "idle"
        BY <1>0, <2>1, <3>2, ValuesAssumption DEF CallInv, RequestInv
      <4>2. QED
        BY <3>2, <4>1 DEF Act, Step, Receive, FindExisting, CheckPartial,
           CreateLedgerTransaction, ResolveLedgerAccount, CreateEntry, ReadBalance,
           WriteBalance, MarkAsPosted, AnswerPosted, StatementFails, CallDies,
           DeadlockDetected
    <3>3. QED
      BY <3>1, <3>2
  <2>2. ASSUME NEW d \in Calls, Key(d) = k
        PROVE  /\ Key(d)' = k /\ Pair(d)' = Pair(d)
               /\ SelfTransfer(d)' <=> SelfTransfer(d)
    BY <2>1, <2>2 DEF Key, Pair, EntryOn, SelfTransfer
  <2>3. CASE MarkAsPosted(c) /\ Key(c) = k
    <3>1. EntriesOf(k)' = EntriesOf(k) \cup Pair(c) /\ work[c].open
      BY <1>3, <2>3, EntriesAppearTogether
    <3>2. EntriesOf(k) = {}
      BY <1>0, <1>3, <2>3, <3>1, OpenIsNew DEF KeyInv
    <3>3. ~SelfTransfer(c)
      BY <1>0, <2>3 DEF CallInv, MarkAsPosted
    <3>4. EntriesOf(k)' = Pair(c)'
      BY <2>2, <2>3, <3>1, <3>2
    <3>5. QED
      BY <1>1, <1>3, <2>2, <2>3, <3>3, <3>4 DEF KeyInv
  <2>4. CASE ~(MarkAsPosted(c) /\ Key(c) = k)
    <3>1. EntriesOf(k)' = EntriesOf(k) /\ txn'[k] = txn[k]
      BY <1>3, <2>4, EntriesAppearTogether
    <3>2. txn'[k] # "pending" /\ (txn'[k] = "absent" => EntriesOf(k)' = {})
      BY <1>0, <1>3, <3>1 DEF KeyInv
    <3>3. ASSUME txn'[k] = "posted"
          PROVE  \E d \in Calls : /\ Key(d)' = k
                                  /\ ~SelfTransfer(d)'
                                  /\ EntriesOf(k)' = Pair(d)'
      <4>1. PICK d \in Calls : Key(d) = k /\ ~SelfTransfer(d) /\ EntriesOf(k) = Pair(d)
        BY <1>0, <1>3, <3>1, <3>3 DEF KeyInv
      <4>2. QED
        BY <2>2, <3>1, <4>1
    <3>4. QED
      BY <1>3, <3>2, <3>3 DEF KeyInv
  <2>5. QED
    BY <2>3, <2>4
<1>4. QED
  BY <1>2, <1>3

-----------------------------------------------------------------------------
(* The invariant holds.                                                    *)

LEMMA PostingInit == Init => PostingInv
<1> SUFFICES ASSUME Init PROVE PostingInv
  OBVIOUS
<1>1. TypeOK
  BY NoWorkType, LeftoverAssumption, OpenedAssumption DEF Init, TypeOK, Sides
<1>2. ASSUME NEW c \in Calls
      PROVE  CallInv(c) /\ ~work[c].open
  BY DEF Init, CallInv, RequestInv, Key, NoWork, Working
<1>3. ASSUME NEW k \in Keys
      PROVE  KeyInv(k)
  BY DEF Init, KeyInv, EntriesOf
<1>4. QED
  BY <1>1, <1>2, <1>3 DEF PostingInv, OneWriter

LEMMA PostingStep == PostingInv /\ [Next]_vars => PostingInv'
<1> SUFFICES ASSUME PostingInv, [Next]_vars
             PROVE  PostingInv'
  OBVIOUS
<1>1. CASE UNCHANGED vars
  <2>1. TypeOK'
    BY <1>1 DEF vars, PostingInv, TypeOK
  <2>2. ASSUME NEW c \in Calls
        PROVE  /\ Key(c)' = Key(c) /\ Pair(c)' = Pair(c)
               /\ SelfTransfer(c)' <=> SelfTransfer(c)
    BY <1>1 DEF vars, Key, Pair, EntryOn, SelfTransfer
  <2>3. ASSUME NEW c \in Calls
        PROVE  CallInv(c)'
    <3>1. CallInv(c)
      BY DEF PostingInv
    <3>2. Written(c)' = Written(c)
      BY <1>1 DEF vars, Written, Pair, EntryOn, Key
    <3>3. QED
      BY <1>1, <2>2, <3>1, <3>2 DEF vars, CallInv, RequestInv
  <2>4. OneWriter'
    BY <1>1, <2>2 DEF vars, PostingInv, OneWriter
  <2>5. ASSUME NEW k \in Keys
        PROVE  KeyInv(k)'
    <3>1. KeyInv(k)
      BY DEF PostingInv
    <3>2. EntriesOf(k)' = EntriesOf(k)
      BY <1>1 DEF vars, EntriesOf
    <3>3. QED
      BY <1>1, <2>2, <3>1, <3>2 DEF vars, KeyInv
  <2>6. QED
    BY <2>1, <2>3, <2>4, <2>5 DEF PostingInv
<1>2. ASSUME NEW c \in Calls, Act(c)
      PROVE  PostingInv'
  <2>1. \A d \in Calls : RequestInv(d)
    BY DEF PostingInv, CallInv
  <2>2. TypeOK'
    BY <2>1, TypeStep DEF PostingInv
  <2>3. \A d \in Calls : CallInv(d)'
    BY <1>2, OwnKept, OthersKept
  <2>4. OneWriter'
    BY <1>2, OneWriterKept
  <2>5. \A k \in Keys : KeyInv(k)'
    BY <1>2, KeysKept
  <2>6. QED
    BY <2>2, <2>3, <2>4, <2>5 DEF PostingInv
<1>3. QED
  BY <1>1, <1>2 DEF Next, Act

(* The types, the shape of open transactions and the keys, in every state. *)
THEOREM PostingInvariant == Spec => []PostingInv
BY PostingInit, PostingStep, PTL DEF Spec

(* Every variable of the ledger keeps its type.                            *)
THEOREM LedgerTypeCorrect == Spec => []TypeOK
<1>1. PostingInv => TypeOK
  BY DEF PostingInv
<1>2. QED
  BY <1>1, PostingInvariant, PTL

(* detect_operation, account_change_for and entry_type_for together debit  *)
(* the source and credit the destination of every posting between two      *)
(* accounts.                                                               *)
LEMMA PairIsEffect ==
    ASSUME NEW c \in Calls, ~SelfTransfer(c)
    PROVE  Plain(Pair(c)) = Effect(req[c].posting)
<1> DEFINE p == req[c].posting
           T(s) == EntryType(AccountType(p[s]), AccountChange(DetectOperation(p), s))
<1>1. T("source") = "debit" /\ T("destination") = "credit"
  <2>1. CASE p.source = Cash
    BY <2>1 DEF SelfTransfer, EntryType, AccountType, AccountChange, DetectOperation
  <2>2. CASE p.source # Cash /\ p.destination = Cash
    BY <2>2 DEF EntryType, AccountType, AccountChange, DetectOperation
  <2>3. CASE p.source # Cash /\ p.destination # Cash
    BY <2>3 DEF EntryType, AccountType, AccountChange, DetectOperation
  <2>4. QED
    BY <2>1, <2>2, <2>3
<1>2. /\ EntryOn(c, "source").type = "debit"
      /\ EntryOn(c, "source").account = p.source
      /\ EntryOn(c, "source").amount = p.amount
      /\ EntryOn(c, "destination").type = "credit"
      /\ EntryOn(c, "destination").account = p.destination
      /\ EntryOn(c, "destination").amount = p.amount
  BY <1>1 DEF EntryOn
<1>3. QED
  BY <1>2 DEF Plain, Pair, Effect

(* Two different things make a set of two.                                 *)
LEMMA TwoElements ==
    ASSUME NEW x, NEW y, x # y
    PROVE  Cardinality({x, y}) = 2
<1>1. IsFiniteSet({x}) /\ Cardinality({x}) = 1
  BY FS_Singleton
<1>2. Cardinality({x} \cup {y}) = 2
  BY <1>1, FS_AddElement
<1>3. {x} \cup {y} = {x, y}
  OBVIOUS
<1>4. QED
  BY <1>2, <1>3

(* Each posted transaction has one debit and one credit of the amount some *)
(* call asked for; no other key has an entry.                              *)
THEOREM PostingsAreDoubleEntry == Spec => []DoubleEntry
<1>1. PostingInv => DoubleEntry
  <2> SUFFICES ASSUME PostingInv, NEW k \in Keys \ Leftover
               PROVE  IF txn[k] = "posted"
                      THEN /\ Cardinality(EntriesOf(k)) = 2
                           /\ \E p \in Asked(k) : Plain(EntriesOf(k)) = Effect(p)
                      ELSE EntriesOf(k) = {}
    BY DEF DoubleEntry
  <2>1. KeyInv(k) /\ txn[k] \in {"absent", "pending", "posted"}
    BY DEF PostingInv, TypeOK
  <2>2. CASE txn[k] = "posted"
    <3>1. PICK c \in Calls : Key(c) = k /\ ~SelfTransfer(c) /\ EntriesOf(k) = Pair(c)
      BY <2>1, <2>2 DEF KeyInv
    <3>2. EntryOn(c, "source") # EntryOn(c, "destination")
      BY DEF EntryOn
    <3>3. Cardinality(EntriesOf(k)) = 2
      BY ONLY <3>1, <3>2, TwoElements DEF Pair
    <3>4. req[c].posting \in Asked(k)
      BY <3>1 DEF Asked
    <3>5. Plain(EntriesOf(k)) = Effect(req[c].posting)
      BY <3>1, PairIsEffect
    <3>6. QED
      BY <2>2, <3>3, <3>4, <3>5
  <2>3. CASE txn[k] # "posted"
    BY <2>1, <2>3 DEF KeyInv
  <2>4. QED
    BY <2>2, <2>3
<1>2. QED
  BY <1>1, PostingInvariant, PTL

-----------------------------------------------------------------------------
(* Completing a row that was left pending.  Its statements commit one by   *)
(* one, so for such a key no open transaction vouches for the entries: what *)
(* a call has committed so far must follow from where it is.               *)

Committed(c) == {e \in entries : e.call = c}

\* Before a call may write, and once it will not write any more.
Silent == {"idle", "find", "partial", "create"}
Ended  == {"committed"} \cup Answers

CommittedInv(c) ==
    /\ pc[c] \in Silent  => Committed(c) = {}
    /\ pc[c] \in Working => Committed(c) = IF work[c].open THEN {} ELSE Written(c)

\* The call that marked the row has ended, with both sides committed.
Completes(c) == pc[c] \in Ended /\ ~SelfTransfer(c) /\ Committed(c) = Pair(c)

CompleteInv ==
    /\ \A c \in Calls : CommittedInv(c)
    /\ \A k \in Keys : txn[k] = "posted" => \E c \in Calls : Key(c) = k /\ Completes(c)

(* A step of one call commits entries of that call only: both sides with a *)
(* commit, the side it is at with an insert outside a transaction.         *)
LEMMA CommittedByStep ==
    ASSUME PostingInv, NEW c \in Calls, Act(c)
    PROVE  /\ \A d \in Calls \ {c} : Committed(d)' = Committed(d)
           /\ MarkAsPosted(c) => Committed(c)' = Committed(c) \cup work[c].entries
           /\ CreateEntry(c) =>
                 Committed(c)' = IF work[c].open THEN Committed(c)
                                 ELSE Committed(c) \cup {EntryOn(c, side[c])}
           /\ ~MarkAsPosted(c) /\ ~CreateEntry(c) => Committed(c)' = Committed(c)
<1>0. TypeOK /\ CallInv(c)
  BY DEF PostingInv
<1>1. CASE MarkAsPosted(c)
  <2>1. entries' = entries \cup work[c].entries /\ pc[c] = "mark"
    BY <1>1 DEF MarkAsPosted, Publish
  <2>2. work[c].entries = {} \/ work[c].entries = Pair(c)
    BY <1>0, <2>1 DEF CallInv, Written
  <2>3. \A e \in work[c].entries : e.call = c
    BY <2>2 DEF Pair, EntryOn
  <2>4. ~CreateEntry(c)
    BY <2>1 DEF CreateEntry
  <2>5. \A d \in Calls \ {c} : Committed(d)' = Committed(d)
    BY <2>1, <2>3 DEF Committed
  <2>6. Committed(c)' = Committed(c) \cup work[c].entries
    BY <2>1, <2>3 DEF Committed
  <2>7. QED
    BY <1>1, <2>4, <2>5, <2>6
<1>2. CASE CreateEntry(c)
  <2>1. Write(c, [work[c] EXCEPT !.entries = @ \cup {EntryOn(c, side[c])}])
    BY <1>2 DEF CreateEntry, EntryOn, SideType, Account, Amount
  <2>2. ~MarkAsPosted(c)
    BY <1>2 DEF CreateEntry, MarkAsPosted
  <2>3. CASE work[c].open
    <3>1. entries' = entries
      BY <2>1, <2>3 DEF Write
    <3>2. QED
      BY <1>2, <2>2, <2>3, <3>1 DEF Committed
  <2>4. CASE ~work[c].open
    <3>1. work[c].entries = {}
      BY <1>0, <2>4 DEF CallInv
    <3>2. entries' = entries \cup {EntryOn(c, side[c])}
      BY <1>0, <2>1, <2>4, <3>1 DEF Write, Publish, TypeOK, Work
    <3>3. EntryOn(c, side[c]).call = c
      BY DEF EntryOn
    <3>4. \A d \in Calls \ {c} : Committed(d)' = Committed(d)
      BY <3>2, <3>3 DEF Committed
    <3>5. Committed(c)' = Committed(c) \cup {EntryOn(c, side[c])}
      BY <3>2, <3>3 DEF Committed
    <3>6. QED
      BY <1>2, <2>2, <2>4, <3>4, <3>5
  <2>5. QED
    BY <2>3, <2>4
<1>3. CASE ~MarkAsPosted(c) /\ ~CreateEntry(c)
  <2>1. entries' = entries
    BY <1>3, WhoWritesEntries
  <2>2. QED
    BY <1>3, <2>1 DEF Committed
<1>4. QED
  BY <1>1, <1>2, <1>3

(* Both sides of the posting are committed when the row is marked          *)
(* (mark_as_posted! comes last).                                           *)
LEMMA MarkCompletes ==
    ASSUME PostingInv, NEW c \in Calls, CommittedInv(c), MarkAsPosted(c)
    PROVE  Completes(c)' /\ Key(c)' = Key(c)
<1>0. TypeOK /\ CallInv(c) /\ Act(c)
  BY DEF PostingInv, Act, Step
<1>1. pc[c] = "mark" /\ pc'[c] = "committed" /\ UNCHANGED req
  BY <1>0 DEF MarkAsPosted, Go, TypeOK
<1>2. Written(c) = Pair(c) /\ ~SelfTransfer(c)
  BY <1>0, <1>1 DEF CallInv, Written
<1>3. Committed(c)' = Committed(c) \cup work[c].entries
  BY <1>0, CommittedByStep
<1>4. CASE work[c].open
  <2>1. Committed(c) = {} /\ work[c].entries = Pair(c)
    BY <1>0, <1>1, <1>2, <1>4 DEF CommittedInv, CallInv, Working
  <2>2. Committed(c)' = Pair(c)
    BY <1>3, <2>1
  <2>3. QED
    BY <1>1, <1>2, <2>2 DEF Completes, Ended, SelfTransfer, Pair, EntryOn, Key
<1>5. CASE ~work[c].open
  <2>1. Committed(c) = Pair(c) /\ work[c].entries = {}
    BY <1>0, <1>1, <1>2, <1>5 DEF CommittedInv, CallInv, Working
  <2>2. Committed(c)' = Pair(c)
    BY <1>3, <2>1
  <2>3. QED
    BY <1>1, <1>2, <2>2 DEF Completes, Ended, SelfTransfer, Pair, EntryOn, Key
<1>6. QED
  BY <1>4, <1>5

(* What a call has committed follows from where it is: nothing before it   *)
(* resolves accounts, then the sides create_double_entry! has done.        *)
LEMMA OwnCommitted ==
    ASSUME PostingInv, NEW c \in Calls, CommittedInv(c), Act(c)
    PROVE  CommittedInv(c)'
<1>0. TypeOK /\ CallInv(c)
  BY DEF PostingInv
<1>1. ASSUME pc'[c] \in Ended
      PROVE  CommittedInv(c)'
  BY <1>1 DEF CommittedInv, Ended, Answers, Silent, Working
<1>2. ASSUME NEW a \in Answers, Rollback(c, a)
      PROVE  CommittedInv(c)'
  <2>1. pc'[c] = a
    BY <1>0, <1>2 DEF Rollback, TypeOK
  <2>2. QED
    BY <1>1, <2>1 DEF Ended
<1>3. ASSUME NEW k \in Keys, NEW p \in Postings, Receive(c, k, p)
      PROVE  CommittedInv(c)'
  <2>1. pc[c] = "idle" /\ pc'[c] \in {"find", "failed"}
    BY <1>0, <1>3 DEF Receive, Go, TypeOK
  <2>2. Committed(c)' = Committed(c)
    BY <2>1, CommittedByStep DEF MarkAsPosted, CreateEntry
  <2>3. QED
    BY <2>1, <2>2 DEF CommittedInv, Silent, Working
<1>4. CASE FindExisting(c)
  <2>1. txn[Key(c)] \in {"absent", "pending", "posted"}
    BY <1>0, <1>4 DEF FindExisting, CallInv, RequestInv, TypeOK
  <2>2. pc[c] = "find" /\ pc'[c] \in {"posted", "partial", "create"}
    BY <1>0, <1>4, <2>1 DEF FindExisting, Go, TypeOK
  <2>3. Committed(c)' = Committed(c)
    BY <2>2, CommittedByStep DEF MarkAsPosted, CreateEntry
  <2>4. QED
    BY <2>2, <2>3 DEF CommittedInv, Silent, Working
<1>5. CASE CheckPartial(c)
  <2>1. pc[c] = "partial" /\ pc'[c] \in {"failed", "resolve"} /\ UNCHANGED work
    BY <1>0, <1>5 DEF CheckPartial, Go, TypeOK
  <2>2. Committed(c)' = Committed(c)
    BY <2>1, CommittedByStep DEF MarkAsPosted, CreateEntry
  <2>3. QED
    BY <1>0, <2>1, <2>2 DEF CommittedInv, CallInv, Silent, Working, Written
<1>6. CASE CreateLedgerTransaction(c)
  <2>1. CASE txn[Key(c)] = "absent"
    <3>1. /\ pc[c] = "create" /\ pc'[c] = "resolve"
          /\ work'[c] = [work[c] EXCEPT !.open = TRUE]
      BY <1>0, <1>6, <2>1 DEF CreateLedgerTransaction, Go, TypeOK
    <3>2. work'[c].open
      BY <1>0, <3>1 DEF TypeOK, Work
    <3>3. Committed(c)' = Committed(c)
      BY <3>1, CommittedByStep DEF MarkAsPosted, CreateEntry
    <3>4. QED
      BY <3>1, <3>2, <3>3 DEF CommittedInv, Silent, Working
  <2>2. CASE txn[Key(c)] # "absent"
    BY <1>2, <1>6, <2>2 DEF CreateLedgerTransaction, Answers
  <2>3. QED
    BY <2>1, <2>2
<1>7. CASE ResolveLedgerAccount(c)
  <2>1. CASE side[c] = "destination" /\ SelfTransfer(c)
    BY <1>2, <1>7, <2>1 DEF ResolveLedgerAccount, RefuseSelfTransfer, Answers
  <2>2. CASE ~(side[c] = "destination" /\ SelfTransfer(c))
    <3>1. NextSide(c, "resolve", "entry") /\ pc[c] = "resolve"
      BY <1>7, <2>2 DEF ResolveLedgerAccount
    <3>2. UNCHANGED work \/ Write(c, [work[c] EXCEPT !.accounts = @ \cup {Account(c)}])
      BY <1>7, <2>2 DEF ResolveLedgerAccount
    <3>3. work'[c].open = work[c].open
      BY <1>0, <3>2 DEF Write, TypeOK, Work
    <3>4. /\ pc'[c] \in {"resolve", "entry"}
          /\ pc'[c] = "entry" => side'[c] = "source"
      BY <1>0, <3>1 DEF NextSide, TypeOK
    <3>5. Committed(c)' = Committed(c)
      BY <3>1, CommittedByStep DEF MarkAsPosted, CreateEntry
    <3>6. QED
      BY <3>1, <3>3, <3>4, <3>5 DEF CommittedInv, Silent, Working, Written
  <2>3. QED
    BY <2>1, <2>2
<1>8. CASE CreateEntry(c)
  <2>1. NextSide(c, "entry", "read") /\ UNCHANGED req /\ pc[c] = "entry"
    BY <1>8 DEF CreateEntry
  <2>2. \E w : Write(c, w) /\ w.open = work[c].open
    <3>1. Write(c, [work[c] EXCEPT !.entries = @ \cup {EntryOn(c, side[c])}])
      BY <1>8 DEF CreateEntry, EntryOn, SideType, Account, Amount
    <3>2. [work[c] EXCEPT !.entries = @ \cup {EntryOn(c, side[c])}].open = work[c].open
      BY <1>0 DEF TypeOK, Work
    <3>3. QED
      BY <3>1, <3>2
  <2>3. work'[c].open = work[c].open
    BY <1>0, <2>2 DEF Write, TypeOK
  <2>4. /\ side[c] = "source" => pc'[c] = "entry" /\ side'[c] = "destination"
        /\ side[c] # "source" => pc'[c] = "read" /\ side[c] = "destination"
    BY <1>0, <2>1 DEF NextSide, TypeOK, Sides
  <2>5. /\ EntryOn(c, "source")' = EntryOn(c, "source")
        /\ EntryOn(c, "destination")' = EntryOn(c, "destination")
    BY <2>1 DEF EntryOn, Key
  <2>6. CASE work[c].open
    <3>1. Committed(c)' = {}
      BY <1>8, <2>1, <2>6, CommittedByStep DEF CommittedInv, Working
    <3>2. QED
      BY <2>3, <2>6, <3>1 DEF CommittedInv
  <2>7. CASE ~work[c].open
    <3>1. Committed(c)' = Written(c) \cup {EntryOn(c, side[c])}
      BY <1>8, <2>1, <2>7, CommittedByStep DEF CommittedInv, Working
    <3>2. Written(c)' = Written(c) \cup {EntryOn(c, side[c])}
      <4>1. CASE side[c] = "source"
        BY <2>1, <2>4, <2>5, <4>1 DEF Written
      <4>2. CASE side[c] # "source"
        BY <2>1, <2>4, <2>5, <4>2 DEF Written, Pair
      <4>3. QED
        BY <4>1, <4>2
    <3>3. QED
      BY <2>3, <2>4, <2>7, <3>1, <3>2 DEF CommittedInv, Silent
  <2>8. QED
    BY <2>6, <2>7
<1>9. CASE ReadBalance(c)
  <2>1. pc[c] = "read" /\ pc'[c] = "write" /\ UNCHANGED <<req, work, side>>
    BY <1>0, <1>9 DEF ReadBalance, Go, TypeOK
  <2>2. Committed(c)' = Committed(c)
    BY <2>1, CommittedByStep DEF MarkAsPosted, CreateEntry
  <2>3. Written(c) = Pair(c) /\ Written(c)' = Pair(c)
    BY <2>1 DEF Written, Pair, EntryOn, Key
  <2>4. QED
    BY <2>1, <2>2, <2>3 DEF CommittedInv, Silent, Working
<1>10. CASE WriteBalance(c)
  <2>1. CASE seen[c] = None /\ balance[Account(c)] # None
    BY <1>2, <1>10, <2>1 DEF WriteBalance, Answers
  <2>2. CASE ~(seen[c] = None /\ balance[Account(c)] # None)
    <3>1. /\ NextSide(c, "read", "mark") /\ UNCHANGED req
          /\ Write(c, [work[c] EXCEPT !.balance[Account(c)] = NewBalance(c)])
          /\ pc[c] = "write"
      BY <1>10, <2>2 DEF WriteBalance, SaveBalance
    <3>2. pc'[c] \in {"read", "mark"}
      BY <1>0, <3>1 DEF NextSide, TypeOK
    <3>3. work'[c].open = work[c].open
      BY <1>0, <3>1 DEF Write, TypeOK, Work
    <3>4. Committed(c)' = Committed(c)
      BY <3>1, CommittedByStep DEF MarkAsPosted, CreateEntry
    <3>5. Written(c) = Pair(c) /\ Written(c)' = Pair(c)
      BY <3>1, <3>2 DEF Written, Pair, EntryOn, Key
    <3>6. QED
      BY <3>1, <3>2, <3>3, <3>4, <3>5 DEF CommittedInv, Silent, Working
  <2>3. QED
    BY <2>1, <2>2
<1>11. CASE MarkAsPosted(c)
  BY <1>1, <1>11, MarkCompletes DEF Completes
<1>12. CASE AnswerPosted(c)
  <2>1. pc'[c] = "posted"
    BY <1>0, <1>12 DEF AnswerPosted, Go, TypeOK
  <2>2. QED
    BY <1>1, <2>1 DEF Ended, Answers
<1>13. CASE StatementFails(c) \/ CallDies(c) \/ DeadlockDetected(c)
  BY <1>2, <1>13 DEF StatementFails, CallDies, DeadlockDetected, AnswerOfError, Answers
<1>14. QED
  BY <1>3, <1>4, <1>5, <1>6, <1>7, <1>8, <1>9, <1>10, <1>11, <1>12, <1>13 DEF Act, Step

(* A call that completed its posting never touches its entries again.      *)
LEMMA CompletedStays ==
    ASSUME PostingInv, NEW c \in Calls, Act(c), NEW d \in Calls, Completes(d)
    PROVE  Completes(d)' /\ Key(d)' = Key(d)
<1>0. TypeOK
  BY DEF PostingInv
<1>1. ASSUME pc'[d] \in Ended, req'[d] = req[d], Committed(d)' = Committed(d)
      PROVE  Completes(d)' /\ Key(d)' = Key(d)
  BY <1>1 DEF Completes, SelfTransfer, Pair, EntryOn, Key
<1>2. CASE d # c
  BY <1>0, <1>1, <1>2, OthersStay, CommittedByStep DEF Completes
<1>3. CASE d = c
  <2>1. pc[c] \in {"committed", "posted", "failed", "gone"}
    BY <1>3 DEF Completes, Ended, Answers
  <2>2. AnswerPosted(c) \/ StatementFails(c) \/ CallDies(c)
    BY <2>1 DEF Act, Step, Receive, FindExisting, CheckPartial, CreateLedgerTransaction,
       ResolveLedgerAccount, CreateEntry, ReadBalance, WriteBalance, MarkAsPosted,
       DeadlockDetected, Deadlocked, WaitsFor
  <2>3. UNCHANGED req /\ pc'[c] \in Ended
    BY <1>0, <2>2 DEF AnswerPosted, Go, StatementFails, CallDies, Rollback, AnswerOfError,
       TypeOK, Ended, Answers
  <2>4. Committed(c)' = Committed(c)
    BY <2>1, CommittedByStep DEF MarkAsPosted, CreateEntry
  <2>5. QED
    BY <1>1, <1>3, <2>3, <2>4
<1>4. QED
  BY <1>2, <1>3

LEMMA CompleteStep == PostingInv /\ CompleteInv /\ [Next]_vars => CompleteInv'
<1> SUFFICES ASSUME PostingInv, CompleteInv, [Next]_vars
             PROVE  CompleteInv'
  OBVIOUS
<1>1. CASE UNCHANGED vars
  BY <1>1 DEF vars, CompleteInv, CommittedInv, Committed, Written, Pair, EntryOn, Key,
              Completes, SelfTransfer
<1>2. ASSUME NEW c \in Calls, Act(c)
      PROVE  CompleteInv'
  <2>0. TypeOK /\ CallInv(c) /\ CommittedInv(c)
    BY DEF PostingInv, CompleteInv
  <2>1. ASSUME NEW d \in Calls
        PROVE  CommittedInv(d)'
    <3>1. CASE d = c
      BY <1>2, <2>0, <3>1, OwnCommitted
    <3>2. CASE d # c
      <4>1. /\ pc'[d] = pc[d] /\ side'[d] = side[d]
            /\ req'[d] = req[d] /\ work'[d] = work[d]
        BY <1>2, <2>0, <3>2, OthersStay
      <4>2. Committed(d)' = Committed(d)
        BY <1>2, <3>2, CommittedByStep
      <4>3. Written(d)' = Written(d)
        BY <4>1 DEF Written, Pair, EntryOn, Key
      <4>4. CommittedInv(d)
        BY DEF CompleteInv
      <4>5. QED
        BY <4>1, <4>2, <4>3, <4>4 DEF CommittedInv
    <3>3. QED
      BY <3>1, <3>2
  <2>2. ASSUME NEW k \in Keys, txn'[k] = "posted"
        PROVE  \E d \in Calls : Key(d)' = k /\ Completes(d)'
    <3>1. CASE txn[k] = "posted"
      <4>1. PICK d \in Calls : Key(d) = k /\ Completes(d)
        BY <3>1 DEF CompleteInv
      <4>2. QED
        BY <1>2, <4>1, CompletedStays
    <3>2. CASE txn[k] # "posted"
      <4>1. MarkAsPosted(c)
        BY <1>2, <2>2, <3>2, OnlyCommitWritesStatus
      <4>2. Key(c) = k
        BY <2>0, <2>2, <3>2, <4>1 DEF MarkAsPosted, TypeOK
      <4>3. QED
        BY <2>0, <4>1, <4>2, MarkCompletes
    <3>3. QED
      BY <3>1, <3>2
  <2>3. QED
    BY <2>1, <2>2 DEF CompleteInv
<1>3. QED
  BY <1>1, <1>2 DEF Next, Act

(* Whether the row was new or left pending, a posted transaction has both  *)
(* entries of one call (mark_as_posted! after create_double_entry!).       *)
THEOREM PostedRowsAreComplete == Spec => []PostedIsComplete
<1>1. Init => CompleteInv
  BY DEF Init, CompleteInv, CommittedInv, Committed, Silent, Working
<1>2. PostingInv /\ CompleteInv /\ [Next]_vars => CompleteInv'
  BY CompleteStep
<1>3. CompleteInv => PostedIsComplete
  <2> SUFFICES ASSUME CompleteInv, NEW k \in Keys, txn[k] = "posted"
               PROVE  \E c \in Calls :
                         /\ Key(c) = k
                         /\ Plain({e \in EntriesOf(k) : e.call = c}) = Effect(req[c].posting)
    BY DEF PostedIsComplete
  <2>1. PICK c \in Calls : Key(c) = k /\ Completes(c)
    BY DEF CompleteInv
  <2>2. \A e \in Pair(c) : e.key = k
    BY <2>1 DEF Pair, EntryOn
  <2>3. {e \in EntriesOf(k) : e.call = c} = Pair(c)
    BY <2>1, <2>2 DEF Completes, Committed, EntriesOf
  <2>4. Plain(Pair(c)) = Effect(req[c].posting)
    BY <2>1, PairIsEffect DEF Completes
  <2>5. QED
    BY <2>1, <2>3, <2>4
<1>4. QED
  BY <1>1, <1>2, <1>3, PostingInvariant, PTL DEF Spec

-----------------------------------------------------------------------------
(* The ledger implements OutboundTask, when no row was left pending.       *)

\* Posted is answered only for a posted row.
AnswerInv == \A c \in Calls :
    pc[c] \in {"committed", "posted"} => txn[Key(c)] = "posted"

(* A posted row stays posted.                                              *)
LEMMA PostedStays ==
    ASSUME PostingInv, NEW c \in Calls, Act(c), NEW k \in Keys, txn[k] = "posted"
    PROVE  txn'[k] = "posted"
<1>1. CASE MarkAsPosted(c)
  BY <1>1 DEF MarkAsPosted, PostingInv, TypeOK
<1>2. CASE ~MarkAsPosted(c)
  BY <1>2, OnlyCommitWritesStatus
<1>3. QED
  BY <1>1, <1>2

(* Only find_existing and the commit lead to an answer of posted.          *)
LEMMA WhoAnswersPosted ==
    ASSUME TypeOK, NEW c \in Calls, RequestInv(c), Act(c),
           pc'[c] \in {"committed", "posted"}
    PROVE  \/ MarkAsPosted(c) /\ pc'[c] = "committed"
           \/ /\ FindExisting(c) \/ AnswerPosted(c)
              /\ pc'[c] = "posted"
              /\ UNCHANGED <<txn, entries, req>>
<1>1. ASSUME NEW a \in {"failed", "gone"}, Rollback(c, a)
      PROVE  FALSE
  BY <1>1 DEF Rollback, TypeOK
<1>2. ASSUME NEW p, NEW q, p \notin {"committed", "posted"}, q \notin {"committed", "posted"},
             NextSide(c, p, q)
      PROVE  FALSE
  BY <1>2 DEF NextSide, TypeOK
<1>3. ASSUME NEW p, p \notin {"committed", "posted"}, Go(c, p)
      PROVE  FALSE
  BY <1>3 DEF Go, TypeOK
<1>4. CASE \E k \in Keys, p \in Postings : Receive(c, k, p)
  <2>1. Go(c, "find") \/ Go(c, "failed")
    BY <1>4 DEF Receive
  <2>2. QED
    BY <1>3, <2>1
<1>5. CASE FindExisting(c)
  <2>1. txn[Key(c)] \in {"absent", "pending", "posted"}
    BY <1>5 DEF FindExisting, RequestInv, TypeOK
  <2>2. pc'[c] \in {"partial", "create", "posted"}
    BY <1>5, <2>1 DEF FindExisting, Go, TypeOK
  <2>3. QED
    BY <1>5, <2>2 DEF FindExisting, stored
<1>6. CASE CheckPartial(c)
  <2>1. Go(c, "failed") \/ Go(c, "resolve")
    BY <1>6 DEF CheckPartial
  <2>2. QED
    BY <1>3, <2>1
<1>7. CASE CreateLedgerTransaction(c)
  <2>1. Go(c, "resolve") \/ Rollback(c, "failed")
    BY <1>7 DEF CreateLedgerTransaction
  <2>2. QED
    BY <1>1, <1>3, <2>1
<1>8. CASE ResolveLedgerAccount(c)
  BY <1>1, <1>2, <1>8 DEF ResolveLedgerAccount, RefuseSelfTransfer
<1>9. CASE CreateEntry(c)
  BY <1>2, <1>9 DEF CreateEntry
<1>10. CASE ReadBalance(c)
  BY <1>3, <1>10 DEF ReadBalance
<1>11. CASE WriteBalance(c)
  BY <1>1, <1>2, <1>11 DEF WriteBalance
<1>12. CASE MarkAsPosted(c)
  BY <1>12 DEF MarkAsPosted, Go, TypeOK
<1>13. CASE AnswerPosted(c)
  BY <1>13 DEF AnswerPosted, Go, TypeOK, stored
<1>14. CASE StatementFails(c) \/ CallDies(c) \/ DeadlockDetected(c)
  BY <1>1, <1>14 DEF StatementFails, CallDies, DeadlockDetected, AnswerOfError
<1>15. QED
  BY <1>4, <1>5, <1>6, <1>7, <1>8, <1>9, <1>10, <1>11, <1>12, <1>13, <1>14 DEF Act, Step

LEMMA AnswerStep == PostingInv /\ AnswerInv /\ [Next]_vars => AnswerInv'
<1> SUFFICES ASSUME PostingInv, AnswerInv, [Next]_vars, NEW d \in Calls,
                    pc'[d] \in {"committed", "posted"}
             PROVE  txn'[Key(d)'] = "posted"
  BY DEF AnswerInv
<1>1. CASE UNCHANGED vars
  BY <1>1 DEF vars, AnswerInv, Key
<1>2. ASSUME NEW c \in Calls, Act(c)
      PROVE  txn'[Key(d)'] = "posted"
  <2>0. TypeOK /\ RequestInv(d)
    BY DEF PostingInv, CallInv
  <2>1. CASE c # d
    <3>1. pc[d] = pc'[d] /\ Key(d)' = Key(d)
      BY <1>2, <2>0, <2>1, OthersStay DEF Key
    <3>2. txn[Key(d)] = "posted" /\ Key(d) \in Keys
      BY <2>0, <3>1 DEF AnswerInv, RequestInv
    <3>3. QED
      BY <1>2, <3>1, <3>2, PostedStays
  <2>2. CASE c = d
    <3>1. CASE MarkAsPosted(c)
      <4>1. Key(d) \in Keys /\ Key(d)' = Key(d)
        BY <2>0, <2>2, <3>1 DEF MarkAsPosted, RequestInv, Key
      <4>2. QED
        BY <2>0, <2>2, <3>1, <4>1 DEF MarkAsPosted, TypeOK
    <3>2. CASE ~MarkAsPosted(c)
      <4>1. (FindExisting(c) \/ AnswerPosted(c)) /\ pc'[c] = "posted" /\ UNCHANGED <<txn, req>>
        BY <1>2, <2>0, <2>2, <3>2, WhoAnswersPosted
      <4>2. txn[Key(c)] = "posted"
        <5>1. CASE AnswerPosted(c)
          BY <5>1 DEF AnswerPosted, AnswerInv
        <5>2. CASE FindExisting(c)
          <6>1. txn[Key(c)] \in {"absent", "pending", "posted"}
            BY <2>0, <2>2, <5>2 DEF FindExisting, RequestInv, TypeOK
          <6>2. QED
            BY <2>0, <4>1, <5>2, <6>1 DEF FindExisting, Go, TypeOK
        <5>3. QED
          BY <4>1, <5>1, <5>2
      <4>3. QED
        BY <2>2, <4>1, <4>2 DEF Key
    <3>3. QED
      BY <3>1, <3>2
  <2>3. QED
    BY <2>1, <2>2
<1>3. QED
  BY <1>1, <1>2 DEF Next, Act

Accepted  == {k \in Fresh : \E c \in Calls : Key(c) = k}
Posted(k) == IF txn[k] = "posted" THEN Plain(EntriesOf(k)) ELSE {}
Confirmed == {k \in Fresh : \E c \in Calls : pc[c] = "posted" /\ Key(c) = k}

(* What the ledger did for a posted key is the effect of a posting.        *)
LEMMA PostedIsAnEffect ==
    ASSUME PostingInv, NEW k \in Fresh, txn[k] = "posted"
    PROVE  Posted(k) # {} /\ k \in Accepted
<1>1. PICK c \in Calls : Key(c) = k /\ ~SelfTransfer(c) /\ EntriesOf(k) = Pair(c)
  BY DEF PostingInv, KeyInv, Fresh
<1>2. Posted(k) = Effect(req[c].posting)
  BY <1>1, PairIsEffect DEF Posted
<1>3. Effect(req[c].posting) # {}
  BY DEF Effect
<1>4. QED
  BY <1>1, <1>2, <1>3 DEF Accepted

(* Apart from a commit, the effect of no key changes.                      *)
LEMMA EffectKept ==
    ASSUME PostingInv, NEW c \in Calls, Act(c), NEW k \in Fresh,
           ~(MarkAsPosted(c) /\ Key(c) = k)
    PROVE  Posted(k)' = Posted(k)
<1>1. EntriesOf(k)' = EntriesOf(k) /\ txn'[k] = txn[k]
  BY EntriesAppearTogether DEF Fresh
<1>2. QED
  BY <1>1 DEF Posted, Plain

(* Only an answer of posted confirms a key, and only a new call asks for   *)
(* one.                                                                    *)
LEMMA ConfirmedKept ==
    ASSUME PostingInv, AnswerInv, NEW c \in Calls, Act(c), pc'[c] # "posted"
    PROVE  Confirmed' = Confirmed
<1>0. TypeOK /\ CallInv(c)
  BY DEF PostingInv
<1>1. pc[c] # "posted"
  BY DEF Act, Step, Receive, FindExisting, CheckPartial, CreateLedgerTransaction,
         ResolveLedgerAccount, CreateEntry, ReadBalance, WriteBalance, MarkAsPosted,
         AnswerPosted, StatementFails, CallDies, DeadlockDetected, Deadlocked, WaitsFor,
         Active
<1>2. ASSUME NEW d \in Calls \ {c}
      PROVE  pc'[d] = pc[d] /\ Key(d)' = Key(d)
  BY <1>0, OthersStay DEF Key
<1>3. QED
  BY <1>1, <1>2 DEF Confirmed

LEMMA AcceptedKept ==
    ASSUME PostingInv, NEW c \in Calls, Act(c), pc[c] # "idle"
    PROVE  Accepted' = Accepted
<1>1. UNCHANGED req
  BY DEF Act, Step, Receive, FindExisting, CheckPartial, CreateLedgerTransaction,
         ResolveLedgerAccount, CreateEntry, ReadBalance, WriteBalance, MarkAsPosted,
         AnswerPosted, StatementFails, CallDies, DeadlockDetected
<1>2. QED
  BY <1>1 DEF Accepted, Key

(* A call that is answered posted confirms its key, if the key is fresh.   *)
LEMMA AnswerConfirms ==
    ASSUME PostingInv, AnswerInv', NEW c \in Calls, Act(c), pc'[c] = "posted",
           UNCHANGED <<txn, entries, req>>
    PROVE  [Abs!Next]_(Abs!vars)
<1>0. TypeOK /\ RequestInv(c)
  BY DEF PostingInv, CallInv
<1>1. pc[c] # "idle"
  <2>1. ~MarkAsPosted(c)
    BY <1>0 DEF MarkAsPosted, Go, TypeOK
  <2>2. FindExisting(c) \/ AnswerPosted(c)
    BY <1>0, <2>1, WhoAnswersPosted
  <2>3. QED
    BY <2>2 DEF FindExisting, AnswerPosted
<1>2. PICK k \in Keys : k = Key(c)
  BY <1>0, <1>1 DEF RequestInv
<1>3. txn[k] = "posted"
  BY <1>2 DEF AnswerInv, Key
<1>4. Accepted' = Accepted
  BY DEF Accepted, Key
<1>5. \A j \in Fresh : Posted(j)' = Posted(j)
  BY DEF Posted, EntriesOf, Plain
<1>6. Confirmed' = Confirmed \cup ({k} \cap Fresh)
  <2>1. ASSUME NEW d \in Calls \ {c}
        PROVE  pc'[d] = pc[d]
    BY <1>0, OthersStay
  <2>2. \A d \in Calls : Key(d)' = Key(d)
    BY DEF Key
  <2>3. pc[c] = "posted" /\ k \in Fresh => k \in Confirmed
    BY <1>2 DEF Confirmed
  <2>4. QED
    BY <1>2, <2>1, <2>2, <2>3 DEF Confirmed
<1>7. CASE k \in Fresh
  <2>1. Posted(k) # {}
    BY <1>3, <1>7, PostedIsAnEffect
  <2>2. Abs!Confirm(k)
    BY <1>4, <1>5, <1>6, <1>7, <2>1 DEF Abs!Confirm, Accepted, Posted, Confirmed
  <2>3. QED
    BY <1>7, <2>2 DEF Abs!Next
<1>8. CASE k \notin Fresh
  <2>1. Confirmed' = Confirmed
    BY <1>6, <1>8
  <2>2. QED
    BY <1>4, <1>5, <2>1 DEF Abs!vars, Accepted, Posted, Confirmed
<1>9. QED
  BY <1>7, <1>8

(* A commit performs the effect of its key, if the key is fresh.           *)
LEMMA CommitPerforms ==
    ASSUME PostingInv, AnswerInv, NEW c \in Calls, MarkAsPosted(c)
    PROVE  [Abs!Next]_(Abs!vars)
<1>0. TypeOK /\ CallInv(c) /\ Act(c) /\ pc[c] = "mark" /\ pc'[c] = "committed"
  BY DEF PostingInv, Act, Step, MarkAsPosted, Go, TypeOK
<1>1. ~SelfTransfer(c) /\ req[c].posting \in Postings
  BY <1>0 DEF CallInv, RequestInv, Working
<1>2. PICK k \in Keys : k = Key(c)
  BY <1>0 DEF CallInv, RequestInv
<1>3. PICK p \in Postings : p = req[c].posting
  BY <1>1
<1>4. Accepted' = Accepted /\ (k \in Fresh => k \in Accepted)
  BY <1>0, <1>2, AcceptedKept DEF Accepted
<1>5. Confirmed' = Confirmed
  BY <1>0, ConfirmedKept
<1>6. \A j \in Fresh \ {k} : Posted(j)' = Posted(j)
  BY <1>0, <1>2, EffectKept
<1>7. CASE k \in Fresh
  <2>0. work[c].open
    BY <1>0, <1>2, <1>7 DEF CallInv, Working, Fresh
  <2>1. KeyInv(k) /\ txn[k] = "absent"
    BY <1>2, <1>7, <2>0, OpenIsNew DEF PostingInv, Fresh
  <2>2. EntriesOf(k)' = Pair(c)
    BY <1>0, <1>2, <1>7, <2>0, <2>1, EntriesAppearTogether DEF KeyInv, Fresh
  <2>3. txn'[k] = "posted"
    BY <1>0, <1>2 DEF MarkAsPosted, TypeOK
  <2>4. Posted(k) = {} /\ Posted(k)' = Effect(p)
    <3>1. Plain(Pair(c)) = Effect(p)
      BY <1>1, <1>3, PairIsEffect
    <3>2. Plain(EntriesOf(k))' = Plain(Pair(c))
      BY <2>2 DEF Plain
    <3>3. QED
      BY <2>1, <2>3, <3>1, <3>2 DEF Posted
  <2>5. [j \in Fresh |-> Posted(j)'] = [[j \in Fresh |-> Posted(j)] EXCEPT ![k] = Effect(p)]
    BY <1>6, <2>4
  <2>6. Abs!Perform(k, Effect(p))
    BY <1>4, <1>5, <1>7, <2>4, <2>5 DEF Abs!Perform, Accepted, Posted, Confirmed
  <2>7. QED
    BY <1>7, <2>6 DEF Abs!Next
<1>8. CASE k \notin Fresh
  BY <1>4, <1>5, <1>6, <1>8 DEF Abs!vars, Accepted, Posted, Confirmed
<1>9. QED
  BY <1>7, <1>8

(* A new call accepts the key it brings, if the key is fresh.              *)
LEMMA ReceiveAccepts ==
    ASSUME PostingInv, AnswerInv, NEW c \in Calls,
           NEW k \in Keys, NEW q \in Postings, Receive(c, k, q)
    PROVE  [Abs!Next]_(Abs!vars)
<1>0. TypeOK /\ Act(c) /\ pc[c] = "idle" /\ Key(c) = None
  BY DEF PostingInv, CallInv, RequestInv, Act, Receive
<1>1. pc'[c] # "posted"
  <2>1. Go(c, "find") \/ Go(c, "failed")
    BY DEF Receive
  <2>2. QED
    BY <1>0, <2>1 DEF Go, TypeOK
<1>2. \A d \in Calls : Key(d)' = IF d = c THEN k ELSE Key(d)
  BY <1>0 DEF Receive, Key, TypeOK
<1>3. Accepted' = Accepted \cup ({k} \cap Fresh)
  BY <1>0, <1>2, ValuesAssumption DEF Accepted, Fresh
<1>4. \A j \in Fresh : Posted(j)' = Posted(j)
  BY DEF Receive, stored, Posted, EntriesOf, Plain
<1>5. Confirmed' = Confirmed
  BY <1>0, <1>1, ConfirmedKept
<1>6. CASE k \in Fresh
  <2>1. Abs!Accept(k)
    BY <1>3, <1>4, <1>5, <1>6 DEF Abs!Accept, Accepted, Posted, Confirmed
  <2>2. QED
    BY <1>6, <2>1 DEF Abs!Next
<1>7. CASE k \notin Fresh
  <2>1. Accepted' = Accepted
    BY <1>3, <1>7
  <2>2. QED
    BY <1>4, <1>5, <2>1 DEF Abs!vars, Accepted, Posted, Confirmed
<1>8. QED
  BY <1>6, <1>7

(* Whatever else a call does is not visible to OutboundTask.               *)
LEMMA OtherStepsStutter ==
    ASSUME PostingInv, AnswerInv, NEW c \in Calls, Act(c),
           pc[c] # "idle", ~MarkAsPosted(c), pc'[c] # "posted"
    PROVE  UNCHANGED Abs!vars
<1>1. Accepted' = Accepted
  BY AcceptedKept
<1>2. Confirmed' = Confirmed
  BY ConfirmedKept
<1>3. \A k \in Fresh : Posted(k)' = Posted(k)
  BY EffectKept
<1>4. QED
  BY <1>1, <1>2, <1>3 DEF Abs!vars, Accepted, Posted, Confirmed

LEMMA LedgerStepSimulates ==
    ASSUME PostingInv, AnswerInv, AnswerInv', [Next]_vars
    PROVE  [Abs!Next]_(Abs!vars)
<1>1. CASE UNCHANGED vars
  BY <1>1 DEF vars, Abs!vars, Key, EntriesOf, Plain
<1>2. ASSUME NEW c \in Calls, Act(c)
      PROVE  [Abs!Next]_(Abs!vars)
  <2>0. TypeOK /\ RequestInv(c)
    BY DEF PostingInv, CallInv
  <2>1. CASE MarkAsPosted(c)
    BY <2>1, CommitPerforms
  <2>2. CASE ~MarkAsPosted(c) /\ pc'[c] = "posted"
    <3>1. UNCHANGED <<txn, entries, req>>
      BY <1>2, <2>0, <2>2, WhoAnswersPosted
    <3>2. QED
      BY <1>2, <2>2, <3>1, AnswerConfirms
  <2>3. CASE pc[c] = "idle"
    <3>1. PICK k \in Keys, q \in Postings : Receive(c, k, q)
      BY <1>2, <2>3 DEF Act, Step, FindExisting, CheckPartial, CreateLedgerTransaction,
         ResolveLedgerAccount, CreateEntry, ReadBalance, WriteBalance, MarkAsPosted,
         AnswerPosted, StatementFails, CallDies, DeadlockDetected, Deadlocked, WaitsFor,
         Active
    <3>2. QED
      BY <3>1, ReceiveAccepts
  <2>4. CASE pc[c] # "idle" /\ ~MarkAsPosted(c) /\ pc'[c] # "posted"
    BY <1>2, <2>4, OtherStepsStutter
  <2>5. QED
    BY <2>1, <2>2, <2>3, <2>4
<1>3. QED
  BY <1>1, <1>2 DEF Next, Act

(* For every key without a leftover row the ledger acts at most once, for  *)
(* a posting some call asked for, and answers posted only when it has: the *)
(* promise the accounts-service worker relies on when it retries.          *)
THEOREM LedgerImplementsOutboundTask == Spec => ImplementsOutboundTask
<1>1. Init => Abs!Init
  <2> SUFFICES ASSUME Init
               PROVE  Abs!Init
    OBVIOUS
  <2>1. \A c \in Calls : Key(c) = None /\ pc[c] = "idle"
    BY DEF Init, Key
  <2>2. \A k \in Fresh : txn[k] = "absent"
    BY DEF Init, Fresh
  <2>3. QED
    BY <2>1, <2>2, ValuesAssumption DEF Abs!Init, Fresh
<1>2. Init => AnswerInv
  BY DEF Init, AnswerInv
<1>3. PostingInv /\ AnswerInv /\ [Next]_vars => AnswerInv'
  BY AnswerStep
<1>4. PostingInv /\ AnswerInv /\ AnswerInv' /\ [Next]_vars => [Abs!Next]_(Abs!vars)
  BY LedgerStepSimulates
<1>5. QED
  BY <1>1, <1>2, <1>3, <1>4, PostingInvariant, PTL
     DEF Spec, ImplementsOutboundTask, Abs!Spec

-----------------------------------------------------------------------------
(* The stored balance is the sum of the entries.                           *)

\* What a committed entry adds to the balance of its account.
EntryAmount == [e \in Entry |-> Signed(e.type, e.amount)]

\* What the posting of a call adds to the balance of one of its accounts.
Ends(c)      == {req[c].posting.source, req[c].posting.destination}
Change(c, a) == IF a = req[c].posting.source THEN EntryAmount[EntryOn(c, "source")]
                                             ELSE EntryAmount[EntryOn(c, "destination")]

\* The accounts whose new balance is in the open transaction of a call.
Saved(c) == IF pc[c] = "mark" THEN Ends(c)
            ELSE IF pc[c] \in {"read", "write"} /\ side[c] = "destination"
            THEN {req[c].posting.source}
            ELSE {}

\* Outside a transaction nothing is kept back; a transaction holds the
\* balances it saved.
WorkInv(c) ==
    /\ ~work[c].open => work[c] = NoWork
    /\ work[c].open => \A a \in Accounts : HoldsBalance(c, a) <=> a \in Saved(c)

\* One call works on a balance at a time; what it read is still stored, and
\* what it will store is that plus its entry.
AccountInv(a) ==
    /\ Balance(a) = EntrySum(a)
    /\ \A c, d \in Calls : Using(c, a) /\ Using(d, a) => c = d
    /\ \A c \in Calls : pc[c] = "write" /\ Account(c) = a => seen[c] = balance[a]
    /\ \A c \in Calls : HoldsBalance(c, a) => work[c].balance[a] = Balance(a) + Change(c, a)

Settled == Accounts \ (overlapped \cup Completed)

BalanceInv ==
    /\ IsFiniteSet(entries)
    /\ \A c \in Calls : WorkInv(c)
    /\ \A a \in Settled : AccountInv(a)

(* AmountOf is the sum of EntryAmount.                                     *)
LEMMA AmountIsSum ==
    ASSUME NEW E \in SUBSET Entry
    PROVE  AmountOf(E) = Sum(EntryAmount, E)
<1> DEFINE P(g) == g = [s \in SUBSET E |->
                          IF s = {} THEN 0
                          ELSE Signed(Any(s).type, Any(s).amount) + g[s \ {Any(s)}]]
<1>1. AmountOf(E) = (CHOOSE g : P(g))[E]
  BY DEF AmountOf, MapThenSumSet, MapThenFoldSet, Any
<1>2. \A g : P(g) <=> IsSum(g, EntryAmount, E)
  <2>1. \A s \in SUBSET E :
           s # {} => Signed(Any(s).type, Any(s).amount) = EntryAmount[Any(s)]
    <3>1. TAKE s \in SUBSET E
    <3>2. s # {} => Any(s) \in Entry
      BY DEF Any
    <3> HIDE DEF P
    <3>3. QED
      BY <3>2 DEF EntryAmount
  <2>2. QED
    BY <2>1 DEF IsSum
<1>3. (CHOOSE g : P(g)) = (CHOOSE g : IsSum(g, EntryAmount, E))
  <2> HIDE DEF P
  <2>1. QED
    BY <1>2
<1>4. QED
  BY <1>1, <1>3, SumDef

LEMMA EntryAmountType ==
    \A e \in Entry : EntryAmount[e] \in Int
BY DEF EntryAmount, Signed, Entry

LEMMA EntrySumAdd ==
    ASSUME TypeOK, IsFiniteSet(entries), NEW a, NEW e \in Entry,
           e \notin entries, EntriesAt(a)' = EntriesAt(a) \cup {e}
    PROVE  EntrySum(a)' = EntrySum(a) + EntryAmount[e]
<1>1. EntriesAt(a) \subseteq Entry /\ e \notin EntriesAt(a)
  BY DEF EntriesAt, TypeOK
<1>2. IsFiniteSet(EntriesAt(a))
  BY FS_Subset DEF EntriesAt
<1>3. Sum(EntryAmount, EntriesAt(a) \cup {e}) = Sum(EntryAmount, EntriesAt(a)) + EntryAmount[e]
  BY <1>1, <1>2, EntryAmountType, SumAdd
<1>4. AmountOf(EntriesAt(a)) = Sum(EntryAmount, EntriesAt(a))
  BY <1>1, AmountIsSum
<1>5. AmountOf(EntriesAt(a)') = Sum(EntryAmount, EntriesAt(a) \cup {e})
  BY <1>1, AmountIsSum
<1>6. EntrySum(a)' = AmountOf(EntriesAt(a)')
  BY DEF EntrySum
<1>7. QED
  BY <1>3, <1>4, <1>5, <1>6 DEF EntrySum

LEMMA EntrySumSame ==
    ASSUME NEW a, EntriesAt(a)' = EntriesAt(a)
    PROVE  EntrySum(a)' = EntrySum(a)
BY DEF EntrySum

-----------------------------------------------------------------------------
(* What a step does to entries and balances.                               *)

Shared == <<entries, balance, overlapped>>

\* The call has no transaction and is at no statement of a posting.
Leaves(c) ==
    /\ pc'[c] \notin Working /\ work'[c] = NoWork
    /\ UNCHANGED Shared

\* It has written no balance yet.
Prepares(c) ==
    /\ pc'[c] \in {"resolve", "entry", "read"}
    /\ pc'[c] = "read" => side'[c] = "source" /\ work'[c].open
    /\ work'[c].balance = NoWork.balance
    /\ ~work'[c].open => work'[c] = NoWork
    /\ UNCHANGED Shared

\* One entry is committed by itself.
Inserts(c) ==
    /\ CreateEntry(c) /\ ~work[c].open
    /\ work'[c] = NoWork /\ req'[c] = req[c]
    /\ entries' = entries \cup {EntryOn(c, side[c])}
    /\ pc'[c] \in {"entry", "read"}
    /\ UNCHANGED <<balance, overlapped>>

\* The new balance is kept in the transaction.
Saves(c) ==
    /\ WriteBalance(c) /\ work[c].open
    /\ work'[c].open /\ req'[c] = req[c]
    /\ work'[c].balance = [work[c].balance EXCEPT ![Account(c)] = NewBalance(c)]
    /\ IF side[c] = "source" THEN pc'[c] = "read" /\ side'[c] = "destination"
                              ELSE pc'[c] = "mark" /\ side'[c] = "source"
    /\ UNCHANGED Shared

\* The new balance is committed by itself.
SavesAtOnce(c) ==
    /\ WriteBalance(c) /\ ~work[c].open
    /\ work'[c] = NoWork /\ req'[c] = req[c]
    /\ pc'[c] \in {"read", "mark"}
    /\ \A a \in Accounts \ {Account(c)} : balance'[a] = balance[a]
    /\ UNCHANGED <<entries, overlapped>>

Commits(c) ==
    /\ MarkAsPosted(c) /\ work[c].open
    /\ work'[c] = NoWork /\ req'[c] = req[c]
    /\ pc'[c] = "committed"
    /\ entries' = entries \cup Pair(c)
    /\ \A a \in Accounts : balance'[a] = IF HoldsBalance(c, a) THEN work[c].balance[a]
                                                              ELSE balance[a]
    /\ UNCHANGED overlapped

LEMMA NoWorkHoldsNothing ==
    /\ ~NoWork.open /\ NoWork.entries = {} /\ NoWork.accounts = {}
    /\ NoWork.balance = [a \in Accounts |-> None]
BY DEF NoWork

\* A transaction that has saved nothing has no balance in it.
LEMMA NothingSaved ==
    ASSUME TypeOK, NEW c \in Calls, WorkInv(c), pc[c] \in {"resolve", "entry"}
    PROVE  work[c].balance = NoWork.balance
<1>1. CASE work[c].open
  <2>1. Saved(c) = {}
    BY DEF Saved
  <2>2. \A a \in Accounts : work[c].balance[a] = None
    BY <1>1, <2>1 DEF WorkInv, HoldsBalance
  <2>3. work[c].balance \in [Accounts -> Int \cup {None}]
    BY DEF TypeOK, Work
  <2>4. work[c].balance = [a \in Accounts |-> None]
    BY <2>2, <2>3
  <2>5. QED
    BY <2>4, NoWorkHoldsNothing
<1>2. CASE ~work[c].open
  BY <1>2 DEF WorkInv
<1>3. QED
  BY <1>1, <1>2

\* Publishing a transaction without balances leaves the balances alone.
LEMMA PublishNoBalance ==
    ASSUME TypeOK, NEW w, Publish(w), w.balance = NoWork.balance
    PROVE  balance' = balance
<1>1. balance' = [a \in Accounts |-> balance[a]]
  BY NoWorkHoldsNothing DEF Publish
<1>2. QED
  BY <1>1 DEF TypeOK

\* The ten actions, as to entries and balances.
LEMMA StepKinds ==
    ASSUME PostingInv, NEW c \in Calls, CommittedInv(c), WorkInv(c), Act(c)
    PROVE  \/ Leaves(c) \/ Prepares(c) \/ Inserts(c) \/ ReadBalance(c)
           \/ Saves(c) \/ SavesAtOnce(c) \/ Commits(c)
<1>0. TypeOK /\ CallInv(c)
  BY DEF PostingInv
<1>a. ASSUME NEW a \in Answers, Rollback(c, a), UNCHANGED Shared
      PROVE  Leaves(c)
  BY <1>0, <1>a DEF Rollback, Leaves, TypeOK, Answers, Working
<1>b. pc[c] \notin Working => work[c] = NoWork
  BY <1>0 DEF CallInv, WorkInv
<1>1. ASSUME NEW k \in Keys, NEW p \in Postings, Receive(c, k, p)
      PROVE  Leaves(c)
  <2>1. pc[c] = "idle" /\ pc'[c] \in {"find", "failed"} /\ UNCHANGED <<Shared, work>>
    BY <1>0, <1>1 DEF Receive, Go, TypeOK, Shared, stored
  <2>2. QED
    BY <1>b, <2>1 DEF Leaves, Working
<1>2. CASE FindExisting(c)
  <2>1. txn[Key(c)] \in {"absent", "pending", "posted"}
    BY <1>0, <1>2 DEF FindExisting, CallInv, RequestInv, TypeOK
  <2>2. /\ pc[c] = "find" /\ pc'[c] \in {"posted", "partial", "create"}
        /\ UNCHANGED <<Shared, work>>
    BY <1>0, <1>2, <2>1 DEF FindExisting, Go, TypeOK, Shared, stored
  <2>3. QED
    BY <1>b, <2>2 DEF Leaves, Working
<1>3. CASE CheckPartial(c)
  <2>1. /\ pc[c] = "partial" /\ pc'[c] \in {"failed", "resolve"}
        /\ UNCHANGED <<Shared, work>>
    BY <1>0, <1>3 DEF CheckPartial, Go, TypeOK, Shared, stored
  <2>2. work'[c] = NoWork
    BY <1>b, <2>1 DEF Working
  <2>3. QED
    BY <2>1, <2>2 DEF Leaves, Prepares, Working
<1>4. CASE CreateLedgerTransaction(c)
  <2>1. CASE txn[Key(c)] = "absent"
    <3>1. /\ pc[c] = "create" /\ pc'[c] = "resolve" /\ UNCHANGED Shared
          /\ work'[c] = [work[c] EXCEPT !.open = TRUE]
      BY <1>0, <1>4, <2>1 DEF CreateLedgerTransaction, Go, TypeOK, Shared, stored
    <3>2. work[c] = NoWork
      BY <1>b, <3>1 DEF Working
    <3>3. work'[c].open /\ work'[c].balance = NoWork.balance
      BY <3>1, <3>2 DEF NoWork
    <3>4. QED
      BY <3>1, <3>3 DEF Prepares
  <2>2. CASE txn[Key(c)] # "absent"
    BY <1>4, <1>a, <2>2 DEF CreateLedgerTransaction, Answers, Shared, stored
  <2>3. QED
    BY <2>1, <2>2
<1>5. CASE ResolveLedgerAccount(c)
  <2>1. CASE side[c] = "destination" /\ SelfTransfer(c)
    BY <1>5, <1>a, <2>1 DEF ResolveLedgerAccount, RefuseSelfTransfer, Answers, Shared
  <2>2. CASE ~(side[c] = "destination" /\ SelfTransfer(c))
    <3> DEFINE w == [work[c] EXCEPT !.accounts = @ \cup {Account(c)}]
    <3>1. /\ NextSide(c, "resolve", "entry") /\ pc[c] = "resolve" /\ UNCHANGED overlapped
          /\ UNCHANGED <<entries, balance, work>> \/ Write(c, w)
      BY <1>5, <2>2 DEF ResolveLedgerAccount
    <3>2. pc'[c] \in {"resolve", "entry"}
      BY <1>0, <3>1 DEF NextSide, TypeOK
    <3>3. work[c].balance = NoWork.balance
      BY <1>0, <3>1, NothingSaved
    <3>4. w.open = work[c].open /\ w.balance = work[c].balance /\ w.entries = work[c].entries
      BY <1>0 DEF TypeOK, Work
    <3> HIDE DEF w
    <3>5. UNCHANGED <<entries, balance>> /\ (work'[c] = work[c] \/ (work[c].open /\ work'[c] = w))
      <4>1. CASE UNCHANGED <<entries, balance, work>>
        BY <4>1
      <4>2. CASE Write(c, w) /\ work[c].open
        BY <1>0, <4>2 DEF Write, TypeOK
      <4>3. CASE Write(c, w) /\ ~work[c].open
        <5>1. Publish(w) /\ UNCHANGED work
          BY <4>3 DEF Write
        <5>2. balance' = balance
          BY <1>0, <3>3, <3>4, <5>1, PublishNoBalance
        <5>3. entries' = entries
          BY <1>0, <3>4, <4>3, <5>1 DEF Publish, CallInv
        <5>4. QED
          BY <5>1, <5>2, <5>3
      <4>4. QED
        BY <3>1, <4>1, <4>2, <4>3
    <3>6. QED
      BY <3>1, <3>2, <3>3, <3>4, <3>5 DEF Prepares, Shared, WorkInv
  <2>3. QED
    BY <2>1, <2>2
<1>6. CASE CreateEntry(c)
  <2> DEFINE w == [work[c] EXCEPT !.entries = @ \cup {EntryOn(c, side[c])}]
  <2>1. /\ Write(c, w) /\ NextSide(c, "entry", "read")
        /\ UNCHANGED <<req, overlapped>> /\ pc[c] = "entry"
    BY <1>6 DEF CreateEntry, EntryOn, SideType, Account, Amount
  <2>2. pc'[c] \in {"entry", "read"} /\ (pc'[c] = "read" => side'[c] = "source")
    BY <1>0, <2>1 DEF NextSide, TypeOK
  <2>3. work[c].balance = NoWork.balance
    BY <1>0, <2>1, NothingSaved
  <2>4. /\ w.open = work[c].open /\ w.balance = work[c].balance
        /\ w.entries = work[c].entries \cup {EntryOn(c, side[c])}
    BY <1>0 DEF TypeOK, Work
  <2> HIDE DEF w
  <2>5. CASE work[c].open
    <3>1. work'[c] = w /\ UNCHANGED <<entries, balance>>
      BY <1>0, <2>1, <2>5 DEF Write, TypeOK
    <3>2. QED
      BY <2>1, <2>2, <2>3, <2>4, <2>5, <3>1 DEF Prepares, Shared
  <2>6. CASE ~work[c].open
    <3>1. Publish(w) /\ UNCHANGED work
      BY <2>1, <2>6 DEF Write
    <3>2. balance' = balance
      BY <1>0, <2>3, <2>4, <3>1, PublishNoBalance
    <3>3. entries' = entries \cup {EntryOn(c, side[c])}
      BY <1>0, <2>4, <2>6, <3>1 DEF Publish, CallInv
    <3>4. QED
      BY <1>6, <2>1, <2>2, <2>6, <3>1, <3>2, <3>3 DEF Inserts, WorkInv
  <2>7. QED
    BY <2>5, <2>6
<1>7. CASE WriteBalance(c)
  <2>1. CASE seen[c] = None /\ balance[Account(c)] # None
    BY <1>7, <1>a, <2>1 DEF WriteBalance, Answers, Shared
  <2>2. CASE ~(seen[c] = None /\ balance[Account(c)] # None)
    <3> DEFINE w == [work[c] EXCEPT !.balance[Account(c)] = NewBalance(c)]
    <3>1. /\ NextSide(c, "read", "mark") /\ UNCHANGED <<req, overlapped>>
          /\ Write(c, w) /\ pc[c] = "write"
      BY <1>7, <2>2 DEF WriteBalance, SaveBalance
    <3>2. /\ IF side[c] = "source" THEN pc'[c] = "read" /\ side'[c] = "destination"
                                   ELSE pc'[c] = "mark" /\ side'[c] = "source"
          /\ side[c] \in Sides
      BY <1>0, <3>1 DEF NextSide, TypeOK
    <3>3. /\ w.open = work[c].open /\ w.entries = work[c].entries
          /\ w.balance = [work[c].balance EXCEPT ![Account(c)] = NewBalance(c)]
      BY <1>0 DEF TypeOK, Work
    <3> HIDE DEF w
    <3>4. CASE work[c].open
      <4>1. work'[c] = w /\ UNCHANGED <<entries, balance>>
        BY <1>0, <3>1, <3>4 DEF Write, TypeOK
      <4>2. QED
        BY <1>7, <3>1, <3>2, <3>3, <3>4, <4>1 DEF Saves, Shared
    <3>5. CASE ~work[c].open
      <4>1. Publish(w) /\ UNCHANGED work /\ work[c] = NoWork
        BY <3>1, <3>5 DEF Write, WorkInv
      <4>2. \A a \in Accounts \ {Account(c)} : w.balance[a] = None
        BY <3>3, <4>1, NoWorkHoldsNothing
      <4>3. \A a \in Accounts \ {Account(c)} : balance'[a] = balance[a]
        BY <4>1, <4>2 DEF Publish
      <4>4. entries' = entries
        BY <3>3, <4>1, NoWorkHoldsNothing DEF Publish
      <4>5. QED
        BY <1>7, <3>1, <3>2, <3>5, <4>1, <4>3, <4>4 DEF SavesAtOnce
    <3>6. QED
      BY <3>4, <3>5
  <2>3. QED
    BY <2>1, <2>2
<1>8. CASE MarkAsPosted(c)
  <2>1. /\ pc[c] = "mark" /\ pc'[c] = "committed" /\ work'[c] = NoWork
        /\ Publish(work[c]) /\ UNCHANGED <<req, overlapped>>
    BY <1>0, <1>8 DEF MarkAsPosted, Go, TypeOK
  <2>2. CASE work[c].open
    <3>1. work[c].entries = Pair(c)
      BY <1>0, <2>1, <2>2 DEF CallInv, Written
    <3>2. QED
      BY <1>8, <2>1, <2>2, <3>1 DEF Commits, Publish, HoldsBalance
  <2>3. CASE ~work[c].open
    <3>1. work[c] = NoWork
      BY <2>3 DEF WorkInv
    <3>2. balance' = balance
      BY <1>0, <2>1, <3>1, PublishNoBalance
    <3>3. entries' = entries
      BY <2>1, <3>1, NoWorkHoldsNothing DEF Publish
    <3>4. QED
      BY <2>1, <3>2, <3>3 DEF Leaves, Working, Shared
  <2>4. QED
    BY <2>2, <2>3
<1>9. CASE AnswerPosted(c)
  <2>1. pc[c] = "committed" /\ pc'[c] = "posted" /\ UNCHANGED <<Shared, work>>
    BY <1>0, <1>9 DEF AnswerPosted, Go, TypeOK, Shared, stored
  <2>2. QED
    BY <1>b, <2>1 DEF Leaves, Working
<1>10. CASE StatementFails(c) \/ CallDies(c) \/ DeadlockDetected(c)
  BY <1>10, <1>a DEF StatementFails, CallDies, DeadlockDetected, AnswerOfError, Answers,
                     Shared, stored
<1>11. QED
  BY <1>1, <1>2, <1>3, <1>4, <1>5, <1>6, <1>7, <1>8, <1>9, <1>10 DEF Act, Step

-----------------------------------------------------------------------------
(* The steps.                                                              *)

\* A call that completes a leftover row works on accounts that have an entry
\* of such a row.
LEMMA LeftoverEnds ==
    ASSUME NEW c \in Calls, CallInv(c), CommittedInv(c),
           ~work[c].open, pc[c] \in {"read", "write", "mark"}
    PROVE  Ends(c) \subseteq Completed
<1>1. Key(c) \in Leftover
  BY DEF CallInv, Working
<1>2. Pair(c) \subseteq entries
  BY DEF CommittedInv, Committed, Written, Working
<1>3. \A s \in Sides : /\ EntryOn(c, s) \in entries /\ EntryOn(c, s).key \in Leftover
                        /\ EntryOn(c, s).account = req[c].posting[s]
  BY <1>1, <1>2 DEF Pair, EntryOn, Sides
<1>4. \A s \in Sides : req[c].posting[s] \in Completed
  BY <1>3 DEF Completed
<1>5. QED
  BY <1>4 DEF Ends, Sides

\* What a call read is its own.
LEMMA OthersSeen ==
    ASSUME TypeOK, NEW c \in Calls, Act(c), NEW d \in Calls \ {c}
    PROVE  seen'[d] = seen[d]
<1>1. ASSUME NEW a, Rollback(c, a) PROVE seen'[d] = seen[d]
  BY <1>1 DEF Rollback, TypeOK
<1>2. CASE CreateLedgerTransaction(c)
  BY <1>1, <1>2 DEF CreateLedgerTransaction
<1>3. CASE ResolveLedgerAccount(c)
  BY <1>1, <1>3 DEF ResolveLedgerAccount, RefuseSelfTransfer
<1>4. CASE ReadBalance(c)
  BY <1>4 DEF ReadBalance, TypeOK
<1>5. CASE WriteBalance(c)
  <2>1. \/ Rollback(c, "failed") \/ seen' = [seen EXCEPT ![c] = None]
    BY <1>5 DEF WriteBalance
  <2>2. QED
    BY <1>1, <2>1 DEF TypeOK
<1>6. CASE StatementFails(c) \/ CallDies(c) \/ DeadlockDetected(c)
  BY <1>1, <1>6 DEF StatementFails, CallDies, DeadlockDetected
<1>7. QED
  BY <1>2, <1>3, <1>4, <1>5, <1>6
     DEF Act, Step, Receive, FindExisting, CheckPartial, CreateEntry, MarkAsPosted, AnswerPosted

\* Where a call that is at a balance stands.
LEMMA AtBalance ==
    ASSUME PostingInv, NEW c \in Calls, pc[c] \in {"read", "write", "mark"}
    PROVE  /\ Key(c) \in Keys /\ req[c].posting \in Postings /\ ~SelfTransfer(c)
           /\ Account(c) \in Accounts /\ Ends(c) \subseteq Accounts
           /\ Account(c) = IF side[c] = "source" THEN req[c].posting.source
                                                 ELSE req[c].posting.destination
           /\ req[c].posting.source # req[c].posting.destination
           /\ EntryOn(c, "source") \in Entry /\ EntryOn(c, "destination") \in Entry
           /\ side[c] \in Sides
<1>1. TypeOK /\ CallInv(c)
  BY DEF PostingInv
<1>2. Key(c) \in Keys /\ req[c].posting \in Postings /\ ~SelfTransfer(c) /\ side[c] \in Sides
  BY <1>1 DEF CallInv, RequestInv, TypeOK
<1>3. req[c].posting.source \in Accounts /\ req[c].posting.destination \in Accounts
  BY <1>2, PostingsAssumption
<1>4. /\ Account(c) = IF side[c] = "source" THEN req[c].posting.source
                                             ELSE req[c].posting.destination
      /\ req[c].posting.source # req[c].posting.destination
  BY <1>2 DEF Account, Sides, SelfTransfer
<1>5. EntryOn(c, "source") \in Entry /\ EntryOn(c, "destination") \in Entry
  BY <1>2, EntryOnType DEF Sides
<1>6. QED
  BY <1>2, <1>3, <1>4, <1>5 DEF Ends

\* What WriteBalance stores is a number.
LEMMA NewBalanceIs ==
    ASSUME PostingInv, NEW c \in Calls, pc[c] = "write"
    PROVE  /\ NewBalance(c) \in Int
           /\ NewBalance(c) = (IF seen[c] = None THEN 0 ELSE seen[c]) + Change(c, Account(c))
<1>1. /\ Account(c) = IF side[c] = "source" THEN req[c].posting.source
                                            ELSE req[c].posting.destination
      /\ req[c].posting.source # req[c].posting.destination
      /\ EntryOn(c, "source") \in Entry /\ EntryOn(c, "destination") \in Entry
      /\ side[c] \in Sides
  BY AtBalance
<1>2. seen[c] = None \/ seen[c] \in Int
  BY DEF PostingInv, TypeOK
<1>3. \A s \in Sides : EntryAmount[EntryOn(c, s)] = Signed(EntryOn(c, s).type, EntryOn(c, s).amount)
  BY <1>1 DEF EntryAmount, Sides
<1>4. Signed(SideType(c), Amount(c)) = EntryAmount[EntryOn(c, side[c])]
  BY <1>1, <1>3 DEF EntryOn, SideType, Amount, Account
<1>5. Change(c, Account(c)) = EntryAmount[EntryOn(c, side[c])]
  BY <1>1 DEF Change, Sides
<1>6. EntryAmount[EntryOn(c, side[c])] \in Int
  BY <1>1, EntryAmountType DEF Sides
<1>7. QED
  BY <1>2, <1>4, <1>5, <1>6 DEF NewBalance

\* A call comes to use a balance by reading it.
LEMMA UsingByStep ==
    ASSUME PostingInv, NEW c \in Calls, CommittedInv(c), WorkInv(c), Act(c), NEW a \in Accounts
    PROVE  Using(c, a)' => Using(c, a) \/ (ReadBalance(c) /\ Account(c) = a)
<1>0. TypeOK
  BY DEF PostingInv
<1>1. work'[c].balance = NoWork.balance => ~HoldsBalance(c, a)'
  BY NoWorkHoldsNothing DEF HoldsBalance
<1>2. CASE Leaves(c) \/ Prepares(c) \/ Inserts(c) \/ SavesAtOnce(c) \/ Commits(c)
  <2>1. work'[c].balance = NoWork.balance /\ pc'[c] # "write"
    BY <1>2 DEF Leaves, Prepares, Inserts, SavesAtOnce, Commits, Working
  <2>2. QED
    BY <1>1, <2>1 DEF Using
<1>3. CASE ReadBalance(c)
  <2>1. UNCHANGED <<work, req, side>>
    BY <1>3 DEF ReadBalance, Go
  <2>2. QED
    BY <1>3, <2>1 DEF Using, HoldsBalance, Account
<1>4. CASE Saves(c)
  <2>1. /\ work'[c].balance = [work[c].balance EXCEPT ![Account(c)] = NewBalance(c)]
        /\ pc'[c] # "write" /\ pc[c] = "write"
        /\ work[c].balance \in [Accounts -> Int \cup {None}]
    BY <1>0, <1>4 DEF Saves, WriteBalance, TypeOK, Work
  <2>2. a # Account(c) => work'[c].balance[a] = work[c].balance[a]
    BY <2>1
  <2>3. QED
    BY <2>1, <2>2 DEF Using, HoldsBalance
<1>5. QED
  BY <1>2, <1>3, <1>4, StepKinds

LEMMA OwnWorkKept ==
    ASSUME PostingInv, NEW c \in Calls, CommittedInv(c), WorkInv(c), Act(c)
    PROVE  WorkInv(c)'
<1>0. TypeOK
  BY DEF PostingInv
<1>1. CASE Leaves(c) \/ Inserts(c) \/ SavesAtOnce(c) \/ Commits(c)
  BY <1>1, NoWorkHoldsNothing DEF Leaves, Inserts, SavesAtOnce, Commits, WorkInv
<1>2. CASE Prepares(c)
  <2>1. Saved(c)' = {}
    BY <1>2 DEF Prepares, Saved
  <2>2. \A a \in Accounts : ~HoldsBalance(c, a)'
    BY <1>2, NoWorkHoldsNothing DEF Prepares, HoldsBalance
  <2>3. QED
    BY <1>2, <2>1, <2>2 DEF Prepares, WorkInv
<1>3. CASE ReadBalance(c)
  <2>1. UNCHANGED <<work, req, side>> /\ pc[c] = "read" /\ pc'[c] = "write"
    BY <1>0, <1>3 DEF ReadBalance, Go, TypeOK
  <2>2. Saved(c)' = Saved(c)
    BY <2>1 DEF Saved
  <2>3. \A a \in Accounts : HoldsBalance(c, a)' <=> HoldsBalance(c, a)
    BY <2>1 DEF HoldsBalance
  <2>4. QED
    BY <2>1, <2>2, <2>3 DEF WorkInv
<1>4. CASE Saves(c)
  <2>1. /\ work[c].open /\ work'[c].open /\ req'[c] = req[c] /\ pc[c] = "write"
        /\ work'[c].balance = [work[c].balance EXCEPT ![Account(c)] = NewBalance(c)]
        /\ IF side[c] = "source" THEN pc'[c] = "read" /\ side'[c] = "destination"
                                 ELSE pc'[c] = "mark" /\ side'[c] = "source"
    BY <1>4 DEF Saves, WriteBalance
  <2>2. /\ work[c].balance \in [Accounts -> Int \cup {None}]
        /\ NewBalance(c) # None
    BY <1>0, <2>1, NewBalanceIs, ValuesAssumption DEF TypeOK, Work
  <2>3. /\ Account(c) \in Accounts /\ side[c] \in Sides
        /\ Account(c) = IF side[c] = "source" THEN req[c].posting.source
                                              ELSE req[c].posting.destination
    BY <2>1, AtBalance
  <2>4. \A a \in Accounts : HoldsBalance(c, a)' <=> HoldsBalance(c, a) \/ a = Account(c)
    BY <2>1, <2>2, <2>3 DEF HoldsBalance
  <2>5. \A a \in Accounts : HoldsBalance(c, a) <=> a \in Saved(c)
    BY <2>1 DEF WorkInv
  <2>6. Saved(c)' = Saved(c) \cup {Account(c)}
    BY <2>1, <2>3 DEF Saved, Ends, Sides
  <2>7. QED
    BY <2>1, <2>4, <2>5, <2>6 DEF WorkInv
<1>5. QED
  BY <1>1, <1>2, <1>3, <1>4, StepKinds

\* A step of another call leaves a call's transaction as it is.
LEMMA OtherWorkKept ==
    ASSUME TypeOK, NEW c \in Calls, Act(c), NEW d \in Calls \ {c}
    PROVE  /\ WorkInv(d) => WorkInv(d)'
           /\ \A a : /\ Using(d, a)' <=> Using(d, a)
                     /\ HoldsBalance(d, a)' <=> HoldsBalance(d, a)
                     /\ Change(d, a)' = Change(d, a)
           /\ Account(d)' = Account(d)
<1>1. pc'[d] = pc[d] /\ side'[d] = side[d] /\ req'[d] = req[d] /\ work'[d] = work[d]
  BY OthersStay
<1>2. /\ EntryOn(d, "source")' = EntryOn(d, "source")
      /\ EntryOn(d, "destination")' = EntryOn(d, "destination")
      /\ Account(d)' = Account(d)
  BY <1>1 DEF EntryOn, Key, Account
<1>3. Saved(d)' = Saved(d)
  BY <1>1 DEF Saved, Ends
<1>4. \A a : HoldsBalance(d, a)' <=> HoldsBalance(d, a)
  BY <1>1 DEF HoldsBalance
<1>5. \A a : Using(d, a)' <=> Using(d, a)
  BY <1>1, <1>2, <1>4 DEF Using
<1>6. \A a : Change(d, a)' = Change(d, a)
  BY <1>1, <1>2 DEF Change, EntryAmount
<1>7. QED
  BY <1>1, <1>2, <1>3, <1>4, <1>5, <1>6 DEF WorkInv

\* Entries only come, two at a time at most, and no account settles again.
LEMMA EntriesGrow ==
    ASSUME PostingInv, NEW c \in Calls, CommittedInv(c), WorkInv(c), Act(c)
    PROVE  /\ entries \subseteq entries' /\ overlapped \subseteq overlapped'
           /\ Completed \subseteq Completed' /\ Settled' \subseteq Settled
           /\ IsFiniteSet(entries) => IsFiniteSet(entries')
<1>1. \/ entries' = entries
      \/ \E e : entries' = entries \cup {e}
      \/ entries' = (entries \cup {EntryOn(c, "source")}) \cup {EntryOn(c, "destination")}
  <2>1. CASE ReadBalance(c)
    BY <2>1 DEF ReadBalance, stored
  <2>2. CASE Commits(c)
    BY <2>2 DEF Commits, Pair
  <2>3. QED
    BY <2>1, <2>2, StepKinds DEF Leaves, Prepares, Inserts, Saves, SavesAtOnce, Shared
<1>2. overlapped \subseteq overlapped'
  <2>1. CASE ReadBalance(c)
    BY <2>1 DEF ReadBalance
  <2>2. QED
    BY <2>1, StepKinds DEF Leaves, Prepares, Inserts, Saves, SavesAtOnce, Commits, Shared
<1>3. entries \subseteq entries'
  BY <1>1
<1>4. Completed \subseteq Completed'
  BY <1>3 DEF Completed
<1>5. IsFiniteSet(entries) => IsFiniteSet(entries')
  <2>1. \A E, e : IsFiniteSet(E) => IsFiniteSet(E \cup {e})
    BY FS_AddElement
  <2>2. QED
    BY <1>1, <2>1
<1>6. QED
  BY <1>2, <1>3, <1>4, <1>5 DEF Settled

\* A commit adds the amount of its entry to each side of the posting.
LEMMA CommitAdds ==
    ASSUME PostingInv, NEW c \in Calls, CommittedInv(c), IsFiniteSet(entries), Commits(c), NEW a
    PROVE  EntrySum(a)' = IF a \in Ends(c) THEN EntrySum(a) + Change(c, a) ELSE EntrySum(a)
<1> DEFINE from == EntryOn(c, "source")
           to   == EntryOn(c, "destination")
<1>1. pc[c] = "mark" /\ work[c].open /\ entries' = entries \cup {from, to} /\ TypeOK
  BY DEF Commits, MarkAsPosted, Pair, PostingInv
<1>2. /\ from \in Entry /\ to \in Entry
      /\ req[c].posting.source # req[c].posting.destination
  BY <1>1, AtBalance
<1>3. /\ from.account = req[c].posting.source /\ to.account = req[c].posting.destination
      /\ from.call = c /\ to.call = c
  BY DEF EntryOn
<1>4. from \notin entries /\ to \notin entries
  BY <1>1, <1>3 DEF CommittedInv, Committed, Working
<1> HIDE DEF from, to
<1>5. EntriesAt(a)' = IF a = req[c].posting.source THEN EntriesAt(a) \cup {from}
                      ELSE IF a = req[c].posting.destination THEN EntriesAt(a) \cup {to}
                      ELSE EntriesAt(a)
  BY <1>1, <1>2, <1>3 DEF EntriesAt
<1>6. CASE a = req[c].posting.source
  BY <1>1, <1>2, <1>4, <1>5, <1>6, EntrySumAdd DEF Ends, Change, from
<1>7. CASE a = req[c].posting.destination
  BY <1>1, <1>2, <1>4, <1>5, <1>7, EntrySumAdd DEF Ends, Change, to
<1>8. CASE a \notin Ends(c)
  BY <1>5, <1>8, EntrySumSame DEF Ends
<1>9. QED
  BY <1>6, <1>7, <1>8 DEF Ends

LEMMA AccountKept ==
    ASSUME PostingInv, CompleteInv, BalanceInv, NEW c \in Calls, Act(c), NEW a \in Settled'
    PROVE  AccountInv(a)'
<1>0. TypeOK /\ CommittedInv(c) /\ WorkInv(c) /\ CallInv(c) /\ IsFiniteSet(entries)
  BY DEF PostingInv, CompleteInv, BalanceInv
<1>1. a \in Accounts /\ a \notin overlapped' /\ a \notin Completed'
  BY DEF Settled
<1>2. /\ Completed \subseteq Completed' /\ a \notin Completed
      /\ AccountInv(a)
  BY <1>0, <1>1, EntriesGrow DEF BalanceInv
<1>3. \/ Leaves(c) \/ Prepares(c) \/ Inserts(c) \/ ReadBalance(c)
      \/ Saves(c) \/ SavesAtOnce(c) \/ Commits(c)
  BY <1>0, StepKinds
<1>4. ~Commits(c) => balance'[a] = balance[a] /\ EntriesAt(a)' = EntriesAt(a)
  <2>1. CASE UNCHANGED <<entries, balance>>
    BY <2>1 DEF EntriesAt
  <2>2. CASE Inserts(c)
    <3>1. EntryOn(c, side[c]) \in entries' /\ EntryOn(c, side[c]).key \in Leftover
      BY <1>0, <2>2 DEF Inserts, CreateEntry, CallInv, Working, EntryOn
    <3>2. EntryOn(c, side[c]).account \in Completed'
      BY <3>1 DEF Completed
    <3>3. EntriesAt(a)' = EntriesAt(a)
      BY <1>1, <2>2, <3>2 DEF Inserts, EntriesAt
    <3>4. QED
      BY <2>2, <3>3 DEF Inserts
  <2>3. CASE SavesAtOnce(c)
    <3>1. pc[c] = "write" /\ ~work[c].open
      BY <2>3 DEF SavesAtOnce, WriteBalance
    <3>2. Account(c) \in Completed
      BY <1>0, <3>1, LeftoverEnds, AtBalance DEF Ends
    <3>3. balance'[a] = balance[a]
      BY <1>1, <1>2, <2>3, <3>2 DEF SavesAtOnce
    <3>4. QED
      BY <2>3, <3>3 DEF SavesAtOnce, EntriesAt
  <2>4. QED
    BY <1>3, <2>1, <2>2, <2>3 DEF Leaves, Prepares, ReadBalance, Saves, Shared, stored
<1>5. Commits(c) => /\ pc[c] = "mark" /\ work[c].open
                    /\ HoldsBalance(c, a) <=> a \in Ends(c)
                    /\ balance'[a] = IF HoldsBalance(c, a) THEN work[c].balance[a] ELSE balance[a]
  BY <1>0, <1>1 DEF Commits, MarkAsPosted, WorkInv, Saved
<1>6. Balance(a)' = EntrySum(a)'
  <2>1. Balance(a) = EntrySum(a)
    BY <1>2 DEF AccountInv
  <2>2. CASE Commits(c)
    <3>1. EntrySum(a)' = IF a \in Ends(c) THEN EntrySum(a) + Change(c, a) ELSE EntrySum(a)
      BY <1>0, <2>2, CommitAdds
    <3>2. HoldsBalance(c, a) => work[c].balance[a] = Balance(a) + Change(c, a)
      BY <1>2 DEF AccountInv
    <3>3. CASE a \in Ends(c)
      BY <1>5, <2>1, <2>2, <3>1, <3>2, <3>3 DEF Balance, HoldsBalance
    <3>4. CASE a \notin Ends(c)
      BY <1>5, <2>1, <2>2, <3>1, <3>4 DEF Balance
    <3>5. QED
      BY <3>3, <3>4
  <2>3. CASE ~Commits(c)
    BY <1>4, <2>1, <2>3, EntrySumSame DEF Balance
  <2>4. QED
    BY <2>2, <2>3
<1>7. \A d, e \in Calls : Using(d, a) /\ Using(e, a) => d = e
  BY <1>2 DEF AccountInv
<1>8. \A d \in Calls \ {c} : /\ Using(d, a)' <=> Using(d, a)
                             /\ HoldsBalance(d, a)' <=> HoldsBalance(d, a)
                             /\ Change(d, a)' = Change(d, a) /\ Account(d)' = Account(d)
                             /\ pc'[d] = pc[d] /\ seen'[d] = seen[d] /\ work'[d] = work[d]
  BY <1>0, OtherWorkKept, OthersSeen, OthersStay
<1>9. ASSUME NEW d \in Calls \ {c}, Using(d, a)'
      PROVE  ~Using(c, a)' /\ ~Using(c, a)
  <2>1. Using(d, a) /\ ~Using(c, a)
    BY <1>7, <1>8, <1>9
  <2>2. ReadBalance(c) /\ Account(c) = a => a \in overlapped'
    BY <2>1 DEF ReadBalance
  <2>3. QED
    BY <1>0, <1>1, <2>1, <2>2, UsingByStep
<1>10. (\A d, e \in Calls : Using(d, a) /\ Using(e, a) => d = e)'
  <2>1. ASSUME NEW d \in Calls, NEW e \in Calls, Using(d, a)', Using(e, a)', d # e PROVE FALSE
    BY <1>7, <1>8, <1>9, <2>1
  <2>2. QED
    BY <2>1
<1>11. ASSUME NEW d \in Calls \ {c}, Using(d, a)'
       PROVE  balance'[a] = balance[a]
  BY <1>4, <1>5, <1>9, <1>11 DEF Using
<1>12. (\A d \in Calls : pc[d] = "write" /\ Account(d) = a => seen[d] = balance[a])'
  <2>1. ASSUME NEW d \in Calls, pc'[d] = "write", Account(d)' = a PROVE seen'[d] = balance'[a]
    <3>1. CASE d = c
      <4>1. ReadBalance(c)
        BY <1>3, <2>1, <3>1 DEF Leaves, Prepares, Inserts, Saves, SavesAtOnce, Commits, Working
      <4>2. Account(c)' = Account(c)
        BY <4>1 DEF ReadBalance, Go, Account
      <4>3. QED
        BY <1>0, <2>1, <3>1, <4>1, <4>2 DEF ReadBalance, TypeOK, stored
    <3>2. CASE d # c
      <4>1. pc[d] = "write" /\ Account(d) = a /\ Using(d, a)'
        BY <1>8, <2>1, <3>2 DEF Using
      <4>2. seen[d] = balance[a]
        BY <1>2, <4>1 DEF AccountInv
      <4>3. QED
        BY <1>8, <1>11, <3>2, <4>1, <4>2
    <3>3. QED
      BY <3>1, <3>2
  <2>2. QED
    BY <2>1
<1>13. (\A d \in Calls : HoldsBalance(d, a) => work[d].balance[a] = Balance(a) + Change(d, a))'
  <2>1. ASSUME NEW d \in Calls, HoldsBalance(d, a)'
        PROVE  work'[d].balance[a] = Balance(a)' + Change(d, a)'
    <3>1. CASE d = c
      <4>1. CASE ReadBalance(c)
        <5>1. UNCHANGED <<work, req, balance>>
          BY <4>1 DEF ReadBalance, stored
        <5>2. HoldsBalance(c, a) /\ Change(c, a)' = Change(c, a) /\ Balance(a)' = Balance(a)
          BY <2>1, <3>1, <5>1 DEF HoldsBalance, Change, EntryOn, Key, EntryAmount, Balance
        <5>3. QED
          BY <1>2, <3>1, <5>1, <5>2 DEF AccountInv
      <4>2. CASE Saves(c)
        <5>1. /\ work'[c].balance = [work[c].balance EXCEPT ![Account(c)] = NewBalance(c)]
              /\ work[c].balance \in [Accounts -> Int \cup {None}] /\ pc[c] = "write"
              /\ req'[c] = req[c] /\ balance' = balance
          BY <1>0, <4>2 DEF Saves, WriteBalance, Shared, TypeOK, Work
        <5>2. Change(c, a)' = Change(c, a) /\ Balance(a)' = Balance(a)
          BY <5>1 DEF Change, EntryOn, Key, EntryAmount, Balance
        <5>3. CASE a = Account(c)
          <6>1. work'[c].balance[a] = NewBalance(c)
            BY <1>1, <5>1, <5>3
          <6>2. seen[c] = balance[a]
            BY <1>2, <5>1, <5>3 DEF AccountInv
          <6>3. QED
            BY <3>1, <5>1, <5>2, <5>3, <6>1, <6>2, NewBalanceIs DEF Balance
        <5>4. CASE a # Account(c)
          <6>1. work'[c].balance[a] = work[c].balance[a] /\ HoldsBalance(c, a)
            BY <1>1, <2>1, <3>1, <5>1, <5>4 DEF HoldsBalance
          <6>2. QED
            BY <1>2, <3>1, <5>2, <6>1 DEF AccountInv
        <5>5. QED
          BY <5>3, <5>4
      <4>3. CASE Leaves(c) \/ Prepares(c) \/ Inserts(c) \/ SavesAtOnce(c) \/ Commits(c)
        <5>1. work'[c].balance = NoWork.balance
          BY <4>3 DEF Leaves, Prepares, Inserts, SavesAtOnce, Commits
        <5>2. QED
          BY <1>1, <2>1, <3>1, <5>1, NoWorkHoldsNothing DEF HoldsBalance
      <4>4. QED
        BY <1>3, <4>1, <4>2, <4>3
    <3>2. CASE d # c
      <4>1. HoldsBalance(d, a) /\ Using(d, a)'
        BY <1>8, <2>1, <3>2 DEF Using
      <4>2. work[d].balance[a] = Balance(a) + Change(d, a)
        BY <1>2, <4>1 DEF AccountInv
      <4>3. Balance(a)' = Balance(a)
        BY <1>11, <3>2, <4>1 DEF Balance
      <4>4. QED
        BY <1>8, <3>2, <4>2, <4>3
    <3>3. QED
      BY <3>1, <3>2
  <2>2. QED
    BY <2>1
<1>14. QED
  BY <1>6, <1>10, <1>12, <1>13 DEF AccountInv

LEMMA BalanceStart == Init => BalanceInv
<1> SUFFICES ASSUME Init PROVE BalanceInv
  OBVIOUS
<1>1. IsFiniteSet(entries)
  BY FS_EmptySet DEF Init
<1>2. \A c \in Calls : WorkInv(c)
  BY NoWorkHoldsNothing DEF Init, WorkInv
<1>3. ASSUME NEW a \in Settled PROVE AccountInv(a)
  <2>1. Balance(a) = 0 /\ a \in Accounts
    BY DEF Init, Balance, Settled
  <2>2. EntriesAt(a) = {}
    BY DEF Init, EntriesAt
  <2>3. EntrySum(a) = 0
    BY <2>2, AmountIsSum, SumEmpty DEF EntrySum
  <2>4. \A c \in Calls : pc[c] = "idle" /\ ~HoldsBalance(c, a)
    BY <2>1, NoWorkHoldsNothing DEF Init, HoldsBalance
  <2>5. QED
    BY <2>1, <2>3, <2>4 DEF AccountInv, Using
<1>4. QED
  BY <1>1, <1>2, <1>3 DEF BalanceInv

LEMMA BalanceStep == PostingInv /\ CompleteInv /\ BalanceInv /\ [Next]_vars => BalanceInv'
<1> SUFFICES ASSUME PostingInv, CompleteInv, BalanceInv, [Next]_vars PROVE BalanceInv'
  OBVIOUS
<1>1. CASE UNCHANGED vars
  <2>1. \A c \in Calls, a \in Accounts :
           /\ HoldsBalance(c, a)' <=> HoldsBalance(c, a)
           /\ Using(c, a)' <=> Using(c, a)
           /\ Change(c, a)' = Change(c, a) /\ Account(c)' = Account(c)
    BY <1>1 DEF vars, HoldsBalance, Using, Account, Change, EntryOn, Key, EntryAmount
  <2>2. ASSUME NEW c \in Calls PROVE WorkInv(c)'
    <3>1. Saved(c)' = Saved(c) /\ WorkInv(c)
      BY <1>1 DEF vars, Saved, Ends, BalanceInv
    <3>2. QED
      BY <1>1, <2>1, <3>1 DEF vars, WorkInv
  <2>3. ASSUME NEW a \in Settled' PROVE AccountInv(a)'
    <3>1. a \in Accounts /\ AccountInv(a)
      BY <1>1 DEF vars, Settled, Completed, BalanceInv
    <3>2. Balance(a)' = Balance(a) /\ EntrySum(a)' = EntrySum(a)
      BY <1>1, EntrySumSame DEF vars, Balance, EntriesAt
    <3>3. QED
      BY <1>1, <2>1, <3>1, <3>2 DEF vars, AccountInv
  <2>4. QED
    BY <1>1, <2>2, <2>3 DEF vars, BalanceInv
<1>2. ASSUME NEW c \in Calls, Act(c) PROVE BalanceInv'
  <2>1. TypeOK /\ CommittedInv(c) /\ WorkInv(c)
    BY DEF PostingInv, CompleteInv, BalanceInv
  <2>2. IsFiniteSet(entries')
    BY <1>2, <2>1, EntriesGrow DEF BalanceInv
  <2>3. \A d \in Calls : WorkInv(d)'
    BY <1>2, <2>1, OwnWorkKept, OtherWorkKept DEF BalanceInv
  <2>4. \A a \in Settled' : AccountInv(a)'
    BY <1>2, AccountKept
  <2>5. QED
    BY <2>2, <2>3, <2>4 DEF BalanceInv
<1>3. QED
  BY <1>1, <1>2 DEF Next, Act

(* The stored balance of an account is the sum of its committed entries,   *)
(* whatever calls raced, failed or died, unless two calls were between     *)
(* reading and committing it at a time, or a pending row of it was         *)
(* completed statement by statement (AccountBalance.update_balance!).      *)
THEOREM BalancesFollowEntries == Spec => []BalanceFollowsEntries
<1>1. Init => CompleteInv
  BY DEF Init, CompleteInv, CommittedInv, Committed, Silent, Working
<1>2. PostingInv /\ CompleteInv /\ BalanceInv /\ [Next]_vars => CompleteInv' /\ BalanceInv'
  BY CompleteStep, BalanceStep
<1>3. BalanceInv => BalanceFollowsEntries
  BY DEF BalanceInv, AccountInv, BalanceFollowsEntries, Settled
<1>4. QED
  BY <1>1, <1>2, <1>3, BalanceStart, PostingInvariant, PTL DEF Spec
=============================================================================
