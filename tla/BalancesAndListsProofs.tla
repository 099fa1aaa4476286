----------------------- MODULE BalancesAndListsProofs -----------------------
(***************************************************************************)
(* Theorems about what clients of the money endpoints are shown.           *)
(*                                                                         *)
(* The ledger's balances.  LedgerInv: an account that no two postings have *)
(* worked on at once has what the posted transactions did to it, and an    *)
(* open posting has read that (Reads).  Both Overdraft and                 *)
(* TransactionHistory rest on it.                                          *)
(*                                                                         *)
(* Overdraft.  The check is right when it is made: of a debit that was let *)
(* through without the money the account was undercut since, for while it  *)
(* was not, its balance (Covered) and what an open posting has read of it  *)
(* (Funded) only go up (CheckInv).                                         *)
(*                                                                         *)
(* TransactionHistory.  A balance walked back over the newer rows is that  *)
(* of the older ones (WalkBackArrives).  HistoryInv: the rows of a list    *)
(* agree with the ledger and leave out nothing newer (Agrees), and the     *)
(* balances that were read are still those of the moment the rows were     *)
(* read (PresentBalances), of accounts no two postings worked on at once.  *)
(*                                                                         *)
(* Paging.  A row stands in its list at a rank, the number of rows before  *)
(* it, and a page is the rows of some ranks.  ListInv: what a client has   *)
(* read up to a page are the rows of smaller ranks (Ahead, Exact), and the *)
(* total it is told counted the list (Counted).                            *)
(***************************************************************************)
EXTENDS Overdraft, TransactionHistory, Paging, Sums, SequenceTheorems

-----------------------------------------------------------------------------
(* The ledger's balances: sums of what transactions did to an account.     *)

EffectOn(a) == [t \in Txns |-> Effect(t, a)]

LEMMA PaymentType ==
    ASSUME NEW t \in Txns
    PROVE  /\ Payments[t].amount \in Nat \ {0}
           /\ Payments[t].from \in Parties /\ Payments[t].to \in Parties
           /\ Payments[t].kind \in {"deposit", "withdraw", "transfer"}
           /\ Payments[t].kind = "transfer" <=> Payments[t].from # Payments[t].to
BY PaymentsAssumption DEF Payment

LEMMA SidesType ==
    ASSUME NEW t \in Txns
    PROVE  /\ Source(t) \in Holders /\ Destination(t) \in Holders /\ Source(t) # Destination(t)
           /\ Amount(t) \in Nat \ {0}
<1>1. /\ Payments[t].amount \in Nat \ {0}
      /\ Payments[t].from \in Parties /\ Payments[t].to \in Parties
      /\ Payments[t].kind \in {"deposit", "withdraw", "transfer"}
      /\ Payments[t].kind = "transfer" <=> Payments[t].from # Payments[t].to
  BY PaymentType
<1>2. Cash \notin Parties
  BY CashAssumption
<1>3. QED
  BY <1>1, <1>2, Zenon DEF Source, Destination, Amount, Holders

LEMMA EffectType ==
    ASSUME NEW t \in Txns, NEW h
    PROVE  Effect(t, h) \in Int
BY SidesType DEF Effect

LEMMA BalanceIsSum ==
    ASSUME NEW set \in SUBSET Txns, NEW a
    PROVE  Balance(set, a) = Sum(EffectOn(a), {t \in set : Moves(t, a)})
<1> DEFINE E    == {t \in set : Moves(t, a)}
           P(g) == g = [s \in SUBSET E |-> IF s = {} THEN 0
                                           ELSE Effect(Any(s), a) + g[s \ {Any(s)}]]
<1>1. Balance(set, a) = (CHOOSE g : P(g))[E]
  BY DEF Balance, MapThenSumSet, MapThenFoldSet, Any
<1>2. \A g : P(g) <=> IsSum(g, EffectOn(a), E)
  <2>1. \A s \in SUBSET E : s # {} => Effect(Any(s), a) = EffectOn(a)[Any(s)]
    <3>1. TAKE s \in SUBSET E
    <3>2. s # {} => Any(s) \in Txns
      BY DEF Any
    <3> HIDE DEF P, E
    <3>3. QED
      BY <3>2 DEF EffectOn
  <2> HIDE DEF E
  <2>2. QED
    BY <2>1 DEF IsSum
<1>3. (CHOOSE g : P(g)) = (CHOOSE g : IsSum(g, EffectOn(a), E))
  <2> HIDE DEF P, E
  <2>1. QED
    BY <1>2
<1>4. QED
  BY <1>1, <1>3, SumDef

LEMMA BalanceType ==
    ASSUME NEW set \in SUBSET Txns, NEW a
    PROVE  Balance(set, a) \in Int
<1>1. IsFiniteSet({t \in set : Moves(t, a)})
  BY PaymentsAssumption, FS_Subset
<1>2. \A t \in {t \in set : Moves(t, a)} : EffectOn(a)[t] \in Int
  BY EffectType DEF EffectOn
<1>3. QED
  BY <1>1, <1>2, BalanceIsSum, SumType

\* One more transaction adds what it does to the account.
LEMMA BalanceAdd ==
    ASSUME NEW set \in SUBSET Txns, NEW t \in Txns, t \notin set, NEW a
    PROVE  Balance(set \cup {t}, a) = Balance(set, a) + (IF Moves(t, a) THEN Effect(t, a) ELSE 0)
<1> DEFINE E == {u \in set : Moves(u, a)}
<1>1. IsFiniteSet(E) /\ t \notin E /\ \A u \in E : EffectOn(a)[u] \in Int
  BY PaymentsAssumption, FS_Subset, EffectType DEF EffectOn
<1>2. EffectOn(a)[t] = Effect(t, a) /\ Effect(t, a) \in Int
  BY EffectType DEF EffectOn
<1>3. Balance(set, a) = Sum(EffectOn(a), E)
  BY BalanceIsSum
<1>4. Balance(set \cup {t}, a) = Sum(EffectOn(a), {u \in set \cup {t} : Moves(u, a)})
  BY BalanceIsSum
<1>5. Balance(set, a) \in Int
  BY BalanceType
<1>6. CASE Moves(t, a)
  <2>1. {u \in set \cup {t} : Moves(u, a)} = E \cup {t}
    BY <1>6
  <2> HIDE DEF E
  <2>2. Sum(EffectOn(a), E \cup {t}) = Sum(EffectOn(a), E) + EffectOn(a)[t]
    BY <1>1, <1>2, SumAdd
  <2>3. QED
    BY <1>2, <1>3, <1>4, <1>6, <2>1, <2>2
<1>7. CASE ~Moves(t, a)
  <2>1. {u \in set \cup {t} : Moves(u, a)} = E
    BY <1>7
  <2>2. QED
    BY <1>3, <1>4, <1>5, <1>7, <2>1
<1>8. QED
  BY <1>6, <1>7

LEMMA BalanceEmpty ==
    ASSUME NEW a
    PROVE  Balance({}, a) = 0
<1>1. {t \in {} : Moves(t, a)} = {}
  OBVIOUS
<1>2. QED
  BY <1>1, BalanceIsSum, SumEmpty

-----------------------------------------------------------------------------
(* The ledger's balances: the invariant.                                   *)

LedgerTypes ==
    /\ stored \in [Holders -> Int]
    /\ booked \subseteq Txns
    /\ loaded \in [Txns -> [Holders -> Int \cup {Unread}]]
    /\ overlapped \subseteq Holders

\* An open posting is of a transaction that is not posted, and reads its two
\* accounts, the source first.
Reads ==
    \A t \in Txns, h \in Holders : HasRead(t, h) => Moves(t, h) /\ Open(t) /\ t \notin booked

\* An account that at most one posting works on, which has read the present
\* balance: what was stored at first, and what was posted.
Exclusive(base, h) ==
    /\ \A t, u \in Txns : HasRead(t, h) /\ HasRead(u, h) => t = u
    /\ \A t \in Txns : HasRead(t, h) => loaded[t][h] = stored[h]
    /\ stored[h] = base[h] - Balance(booked, h)

LedgerInv(base) == LedgerTypes /\ Reads /\ \A h \in Holders \ overlapped : Exclusive(base, h)

\* What a read changes.
LEMMA ReadMeans ==
    ASSUME LedgerTypes, NEW t \in Txns, NEW h \in Holders, Read(t, h)
    PROVE  /\ loaded' \in [Txns -> [Holders -> Int \cup {Unread}]]
           /\ overlapped' \subseteq Holders /\ overlapped \subseteq overlapped'
           /\ \A u \in Txns, g \in Holders :
                 loaded'[u][g] = IF u = t /\ g = h THEN stored[h] ELSE loaded[u][g]
           /\ (\E u \in Txns : HasRead(u, h)) => h \in overlapped'
<1>1. stored[h] \in Int
  BY DEF LedgerTypes
<1>2. [loaded[t] EXCEPT ![h] = stored[h]] \in [Holders -> Int \cup {Unread}]
  BY <1>1 DEF LedgerTypes
<1>3. loaded' = [loaded EXCEPT ![t] = [loaded[t] EXCEPT ![h] = stored[h]]]
  BY DEF Read, LedgerTypes
<1>4. loaded' \in [Txns -> [Holders -> Int \cup {Unread}]]
  BY <1>2, <1>3 DEF LedgerTypes
<1>5. \A u \in Txns, g \in Holders :
         loaded'[u][g] = IF u = t /\ g = h THEN stored[h] ELSE loaded[u][g]
  BY <1>3 DEF LedgerTypes
<1>6. /\ overlapped' \subseteq Holders /\ overlapped \subseteq overlapped'
      /\ (\E u \in Txns : HasRead(u, h)) => h \in overlapped'
  BY DEF Read, LedgerTypes
<1>7. QED
  BY <1>4, <1>5, <1>6

LEMMA ReadKeeps ==
    ASSUME NEW base \in [Holders -> Int], LedgerInv(base),
           NEW t \in Txns, NEW h \in Holders, Read(t, h), UNCHANGED <<stored, booked>>,
           Moves(t, h), h = Source(t) \/ Open(t), t \notin booked
    PROVE  LedgerInv(base)'
<1>0. LedgerTypes /\ Reads
  BY DEF LedgerInv
<1>1. /\ LedgerTypes'
      /\ \A u \in Txns, g \in Holders :
            loaded'[u][g] = IF u = t /\ g = h THEN stored[h] ELSE loaded[u][g]
      /\ overlapped \subseteq overlapped'
      /\ (\E u \in Txns : HasRead(u, h)) => h \in overlapped'
  BY <1>0, ReadMeans DEF LedgerTypes
<1>2. stored[h] # Unread /\ stored[h] \in Int
  BY <1>0, UnreadAssumption DEF LedgerTypes
<1>3. \A u \in Txns, g \in Holders : HasRead(u, g)' <=> HasRead(u, g) \/ (u = t /\ g = h)
  BY <1>1, <1>2 DEF HasRead
<1>4. \A u \in Txns : Open(u) => Open(u)'
  BY <1>3, SidesType DEF Open, Source
<1>5. Open(t)'
  <2>1. CASE h = Source(t)
    BY <1>3, <2>1 DEF Open, Source
  <2>2. CASE Open(t)
    BY <1>4, <2>2
  <2>3. QED
    BY <2>1, <2>2
<1>6. Reads'
  BY <1>0, <1>3, <1>4, <1>5 DEF Reads, Moves, Source, Destination
<1>7. ASSUME NEW g \in Holders \ overlapped' PROVE Exclusive(base, g)'
  <2>1. Exclusive(base, g)
    BY <1>1, <1>7 DEF LedgerInv
  <2>2. g = h => \A u \in Txns : ~HasRead(u, h)
    BY <1>1, <1>7
  <2>3. \A u, v \in Txns : HasRead(u, g)' /\ HasRead(v, g)' => u = v
    BY <1>3, <2>1, <2>2 DEF Exclusive
  <2>4. \A u \in Txns : HasRead(u, g)' => loaded'[u][g] = stored[g]
    BY <1>1, <1>3, <2>1, <2>2 DEF Exclusive
  <2>5. QED
    BY <2>1, <2>3, <2>4 DEF Exclusive
<1>8. QED
  BY <1>1, <1>6, <1>7 DEF LedgerInv

\* What a commit stores.
LEMMA CommitMeans ==
    ASSUME LedgerTypes, Reads, NEW t \in Txns, CommitPosting(t)
    PROVE  /\ Open(t) /\ t \notin booked /\ booked' = booked \cup {t}
           /\ LedgerTypes' /\ overlapped' = overlapped
           /\ loaded[t][Source(t)] \in Int /\ loaded[t][Destination(t)] \in Int
           /\ \A h \in Holders :
                 stored'[h] = CASE h = Source(t)      -> loaded[t][h] + Amount(t)
                                [] h = Destination(t) -> loaded[t][h] - Amount(t)
                                [] ~Moves(t, h)       -> stored[h]
           /\ \A u \in Txns, h \in Holders : HasRead(u, h)' <=> u # t /\ HasRead(u, h)
           /\ \A u \in Txns, h \in Holders : u # t => loaded'[u][h] = loaded[u][h]
<1>1. /\ Source(t) \in Holders /\ Destination(t) \in Holders /\ Source(t) # Destination(t)
      /\ Amount(t) \in Int
  BY SidesType
<1>2. Open(t) /\ t \notin booked /\ HasRead(t, Source(t)) /\ HasRead(t, Destination(t))
  BY <1>1 DEF CommitPosting, Reads, Open
<1>3. loaded[t][Source(t)] \in Int /\ loaded[t][Destination(t)] \in Int
  BY <1>1, <1>2 DEF LedgerTypes, HasRead
<1>4. stored' = [stored EXCEPT ![Source(t)]      = loaded[t][Source(t)] + Amount(t),
                               ![Destination(t)] = loaded[t][Destination(t)] - Amount(t)]
  BY DEF CommitPosting
<1>5. /\ stored' \in [Holders -> Int]
      /\ \A h \in Holders :
            stored'[h] = CASE h = Source(t)      -> loaded[t][h] + Amount(t)
                           [] h = Destination(t) -> loaded[t][h] - Amount(t)
                           [] ~Moves(t, h)       -> stored[h]
  BY <1>1, <1>3, <1>4 DEF LedgerTypes, Moves
<1>6. NothingRead \in [Holders -> Int \cup {Unread}]
  BY DEF NothingRead
<1>7. /\ loaded' \in [Txns -> [Holders -> Int \cup {Unread}]]
      /\ \A u \in Txns, h \in Holders : loaded'[u][h] = IF u = t THEN Unread ELSE loaded[u][h]
  BY <1>6 DEF CommitPosting, LedgerTypes, NothingRead
<1>8. booked' = booked \cup {t} /\ overlapped' = overlapped
  BY DEF CommitPosting
<1>9. QED
  BY <1>2, <1>3, <1>5, <1>7, <1>8 DEF LedgerTypes, HasRead

LEMMA CommitKeeps ==
    ASSUME NEW base \in [Holders -> Int], LedgerInv(base), NEW t \in Txns, CommitPosting(t)
    PROVE  LedgerInv(base)'
<1>0. LedgerTypes /\ Reads
  BY DEF LedgerInv
<1>1. /\ Open(t) /\ t \notin booked /\ booked' = booked \cup {t}
      /\ LedgerTypes' /\ overlapped' = overlapped
      /\ \A h \in Holders :
            stored'[h] = CASE h = Source(t)      -> loaded[t][h] + Amount(t)
                           [] h = Destination(t) -> loaded[t][h] - Amount(t)
                           [] ~Moves(t, h)       -> stored[h]
      /\ \A u \in Txns, h \in Holders : HasRead(u, h)' <=> u # t /\ HasRead(u, h)
      /\ \A u \in Txns, h \in Holders : u # t => loaded'[u][h] = loaded[u][h]
  BY <1>0, CommitMeans
<1>2. Reads'
  <2>1. \A u \in Txns : Open(u) /\ u # t => Open(u)'
    BY <1>1, SidesType DEF Open, Source
  <2>2. QED
    BY <1>0, <1>1, <2>1 DEF Reads, Moves, Source, Destination
<1>3. ASSUME NEW h \in Holders \ overlapped PROVE Exclusive(base, h)'
  <2>1. Exclusive(base, h)
    BY <1>3 DEF LedgerInv
  <2>2. /\ Source(t) # Destination(t) /\ Amount(t) \in Int
        /\ HasRead(t, Source(t)) /\ HasRead(t, Destination(t))
    BY <1>1, SidesType DEF CommitPosting, Open
  <2>3. Moves(t, h) => HasRead(t, h) /\ loaded[t][h] = stored[h]
    BY <2>1, <2>2 DEF Moves, Exclusive
  <2>4. \A u, v \in Txns : HasRead(u, h)' /\ HasRead(v, h)' => u = v
    BY <1>1, <2>1 DEF Exclusive
  <2>5. ASSUME NEW u \in Txns, HasRead(u, h)' PROVE loaded'[u][h] = stored'[h]
    <3>1. u # t /\ HasRead(u, h) /\ loaded'[u][h] = stored[h]
      BY <1>1, <2>1, <2>5 DEF Exclusive
    <3>2. ~Moves(t, h)
      BY <2>1, <2>3, <3>1 DEF Exclusive
    <3>3. h # Source(t) /\ h # Destination(t)
      BY <3>2 DEF Moves
    <3>4. QED
      BY <1>1, <3>1, <3>2, <3>3
  <2>6. stored'[h] = base[h] - Balance(booked \cup {t}, h)
    <3>1. /\ stored[h] = base[h] - Balance(booked, h) /\ Balance(booked, h) \in Int
          /\ base[h] \in Int
      BY <1>0, <2>1, BalanceType DEF Exclusive, LedgerTypes
    <3>2. Balance(booked \cup {t}, h) = Balance(booked, h) + (IF Moves(t, h) THEN Effect(t, h) ELSE 0)
      BY <1>0, <1>1, BalanceAdd DEF LedgerTypes
    <3>3. Balance(booked \cup {t}, h) = Balance(booked, h)
                                         + (CASE h = Source(t)      -> - Amount(t)
                                              [] h = Destination(t) -> Amount(t)
                                              [] ~Moves(t, h)       -> 0)
      BY <2>2, <3>2 DEF Moves, Effect
    <3>4. CASE h = Source(t)
      BY <1>1, <2>2, <2>3, <3>1, <3>3, <3>4 DEF Moves
    <3>5. CASE h = Destination(t)
      BY <1>1, <2>2, <2>3, <3>1, <3>3, <3>5 DEF Moves
    <3>6. CASE ~Moves(t, h)
      BY <1>1, <3>1, <3>2, <3>6 DEF Moves
    <3>7. QED
      BY <3>4, <3>5, <3>6 DEF Moves
  <2>7. QED
    BY <1>1, <2>4, <2>5, <2>6 DEF Exclusive
<1>4. QED
  BY <1>1, <1>2, <1>3 DEF LedgerInv

LEMMA RollBackMeans ==
    ASSUME LedgerTypes, NEW t \in Txns, RollBackPosting(t)
    PROVE  /\ LedgerTypes' /\ UNCHANGED <<stored, booked, overlapped>>
           /\ \A u \in Txns, h \in Holders : HasRead(u, h)' <=> u # t /\ HasRead(u, h)
           /\ \A u \in Txns, h \in Holders : u # t => loaded'[u][h] = loaded[u][h]
<1>1. NothingRead \in [Holders -> Int \cup {Unread}]
  BY DEF NothingRead
<1>2. /\ loaded' \in [Txns -> [Holders -> Int \cup {Unread}]]
      /\ \A u \in Txns, h \in Holders : loaded'[u][h] = IF u = t THEN Unread ELSE loaded[u][h]
  BY <1>1 DEF RollBackPosting, LedgerTypes, NothingRead
<1>3. QED
  BY <1>2 DEF RollBackPosting, LedgerTypes, HasRead

LEMMA RollBackKeeps ==
    ASSUME NEW base \in [Holders -> Int], LedgerInv(base), NEW t \in Txns, RollBackPosting(t)
    PROVE  LedgerInv(base)'
<1>0. LedgerTypes /\ Reads
  BY DEF LedgerInv
<1>1. /\ LedgerTypes' /\ UNCHANGED <<stored, booked, overlapped>>
      /\ \A u \in Txns, h \in Holders : HasRead(u, h)' <=> u # t /\ HasRead(u, h)
      /\ \A u \in Txns, h \in Holders : u # t => loaded'[u][h] = loaded[u][h]
  BY <1>0, RollBackMeans
<1>2. Reads'
  <2>1. \A u \in Txns : Open(u) /\ u # t => Open(u)'
    BY <1>1, SidesType DEF Open, Source
  <2>2. QED
    BY <1>0, <1>1, <2>1 DEF Reads, Moves, Source, Destination
<1>3. ASSUME NEW h \in Holders \ overlapped PROVE Exclusive(base, h)'
  BY <1>1, <1>3 DEF LedgerInv, Exclusive
<1>4. QED
  BY <1>1, <1>2, <1>3 DEF LedgerInv

\* What a step of a posting before its commit leaves alone.
LEMMA WorkMeans ==
    ASSUME LedgerTypes, Reads, NEW t \in Txns, WorkOn(t)
    PROVE  /\ LedgerTypes' /\ UNCHANGED <<stored, booked>> /\ overlapped \subseteq overlapped'
           /\ \A u \in Txns, h \in Holders : u # t => loaded'[u][h] = loaded[u][h]
           /\ \/ ~Open(t)'
              \/ loaded'[t][Source(t)] = stored[Source(t)]
              \/ Open(t) /\ loaded'[t][Source(t)] = loaded[t][Source(t)]
<1>1. Source(t) \in Holders /\ Destination(t) \in Holders /\ Source(t) # Destination(t)
  BY SidesType
<1>2. CASE BeginPosting(t)
  BY <1>1, <1>2, ReadMeans DEF BeginPosting, LedgerTypes
<1>3. CASE WriteSource(t)
  BY <1>1, <1>3, ReadMeans DEF WriteSource, LedgerTypes
<1>4. CASE RollBackPosting(t)
  BY <1>1, <1>4, RollBackMeans DEF Open, Source
<1>5. QED
  BY <1>2, <1>3, <1>4 DEF WorkOn

LEMMA WorkKeeps ==
    ASSUME NEW base \in [Holders -> Int], LedgerInv(base), NEW t \in Txns, WorkOn(t)
    PROVE  LedgerInv(base)'
<1>1. Source(t) \in Holders /\ Destination(t) \in Holders
  BY SidesType
<1>2. CASE BeginPosting(t)
  BY <1>1, <1>2, ReadKeeps DEF BeginPosting, Moves
<1>3. CASE WriteSource(t)
  BY <1>1, <1>3, ReadKeeps DEF WriteSource, Moves, LedgerInv, Reads, Open
<1>4. QED
  BY <1>2, <1>3, RollBackKeeps DEF WorkOn

LEMMA LedgerUnmoved ==
    ASSUME NEW base \in [Holders -> Int], LedgerInv(base), UNCHANGED ledgerVars
    PROVE  LedgerInv(base)'
BY DEF ledgerVars, LedgerInv, LedgerTypes, Reads, Exclusive, HasRead, Moves, Open, Source, Destination

-----------------------------------------------------------------------------
(* Overdraft: the check is right when it is made.                          *)

\* A debit whose check read the balance when the account had been undercut m
\* times: it was since, or the money is still there.
Covered(k, m) ==
    /\ m <= undercut[Payer(k)]
    /\ m = undercut[Payer(k)] => Sufficient(k)

\* The posting that is open has read the money.
Funded(k, m) ==
    Open(k) /\ m = undercut[Payer(k)] => Display(loaded[k][Payer(k)]) >= Payments[k].amount

Created(k) == row[k].status # "absent"

Checked(r) ==
    /\ pc[r] # "idle" => key[r] \in Keys
    /\ pc[r] \in {"resolve", "post", "wait", "answer"} => Created(key[r])
    /\ pc[r] = "create" /\ Debits(key[r]) /\ ~Created(key[r]) => Covered(key[r], mark[r])

\* The ledger works for rows that exist.
Called == \A k \in Keys : k \in sent \/ Open(k) => Created(k)

CheckInv ==
    /\ TypeOK /\ LedgerInv(Initially) /\ Called
    /\ \A r \in Requests : Checked(r)
    /\ \A k \in Keys : Created(k) /\ Debits(k) => Covered(k, row[k].mark) /\ Funded(k, row[k].mark)

LEMMA InitiallyType ==
    /\ Initially \in [Holders -> Int]
    /\ \A h \in Holders : Initially[h] = IF h = Cash THEN 0 ELSE -Opening
BY OpeningAssumption DEF Initially

\* Who pays is the source of a debit, and no destination of another account.
LEMMA PayerPays ==
    ASSUME NEW k \in Keys
    PROVE  /\ Payer(k) \in Parties /\ Payer(k) \in Holders
           /\ Debits(k) => Source(k) = Payer(k)
           /\ Payments[k].amount \in Nat /\ Amount(k) = Payments[k].amount
           /\ \A a \in Parties : a = Source(k) => Debits(k) /\ a = Payer(k)
BY PaymentType, CashAssumption DEF Keys, Payer, Debits, Source, Amount, Holders

LEMMA TypesAgree == TypeOK => LedgerTypes
BY DEF TypeOK, LedgerTypes, Keys

\* A step of the ledger leaves every debit covered and funded: what undercuts
\* the account is counted, anything else only adds.
LEMMA WorkCovers ==
    ASSUME CheckInv, NEW k \in Keys, Created(k), WorkOn(k), UNCHANGED <<undercut, row>>,
           NEW d \in Keys
    PROVE  /\ \A m \in Nat : Covered(d, m) => Covered(d, m)'
           /\ Created(d) /\ Debits(d) => Funded(d, row[d].mark)'
<1>1. LedgerTypes /\ Reads /\ k \in Txns /\ d \in Txns
  BY TypesAgree DEF CheckInv, LedgerInv, Keys
<1>2. /\ UNCHANGED <<stored, booked>>
      /\ \A u \in Txns, h \in Holders : u # k => loaded'[u][h] = loaded[u][h]
      /\ \/ ~Open(k)'
         \/ loaded'[k][Source(k)] = stored[Source(k)]
         \/ Open(k) /\ loaded'[k][Source(k)] = loaded[k][Source(k)]
  BY <1>1, WorkMeans
<1>3. \A m \in Nat : Covered(d, m) => Covered(d, m)'
  BY <1>2 DEF Covered, Sufficient, Payer
<1>4. ASSUME Created(d), Debits(d) PROVE Funded(d, row[d].mark)'
  <2>1. Covered(d, row[d].mark) /\ Funded(d, row[d].mark)
    BY <1>4 DEF CheckInv
  <2>2. Payer(d) \in Holders /\ Source(d) = Payer(d) /\ Source(d) \in Holders
    BY <1>4, PayerPays
  <2>3. CASE d = k
    <3>1. \/ ~Open(d)'
          \/ loaded'[d][Payer(d)] = stored[Payer(d)]
          \/ Open(d) /\ loaded'[d][Payer(d)] = loaded[d][Payer(d)]
      BY <1>2, <2>2, <2>3
    <3>2. QED
      BY <2>1, <3>1 DEF Covered, Funded, Sufficient, Payer
  <2>4. CASE d # k
    <3>1. loaded'[d][Payer(d)] = loaded[d][Payer(d)] /\ loaded'[d][Source(d)] = loaded[d][Source(d)]
      BY <1>1, <1>2, <2>2, <2>4
    <3>2. Open(d)' <=> Open(d)
      BY <3>1 DEF Open, HasRead, Source
    <3>3. QED
      BY <2>1, <3>1, <3>2 DEF Funded, Payer
  <2>5. QED
    BY <2>3, <2>4
<1>5. QED
  BY <1>3, <1>4

LEMMA PostingCounts ==
    ASSUME TypeOK, NEW k \in Keys, LedgerPosts(k)
    PROVE  /\ undercut' \in [Parties -> Nat]
           /\ \A a \in Parties :
                 undercut'[a] = IF (Debits(k) /\ a = Payer(k)) \/ Overwrites(k, a)
                                THEN undercut[a] + 1 ELSE undercut[a]
BY DEF LedgerPosts, TypeOK

LEMMA PostingCovers ==
    ASSUME CheckInv, NEW k \in Keys, LedgerPosts(k), UNCHANGED row, NEW d \in Keys
    PROVE  /\ \A m \in Nat : Covered(d, m) => Covered(d, m)'
           /\ Created(d) /\ Debits(d) => Funded(d, row[d].mark)'
<1>1. LedgerTypes /\ Reads /\ k \in Txns /\ d \in Txns /\ TypeOK /\ CommitPosting(k)
  BY TypesAgree DEF CheckInv, LedgerInv, Keys, LedgerPosts
<1>2. /\ loaded[k][Destination(k)] \in Int
      /\ \A h \in Holders :
            stored'[h] = CASE h = Source(k)      -> loaded[k][h] + Amount(k)
                           [] h = Destination(k) -> loaded[k][h] - Amount(k)
                           [] ~Moves(k, h)       -> stored[h]
      /\ \A u \in Txns, h \in Holders : HasRead(u, h)' <=> u # k /\ HasRead(u, h)
      /\ \A u \in Txns, h \in Holders : u # k => loaded'[u][h] = loaded[u][h]
  BY <1>1, CommitMeans
<1> PICK a \in Parties : a = Payer(d)
  BY PayerPays
<1>3. /\ undercut[a] \in Nat /\ stored[a] \in Int /\ a \in Holders
      /\ undercut'[a] = IF (Debits(k) /\ a = Payer(k)) \/ Overwrites(k, a)
                        THEN undercut[a] + 1 ELSE undercut[a]
  BY <1>1, PostingCounts DEF TypeOK, Holders
<1>4. undercut'[a] = undercut[a] => Display(stored'[a]) >= Display(stored[a])
  <2>1. SUFFICES ASSUME undercut'[a] = undercut[a]
                 PROVE  -stored'[a] >= -stored[a]
    BY DEF Display
  <2>2. ~(Debits(k) /\ a = Payer(k)) /\ ~Overwrites(k, a)
    BY <1>3, <2>1
  <2>3. a # Source(k)
    BY <2>2, PayerPays
  <2>4. CASE a = Destination(k)
    <3>1. stored[a] = loaded[k][a]
      BY <2>2, <2>4 DEF Overwrites, Moves
    <3>2. stored'[a] = loaded[k][a] - Amount(k)
      BY <1>1, <1>2, <1>3, <2>3, <2>4, SidesType DEF Moves
    <3>3. Amount(k) \in Nat
      BY PayerPays
    <3>4. QED
      BY <1>3, <3>1, <3>2, <3>3
  <2>5. CASE ~Moves(k, a)
    <3>1. stored'[a] = stored[a]
      BY <1>2, <1>3, <2>5 DEF Moves
    <3>2. QED
      BY <1>3, <3>1
  <2>6. QED
    BY <2>3, <2>4, <2>5 DEF Moves
<1>5. ASSUME NEW m \in Nat, Covered(d, m) PROVE Covered(d, m)'
  <2>1. undercut'[a] >= undercut[a] /\ undercut'[a] \in Nat
    BY <1>3
  <2>2. m <= undercut[a] /\ (m = undercut[a] => Display(stored[a]) >= Payments[d].amount)
    BY <1>5 DEF Covered, Sufficient
  <2>3. Payments[d].amount \in Nat
    BY PayerPays
  <2>4. m <= undercut'[a]
    BY <1>3, <2>1, <2>2
  <2>5. m = undercut'[a] => Display(stored'[a]) >= Payments[d].amount
    <3>1. SUFFICES ASSUME m = undercut'[a] PROVE Display(stored'[a]) >= Payments[d].amount
      OBVIOUS
    <3>2. m = undercut[a] /\ undercut'[a] = undercut[a]
      BY <1>3, <2>1, <2>2, <3>1
    <3>3. stored'[a] \in Int
      BY <1>1, <1>3, CommitMeans DEF LedgerTypes
    <3>4. QED
      BY <1>3, <1>4, <2>2, <2>3, <3>2, <3>3 DEF Display
  <2>6. QED
    BY <2>4, <2>5 DEF Covered, Sufficient, Payer
<1>6. ASSUME Created(d), Debits(d) PROVE Funded(d, row[d].mark)'
  <2>1. /\ Covered(d, row[d].mark) /\ Funded(d, row[d].mark)
        /\ row[d].mark \in Nat
    BY <1>1, <1>6 DEF CheckInv, TypeOK
  <2>2. Source(d) = a /\ (Open(d)' <=> d # k /\ Open(d))
    BY <1>1, <1>2, <1>3, <1>6, PayerPays DEF Open, Source
  <2>3. row[d].mark = undercut'[a] => row[d].mark = undercut[a]
    BY <1>3, <2>1 DEF Covered
  <2>4. d # k => loaded'[d][a] = loaded[d][a]
    BY <1>1, <1>2, <1>3
  <2>5. QED
    BY <2>1, <2>2, <2>3, <2>4 DEF Funded, Payer
<1>7. QED
  BY <1>5, <1>6

-----------------------------------------------------------------------------
(* The steps.                                                              *)

LEMMA CheckInit == Init => CheckInv
<1>1. SUFFICES ASSUME Init PROVE CheckInv
  OBVIOUS
<1>2. TypeOK
  BY <1>1, InitiallyType DEF Init, BalancesInit, NothingRead, TypeOK, Statuses, Keys
<1>3. \A t \in Txns, h \in Holders : ~HasRead(t, h)
  BY <1>1 DEF Init, BalancesInit, NothingRead, HasRead
<1>4. LedgerInv(Initially)
  <2>1. ASSUME NEW h \in Holders PROVE Exclusive(Initially, h)
    <3>1. stored[h] = Initially[h] /\ booked = {} /\ Initially[h] \in Int
      BY <1>1, InitiallyType DEF Init, BalancesInit
    <3>2. Balance(booked, h) = 0
      BY <3>1, BalanceEmpty
    <3>3. QED
      BY <1>3, <3>1, <3>2 DEF Exclusive
  <2>2. QED
    BY <1>2, <1>3, <2>1, TypesAgree DEF LedgerInv, Reads
<1>5. QED
  BY <1>1, <1>2, <1>3, <1>4, SidesType DEF Init, CheckInv, Checked, Created, Called, Open, Keys

\* The invariant of the requests and the rows, from what a step of one
\* request leaves of it.
LEMMA OthersUnmoved ==
    ASSUME CheckInv, NEW r \in Requests, Checked(r)',
           \A q \in Requests \ {r} : /\ pc'[q] = pc[q] /\ key'[q] = key[q]
                                     /\ mark'[q] = mark[q],
           \A d \in Keys : Created(d) => Created(d)',
           \A d \in Keys, m \in Nat : Covered(d, m) => Covered(d, m)'
    PROVE  \A q \in Requests : Checked(q)'
<1>1. ASSUME NEW q \in Requests, q # r PROVE Checked(q)'
  <2>1. Checked(q) /\ mark[q] \in Nat
    BY DEF CheckInv, TypeOK
  <2>2. pc'[q] = pc[q] /\ key'[q] = key[q] /\ mark'[q] = mark[q]
    BY <1>1
  <2>3. Debits(key[q])' = Debits(key[q])'
    OBVIOUS
  <2>4. QED
    BY <2>1, <2>2 DEF Checked, Debits
<1>2. QED
  BY <1>1

\* A step that leaves the ledger and the rows' marks alone.
LEMMA LedgerLeft ==
    ASSUME CheckInv, UNCHANGED unchangedLedger
    PROVE  /\ LedgerInv(Initially)'
           /\ \A d \in Keys, m \in Nat : /\ Covered(d, m) => Covered(d, m)'
                                         /\ Funded(d, m) => Funded(d, m)'
           /\ \A d \in Keys : Open(d)' <=> Open(d)
<1>1. LedgerInv(Initially)'
  BY InitiallyType, LedgerUnmoved DEF CheckInv, unchangedLedger
<1>2. QED
  BY <1>1 DEF unchangedLedger, ledgerVars, Covered, Funded, Sufficient, Open, HasRead, Source, Payer

\* A row's status changes, not its mark.
LEMMA StatusKeeps ==
    ASSUME TypeOK, NEW k \in Keys, Created(k), NEW s \in Statuses \ {"absent"}, SetStatus(k, s)
    PROVE  /\ row' \in [Keys -> [status : Statuses, mark : Nat]]
           /\ \A d \in Keys : (Created(d)' <=> Created(d)) /\ row'[d].mark = row[d].mark
BY DEF SetStatus, TypeOK, Statuses, Created

LEMMA RowsLeft ==
    ASSUME CheckInv, UNCHANGED unchangedLedger,
           \A d \in Keys : (Created(d)' <=> Created(d)) /\ row'[d].mark = row[d].mark,
           \A d \in sent' : Created(d)'
    PROVE  /\ LedgerInv(Initially)' /\ Called'
           /\ (\A d \in Keys : Created(d) /\ Debits(d)
                 => Covered(d, row[d].mark) /\ Funded(d, row[d].mark))'
<1>1. \A d \in Keys : row[d].mark \in Nat
  BY DEF CheckInv, TypeOK
<1>2. QED
  BY <1>1, LedgerLeft DEF CheckInv, Debits, Called

LEMMA RequestKeeps ==
    ASSUME CheckInv, NEW r \in Requests, Transfer(r) \/ \E k \in Keys : Receive(r, k)
    PROVE  CheckInv'
<1> USE DEF Go, unchangedLedger, unchangedCalls, ledgerVars
<1>0. TypeOK /\ Checked(r) /\ Called /\ \A d \in sent : d \in Keys /\ Created(d)
  BY DEF CheckInv, Called, TypeOK
<1>a. UNCHANGED unchangedLedger
  BY DEF Transfer, Withdraw, Deposit, Receive, FindByIdempotency, CheckBalance, HandlerPosts,
         CreateOrGetByIdempotency, ResolveImmediateLedgerPost, HandlerRecords, Answer, AnswerTransfer
<1>b. /\ LedgerInv(Initially)'
      /\ \A d \in Keys, m \in Nat : /\ Covered(d, m) => Covered(d, m)'
                                    /\ Funded(d, m) => Funded(d, m)'
      /\ \A d \in Keys : Open(d)' <=> Open(d)
  BY <1>a, LedgerLeft
<1>1. CASE \E k \in Keys : Receive(r, k)
  <2>1. TypeOK'
    BY <1>0, <1>1 DEF Receive, TypeOK, Steps
  <2>2. Checked(r)'
    BY <1>0, <1>1 DEF Receive, TypeOK, Checked, Debits
  <2>3. UNCHANGED <<row, sent, mark>> /\ \A q \in Requests \ {r} : pc'[q] = pc[q] /\ key'[q] = key[q]
    BY <1>0, <1>1 DEF Receive, TypeOK
  <2>4. QED
    BY <1>a, <1>b, <2>1, <2>2, <2>3, <1>0, OthersUnmoved, RowsLeft DEF CheckInv, Created
<1>2. CASE FindByIdempotency(r)
  <2>1. key[r] \in Keys /\ row[key[r]].status \in Statuses
    BY <1>0, <1>2 DEF FindByIdempotency, Checked, TypeOK
  <2>2. TypeOK' /\ Checked(r)'
    BY <1>0, <1>2, <2>1 DEF FindByIdempotency, TypeOK, Steps, Checked, Created, Statuses
  <2>3. UNCHANGED <<row, sent, mark, key>> /\ \A q \in Requests \ {r} : pc'[q] = pc[q]
    BY <1>0, <1>2 DEF FindByIdempotency, TypeOK
  <2>4. QED
    BY <1>a, <1>b, <2>2, <2>3, <1>0, OthersUnmoved, RowsLeft DEF CheckInv, Created
<1>3. CASE CheckBalance(r)
  <2>1. key[r] \in Keys /\ Payer(key[r]) \in Parties
    BY <1>0, <1>3, PayerPays DEF CheckBalance, Checked
  <2>2. TypeOK'
    BY <1>0, <1>3, <2>1 DEF CheckBalance, TypeOK, Steps, Answers
  <2>3. Checked(r)'
    BY <1>0, <1>3, <2>1 DEF CheckBalance, TypeOK, Checked, Covered, Sufficient, Created
  <2>4. /\ UNCHANGED <<row, sent, key>>
        /\ \A q \in Requests \ {r} : pc'[q] = pc[q] /\ mark'[q] = mark[q]
    BY <1>0, <1>3 DEF CheckBalance, TypeOK
  <2>5. QED
    BY <1>a, <1>b, <2>2, <2>3, <2>4, <1>0, OthersUnmoved, RowsLeft DEF CheckInv, Created
<1>4. CASE CreateOrGetByIdempotency(r)
  <2>1. key[r] \in Keys /\ mark[r] \in Nat
    BY <1>0, <1>4 DEF CreateOrGetByIdempotency, Checked, TypeOK
  <2>2. TypeOK'
    BY <1>0, <1>4, <2>1 DEF CreateOrGetByIdempotency, TypeOK, Steps, Statuses
  <2>3. /\ \A d \in Keys : Created(d)' <=> Created(d) \/ d = key[r]
        /\ \A d \in Keys : Created(d) => row'[d].mark = row[d].mark
        /\ ~Created(key[r]) => row'[key[r]].mark = mark[r]
    BY <1>0, <1>4, <2>1 DEF CreateOrGetByIdempotency, TypeOK, Created
  <2>4. Checked(r)'
    BY <1>0, <1>4, <2>1, <2>3 DEF CreateOrGetByIdempotency, TypeOK, Checked
  <2>5. \A d \in Keys : row[d].mark \in Nat
    BY <1>0 DEF TypeOK
  <2>6. ASSUME NEW d \in Keys, Created(d)', Debits(d)
        PROVE  Covered(d, row[d].mark)' /\ Funded(d, row[d].mark)'
    <3>1. CASE Created(d)
      BY <1>b, <2>3, <2>5, <2>6, <3>1 DEF CheckInv
    <3>2. CASE ~Created(d)
      <4>1. d = key[r] /\ row'[d].mark = mark[r] /\ Covered(d, mark[r])
        BY <1>0, <1>4, <2>3, <2>6, <3>2 DEF CreateOrGetByIdempotency, Checked
      <4>2. Covered(d, mark[r])'
        BY <1>4, <2>1, <1>b, <4>1 DEF CreateOrGetByIdempotency
      <4>3. ~Open(d)'
        BY <1>0, <1>b, <3>2 DEF Called
      <4>4. QED
        <5>1. ~Open(d)'
          BY <1>b, <4>3
        <5>2. mark'[r] = mark[r] /\ row'[d].mark = mark'[r]
          BY <1>4, <4>1 DEF CreateOrGetByIdempotency
        <5>3. QED
          BY <4>2, <5>1, <5>2 DEF Covered, Funded, Payer
    <3>3. QED
      BY <3>1, <3>2
  <2>7. /\ UNCHANGED <<sent, key, mark>> /\ \A q \in Requests \ {r} : pc'[q] = pc[q]
    BY <1>0, <1>4 DEF CreateOrGetByIdempotency, TypeOK
  <2>8. \A q \in Requests : Checked(q)'
    BY <1>b, <2>3, <2>4, <2>7, OthersUnmoved
  <2>9. QED
    BY <1>0, <1>b, <2>2, <2>3, <2>6, <2>7, <2>8 DEF CheckInv, Debits, Called
<1>5. CASE ResolveImmediateLedgerPost(r)
  <2>1. key[r] \in Keys
    BY <1>0, <1>5 DEF ResolveImmediateLedgerPost, Checked
  <2>2. /\ row' \in [Keys -> [status : Statuses, mark : Nat]]
        /\ \A d \in Keys : (Created(d)' <=> Created(d)) /\ row'[d].mark = row[d].mark
    <3>1. CASE row[key[r]].status = "pending"
      <4>1. Created(key[r]) /\ SetStatus(key[r], "posting")
        BY <1>5, <3>1 DEF ResolveImmediateLedgerPost, Created
      <4>2. QED
        BY <1>0, <2>1, <4>1, StatusKeeps DEF Statuses
    <3>2. CASE row[key[r]].status # "pending"
      BY <1>0, <1>5, <3>2 DEF ResolveImmediateLedgerPost, TypeOK, Created
    <3>3. QED
      BY <3>1, <3>2
  <2>3. TypeOK'
    BY <1>0, <1>5, <2>2 DEF ResolveImmediateLedgerPost, TypeOK, Steps
  <2>4. Checked(r)'
    BY <1>0, <1>5, <2>1, <2>2 DEF ResolveImmediateLedgerPost, TypeOK, Checked
  <2>5. UNCHANGED <<sent, key, mark>> /\ \A q \in Requests \ {r} : pc'[q] = pc[q]
    BY <1>0, <1>5 DEF ResolveImmediateLedgerPost, TypeOK
  <2>6. QED
    BY <1>0, <1>a, <1>b, <2>2, <2>3, <2>4, <2>5, OthersUnmoved, RowsLeft DEF CheckInv
<1>6. CASE HandlerPosts(r)
  <2>1. key[r] \in Keys /\ Created(key[r])
    BY <1>0, <1>6 DEF HandlerPosts, Checked
  <2>2. TypeOK'
    BY <1>0, <1>6, <2>1 DEF HandlerPosts, TypeOK, Steps
  <2>3. Checked(r)'
    BY <1>0, <1>6, <2>1 DEF HandlerPosts, TypeOK, Checked, Created
  <2>4. /\ UNCHANGED <<row, key, mark>> /\ \A q \in Requests \ {r} : pc'[q] = pc[q]
        /\ sent' = sent \cup {key[r]}
    BY <1>0, <1>6 DEF HandlerPosts, TypeOK
  <2>5. QED
    BY <1>0, <1>a, <1>b, <2>1, <2>2, <2>3, <2>4, OthersUnmoved, RowsLeft DEF CheckInv, Created
<1>7. CASE HandlerRecords(r)
  <2>1. key[r] \in Keys /\ Created(key[r])
    BY <1>0, <1>7 DEF HandlerRecords, Checked
  <2>2. PICK s \in {"posted", "pending"} : SetStatus(key[r], s)
    BY <1>7 DEF HandlerRecords, RecordAnswer
  <2>3. /\ row' \in [Keys -> [status : Statuses, mark : Nat]]
        /\ \A d \in Keys : (Created(d)' <=> Created(d)) /\ row'[d].mark = row[d].mark
    BY <1>0, <2>1, <2>2, StatusKeeps DEF Statuses
  <2>4. TypeOK'
    BY <1>0, <1>7, <2>3 DEF HandlerRecords, TypeOK, Steps
  <2>5. Checked(r)'
    BY <1>0, <1>7, <2>1, <2>3 DEF HandlerRecords, TypeOK, Checked
  <2>6. UNCHANGED <<sent, key, mark>> /\ \A q \in Requests \ {r} : pc'[q] = pc[q]
    BY <1>0, <1>7 DEF HandlerRecords, TypeOK
  <2>7. QED
    BY <1>0, <1>a, <1>b, <2>3, <2>4, <2>5, <2>6, OthersUnmoved, RowsLeft DEF CheckInv
<1>8. CASE Answer(r) \/ AnswerTransfer(r)
  <2>1. /\ key[r] \in Keys /\ Created(key[r]) /\ row[key[r]].status \in Statuses
        /\ stored[Payer(key[r])] \in Int
    BY <1>0, <1>8, PayerPays DEF Answer, AnswerTransfer, Checked, TypeOK
  <2>2. Display(stored[Payer(key[r])]) \in Int
    BY <2>1 DEF Display
  <2>3. StatusCode(key[r]) \in {"200", "202", "500"}
    BY <2>1 DEF StatusCode, Statuses, Created
  <2>4. /\ pc' = [pc EXCEPT ![r] = StatusCode(key[r])]
        /\ \E b \in Int : shown' = [shown EXCEPT ![r] = b]
        /\ UNCHANGED <<row, key, mark, sent, claimed, stored, booked, loaded, overlapped,
                       undercut, after>>
    BY <1>8, <2>1, <2>2 DEF Answer, AnswerTransfer
  <2>5. TypeOK'
    BY <1>0, <2>3, <2>4 DEF TypeOK, Answers
  <2>6. Checked(r)'
    BY <1>0, <2>1, <2>3, <2>4 DEF TypeOK, Checked
  <2>7. \A q \in Requests \ {r} : pc'[q] = pc[q]
    BY <1>0, <2>4 DEF TypeOK
  <2>8. QED
    BY <1>0, <1>a, <1>b, <2>4, <2>5, <2>6, <2>7, OthersUnmoved, RowsLeft DEF CheckInv, Created
<1>9. QED
  BY <1>1, <1>2, <1>3, <1>4, <1>5, <1>6, <1>7, <1>8 DEF Transfer, Withdraw, Deposit

\* A step of the retry worker.
LEMMA WorkerKeeps ==
    ASSUME CheckInv, NEW k \in Keys,
           RetryWorkerPosts(k) \/ RetryWorkerRecords(k) \/ RetryWorkerGivesUp(k)
    PROVE  CheckInv'
<1>0. TypeOK /\ Called /\ Created(k)
  BY DEF CheckInv, Called, TypeOK, RetryWorkerPosts, RetryWorkerRecords, RetryWorkerGivesUp, Created
<1>1. PICK s \in {"posting", "posted", "pending", "failed"} : SetStatus(k, s)
  BY DEF RetryWorkerPosts, RetryWorkerRecords, RetryWorkerGivesUp, RecordAnswer
<1>2. /\ UNCHANGED <<pc, key, mark, shown>> /\ UNCHANGED unchangedLedger
      /\ sent' \in {sent, sent \cup {k}} /\ claimed' \subseteq sent'
  BY <1>0 DEF RetryWorkerPosts, RetryWorkerRecords, RetryWorkerGivesUp, TypeOK, unchangedCalls
<1>3. /\ row' \in [Keys -> [status : Statuses, mark : Nat]]
      /\ \A d \in Keys : (Created(d)' <=> Created(d)) /\ row'[d].mark = row[d].mark
  BY <1>0, <1>1, StatusKeeps DEF Statuses
<1>4. TypeOK'
  BY <1>0, <1>2, <1>3 DEF TypeOK, unchangedLedger, ledgerVars
<1>5. \A d \in sent' : Created(d)'
  BY <1>0, <1>2, <1>3 DEF Called, TypeOK
<1>6. ASSUME NEW q \in Requests PROVE Checked(q)'
  BY <1>0, <1>2, <1>3, LedgerLeft DEF CheckInv, Checked, Debits, TypeOK
<1>7. QED
  BY <1>2, <1>3, <1>4, <1>5, <1>6, RowsLeft DEF CheckInv

\* A step of the ledger.
LEMMA LedgerKeeps ==
    ASSUME CheckInv, NEW k \in Keys, LedgerWorks(k)
    PROVE  CheckInv'
<1>0. /\ TypeOK /\ LedgerInv(Initially) /\ Called /\ Created(k) /\ k \in Txns /\ k \in sent
      /\ LedgerTypes /\ Reads /\ UNCHANGED <<row, pc, key, sent, claimed, mark, shown>>
  BY TypesAgree DEF CheckInv, Called, LedgerWorks, LedgerInv, Keys, unchangedCalls
<1>1. /\ LedgerInv(Initially)' /\ LedgerTypes'
      /\ \A u \in Txns, h \in Holders : u # k => HasRead(u, h)' = HasRead(u, h)
      /\ undercut' \in [Parties -> Nat] /\ after' \in [Keys -> Int]
  <2>1. CASE WorkOn(k) /\ UNCHANGED <<undercut, after>>
    BY <1>0, <2>1, InitiallyType, WorkKeeps, WorkMeans DEF TypeOK, HasRead
  <2>2. CASE LedgerPosts(k)
    <3>1. CommitPosting(k) /\ Payer(k) \in Holders
      BY <2>2, PayerPays DEF LedgerPosts
    <3>2. /\ LedgerInv(Initially)' /\ LedgerTypes'
          /\ \A u \in Txns, h \in Holders : HasRead(u, h)' <=> u # k /\ HasRead(u, h)
      BY <1>0, <3>1, InitiallyType, CommitKeeps, CommitMeans
    <3>3. after' \in [Keys -> Int]
      BY <1>0, <2>2, <3>1, <3>2 DEF LedgerPosts, TypeOK, LedgerTypes
    <3>4. QED
      BY <1>0, <2>2, <3>2, <3>3, PostingCounts DEF HasRead
  <2>3. QED
    BY <2>1, <2>2 DEF LedgerWorks
<1>2. TypeOK'
  BY <1>0, <1>1 DEF TypeOK, LedgerTypes, Keys
<1>3. ASSUME NEW d \in Keys
      PROVE  /\ \A m \in Nat : Covered(d, m) => Covered(d, m)'
             /\ Created(d) /\ Debits(d) => Funded(d, row[d].mark)'
  BY <1>0, <1>3, WorkCovers, PostingCovers DEF LedgerWorks
<1>4. \A d \in Keys : (Created(d)' <=> Created(d)) /\ row'[d].mark = row[d].mark /\ row[d].mark \in Nat
  BY <1>0 DEF Created, TypeOK
<1>5. Called'
  <2>1. ASSUME NEW d \in Keys, d # k, Open(d)' PROVE Open(d)
    BY <1>1, <2>1, SidesType DEF Open, Keys, Source
  <2>2. QED
    BY <1>0, <1>4, <2>1 DEF Called
<1>6. ASSUME NEW q \in Requests PROVE Checked(q)'
  BY <1>0, <1>3, <1>4 DEF CheckInv, Checked, Debits, TypeOK
<1>7. ASSUME NEW d \in Keys, Created(d)', Debits(d)
      PROVE  Covered(d, row[d].mark)' /\ Funded(d, row[d].mark)'
  BY <1>0, <1>3, <1>4, <1>7 DEF CheckInv
<1>8. QED
  BY <1>1, <1>2, <1>5, <1>6, <1>7 DEF CheckInv, Debits

LEMMA CheckStep == CheckInv /\ [Next]_vars => CheckInv'
<1>1. SUFFICES ASSUME CheckInv, [Next]_vars PROVE CheckInv'
  OBVIOUS
<1>2. CASE UNCHANGED vars
  <2>1. UNCHANGED <<unchangedLedger, row, pc, key, sent, claimed, mark, shown>>
    BY <1>2 DEF vars, unchangedLedger
  <2>2. TypeOK'
    BY <1>1, <2>1 DEF CheckInv, TypeOK, unchangedLedger, ledgerVars
  <2>3. \A d \in Keys : (Created(d)' <=> Created(d)) /\ row'[d].mark = row[d].mark
    BY <2>1 DEF Created
  <2>4. \A q \in Requests : Checked(q)'
    BY <1>1, <2>1, <2>3, LedgerLeft DEF CheckInv, Checked, Debits, TypeOK
  <2>5. QED
    BY <1>1, <2>1, <2>2, <2>3, <2>4, RowsLeft DEF CheckInv, Called, TypeOK
<1>3. CASE Next
  BY <1>1, <1>3, RequestKeeps, WorkerKeeps, LedgerKeeps DEF Next
<1>4. QED
  BY <1>1, <1>2, <1>3

\* What is checked, called for and posted keeps together.
THEOREM CheckInvariant == Spec => []CheckInv
BY CheckInit, CheckStep, PTL DEF Spec

\* Every variable has its type.
THEOREM OverdraftTypeCorrect == Spec => []TypeOK
<1>1. CheckInv => TypeOK
  BY DEF CheckInv
<1>2. QED
  BY <1>1, CheckInvariant, PTL

\* Only the commit of a posting posts a key, one that has a row.
LEMMA PostingIsCreated ==
    ASSUME CheckInv, Next, NEW k \in booked' \ booked
    PROVE  k \in Keys /\ Created(k) /\ LedgerPosts(k)
<1>1. PICK d \in Keys : LedgerWorks(d)
  BY DEF Next, Transfer, Withdraw, Deposit, Receive, FindByIdempotency, CheckBalance, HandlerPosts,
         CreateOrGetByIdempotency, ResolveImmediateLedgerPost, HandlerRecords, Answer, AnswerTransfer,
         RetryWorkerPosts, RetryWorkerRecords, RetryWorkerGivesUp, unchangedLedger, ledgerVars
<1>2. LedgerPosts(d) /\ Created(d)
  BY <1>1 DEF LedgerWorks, WorkOn, BeginPosting, WriteSource, RollBackPosting, CheckInv, Called
<1>3. k = d
  BY <1>2 DEF LedgerPosts, CommitPosting
<1>4. QED
  BY <1>2, <1>3

\* A debit overdraws its account only when another debit of it was posted, or
\* a posting overwritten there, after its own check read the balance: for any
\* accounts, requests and transactions, with every interleaving of checks,
\* calls and postings (withdraw_with_idempotency, transfer_with_idempotency,
\* update_balance!).
THEOREM OverdraftsTakeRivals == Spec => OverdraftTakesRival
<1> DEFINE Step == \A k \in booked' \ booked :
                      Debits(k) /\ row[k].mark = undercut[Payer(k)]
                      => Display(stored'[Payer(k)]) >= 0
<1>1. ASSUME CheckInv, [Next]_vars PROVE [Step]_vars
  <2>1. SUFFICES ASSUME Next, NEW k \in booked' \ booked,
                        Debits(k), row[k].mark = undercut[Payer(k)]
                 PROVE  Display(stored'[Payer(k)]) >= 0
    BY <1>1
  <2>2. k \in Keys /\ Created(k) /\ LedgerPosts(k)
    BY <1>1, <2>1, PostingIsCreated
  <2>3. LedgerTypes /\ Reads /\ k \in Txns /\ CommitPosting(k)
    BY <1>1, <2>2, TypesAgree DEF CheckInv, LedgerInv, Keys, LedgerPosts
  <2>4. /\ Source(k) = Payer(k) /\ Source(k) \in Holders
        /\ Payments[k].amount \in Nat /\ Amount(k) = Payments[k].amount
    BY <2>1, <2>2, PayerPays
  <2>5. /\ Open(k) /\ loaded[k][Source(k)] \in Int
        /\ stored'[Source(k)] = loaded[k][Source(k)] + Amount(k)
    BY <2>3, <2>4, CommitMeans, SidesType DEF Moves
  <2>6. Display(loaded[k][Payer(k)]) >= Payments[k].amount
    BY <1>1, <2>1, <2>2, <2>5 DEF CheckInv, Funded
  <2>7. QED
    BY <2>4, <2>5, <2>6 DEF Display
<1>2. QED
  BY <1>1, CheckInvariant, PTL DEF Spec, OverdraftTakesRival

\* A balance, of a customer or the cash account, is the opening one and each
\* posted transaction once, however often a key was tried, unless two postings
\* of the account were at work at once (LedgerPoster#call, update_balance!).
THEOREM BalancesAlwaysAddUp == Spec => []BalancesAddUp
<1>1. ASSUME CheckInv PROVE BalancesAddUp
  <2>1. SUFFICES ASSUME NEW h \in Holders \ overlapped
                 PROVE  Display(stored[h]) = Display(Initially[h]) + Balance(booked, h)
    BY DEF BalancesAddUp
  <2>2. stored[h] = Initially[h] - Balance(booked, h)
    BY <1>1 DEF CheckInv, LedgerInv, Exclusive
  <2>3. Initially[h] \in Int /\ Balance(booked, h) \in Int
    BY <1>1, InitiallyType, BalanceType DEF CheckInv, TypeOK, Keys
  <2>4. QED
    BY <2>2, <2>3 DEF Display
<1>2. QED
  BY <1>1, CheckInvariant, PTL

-----------------------------------------------------------------------------
(* Transaction lists: sums of what transactions did to an account.         *)

DeltaOf(r, a) == [t \in DOMAIN r |-> BalanceDelta(r[t], t, a)]

\* The accounts a row names are those the ledger posts it to, and what
\* balance_delta_for_account takes back of a posted row is what it did.
LEMMA DeltaIsEffect ==
    ASSUME NEW t \in Txns, NEW a \in Parties
    PROVE  /\ Involves(t, a) <=> Moves(t, a)
           /\ Involves(t, a) => BalanceDelta("posted", t, a) = Effect(t, a)
           /\ \A s \in RowStatuses : s # "posted" => BalanceDelta(s, t, a) = 0
<1>1. /\ Payments[t].amount \in Nat
      /\ Payments[t].from \in Parties /\ Payments[t].to \in Parties
      /\ Payments[t].kind \in {"deposit", "withdraw", "transfer"}
      /\ Payments[t].kind = "transfer" <=> Payments[t].from # Payments[t].to
      /\ a # Cash
  BY PaymentType, CashAssumption
<1>2. CASE Payments[t].kind = "deposit"
  BY <1>1, <1>2 DEF Involves, Moves, Source, Destination, BalanceDelta, Effect, Amount
<1>3. CASE Payments[t].kind = "withdraw"
  BY <1>1, <1>3 DEF Involves, Moves, Source, Destination, BalanceDelta, Effect, Amount
<1>4. CASE Payments[t].kind = "transfer"
  BY <1>1, <1>4 DEF Involves, Moves, Source, Destination, BalanceDelta, Effect, Amount
<1>5. QED
  BY <1>1, <1>2, <1>3, <1>4

LEMMA DeltaType ==
    ASSUME NEW t \in Txns, NEW a \in Parties, NEW s \in RowStatuses, Involves(t, a)
    PROVE  BalanceDelta(s, t, a) \in Int
<1>1. CASE s = "posted"
  BY <1>1, DeltaIsEffect, EffectType
<1>2. CASE s # "posted"
  BY <1>2, DeltaIsEffect
<1>3. QED
  BY <1>1, <1>2

LEMMA UndoneIsSum ==
    ASSUME NEW r, NEW t, NEW a
    PROVE  Undone(r, t, a) = Sum(DeltaOf(r, a), {u \in DOMAIN r : u > t /\ Involves(u, a)})
<1> DEFINE E    == {u \in DOMAIN r : u > t /\ Involves(u, a)}
           P(g) == g = [s \in SUBSET E |-> IF s = {} THEN 0
                                           ELSE BalanceDelta(r[Any(s)], Any(s), a) + g[s \ {Any(s)}]]
<1>1. Undone(r, t, a) = (CHOOSE g : P(g))[E]
  BY DEF Undone, MapThenSumSet, MapThenFoldSet, Any
<1>2. \A g : P(g) <=> IsSum(g, DeltaOf(r, a), E)
  <2>1. \A s \in SUBSET E : s # {} => BalanceDelta(r[Any(s)], Any(s), a) = DeltaOf(r, a)[Any(s)]
    <3>1. TAKE s \in SUBSET E
    <3>2. s # {} => Any(s) \in DOMAIN r
      BY DEF Any
    <3> HIDE DEF P, E
    <3>3. QED
      BY <3>2 DEF DeltaOf
  <2> HIDE DEF E
  <2>2. QED
    BY <2>1 DEF IsSum
<1>3. (CHOOSE g : P(g)) = (CHOOSE g : IsSum(g, DeltaOf(r, a), E))
  <2> HIDE DEF P, E
  <2>1. QED
    BY <1>2
<1>4. QED
  BY <1>1, <1>3, SumDef

LEMMA UndoneType ==
    ASSUME NEW r, DOMAIN r \subseteq Txns, \A u \in DOMAIN r : r[u] \in RowStatuses, NEW t,
           NEW a \in Parties
    PROVE  Undone(r, t, a) \in Int
<1> DEFINE walked == {u \in DOMAIN r : u > t /\ Involves(u, a)}
<1>1. IsFiniteSet(walked)
  BY PaymentsAssumption, FS_Subset
<1>2. \A u \in walked : DeltaOf(r, a)[u] \in Int
  <2>1. \A u \in walked : u \in DOMAIN r /\ u \in Txns /\ Involves(u, a) /\ r[u] \in RowStatuses
    OBVIOUS
  <2>2. \A u \in walked : BalanceDelta(r[u], u, a) \in Int
    BY <2>1, DeltaType
  <2>3. QED
    BY <2>1, <2>2 DEF DeltaOf
<1>3. QED
  BY <1>1, <1>2, UndoneIsSum, SumType

\* The rows r agree with what was posted, and every posted transaction of the
\* account newer than t is among them: the walk back arrives at the balance
\* there was when t and the older ones had been posted.
LEMMA WalkBackArrives ==
    ASSUME NEW r, DOMAIN r \subseteq Txns, \A u \in DOMAIN r : r[u] \in RowStatuses,
           NEW set \in SUBSET Txns, NEW t \in Txns, NEW a \in Parties,
           \A u \in DOMAIN r : r[u] = "posted" <=> u \in set,
           \A u \in set : u > t /\ Involves(u, a) => u \in DOMAIN r
    PROVE  Balance(set, a) - Undone(r, t, a) = Balance({u \in set : u <= t}, a)
<1> DEFINE older == {u \in {v \in set : v <= t} : Involves(u, a)}
           newer == {u \in set : u > t /\ Involves(u, a)}
           walked  == {u \in DOMAIN r : u > t /\ Involves(u, a)}
<1>1. /\ older \subseteq Txns /\ newer \subseteq Txns /\ walked \subseteq DOMAIN r
      /\ older \cap newer = {} /\ newer \subseteq walked
      /\ {u \in set : Moves(u, a)} = older \cup newer
      /\ {u \in {v \in set : v <= t} : Moves(u, a)} = older
  <2>1. \A u \in Txns : u \in Int /\ t \in Int /\ (Moves(u, a) <=> Involves(u, a))
    BY NumbersAssumption, DeltaIsEffect
  <2>2. QED
    BY <2>1
<1>2. IsFiniteSet(older) /\ IsFiniteSet(newer) /\ IsFiniteSet(walked) /\ IsFiniteSet(walked \ newer)
  BY <1>1, PaymentsAssumption, FS_Subset
<1>3. /\ Balance(set, a) = Sum(EffectOn(a), older \cup newer)
      /\ Balance({u \in set : u <= t}, a) = Sum(EffectOn(a), older)
      /\ Undone(r, t, a) = Sum(DeltaOf(r, a), walked)
  BY <1>1, BalanceIsSum, UndoneIsSum
<1>4. \A u \in older \cup newer : EffectOn(a)[u] \in Int
  <2>1. \A u \in older \cup newer : u \in Txns
    BY <1>1
  <2>2. QED
    BY <2>1, EffectType DEF EffectOn
<1>5. \A u \in newer : DeltaOf(r, a)[u] = EffectOn(a)[u]
  <2>1. \A u \in newer : u \in DOMAIN r /\ u \in Txns /\ Involves(u, a) /\ r[u] = "posted"
    BY <1>1
  <2>2. QED
    BY <2>1, DeltaIsEffect DEF EffectOn, DeltaOf
<1>6. \A u \in walked \ newer : DeltaOf(r, a)[u] = 0
  <2>1. \A u \in walked \ newer : u \in DOMAIN r /\ u \in Txns /\ Involves(u, a) /\ r[u] # "posted"
    OBVIOUS
  <2>2. QED
    BY <2>1, DeltaIsEffect DEF DeltaOf
<1> HIDE DEF older, newer, walked
<1>7. Sum(EffectOn(a), older \cup newer) = Sum(EffectOn(a), older) + Sum(EffectOn(a), newer)
  BY <1>1, <1>2, <1>4, SumUnion
<1>8. Sum(DeltaOf(r, a), newer) = Sum(EffectOn(a), newer)
  BY <1>2, <1>4, <1>5, SumSame
<1>9. Sum(DeltaOf(r, a), walked \ newer) = 0
  BY <1>2, <1>6, SumOfZeros
<1>10. Sum(DeltaOf(r, a), walked) = Sum(DeltaOf(r, a), newer) + Sum(DeltaOf(r, a), walked \ newer)
  <2>1. walked = newer \cup (walked \ newer) /\ newer \cap (walked \ newer) = {}
    BY <1>1
  <2>2. \A u \in newer \cup (walked \ newer) : DeltaOf(r, a)[u] \in Int
    BY <1>4, <1>5, <1>6
  <2>3. QED
    BY <1>2, <2>1, <2>2, SumUnion
<1>11. Sum(EffectOn(a), older) \in Int /\ Sum(EffectOn(a), newer) \in Int
  BY <1>2, <1>4, SumType
<1>12. QED
  BY <1>3, <1>7, <1>8, <1>9, <1>10, <1>11

\* The newest rows of a set: a later one of the set is among them.
LEMMA NewerAreListed ==
    ASSUME NEW set \in SUBSET Txns, NEW n \in Nat, NEW t \in Limited(set, 0, n),
           NEW u \in set, u > t
    PROVE  u \in Limited(set, 0, n)
<1> DEFINE above(v) == {w \in set : w > v}
<1>1. t \in set /\ Cardinality(above(t)) \in 0 .. 0 + n - 1
  BY DEF Limited
<1>2. \A v \in set : v \in Int
  BY NumbersAssumption
<1>3. above(u) \subseteq above(t)
  BY <1>1, <1>2
<1>4. IsFiniteSet(above(t))
  BY PaymentsAssumption, FS_Subset
<1>5. /\ IsFiniteSet(above(u)) /\ Cardinality(above(u)) <= Cardinality(above(t))
      /\ Cardinality(above(u)) \in Nat /\ Cardinality(above(t)) \in Nat
  BY <1>3, <1>4, FS_Subset, FS_CardinalityType
<1>6. Cardinality(above(u)) \in 0 .. 0 + n - 1
  BY <1>1, <1>5
<1>7. QED
  BY <1>6 DEF Limited

LEMMA QuestionType ==
    ASSUME NEW q \in Questions
    PROVE  /\ q.op \in {"account", "organization", "transaction"}
           /\ q.op = "account" => q.account \in Parties /\ q.limit \in Nat
           /\ q.op = "organization" => q.page \in Nat \ {0} /\ q.perPage \in Nat \ {0}
           /\ q.op = "transaction" => q.id \in Txns
BY QuestionsAssumption DEF Question

LEMMA FoundType ==
    ASSUME HistoryTypeOK, NEW q \in Questions
    PROVE  Found(q) \subseteq {t \in Txns : status[t] # "absent"}
BY QuestionType DEF Found, Limited, Listable

LEMMA ShownType ==
    ASSUME HistoryTypeOK, NEW l \in Listings, NEW t \in DOMAIN rows[l]
    PROVE  Shown(l, t) \subseteq Parties /\ Shown(l, t) \subseteq Needed(l)
<1>1. t \in Txns /\ asked[l] \in Questions
  BY DEF HistoryTypeOK
<1>2. Shown(l, t) \subseteq Parties
  BY <1>1, PaymentType, QuestionType DEF Shown
<1>3. QED
  BY <1>2 DEF Needed

-----------------------------------------------------------------------------
(* Transaction lists: the invariant.                                       *)

\* The rows a listing read are those the ledger had posted, and no posted
\* transaction of an account shown with a row is newer and missing.
Agrees(r, b, q) ==
    /\ \A u \in DOMAIN r : r[u] = "posted" <=> u \in b
    /\ \A t \in DOMAIN r, u \in b, a \in Parties :
          u > t /\ Involves(u, a) /\ (q.op = "account" => a = q.account) => u \in DOMAIN r

RightIn(list, b) ==
    \A e \in list : e.status = "posted" /\ e.account \notin overlapped =>
        e.balance = Balance({t \in b : t <= e.id}, e.account)

IsNewest(q) == q.op = "account" \/ (q.op = "organization" /\ q.page = 1)

\* A balance that was read is that of what was posted when the rows were, of
\* an account whose postings never overlapped.
PresentBalances(l) ==
    /\ booked = book[l]
    /\ \A a \in Parties \ overlapped : balances[l][a] \in {Unread, Balance(book[l], a)}

ListingInv(l) ==
    /\ phase[l] = "rows" => \A a \in Parties : balances[l][a] = Unread
    /\ phase[l] = "balances" /\ still[l] => PresentBalances(l)
    /\ phase[l] = "balances" /\ still[l] /\ IsNewest(asked[l]) => Agrees(rows[l], book[l], asked[l])
    /\ phase[l] = "200" /\ still[l] /\ IsNewest(asked[l]) => RightIn(listed[l], book[l])

Nothing == [h \in Holders |-> 0]

HistoryInv ==
    /\ HistoryTypeOK /\ LedgerInv(Nothing) /\ DOMAIN rows = Listings /\ DOMAIN listed = Listings
    /\ \A l \in Listings : ListingInv(l)

\* A step that leaves a listing alone, and posts nothing while it asks for balances.
SameListing(l) ==
    /\ phase'[l] = phase[l] /\ asked'[l] = asked[l] /\ rows'[l] = rows[l]
    /\ balances'[l] = balances[l] /\ listed'[l] = listed[l] /\ book'[l] = book[l]
    /\ still'[l] => still[l] /\ (phase[l] = "balances" => booked' = booked)
    /\ overlapped \subseteq overlapped'

LEMMA ListingKept ==
    ASSUME NEW l \in Listings, ListingInv(l), SameListing(l)
    PROVE  ListingInv(l)'
BY DEF ListingInv, SameListing, PresentBalances, RightIn

LEMMA NothingType == Nothing \in [Holders -> Int] /\ \A h \in Holders : Nothing[h] = 0
BY DEF Nothing

\* The balance of an account whose postings never overlapped is what was posted.
LEMMA StoredIsPosted ==
    ASSUME LedgerInv(Nothing), NEW h \in Holders \ overlapped
    PROVE  Display(stored[h]) = Balance(booked, h)
<1>1. stored[h] = Nothing[h] - Balance(booked, h) /\ Balance(booked, h) \in Int
  BY BalanceType DEF LedgerInv, LedgerTypes, Exclusive
<1>2. QED
  BY <1>1, NothingType DEF Display

LEMMA HistoryInvStart == HistoryInit => HistoryInv
<1> SUFFICES ASSUME HistoryInit PROVE HistoryInv
  OBVIOUS
<1>1. \A h \in Holders : Balance(Legacy, h) \in Int
  BY LegacyAssumption, BalanceType
<1>2. /\ stored = [h \in Holders |-> - Balance(Legacy, h)] /\ booked = Legacy
      /\ loaded = [t \in Txns |-> NothingRead] /\ overlapped = {}
  BY DEF HistoryInit, BalancesInit
<1>3. LedgerTypes
  BY <1>1, <1>2, LegacyAssumption DEF LedgerTypes, NothingRead
<1>4. \A t \in Txns, h \in Holders : ~HasRead(t, h)
  BY <1>2 DEF NothingRead, HasRead
<1>5. ASSUME NEW h \in Holders PROVE Exclusive(Nothing, h)
  <2>1. stored[h] = Nothing[h] - Balance(booked, h)
    BY <1>1, <1>2, NothingType
  <2>2. QED
    BY <1>4, <2>1 DEF Exclusive
<1>6. LedgerInv(Nothing)
  BY <1>3, <1>4, <1>5 DEF LedgerInv, Reads
<1>7. HistoryTypeOK
  BY <1>3, LegacyAssumption DEF HistoryInit, HistoryTypeOK, LedgerTypes, RowStatuses, NoRows
<1>8. QED
  BY <1>6, <1>7 DEF HistoryInit, HistoryInv, ListingInv

\* A listing leaves the ledger alone.
LEMMA LedgerUnread ==
    ASSUME HistoryInv, UNCHANGED unchangedTransactions
    PROVE  LedgerInv(Nothing)' /\ overlapped' = overlapped /\ booked' = booked /\ stored' = stored
BY LedgerUnmoved, NothingType DEF HistoryInv, unchangedTransactions, ledgerVars

\* What a listing reads when rows and ledger agree.
LEMMA RowsReadAgree ==
    ASSUME HistoryTypeOK, NEW q \in Questions, IsNewest(q), RowsAgree
    PROVE  Agrees([t \in Found(q) |-> status[t]], booked, q)
<1> DEFINE of == IF q.op = "account" THEN {t \in Listable : Involves(t, q.account)} ELSE Listable
           n  == IF q.op = "account" THEN q.limit ELSE q.perPage
<1>1. Found(q) = Limited(of, 0, n) /\ n \in Nat /\ of \in SUBSET Txns /\ of \subseteq Listable
  <2>1. of \in SUBSET Txns /\ of \subseteq Listable /\ Listable \subseteq Txns
    BY DEF Listable
  <2>2. CASE q.op = "account"
    BY <2>1, <2>2, QuestionType DEF Found
  <2>3. CASE q.op = "organization" /\ q.page = 1
    <3>1. q.perPage \in Nat /\ (q.page - 1) * q.perPage = 0
      BY <2>3, QuestionType
    <3>2. QED
      BY <2>1, <2>3, <3>1 DEF Found
  <2>4. QED
    BY <2>2, <2>3 DEF IsNewest
<1>2. \A u \in Found(q) : status[u] = "posted" <=> u \in booked
  BY FoundType DEF RowsAgree
<1>3. ASSUME NEW t \in Found(q), NEW u \in booked, NEW a \in Parties,
             u > t, Involves(u, a), q.op = "account" => a = q.account
      PROVE  u \in Found(q)
  <2>1. t \in Listable /\ t \in Limited(of, 0, n)
    BY <1>1, <1>3 DEF Limited
  <2>2. u \in Txns /\ status[u] = "posted" /\ t \in Txns \ Legacy
    BY <2>1 DEF HistoryTypeOK, RowsAgree, Listable
  <2>3. u \in Int /\ t \in Int
    BY <2>2, NumbersAssumption
  <2>4. u \notin Legacy
    BY <1>3, <2>2, <2>3, LegacyAssumption
  <2>5. u \in Listable
    BY <2>2, <2>4 DEF Listable
  <2>6. u \in of
    BY <1>3, <2>5
  <2>7. QED
    BY <1>1, <1>3, <2>1, <2>6, NewerAreListed
<1>4. QED
  BY <1>2, <1>3 DEF Agrees

LEMMA ReadRowsKeeps ==
    ASSUME HistoryInv, NEW l \in Listings, ReadRows(l)
    PROVE  HistoryInv'
<1>0. asked[l] \in Questions /\ HistoryTypeOK /\ asked' = asked /\ booked' = booked
  BY DEF HistoryInv, HistoryTypeOK, ReadRows, unchangedTransactions, ledgerVars
<1>1. HistoryTypeOK' /\ DOMAIN rows' = Listings /\ DOMAIN listed' = Listings
  <2>1. Found(asked[l]) \subseteq {t \in Txns : status[t] # "absent"}
    BY <1>0, FoundType
  <2>2. CASE phase'[l] = "500" /\ UNCHANGED <<rows, book, still>>
    BY <2>2 DEF HistoryInv, HistoryTypeOK, ReadRows, unchangedTransactions, ledgerVars
  <2>3. CASE /\ rows' = [rows EXCEPT ![l] = [t \in Found(asked[l]) |-> status[t]]]
             /\ book' = [book EXCEPT ![l] = booked]
             /\ still' = [still EXCEPT ![l] = RowsAgree]
    <3>1. still' \in [Listings -> BOOLEAN]
      BY <1>0, <2>3 DEF HistoryTypeOK, RowsAgree
    <3>2. book' \in [Listings -> SUBSET Txns]
      BY <1>0, <2>3 DEF HistoryTypeOK
    <3>3. phase' \in [Listings -> {"rows", "balances", "200", "404", "500"}]
      BY <1>0 DEF HistoryTypeOK, ReadRows
    <3>4. \A k \in Listings : /\ DOMAIN rows'[k] \subseteq Txns
                              /\ \A t \in DOMAIN rows'[k] : rows'[k][t] \in RowStatuses \ {"absent"}
      BY <1>0, <2>1, <2>3 DEF HistoryInv, HistoryTypeOK
    <3>5. QED
      BY <1>0, <2>3, <3>1, <3>2, <3>3, <3>4
         DEF HistoryInv, HistoryTypeOK, ReadRows, unchangedTransactions, ledgerVars
  <2>4. QED
    BY <1>0, <2>2, <2>3 DEF HistoryTypeOK, ReadRows
<1>2. ASSUME NEW k \in Listings, k # l
      PROVE  ListingInv(k)'
  <2>1. SameListing(k)
    BY <1>2 DEF HistoryInv, HistoryTypeOK, ReadRows, SameListing, unchangedTransactions, ledgerVars
  <2>2. QED
    BY <2>1, ListingKept DEF HistoryInv
<1>3. ListingInv(l)'
  <2>1. CASE phase'[l] = "balances"
    <3>1. /\ rows'[l] = [t \in Found(asked[l]) |-> status[t]]
          /\ book'[l] = booked /\ still'[l] = RowsAgree
          /\ balances' = balances /\ phase[l] = "rows"
      BY <2>1 DEF HistoryInv, HistoryTypeOK, ReadRows, unchangedTransactions, ledgerVars
    <3>2. PresentBalances(l)'
      BY <1>0, <3>1 DEF HistoryInv, ListingInv, PresentBalances
    <3>3. still'[l] /\ IsNewest(asked[l]) => Agrees(rows'[l], book'[l], asked[l])
      BY <1>0, <3>1, RowsReadAgree
    <3>4. QED
      BY <1>0, <2>1, <3>2, <3>3 DEF ListingInv
  <2>2. CASE phase'[l] \in {"404", "500"}
    BY <2>2 DEF ListingInv
  <2>3. QED
    BY <2>1, <2>2 DEF HistoryInv, HistoryTypeOK, ReadRows, unchangedTransactions, ledgerVars
<1>4. QED
  BY <1>1, <1>2, <1>3, LedgerUnread DEF HistoryInv, ReadRows

LEMMA ReadBalanceKeeps ==
    ASSUME HistoryInv, NEW l \in Listings, NEW a \in Parties, ReadBalance(l, a)
    PROVE  HistoryInv'
<1>0. a \in Holders /\ Display(stored[a]) \in Int
  BY DEF HistoryInv, HistoryTypeOK, Holders, Display
<1>1. HistoryTypeOK' /\ DOMAIN rows' = Listings /\ DOMAIN listed' = Listings
  <2>1. PICK x \in Int :
          \/ balances' = [balances EXCEPT ![l][a] = x] /\ UNCHANGED still
          \/ balances' = [balances EXCEPT ![l][a] = x] /\ still' = [still EXCEPT ![l] = FALSE]
    BY <1>0 DEF ReadBalance
  <2>2. balances' \in [Listings -> [Parties -> Int \cup {Unread}]]
    <3>1. balances \in [Listings -> [Parties -> Int \cup {Unread}]]
      BY DEF HistoryInv, HistoryTypeOK
    <3>2. [balances[l] EXCEPT ![a] = x] \in [Parties -> Int \cup {Unread}]
      BY <3>1
    <3>3. balances' = [balances EXCEPT ![l] = [balances[l] EXCEPT ![a] = x]]
      BY <2>1
    <3>4. QED
      BY <3>1, <3>2, <3>3
  <2>3. still' \in [Listings -> BOOLEAN]
    BY <2>1 DEF HistoryInv, HistoryTypeOK
  <2>4. QED
    BY <2>2, <2>3 DEF HistoryInv, HistoryTypeOK, ReadBalance, unchangedTransactions, ledgerVars
<1>2. ASSUME NEW k \in Listings, k # l
      PROVE  ListingInv(k)'
  <2>1. SameListing(k)
    BY <1>2 DEF HistoryInv, HistoryTypeOK, ReadBalance, SameListing, unchangedTransactions, ledgerVars
  <2>2. QED
    BY <2>1, ListingKept DEF HistoryInv
<1>3. ListingInv(l)'
  <2>1. phase'[l] = "balances" /\ phase[l] = "balances"
    BY DEF ReadBalance
  <2>2. CASE still'[l]
    <3>1. /\ still[l] /\ balances' = [balances EXCEPT ![l][a] = Display(stored[a])]
          /\ booked' = booked /\ overlapped' = overlapped
          /\ book' = book /\ rows' = rows /\ asked' = asked
      BY <2>2 DEF HistoryInv, HistoryTypeOK, ReadBalance, unchangedTransactions, ledgerVars
    <3>2. PresentBalances(l)
      BY <2>1, <3>1 DEF HistoryInv, ListingInv
    <3>3. a \notin overlapped => Display(stored[a]) = Balance(book[l], a)
      BY <1>0, <3>2, StoredIsPosted DEF HistoryInv, PresentBalances
    <3>4. PresentBalances(l)'
      BY <3>1, <3>2, <3>3 DEF PresentBalances, HistoryInv, HistoryTypeOK
    <3>5. QED
      BY <2>1, <3>1, <3>4 DEF HistoryInv, ListingInv
  <2>3. QED
    BY <2>1, <2>2 DEF ListingInv
<1>4. QED
  BY <1>1, <1>2, <1>3, LedgerUnread DEF HistoryInv, ReadBalance

LEMMA RespondKeeps ==
    ASSUME HistoryInv, NEW l \in Listings, Respond(l)
    PROVE  HistoryInv'
<1> DEFINE Entry(t, a) == [id |-> t, status |-> rows[l][t], account |-> a, balance |-> WalkBack(l, t, a)]
<1>0. ASSUME NEW e \in listed'[l]
      PROVE  \E t \in DOMAIN rows[l] : \E a \in Shown(l, t) : e = Entry(t, a)
  BY <1>0 DEF HistoryInv, Respond, Entries
<1>1. ASSUME NEW t \in DOMAIN rows[l], NEW a \in Shown(l, t)
      PROVE  a \in Parties /\ balances[l][a] \in Int /\ WalkBack(l, t, a) \in Int
  <2>1. a \in Parties /\ a \in Needed(l)
    BY <1>1, ShownType DEF HistoryInv
  <2>2. balances[l][a] \in Int
    BY <2>1 DEF HistoryInv, HistoryTypeOK, Respond, unchangedTransactions, ledgerVars
  <2>3. Undone(rows[l], t, a) \in Int
    BY <2>1, UndoneType DEF HistoryInv, HistoryTypeOK
  <2>4. QED
    BY <2>1, <2>2, <2>3 DEF WalkBack
<1>2. HistoryTypeOK' /\ DOMAIN rows' = Listings /\ DOMAIN listed' = Listings
  <2>1. \A e \in listed'[l] : e.balance \in Int
    BY <1>0, <1>1
  <2>2. QED
    BY <2>1 DEF HistoryInv, HistoryTypeOK, Respond, unchangedTransactions, ledgerVars
<1>3. ASSUME NEW k \in Listings, k # l
      PROVE  ListingInv(k)'
  <2>1. SameListing(k)
    BY <1>3 DEF HistoryInv, HistoryTypeOK, Respond, SameListing, unchangedTransactions, ledgerVars
  <2>2. QED
    BY <2>1, ListingKept DEF HistoryInv
<1>4. ASSUME still[l], IsNewest(asked[l])
      PROVE  RightIn(listed'[l], book[l])
  <2>1. PresentBalances(l) /\ Agrees(rows[l], book[l], asked[l])
    BY <1>4 DEF HistoryInv, ListingInv, Respond
  <2>2. SUFFICES ASSUME NEW e \in listed'[l], e.status = "posted", e.account \notin overlapped
                 PROVE  e.balance = Balance({u \in book[l] : u <= e.id}, e.account)
    BY DEF RightIn
  <2>3. PICK t \in DOMAIN rows[l] : \E a \in Shown(l, t) : e = Entry(t, a)
    BY <1>0
  <2>4. PICK a \in Shown(l, t) : e = Entry(t, a)
    BY <2>3
  <2>5. /\ t \in Txns /\ DOMAIN rows[l] \subseteq Txns /\ book[l] \in SUBSET Txns
        /\ \A u \in DOMAIN rows[l] : rows[l][u] \in RowStatuses
    BY DEF HistoryInv, HistoryTypeOK
  <2>6. balances[l][a] = Balance(book[l], a)
    <3>1. a \in Parties \ overlapped /\ balances[l][a] \in Int
      BY <1>1, <2>2, <2>4
    <3>2. QED
      BY <2>1, <3>1, UnreadAssumption DEF PresentBalances
  <2>7. asked[l].op = "account" => a = asked[l].account
    BY DEF Shown
  <2>8. \A u \in book[l] : u > t /\ Involves(u, a) => u \in DOMAIN rows[l]
    BY <1>1, <2>1, <2>7 DEF Agrees
  <2>9. \A u \in DOMAIN rows[l] : rows[l][u] = "posted" <=> u \in book[l]
    BY <2>1 DEF Agrees
  <2>10. Balance(book[l], a) - Undone(rows[l], t, a) = Balance({u \in book[l] : u <= t}, a)
    BY <1>1, <2>5, <2>8, <2>9, WalkBackArrives
  <2>11. e.balance = Balance(book[l], a) - Undone(rows[l], t, a) /\ e.id = t /\ e.account = a
    BY <2>4, <2>6 DEF WalkBack
  <2>12. QED
    BY <2>10, <2>11, Zenon
<1>5. ListingInv(l)'
  <2>1. phase'[l] = "200" /\ still' = still /\ asked' = asked /\ book' = book
    BY DEF HistoryInv, HistoryTypeOK, Respond, unchangedTransactions, ledgerVars
  <2>2. still[l] /\ IsNewest(asked[l]) => RightIn(listed[l], book[l])'
    BY <1>4, <2>1, LedgerUnread DEF RightIn, Respond
  <2>3. QED
    BY <2>1, <2>2 DEF ListingInv
<1>6. QED
  BY <1>2, <1>3, <1>5, LedgerUnread DEF HistoryInv, Respond

LEMMA TransactionsKeep ==
    ASSUME HistoryInv, NEW t \in Txns, Create(t) \/ LedgerWorksOn(t) \/ RecordOutcome(t)
    PROVE  HistoryInv'
<1>0. LedgerInv(Nothing) /\ LedgerTypes /\ Reads
  BY DEF HistoryInv, LedgerInv
<1>1. /\ LedgerInv(Nothing)' /\ LedgerTypes' /\ overlapped \subseteq overlapped'
      /\ CommitPosting(t) \/ booked' = booked
  <2>1. CASE UNCHANGED ledgerVars
    BY <1>0, <2>1, LedgerUnmoved, NothingType DEF ledgerVars, LedgerInv
  <2>2. CASE WorkOn(t)
    BY <1>0, <2>2, WorkKeeps, WorkMeans, NothingType
  <2>3. CASE CommitPosting(t)
    BY <1>0, <2>3, CommitKeeps, CommitMeans, NothingType
  <2>4. QED
    BY <2>1, <2>2, <2>3 DEF Create, LedgerWorksOn, LedgerBooks, RecordOutcome
<1>2. HistoryTypeOK' /\ DOMAIN rows' = Listings /\ DOMAIN listed' = Listings
  <2>1. status' \in [Txns -> RowStatuses] /\ still' \in [Listings -> BOOLEAN]
    BY DEF HistoryInv, HistoryTypeOK, RowStatuses, Create, LedgerWorksOn, LedgerBooks, RecordOutcome
  <2>2. UNCHANGED unchangedListings
    BY DEF Create, LedgerWorksOn, RecordOutcome
  <2>3. QED
    BY <1>1, <2>1, <2>2 DEF HistoryInv, HistoryTypeOK, LedgerTypes, unchangedListings
<1>3. ASSUME NEW k \in Listings
      PROVE  ListingInv(k)'
  <2>1. still'[k] => still[k] /\ (phase[k] = "balances" => booked' = booked)
    <3>1. CASE UNCHANGED <<still, booked>>
      BY <3>1
    <3>2. CASE LedgerBooks(t)
      BY <3>2 DEF HistoryInv, HistoryTypeOK, LedgerBooks
    <3>3. QED
      BY <3>1, <3>2 DEF Create, LedgerWorksOn, RecordOutcome, WorkOn, BeginPosting, WriteSource,
                        RollBackPosting, ledgerVars
  <2>2. SameListing(k)
    BY <1>1, <2>1
       DEF Create, LedgerWorksOn, RecordOutcome, unchangedListings, SameListing
  <2>3. QED
    BY <2>2, ListingKept DEF HistoryInv
<1>4. QED
  BY <1>1, <1>2, <1>3 DEF HistoryInv

LEMMA HistoryInvStep == HistoryInv /\ [HistoryNext]_historyVars => HistoryInv'
<1> SUFFICES ASSUME HistoryInv, [HistoryNext]_historyVars
             PROVE  HistoryInv'
  OBVIOUS
<1>1. CASE \E t \in Txns : Create(t) \/ LedgerWorksOn(t) \/ RecordOutcome(t)
  BY <1>1, TransactionsKeep
<1>2. CASE \E l \in Listings : ListTransactions(l)
  <2>1. PICK l \in Listings : ListTransactions(l)
    BY <1>2
  <2>2. CASE ReadRows(l)
    BY <2>2, ReadRowsKeeps
  <2>3. CASE \E a \in Parties : ReadBalance(l, a)
    BY <2>3, ReadBalanceKeeps
  <2>4. CASE Respond(l)
    BY <2>4, RespondKeeps
  <2>5. QED
    BY <2>1, <2>2, <2>3, <2>4 DEF ListTransactions
<1>3. CASE UNCHANGED historyVars
  <2>1. HistoryTypeOK' /\ DOMAIN rows' = Listings /\ DOMAIN listed' = Listings
    BY <1>3 DEF HistoryInv, HistoryTypeOK, historyVars, ledgerVars
  <2>2. \A l \in Listings : SameListing(l)
    BY <1>3 DEF SameListing, historyVars, ledgerVars
  <2>3. LedgerInv(Nothing)'
    BY <1>3, LedgerUnmoved, NothingType DEF HistoryInv, historyVars
  <2>4. QED
    BY <2>1, <2>2, <2>3, ListingKept DEF HistoryInv
<1>4. QED
  BY <1>1, <1>2, <1>3 DEF HistoryNext

\* The inductive invariant of transaction lists.
THEOREM HistoryInvariant == HistorySpec => []HistoryInv
<1>1. QED
  BY HistoryInvStart, HistoryInvStep, PTL DEF HistorySpec

\* Every variable of a listing and of the transactions has its type
\* (list_account_transactions, list_transactions, get_transaction).
THEOREM HistoryTypeCorrect == HistorySpec => []HistoryTypeOK
<1>1. HistoryInv => HistoryTypeOK
  BY DEF HistoryInv
<1>2. QED
  BY <1>1, HistoryInvariant, PTL

\* The list of an account and the first page of an organization's show, with
\* every posted transaction, the balance its account had once it and the
\* older ones were posted: however many transactions, of whatever kinds,
\* amounts and statuses, and whatever the length of the list, when the rows
\* agreed with the ledger, it posted nothing before the last balance was read,
\* and no two postings of the account were at work at once before
\* (balance_delta_for_account, list_account_transactions, list_transactions,
\* update_balance!).
THEOREM NewestBalancesAreRight == HistorySpec => []NewestAreRight
<1>1. HistoryInv => NewestAreRight
  BY DEF HistoryInv, ListingInv, NewestAreRight, Newest, IsNewest, Right, RightIn
<1>2. QED
  BY <1>1, HistoryInvariant, PTL

-----------------------------------------------------------------------------
(* Paged lists: where a row stands in its list.                            *)

\* The rows that come before row i in its list, and how many there are.
Above(i) == {j \in Matching(table[i].scope) : Before(j, i)}
Rank(i)  == Cardinality(Above(i))

\* The rows of a list in the pages before page p.
Done(p, q) == (p - 1) * q

LEMMA DoneIs ==
    ASSUME NEW p \in Nat \ {0}, NEW q \in Nat
    PROVE  /\ Done(p, q) \in Nat /\ Done(1, q) = 0
           /\ Done(p + 1, q) = Done(p, q) + q
<1>1. (p - 1) * q \in Nat
  OBVIOUS
<1>2. (p + 1 - 1) * q = (p - 1) * q + q
  OBVIOUS
<1>3. QED
  BY <1>1, <1>2 DEF Done

\* ORDER BY time DESC, id DESC orders any two rows of a list.
LEMMA ListOrder ==
    ASSUME PagingTypeOK, NEW s \in Scopes
    PROVE  /\ \A i, j \in Matching(s) : i # j => (Before(i, j) <=> ~Before(j, i))
           /\ \A i \in Matching(s) : ~Before(i, i)
<1>1. \A i \in Matching(s) : i \in Int /\ table[i].time \in Int
  <2>1. TAKE i \in Matching(s)
  <2>2. i \in Ids /\ table[i] # Absent
    BY DEF Matching
  <2>3. table \in [Ids -> Row \cup {Absent}]
    BY DEF PagingTypeOK
  <2>4. table[i] \in Row
    BY <2>2, <2>3
  <2>5. table[i].time \in Times
    BY <2>4 DEF Row
  <2>6. Ids \subseteq Nat /\ Times \subseteq Nat
    BY IdsAssumption
  <2>7. i \in Nat
    BY <2>2, <2>6
  <2>8. table[i].time \in Nat
    BY <2>5, <2>6
  <2>9. QED
    BY <2>7, <2>8
<1>2. QED
  BY <1>1 DEF Before

LEMMA ListIsFinite ==
    ASSUME NEW s
    PROVE  /\ IsFiniteSet(Matching(s))
           /\ Cardinality(Matching(s)) \in Nat /\ Cardinality(Matching(s)) < Wrap
<1>1. Matching(s) \subseteq Ids
  BY DEF Matching
<1>2. QED
  BY <1>1, TableAssumption, PerPageAssumption, FS_Subset, FS_CardinalityType

LEMMA RankType ==
    ASSUME PagingTypeOK, NEW s \in Scopes, NEW i \in Matching(s)
    PROVE  Rank(i) \in Nat /\ Rank(i) < Cardinality(Matching(s))
<1>1. table[i].scope = s /\ i \in Matching(s)
  BY DEF Matching
<1>2. Above(i) \subseteq Matching(s) /\ i \notin Above(i)
  BY <1>1, ListOrder DEF Above
<1>3. /\ IsFiniteSet(Above(i)) /\ Cardinality(Above(i)) <= Cardinality(Matching(s))
      /\ Cardinality(Matching(s)) = Cardinality(Above(i)) => Matching(s) = Above(i)
  BY <1>2, ListIsFinite, FS_Subset
<1>4. QED
  BY <1>1, <1>2, <1>3, ListIsFinite, FS_CardinalityType DEF Rank

\* In every order the database may return them in, a row's place is its rank.
LEMMA PlaceIsRank ==
    ASSUME PagingTypeOK, NEW s \in Scopes, NEW f \in Orders(Matching(s))
    PROVE  /\ f \in [1 .. Cardinality(Matching(s)) -> Matching(s)]
           /\ \A i \in Matching(s) : \E m \in 1 .. Cardinality(Matching(s)) : f[m] = i
           /\ \A m \in 1 .. Cardinality(Matching(s)) : Rank(f[m]) = m - 1
<1> DEFINE M == Matching(s)
           n == Cardinality(M)
<1>1. n \in Nat /\ IsFiniteSet(M)
  BY ListIsFinite
<1>2. /\ f \in [1 .. n -> M]
      /\ \A m, k \in 1 .. n : m < k => f[m] # f[k] /\ ~Before(f[k], f[m])
  BY DEF Orders
<1>3. f \in Injection(1 .. n, M)
  BY <1>1, <1>2 DEF Injection, IsInjective
<1>4. IsFiniteSet(1 .. n) /\ Cardinality(1 .. n) = n
  BY <1>1, FS_Interval
<1>5. f \in Surjection(1 .. n, M)
  BY <1>1, <1>3, <1>4, FS_Injection
<1>6. \A i \in M : \E m \in 1 .. n : f[m] = i
  BY <1>5 DEF Surjection
<1>7. ASSUME NEW m \in 1 .. n PROVE Rank(f[m]) = m - 1
  <2> DEFINE U == 1 .. m - 1
             g == [k \in U |-> f[k]]
  <2>1. f[m] \in M /\ table[f[m]].scope = s
    BY <1>2 DEF Matching
  <2>2. \A k \in 1 .. n : Before(f[k], f[m]) <=> k < m
    <3>1. TAKE k \in 1 .. n
    <3>2. f[k] \in M
      BY <1>2
    <3>3. CASE k = m
      BY <2>1, <3>3, ListOrder
    <3>4. CASE k < m
      BY <1>2, <2>1, <3>2, <3>4, ListOrder
    <3>5. CASE m < k
      BY <1>2, <2>1, <3>2, <3>5, ListOrder
    <3>6. QED
      BY <1>1, <3>3, <3>4, <3>5
  <2>3. \A k \in U : k \in 1 .. n /\ f[k] \in Above(f[m])
    BY <1>1, <1>2, <2>1, <2>2 DEF Above
  <2>4. \A i \in Above(f[m]) : \E k \in U : f[k] = i
    BY <1>1, <1>6, <2>1, <2>2 DEF Above
  <2>5. g \in Bijection(U, Above(f[m]))
    <3>1. g \in [U -> Above(f[m])]
      BY <2>3
    <3>2. \A j, k \in U : g[j] = g[k] => j = k
      BY <1>1, <1>2, <2>3
    <3>3. \A i \in Above(f[m]) : \E k \in U : g[k] = i
      BY <2>4
    <3>4. QED
      BY <3>1, <3>2, <3>3 DEF Bijection, Injection, Surjection, IsInjective
  <2>6. IsFiniteSet(U) /\ Cardinality(U) = m - 1
    <3>1. 1 \in Int /\ m - 1 \in Int /\ (IF 1 > m - 1 THEN 0 ELSE m - 1 - 1 + 1) = m - 1
      BY <1>1
    <3>2. QED
      BY <3>1, FS_Interval
  <2>7. Cardinality(Above(f[m])) = m - 1
    BY <2>5, <2>6, FS_Bijection DEF ExistsBijection
  <2>8. QED
    BY <2>7 DEF Rank
<1>8. QED
  BY <1>2, <1>6, <1>7

\* What LIMIT q OFFSET off shows: the rows of q places, fewer at the end.
LEMMA SliceShows ==
    ASSUME PagingTypeOK, NEW s \in Scopes, NEW off \in Nat, NEW q \in Nat \ {0},
           NEW p \in Slices(Matching(s), off, q)
    PROVE  /\ {p[n] : n \in DOMAIN p} = {i \in Matching(s) : off <= Rank(i) /\ Rank(i) < off + q}
           /\ Len(p) < q <=> Cardinality(Matching(s)) < off + q
<1> DEFINE M == Matching(s)
           n == Cardinality(M)
           last == IF off + q < n THEN off + q ELSE n
<1>1. n \in Nat
  BY ListIsFinite
<1>2. PICK f \in Orders(M) : p = SubSeq(f, off + 1, IF off + q < Len(f) THEN off + q ELSE Len(f))
  BY DEF Slices
<1>3. /\ f \in [1 .. n -> M]
      /\ \A i \in M : \E m \in 1 .. n : f[m] = i
      /\ \A m \in 1 .. n : Rank(f[m]) = m - 1
  BY PlaceIsRank
<1>4. Len(f) = n
  BY <1>1, <1>3
<1>5. p = SubSeq(f, off + 1, last)
  BY <1>2, <1>4
<1>6. \A m \in off + 1 .. last : m \in 1 .. n /\ f[m] \in M
  <2> HIDE DEF M, n
  <2>1. ASSUME NEW m \in off + 1 .. last
        PROVE  m \in 1 .. n
    BY <1>1
  <2>2. QED
    BY <1>3, <2>1
<1> HIDE DEF M, n
<1>7. /\ p \in Seq(M)
      /\ Len(p) = IF off + 1 <= last THEN last - off ELSE 0
      /\ \A k \in 1 .. last - off : p[k] = f[off + k]
  <2>1. off + 1 \in Int /\ last \in Int
    BY <1>1
  <2> HIDE DEF last
  <2>2. /\ p \in Seq(M)
        /\ Len(p) = IF off + 1 <= last THEN last - (off + 1) + 1 ELSE 0
        /\ \A k \in 1 .. last - (off + 1) + 1 : p[k] = f[off + 1 + k - 1]
    BY <1>5, <1>6, <2>1, SubSeqProperties
  <2>3. last - (off + 1) + 1 = last - off /\ \A k \in Int : off + 1 + k - 1 = off + k
    BY <2>1
  <2>4. /\ Len(p) = IF off + 1 <= last THEN last - off ELSE 0
        /\ \A k \in 1 .. last - off : p[k] = f[off + 1 + k - 1]
    BY <2>2, <2>3, Zenon
  <2>5. ASSUME NEW k \in 1 .. last - off
        PROVE  p[k] = f[off + k]
    <3>1. off + 1 + k - 1 = off + k
      BY <2>1
    <3>2. QED
      BY <2>4, <3>1, Zenon
  <2>6. QED
    BY <2>2, <2>4, <2>5, Zenon
<1>8. DOMAIN p = 1 .. Len(p) /\ Len(p) \in Nat
  BY <1>7, LenProperties
<1>9. ASSUME NEW k \in DOMAIN p
      PROVE  p[k] \in M /\ off <= Rank(p[k]) /\ Rank(p[k]) < off + q
  <2>1. k \in 1 .. last - off
    BY <1>1, <1>7, <1>8
  <2>2. p[k] = f[off + k]
    BY <1>7, <2>1
  <2>3. k \in Int /\ 1 <= k /\ k <= q /\ off + k \in 1 .. n
    BY <1>1, <2>1
  <2>4. Rank(f[off + k]) = off + k - 1 /\ f[off + k] \in M
    BY <1>3, <2>3
  <2>5. QED
    BY <2>2, <2>3, <2>4
<1>10. ASSUME NEW i \in M, off <= Rank(i), Rank(i) < off + q
       PROVE  \E k \in DOMAIN p : p[k] = i
  <2>1. PICK m \in 1 .. n : f[m] = i
    BY <1>3
  <2>2. Rank(i) = m - 1
    BY <1>3, <2>1
  <2>3. m - off \in 1 .. last - off
    BY <1>1, <1>10, <2>1, <2>2
  <2>4. p[m - off] = f[m] /\ m - off \in DOMAIN p
    <3>1. off + (m - off) = m
      BY <2>1, <1>1
    <3>2. Len(p) = last - off
      BY <1>1, <1>7, <2>3
    <3>3. QED
      BY <1>7, <1>8, <2>3, <3>1, <3>2
  <2>5. QED
    BY <2>1, <2>4
<1>11. Len(p) < q <=> n < off + q
  BY <1>1, <1>7
<1>12. QED
  BY <1>9, <1>10, <1>11 DEF M, n

-----------------------------------------------------------------------------
(* Paged lists: the invariant of a walk.                                   *)

Walking(w) == stage[w] \in {"count", "select", "between"}
ListOf(w)  == Matching(query[w].scope)
Size(w)    == PerPage(query[w].perPage)

\* The rows in the pages the client has been answered.
Passed(w) == IF stage[w] = "between" THEN Done(page[w] + 1, Size(w)) ELSE Done(page[w], Size(w))

\* Everything the list had is behind the walk or still ahead of it, and a
\* walk that no insertion disturbed has seen exactly the rows behind it.
Ahead(w) ==
    /\ page[w] >= 1 /\ Passed(w) <= Cardinality(ListOf(w))
    /\ had[w] \subseteq ListOf(w)
    /\ \A i \in had[w] \ got[w] : Rank(i) >= Passed(w)

Exact(w) ==
    /\ got[w] \subseteq ListOf(w)
    /\ \A i \in ListOf(w) : i \in got[w] <=> Rank(i) < Passed(w)

Counted(w) ==
    /\ total[w] >= Cardinality(had[w])
    /\ ~fresh[w] => total[w] = Cardinality(ListOf(w))

WalkInv(w) ==
    /\ stage[w] = "idle" => got[w] = {}
    /\ ~fresh[w] => ~twice[w]
    /\ Walking(w) => Ahead(w)
    /\ Walking(w) /\ ~fresh[w] => Exact(w)
    /\ stage[w] = "select" => Counted(w)
    /\ stage[w] = "complete" =>
          /\ had[w] \subseteq got[w]
          /\ total[w] >= Cardinality(had[w])
          /\ ~fresh[w] => total[w] = Cardinality(got[w])

ListInv == PagingTypeOK /\ \A w \in Walks : WalkInv(w)

LEMMA SizeType ==
    ASSUME PagingTypeOK, NEW w \in Walks
    PROVE  /\ Size(w) \in Nat \ {0} /\ query[w].scope \in Scopes /\ page[w] \in Nat
           /\ page[w] >= 1 => Passed(w) \in Nat
<1>1. /\ query[w].scope \in Scopes /\ query[w].perPage \in {Absent} \cup 0 .. MaxPerPage + 1
      /\ page[w] \in Nat
  BY DEF PagingTypeOK
<1>2. Size(w) \in Nat \ {0}
  BY <1>1, PerPageAssumption DEF Size, PerPage
<1>3. page[w] >= 1 => Passed(w) \in Nat
  <2>1. SUFFICES ASSUME page[w] >= 1 PROVE Passed(w) \in Nat
    OBVIOUS
  <2>2. page[w] \in Nat \ {0} /\ page[w] + 1 \in Nat \ {0}
    BY <1>1, <2>1
  <2>3. Done(page[w], Size(w)) \in Nat /\ Done(page[w] + 1, Size(w)) \in Nat
    BY <1>2, <2>2, DoneIs
  <2>4. QED
    BY <2>3 DEF Passed
<1>4. QED
  BY <1>1, <1>2, <1>3

LEMMA ListStart == PagingInit => ListInv
<1> SUFFICES ASSUME PagingInit PROVE ListInv
  OBVIOUS
<1>1. PagingTypeOK
  BY DEF PagingInit, PagingTypeOK
<1>2. QED
  BY <1>1 DEF PagingInit, ListInv, WalkInv, Walking

\* Every step keeps the types.
LEMMA PagingTypeStep == PagingTypeOK /\ [PagingNext]_pagingVars => PagingTypeOK'
<1> SUFFICES ASSUME PagingTypeOK, [PagingNext]_pagingVars PROVE PagingTypeOK'
  OBVIOUS
<1> USE DEF PagingTypeOK
<1>1. ASSUME NEW i \in Ids, NEW r \in Row, Insert(i, r) PROVE PagingTypeOK'
  BY <1>1 DEF Insert
<1>2. ASSUME NEW w \in Walks, NEW p \in {Absent, 0, 1}, Begin(w, p) PROVE PagingTypeOK'
  BY <1>2 DEF Begin, AtLeastOne, Matching
<1>3. ASSUME NEW w \in Walks, Continue(w) PROVE PagingTypeOK'
  BY <1>3 DEF Continue, AtLeastOne
<1>4. ASSUME NEW w \in Walks, CountRows(w) PROVE PagingTypeOK'
  BY <1>4, ListIsFinite DEF CountRows
<1>5. ASSUME NEW w \in Walks, SelectPage(w) PROVE PagingTypeOK'
  <2>1. PICK q \in Nat \ {0}, off \in Nat, c \in Scopes :
           q = PerPage(query[w].perPage) /\ off = Offset(page[w], q) /\ c = query[w].scope
    <3>1. Size(w) \in Nat \ {0} /\ query[w].scope \in Scopes /\ page[w] \in Nat
      BY SizeType
    <3>2. (page[w] - 1) * Size(w) \in Int
      BY <3>1
    <3>3. Offset(page[w], Size(w)) \in Nat
      BY <3>2, PerPageAssumption DEF Offset
    <3>4. QED
      BY <3>1, <3>3 DEF Size
  <2>2. PICK s \in Slices(Matching(c), off, q) :
           LET read == {s[n] : n \in DOMAIN s}
           IN  /\ got' = [got EXCEPT ![w] = @ \cup read]
               /\ twice' = [twice EXCEPT ![w] = @ \/ read \cap got[w] # {}]
               /\ stage' = [stage EXCEPT ![w] = IF Len(s) < q THEN "complete" ELSE "between"]
    BY <1>5, <2>1 DEF SelectPage
  <2>3. {s[n] : n \in DOMAIN s} \subseteq Ids
    <3>1. {s[n] : n \in DOMAIN s} \subseteq Matching(c)
      BY SliceShows
    <3>2. QED
      BY <3>1 DEF Matching
  <2>4. QED
    BY <1>5, <2>2, <2>3 DEF SelectPage
<1>6. ASSUME NEW w \in Walks, Fail(w) PROVE PagingTypeOK'
  BY <1>6 DEF Fail
<1>7. CASE UNCHANGED pagingVars
  BY <1>7 DEF pagingVars
<1>8. QED
  BY <1>1, <1>2, <1>3, <1>4, <1>5, <1>6, <1>7 DEF PagingNext

-----------------------------------------------------------------------------
(* Paged lists: the steps.                                                 *)

\* A row that arrives moves the rows of its list back, and no other list's.
LEMMA InsertMoves ==
    ASSUME PagingTypeOK, PagingTypeOK', NEW i \in Ids, NEW r \in Row, Insert(i, r),
           NEW s \in Scopes
    PROVE  /\ Matching(s) \subseteq Matching(s)'
           /\ \A j \in Matching(s) : Rank(j)' >= Rank(j)
           /\ r.scope # s => /\ Matching(s)' = Matching(s)
                             /\ \A j \in Matching(s) : Rank(j)' = Rank(j)
<1>1. /\ table[i] = Absent
      /\ \A j \in Ids : table'[j] = IF j = i THEN r ELSE table[j]
  BY DEF Insert, PagingTypeOK
<1>2. /\ Matching(s) \subseteq Matching(s)'
      /\ r.scope # s => Matching(s)' = Matching(s)
  BY <1>1 DEF Matching
<1>3. \A j \in Matching(s) : /\ j \in Ids /\ j # i /\ table[j].scope = s
                              /\ table'[j] = table[j]
  BY <1>1 DEF Matching
<1>4. \A j, k \in Matching(s) : Before(k, j)' <=> Before(k, j)
  BY <1>3 DEF Before
<1>5. ASSUME NEW j \in Matching(s)
      PROVE  Rank(j)' >= Rank(j) /\ (r.scope # s => Rank(j)' = Rank(j))
  <2>1. Above(j) \subseteq Above(j)' /\ (r.scope # s => Above(j)' = Above(j))
    BY <1>2, <1>3, <1>4 DEF Above
  <2>2. Above(j)' \subseteq Ids
    BY DEF Above, Matching
  <2>3. IsFiniteSet(Above(j)')
    BY <2>2, TableAssumption, FS_Subset
  <2>4. Cardinality(Above(j)) <= Cardinality(Above(j)')
    BY <2>1, <2>3, FS_Subset
  <2>5. QED
    BY <2>1, <2>4 DEF Rank
<1>6. QED
  BY <1>2, <1>5

LEMMA InsertKeepsWalks ==
    ASSUME ListInv, PagingTypeOK', NEW i \in Ids, NEW r \in Row, Insert(i, r), NEW w \in Walks
    PROVE  WalkInv(w)'
<1>0. PagingTypeOK /\ WalkInv(w)
  BY DEF ListInv
<1> PICK s \in Scopes : s = query[w].scope
  BY <1>0, SizeType
<1>1. /\ stage' = stage /\ page' = page /\ query' = query /\ total' = total
      /\ had' = had /\ got' = got /\ twice' = twice
      /\ fresh'[w] = (fresh[w] \/ (stage[w] # "idle" /\ s = r.scope))
  BY DEF Insert
<1>2. /\ Passed(w)' = Passed(w) /\ (Walking(w)' <=> Walking(w))
      /\ ListOf(w)' = Matching(s)' /\ ListOf(w) = Matching(s)
  BY <1>1 DEF Passed, Size, Walking, ListOf, PerPage, Done
<1>3. /\ Matching(s) \subseteq Matching(s)'
      /\ \A j \in Matching(s) : Rank(j)' >= Rank(j)
      /\ r.scope # s => /\ Matching(s)' = Matching(s)
                        /\ \A j \in Matching(s) : Rank(j)' = Rank(j)
  BY <1>0, InsertMoves
<1>4. /\ Cardinality(Matching(s)) <= Cardinality(Matching(s)')
      /\ Cardinality(Matching(s)) \in Nat /\ Cardinality(Matching(s)') \in Nat
  <2>1. IsFiniteSet(Matching(s)')
    BY TableAssumption, FS_Subset DEF Matching
  <2>2. QED
    BY <1>3, <2>1, ListIsFinite, FS_Subset, FS_CardinalityType
<1>5. \A j \in Matching(s) : Rank(j) \in Nat
  BY <1>0, RankType
<1>6. \A j \in Matching(s) : Rank(j)' \in Nat
  <2>1. \A j : IsFiniteSet(Above(j)')
    BY TableAssumption, FS_Subset DEF Above, Matching
  <2>2. QED
    BY <2>1, FS_CardinalityType DEF Rank
<1>7. Walking(w) => Passed(w) \in Nat
  BY <1>0, SizeType DEF WalkInv, Ahead
<1>8. CASE Walking(w)
  <2>1. stage[w] \in {"count", "select", "between"}
    BY <1>8 DEF Walking
  <2>2. Ahead(w) /\ Passed(w) \in Nat
    BY <1>0, <1>7, <1>8 DEF WalkInv
  <2>3. Ahead(w)'
    <3>1. page'[w] >= 1 /\ Passed(w)' <= Cardinality(ListOf(w)')
      BY <1>1, <1>2, <1>4, <2>2 DEF Ahead
    <3>2. had'[w] \subseteq ListOf(w)'
      BY <1>1, <1>2, <1>3, <2>2 DEF Ahead
    <3>3. \A j \in had'[w] \ got'[w] : Rank(j)' >= Passed(w)'
      BY <1>1, <1>2, <1>3, <1>5, <1>6, <2>2 DEF Ahead
    <3>4. QED
      BY <3>1, <3>2, <3>3 DEF Ahead
  <2>4. ~fresh'[w] => r.scope # s /\ ~fresh[w]
    BY <1>1, <2>1
  <2>5. ~fresh'[w] => Exact(w)'
    BY <1>0, <1>1, <1>2, <1>3, <1>8, <2>4 DEF WalkInv, Exact
  <2>6. stage'[w] = "select" => Counted(w)'
    BY <1>0, <1>1, <1>2, <1>3, <2>4 DEF WalkInv, Counted
  <2>7. ~fresh'[w] => ~twice'[w]
    BY <1>0, <1>1, <2>4 DEF WalkInv
  <2>8. QED
    BY <1>1, <2>1, <2>3, <2>5, <2>6, <2>7 DEF WalkInv
<1>9. CASE ~Walking(w)
  BY <1>0, <1>1, <1>2, <1>9 DEF WalkInv, Walking
<1>10. QED
  BY <1>8, <1>9

\* A client's step moves no other walk and no row.
LEMMA OtherWalks ==
    ASSUME PagingTypeOK, NEW w \in Walks, NEW v \in Walks, WalkInv(v), v # w,
           table' = table, query' = query, fresh' = fresh,
           stage'[v] = stage[v], page'[v] = page[v], total'[v] = total[v],
           had'[v] = had[v], got'[v] = got[v], twice'[v] = twice[v]
    PROVE  WalkInv(v)'
BY DEF WalkInv, Walking, Ahead, Exact, Counted, Passed, Size, ListOf, Matching, Rank,
       Above, Before, PerPage, Done

LEMMA ListsUnmoved ==
    ASSUME table' = table, query' = query
    PROVE  /\ \A c : Matching(c)' = Matching(c)
           /\ \A i : Rank(i)' = Rank(i)
           /\ \A w : Size(w)' = Size(w) /\ ListOf(w)' = ListOf(w)
BY DEF Matching, Rank, Above, Before, Size, ListOf

LEMMA BeginKeeps ==
    ASSUME ListInv, NEW w \in Walks, NEW p \in {Absent, 0, 1}, Begin(w, p)
    PROVE  WalkInv(w)'
<1>0. PagingTypeOK /\ WalkInv(w)
  BY DEF ListInv
<1>1. /\ stage[w] = "idle" /\ stage'[w] = "count" /\ page'[w] = 1
      /\ had'[w] = ListOf(w) /\ got'[w] = {}
      /\ UNCHANGED <<table, query, total, got, twice, fresh>>
  BY <1>0, AbsentAssumption DEF Begin, AtLeastOne, PagingTypeOK, WalkInv, ListOf
<1>2. /\ ListOf(w)' = ListOf(w) /\ Size(w)' = Size(w) /\ \A i : Rank(i)' = Rank(i)
  BY <1>1, ListsUnmoved
<1>3. Size(w) \in Nat \ {0} /\ query[w].scope \in Scopes
  BY <1>0, SizeType
<1>4. Passed(w)' = 0
  BY <1>1, <1>2, <1>3, DoneIs DEF Passed
<1>5. Cardinality(ListOf(w)) \in Nat /\ \A i \in ListOf(w) : Rank(i) \in Nat
  BY <1>0, <1>3, ListIsFinite, RankType DEF ListOf
<1>6. Ahead(w)' /\ Exact(w)'
  BY <1>1, <1>2, <1>4, <1>5 DEF Ahead, Exact
<1>7. QED
  BY <1>0, <1>1, <1>6 DEF WalkInv

LEMMA ContinueKeeps ==
    ASSUME ListInv, NEW w \in Walks, Continue(w)
    PROVE  WalkInv(w)'
<1>0. PagingTypeOK /\ WalkInv(w)
  BY DEF ListInv
<1>1. /\ stage[w] = "between" /\ stage'[w] = "count"
      /\ page'[w] = AtLeastOne(page[w] + 1)
      /\ UNCHANGED <<table, query, total, had, got, twice, fresh>>
  BY <1>0 DEF Continue, PagingTypeOK
<1>2. Ahead(w) /\ (~fresh[w] => Exact(w)) /\ page[w] \in Nat
  BY <1>0, <1>1 DEF WalkInv, Walking, PagingTypeOK
<1>3. page'[w] = page[w] + 1 /\ page[w] >= 1
  BY <1>1, <1>2, AbsentAssumption DEF AtLeastOne, Ahead
<1>4. /\ ListOf(w)' = ListOf(w) /\ Size(w)' = Size(w) /\ \A i : Rank(i)' = Rank(i)
  BY <1>1, ListsUnmoved
<1>5. Passed(w)' = Passed(w)
  BY <1>1, <1>3, <1>4 DEF Passed
<1>6. Ahead(w)' /\ (~fresh[w] => Exact(w)')
  BY <1>1, <1>2, <1>3, <1>4, <1>5 DEF Ahead, Exact
<1>7. QED
  BY <1>0, <1>1, <1>6 DEF WalkInv

LEMMA CountKeeps ==
    ASSUME ListInv, NEW w \in Walks, CountRows(w)
    PROVE  WalkInv(w)'
<1>0. PagingTypeOK /\ WalkInv(w)
  BY DEF ListInv
<1>1. /\ stage[w] = "count" /\ stage'[w] = "select"
      /\ total'[w] = Cardinality(ListOf(w))
      /\ UNCHANGED <<table, page, query, had, got, twice, fresh>>
  BY <1>0 DEF CountRows, PagingTypeOK, ListOf
<1>2. Ahead(w) /\ (~fresh[w] => Exact(w))
  BY <1>0, <1>1 DEF WalkInv, Walking
<1>3. /\ ListOf(w)' = ListOf(w) /\ Size(w)' = Size(w) /\ \A i : Rank(i)' = Rank(i)
  BY <1>1, ListsUnmoved
<1>4. Passed(w)' = Passed(w)
  BY <1>1, <1>3 DEF Passed
<1>5. Ahead(w)' /\ (~fresh[w] => Exact(w)')
  BY <1>1, <1>2, <1>3, <1>4 DEF Ahead, Exact
<1>6. IsFiniteSet(ListOf(w)) /\ had[w] \subseteq ListOf(w)
  BY <1>2, ListIsFinite DEF Ahead, ListOf
<1>7. Cardinality(had[w]) <= Cardinality(ListOf(w))
  BY <1>6, FS_Subset
<1>8. Cardinality(had[w]) \in Nat /\ Cardinality(ListOf(w)) \in Nat
  BY <1>6, FS_Subset, FS_CardinalityType
<1>9. Counted(w)'
  BY <1>1, <1>3, <1>7, <1>8 DEF Counted
<1>10. QED
  BY <1>0, <1>1, <1>5, <1>9 DEF WalkInv

\* The page that is answered is the rows next after those passed.
LEMMA SelectKeeps ==
    ASSUME ListInv, NEW w \in Walks, SelectPage(w)
    PROVE  WalkInv(w)'
<1>0. PagingTypeOK /\ WalkInv(w)
  BY DEF ListInv
<1>1. PICK q \in Nat \ {0}, c \in Scopes : q = Size(w) /\ c = query[w].scope
  BY <1>0, SizeType
<1>2. /\ stage[w] = "select"
      /\ UNCHANGED <<table, page, query, total, had, fresh>>
  BY DEF SelectPage
<1>3. Ahead(w) /\ (~fresh[w] => Exact(w)) /\ Counted(w)
  BY <1>0, <1>2 DEF WalkInv, Walking
<1>4. page[w] \in Nat \ {0} /\ Passed(w) = Done(page[w], q)
  BY <1>0, <1>1, <1>2, <1>3 DEF PagingTypeOK, Ahead, Passed
<1>5. /\ Done(page[w], q) \in Nat
      /\ Done(page[w] + 1, q) = Done(page[w], q) + q
  BY <1>4, DoneIs
<1>6. PICK n \in Nat : n = Cardinality(Matching(c)) /\ n < Wrap
  BY ListIsFinite
<1>7. ListOf(w) = Matching(c)
  BY <1>1 DEF ListOf
<1> PICK off \in Nat : off = Done(page[w], q)
  BY <1>5
<1>8. off <= n
  BY <1>3, <1>4, <1>6, <1>7 DEF Ahead
<1>9. Offset(page[w], q) = off
  BY <1>6, <1>8, PerPageAssumption DEF Offset, Done
<1>10. PICK p \in Slices(Matching(c), off, q) :
          /\ got' = [got EXCEPT ![w] = @ \cup {p[k] : k \in DOMAIN p}]
          /\ twice' = [twice EXCEPT ![w] = @ \/ {p[k] : k \in DOMAIN p} \cap got[w] # {}]
          /\ stage' = [stage EXCEPT ![w] = IF Len(p) < q THEN "complete" ELSE "between"]
  BY <1>1, <1>9 DEF SelectPage, Size
<1> DEFINE read == {i \in Matching(c) : off <= Rank(i) /\ Rank(i) < off + q}
<1>11. {p[k] : k \in DOMAIN p} = read /\ (Len(p) < q <=> n < off + q)
  BY <1>0, <1>6, SliceShows
<1>12. /\ got'[w] = got[w] \cup read
       /\ twice'[w] = (twice[w] \/ read \cap got[w] # {})
       /\ stage'[w] = IF n < off + q THEN "complete" ELSE "between"
  BY <1>0, <1>10, <1>11 DEF PagingTypeOK
<1>13. /\ ListOf(w)' = Matching(c) /\ Size(w)' = q /\ \A i : Rank(i)' = Rank(i)
       /\ page'[w] = page[w] /\ had'[w] = had[w] /\ total'[w] = total[w]
       /\ fresh'[w] = fresh[w]
  BY <1>1, <1>2, <1>7, ListsUnmoved
<1>14. /\ had[w] \subseteq Matching(c)
       /\ \A i \in had[w] \ got[w] : Rank(i) >= off
       /\ ~fresh[w] => /\ got[w] \subseteq Matching(c)
                       /\ \A i \in Matching(c) : i \in got[w] <=> Rank(i) < off
  BY <1>3, <1>4, <1>7 DEF Ahead, Exact
<1>15. \A i \in Matching(c) : Rank(i) \in Nat /\ Rank(i) < n
  BY <1>0, <1>6, RankType
<1>16. /\ \A i \in had[w] \ got'[w] : Rank(i) >= off + q
       /\ ~fresh[w] => /\ got'[w] \subseteq Matching(c)
                       /\ \A i \in Matching(c) : i \in got'[w] <=> Rank(i) < off + q
                       /\ read \cap got[w] = {}
  BY <1>12, <1>14, <1>15
<1>17. ~fresh'[w] => ~twice'[w]
  BY <1>0, <1>12, <1>13, <1>16 DEF WalkInv
<1> HIDE DEF read
<1>18. CASE n < off + q
  <2>1. stage'[w] = "complete"
    BY <1>12, <1>18
  <2>2. had[w] \subseteq got'[w]
    BY <1>14, <1>15, <1>16, <1>18
  <2>3. ~fresh[w] => got'[w] = Matching(c)
    <3>1. SUFFICES ASSUME ~fresh[w] PROVE got'[w] = Matching(c)
      OBVIOUS
    <3>2. \A i \in Matching(c) : Rank(i) < off + q
      BY <1>6, <1>15, <1>18
    <3>3. got'[w] \subseteq Matching(c) /\ \A i \in Matching(c) : i \in got'[w]
      BY <1>16, <3>1, <3>2
    <3>4. QED
      BY <3>3
  <2>4. total[w] >= Cardinality(had[w]) /\ (~fresh[w] => total[w] = Cardinality(Matching(c)))
    BY <1>3, <1>7 DEF Counted
  <2>5. QED
    BY <1>13, <1>17, <2>1, <2>2, <2>3, <2>4 DEF WalkInv, Walking
<1>19. CASE ~(n < off + q)
  <2>1. stage'[w] = "between"
    BY <1>12, <1>19
  <2>2. Passed(w)' = off + q
    BY <1>5, <1>13, <2>1 DEF Passed
  <2>3. Ahead(w)'
    BY <1>4, <1>6, <1>13, <1>14, <1>16, <1>19, <2>2 DEF Ahead
  <2>4. ~fresh'[w] => Exact(w)'
    BY <1>13, <1>16, <2>2 DEF Exact
  <2>5. QED
    BY <1>17, <2>1, <2>3, <2>4 DEF WalkInv
<1>20. QED
  BY <1>18, <1>19

LEMMA FailKeeps ==
    ASSUME ListInv, NEW w \in Walks, Fail(w)
    PROVE  WalkInv(w)'
<1>1. /\ stage'[w] = "failed" /\ WalkInv(w)
      /\ UNCHANGED <<table, page, query, total, had, got, twice, fresh>>
  BY DEF ListInv, Fail, PagingTypeOK
<1>2. QED
  BY <1>1 DEF WalkInv, Walking

LEMMA ListStep == ListInv /\ [PagingNext]_pagingVars => ListInv'
<1> SUFFICES ASSUME ListInv, [PagingNext]_pagingVars PROVE ListInv'
  OBVIOUS
<1>1. PagingTypeOK /\ PagingTypeOK'
  BY PagingTypeStep DEF ListInv
<1>2. ASSUME NEW v \in Walks PROVE WalkInv(v)'
  <2>1. ASSUME NEW i \in Ids, NEW r \in Row, Insert(i, r) PROVE WalkInv(v)'
    BY <1>1, <2>1, InsertKeepsWalks
  <2>2. ASSUME NEW w \in Walks, NEW p \in {Absent, 0, 1}, Begin(w, p) PROVE WalkInv(v)'
    <3>1. CASE v = w
      BY <2>2, <3>1, BeginKeeps
    <3>2. CASE v # w
      BY <1>1, <2>2, <3>2, OtherWalks DEF Begin, PagingTypeOK, ListInv
    <3>3. QED
      BY <3>1, <3>2
  <2>3. ASSUME NEW w \in Walks, Continue(w) PROVE WalkInv(v)'
    <3>1. CASE v = w
      BY <2>3, <3>1, ContinueKeeps
    <3>2. CASE v # w
      BY <1>1, <2>3, <3>2, OtherWalks DEF Continue, PagingTypeOK, ListInv
    <3>3. QED
      BY <3>1, <3>2
  <2>4. ASSUME NEW w \in Walks, CountRows(w) PROVE WalkInv(v)'
    <3>1. CASE v = w
      BY <2>4, <3>1, CountKeeps
    <3>2. CASE v # w
      BY <1>1, <2>4, <3>2, OtherWalks DEF CountRows, PagingTypeOK, ListInv
    <3>3. QED
      BY <3>1, <3>2
  <2>5. ASSUME NEW w \in Walks, SelectPage(w) PROVE WalkInv(v)'
    <3>1. CASE v = w
      BY <2>5, <3>1, SelectKeeps
    <3>2. CASE v # w
      BY <1>1, <2>5, <3>2, OtherWalks DEF SelectPage, PagingTypeOK, ListInv
    <3>3. QED
      BY <3>1, <3>2
  <2>6. ASSUME NEW w \in Walks, Fail(w) PROVE WalkInv(v)'
    <3>1. CASE v = w
      BY <2>6, <3>1, FailKeeps
    <3>2. CASE v # w
      BY <1>1, <2>6, <3>2, OtherWalks DEF Fail, PagingTypeOK, ListInv
    <3>3. QED
      BY <3>1, <3>2
  <2>7. CASE UNCHANGED pagingVars
    <3>1. WalkInv(v)
      BY DEF ListInv
    <3>2. QED
      BY <2>7, <3>1 DEF pagingVars, WalkInv, Walking, Ahead, Exact, Counted, Passed, Size,
                        ListOf, Matching, Rank, Above, Before, PerPage, Done
  <2>8. QED
    BY <2>1, <2>2, <2>3, <2>4, <2>5, <2>6, <2>7 DEF PagingNext
<1>3. QED
  BY <1>1, <1>2 DEF ListInv

-----------------------------------------------------------------------------
(* Paged lists: the theorems.                                              *)

\* Every walk keeps its invariant: behind it or ahead of it, nothing lost.
THEOREM ListInvariant == PagingSpec => []ListInv
BY ListStart, ListStep, PTL DEF PagingSpec

\* Every variable of the lists has its type.
THEOREM PagingTypeCorrect == PagingSpec => []PagingTypeOK
<1>1. ListInv => PagingTypeOK
  BY DEF ListInv
<1>2. QED
  BY <1>1, ListInvariant, PTL

\* A walk that ends has shown every row its list had when it began, whatever
\* was inserted meanwhile (the ORDER BY of the three list queries).
THEOREM WalksAreComplete == PagingSpec => []WalkIsComplete
<1>1. ListInv => WalkIsComplete
  BY DEF ListInv, WalkInv, WalkIsComplete
<1>2. QED
  BY <1>1, ListInvariant, PTL

\* Only an insertion makes a walk show a row again (LIMIT and OFFSET).
THEOREM RepeatsTakeInserts == PagingSpec => []RepeatTakesInsert
<1>1. ListInv => RepeatTakesInsert
  BY DEF ListInv, WalkInv, RepeatTakesInsert
<1>2. QED
  BY <1>1, ListInvariant, PTL

\* The total is that of the list: of what was shown, when nothing was inserted.
THEOREM TotalsAreOfTheList == PagingSpec => []TotalIsOfTheList
<1>1. ListInv => TotalIsOfTheList
  BY DEF ListInv, WalkInv, TotalIsOfTheList
<1>2. QED
  BY <1>1, ListInvariant, PTL
=============================================================================
