--------------------------- MODULE LedgerBalances ---------------------------
(***************************************************************************)
(* ledger-service: how postings change the stored balances                 *)
(* (services/ledger_poster.rb, models/account_balance.rb), as the          *)
(* accounts-service sees it.  Overdraft and TransactionHistory extend it.  *)
(*                                                                         *)
(* A posting takes its two accounts in turn, the source first: it reads    *)
(* the balance (without a lock), computes the new one, and writes that.    *)
(* The write locks the row until the posting commits or rolls back, and    *)
(* others read the old balance till then.  Postings of one account may     *)
(* therefore overwrite each other: the effect of one is lost.  `overlapped`*)
(* is history: the accounts where two postings were at work at once.       *)
(*                                                                         *)
(* A write comes with the next read, or with the commit: until then it     *)
(* only waits for the lock.  LedgerPosting has every statement, keys that  *)
(* several calls try and rows left pending; here a key has at most one     *)
(* posting at a time, and every account has its balance row.               *)
(*                                                                         *)
(* A definition commented "Mutant" is used by no specification: it is the  *)
(* next definition with a plausible bug, and shows that a property notices.*)
(***************************************************************************)
EXTENDS Integers, FiniteSets, FiniteSetsExt

CONSTANTS Parties,    \* customer accounts
          Cash,       \* SYSTEM_CASH_CONTROL
          Payments,   \* kind, from, to and amount of each transaction
          Unread

Txns    == DOMAIN Payments
Holders == Parties \cup {Cash}

Payment == [kind : {"deposit", "withdraw", "transfer"}, from : Parties, to : Parties,
            amount : Nat \ {0}]

ASSUME PaymentsAssumption ==
    /\ IsFiniteSet(Txns)
    /\ \A t \in Txns : /\ Payments[t] \in Payment
                       /\ Payments[t].kind = "transfer" <=> Payments[t].from # Payments[t].to
ASSUME CashAssumption   == Cash \notin Parties
ASSUME UnreadAssumption == Unread \notin Int

VARIABLES
    stored,     \* the balance of each account, debits positive
    booked,     \* the transactions the ledger has posted
    loaded,     \* what each open posting has read of each account, Unread before
    overlapped

ledgerVars == <<stored, booked, loaded, overlapped>>

-----------------------------------------------------------------------------
\* A deposit is posted from the cash account, a withdrawal to it.
Source(t)      == IF Payments[t].kind = "deposit" THEN Cash ELSE Payments[t].from
Destination(t) == IF Payments[t].kind = "withdraw" THEN Cash ELSE Payments[t].to
Amount(t)      == Payments[t].amount

\* negate_ledger_balance_for_display
Display(b) == -b

\* What transactions do to the balance of an account, as it is displayed.
Moves(t, h)     == h \in {Source(t), Destination(t)}
Effect(t, h)    == IF h = Source(t) THEN - Amount(t) ELSE Amount(t)
Balance(set, h) == MapThenSumSet(LAMBDA t : Effect(t, h), {t \in set : Moves(t, h)})

HasRead(t, h) == loaded[t][h] # Unread
Open(t)       == HasRead(t, Source(t))

\* Before it reads its destination, a posting has written its source.
Locks(t, h) == h = Source(t) /\ HasRead(t, Destination(t))
Free(t, h)  == \A u \in Txns \ {t} : ~Locks(u, h)

NothingRead == [h \in Holders |-> Unread]

BalancesInit(b, set) ==
    /\ stored = b
    /\ booked = set
    /\ loaded = [t \in Txns |-> NothingRead]
    /\ overlapped = {}

-----------------------------------------------------------------------------
Read(t, h) ==
    /\ loaded' = [loaded EXCEPT ![t][h] = stored[h]]
    /\ overlapped' = IF \E u \in Txns : HasRead(u, h) THEN overlapped \cup {h} ELSE overlapped

\* Mutant: a key the ledger has posted is posted again.
BeginsAgain(t) ==
    /\ ~Open(t)
    /\ Read(t, Source(t))
    /\ UNCHANGED <<stored, booked>>

\* find_existing finds nothing; the rows of the transaction are inserted.
BeginPosting(t) ==
    /\ t \notin booked /\ ~Open(t)
    /\ Read(t, Source(t))
    /\ UNCHANGED <<stored, booked>>

WriteSource(t) ==
    /\ Open(t) /\ ~HasRead(t, Destination(t)) /\ Free(t, Source(t))
    /\ Read(t, Destination(t))
    /\ UNCHANGED <<stored, booked>>

\* What was read, and the entry: a debit of the source, a credit of the destination.
CommitPosting(t) ==
    /\ HasRead(t, Destination(t)) /\ Free(t, Destination(t))
    /\ stored' = [stored EXCEPT ![Source(t)]      = loaded[t][Source(t)] + Amount(t),
                                ![Destination(t)] = loaded[t][Destination(t)] - Amount(t)]
    /\ booked' = booked \cup {t}
    /\ loaded' = [loaded EXCEPT ![t] = NothingRead]
    /\ UNCHANGED overlapped

\* An error, a death, or a deadlock that PostgreSQL ends.
RollBackPosting(t) ==
    /\ Open(t)
    /\ loaded' = [loaded EXCEPT ![t] = NothingRead]
    /\ UNCHANGED <<stored, booked, overlapped>>

WorkOn(t) == BeginPosting(t) \/ WriteSource(t) \/ RollBackPosting(t)

\* The commit t would make now loses what another posting did to the account.
Overwrites(t, a) == Moves(t, a) /\ stored[a] # loaded[t][a]
=============================================================================
