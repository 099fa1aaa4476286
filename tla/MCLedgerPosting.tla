-------------------------- MODULE MCLedgerPosting --------------------------
(***************************************************************************)
(* Instances of LedgerPosting for TLC.                                     *)
(***************************************************************************)
EXTENDS LedgerPosting, TLC

CONSTANTS alice, bob    \* two customers

Posting(s, d, n) == [source |-> s, destination |-> d, amount |-> n]

\* Every kind of posting, two of them in opposite directions, one the ledger
\* refuses and one it does not try.
AllPostings == {Posting(Cash, alice, 2), Posting(alice, Cash, 1), Posting(alice, bob, 1),
                Posting(bob, alice, 2), Posting(bob, bob, 1), Posting(bob, Cash, 0)}

CallSymmetry == Permutations(Calls) \cup Permutations(Keys)
=============================================================================
