------------------------------- MODULE Paging -------------------------------
(***************************************************************************)
(* The paged lists: accounts and transactions (accounts-service) and audit *)
(* events (audit-service).  All four queries are one algorithm: count the  *)
(* rows of the scope, then, in a second statement, read LIMIT per_page     *)
(* rows OFFSET (page - 1) * per_page of the rows ordered by time, newest   *)
(* first, and by id.                                                       *)
(*                                                                         *)
(* A client walks a list: it asks for page 1, 2, 3 ... with one per_page   *)
(* until a page comes back short.  Meanwhile rows are inserted; nothing    *)
(* removes a row or changes what it is ordered or filtered by.  A new row  *)
(* may belong anywhere: its time is taken before its transaction commits   *)
(* (accounts, transactions) or by the service that emits it (audit).       *)
(*                                                                         *)
(* `had`, `got`, `twice` and `fresh` are history: the rows there were when *)
(* the walk began, those it was shown, whether one of them was shown       *)
(* again, and whether a row was inserted into its list since.              *)
(*                                                                         *)
(* A definition commented "Mutant" is used by no specification: it is the  *)
(* next definition with a plausible bug, and shows that a property notices.*)
(***************************************************************************)
EXTENDS Integers, FiniteSets, Sequences

CONSTANTS Ids,             \* ids of rows, drawn at random: any order
          Times,           \* what created_at or occurred_at may be
          Organizations, Environments,
          Walks,           \* clients, each walking one list
          DefaultPerPage,  \* 10 for accounts and transactions, 25 for audit events
          MaxPerPage,      \* 100
          Wrap,            \* page, per_page and the offset are u32
          Absent

ASSUME IdsAssumption     == Ids \subseteq Nat /\ Times \subseteq Nat
ASSUME PerPageAssumption == /\ MaxPerPage \in Nat \ {0} /\ Wrap \in Nat \ {0}
                            /\ DefaultPerPage \in 1 .. MaxPerPage
ASSUME AbsentAssumption  == Absent \notin Nat

\* No table holds 2^32 rows: from there the offset of a page wraps.
ASSUME TableAssumption   == IsFiniteSet(Ids) /\ Cardinality(Ids) < Wrap

VARIABLES
    table,   \* the rows, Absent while absent
    stage,   \* the next statement of each client's request; "between" two requests
    page,    \* the page it asks for
    query,   \* what the client asks for on every page of its walk
    total,   \* total_count of the running or the last request
    had, got, twice, fresh

pagingVars == <<table, stage, page, query, total, had, got, twice, fresh>>

-----------------------------------------------------------------------------
Scopes == [organization : Organizations, environment : Environments]
Row    == [scope : Scopes, time : Times]

\* The rows the WHERE clause of both statements admits.
Matching(s) == {i \in Ids : table[i] # Absent /\ table[i].scope = s}

\* Mutant: rows of one time come in any order.
BeforeByTime(i, j) == table[i].time > table[j].time

\* ORDER BY time DESC, id DESC
Before(i, j) == \/ table[i].time > table[j].time
                \/ table[i].time = table[j].time /\ i > j

\* The orders the database may return the rows of `rows` in.
Orders(rows) == {f \in [1 .. Cardinality(rows) -> rows] :
                    \A m, n \in DOMAIN f : m < n => f[m] # f[n] /\ ~Before(f[n], f[m])}

\* The parameters, with their defaults and limits; Absent is an absent one.
AtLeastOne(p) == IF p \in {Absent, 0} THEN 1 ELSE p
PerPage(q) == IF q = Absent THEN DefaultPerPage
              ELSE IF q < 1 THEN 1
              ELSE IF q > MaxPerPage THEN MaxPerPage ELSE q

Offset(p, q) == ((p - 1) * q) % Wrap

\* Mutant: one row more, to see whether there is another page.
OneMore(rows, off, q) ==
    {SubSeq(f, off + 1, IF off + q + 1 < Len(f) THEN off + q + 1 ELSE Len(f)) : f \in Orders(rows)}

\* What LIMIT q OFFSET off may return.
Slices(rows, off, q) ==
    {SubSeq(f, off + 1, IF off + q < Len(f) THEN off + q ELSE Len(f)) : f \in Orders(rows)}

PagingInit ==
    /\ table \in [Ids -> {Absent}]
    /\ stage = [w \in Walks |-> "idle"]
    /\ page = [w \in Walks |-> 0]
    /\ query \in [Walks -> [scope : Scopes, perPage : {Absent} \cup 0 .. MaxPerPage + 1]]
    /\ total = [w \in Walks |-> 0]
    /\ had = [w \in Walks |-> {}]
    /\ got = [w \in Walks |-> {}]
    /\ twice = [w \in Walks |-> FALSE]
    /\ fresh = [w \in Walks |-> FALSE]

-----------------------------------------------------------------------------
\* A transaction that adds a row commits.
Insert(i, row) ==
    /\ table[i] = Absent
    /\ table' = [table EXCEPT ![i] = row]
    /\ fresh' = [w \in Walks |-> fresh[w] \/ (stage[w] # "idle" /\ query[w].scope = row.scope)]
    /\ UNCHANGED <<stage, page, query, total, had, got, twice>>

\* The first request of a walk: page 1, or no page, or page 0.
Begin(w, p) ==
    /\ stage[w] = "idle"
    /\ stage' = [stage EXCEPT ![w] = "count"]
    /\ page' = [page EXCEPT ![w] = AtLeastOne(p)]
    /\ had' = [had EXCEPT ![w] = Matching(query[w].scope)]
    /\ UNCHANGED <<table, query, total, got, twice, fresh>>

\* The client asks for the page after the last one.
Continue(w) ==
    /\ stage[w] = "between"
    /\ stage' = [stage EXCEPT ![w] = "count"]
    /\ page' = [page EXCEPT ![w] = AtLeastOne(@ + 1)]
    /\ UNCHANGED <<table, query, total, had, got, twice, fresh>>

\* Mutant: the rows of both environments are counted.
CountBothEnvironments(w) ==
    /\ stage[w] = "count"
    /\ total' = [total EXCEPT ![w] =
                    Cardinality({i \in Ids : /\ table[i] # Absent
                                             /\ table[i].scope.organization
                                                = query[w].scope.organization})]
    /\ stage' = [stage EXCEPT ![w] = "select"]
    /\ UNCHANGED <<table, page, query, had, got, twice, fresh>>

\* SELECT COUNT(*)
CountRows(w) ==
    /\ stage[w] = "count"
    /\ total' = [total EXCEPT ![w] = Cardinality(Matching(query[w].scope))]
    /\ stage' = [stage EXCEPT ![w] = "select"]
    /\ UNCHANGED <<table, page, query, had, got, twice, fresh>>

\* SELECT the page, and the answer.
SelectPage(w) ==
    LET q == PerPage(query[w].perPage)
    IN  /\ stage[w] = "select"
        /\ \E s \in Slices(Matching(query[w].scope), Offset(page[w], q), q) :
              LET shown == {s[n] : n \in DOMAIN s}
              IN  /\ got' = [got EXCEPT ![w] = @ \cup shown]
                  /\ twice' = [twice EXCEPT ![w] = @ \/ shown \cap got[w] # {}]
                  /\ stage' = [stage EXCEPT ![w] = IF Len(s) < q THEN "complete" ELSE "between"]
        /\ UNCHANGED <<table, page, query, total, had, fresh>>

\* A statement fails: the request is answered 500 and the client gives up.
Fail(w) ==
    /\ stage[w] \in {"count", "select"}
    /\ stage' = [stage EXCEPT ![w] = "failed"]
    /\ UNCHANGED <<table, page, query, total, had, got, twice, fresh>>

PagingNext ==
    \/ \E i \in Ids, row \in Row : Insert(i, row)
    \/ \E w \in Walks :
          \/ \E p \in {Absent, 0, 1} : Begin(w, p)
          \/ Continue(w) \/ CountRows(w) \/ SelectPage(w) \/ Fail(w)

PagingSpec == PagingInit /\ [][PagingNext]_pagingVars

-----------------------------------------------------------------------------
(* Properties.                                                             *)

\* Every variable has its type.
PagingTypeOK ==
    /\ table \in [Ids -> Row \cup {Absent}]
    /\ stage \in [Walks -> {"idle", "count", "select", "between", "complete", "failed"}]
    /\ page \in [Walks -> Nat]
    /\ query \in [Walks -> [scope : Scopes, perPage : {Absent} \cup 0 .. MaxPerPage + 1]]
    /\ total \in [Walks -> Nat]
    /\ had \in [Walks -> SUBSET Ids]
    /\ got \in [Walks -> SUBSET Ids]
    /\ twice \in [Walks -> BOOLEAN]
    /\ fresh \in [Walks -> BOOLEAN]

\* A walk that ended with a short page has shown every row there was when it
\* began, whatever was inserted on the way: an insertion only moves rows
\* towards later pages (the ORDER BY with its tie-break, and the offset).
WalkIsComplete ==
    \A w \in Walks : stage[w] = "complete" => had[w] \subseteq got[w]

\* A walk shows a row again only when a row was inserted since it began
\* (LIMIT and OFFSET fit each other).
RepeatTakesInsert == \A w \in Walks : twice[w] => fresh[w]

\* The total a request reports is the number of the rows of its scope at one
\* moment of the walk, so that a walk that nothing disturbs reports exactly
\* what it shows (COUNT and SELECT have the same WHERE clause).
TotalIsOfTheList ==
    \A w \in Walks : stage[w] = "complete" =>
        /\ total[w] >= Cardinality(had[w])
        /\ ~fresh[w] => total[w] = Cardinality(got[w])
=============================================================================
