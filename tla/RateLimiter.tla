---------------------------- MODULE RateLimiter -----------------------------
(***************************************************************************)
(* The rate limiter in front of the money endpoints of accounts-service    *)
(* and of the authentication endpoints of users-service (RateLimiter and   *)
(* the middlewares of routes/): per client a window that starts with a     *)
(* request and a count, behind one mutex, in the memory of one process.    *)
(*                                                                         *)
(* A request is one step: `allow` reads the clock under the mutex.  `at`,  *)
(* `win` and `refusedAt` are history: when the requests of this process    *)
(* were served and in which window; a restart forgets them.                *)
(*                                                                         *)
(* A definition commented "Mutant" is used by no specification: it is the  *)
(* next definition with a plausible bug, and shows that a property notices.*)
(***************************************************************************)
EXTENDS ClientKey, FiniteSets

CONSTANTS Arrivals,   \* requests of one process
          Inputs,     \* what the requests carry
          Window,     \* the length of a window
          Max,        \* the requests a window admits
          MaxTime,    \* bound on the clock
          None

ASSUME InputsAssumption == Inputs \subseteq Input
ASSUME WindowAssumption == Window \in Nat \ {0}
ASSUME MaxAssumption    == Max \in Nat \ {0}
ASSUME MaxTimeAssumption == MaxTime \in Nat
ASSUME NoneAssumption   == None \notin Nat
ASSUME ArrivalsAssumption == IsFiniteSet(Arrivals)

VARIABLES
    now,         \* the monotonic clock
    start,       \* the start of each client's window, None before the first
    count,       \* requests admitted in it
    verdict,     \* what became of each request
    input,       \* what each request carried
    at,          \* history: when each request was admitted
    win,         \* history: the start of the window it was admitted in
    refusedAt    \* history: when each request was refused

limiterVars == <<now, start, count, verdict, input, at, win, refusedAt>>

Clients == {ExtractClientKey(in) : in \in Inputs}

Key(r) == ExtractClientKey(input[r])

LimiterInit ==
    /\ now = 0
    /\ start = [c \in Clients |-> None]
    /\ count = [c \in Clients |-> 0]
    /\ verdict = [r \in Arrivals |-> "idle"]
    /\ input \in [Arrivals -> Inputs]
    /\ at = [r \in Arrivals |-> None]
    /\ win = [r \in Arrivals |-> None]
    /\ refusedAt = [r \in Arrivals |-> None]

-----------------------------------------------------------------------------
Tick ==
    /\ now < MaxTime
    /\ now' = now + 1
    /\ UNCHANGED <<start, count, verdict, input, at, win, refusedAt>>

\* Mutant: the first window never ends.
OverNever(c) == start[c] = None

\* The client is new, or its window is longer ago than the window's length.
Over(c) == start[c] = None \/ (start[c] # None /\ now - start[c] > Window)

Start(c) == IF Over(c) THEN now ELSE start[c]
Count(c) == IF Over(c) THEN 0 ELSE count[c]

\* Mutant: the request after the last one still passes.
FullAfterOneMore(c) == Count(c) > Max

Full(c) == Count(c) >= Max

\* The request goes on to the handler.
Admit(r) ==
    LET c == Key(r)
    IN  /\ verdict[r] = "idle"
        /\ ~Full(c)
        /\ start' = [start EXCEPT ![c] = Start(c)]
        /\ count' = [count EXCEPT ![c] = Count(c) + 1]
        /\ verdict' = [verdict EXCEPT ![r] = "admitted"]
        /\ at' = [at EXCEPT ![r] = now]
        /\ win' = [win EXCEPT ![r] = Start(c)]
        /\ UNCHANGED <<now, input, refusedAt>>

\* The request is answered 429.
Refuse(r) ==
    LET c == Key(r)
    IN  /\ verdict[r] = "idle"
        /\ Full(c)
        /\ start' = [start EXCEPT ![c] = Start(c)]
        /\ count' = [count EXCEPT ![c] = Count(c)]
        /\ verdict' = [verdict EXCEPT ![r] = "refused"]
        /\ refusedAt' = [refusedAt EXCEPT ![r] = now]
        /\ UNCHANGED <<now, input, at, win>>

\* The process starts again with an empty store.
Restart ==
    /\ start' = [c \in Clients |-> None]
    /\ count' = [c \in Clients |-> 0]
    /\ at' = [r \in Arrivals |-> None]
    /\ win' = [r \in Arrivals |-> None]
    /\ refusedAt' = [r \in Arrivals |-> None]
    /\ UNCHANGED <<now, verdict, input>>

Middleware(r) == Admit(r) \/ Refuse(r)

LimiterNext == Tick \/ Restart \/ \E r \in Arrivals : Middleware(r)

LimiterSpec == LimiterInit /\ [][LimiterNext]_limiterVars

-----------------------------------------------------------------------------
(* Properties.                                                             *)

\* Every variable has its type.
LimiterTypeOK ==
    /\ now \in Nat
    /\ start \in [Clients -> Nat \cup {None}]
    /\ count \in [Clients -> Nat]
    /\ verdict \in [Arrivals -> {"idle", "admitted", "refused"}]
    /\ input \in [Arrivals -> Inputs]
    /\ at \in [Arrivals -> Nat \cup {None}]
    /\ win \in [Arrivals -> Nat \cup {None}]
    /\ refusedAt \in [Arrivals -> Nat \cup {None}]

\* The requests of client c that were admitted from time t to time u.
Admitted(c, t, u) == {r \in Arrivals : /\ at[r] # None /\ Key(r) = c
                                       /\ t <= at[r] /\ at[r] <= u}

\* In any stretch of time as long as a window, closed at both ends, a client
\* gets less than two windows' requests: of two windows that meet in it the
\* first began before it, with a request (RateLimiter::allow).
LessThanTwiceMax ==
    \A c \in Clients, t \in 0 .. now : Cardinality(Admitted(c, t, t + Window)) < 2 * Max

\* A client is refused only after Max of its requests within a window's
\* length: the limiter never locks anybody out for longer.
RefusedOnlyWhenFull ==
    \A r \in Arrivals : refusedAt[r] # None =>
        Cardinality(Admitted(Key(r), IF refusedAt[r] < Window THEN 0 ELSE refusedAt[r] - Window,
                             refusedAt[r])) >= Max

\* The request came from `client` through a proxy that names it: the proxies
\* after it appended themselves, or the only one set X-Real-IP (as the
\* gateway does).  What stands before it in the header is anything.
CameFrom(client, in) ==
    /\ in.peer \in Proxies /\ client \notin Proxies
    /\ \E n \in DOMAIN in.chain :
          /\ in.chain[n] = client
          /\ \A m \in n + 1 .. Len(in.chain) : in.chain[m] \in Proxies
          /\ n < Len(in.chain) \/ in.real = client

\* Clients behind a proxy are counted apart, each under its own address
\* whatever it put into the header itself; only accounts-service counts one
\* with an unreadable header under X-Real-IP or the proxy (extract_client_key).
KeyIsClient ==
    \A r \in Arrivals, client \in Addresses :
        verdict[r] # "idle" /\ CameFrom(client, input[r]) =>
            \/ Key(r) = client
            \/ /\ ~SkipsInvalid /\ Has(input[r].chain, Invalid)
               /\ Key(r) \in {input[r].real, input[r].peer}
=============================================================================
