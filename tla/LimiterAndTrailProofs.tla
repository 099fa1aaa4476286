------------------------ MODULE LimiterAndTrailProofs -----------------------
(***************************************************************************)
(* Theorems about what stands around the handlers: the rate limiter before *)
(* them, and the audit report after.                                       *)
(*                                                                         *)
(* RateLimiter.  A client never gets two windows' requests within the      *)
(* length of one, and is refused only when it had one window's.  Neither   *)
(* is inductive.  LimiterInv adds what the history is made of: every       *)
(* window began with a request (HasOpener), the windows of a client lie    *)
(* further apart than their length (Apart), and the count is that of the   *)
(* requests in the current one (Counted).  That clients are told apart is  *)
(* a fact about the last entries of a header (ClientIsFound).              *)
(*                                                                         *)
(* AuditTrail.  What a row of the trail says of a request.  The invariant  *)
(* follows one report (Reporting): where its task and its call are decides *)
(* whether there is a row (StoredAs), and what is stored is the event that *)
(* was built (Told).  Sequence says that an awaited report was built       *)
(* before the next request began.                                          *)
(***************************************************************************)
EXTENDS RateLimiter, AuditTrail, FiniteSetTheorems, TLAPS

-----------------------------------------------------------------------------
(* RateLimiter: the invariant.                                             *)

\* The requests admitted in client c's window that began at s.
InWin(c, s) == {r \in Arrivals : at[r] # None /\ Key(r) = c /\ win[r] = s}

\* The window began with a request.
HasOpener(c, s) == \E q \in InWin(c, s) : at[q] = s

Fresh(r) == verdict[r] = "idle" => at[r] = None

Stamped(r) ==
    at[r] # None =>
        /\ at[r] \in Nat /\ win[r] \in Nat
        /\ win[r] <= at[r] /\ at[r] <= win[r] + Window /\ at[r] <= now
        /\ HasOpener(Key(r), win[r])
        /\ start[Key(r)] # None
        /\ win[r] = start[Key(r)] \/ win[r] + Window < start[Key(r)]

Apart(q, r) ==
    at[q] # None /\ at[r] # None /\ Key(q) = Key(r)
    => \/ win[q] = win[r]
       \/ win[q] + Window < win[r]
       \/ win[r] + Window < win[q]

Counted(c) ==
    start[c] # None =>
        /\ start[c] <= now
        /\ HasOpener(c, start[c])
        /\ Cardinality(InWin(c, start[c])) = count[c]

SmallWindows == \A c \in Clients, s \in Nat : Cardinality(InWin(c, s)) <= Max

LimiterInv ==
    /\ LimiterTypeOK
    /\ \A r \in Arrivals : Fresh(r) /\ Stamped(r)
    /\ \A q, r \in Arrivals : Apart(q, r)
    /\ \A c \in Clients : Counted(c)
    /\ SmallWindows

-----------------------------------------------------------------------------
(* Facts about one state.                                                  *)

\* Every request is counted under one of the clients (extract_client_key).
LEMMA KeyIsCounted == LimiterTypeOK => \A r \in Arrivals : Key(r) \in Clients
BY DEF LimiterTypeOK, Clients, Key

\* Sets of requests are finite, and a part of one is not larger.
LEMMA PartsAreFinite ==
    ASSUME NEW S, NEW T, S \subseteq T, T \subseteq Arrivals
    PROVE  /\ IsFiniteSet(S) /\ IsFiniteSet(T)
           /\ Cardinality(S) \in Nat /\ Cardinality(T) \in Nat
           /\ Cardinality(S) <= Cardinality(T)
<1>1. IsFiniteSet(T)
  BY FS_Subset, ArrivalsAssumption
<1>2. IsFiniteSet(S) /\ Cardinality(S) <= Cardinality(T)
  BY <1>1, FS_Subset
<1> QED
  BY <1>1, <1>2, FS_CardinalityType

\* Count is what the window holds that a request falls into (allow).
LEMMA WindowCount ==
    ASSUME LimiterInv, NEW c \in Clients
    PROVE  /\ Start(c) \in Nat /\ Count(c) \in Nat
           /\ Start(c) <= now /\ now <= Start(c) + Window
           /\ Cardinality(InWin(c, Start(c))) = Count(c)
           /\ ~Over(c) => Start(c) = start[c] /\ start[c] # None
           /\ \A q \in Arrivals : at[q] # None /\ Key(q) = c =>
                win[q] = Start(c) \/ win[q] + Window < Start(c)
<1>0. now \in Nat /\ start[c] \in Nat \cup {None} /\ count[c] \in Nat /\ Window \in Nat
  BY WindowAssumption DEF LimiterInv, LimiterTypeOK
<1>1. CASE Over(c)
  <2>1. Start(c) = now /\ Count(c) = 0
    BY <1>1 DEF Start, Count
  <2>2. ASSUME NEW q \in Arrivals, at[q] # None, Key(q) = c
        PROVE  win[q] \in Nat /\ win[q] + Window < now
    <3>1. Stamped(q)
      BY DEF LimiterInv
    <3>2. start[c] # None /\ start[c] \in Nat /\ now - start[c] > Window
      BY <1>0, <1>1, <2>2, <3>1 DEF Stamped, Over
    <3>3. win[q] \in Nat /\ (win[q] = start[c] \/ win[q] + Window < start[c])
      BY <2>2, <3>1 DEF Stamped
    <3> QED
      BY <1>0, <3>2, <3>3
  <2>3. InWin(c, now) = {}
    BY <1>0, <2>2 DEF InWin
  <2>4. Cardinality(InWin(c, now)) = 0
    BY <2>3, FS_EmptySet
  <2> QED
    BY <1>0, <1>1, <2>1, <2>2, <2>4
<1>2. CASE ~Over(c)
  <2>1. start[c] \in Nat /\ start[c] # None /\ now - start[c] <= Window
    BY <1>0, <1>2 DEF Over
  <2>2. Start(c) = start[c] /\ Count(c) = count[c]
    BY <1>2 DEF Start, Count
  <2>3. Counted(c)
    BY DEF LimiterInv
  <2>4. ASSUME NEW q \in Arrivals, at[q] # None, Key(q) = c
        PROVE  win[q] = start[c] \/ win[q] + Window < start[c]
    BY <2>4 DEF LimiterInv, Stamped
  <2> QED
    BY <1>0, <2>1, <2>2, <2>3, <2>4 DEF Counted
<1> QED
  BY <1>1, <1>2

-----------------------------------------------------------------------------
(* The type invariant.                                                     *)

LEMMA LimiterTypeStep == LimiterTypeOK /\ [LimiterNext]_limiterVars => LimiterTypeOK'
<1> SUFFICES ASSUME LimiterTypeOK, [LimiterNext]_limiterVars PROVE LimiterTypeOK'
  OBVIOUS
<1> USE DEF LimiterTypeOK
<1>1. CASE Tick
  BY <1>1 DEF Tick
<1>2. CASE Restart
  BY <1>2 DEF Restart
<1>3. ASSUME NEW r \in Arrivals, Admit(r) PROVE LimiterTypeOK'
  <2>1. Start(Key(r)) \in Nat \cup {None} /\ Count(Key(r)) \in Nat
    BY KeyIsCounted DEF Start, Count
  <2>2. Start(Key(r)) \in Nat \cup {None} /\ Count(Key(r)) + 1 \in Nat
    BY <2>1
  <2> QED
    BY <1>3, <2>2 DEF Admit
<1>4. ASSUME NEW r \in Arrivals, Refuse(r) PROVE LimiterTypeOK'
  <2>1. Start(Key(r)) \in Nat \cup {None} /\ Count(Key(r)) \in Nat
    BY KeyIsCounted DEF Start, Count
  <2> QED
    BY <1>4, <2>1 DEF Refuse
<1>5. CASE UNCHANGED limiterVars
  BY <1>5 DEF limiterVars
<1> QED
  BY <1>1, <1>2, <1>3, <1>4, <1>5 DEF LimiterNext, Middleware

\* Every variable has its type.
THEOREM LimiterTypeCorrect == LimiterSpec => []LimiterTypeOK
<1>1. LimiterInit => LimiterTypeOK
  BY DEF LimiterInit, LimiterTypeOK
<1> QED
  BY <1>1, LimiterTypeStep, PTL DEF LimiterSpec

-----------------------------------------------------------------------------
(* The invariant.                                                          *)

\* Before the first request, and after a restart, there is no history.
LEMMA NothingYet ==
    ASSUME LimiterTypeOK, at = [r \in Arrivals |-> None], start = [c \in Clients |-> None]
    PROVE  LimiterInv
<1>1. \A c \in Clients, s \in Nat : InWin(c, s) = {}
  BY DEF InWin
<1>2. SmallWindows
  BY <1>1, FS_EmptySet, MaxAssumption DEF SmallWindows
<1> QED
  BY <1>2 DEF LimiterInv, Fresh, Stamped, Apart, Counted

\* A step that leaves the requests, their history and the store alone.
LEMMA TimePasses ==
    ASSUME LimiterInv, LimiterTypeOK', now <= now',
           \A r \in Arrivals : verdict'[r] = "idle" => verdict[r] = "idle",
           UNCHANGED <<start, count, input, at, win>>
    PROVE  LimiterInv'
<1>1. \A c, s : InWin(c, s)' = InWin(c, s)
  BY DEF InWin, Key
<1>2. \A c, s : HasOpener(c, s)' <=> HasOpener(c, s)
  BY <1>1 DEF HasOpener
<1>3. now \in Nat /\ now' \in Nat /\ start \in [Clients -> Nat \cup {None}]
  BY DEF LimiterInv, LimiterTypeOK
<1>4. \A r \in Arrivals : Key(r)' = Key(r) /\ Key(r) \in Clients
  BY KeyIsCounted DEF Key, LimiterInv
<1>5. ASSUME NEW r \in Arrivals PROVE Fresh(r)' /\ Stamped(r)'
  <2>1. Fresh(r) /\ Stamped(r)
    BY DEF LimiterInv
  <2> QED
    BY <1>2, <1>3, <1>4, <2>1 DEF Fresh, Stamped
<1>6. ASSUME NEW q \in Arrivals, NEW r \in Arrivals PROVE Apart(q, r)'
  BY <1>4 DEF LimiterInv, Apart
<1>7. ASSUME NEW c \in Clients PROVE Counted(c)'
  BY <1>1, <1>2, <1>3 DEF LimiterInv, Counted
<1>8. SmallWindows'
  BY <1>1 DEF LimiterInv, SmallWindows
<1> QED
  BY <1>5, <1>6, <1>7, <1>8 DEF LimiterInv

\* A refused request leaves the store as it is: its window is not over.
LEMMA RefuseLeavesStore ==
    ASSUME LimiterInv, NEW r \in Arrivals, Refuse(r)
    PROVE  /\ ~Over(Key(r)) /\ count[Key(r)] >= Max
           /\ UNCHANGED <<start, count, input, at, win, now>>
<1>1. Key(r) \in Clients
  BY KeyIsCounted DEF LimiterInv
<1>2. ~Over(Key(r))
  BY MaxAssumption DEF Refuse, Full, Count
<1>3. Start(Key(r)) = start[Key(r)] /\ Count(Key(r)) = count[Key(r)]
  BY <1>2 DEF Start, Count
<1> QED
  BY <1>1, <1>2, <1>3 DEF Refuse, Full, LimiterInv, LimiterTypeOK

\* An admitted request joins its window, which has room for it.
LEMMA AdmitKeeps ==
    ASSUME LimiterInv, NEW r \in Arrivals, Admit(r), LimiterTypeOK'
    PROVE  LimiterInv'
<1>1. PICK c \in Clients : c = Key(r)
  BY KeyIsCounted DEF LimiterInv
<1>0. PICK s \in Nat : s = Start(c)
  BY <1>1, WindowCount
<1>2. /\ Count(c) \in Nat /\ s <= now /\ now <= s + Window
      /\ Cardinality(InWin(c, s)) = Count(c)
      /\ ~Over(c) => s = start[c] /\ start[c] # None
      /\ \A q \in Arrivals : at[q] # None /\ Key(q) = c =>
           win[q] = s \/ win[q] + Window < s
  BY <1>0, WindowCount
<1>3. /\ now \in Nat /\ Window \in Nat /\ Max \in Nat /\ None \notin Nat
      /\ start \in [Clients -> Nat \cup {None}] /\ count \in [Clients -> Nat]
      /\ at \in [Arrivals -> Nat \cup {None}] /\ win \in [Arrivals -> Nat \cup {None}]
      /\ verdict \in [Arrivals -> {"idle", "admitted", "refused"}]
  BY WindowAssumption, MaxAssumption, NoneAssumption DEF LimiterInv, LimiterTypeOK
<1>4. at[r] = None /\ verdict[r] = "idle" /\ Count(c) < Max
  BY <1>1, <1>2, <1>3 DEF Admit, Full, LimiterInv, Fresh
<1>5. /\ start' = [start EXCEPT ![c] = s] /\ count' = [count EXCEPT ![c] = Count(c) + 1]
      /\ verdict' = [verdict EXCEPT ![r] = "admitted"]
      /\ at' = [at EXCEPT ![r] = now] /\ win' = [win EXCEPT ![r] = s]
      /\ UNCHANGED <<now, input>>
  BY <1>0, <1>1 DEF Admit
<1>6. \A q \in Arrivals : Key(q)' = Key(q) /\ Key(q) \in Clients
  BY <1>5, KeyIsCounted DEF Key, LimiterInv
<1>7. /\ at'[r] = now /\ win'[r] = s /\ start'[c] = s /\ count'[c] = Count(c) + 1
      /\ \A q \in Arrivals \ {r} : at'[q] = at[q] /\ win'[q] = win[q] /\ verdict'[q] = verdict[q]
      /\ \A d \in Clients \ {c} : start'[d] = start[d] /\ count'[d] = count[d]
  BY <1>3, <1>5
<1>10. InWin(c, s)' = InWin(c, s) \cup {r} /\ r \notin InWin(c, s)
  BY <1>3, <1>4, <1>6, <1>7, <1>1 DEF InWin
<1>11. ASSUME NEW d, NEW t, d # c \/ t # s PROVE InWin(d, t)' = InWin(d, t)
  BY <1>3, <1>4, <1>6, <1>7, <1>1, <1>11 DEF InWin
<1>12. ASSUME NEW d, NEW t, HasOpener(d, t) PROVE HasOpener(d, t)'
  <2>1. PICK q \in InWin(d, t) : at[q] = t
    BY <1>12 DEF HasOpener
  <2>2. q \in Arrivals /\ q # r
    BY <1>4, <2>1 DEF InWin
  <2> QED
    BY <1>6, <1>7, <2>1, <2>2 DEF HasOpener, InWin
<1>13. HasOpener(c, s)'
  <2>1. CASE Over(c)
    <3>1. s = now
      BY <1>0, <2>1 DEF Start
    <3> QED
      BY <1>7, <1>10, <3>1 DEF HasOpener
  <2>2. CASE ~Over(c)
    <3>1. HasOpener(c, start[c])
      BY <1>1, <1>2, <2>2 DEF LimiterInv, Counted
    <3> QED
      BY <1>2, <1>12, <2>2, <3>1
  <2> QED
    BY <2>1, <2>2
<1>14. Cardinality(InWin(c, s)') = Count(c) + 1
  <2>1. IsFiniteSet(InWin(c, s))
    BY PartsAreFinite DEF InWin
  <2> QED
    BY <1>2, <1>10, <2>1, FS_AddElement
<1>15. ASSUME NEW q \in Arrivals PROVE Fresh(q)' /\ Stamped(q)'
  <2>1. CASE q = r
    BY <1>2, <1>3, <1>5, <1>6, <1>7, <1>1, <1>13, <2>1 DEF Fresh, Stamped
  <2>2. CASE q # r
    <3>1. Fresh(q) /\ Stamped(q)
      BY DEF LimiterInv
    <3>2. Fresh(q)'
      BY <1>7, <2>2, <3>1 DEF Fresh
    <3>3. CASE Key(q) # c
      BY <1>5, <1>6, <1>7, <1>12, <2>2, <3>1, <3>2, <3>3 DEF Stamped
    <3>4. CASE Key(q) = c
      BY <1>2, <1>3, <1>5, <1>6, <1>7, <1>12, <2>2, <3>1, <3>2, <3>4 DEF Stamped
    <3> QED
      BY <3>3, <3>4
  <2> QED
    BY <2>1, <2>2
<1>16. ASSUME NEW q \in Arrivals, NEW p \in Arrivals PROVE Apart(q, p)'
  <2>1. CASE q # r /\ p # r
    <3>1. Apart(q, p)
      BY DEF LimiterInv
    <3> QED
      BY <1>6, <1>7, <2>1, <3>1 DEF Apart
  <2>2. CASE q = r \/ p = r
    BY <1>2, <1>3, <1>6, <1>7, <1>1, <2>2 DEF Apart
  <2> QED
    BY <2>1, <2>2
<1>17. ASSUME NEW d \in Clients PROVE Counted(d)'
  <2>1. CASE d = c
    BY <1>2, <1>5, <1>7, <1>13, <1>14, <2>1 DEF Counted
  <2>2. CASE d # c
    <3>1. Counted(d)
      BY DEF LimiterInv
    <3>2. InWin(d, start[d])' = InWin(d, start[d])
      BY <1>7, <1>11, <2>2 DEF InWin
    <3> QED
      BY <1>5, <1>7, <1>11, <1>12, <2>2, <3>1 DEF Counted
  <2> QED
    BY <2>1, <2>2
<1>18. SmallWindows'
  <2> SUFFICES ASSUME NEW d \in Clients, NEW t \in Nat
               PROVE  Cardinality(InWin(d, t)') <= Max
    BY DEF SmallWindows
  <2>1. CASE d = c /\ t = s
    BY <1>2, <1>3, <1>4, <1>14, <2>1
  <2>2. CASE d # c \/ t # s
    BY <1>11, <2>2 DEF LimiterInv, SmallWindows
  <2> QED
    BY <2>1, <2>2
<1> QED
  BY <1>15, <1>16, <1>17, <1>18 DEF LimiterInv

\* The state keeps what the two theorems below need.
THEOREM WindowsAreKept == LimiterSpec => []LimiterInv
<1>1. LimiterInit => LimiterInv
  <2> SUFFICES ASSUME LimiterInit PROVE LimiterInv
    OBVIOUS
  <2>1. LimiterTypeOK
    BY DEF LimiterInit, LimiterTypeOK
  <2> QED
    BY <2>1, NothingYet DEF LimiterInit
<1>2. LimiterInv /\ [LimiterNext]_limiterVars => LimiterInv'
  <2> SUFFICES ASSUME LimiterInv, [LimiterNext]_limiterVars PROVE LimiterInv'
    OBVIOUS
  <2>0. LimiterTypeOK' /\ now \in Nat
    BY LimiterTypeStep DEF LimiterInv, LimiterTypeOK
  <2>1. CASE Tick
    BY <2>0, <2>1, TimePasses DEF Tick
  <2>2. CASE Restart
    <3>1. at' = [r \in Arrivals |-> None] /\ start' = [c \in Clients |-> None]
      BY <2>2 DEF Restart
    <3>2. \A c \in Clients, s \in Nat : InWin(c, s)' = {}
      BY <3>1 DEF InWin
    <3>3. SmallWindows'
      BY <3>2, FS_EmptySet, MaxAssumption DEF SmallWindows
    <3> QED
      BY <2>0, <3>1, <3>3 DEF LimiterInv, Fresh, Stamped, Apart, Counted
  <2>3. ASSUME NEW r \in Arrivals, Admit(r) PROVE LimiterInv'
    BY <2>0, <2>3, AdmitKeeps
  <2>4. ASSUME NEW r \in Arrivals, Refuse(r) PROVE LimiterInv'
    <3>1. UNCHANGED <<start, count, input, at, win, now>>
      BY <2>4, RefuseLeavesStore
    <3>2. \A q \in Arrivals : verdict'[q] = "idle" => verdict[q] = "idle"
      BY <2>4 DEF Refuse, LimiterInv, LimiterTypeOK
    <3> QED
      BY <2>0, <3>1, <3>2, TimePasses
  <2>5. CASE UNCHANGED limiterVars
    BY <2>0, <2>5, TimePasses DEF limiterVars
  <2> QED
    BY <2>1, <2>2, <2>3, <2>4, <2>5 DEF LimiterNext, Middleware
<1> QED
  BY <1>1, <1>2, PTL DEF LimiterSpec

-----------------------------------------------------------------------------
(* The properties.                                                         *)

\* The requests of a stretch of time that fall into windows begun in it: one
\* window's, as two windows are further apart.
LEMMA BegunWithin ==
    ASSUME LimiterInv, NEW c \in Clients, NEW t \in Nat,
           NEW B, B = {r \in Admitted(c, t, t + Window) : win[r] >= t}
    PROVE  Cardinality(B) <= Max
<1>1. CASE B = {}
  BY <1>1, FS_EmptySet, MaxAssumption
<1>2. CASE B # {}
  <2>1. PICK p \in B : TRUE
    BY <1>2
  <2>2. ASSUME NEW r \in B PROVE win[r] = win[p]
    <3>1. Stamped(r) /\ Stamped(p) /\ Apart(r, p)
      BY <2>1 DEF LimiterInv, Admitted
    <3> QED
      BY <2>1, <3>1, WindowAssumption DEF Stamped, Apart, Admitted
  <2>3. win[p] \in Nat
    BY <2>1 DEF LimiterInv, Stamped, Admitted
  <2>4. B \subseteq InWin(c, win[p])
    BY <2>2 DEF Admitted, InWin
  <2>5. Cardinality(InWin(c, win[p])) <= Max
    BY <2>3 DEF LimiterInv, SmallWindows
  <2>6. InWin(c, win[p]) \subseteq Arrivals
    BY DEF InWin
  <2> QED
    BY <2>4, <2>5, <2>6, PartsAreFinite, MaxAssumption
<1> QED
  BY <1>1, <1>2

\* Those that fall into a window begun before it: one window's without the
\* request the window began with.
LEMMA BegunBefore ==
    ASSUME LimiterInv, NEW c \in Clients, NEW t \in Nat,
           NEW F, F = {r \in Admitted(c, t, t + Window) : win[r] < t}
    PROVE  Cardinality(F) < Max
<1>1. CASE F = {}
  BY <1>1, FS_EmptySet, MaxAssumption
<1>2. CASE F # {}
  <2>1. PICK p \in F : TRUE
    BY <1>2
  <2>2. ASSUME NEW r \in F PROVE win[r] = win[p]
    <3>1. Stamped(r) /\ Stamped(p) /\ Apart(r, p)
      BY <2>1 DEF LimiterInv, Admitted
    <3> QED
      BY <2>1, <3>1, WindowAssumption DEF Stamped, Apart, Admitted
  <2>3. win[p] \in Nat /\ HasOpener(c, win[p])
    BY <2>1 DEF LimiterInv, Stamped, Admitted
  <2>4. PICK q \in InWin(c, win[p]) : at[q] = win[p]
    BY <2>3 DEF HasOpener
  <2>5. q \notin F
    BY <2>1, <2>3, <2>4 DEF Admitted
  <2>6. F \cup {q} \subseteq InWin(c, win[p])
    BY <2>2, <2>4 DEF Admitted, InWin
  <2>7. InWin(c, win[p]) \subseteq Arrivals
    BY DEF InWin
  <2>8. Cardinality(F \cup {q}) <= Cardinality(InWin(c, win[p]))
    BY <2>6, <2>7, PartsAreFinite
  <2>9. IsFiniteSet(F) /\ Cardinality(F) \in Nat
    BY <2>6, <2>7, PartsAreFinite
  <2>10. Cardinality(F \cup {q}) = Cardinality(F) + 1
    BY <2>5, <2>9, FS_AddElement
  <2>11. Cardinality(InWin(c, win[p])) <= Max /\ Cardinality(InWin(c, win[p])) \in Nat
    BY <2>3, <2>7, PartsAreFinite DEF LimiterInv, SmallWindows
  <2> QED
    BY <2>8, <2>9, <2>10, <2>11, MaxAssumption
<1> QED
  BY <1>1, <1>2

\* In any stretch of time as long as a window, closed at both ends, a client
\* gets less than two windows' requests (RateLimiter::allow).
THEOREM LessThanTwoWindows == LimiterSpec => []LessThanTwiceMax
<1>1. LimiterInv => LessThanTwiceMax
  <2> SUFFICES ASSUME LimiterInv, NEW c \in Clients, NEW t \in 0 .. now
               PROVE  Cardinality(Admitted(c, t, t + Window)) < 2 * Max
    BY DEF LessThanTwiceMax
  <2> DEFINE A == Admitted(c, t, t + Window)
             F == {r \in A : win[r] < t}
             B == {r \in A : win[r] >= t}
  <2>1. t \in Nat
    BY DEF LimiterInv, LimiterTypeOK
  <2>2. Cardinality(F) < Max /\ Cardinality(B) <= Max
    BY <2>1, BegunWithin, BegunBefore
  <2>3. F \subseteq Arrivals /\ B \subseteq Arrivals
    BY DEF Admitted
  <2>4. IsFiniteSet(F) /\ IsFiniteSet(B) /\ Cardinality(F) \in Nat /\ Cardinality(B) \in Nat
    BY <2>3, PartsAreFinite
  <2>5. \A r \in A : win[r] \in Nat
    BY DEF LimiterInv, Stamped, Admitted
  <2>6. A = F \cup B /\ F \cap B = {}
    BY <2>1, <2>5
  <2> HIDE DEF A, F, B
  <2>7. Cardinality(F \cup B) = Cardinality(F) + Cardinality(B) - Cardinality(F \cap B)
    BY <2>4, FS_Union
  <2>8. Cardinality(A) = Cardinality(F) + Cardinality(B)
    <3>1. Cardinality(F \cap B) = 0
      BY ONLY <2>6, FS_EmptySet
    <3> QED
      BY ONLY <2>4, <2>6, <2>7, <3>1
  <2>9. Cardinality(A) < 2 * Max
    BY <2>2, <2>4, <2>8, MaxAssumption
  <2> QED
    BY <2>9 DEF A
<1> QED
  BY <1>1, WindowsAreKept, PTL

\* A client is refused only after Max of its requests within a window's
\* length (RateLimiter::allow).
THEOREM NoLongerLockout == LimiterSpec => []RefusedOnlyWhenFull
<1> DEFINE From(u) == IF u < Window THEN 0 ELSE u - Window
           WasFull(r) == refusedAt[r] # None =>
               Cardinality(Admitted(Key(r), From(refusedAt[r]), refusedAt[r])) >= Max
<1>1. LimiterInit => RefusedOnlyWhenFull
  BY DEF LimiterInit, RefusedOnlyWhenFull
<1>2. ASSUME LimiterInv, RefusedOnlyWhenFull, LimiterTypeOK', [LimiterNext]_limiterVars
      PROVE  RefusedOnlyWhenFull'
  <2> SUFFICES ASSUME NEW r \in Arrivals PROVE WasFull(r)'
    BY DEF RefusedOnlyWhenFull
  <2>0. WasFull(r)
    BY <1>2 DEF RefusedOnlyWhenFull
  <2>1. CASE Restart
    BY <2>1 DEF Restart
  <2> HIDE DEF WasFull
  <2>2. \A S, T : S \subseteq T /\ T \subseteq Arrivals /\ Cardinality(S) >= Max
                  => Cardinality(T) >= Max
    BY PartsAreFinite, MaxAssumption
  <2>3. ASSUME NEW q \in Arrivals, Refuse(q) PROVE WasFull(r)'
    <3>1. ~Over(Key(q)) /\ count[Key(q)] >= Max /\ UNCHANGED <<input, at, win, now>>
      BY <1>2, <2>3, RefuseLeavesStore
    <3>2. refusedAt' = [refusedAt EXCEPT ![q] = now]
          /\ refusedAt \in [Arrivals -> Nat \cup {None}] /\ now \in Nat
      BY <1>2, <2>3 DEF Refuse, LimiterInv, LimiterTypeOK
    <3>3. \A c, t, u : Admitted(c, t, u)' = Admitted(c, t, u)
      BY <3>1 DEF Admitted, Key
    <3>4. CASE r # q
      BY <2>0, <3>1, <3>2, <3>3, <3>4 DEF WasFull, Key
    <3>5. CASE r = q
      <4>1. PICK c \in Clients : c = Key(r)
        BY <1>2, KeyIsCounted DEF LimiterInv
      <4>2. start[c] \in Nat /\ now - start[c] <= Window /\ Window \in Nat
        BY <1>2, <3>1, <3>5, <4>1, WindowAssumption DEF Over, LimiterInv, LimiterTypeOK
      <4>3. Cardinality(InWin(c, start[c])) >= Max
        BY <1>2, <3>1, <3>5, <4>1, <4>2, NoneAssumption DEF LimiterInv, Counted
      <4>4. InWin(c, start[c]) \subseteq Admitted(c, From(now), now)
        <5> SUFFICES ASSUME NEW p \in InWin(c, start[c])
                     PROVE  From(now) <= at[p] /\ at[p] <= now
          BY DEF InWin, Admitted
        <5>1. at[p] \in Nat /\ start[c] <= at[p] /\ at[p] <= now
          BY <1>2 DEF InWin, LimiterInv, Stamped
        <5> QED
          BY <3>2, <4>2, <5>1
      <4>5. Admitted(c, From(now), now) \subseteq Arrivals
        BY DEF Admitted
      <4>6. Cardinality(Admitted(c, From(now), now)) >= Max
        BY <2>2, <4>3, <4>4, <4>5
      <4>7. Key(r)' = c /\ refusedAt'[r] = now
        BY <3>1, <3>2, <3>5, <4>1 DEF Key
      <4> QED
        BY <3>3, <4>6, <4>7 DEF WasFull
    <3> QED
      BY <3>4, <3>5
  <2>4. ASSUME refusedAt' = refusedAt, input' = input,
               \A q \in Arrivals : at[q] # None => at'[q] = at[q]
        PROVE  WasFull(r)'
    <3>1. \A c, t, u : Admitted(c, t, u) \subseteq Admitted(c, t, u)'
      BY <2>4 DEF Admitted, Key
    <3>2. \A c, t, u : Admitted(c, t, u)' \subseteq Arrivals
      BY DEF Admitted
    <3>3. Key(r)' = Key(r)
      BY <2>4 DEF Key
    <3> QED
      BY <2>0, <2>2, <2>4, <3>1, <3>2, <3>3 DEF WasFull
  <2>5. CASE Tick
    BY <2>4, <2>5 DEF Tick
  <2>6. ASSUME NEW q \in Arrivals, Admit(q) PROVE WasFull(r)'
    <3>1. verdict[q] = "idle" /\ at' = [at EXCEPT ![q] = now] /\ refusedAt' = refusedAt /\ input' = input
      BY <2>6 DEF Admit
    <3>2. at[q] = None /\ at \in [Arrivals -> Nat \cup {None}]
      BY <1>2, <3>1 DEF LimiterInv, Fresh, LimiterTypeOK
    <3> QED
      BY <2>4, <3>1, <3>2
  <2>7. CASE UNCHANGED limiterVars
    BY <2>4, <2>7 DEF limiterVars
  <2> QED
    BY <1>2, <2>1, <2>3, <2>5, <2>6, <2>7 DEF LimiterNext, Middleware
<1>3. LimiterInv => LimiterTypeOK
  BY DEF LimiterInv
<1> QED
  BY <1>1, <1>2, <1>3, WindowsAreKept, PTL DEF LimiterSpec

-----------------------------------------------------------------------------
(* The key a request is counted under.                                     *)

\* The last of some positions is the largest one.
LEMMA LastOfIs ==
    ASSUME NEW S \in SUBSET Nat, NEW m \in S, \A i \in S : i <= m
    PROVE  LastOf(S) = m
<1>1. LastOf(S) \in S /\ \A j \in S : j <= LastOf(S)
  BY DEF LastOf
<1>2. LastOf(S) <= m /\ m <= LastOf(S) /\ m \in Nat /\ LastOf(S) \in Nat
  BY <1>1
<1>3. QED
  BY <1>2

\* The key of one request, whatever stands in the header before the client.
LEMMA ClientIsFound ==
    ASSUME NEW in \in Input, NEW client \in Addresses, CameFrom(client, in)
    PROVE  \/ ExtractClientKey(in) = client
           \/ /\ ~SkipsInvalid /\ Has(in.chain, Invalid)
              /\ ExtractClientKey(in) \in {in.real, in.peer}
<1> DEFINE chain == in.chain
           N     == Len(chain)
           ips   == ParseForwardedFor(chain)
<1>1. /\ chain \in Seq(Addresses \cup {Invalid}) /\ N \in Nat /\ DOMAIN chain = 1 .. N
      /\ in.peer \in Proxies /\ client \notin Proxies /\ client # Invalid
      /\ \A x \in Proxies : x # Invalid
  BY ProxiesAssumption, InvalidAssumption DEF Input, CameFrom
<1>2. PICK n \in 1 .. N : /\ chain[n] = client
                          /\ \A m \in n + 1 .. N : chain[m] \in Proxies
                          /\ n < N \/ in.real = client
  BY <1>1 DEF CameFrom
<1>3. CASE ~SkipsInvalid /\ Has(chain, Invalid)
  <2>1. ips = {}
    BY <1>3 DEF ParseForwardedFor
  <2>2. ~ForwardedCounts(chain, in.peer)
    BY <2>1 DEF ForwardedCounts, Untrusted
  <2>3. QED
    BY <1>1, <1>3, <2>2 DEF ExtractClientKey
<1>4. CASE ~(~SkipsInvalid /\ Has(chain, Invalid))
  <2>1. ips = {i \in 1 .. N : chain[i] # Invalid}
    BY <1>1, <1>4 DEF ParseForwardedFor
  <2>2. ips \in SUBSET Nat /\ N \in ips /\ \A i \in ips : i <= N
    <3>1. chain[N] # Invalid
      BY <1>1, <1>2
    <3>2. QED
      BY <1>1, <1>2, <2>1, <3>1
  <2>3. /\ Untrusted(chain) \in SUBSET Nat /\ n \in Untrusted(chain)
        /\ \A i \in Untrusted(chain) : i <= n
    <3>1. n \in ips
      BY <1>1, <1>2, <2>1
    <3>2. \A i \in 1 .. N : chain[i] \notin Proxies => i <= n
      BY <1>1, <1>2
    <3>3. QED
      BY <1>1, <1>2, <2>1, <2>2, <3>1, <3>2 DEF Untrusted
  <2>4. LastOf(ips) = N
    BY <2>2, LastOfIs
  <2>5. LastUntrusted(chain) = client
    BY <1>2, <2>3, LastOfIs DEF LastUntrusted
  <2>6. CASE n < N
    <3>1. chain[N] \in Proxies
      BY <1>1, <1>2, <2>6
    <3>2. ForwardedCounts(chain, in.peer)
      BY <2>3, <2>4, <3>1 DEF ForwardedCounts
    <3>3. QED
      BY <1>1, <2>5, <3>2 DEF ExtractClientKey
  <2>7. CASE n = N
    <3>1. in.real = client
      BY <1>1, <1>2, <2>7
    <3>2. ForwardedCounts(chain, in.peer) => FALSE
      BY <1>1, <1>2, <2>4, <2>7 DEF ForwardedCounts
    <3>3. QED
      BY <1>1, <3>1, <3>2 DEF ExtractClientKey
  <2>8. QED
    BY <1>1, <1>2, <2>6, <2>7
<1>5. QED
  BY <1>3, <1>4

\* Clients behind a proxy are counted under their own address, however many
\* proxies the request passed and whatever the header held before it came to
\* the first of them; in accounts-service, while all of the header can be
\* read (extract_client_key).
THEOREM ClientsAreToldApart == LimiterSpec => []KeyIsClient
<1>1. LimiterTypeOK => KeyIsClient
  BY ClientIsFound, InputsAssumption DEF LimiterTypeOK, KeyIsClient, Key
<1> QED
  BY <1>1, LimiterTypeCorrect, PTL

-----------------------------------------------------------------------------
(* AuditTrail: the invariant.                                              *)

\* Where the task and the call of a report can be.
Reporting(r) ==
    /\ pc[r] = "idle" <=> task[r] = "none"
    /\ pc[r] # "idle" => status[r] # 0
    /\ task[r] \in {"none", "ready", "skipped"} => call[r] = "none"
    /\ task[r] = "waiting" => call[r] # "none"
    /\ pc[r] = "answered" /\ Awaits(r) => task[r] \in Reported

\* Whether there is a row.
StoredAs(r) ==
    /\ call[r] \in {"none", "received", "valid", "refused"} => Stored(r) = {}
    /\ call[r] = "stored" \/ task[r] = "acknowledged" => Stored(r) # {}
    /\ \A i, j \in Stored(r) : i = j
    /\ \A i \in Stored(r) : rows[i].event = event[r]

Told(r) ==
    /\ status[r] = 200 => committed[r]
    /\ status[r] = 400 => ~committed[r]
    /\ call[r] # "none" =>
         /\ event[r].outcome = OutcomeFromStatus(status[r]) /\ status[r] # 0
         /\ event[r].stamp <= stamp

Sequence(r, s) ==
    r \in earlier[s] =>
        /\ pc[r] = "answered"
        /\ Awaits(r) /\ call[r] # "none" /\ call[s] # "none"
           => event[r].stamp < event[s].stamp

Rows  == Seq([from : Requests \cup Appends, event : Event])
Typed == TypeOK /\ rows \in Rows

TrailInv ==
    /\ Typed
    /\ \A r \in Requests : Reporting(r) /\ Told(r)
    /\ \A r \in Requests : StoredAs(r)
    /\ \A r, s \in Requests : Sequence(r, s)

-----------------------------------------------------------------------------
(* Facts about events.                                                     *)

LEMMA ActionType ==
    ASSUME TypeOK, NEW r \in Requests
    PROVE  asked[r].action \in UsersActions \cup AllActions
BY AskedAssumption DEF TypeOK, AllActions

LEMMA OutcomeType ==
    ASSUME NEW s
    PROVE  OutcomeFromStatus(s) \in {"success", "client_error", "server_error"}
BY DEF OutcomeFromStatus

LEMMA ReasonType == ASSUME NEW n \in Reasons PROVE TruncateReason(n) \in Nat
BY ReasonsAssumption DEF TruncateReason

\* The rows of the others stay when a row is appended.
LEMMA AppendedRow ==
    ASSUME rows \in Rows, NEW from \in Requests \cup Appends, NEW e \in Event,
           rows' = Append(rows, Row(from, e))
    PROVE  /\ rows' \in Rows
           /\ \A i \in DOMAIN rows' : rows'[i].from \in Requests \cup Appends /\ rows'[i].event \in Event
           /\ \A r \in Requests \ {from} :
                 Stored(r)' = Stored(r) /\ \A i \in Stored(r) : rows'[i] = rows[i]
           /\ Stored(from)' = Stored(from) \cup {Len(rows) + 1}
           /\ \A i \in Stored(from) : rows'[i] = rows[i]
           /\ rows'[Len(rows) + 1].event = e
<1>1. Row(from, e) \in [from : Requests \cup Appends, event : Event]
      /\ Row(from, e).from = from /\ Row(from, e).event = e
  BY DEF Row
<1>2. /\ rows' \in Rows /\ Len(rows) \in Nat /\ DOMAIN rows = 1 .. Len(rows)
      /\ DOMAIN rows' = 1 .. Len(rows) + 1
      /\ \A i \in 1 .. Len(rows) : rows'[i] = rows[i]
      /\ rows'[Len(rows) + 1] = Row(from, e)
  BY <1>1 DEF Rows
<1>3. \A i \in DOMAIN rows' : rows'[i] \in [from : Requests \cup Appends, event : Event]
  <2>1. \A i \in 1 .. Len(rows) : rows[i] \in [from : Requests \cup Appends, event : Event]
    <3>1. ASSUME NEW S, rows \in Seq(S) PROVE \A i \in 1 .. Len(rows) : rows[i] \in S
      BY ONLY <3>1
    <3> QED
      BY ONLY <3>1, rows \in Rows DEF Rows
  <2> QED
    BY <1>1, <1>2, <2>1
<1>4. DOMAIN rows' = DOMAIN rows \cup {Len(rows) + 1}
  BY <1>2
<1>5. \A r : Stored(r)' = {i \in DOMAIN rows' : rows'[i].from = r}
  BY DEF Stored
<1>6. \A r \in Requests \ {from} :
         Stored(r)' = Stored(r) /\ \A i \in Stored(r) : rows'[i] = rows[i]
  BY <1>1, <1>2, <1>4, <1>5 DEF Stored
<1>7. Stored(from)' = Stored(from) \cup {Len(rows) + 1} /\ \A i \in Stored(from) : rows'[i] = rows[i]
  BY <1>1, <1>2, <1>4, <1>5 DEF Stored
<1> QED
  BY <1>1, <1>2, <1>3, <1>6, <1>7

-----------------------------------------------------------------------------
(* The type invariant.                                                     *)

LEMMA TypeStep == Typed /\ [Next]_vars => Typed'
<1> SUFFICES ASSUME TypeOK, rows \in Rows, [Next]_vars PROVE TypeOK' /\ rows' \in Rows
  BY DEF Typed
<1>1. ASSUME NEW r \in Requests, NEW s \in {200, 400, 500}, Work(r, s)
      PROVE  TypeOK' /\ rows' \in Rows
  BY <1>1 DEF TypeOK, Work
<1>2. ASSUME NEW r \in Requests, Answer(r) PROVE TypeOK' /\ rows' \in Rows
  BY <1>2 DEF TypeOK, Answer
<1>3. ASSUME NEW r \in Requests, Emit(r) PROVE TypeOK' /\ rows' \in Rows
  <2>1. \/ /\ UNCHANGED <<event, stamp, call>> /\ task' = [task EXCEPT ![r] = "skipped"]
        \/ /\ \E e \in Event : event' = [event EXCEPT ![r] = e]
           /\ stamp' = stamp + 1 /\ task' = [task EXCEPT ![r] = "waiting"]
           /\ call' = [call EXCEPT ![r] = "received"]
    <3>1. \A o \in Organizations(asked[r], status[r]) \ {"unknown"} : o \in {"tenant", "nil"}
      <4>1. asked[r] \in Asked /\ asked[r].service \in {"users", "accounts"}
        BY AskedAssumption DEF TypeOK
      <4>2. CASE asked[r].service = "accounts"
        BY <4>2 DEF Organizations
      <4>3. CASE asked[r].service = "users" /\ asked[r].action = "users.sdk.user.create"
        BY <4>3 DEF Organizations
      <4>4. CASE asked[r].service = "users" /\ asked[r].action = "users.beta.apply"
        BY <4>4 DEF Organizations
      <4>5. CASE asked[r].service = "users" /\ asked[r].action = "users.password_reset.request"
        BY <4>5 DEF Organizations
      <4>6. CASE asked[r].service = "users"
                 /\ asked[r].action \notin {"users.sdk.user.create", "users.beta.apply",
                                            "users.password_reset.request"}
        BY <4>6 DEF Organizations
      <4> QED
        BY <4>1, <4>2, <4>3, <4>4, <4>5, <4>6
    <3>2. ASSUME NEW o \in {"tenant", "nil"}, NEW n \in Reasons
          PROVE  [action |-> asked[r].action, organization |-> o,
                  outcome |-> OutcomeFromStatus(status[r]),
                  reason |-> TruncateReason(n), stamp |-> stamp + 1] \in Event
      <4>1. asked[r].action \in UsersActions \cup AllActions /\ stamp + 1 \in Nat
        BY ActionType DEF TypeOK
      <4> QED
        BY <4>1, OutcomeType, ReasonType DEF Event
    <3>3. ReasonsOf(asked[r], status[r]) \subseteq Reasons
      BY DEF ReasonsOf
    <3> QED
      BY <1>3, <3>1, <3>2, <3>3 DEF Emit
  <2>2. UNCHANGED <<pc, asked, status, committed, append, rows, crashes, earlier>>
    BY <1>3 DEF Emit
  <2>3. CASE \E e \in Event : event' = [event EXCEPT ![r] = e]
    <3>1. event' \in [Requests -> Event]
      BY <2>3 DEF TypeOK
    <3>2. stamp' \in Nat /\ task' \in [Requests -> {"none", "ready", "waiting", "dead"} \cup Reported]
          /\ call' \in [Requests -> {"none", "received", "valid", "stored", "refused", "failed", "lost"}]
      BY <2>1 DEF TypeOK, Reported
    <3> QED
      BY <2>2, <3>1, <3>2 DEF TypeOK
  <2>4. CASE UNCHANGED <<event, stamp, call>> /\ task' = [task EXCEPT ![r] = "skipped"]
    BY <2>2, <2>4 DEF TypeOK, Reported
  <2> QED
    BY <2>1, <2>3, <2>4
<1>4. ASSUME NEW r \in Requests, Reply(r) \/ Deadline(r) PROVE TypeOK' /\ rows' \in Rows
  BY <1>4 DEF TypeOK, Reply, Deadline, EndTask, Reported
<1>5. ASSUME NEW s \in Services, Crash(s) PROVE TypeOK' /\ rows' \in Rows
  <2>1. crashes' \in 0 .. MaxCrashes
    BY <1>5, CrashesAssumption DEF TypeOK, Crash
  <2> QED
    BY <1>5, <2>1 DEF TypeOK, Crash
<1>6. ASSUME NEW r \in Requests, ValidateAuditEvent(r) \/ LoseCall(r) PROVE TypeOK' /\ rows' \in Rows
  BY <1>6 DEF TypeOK, ValidateAuditEvent, LoseCall, unchangedEmitters
<1>7. ASSUME NEW r \in Requests, InsertAuditEvent(r) PROVE TypeOK' /\ rows' \in Rows
  <2>1. CASE rows' = rows
    BY <1>7, <2>1 DEF TypeOK, InsertAuditEvent, unchangedEmitters
  <2>2. CASE rows' = Append(rows, Row(r, event[r]))
    <3>1. event[r] \in Event
      BY DEF TypeOK
    <3> QED
      BY <1>7, <2>2, <3>1, AppendedRow DEF TypeOK, InsertAuditEvent, unchangedEmitters
  <2> QED
    BY <1>7, <2>1, <2>2 DEF InsertAuditEvent
<1>8. ASSUME NEW x \in Appends, NEW e \in Appended, HttpAppend(x, e) PROVE TypeOK' /\ rows' \in Rows
  <2>1. CASE rows' = rows
    BY <1>8, <2>1 DEF TypeOK, HttpAppend, unchangedEmitters
  <2>2. CASE rows' = Append(rows, Row(x, e))
    BY <1>8, <2>2, AppendedRow, AppendedAssumption DEF TypeOK, HttpAppend, unchangedEmitters
  <2> QED
    BY <1>8, <2>1, <2>2 DEF HttpAppend
<1>9. CASE UNCHANGED vars
  BY <1>9 DEF TypeOK, vars
<1> QED
  BY <1>1, <1>2, <1>3, <1>4, <1>5, <1>6, <1>7, <1>8, <1>9
     DEF Next, Handle, Report, Ingest

\* Every variable has its type.
THEOREM TrailTypeCorrect == Spec => []TypeOK
<1>1. Init => Typed
  BY CrashesAssumption DEF Typed, Init, TypeOK, Rows, NoEvent, Event, UsersActions
<1>2. Typed => TypeOK
  BY DEF Typed
<1> QED
  BY <1>1, <1>2, TypeStep, PTL DEF Spec

-----------------------------------------------------------------------------
(* The invariant.                                                          *)

\* Nothing of the request, nor of its row, changes.
Same(q) ==
    /\ pc'[q] = pc[q] /\ asked'[q] = asked[q] /\ status'[q] = status[q]
    /\ committed'[q] = committed[q] /\ task'[q] = task[q] /\ event'[q] = event[q]
    /\ call'[q] = call[q] /\ earlier'[q] = earlier[q]
    /\ Stored(q)' = Stored(q)
    /\ \A i \in Stored(q) : rows'[i] = rows[i]

LEMMA SameKept ==
    ASSUME TrailInv, Typed', stamp <= stamp', NEW q \in Requests, Same(q)
    PROVE  Reporting(q)' /\ Told(q)' /\ StoredAs(q)'
<1>1. Reporting(q) /\ Told(q) /\ StoredAs(q)
  BY DEF TrailInv
<1>2. Reporting(q)'
  BY <1>1 DEF Reporting, Awaits, Same
<1>3. StoredAs(q)'
  BY <1>1 DEF StoredAs, Same
<1>4. event[q].stamp \in Nat /\ stamp \in Nat /\ stamp' \in Nat
  BY DEF TrailInv, Typed, TypeOK, Event
<1>5. Told(q)'
  BY <1>1, <1>4 DEF Told, Same
<1> QED
  BY <1>2, <1>3, <1>5

\* A step of one request, or of none.
LEMMA OneStep ==
    ASSUME TrailInv, Typed', stamp <= stamp', NEW r \in Requests,
           \A q \in Requests \ {r} : Same(q),
           Reporting(r)' /\ Told(r)' /\ StoredAs(r)',
           \A q \in Requests : Sequence(r, q)' /\ Sequence(q, r)'
    PROVE  TrailInv'
<1>1. ASSUME NEW q \in Requests \ {r}, NEW s \in Requests \ {r} PROVE Sequence(q, s)'
  <2>1. Sequence(q, s) /\ Same(q) /\ Same(s)
    BY DEF TrailInv
  <2> QED
    BY <2>1 DEF Sequence, Awaits, Same
<1>2. \A q \in Requests \ {r} : Reporting(q)' /\ Told(q)' /\ StoredAs(q)'
  BY SameKept
<1> QED
  BY <1>1, <1>2 DEF TrailInv

LEMMA NoStep ==
    ASSUME TrailInv, Typed', stamp' = stamp, \A q \in Requests : Same(q)
    PROVE  TrailInv'
<1>0. stamp <= stamp'
  BY DEF TrailInv, Typed, TypeOK
<1>1. ASSUME NEW q \in Requests, NEW s \in Requests PROVE Sequence(q, s)'
  <2>1. Sequence(q, s) /\ Same(q) /\ Same(s)
    BY DEF TrailInv
  <2> QED
    BY <2>1 DEF Sequence, Awaits, Same
<1>2. \A q \in Requests : Reporting(q)' /\ Told(q)' /\ StoredAs(q)'
  BY <1>0, SameKept
<1> QED
  BY <1>1, <1>2 DEF TrailInv

LEMMA TrailStep == TrailInv /\ [Next]_vars => TrailInv'
<1> SUFFICES ASSUME TrailInv, [Next]_vars PROVE TrailInv'
  OBVIOUS
<1>0. Typed' /\ TypeOK /\ rows \in Rows /\ stamp \in Nat
  BY TypeStep DEF TrailInv, Typed, TypeOK
<1>1. \A r \in Requests : /\ Reporting(r) /\ Told(r) /\ StoredAs(r)
                          /\ event[r] \in Event /\ event[r].stamp \in Nat
                          /\ pc[r] \in {"idle", "served", "answered", "gone"}
                          /\ Reported = {"skipped", "acknowledged", "failed"}
  BY <1>0 DEF TrailInv, TypeOK, Event, Reported
<1>2. \A r, s \in Requests : Sequence(r, s)
  BY DEF TrailInv
<1>3. rows' = rows => \A r : Stored(r)' = Stored(r) /\ \A i \in Stored(r) : rows'[i] = rows[i]
  BY DEF Stored
<1>4. ASSUME NEW r \in Requests, NEW s \in {200, 400, 500}, Work(r, s) PROVE TrailInv'
  <2>1. /\ pc[r] = "idle" /\ task[r] = "none" /\ call[r] = "none"
        /\ pc'[r] = "served" /\ status'[r] = s /\ task'[r] = "ready"
        /\ s < 400 => committed'[r]
        /\ s = 400 => ~committed'[r]
        /\ earlier'[r] = {q \in Requests : pc[q] = "answered"}
        /\ UNCHANGED <<asked, event, call, rows, stamp>>
    BY <1>0, <1>1, <1>4 DEF Work, TypeOK, Reporting
  <2>2. \A q \in Requests \ {r} :
            /\ pc'[q] = pc[q] /\ status'[q] = status[q] /\ committed'[q] = committed[q]
            /\ task'[q] = task[q] /\ earlier'[q] = earlier[q]
    BY <1>0, <1>4 DEF Work, TypeOK
  <2>3. Reporting(r)' /\ Told(r)' /\ StoredAs(r)'
    BY <1>1, <1>3, <2>1 DEF Reporting, Told, StoredAs, Awaits
  <2>4. ASSUME NEW q \in Requests PROVE Sequence(r, q)' /\ Sequence(q, r)'
    BY <1>1, <1>2, <2>1, <2>2 DEF Sequence
  <2>9. \A q \in Requests \ {r} : Same(q)
    BY <1>0, <1>3, <2>1, <2>2, <2>3 DEF Same
  <2> QED
    BY <1>0, <1>3, <2>1, <2>2, <2>3, <2>4, <2>9, OneStep
<1>5. ASSUME NEW r \in Requests, Answer(r) PROVE TrailInv'
  <2>1. /\ pc[r] = "served" /\ (Awaits(r) => task[r] \in Reported) /\ pc'[r] = "answered"
        /\ \A q \in Requests \ {r} : pc'[q] = pc[q]
        /\ UNCHANGED <<asked, status, committed, task, event, call, rows, stamp, earlier>>
    BY <1>0, <1>5 DEF Answer, TypeOK
  <2>2. Reporting(r)' /\ Told(r)' /\ StoredAs(r)'
    BY <1>1, <1>3, <2>1 DEF Reporting, Told, StoredAs, Awaits
  <2>3. ASSUME NEW q \in Requests PROVE Sequence(r, q)' /\ Sequence(q, r)'
    BY <1>2, <2>1 DEF Sequence, Awaits
  <2>9. \A q \in Requests \ {r} : Same(q)
    BY <1>0, <1>3, <2>1, <2>2, <2>3 DEF Same
  <2> QED
    BY <1>0, <1>3, <2>1, <2>2, <2>3, <2>9, OneStep
<1>6. ASSUME NEW r \in Requests, Emit(r) PROVE TrailInv'
  <2>0. /\ task[r] = "ready" /\ call[r] = "none" /\ pc[r] # "idle" /\ ~(pc[r] = "answered" /\ Awaits(r))
        /\ \A q \in Requests \ {r} : task'[q] = task[q] /\ event'[q] = event[q] /\ call'[q] = call[q]
        /\ UNCHANGED <<pc, asked, status, committed, rows, earlier>>
    BY <1>0, <1>1, <1>6 DEF Emit, TypeOK, Reporting
  <2>1. CASE UNCHANGED <<event, stamp, call>> /\ task' = [task EXCEPT ![r] = "skipped"]
    <3>1. task'[r] = "skipped"
      BY <1>0, <2>1 DEF TypeOK
    <3>2. Reporting(r)' /\ Told(r)' /\ StoredAs(r)'
      BY <1>1, <1>3, <2>0, <2>1, <3>1 DEF Reporting, Told, StoredAs, Awaits
    <3>3. ASSUME NEW q \in Requests PROVE Sequence(r, q)' /\ Sequence(q, r)'
      BY <1>2, <2>0, <2>1 DEF Sequence, Awaits
    <3>9. \A q \in Requests \ {r} : Same(q)
      BY <1>0, <1>3, <2>0, <2>1, <3>2, <3>3 DEF Same
    <3> QED
      BY <1>0, <1>3, <2>0, <2>1, <3>2, <3>3, <3>9, OneStep
  <2>2. CASE stamp' = stamp + 1
    <3>1. /\ event'[r].outcome = OutcomeFromStatus(status[r]) /\ event'[r].stamp = stamp + 1
          /\ task'[r] = "waiting" /\ call'[r] = "received"
      BY <1>0, <1>6, <2>2 DEF Emit, TypeOK
    <3>2. status[r] # 0
      BY <1>1, <2>0 DEF Told, Reporting
    <3>3. Reporting(r)' /\ StoredAs(r)'
      BY <1>1, <1>3, <2>0, <3>1 DEF Reporting, StoredAs, Awaits
    <3>4. Told(r)'
      BY <1>0, <1>1, <2>0, <2>2, <3>1, <3>2 DEF Told
    <3>5. ASSUME NEW q \in Requests PROVE Sequence(r, q)' /\ Sequence(q, r)'
      <4>1. Sequence(r, q)'
        BY <1>2, <2>0 DEF Sequence, Awaits
      <4>2. CASE q = r
        BY <4>1, <4>2
      <4>3. CASE q # r
        <5>1. call'[q] # "none" => event'[q].stamp < event'[r].stamp
          BY <1>0, <1>1, <2>0, <3>1, <4>3 DEF Told
        <5> QED
          BY <1>2, <2>0, <4>1, <5>1 DEF Sequence
      <4> QED
        BY <4>2, <4>3
    <3>9. \A q \in Requests \ {r} : Same(q)
      BY <1>0, <1>3, <2>0, <2>2, <3>3, <3>4, <3>5 DEF Same
    <3> QED
      BY <1>0, <1>3, <2>0, <2>2, <3>3, <3>4, <3>5, <3>9, OneStep
  <2> QED
    BY <1>6, <2>1, <2>2 DEF Emit
<1>7. ASSUME NEW r \in Requests, Reply(r) \/ Deadline(r) PROVE TrailInv'
  <2>1. /\ task[r] = "waiting" /\ task'[r] \in {"acknowledged", "failed"}
        /\ task'[r] = "acknowledged" => call[r] = "stored"
        /\ \A q \in Requests \ {r} : task'[q] = task[q]
        /\ UNCHANGED <<pc, asked, status, committed, event, call, rows, stamp, earlier>>
    BY <1>0, <1>7 DEF Reply, Deadline, EndTask, TypeOK
  <2>2. Reporting(r)' /\ Told(r)' /\ StoredAs(r)'
    BY <1>1, <1>3, <2>1 DEF Reporting, Told, StoredAs, Awaits
  <2>3. ASSUME NEW q \in Requests PROVE Sequence(r, q)' /\ Sequence(q, r)'
    BY <1>2, <2>1 DEF Sequence, Awaits
  <2>9. \A q \in Requests \ {r} : Same(q)
    BY <1>0, <1>3, <2>1, <2>2, <2>3 DEF Same
  <2> QED
    BY <1>0, <1>3, <2>1, <2>2, <2>3, <2>9, OneStep
<1>8. ASSUME NEW service \in Services, Crash(service) PROVE TrailInv'
  <2>1. UNCHANGED <<asked, status, committed, event, call, rows, stamp, earlier>>
    BY <1>8 DEF Crash
  <2>2. ASSUME NEW r \in Requests
        PROVE  /\ pc'[r] = pc[r] \/ (pc[r] = "served" /\ pc'[r] = "gone")
               /\ task'[r] = task[r] \/ (task[r] \in {"ready", "waiting"} /\ task'[r] = "dead")
    BY <1>0, <1>8 DEF Crash, TypeOK
  <2>3. ASSUME NEW r \in Requests PROVE Reporting(r)' /\ Told(r)' /\ StoredAs(r)'
    BY <1>1, <1>3, <2>1, <2>2 DEF Reporting, Told, StoredAs, Awaits
  <2>4. ASSUME NEW r \in Requests, NEW s \in Requests PROVE Sequence(r, s)'
    BY <1>2, <2>1, <2>2 DEF Sequence, Awaits
  <2> QED
    BY <1>0, <2>3, <2>4 DEF TrailInv
<1>9. ASSUME NEW r \in Requests, ValidateAuditEvent(r) \/ LoseCall(r) PROVE TrailInv'
  <2>1. /\ call[r] # "none" /\ call'[r] \in {"valid", "refused", "lost"}
        /\ call'[r] # "lost" => call[r] = "received"
        /\ \A q \in Requests \ {r} : call'[q] = call[q]
        /\ UNCHANGED <<pc, asked, status, committed, task, event, rows, stamp, earlier>>
    <3>1. CASE ValidateAuditEvent(r)
      BY <1>0, <3>1 DEF ValidateAuditEvent, TypeOK, unchangedEmitters
    <3>2. CASE LoseCall(r)
      <4>1. call[r] # "none" \/ task[r] = "waiting"
        BY <3>2 DEF LoseCall
      <4> QED
        BY <1>0, <1>1, <3>2, <4>1 DEF LoseCall, Reporting, TypeOK, unchangedEmitters
    <3> QED
      BY <1>9, <3>1, <3>2
  <2>2. Reporting(r)' /\ Told(r)' /\ StoredAs(r)'
    BY <1>1, <1>3, <2>1 DEF Reporting, Told, StoredAs, Awaits
  <2>3. ASSUME NEW q \in Requests PROVE Sequence(r, q)' /\ Sequence(q, r)'
    BY <1>2, <2>1 DEF Sequence, Awaits
  <2>9. \A q \in Requests \ {r} : Same(q)
    BY <1>0, <1>3, <2>1, <2>2, <2>3 DEF Same
  <2> QED
    BY <1>0, <1>3, <2>1, <2>2, <2>3, <2>9, OneStep
<1>10. ASSUME NEW r \in Requests, InsertAuditEvent(r) PROVE TrailInv'
  <2>1. /\ call[r] = "valid" /\ call'[r] \in {"stored", "failed"}
        /\ \A q \in Requests \ {r} : call'[q] = call[q]
        /\ UNCHANGED <<pc, asked, status, committed, task, event, stamp, earlier>>
        /\ \/ rows' = Append(rows, Row(r, event[r]))
           \/ rows' = rows /\ call'[r] = "failed"
    BY <1>0, <1>10 DEF InsertAuditEvent, TypeOK, unchangedEmitters
  <2>2. Stored(r) = {} /\ Reporting(r)' /\ Told(r)'
    BY <1>1, <2>1 DEF Reporting, Told, StoredAs, Awaits
  <2>3. ASSUME NEW q \in Requests PROVE Sequence(r, q)' /\ Sequence(q, r)'
    BY <1>2, <2>1 DEF Sequence, Awaits
  <2>4. CASE rows' = rows /\ call'[r] = "failed"
    <3>1. StoredAs(r)'
      BY <1>1, <1>3, <2>1, <2>4 DEF StoredAs
    <3>9. \A q \in Requests \ {r} : Same(q)
      BY <1>0, <1>3, <2>1, <2>2, <2>3, <2>4, <3>1 DEF Same
    <3> QED
      BY <1>0, <1>3, <2>1, <2>2, <2>3, <2>4, <3>1, <3>9, OneStep
  <2>5. CASE rows' = Append(rows, Row(r, event[r]))
    <3>1. /\ \A q \in Requests \ {r} :
                 Stored(q)' = Stored(q) /\ \A i \in Stored(q) : rows'[i] = rows[i]
          /\ Stored(r)' = {Len(rows) + 1} /\ rows'[Len(rows) + 1].event = event[r]
      <4>1. event[r] \in Event /\ r \in Requests \cup Appends /\ rows \in Rows
        BY <1>0, <1>1
      <4> QED
        BY ONLY <2>2, <2>5, <4>1, AppendedRow
    <3>2. StoredAs(r)'
      BY <1>1, <2>1, <3>1 DEF StoredAs
    <3>9. \A q \in Requests \ {r} : Same(q)
      BY <1>0, <2>1, <2>2, <2>3, <3>1, <3>2 DEF Same
    <3> QED
      BY <1>0, <2>1, <2>2, <2>3, <3>1, <3>2, <3>9, OneStep
  <2> QED
    BY <2>1, <2>4, <2>5
<1>11. ASSUME NEW x \in Appends, NEW e \in Appended, HttpAppend(x, e) PROVE TrailInv'
  <2>1. /\ UNCHANGED <<pc, asked, status, committed, task, event, call, stamp, earlier>>
        /\ rows' = rows \/ rows' = Append(rows, Row(x, e))
    BY <1>11 DEF HttpAppend, unchangedEmitters
  <2>2. x \notin Requests /\ e \in Event
    BY AppendsAssumption, AppendedAssumption
  <2>3. \A q \in Requests : Stored(q)' = Stored(q) /\ \A i \in Stored(q) : rows'[i] = rows[i]
    <3>1. CASE rows' = rows
      BY <1>3, <3>1
    <3>2. CASE rows' = Append(rows, Row(x, e))
      BY <1>0, <2>2, <3>2, AppendedRow
    <3> QED
      BY <2>1, <3>1, <3>2
  <2>9. \A q \in Requests : Same(q)
    BY <1>0, <2>1, <2>3 DEF Same
  <2> QED
    BY <1>0, <2>1, <2>3, <2>9, NoStep
<1>12. CASE UNCHANGED vars
  <2>9. \A q \in Requests : Same(q)
    BY <1>0, <1>3, <1>12 DEF Same, vars
  <2> QED
    BY <1>0, <1>3, <1>12, <2>9, NoStep DEF vars
<1> QED
  BY <1>4, <1>5, <1>6, <1>7, <1>8, <1>9, <1>10, <1>11, <1>12 DEF Next, Handle, Report, Ingest

LEMMA InvariantHolds == Spec => []TrailInv
<1>1. Init => TrailInv
  <2> SUFFICES ASSUME Init PROVE TrailInv
    OBVIOUS
  <2>1. Typed
    BY CrashesAssumption DEF Typed, Init, TypeOK, Rows, NoEvent, Event, UsersActions
  <2>2. \A r \in Requests : Stored(r) = {}
    <3>1. rows = << >>
      BY DEF Init
    <3>2. DOMAIN rows = {}
      BY ONLY <3>1
    <3> QED
      BY <3>2 DEF Stored
  <2>3. \A r \in Requests : Reporting(r) /\ Told(r) /\ StoredAs(r)
    <3> TAKE r \in Requests
    <3>1. pc[r] = "idle" /\ task[r] = "none" /\ call[r] = "none" /\ status[r] = 0
      BY DEF Init
    <3> QED
      BY <2>2, <3>1 DEF Reporting, Told, StoredAs
  <2>4. \A r, s \in Requests : Sequence(r, s)
    BY DEF Init, Sequence
  <2> QED
    BY <2>1, <2>3, <2>4 DEF TrailInv
<1> QED
  BY <1>1, TrailStep, PTL DEF Spec

-----------------------------------------------------------------------------
(* The properties.                                                         *)

\* A row tells what became of the work (outcome_from_status and the handlers
\* that report after the commit).
THEOREM RowsTellOutcomes == Spec => []RowTellsOutcome
<1>1. TrailInv => RowTellsOutcome
  <2> SUFFICES ASSUME TrailInv, NEW r \in Requests, NEW i \in Stored(r)
               PROVE  /\ rows[i].event.outcome = "success" => committed[r]
                      /\ rows[i].event.outcome = "client_error" => ~committed[r]
    BY DEF RowTellsOutcome
  <2>1. rows[i].event = event[r] /\ call[r] # "none" /\ Told(r)
    BY DEF TrailInv, StoredAs
  <2>2. status[r] \in {200, 400, 500} /\ event[r].outcome = OutcomeFromStatus(status[r])
    BY <2>1 DEF TrailInv, Typed, TypeOK, Told
  <2>3. CASE status[r] = 200
    BY <2>1, <2>2, <2>3 DEF Told, OutcomeFromStatus
  <2>4. CASE status[r] = 400
    BY <2>1, <2>2, <2>4 DEF Told, OutcomeFromStatus
  <2>5. CASE status[r] = 500
    BY <2>1, <2>2, <2>5 DEF OutcomeFromStatus
  <2> QED
    BY <2>2, <2>3, <2>4, <2>5
<1> QED
  BY <1>1, InvariantHolds, PTL

\* A request leaves at most one row, whatever was late or lost (the report is
\* never repeated).
THEOREM OneRowAtMost == Spec => []AtMostOneRow
<1>1. TrailInv => AtMostOneRow
  BY DEF TrailInv, StoredAs, AtMostOneRow
<1> QED
  BY <1>1, InvariantHolds, PTL

\* A report that was acknowledged is in the table (append_audit_event answers
\* after the INSERT).
THEOREM AcknowledgedRowsAreStored == Spec => []AcknowledgedIsStored
<1>1. TrailInv => AcknowledgedIsStored
  BY DEF TrailInv, StoredAs, AcknowledgedIsStored
<1> QED
  BY <1>1, InvariantHolds, PTL

\* Requests to users-service that follow one another are listed in that
\* order (emit_users_mutation is awaited).
THEOREM AwaitedReportsAreInOrder == Spec => []AwaitedInOrder
<1>1. TrailInv => AwaitedInOrder
  <2> SUFFICES ASSUME TrailInv, NEW r \in Requests, NEW s \in Requests, Awaits(r), r \in earlier[s],
                      NEW i \in Stored(r), NEW j \in Stored(s)
               PROVE  rows[i].event.stamp < rows[j].event.stamp
    BY DEF AwaitedInOrder
  <2>1. StoredAs(r) /\ StoredAs(s) /\ Sequence(r, s)
    BY DEF TrailInv
  <2>2. /\ rows[i].event = event[r] /\ rows[j].event = event[s]
        /\ call[r] # "none" /\ call[s] # "none"
    BY <2>1 DEF StoredAs
  <2> QED
    BY <2>1, <2>2 DEF Sequence
<1> QED
  BY <1>1, InvariantHolds, PTL
=============================================================================
