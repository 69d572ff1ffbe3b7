-------------------------- MODULE BudgetMeterProofs --------------------------
(***************************************************************************)
(* The accounting of BudgetMeter is right for any limits, any number of    *)
(* calls and any usage.                                                    *)
(***************************************************************************)
EXTENDS BudgetMeter, SharedTheorems

-----------------------------------------------------------------------------
(* Vectors of amounts *)

LEMMA PlusType ==
    ASSUME NEW u \in Amounts, NEW v \in Amounts
    PROVE  Plus(u, v) \in Amounts
PROOF BY SMT DEF Amounts, Plus

LEMMA UsageType ==
    ASSUME NEW u \in Usages
    PROVE  u \in Amounts
PROOF BY UsagesAssumption DEF Normalized

-----------------------------------------------------------------------------
(* Type correctness *)

LEMMA InitTyped == Init => TypeOK
PROOF
  <1> SUFFICES ASSUME Init PROVE TypeOK
    OBVIOUS
  <1>1. Nothing \in Amounts /\ Nothing \in [Dims -> Int]
    BY SMT DEF Nothing, Amounts
  <1>2. sealed \in BOOLEAN
    BY DEF Init
  <1>3. /\ reservations \in [Calls -> Amounts \cup {None}]
        /\ call \in [Calls -> CallState]
        /\ spent \in [Calls -> Amounts]
    BY <1>1, SMT DEF Init, CallState
  <1>4. \A c \in Calls : reservations[c] # None <=> call[c] \in {"open", "late"}
    BY SMT DEF Init
  <1>5. violation = "none" /\ status = "solving" /\ report = None
    BY DEF Init
  <1>6. used \in Amounts /\ reserved \in [Dims -> Int]
    BY <1>1 DEF Init
  <1> QED  BY <1>2, <1>3, <1>4, <1>5, <1>6 DEF TypeOK

LEMMA NextTyped == TypeOK /\ [Next]_vars => TypeOK'
PROOF
  <1> SUFFICES ASSUME TypeOK, [Next]_vars PROVE TypeOK'
    OBVIOUS
  <1> USE DEF TypeOK, CallState, Failed
  <1>1. ASSUME NEW c \in Calls, NEW u \in Usages, Reserve(c, u) PROVE TypeOK'
    <2>1. u \in Amounts /\ u # None
      BY UsageType, CallsAssumption
    <2>2. Plus(reserved, u) \in [Dims -> Int]
      BY <2>1, SMT DEF Plus, Amounts
    <2>3. CASE Stopped /\ Becomes(c, "refused") /\ UNCHANGED meter
      BY <1>1, <2>3, SMT DEF Reserve, Becomes, meter
    <2>4. CASE ~Stopped /\ ~Fits(u)
      BY <1>1, <2>4, SMT DEF Reserve, Becomes
    <2>5. CASE ~Stopped /\ Fits(u)
      BY <1>1, <2>1, <2>2, <2>5, SMT DEF Reserve, Becomes
    <2> QED  BY <1>1, <2>3, <2>4, <2>5 DEF Reserve
  <1>2. ASSUME NEW c \in Calls, NEW u \in Usages, Settle(c, u) PROVE TypeOK'
    <2>1. u \in Amounts
      BY UsageType
    <2>2. Plus(used, u) \in Amounts
      BY <2>1, PlusType
    <2>3. reservations[c] \in Amounts
      BY <1>2 DEF Settle
    <2>4. Minus(reserved, reservations[c]) \in [Dims -> Int]
      BY <2>3, SMT DEF Minus, Amounts
    <2>5. CASE sealed /\ Becomes(c, "late") /\ UNCHANGED meter
      BY <1>2, <2>1, <2>5, SMT DEF Settle, Becomes, meter
    <2>6. CASE ~sealed /\ Settled(c, u) /\ Becomes(c, "settled") /\ UNCHANGED sealed
      BY <1>2, <2>1, <2>2, <2>4, <2>6, SMT DEF Settle, Settled, Becomes
    <2> QED  BY <1>2, <2>5, <2>6 DEF Settle
  <1>3. ASSUME NEW c \in Calls, NEW u \in Usages, NEW complete \in BOOLEAN,
               Charge(c, u, complete)
        PROVE TypeOK'
    <2>1. u \in Amounts
      BY UsageType
    <2>2. Plus(used, u) \in Amounts
      BY <2>1, PlusType
    <2>3. CASE UNCHANGED meter
      BY <1>3, <2>1, <2>3, SMT DEF Charge, Becomes, meter
    <2>4. CASE ~Stopped /\ complete /\ ~Fits(u)
      BY <1>3, <2>1, <2>4, SMT DEF Charge, Becomes
    <2>5. CASE ~Stopped /\ complete /\ Fits(u)
      BY <1>3, <2>1, <2>2, <2>5, SMT DEF Charge, Becomes
    <2> QED  BY <1>3, <2>3, <2>4, <2>5 DEF Charge
  <1>4. CASE Return
    BY <1>4, SMT DEF Return
  <1>5. CASE Raise
    BY <1>5, SMT DEF Raise, meter
  <1>6. CASE Evaluate
    BY <1>6, SMT DEF Evaluate, meter
  <1>7. CASE Report
    BY <1>7, SMT DEF Report, meter
  <1>8. CASE UNCHANGED vars
    BY <1>8, SMT DEF vars, meter
  <1> QED  BY <1>1, <1>2, <1>3, <1>4, <1>5, <1>6, <1>7, <1>8 DEF Next

\* The meter's counters never go below zero in use, and a call has a reservation
\* exactly while it is open or came too late to be settled.
THEOREM MeterTypeCorrect == Spec => []TypeOK
PROOF BY InitTyped, NextTyped, PTL DEF Spec

-----------------------------------------------------------------------------
(* Entitlements *)

LEMMA SettledWithinReservation ==
    ASSUME NEW u \in Amounts, NEW maximum \in Amounts, NEW actual \in Amounts,
           NEW promised \in [Dims -> Int],
           Within(Plus(u, promised), Limits), Within(actual, maximum)
    PROVE  Within(Plus(Plus(u, actual), Minus(promised, maximum)), Limits)
PROOF
  <1> SUFFICES ASSUME NEW k \in Dims
               PROVE  (u[k] + actual[k]) + (promised[k] - maximum[k]) <= Limits[k]
    BY SMT DEF Within, Plus, Minus
  <1>1. /\ u[k] \in Nat /\ actual[k] \in Nat /\ maximum[k] \in Nat
        /\ Limits[k] \in Nat /\ promised[k] \in Int
    BY LimitsAssumption DEF Normalized, Amounts
  <1>2. u[k] + promised[k] <= Limits[k] /\ actual[k] <= maximum[k]
    BY DEF Within, Plus
  <1> QED  BY <1>1, <1>2, SMT

LEMMA PlusSwap ==
    ASSUME NEW u \in Amounts, NEW v \in Amounts, NEW promised \in [Dims -> Int]
    PROVE  /\ Plus(u, Plus(promised, v)) = Plus(Plus(u, promised), v)
           /\ Plus(Plus(u, v), promised) = Plus(Plus(u, promised), v)
PROOF BY SMT DEF Amounts, Plus

LEMMA EntitlementsInit == Init => EntitlementsFit
PROOF
  <1> SUFFICES ASSUME Init, NEW k \in Dims PROVE used[k] + reserved[k] <= Limits[k]
    BY DEF EntitlementsFit, Within, Plus
  <1>1. used[k] = 0 /\ reserved[k] = 0
    BY DEF Init, Nothing
  <1>2. Limits[k] \in Nat
    BY LimitsAssumption DEF Normalized, Amounts
  <1> QED  BY <1>1, <1>2, SMT

LEMMA EntitlementsNext == TypeOK /\ EntitlementsFit /\ [Next]_vars => EntitlementsFit'
PROOF
  <1> SUFFICES ASSUME TypeOK, EntitlementsFit, [Next]_vars PROVE EntitlementsFit'
    OBVIOUS
  <1>1. used \in Amounts /\ reserved \in [Dims -> Int]
    BY DEF TypeOK
  <1>2. ASSUME UNCHANGED <<used, reserved>>, violation' = violation \/ violation # "settle"
        PROVE  EntitlementsFit'
    BY <1>2 DEF EntitlementsFit
  <1>3. ASSUME NEW c \in Calls, NEW u \in Usages, Reserve(c, u) PROVE EntitlementsFit'
    <2>1. CASE ~Stopped /\ Fits(u) /\ reserved' = Plus(reserved, u) /\ UNCHANGED used
      <3>1. u \in Amounts
        BY UsageType
      <3>2. Plus(used', reserved') = Plus(Plus(used, reserved), u)
        BY <2>1, <3>1, <1>1, PlusSwap
      <3> QED  BY <2>1, <3>2 DEF EntitlementsFit, Fits
    <2>2. CASE UNCHANGED <<used, reserved>>
      BY <1>2, <1>3, <2>2, Zenon DEF Reserve, Stopped, meter
    <2> QED  BY <1>3, <2>1, <2>2 DEF Reserve, meter
  <1>4. ASSUME NEW c \in Calls, NEW u \in Usages, Settle(c, u) PROVE EntitlementsFit'
    <2>1. CASE sealed /\ UNCHANGED meter
      BY <1>2, <2>1 DEF meter
    <2>2. CASE Settled(c, u)
      <3>1. reservations[c] \in Amounts
        BY <1>4 DEF TypeOK, Settle
      <3>2. u \in Amounts
        BY UsageType
      <3>3. CASE Within(u, reservations[c]) /\ violation # "settle"
        <4>1. Within(Plus(used, reserved), Limits)
          BY <3>3 DEF EntitlementsFit
        <4>2. Within(Plus(Plus(used, u), Minus(reserved, reservations[c])), Limits)
          BY <1>1, <3>1, <3>2, <3>3, <4>1, SettledWithinReservation
        <4> QED  BY <2>2, <4>2 DEF EntitlementsFit, Settled
      <3>4. CASE ~(Within(u, reservations[c]) /\ violation # "settle")
        BY <2>2, <3>4 DEF EntitlementsFit, Settled
      <3> QED  BY <3>3, <3>4
    <2> QED  BY <1>4, <2>1, <2>2 DEF Settle
  <1>5. ASSUME NEW c \in Calls, NEW u \in Usages, NEW complete \in BOOLEAN,
               Charge(c, u, complete)
        PROVE EntitlementsFit'
    <2>1. CASE Fits(u) /\ used' = Plus(used, u) /\ UNCHANGED reserved
      <3>1. u \in Amounts
        BY UsageType
      <3>2. Plus(used', reserved') = Plus(Plus(used, reserved), u)
        BY <2>1, <3>1, <1>1, PlusSwap
      <3> QED  BY <2>1, <3>2 DEF EntitlementsFit, Fits
    <2>2. CASE UNCHANGED <<used, reserved>>
      BY <1>2, <1>5, <2>2, Zenon DEF Charge, Stopped, meter
    <2> QED  BY <1>5, <2>1, <2>2 DEF Charge, meter
  <1>6. ASSUME Return \/ Raise \/ Evaluate \/ Report \/ UNCHANGED vars
        PROVE  EntitlementsFit'
    <2>1. UNCHANGED <<used, reserved, violation>>
      BY <1>6 DEF Return, Raise, Evaluate, Report, vars, meter
    <2> QED  BY <2>1, <1>2
  <1> QED  BY <1>3, <1>4, <1>5, <1>6 DEF Next

\* What is used and what is promised fit the limits together until a provider
\* overruns its reservation, however the calls of parallel branches interleave.
THEOREM EntitlementsHold == Spec => []EntitlementsFit
PROOF BY EntitlementsInit, EntitlementsNext, MeterTypeCorrect, PTL DEF Spec

-----------------------------------------------------------------------------
(* Sums over calls *)

LEMMA SumSame ==
    ASSUME NEW S, NEW a, NEW b, NEW k, \A c \in S : a[c] = b[c]
    PROVE  Sum(a, S, k) = Sum(b, S, k)
PROOF
  <1> DEFINE f == [c \in S |-> a[c][k]]
             g == [c \in S |-> b[c][k]]
  <1>1. \A c \in S : f[c] = g[c]
    OBVIOUS
  <1> HIDE DEF f, g
  <1>2. Total(f, S) = Total(g, S)
    BY <1>1, TotalSame
  <1> QED  BY <1>2 DEF Sum, f, g

LEMMA SumEmpty ==
    ASSUME NEW a, NEW k
    PROVE  Sum(a, {}, k) = 0
PROOF BY TotalEmpty DEF Sum

LEMMA SumInsert ==
    ASSUME NEW S, IsFiniteSet(S), NEW x, x \notin S, NEW a, NEW k \in Dims,
           a[x] \in Amounts, \A c \in S : a[c] \in Amounts
    PROVE  Sum(a, S \cup {x}, k) = Sum(a, S, k) + a[x][k]
PROOF
  <1> DEFINE T == S \cup {x}
             f == [c \in T |-> a[c][k]]
             g == [c \in S |-> a[c][k]]
  <1>1. \A c \in T : f[c] \in Nat
    BY DEF Amounts
  <1>2. \A c \in S : f[c] = g[c]
    OBVIOUS
  <1>3. f[x] = a[x][k]
    OBVIOUS
  <1> HIDE DEF f, g
  <1>4. Total(f, T) = Total(f, S) + f[x]
    BY <1>1, TotalInsert
  <1>5. Total(f, S) = Total(g, S)
    BY <1>2, TotalSame
  <1> QED  BY <1>3, <1>4, <1>5 DEF Sum, f, g

LEMMA SumType ==
    ASSUME NEW S, IsFiniteSet(S), NEW a, NEW k \in Dims, \A c \in S : a[c] \in Amounts
    PROVE  Sum(a, S, k) \in Nat
PROOF
  <1> DEFINE g == [c \in S |-> a[c][k]]
  <1>1. \A c \in S : g[c] \in Nat
    BY DEF Amounts
  <1> HIDE DEF g
  <1>2. Total(g, S) \in Nat
    BY <1>1, TotalType
  <1> QED  BY <1>2 DEF Sum, g

LEMMA SumRemove ==
    ASSUME NEW S, IsFiniteSet(S), NEW x \in S, NEW a, NEW k \in Dims,
           \A c \in S : a[c] \in Amounts
    PROVE  Sum(a, S \ {x}, k) = Sum(a, S, k) - a[x][k]
PROOF
  <1> DEFINE R == S \ {x}
             f == [c \in S |-> a[c][k]]
             g == [c \in R |-> a[c][k]]
  <1>1. \A c \in S : f[c] \in Nat
    BY DEF Amounts
  <1>2. \A c \in R : f[c] = g[c]
    OBVIOUS
  <1>3. f[x] = a[x][k]
    OBVIOUS
  <1> HIDE DEF f, g
  <1>4. Total(f, R) = Total(f, S) - f[x]
    BY <1>1, TotalRemove
  <1>5. Total(f, R) = Total(g, R)
    BY <1>2, TotalSame
  <1> QED  BY <1>3, <1>4, <1>5 DEF Sum, f, g

-----------------------------------------------------------------------------
(* The books *)

LEMMA FiniteBooks ==
    ASSUME TypeOK
    PROVE  /\ IsFiniteSet(Open) /\ \A c \in Open : reservations[c] \in Amounts
           /\ IsFiniteSet(Entered) /\ \A c \in Entered : spent[c] \in Amounts
PROOF
  <1>1. Open \in SUBSET Calls /\ Entered \in SUBSET Calls
    BY DEF Open, Entered
  <1>2. IsFiniteSet(Open) /\ IsFiniteSet(Entered)
    BY <1>1, FS_Subset, CallsAssumption
  <1> QED  BY <1>2 DEF Open, Entered, TypeOK

\* One more call is entered; what the others were charged does not change.
LEMMA EnteredGrows ==
    ASSUME TypeOK, TypeOK', BooksBalance, NEW c \in Calls, NEW u \in Amounts,
           call[c] # "settled", Becomes(c, "settled"),
           spent' = [spent EXCEPT ![c] = u], used' = Plus(used, u)
    PROVE  \A k \in Dims : used'[k] = Sum(spent', Entered', k)
PROOF
  <1> TAKE k \in Dims
  <1>1. Entered' = Entered \cup {c} /\ c \notin Entered
    BY DEF Entered, Becomes, TypeOK
  <1> DEFINE after == spent'
  <1>2. after[c] = u
    BY DEF TypeOK
  <1>3. \A e \in Entered : after[e] = spent[e]
    BY <1>1 DEF TypeOK, Entered
  <1>4. after[c] \in Amounts /\ \A e \in Entered : after[e] \in Amounts
    BY DEF TypeOK, Entered
  <1>5. IsFiniteSet(Entered)
    BY FiniteBooks
  <1>6. used'[k] = used[k] + u[k]
    BY DEF Plus
  <1> HIDE DEF after
  <1>7. Sum(after, Entered, k) = Sum(spent, Entered, k)
    BY <1>3, SumSame
  <1>8. Sum(after, Entered \cup {c}, k) = Sum(after, Entered, k) + after[c][k]
    BY <1>1, <1>4, <1>5, SumInsert
  <1> QED  BY <1>1, <1>2, <1>6, <1>7, <1>8 DEF BooksBalance, after

\* A call that is not entered, and is not entered by the step, changes no sum.
LEMMA EnteredStays ==
    ASSUME TypeOK, BooksBalance, NEW c \in Calls, NEW u, NEW state,
           call[c] # "settled", state # "settled", Becomes(c, state),
           spent' = [spent EXCEPT ![c] = u] \/ UNCHANGED spent, UNCHANGED used
    PROVE  \A k \in Dims : used'[k] = Sum(spent', Entered', k)
PROOF
  <1> TAKE k \in Dims
  <1>1. Entered' = Entered /\ c \notin Entered
    BY DEF Entered, Becomes, TypeOK
  <1>2. \A e \in Entered : spent'[e] = spent[e]
    BY <1>1 DEF TypeOK, Entered
  <1>3. Sum(spent', Entered, k) = Sum(spent, Entered, k)
    BY <1>2, SumSame
  <1> QED  BY <1>1, <1>3 DEF BooksBalance

LEMMA ReservedStays ==
    ASSUME BooksBalance, UNCHANGED <<reserved, reservations>>
    PROVE  \A k \in Dims : reserved'[k] = Sum(reservations', Open', k)
PROOF BY DEF BooksBalance, Open, Sum

LEMMA BooksReserve ==
    ASSUME TypeOK, TypeOK', BooksBalance, NEW c \in Calls, NEW u \in Usages, Reserve(c, u)
    PROVE  BooksBalance'
PROOF
  <1>1. \E state \in {"open", "refused"} : Becomes(c, state)
    BY DEF Reserve
  <1>2. \A k \in Dims : used'[k] = Sum(spent', Entered', k)
    <2>1. PICK state \in {"open", "refused"} : Becomes(c, state)
      BY <1>1
    <2>2. UNCHANGED <<used, spent>> /\ call[c] # "settled"
      BY DEF Reserve, meter
    <2> QED  BY <2>1, <2>2, EnteredStays, Zenon
  <1>3. CASE UNCHANGED <<reserved, reservations>>
    BY <1>2, <1>3, ReservedStays DEF BooksBalance
  <1>4. CASE reserved' = Plus(reserved, u) /\ reservations' = [reservations EXCEPT ![c] = u]
    <2>1. u \in Amounts /\ u # None
      BY UsageType, CallsAssumption
    <2>2. reservations[c] = None
      BY DEF Reserve, TypeOK
    <2>3. Open' = Open \cup {c} /\ c \notin Open
      BY <1>4, <2>1, <2>2 DEF Open, TypeOK
    <2> DEFINE after == reservations'
    <2>4. after[c] = u /\ \A e \in Open : after[e] = reservations[e]
      BY <1>4, <2>3 DEF Open, TypeOK
    <2>5. IsFiniteSet(Open) /\ after[c] \in Amounts /\ \A e \in Open : after[e] \in Amounts
      BY <2>1, <2>4, FiniteBooks
    <2>6. ASSUME NEW k \in Dims PROVE reserved'[k] = Sum(after, Open', k)
      <3>1. reserved'[k] = reserved[k] + u[k]
        BY <1>4 DEF Plus
      <3> HIDE DEF after
      <3>2. Sum(after, Open \cup {c}, k) = Sum(after, Open, k) + after[c][k]
        BY <2>3, <2>5, SumInsert
      <3>3. Sum(after, Open, k) = Sum(reservations, Open, k)
        BY <2>4, SumSame
      <3> QED  BY <2>3, <2>4, <3>1, <3>2, <3>3 DEF BooksBalance
    <2> QED  BY <1>2, <2>6 DEF BooksBalance
  <1> QED  BY <1>3, <1>4 DEF Reserve, meter

LEMMA BooksSettle ==
    ASSUME TypeOK, TypeOK', BooksBalance, NEW c \in Calls, NEW u \in Usages, Settle(c, u)
    PROVE  BooksBalance'
PROOF
  <1>1. u \in Amounts /\ call[c] # "settled" /\ spent' = [spent EXCEPT ![c] = u]
    BY UsageType DEF Settle
  <1>2. CASE Becomes(c, "late") /\ UNCHANGED meter
    <2>1. \A k \in Dims : used'[k] = Sum(spent', Entered', k)
      BY <1>1, <1>2, EnteredStays DEF meter
    <2>2. \A k \in Dims : reserved'[k] = Sum(reservations', Open', k)
      BY <1>2, ReservedStays DEF meter
    <2> QED  BY <2>1, <2>2 DEF BooksBalance
  <1>3. CASE Settled(c, u) /\ Becomes(c, "settled")
    <2>1. \A k \in Dims : used'[k] = Sum(spent', Entered', k)
      BY <1>1, <1>3, EnteredGrows DEF Settled
    <2>2. reservations[c] \in Amounts /\ c \in Open
      BY CallsAssumption DEF Settle, TypeOK, Open
    <2>3. Open' = Open \ {c}
      BY <1>3 DEF Settled, Open, TypeOK
    <2>4. \A e \in Open' : reservations'[e] = reservations[e]
      BY <1>3, <2>3 DEF Settled, Open, TypeOK
    <2>5. ASSUME NEW k \in Dims PROVE reserved'[k] = Sum(reservations', Open', k)
      <3>1. Sum(reservations', Open', k) = Sum(reservations, Open', k)
        BY <2>4, SumSame
      <3>2. Sum(reservations, Open \ {c}, k) = Sum(reservations, Open, k) - reservations[c][k]
        BY <2>2, FiniteBooks, SumRemove
      <3>3. reserved'[k] = reserved[k] - reservations[c][k]
        BY <1>3 DEF Settled, Minus
      <3> QED  BY <2>3, <3>1, <3>2, <3>3 DEF BooksBalance
    <2> QED  BY <2>1, <2>5 DEF BooksBalance
  <1> QED  BY <1>2, <1>3 DEF Settle

LEMMA BooksCharge ==
    ASSUME TypeOK, TypeOK', BooksBalance, NEW c \in Calls, NEW u \in Usages,
           NEW complete \in BOOLEAN, Charge(c, u, complete)
    PROVE  BooksBalance'
PROOF
  <1>1. u \in Amounts /\ call[c] # "settled" /\ spent' = [spent EXCEPT ![c] = u]
    BY UsageType DEF Charge
  <1>2. UNCHANGED <<reserved, reservations>>
    BY DEF Charge, meter
  <1>3. \A k \in Dims : reserved'[k] = Sum(reservations', Open', k)
    BY <1>2, ReservedStays
  <1>4. CASE used' = Plus(used, u) /\ Becomes(c, "settled")
    BY <1>1, <1>3, <1>4, EnteredGrows DEF BooksBalance
  <1>5. CASE UNCHANGED used /\ Becomes(c, "refused")
    BY <1>1, <1>3, <1>5, EnteredStays DEF BooksBalance
  <1>6. CASE UNCHANGED used /\ Becomes(c, "unrecorded")
    BY <1>1, <1>3, <1>6, EnteredStays DEF BooksBalance
  <1> QED  BY <1>4, <1>5, <1>6 DEF Charge, meter

LEMMA BooksNext == TypeOK /\ TypeOK' /\ BooksBalance /\ [Next]_vars => BooksBalance'
PROOF
  <1> SUFFICES ASSUME TypeOK, TypeOK', BooksBalance, [Next]_vars PROVE BooksBalance'
    OBVIOUS
  <1>1. CASE Return \/ Raise \/ Evaluate \/ Report \/ UNCHANGED vars
    <2>1. UNCHANGED <<used, reserved, reservations, call, spent>>
      BY <1>1 DEF Return, Raise, Evaluate, Report, vars, meter
    <2> QED  BY <2>1 DEF BooksBalance, Open, Entered, Sum
  <1> QED  BY <1>1, BooksReserve, BooksSettle, BooksCharge DEF Next

LEMMA BooksInit == Init => BooksBalance
PROOF
  <1> SUFFICES ASSUME Init PROVE BooksBalance
    OBVIOUS
  <1>1. Open = {} /\ Entered = {}
    BY DEF Init, Open, Entered
  <1>2. \A k \in Dims : used[k] = 0 /\ reserved[k] = 0
    BY DEF Init, Nothing
  <1> QED  BY <1>1, <1>2, SumEmpty DEF BooksBalance

\* reserved is what the open reservations promise, and used is what providers
\* took for the calls entered, after any sequence of calls of any threads.
THEOREM BooksAlwaysBalance == Spec => []BooksBalance
PROOF BY BooksInit, BooksNext, MeterTypeCorrect, PTL DEF Spec

-----------------------------------------------------------------------------
(* Closing a trial *)

\* The meter is reported once the trial has ended.
ReportedLast == report # None => status \in Failed \cup {"completed"}

LEMMA NothingPromised ==
    ASSUME TypeOK, EntitlementsFit, BooksBalance, violation = "none",
           \A c \in Calls : reservations[c] = None
    PROVE  Within(used, Limits)
PROOF
  <1> SUFFICES ASSUME NEW k \in Dims PROVE used[k] <= Limits[k]
    BY DEF Within
  <1>1. Open = {}
    BY DEF Open
  <1>2. reserved[k] = 0
    BY <1>1, SumEmpty DEF BooksBalance
  <1>3. used[k] + reserved[k] <= Limits[k]
    BY DEF EntitlementsFit, Within, Plus
  <1>4. used[k] \in Nat
    BY DEF TypeOK, Amounts
  <1> QED  BY <1>2, <1>3, <1>4, SMT

LEMMA AccountedNext ==
    TypeOK /\ EntitlementsFit /\ BooksBalance /\ ReportedLast /\ CompletedIsAccounted
      /\ [Next]_vars
    => ReportedLast' /\ CompletedIsAccounted'
PROOF
  <1> SUFFICES ASSUME TypeOK, EntitlementsFit, BooksBalance, ReportedLast,
                      CompletedIsAccounted, [Next]_vars
               PROVE  ReportedLast' /\ CompletedIsAccounted'
    OBVIOUS
  <1> DEFINE InOrder == status \in {"closed", "completed"}
  \* A sealed meter takes nothing from the calls that go on.
  <1>1. ASSUME NEW c \in Calls, NEW state \in {"refused", "late", "unrecorded"},
               UNCHANGED <<meter, status, report>>, Becomes(c, state),
               InOrder => state # "late"
        PROVE  ReportedLast' /\ CompletedIsAccounted'
    BY <1>1 DEF ReportedLast, CompletedIsAccounted, TypeOK, Becomes, meter, Within
  <1>2. ASSUME ~InOrder, UNCHANGED <<status, report>>
        PROVE  ReportedLast' /\ CompletedIsAccounted'
    BY <1>2 DEF ReportedLast, CompletedIsAccounted
  <1>3. InOrder => Stopped /\ sealed /\ \A c \in Calls : call[c] \notin {"open", "late"}
    BY DEF CompletedIsAccounted, Stopped
  <1>4. ASSUME NEW c \in Calls, NEW u \in Usages, Reserve(c, u)
        PROVE  ReportedLast' /\ CompletedIsAccounted'
    <2>1. CASE InOrder
      BY <1>1, <1>3, <1>4, <2>1 DEF Reserve
    <2>2. CASE ~InOrder
      BY <1>2, <1>4, <2>2 DEF Reserve
    <2> QED  BY <2>1, <2>2
  <1>5. ASSUME NEW c \in Calls, NEW u \in Usages, Settle(c, u)
        PROVE  ReportedLast' /\ CompletedIsAccounted'
    BY <1>2, <1>3, <1>5 DEF Settle
  <1>6. ASSUME NEW c \in Calls, NEW u \in Usages, NEW complete \in BOOLEAN,
               Charge(c, u, complete)
        PROVE  ReportedLast' /\ CompletedIsAccounted'
    <2>1. CASE InOrder
      BY <1>1, <1>3, <1>6, <2>1 DEF Charge
    <2>2. CASE ~InOrder
      BY <1>2, <1>6, <2>2 DEF Charge
    <2> QED  BY <2>1, <2>2
  <1>7. CASE Return
    <2>1. report = None
      BY <1>7 DEF Return, ReportedLast, Failed
    <2>2. CASE violation = "none" /\ \A c \in Calls : reservations[c] = None
      <3>1. Within(used, Limits)
        BY <2>2, NothingPromised
      <3>2. \A c \in Calls : call[c] \notin {"open", "late"}
        BY <2>2 DEF TypeOK
      <3> QED  BY <1>7, <2>1, <2>2, <3>1, <3>2
               DEF Return, ReportedLast, CompletedIsAccounted, Within
    <2>3. CASE ~(violation = "none" /\ \A c \in Calls : reservations[c] = None)
      BY <1>7, <2>1, <2>3 DEF Return, ReportedLast, CompletedIsAccounted
    <2> QED  BY <2>2, <2>3
  <1>8. CASE Raise
    BY <1>8 DEF Raise, ReportedLast, CompletedIsAccounted, Failed
  <1>9. CASE Evaluate
    <2>1. report = None
      BY <1>9 DEF Evaluate, ReportedLast, Failed
    <2> QED  BY <1>9, <2>1 DEF Evaluate, ReportedLast, CompletedIsAccounted, meter, Within
  <1>10. CASE Report
    BY <1>10 DEF Report, ReportedLast, CompletedIsAccounted, meter, Within
  <1>11. CASE UNCHANGED vars
    BY <1>11 DEF vars, meter, ReportedLast, CompletedIsAccounted, Within
  <1> QED  BY <1>4, <1>5, <1>6, <1>7, <1>8, <1>9, <1>10, <1>11 DEF Next

LEMMA AccountedInit == Init => ReportedLast /\ CompletedIsAccounted
PROOF BY DEF Init, ReportedLast, CompletedIsAccounted

\* A trial closed in order has settled every reservation, is within its limits,
\* and neither that nor what was reported of it is changed by anything its
\* strategy still does.
THEOREM CompletedAccounted == Spec => []CompletedIsAccounted
PROOF BY AccountedInit, AccountedNext, MeterTypeCorrect, EntitlementsHold,
         BooksAlwaysBalance, PTL DEF Spec
===============================================================================
