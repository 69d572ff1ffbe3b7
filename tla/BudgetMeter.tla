------------------------------ MODULE BudgetMeter ------------------------------
(***************************************************************************)
(* One trial of MatchedBudgetHarness.run: a strategy that makes provider   *)
(* calls from several threads through its BudgetMeter, and the harness     *)
(* that closes the trial, evaluates it and reports it.                     *)
(*                                                                         *)
(* Every method of the meter runs under its lock and is one step.  Threads *)
(* of the strategy go on after solve has returned or raised: nothing joins *)
(* them.  Either way of paying for a call is modelled: reserve, call the   *)
(* provider, settle; or call the provider and charge.                      *)
(***************************************************************************)
EXTENDS Integers, FiniteSets, Totals

CONSTANTS
    Calls,           \* provider calls the strategy may make, each once
    Dims,            \* budgeted dimensions: model_calls, input_tokens, ...
    Limits,          \* BudgetLimits
    Usages,          \* Usage values callers and providers may state
    None

Amounts == [Dims -> Nat]

\* Neither a budget nor a usage may be nothing at all.
Normalized == {u \in Amounts : \E k \in Dims : u[k] > 0}

ASSUME LimitsAssumption == Limits \in Normalized
ASSUME UsagesAssumption == Usages \subseteq Normalized
ASSUME CallsAssumption == IsFiniteSet(Calls) /\ None \notin Amounts

VARIABLES
    used, reserved, reservations, violation, sealed,    \* the meter
    call,            \* how far each call is
    spent,           \* history: what the provider took for each call
    status,          \* of the trial
    report           \* the meter's report in the trial's record

meter == <<used, reserved, reservations, violation, sealed>>
vars == <<meter, call, spent, status, report>>

Nothing == [k \in Dims |-> 0]
CallState == {"new", "open", "settled", "refused", "late", "unrecorded"}
Failed == {"budget_exceeded", "invalid_trial", "strategy_error", "evaluator_error"}

Init ==
    /\ used = Nothing
    /\ reserved = Nothing
    /\ reservations = [c \in Calls |-> None]
    /\ violation = "none"
    /\ sealed = FALSE
    /\ call = [c \in Calls |-> "new"]
    /\ spent = [c \in Calls |-> Nothing]
    /\ status = "solving"
    /\ report = None

-----------------------------------------------------------------------------
(* Threads of the strategy *)

Plus(a, b) == [k \in Dims |-> a[k] + b[k]]
Minus(a, b) == [k \in Dims |-> a[k] - b[k]]
Within(a, b) == \A k \in Dims : a[k] <= b[k]

\* No further work after the trial is closed or the budget violated.
Stopped == sealed \/ violation # "none"

\* Mutation: what other calls have reserved is not counted.
FitsAlone(u) == Within(Plus(used, u), Limits)

Fits(u) == Within(Plus(Plus(used, reserved), u), Limits)

Becomes(c, state) == call' = [call EXCEPT ![c] = state]

\* Asking for more than is left is itself the violation; a refused caller does
\* not call the provider.
Reserve(c, maximum) ==
    /\ call[c] = "new"
    /\ \/ Stopped /\ Becomes(c, "refused") /\ UNCHANGED meter
       \/ /\ ~Stopped /\ ~Fits(maximum)
          /\ violation' = "reserve"
          /\ Becomes(c, "refused")
          /\ UNCHANGED <<used, reserved, reservations, sealed>>
       \/ /\ ~Stopped /\ Fits(maximum)
          /\ reservations' = [reservations EXCEPT ![c] = maximum]
          /\ reserved' = Plus(reserved, maximum)
          /\ Becomes(c, "open")
          /\ UNCHANGED <<used, violation, sealed>>
    /\ UNCHANGED <<spent, status, report>>

\* Mutation: usage beyond the reservation is an error and nothing more.
SettledWithinOnly(c, actual) ==
    /\ reservations' = [reservations EXCEPT ![c] = None]
    /\ reserved' = Minus(reserved, reservations[c])
    /\ used' = IF Within(actual, reservations[c]) THEN Plus(used, actual) ELSE used
    /\ violation' = IF Within(actual, reservations[c]) THEN violation ELSE "settle"

\* An overrun is entered in full, and is a violation.
Settled(c, actual) ==
    /\ reservations' = [reservations EXCEPT ![c] = None]
    /\ reserved' = Minus(reserved, reservations[c])
    /\ used' = Plus(used, actual)
    /\ violation' = IF Within(actual, reservations[c]) THEN violation ELSE "settle"

\* An open reservation can be settled after a violation, but not after the
\* trial was closed.  A usage that is not complete is refused and the
\* reservation stays open: no step.
Settle(c, actual) ==
    /\ call[c] = "open"
    /\ spent' = [spent EXCEPT ![c] = actual]
    /\ \/ sealed /\ Becomes(c, "late") /\ UNCHANGED meter
       \/ ~sealed /\ Settled(c, actual) /\ Becomes(c, "settled") /\ UNCHANGED sealed
    /\ UNCHANGED <<status, report>>

\* charge is reserve and settle in one step, after the call; a usage that is
\* not complete is refused before anything is entered.
Charge(c, usage, complete) ==
    /\ call[c] = "new"
    /\ spent' = [spent EXCEPT ![c] = usage]
    /\ \/ Stopped /\ Becomes(c, "refused") /\ UNCHANGED meter
       \/ ~Stopped /\ ~complete /\ Becomes(c, "unrecorded") /\ UNCHANGED meter
       \/ /\ ~Stopped /\ complete /\ ~Fits(usage)
          /\ violation' = "reserve"
          /\ Becomes(c, "refused")
          /\ UNCHANGED <<used, reserved, reservations, sealed>>
       \/ /\ ~Stopped /\ complete /\ Fits(usage)
          /\ used' = Plus(used, usage)
          /\ Becomes(c, "settled")
          /\ UNCHANGED <<reserved, reservations, violation, sealed>>
    /\ UNCHANGED <<status, report>>

-----------------------------------------------------------------------------
(* The harness *)

\* Mutation: assert_settled looks without sealing.
ReturnUnsealed ==
    /\ status = "solving"
    /\ status' = IF violation # "none" THEN "budget_exceeded"
                 ELSE IF \E c \in Calls : reservations[c] # None THEN "invalid_trial"
                 ELSE "closed"
    /\ UNCHANGED <<meter, call, spent, report>>

\* solve returns; assert_settled seals the meter and looks for a violation, and
\* for reservations still open.
Return ==
    /\ status = "solving"
    /\ sealed' = TRUE
    /\ status' = IF violation # "none" THEN "budget_exceeded"
                 ELSE IF \E c \in Calls : reservations[c] # None THEN "invalid_trial"
                 ELSE "closed"
    /\ UNCHANGED <<used, reserved, reservations, violation, call, spent, report>>

\* solve raises, an error of the meter or of its own.
Raise ==
    /\ status = "solving"
    /\ \/ violation # "none" /\ status' = "budget_exceeded"
       \/ status' \in {"invalid_trial", "strategy_error"}
    /\ UNCHANGED <<meter, call, spent, report>>

\* The output is too large or not JSON, or is evaluated.
Evaluate ==
    /\ status = "closed"
    /\ status' \in {"completed", "invalid_trial", "strategy_error", "evaluator_error"}
    /\ UNCHANGED <<meter, call, spent, report>>

Report ==
    /\ status \in Failed \cup {"completed"}
    /\ report = None
    /\ report' = [used |-> used, violation |-> violation, sealed |-> sealed]
    /\ UNCHANGED <<meter, call, spent, status>>

Next ==
    \/ \E c \in Calls, u \in Usages : Reserve(c, u)
    \/ \E c \in Calls, u \in Usages : Settle(c, u)
    \/ \E c \in Calls, u \in Usages, complete \in BOOLEAN : Charge(c, u, complete)
    \/ Return
    \/ Raise
    \/ Evaluate
    \/ Report

Spec == Init /\ [][Next]_vars

-----------------------------------------------------------------------------
(* Properties *)

TypeOK ==
    /\ used \in Amounts
    /\ reserved \in [Dims -> Int]
    /\ reservations \in [Calls -> Amounts \cup {None}]
    /\ \A c \in Calls : reservations[c] # None <=> call[c] \in {"open", "late"}
    /\ violation \in {"none", "reserve", "settle"}
    /\ sealed \in BOOLEAN
    /\ call \in [Calls -> CallState]
    /\ spent \in [Calls -> Amounts]
    /\ status \in Failed \cup {"solving", "closed", "completed"}
    /\ report \in [used : Amounts, violation : {"none", "reserve", "settle"},
                   sealed : BOOLEAN] \cup {None}

\* However reservations, settlements and charges of parallel calls interleave,
\* what is used and what is promised fit the limits together, until a provider
\* takes more than was reserved for it.
EntitlementsFit == violation # "settle" => Within(Plus(used, reserved), Limits)

Sum(amounts, S, k) == Total([c \in S |-> amounts[c][k]], S)

Open == {c \in Calls : reservations[c] # None}
Entered == {c \in Calls : call[c] = "settled"}

\* The books agree with the calls: reserved is the sum of the reservations not
\* settled yet, and used of what providers took for settled calls, overruns and
\* settlements after a violation included.
BooksBalance ==
    \A k \in Dims :
        reserved[k] = Sum(reservations, Open, k) /\ used[k] = Sum(spent, Entered, k)

\* A trial that is closed in order stays in order: each of its reservations was
\* settled within its maximum, what it used fits the limits, and no thread of
\* the strategy that still runs during evaluation or after the report can change
\* that, or what was reported.
CompletedIsAccounted ==
    status \in {"closed", "completed"} =>
        /\ sealed /\ violation = "none"
        /\ \A c \in Calls : call[c] \notin {"open", "late"}
        /\ Within(used, Limits)
        /\ report # None => report.used = used
=============================================================================
