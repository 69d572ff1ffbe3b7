----------------------------- MODULE FundedOrders -----------------------------
(***************************************************************************)
(* What the coordinator promises about money, without tasks, leases or     *)
(* time: each problem is an order that is funded once, is drawn on while   *)
(* it is active and never beyond what is held for it, and is closed once,  *)
(* in one step that returns whatever is still held.                        *)
(***************************************************************************)
EXTENDS Integers

CONSTANTS Problems

VARIABLE order    \* for each problem: its status, and where its funding is

Closed == {"completed", "blocked", "cancelled", "expired"}

Account == [status : {"none", "active"} \cup Closed,
            held : Nat, paid : Nat, returned : Nat]

Unfunded == [status |-> "none", held |-> 0, paid |-> 0, returned |-> 0]

OrderInit == order = [p \in Problems |-> Unfunded]

Fund(old, new) ==
    /\ old = Unfunded
    /\ new.held > 0
    /\ new = [Unfunded EXCEPT !.status = "active", !.held = new.held]

\* A reward is paid out of what is held.
Pay(old, new) ==
    /\ old.status = "active"
    /\ new.held \in 0 .. old.held - 1
    /\ new = [old EXCEPT !.held = new.held, !.paid = old.paid + (old.held - new.held)]

\* The order ends; the last payment may be part of completing it.
Close(old, new) ==
    /\ old.status = "active"
    /\ new.status \in Closed
    /\ new.paid >= old.paid
    /\ new.paid > old.paid <=> new.status = "completed"
    /\ new.returned = old.held - (new.paid - old.paid)
    /\ new.returned >= 0
    /\ new = [status |-> new.status, held |-> 0, paid |-> new.paid, returned |-> new.returned]

Step(old, new) == old = new \/ Fund(old, new) \/ Pay(old, new) \/ Close(old, new)

\* One expiry may close several orders at once.
OrderNext ==
    /\ order' \in [Problems -> Account]
    /\ \A p \in Problems : Step(order[p], order'[p])

OrderSpec == OrderInit /\ [][OrderNext]_order
=============================================================================
