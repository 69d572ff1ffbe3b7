--------------------------- MODULE MCSoloExecution ---------------------------
(***************************************************************************)
(* Small instances of SoloExecution for TLC: limits that bind in calls, in *)
(* tokens, in money or per call, and answers that use none, some or too    *)
(* much.                                                                   *)
(***************************************************************************)
EXTENDS SoloExecution, TLC

CONSTANTS a, b, c

Limit(calls, output, other, cap) ==
    [calls |-> calls, output |-> output, other |-> other, per_call |-> cap]
Usage(output, other) == [output |-> output, other |-> other]

ListedTasks == <<a, b, c>>

Relations == [{a, b, c} -> SUBSET {a, b, c}]
Diamond == (a :> {b, c}) @@ (b :> {c}) @@ (c :> {})
Apart == [t \in {a, b, c} |-> {}]

\* Every relation with room enough, and two of them under limits that bind.
Ample == Limit(4, 4, 4, 2)
Tight == {Limit(3, 4, 2, 2), Limit(4, 4, 2, 2), Limit(4, 2, 3, 3), Limit(5, 0, 1, 1)}

MCRequests == [deps : Relations, limits : {Ample}] \cup [deps : {Diamond, Apart}, limits : Tight]
MCUsages == {Usage(0, 0), Usage(1, 1), Usage(2, 0), Usage(3, 1)}
=============================================================================
