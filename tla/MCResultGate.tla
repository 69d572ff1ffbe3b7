---------------------------- MODULE MCResultGate ----------------------------
(***************************************************************************)
(* Accept specs of up to two clauses over two paths, and values of several *)
(* types, some of them too large to be kept inline.                        *)
(***************************************************************************)
EXTENDS ResultGate, TLC

Json(json, text, n, parts, large) ==
    [json |-> json, text |-> text, n |-> n, parts |-> parts, large |-> large]

NullValue == Json("null", "null", 0, {}, FALSE)
One == Json("integer", "1", 1, {}, FALSE)
Half == Json("number", "0.5", 0, {}, FALSE)
Name == Json("string", "number", 0, {"number", "num"}, FALSE)
Part == Json("string", "num", 0, {"num"}, FALSE)
Items == Json("array", "[1]", 0, {"1"}, TRUE)
Errors == Json("array", "[error]", 0, {}, FALSE)
ManyErrors == Json("array", "[errors]", 0, {}, TRUE)
Schema == Json("string", "manifest output_schema", 0, {}, FALSE)
MCValues == {NullValue, One, Half, Name, Part, Items, Errors, ManyErrors, Schema}
MCSchemaErrors == {Errors, ManyErrors}

Clause(id, path, operator, critical, expected) ==
    [id |-> id, path |-> path, operator |-> operator, critical |-> critical, expected |-> expected]

MCClauses == {Clause("a", "/x", "exists", FALSE, Absent), Clause("a", "/y", "equals", TRUE, One),
              Clause("b", "/x", "type", TRUE, Name), Clause("b", "/y", "minimum", FALSE, One),
              Clause("b", "/x", "contains", FALSE, Part), Clause("c", "/x", "contains", TRUE, One),
              Clause("c", "/y", "maximum", FALSE, Half), Clause("c", "/x", "exists", TRUE, Items),
              Clause("c", "/y", "equals", FALSE, Absent), Clause("protocol:output-schema", "/x", "exists", TRUE, Absent)}

SpecsOf(clauses, minimums, length) ==
    [minimum : minimums, clauses : UNION {[1 .. k -> clauses] : k \in 0 .. length}]

GateSpecs == SpecsOf(MCClauses, {0, 50, 100}, 2)
AuditSpecs == SpecsOf({Clause("a", "/x", "exists", FALSE, Absent), Clause("b", "/y", "equals", TRUE, One),
                       Clause("c", "/y", "exists", FALSE, Absent)}, {50, 100}, 2)
MCSpecs == GateSpecs \cup AuditSpecs
MCExposed == [spec : AuditSpecs, outputs : {("/x" :> x) @@ ("/y" :> y) : x \in {Items, Missing}, y \in {One, Missing}}]
=============================================================================
