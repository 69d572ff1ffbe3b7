------------------------------ MODULE ResultGate ------------------------------
(***************************************************************************)
(* The hard gate every payable result passes or fails, validate_accept_    *)
(* spec and evaluate_result, and the trace of its verdict that a solo      *)
(* execution record keeps, shortened by _compact_verification and audited  *)
(* later with the output (inline) or without it (digest only).             *)
(*                                                                         *)
(* A JSON value is its type, its canonical text, its number, what contains *)
(* finds in it (substrings, keys or the texts of items), and whether it is *)
(* too large to be kept inline.  Outputs give the value at each path, or   *)
(* Missing.  A digest is a wrapper around the text.  Rates are in per cent *)
(* or pairs <<passed, all>>.  Seams, disclosures, evaluator names, string  *)
(* lengths and error texts are left out.                                   *)
(*                                                                         *)
(* A definition whose comment starts with "Mutation:" is a plausible bug   *)
(* in the definition after it and no part of the model.                    *)
(***************************************************************************)
EXTENDS Integers, FiniteSets, Sequences, SequencesExt, Sublists

CONSTANTS
    Paths,          \* JSON pointers into the outputs
    Values,         \* values outputs and clauses are made of
    Null,           \* the null among them
    ContractName,   \* the value "manifest output_schema"
    SchemaErrors,   \* non-empty lists of schema errors
    RawSpecs,       \* accept specs clients send
    Reserved,       \* clause ids that begin with protocol:
    SchemaId, CompletionId,     \* those the coordinator uses itself
    Exposed,        \* bound: specs and outputs whose records are rewritten
    Missing, Absent

JsonTypes == {"object", "array", "string", "number", "integer", "boolean", "null"}
Operators == {"exists", "equals", "type", "minimum", "maximum", "contains"}

ASSUME ValuesAssumption ==
    /\ Null \in Values /\ ContractName \in Values /\ SchemaErrors \subseteq Values
    /\ \A v \in Values : v.json \in JsonTypes /\ v.n \in Int /\ v.large \in BOOLEAN
    /\ \A v, w \in Values : (v.text = w.text => v = w) /\ v # [digest |-> w.text]
    /\ Missing \notin Values /\ Absent \notin Values

\* What a client sends has the shape of a spec; ValidSpec is what it must say.
ASSUME RawSpecsAssumption ==
    \A s \in RawSpecs :
        /\ s.clauses \in Seq(Range(s.clauses))
        /\ \A c \in Range(s.clauses) :
              c.path \in Paths /\ c.critical \in BOOLEAN /\ c.expected \in Values \cup {Absent}
ASSUME ReservedAssumption == {SchemaId, CompletionId} \subseteq Reserved /\ SchemaId # CompletionId

Outputs == [Paths -> Values \cup {Missing}]

VARIABLES
    spec,        \* the accept spec of the task
    submitted,   \* what was submitted: outputs, whether completed, schema errors
    verdict,     \* the gate's verdict on it
    record       \* its trace in an execution record

gateVars == <<spec, submitted, verdict, record>>

Numeric(v) == v.json \in {"number", "integer"}

-----------------------------------------------------------------------------
(* Accept specs *)

ExpectedFits(c) ==
    CASE c.operator = "type" -> c.expected # Absent /\ c.expected.text \in JsonTypes
      [] c.operator \in {"minimum", "maximum"} -> c.expected # Absent /\ Numeric(c.expected)
      [] c.operator = "exists" -> TRUE
      [] OTHER -> c.expected # Absent

\* Mutation: clause ids may be used twice.
ValidWithDuplicates(s) ==
    /\ s.minimum \in 0 .. 100
    /\ s.clauses # <<>>
    /\ \A i \in DOMAIN s.clauses : /\ s.clauses[i].id \notin Reserved
                                   /\ s.clauses[i].operator \in Operators
                                   /\ ExpectedFits(s.clauses[i])

\* What validate_accept_spec lets through.
ValidSpec(s) ==
    /\ s.minimum \in 0 .. 100
    /\ s.clauses # <<>>
    /\ \A i \in DOMAIN s.clauses : /\ s.clauses[i].id \notin Reserved
                                   /\ s.clauses[i].operator \in Operators
                                   /\ ExpectedFits(s.clauses[i])
    /\ \A i, j \in DOMAIN s.clauses : s.clauses[i].id = s.clauses[j].id => i = j

-----------------------------------------------------------------------------
(* The gate *)

IsJsonType(v, t) == v.json = t \/ (t = "number" /\ v.json = "integer")

Holds(c, v) ==
    CASE c.operator = "exists" -> TRUE
      [] c.operator = "equals" -> v.text = c.expected.text
      [] c.operator = "type" -> IsJsonType(v, c.expected.text)
      [] c.operator = "minimum" -> Numeric(v) /\ v.n >= c.expected.n
      [] c.operator = "maximum" -> Numeric(v) /\ v.n <= c.expected.n
      [] c.operator = "contains" ->
            /\ c.expected.text \in v.parts
            /\ v.json = "array" \/ (v.json \in {"string", "object"} /\ c.expected.json = "string")

OrNull(v, absent) == IF v = absent THEN Null ELSE v

EvaluateClause(c, outputs) ==
    LET v == outputs[c.path]
    IN [id |-> c.id, path |-> c.path, operator |-> c.operator, critical |-> c.critical,
        passed |-> v # Missing /\ Holds(c, v), expected |-> OrNull(c.expected, Absent),
        observed |-> OrNull(v, Missing), missing |-> v = Missing]

\* Mutation: the coordinator's own checks are clauses like any other.
ProtocolClauseCounted(id, operator, expected, observed) ==
    [id |-> id, path |-> "", operator |-> operator, critical |-> FALSE, passed |-> FALSE,
     expected |-> expected, observed |-> observed, missing |-> FALSE]

\* A check of the coordinator's own is listed when it fails, and is critical.
\* The values of the completion check are left out.
ProtocolClause(id, operator, expected, observed) ==
    [id |-> id, path |-> "", operator |-> operator, critical |-> TRUE, passed |-> FALSE,
     expected |-> expected, observed |-> observed, missing |-> FALSE]

Failed(rows) == Picked(rows, {i \in DOMAIN rows : ~rows[i].passed})
CriticalFailed(rows) == \E i \in DOMAIN rows : rows[i].critical /\ ~rows[i].passed
PassedOf(rows) == Len(rows) - Len(Failed(rows))

Accepted(rows, rate, minimum) == ~CriticalFailed(rows) /\ rate[1] * 100 >= minimum * rate[2]

Verdict(rows, rate, minimum) ==
    LET accepted == Accepted(rows, rate, minimum)
    IN [outcome |-> IF accepted THEN "pass" ELSE "reject", minimum |-> minimum,
        rate |-> rate, clauses |-> rows, trace |-> IF accepted THEN Absent ELSE Failed(rows)]

EvaluateResult(s, result) ==
    LET schema == IF result.errors = Absent THEN <<>>
                  ELSE <<ProtocolClause(SchemaId, "schema", ContractName, result.errors)>>
        completion == IF result.completed THEN <<>>
                      ELSE <<ProtocolClause(CompletionId, "protocol", Null, Null)>>
        rows == schema \o completion
                \o [i \in DOMAIN s.clauses |-> EvaluateClause(s.clauses[i], result.outputs)]
    IN Verdict(rows, <<PassedOf(rows), Len(rows)>>, s.minimum)

-----------------------------------------------------------------------------
(* The trace in the record *)

Digest(v) == [digest |-> v.text]

\* A value is kept where it comes first, if it is not large.
Shortened(v, before) ==
    IF ~v.large /\ \A w \in before : w.text # v.text THEN v ELSE Digest(v)

\* The violations are the shortened rows of the same ids.
TraceOf(v, rows) ==
    [i \in DOMAIN v.trace |->
        rows[Max({k \in DOMAIN rows : rows[k].id = v.trace[i].id /\ ~rows[k].passed})]]

\* Row by row, what is expected before what is observed.
CompactVerification(v) ==
    LET before(i) == UNION {{v.clauses[k].expected, v.clauses[k].observed} : k \in 1 .. i - 1}
        rows == [i \in DOMAIN v.clauses |->
                    [v.clauses[i] EXCEPT
                        !.expected = Shortened(@, before(i)),
                        !.observed = Shortened(@, before(i) \cup {v.clauses[i].expected})]]
    IN [v EXCEPT !.clauses = rows, !.trace = IF @ = Absent THEN Absent ELSE TraceOf(v, rows)]

-----------------------------------------------------------------------------
(* The audit *)

\* Mutation: the outcome is not derived from the clauses.
WellFormedByParts(v) ==
    /\ v.clauses # <<>>
    /\ \A i, j \in DOMAIN v.clauses : v.clauses[i].id = v.clauses[j].id => i = j
    /\ v.rate[1] * Len(v.clauses) = PassedOf(v.clauses) * v.rate[2]
    /\ v.outcome = "pass" => v.trace = Absent /\ ~CriticalFailed(v.clauses)
    /\ v.outcome = "reject" => v.trace # <<>> /\ v.trace = Failed(v.clauses)

\* _normalize_verification
WellFormed(v) ==
    /\ v.clauses # <<>>
    /\ \A i, j \in DOMAIN v.clauses : v.clauses[i].id = v.clauses[j].id => i = j
    /\ v.rate[1] * Len(v.clauses) = PassedOf(v.clauses) * v.rate[2]
    /\ v.outcome = IF Accepted(v.clauses, v.rate, v.minimum) THEN "pass" ELSE "reject"
    /\ v.outcome = "pass" => v.trace = Absent /\ ~CriticalFailed(v.clauses)
    /\ v.outcome = "reject" => v.trace # <<>> /\ v.trace = Failed(v.clauses)

\* With the output at hand the gate is run again.
AuditedInline(v, s, result) ==
    /\ WellFormed(v)
    /\ v = CompactVerification(EvaluateResult(s, [result EXCEPT !.completed = TRUE]))

MatchesValue(v, expected) == v = expected \/ v = Digest(expected)

SchemaClauseFits(row) ==
    /\ row.id = SchemaId /\ row.path = "" /\ row.operator = "schema"
    /\ row.critical /\ ~row.passed /\ ~row.missing
    /\ row.observed \in SchemaErrors \cup {Digest(v) : v \in Values}
    /\ MatchesValue(row.expected, ContractName)

\* Without it, the clauses must be those of the plan.
AuditedDigestOnly(v, s) ==
    LET own == Picked(v.clauses, {i \in DOMAIN v.clauses : v.clauses[i].id \in Reserved})
        declared == SubSeq(v.clauses, Len(own) + 1, Len(v.clauses))
    IN /\ WellFormed(v) /\ v.minimum = s.minimum
       /\ own = <<>> \/ (Len(own) = 1 /\ SchemaClauseFits(v.clauses[1]))
       /\ Len(declared) = Len(s.clauses)
       /\ \A i \in DOMAIN declared :
             LET c == s.clauses[i]
                 row == declared[i]
             IN /\ row.id = c.id /\ row.path = c.path /\ row.operator = c.operator
                /\ row.critical = c.critical
                /\ MatchesValue(row.expected, OrNull(c.expected, Absent))

-----------------------------------------------------------------------------
(* A task's life at the gate *)

GateInit == spec = Absent /\ submitted = Absent /\ verdict = Absent /\ record = Absent

AcceptSpec(raw) ==
    /\ spec = Absent /\ ValidSpec(raw)
    /\ spec' = raw
    /\ UNCHANGED <<submitted, verdict, record>>

SubmitResult(result) ==
    /\ spec # Absent /\ submitted = Absent
    /\ submitted' = result
    /\ verdict' = EvaluateResult(spec, result)
    /\ UNCHANGED <<spec, record>>

\* A solo run evaluates completed calls only.
Record ==
    /\ verdict # Absent /\ record = Absent /\ submitted.completed
    /\ record' = CompactVerification(verdict)
    /\ UNCHANGED <<spec, submitted, verdict>>

\* The author of a record may make its parts fit each other.
Rebuilt(rows, minimum) == Verdict(rows, <<PassedOf(rows), Len(rows)>>, minimum)

Forgeries == {"flags", "critical", "minimum", "drop", "rate", "outcome"}

Forged(v, how) ==
    CASE how = "flags" ->
            {Rebuilt([v.clauses EXCEPT ![i].passed = ~@], v.minimum) : i \in DOMAIN v.clauses}
      [] how = "critical" ->
            {Rebuilt([v.clauses EXCEPT ![i].critical = ~@], v.minimum) : i \in DOMAIN v.clauses}
      [] how = "minimum" -> {Rebuilt(v.clauses, 0)}
      [] how = "drop" -> {Rebuilt(RemoveAt(v.clauses, i), v.minimum) : i \in DOMAIN v.clauses}
      [] how = "rate" -> {Verdict(v.clauses, <<1, 1>>, v.minimum)}
      [] how = "outcome" -> {[v EXCEPT !.outcome = "pass", !.trace = Absent],
                             [v EXCEPT !.outcome = "reject", !.trace = Failed(v.clauses)]}

Forge ==
    /\ record # Absent /\ [spec |-> spec, outputs |-> submitted.outputs] \in Exposed
    /\ \E how \in Forgeries : record' \in Forged(record, how)
    /\ Len(record'.clauses) > 0
    /\ UNCHANGED <<spec, submitted, verdict>>

Submissions == [outputs : Outputs, completed : BOOLEAN, errors : SchemaErrors \cup {Absent}]

GateNext ==
    \/ \E raw \in RawSpecs : AcceptSpec(raw)
    \/ \E result \in Submissions : SubmitResult(result)
    \/ Record
    \/ Forge

GateSpec == GateInit /\ [][GateNext]_gateVars

-----------------------------------------------------------------------------
(* Properties *)

Rows == [id : {SchemaId, CompletionId}
                  \cup UNION {{c.id : c \in Range(s.clauses)} : s \in RawSpecs},
         path : Paths \cup {""}, operator : Operators \cup {"schema", "protocol"},
         critical : BOOLEAN, passed : BOOLEAN, missing : BOOLEAN,
         expected : Values \cup {Digest(v) : v \in Values},
         observed : Values \cup {Digest(v) : v \in Values}]

\* Having no trace is none.
ASSUME AbsentAssumption == Absent \notin Seq(Rows)

GateTypeOK ==
    /\ spec # Absent => spec \in RawSpecs /\ ValidSpec(spec)
    /\ submitted # Absent => submitted \in Submissions
    /\ verdict # Absent => \A row \in Range(verdict.clauses) : row \in Rows
    /\ record # Absent => \A row \in Range(record.clauses) : row \in Rows

Clears(s, outputs, i) ==
    LET c == s.clauses[i]
    IN outputs[c.path] # Missing /\ Holds(c, outputs[c.path])

\* What a pass pays for: however low the minimum rate, an incomplete result or
\* one that breaks the manifest's schema never passes, nor one that fails a
\* critical clause; and the coordinator's own checks, listed among the clauses
\* when they fail, never shift the rate of a result that is otherwise in order.
\* The rate is that of evaluate_result, over all clauses of the spec, the critical
\* ones among them; the document's is that of RemainingRateMeets.
GateIsContract ==
    /\ GateTypeOK
    /\ verdict # Absent =>
           LET clear == {i \in DOMAIN spec.clauses : Clears(spec, submitted.outputs, i)}
           IN verdict.outcome = "pass" <=>
                 /\ submitted.completed /\ submitted.errors = Absent
                 /\ \A i \in DOMAIN spec.clauses : spec.clauses[i].critical => i \in clear
                 /\ Cardinality(clear) * 100 >= spec.minimum * Len(spec.clauses)

\* docs/protocol-v1.md: "Every critical clause must pass.  The remaining pass rate
\* must meet `minimum_pass_rate`."  So of the clauses that are not critical, the
\* minimum share clears in a result that passes, however many critical ones do.
RemainingRateMeets ==
    verdict # Absent /\ verdict.outcome = "pass" =>
        LET remaining == {i \in DOMAIN spec.clauses : ~ spec.clauses[i].critical}
            clear == {i \in remaining : Clears(spec, submitted.outputs, i)}
        IN Cardinality(clear) * 100 >= spec.minimum * Cardinality(remaining)

\* Shortening loses no evidence: what a digest in a trace stands for is large, or
\* is kept in the same trace.
EvidenceKept(trace) ==
    LET kept == UNION {{row.expected, row.observed} : row \in Range(trace.clauses)}
    IN \A v \in Values : Digest(v) \in kept => v.large \/ v \in kept

\* Whatever spec was let through and whatever was answered, the shortened trace
\* of the verdict keeps its evidence and survives the audit, with the output and
\* after the output has been replaced by its digest.
HonestTraceAudits ==
    verdict # Absent =>
        LET trace == CompactVerification(verdict)
        IN /\ EvidenceKept(trace)
           /\ submitted.completed =>
                 AuditedInline(trace, spec, submitted) /\ AuditedDigestOnly(trace, spec)

\* A record whose output is gone cannot pass on other terms than the plan's: the
\* outcome it is audited with is what the plan's clauses and minimum make of the
\* flags it shows, whatever was changed in it and made to fit.
NoUnearnedPass ==
    record # Absent /\ AuditedDigestOnly(record, spec) =>
        LET rows == Picked(record.clauses,
                           {i \in DOMAIN record.clauses : record.clauses[i].id \notin Reserved})
            clear == {i \in DOMAIN spec.clauses : rows[i].passed}
        IN record.outcome = "pass" <=>
              /\ Len(rows) = Len(record.clauses)
              /\ \A i \in DOMAIN spec.clauses : spec.clauses[i].critical => i \in clear
              /\ Cardinality(clear) * 100 >= spec.minimum * Len(spec.clauses)
=============================================================================
