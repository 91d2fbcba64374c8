----------------------------- MODULE TestReport -----------------------------
(***************************************************************************)
(* The test results scripts collect, and the report written of them        *)
(* (src/src/core/test_report.c).  A result is its suite, package and class,*)
(* and its test; suites are compared by a 64-bit hash of their name.       *)
(***************************************************************************)
EXTENDS Integers, Sequences, FiniteSets, SequencesExt

CONSTANTS
    Suites,         \* names of suites
    NoSuite,        \* a result without package and class
    DefaultSuite,   \* "Tests.Generic"
    Hash,           \* generate_hash
    MaxResults      \* bound: results added in all

ASSUME ReportAssumption ==
    /\ DefaultSuite \in Suites /\ NoSuite \notin Suites
    /\ Hash \in [Suites -> Nat] /\ MaxResults \in Nat

VARIABLES
    results,    \* the results added and not yet reported
    report,     \* what the last operation wrote
    made,       \* number of results added so far, which names their tests
    reported    \* history: how often each test was reported

reportVars == <<results, report, made, reported>>

Tests == 1 .. MaxResults

ReportInit == results = <<>> /\ report = <<>> /\ made = 0 /\ reported = [t \in Tests |-> 0]

SuiteOf(r) == IF r.suite = NoSuite THEN DefaultSuite ELSE r.suite
HashOf(r)  == Hash[SuiteOf(r)]

(* The sort: a place after the other is exchanged with each later one that *)
(* has a smaller hash.                                                     *)
Exchange(s, i, j) ==
    IF HashOf(s[i]) > HashOf(s[j]) THEN [s EXCEPT ![i] = s[j], ![j] = s[i]] ELSE s
ExchangeWithLater(s, i) ==
    FoldLeft(LAMBDA t, j : Exchange(t, i, j), s, [k \in 1 .. Len(s) - i |-> i + k])
FirstPlaceOnly(s) == ExchangeWithLater(s, 1)   \* mutant
SortResults(s) == FoldLeft(ExchangeWithLater, s, [i \in 1 .. Len(s) |-> i])

(* Consecutive results of one hash are a suite, under the name of its first.*)
NewSuite(r) == [name |-> SuiteOf(r), tests |-> <<r>>]
StartSuite(suites, r) == Append(suites, [name |-> SuiteOf(r), tests |-> <<>>])   \* mutant
AddToSuites(suites, r) ==
    IF suites # <<>> /\ Hash[Last(suites).name] = HashOf(r)
    THEN [suites EXCEPT ![Len(suites)].tests = Append(@, r)]
    ELSE Append(suites, NewSuite(r))
Grouped(s) == FoldLeft(AddToSuites, <<>>, SortResults(s))

(* Where a test is in a report.                                            *)
Places(written, t) ==
    {p \in (DOMAIN written) \X Tests :
        p[2] \in DOMAIN written[p[1]].tests /\ written[p[1]].tests[p[2]].test = t}

test_add_result(suite) ==
    /\ made < MaxResults
    /\ made' = made + 1 /\ report' = <<>>
    /\ results' = Append(results, [test |-> made + 1, suite |-> suite])
    /\ UNCHANGED reported

test_clear_results == results' = <<>> /\ report' = <<>> /\ UNCHANGED <<made, reported>>

WriteReport == report' = Grouped(results) /\ results' = <<>>

(* A file that cannot be opened leaves the results.                        *)
test_generate_report ==
    /\ WriteReport \/ (report' = <<>> /\ UNCHANGED results)
    /\ reported' = [t \in Tests |-> reported[t] + Cardinality(Places(report', t))]
    /\ UNCHANGED made

-----------------------------------------------------------------------------
(* Properties.                                                             *)

(* A report has one suite per name, with the tests of that name.           *)
OneSuitePerName ==
    /\ \A k, l \in DOMAIN report : report[k].name = report[l].name => k = l
    /\ \A k \in DOMAIN report : \A t \in DOMAIN report[k].tests :
          SuiteOf(report[k].tests[t]) = report[k].name

(* A report has every result added since the last one, or since they were  *)
(* cleared, and no result is in two reports, or twice in one.              *)
InOneReport == \A t \in Tests : reported[t] <= 1
ReportedOnce ==
    /\ []InOneReport
    /\ [][report' # <<>> =>
          \A t \in Tests :
             reported'[t] = reported[t] + Cardinality({k \in DOMAIN results : results[k].test = t})
        ]_reportVars
=============================================================================
