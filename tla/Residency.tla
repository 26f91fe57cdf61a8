------------------------------ MODULE Residency ------------------------------
(***************************************************************************)
(* Data residency: rules say which regions a data source may be in, and     *)
(* table residency_violations holds what they and the sources' regions      *)
(* imply (internal/api/residency.go, internal/api/datasource.go). It is     *)
(* derived data that the handlers keep up themselves, by statements outside *)
(* any transaction. One action is one SQL statement of a handler.           *)
(***************************************************************************)
EXTENDS Integers, FiniteSets

CONSTANTS
    Sources,    \* ids of data sources
    Rules,      \* ids of residency rules
    Regions,    \* the regions a source may be tagged with
    Allowed,    \* Allowed[rule]: its allowed_regions
    Requests,   \* API requests, each served once
    MaxAbandons \* bound: requests whose client goes away

VARIABLES
    region,     \* datasources.region, or Absent without a row
    rules,      \* ids in residency_rules
    violations, \* the pairs (rule_id, datasource_id) of residency_violations
    requests,   \* each request's handler
    abandons,   \* clients gone so far
    unchecked   \* history: sources whose region no undisturbed evaluation followed

vars == <<region, rules, violations, requests, abandons, unchecked>>

-----------------------------------------------------------------------------
Untagged == "untagged"
Absent == "absent"
Nobody == "nobody"

Stored == {s \in Sources : region[s] # Absent}

\* A region that is empty is in no rule's list.
Violates(rule, g) == g \notin Allowed[rule]

\* requests[q].todo are the violations still to be inserted, region the value
\* in the handler's copy of the row.
New == [op |-> "none", at |-> "new", source |-> Nobody, rule |-> Nobody,
        region |-> Untagged, todo |-> {}]

Answered(q) == \/ requests[q].at = "done"
               \/ requests[q].at = "insert" /\ requests[q].todo = {}

Goto(q, at) == requests' = [requests EXCEPT ![q].at = at]

\* Ids are random: none is used twice.
FreshRules == {r \in Rules \ rules : /\ \A v \in violations : v[1] # r
                                     /\ \A q \in Requests : requests[q].rule # r}
FreshSources == {s \in Sources \ Stored : /\ \A v \in violations : v[2] # s
                                          /\ \A q \in Requests : requests[q].source # s}

-----------------------------------------------------------------------------
(* createResidencyRule. *)

InsertRule(q) ==
    /\ requests[q].at = "new"
    /\ \E r \in FreshRules :
         /\ rules' = rules \cup {r}
         /\ requests' = [requests EXCEPT ![q] = [New EXCEPT !.op = "rule", !.at = "sources", !.rule = r]]
    /\ UNCHANGED <<region, violations, abandons, unchecked>>

ListSources(q) ==
    /\ requests[q].at = "sources"
    /\ LET r == requests[q].rule
           found == {s \in Stored : Violates(r, region[s])}
       IN  requests' = [requests EXCEPT ![q] = [@ EXCEPT !.at = "insert", !.todo = {r} \X found]]
    /\ UNCHANGED <<region, rules, violations, abandons, unchecked>>

\* INSERT ... ON CONFLICT DO NOTHING, of persistViolationsForRule and of
\* reevaluateResidencyViolations.
InsertViolation(q) ==
    /\ requests[q].at = "insert"
    /\ \E v \in requests[q].todo :
         /\ violations' = violations \cup {v}
         /\ requests' = [requests EXCEPT ![q] = [@ EXCEPT !.todo = requests[q].todo \ {v}]]
    /\ UNCHANGED <<region, rules, abandons, unchecked>>

-----------------------------------------------------------------------------
(* deleteResidencyRule. *)

FindRule(q) ==
    /\ requests[q].at = "new"
    /\ \E r \in rules : requests' = [requests EXCEPT ![q] =
                                       [New EXCEPT !.op = "unrule", !.at = "delete", !.rule = r]]
    /\ UNCHANGED <<region, rules, violations, abandons, unchecked>>

DeleteRule(q) ==
    /\ requests[q].at = "delete"
    /\ rules' = rules \ {requests[q].rule}
    /\ Goto(q, "cascade")
    /\ UNCHANGED <<region, violations, abandons, unchecked>>

DeleteRuleViolations(q) ==
    /\ requests[q].at = "cascade"
    /\ violations' = {v \in violations : v[1] # requests[q].rule}
    /\ Goto(q, "done")
    /\ UNCHANGED <<region, rules, abandons, unchecked>>

-----------------------------------------------------------------------------
(* Handlers that read the row of a source and write all of it back.          *)

\* The region they write: updateDataSource with a region ("update"),
\* tagDatasourceRegion ("tag"), one source of detectRegionsHandler ("detect"),
\* and updateDataSource without a region, triggerScan and scanCallback ("keep").
WrittenRegions(op, old) ==
    CASE op = "update" -> Regions \cup {Untagged}
      [] op = "tag" -> Regions
      [] op = "detect" -> IF old = Untagged THEN Regions ELSE {}
      [] op = "keep" -> {old}

FindSource(q) ==
    /\ requests[q].at = "new"
    /\ \E s \in Stored, op \in {"update", "tag", "detect", "keep"} :
         \E g \in WrittenRegions(op, region[s]) :
           requests' = [requests EXCEPT ![q] =
                          [New EXCEPT !.op = op, !.at = "write", !.source = s, !.region = g]]
    /\ UNCHANGED <<region, rules, violations, abandons, unchecked>>

\* Another updateDataSource has written s and still evaluates it.
EvaluatedBeside(q, s) ==
    \E p \in Requests \ {q} : /\ requests[p].op = "update" /\ requests[p].source = s
                              /\ requests[p].at \in {"clear", "list", "insert"}
                              /\ ~ Answered(p)

\* Which sources are unchecked once q has written.
UncheckedBy(q, s) ==
    CASE requests[q].op = "update" /\ ~ EvaluatedBeside(q, s) -> unchecked \ {s}
      [] requests[q].op # "update" /\ requests[q].region = region[s] -> unchecked
      [] OTHER -> unchecked \cup {s}

\* No error when the row is gone. Only updateDataSource evaluates the rules.
WriteSource(q) ==
    /\ requests[q].at = "write"
    /\ LET s == requests[q].source IN
         /\ region' = IF s \in Stored THEN [region EXCEPT ![s] = requests[q].region] ELSE region
         /\ unchecked' = UncheckedBy(q, s)
    /\ Goto(q, IF requests[q].op = "update" THEN "clear" ELSE "done")
    /\ UNCHANGED <<rules, violations, abandons>>

-----------------------------------------------------------------------------
(* reevaluateResidencyViolations, with the handler's copy of the source.     *)

ClearAt(q, at, next) ==
    /\ requests[q].at = at
    /\ violations' = {v \in violations : v[2] # requests[q].source}
    /\ Goto(q, next)
    /\ UNCHANGED <<region, rules, abandons, unchecked>>

ListRulesAt(q, at, next) ==
    /\ requests[q].at = at
    /\ LET found == {r \in rules : Violates(r, requests[q].region)}
       IN  requests' = [requests EXCEPT ![q] = [@ EXCEPT !.at = next,
                                                         !.todo = found \X {requests[q].source}]]
    /\ UNCHANGED <<region, rules, violations, abandons, unchecked>>

\* Mutant: the rules are listed before the old violations are deleted.
ReevaluateListFirst(q) == ListRulesAt(q, "clear", "list") \/ ClearAt(q, "list", "insert")

ReevaluateResidencyViolations(q) == ClearAt(q, "clear", "list") \/ ListRulesAt(q, "list", "insert")

-----------------------------------------------------------------------------
(* createDataSource, whose goroutine detects the region, and deleteDataSource. *)

CreateSource(q) ==
    /\ requests[q].at = "new"
    /\ \E s \in FreshSources, g \in Regions \cup {Untagged} :
         /\ region' = [region EXCEPT ![s] = g]
         /\ unchecked' = unchecked \cup {s}
         /\ requests' = [requests EXCEPT ![q] = [New EXCEPT !.op = "create", !.at = "detect", !.source = s]]
    /\ UNCHANGED <<rules, violations, abandons>>

DetectRegion(q) ==
    /\ requests[q].at = "detect"
    /\ \/ /\ region[requests[q].source] = Untagged
          /\ \E g \in Regions : requests' = [requests EXCEPT ![q] = [@ EXCEPT !.at = "write", !.region = g]]
       \/ Goto(q, "done")
    /\ UNCHANGED <<region, rules, violations, abandons, unchecked>>

\* The violations stay: the table has no foreign key.
DeleteSource(q) ==
    /\ requests[q].at = "new"
    /\ \E s \in Stored : region' = [region EXCEPT ![s] = Absent]
    /\ Goto(q, "done")
    /\ UNCHANGED <<rules, violations, abandons, unchecked>>

\* The client goes away: every later statement of the request's context fails.
Abandon(q) ==
    /\ abandons < MaxAbandons
    /\ requests[q].at # "new" /\ requests[q].op # "create" /\ ~ Answered(q)
    /\ unchecked' = unchecked \cup CASE requests[q].op = "rule" -> Stored
                                     [] requests[q].op = "update" -> {requests[q].source}
                                     [] OTHER -> {}
    /\ abandons' = abandons + 1
    /\ Goto(q, "done")
    /\ UNCHANGED <<region, rules, violations>>

-----------------------------------------------------------------------------
\* Any sources and rules, with the violations they imply.
Init ==
    /\ region \in [Sources -> Regions \cup {Untagged, Absent}]
    /\ rules \in SUBSET Rules
    /\ violations = {v \in rules \X Stored : Violates(v[1], region[v[2]])}
    /\ requests = [q \in Requests |-> New]
    /\ abandons = 0
    /\ unchecked = {}

CreateResidencyRule(q) == InsertRule(q) \/ ListSources(q)
DeleteResidencyRule(q) == FindRule(q) \/ DeleteRule(q) \/ DeleteRuleViolations(q)
UpdateDataSource(q) == FindSource(q) \/ WriteSource(q) \/ ReevaluateResidencyViolations(q)
CreateDataSource(q) == CreateSource(q) \/ DetectRegion(q)

Next == \E q \in Requests :
          \/ CreateResidencyRule(q) \/ DeleteResidencyRule(q)
          \/ UpdateDataSource(q) \/ InsertViolation(q)
          \/ CreateDataSource(q) \/ DeleteSource(q) \/ Abandon(q)

-----------------------------------------------------------------------------
AtRest == \A q \in Requests : requests[q].at = "new" \/ Answered(q)

\* Once the handlers are done, no violation of an existing rule by an existing
\* source is missing, although rules are created and sources updated side by
\* side: each writes its own row before it reads the other's table. (Of the
\* sources whose region was written last by updateDataSource, by one of them
\* at a time and to its end; the other writers of the region evaluate nothing.
\* Violations that are no longer true may remain.)
NoViolationMissed ==
    AtRest => \A s \in Stored \ unchecked, r \in rules :
                Violates(r, region[s]) => <<r, s>> \in violations

=============================================================================
