------------------------------- MODULE Labels -------------------------------
(***************************************************************************)
(* The sensitivity label of one dataset. Three writers act on its row of    *)
(* table labels: a worker that classified the dataset applies the tenant's  *)
(* label rules (internal/external/kafka.go, applyLabelRulesAndAssign), the  *)
(* gateway's governance goroutine raises the label after the worker's       *)
(* callback (internal/api/auto_governance.go), and a user assigns one       *)
(* (internal/api/remediation_reports.go). One action is one SQL statement   *)
(* or one HTTP call. The classification itself is ScanPipeline's: here it   *)
(* is the entity types found in the dataset.                                *)
(***************************************************************************)
EXTENDS Integers, FiniteSets

CONSTANTS
    Jobs,        \* classification jobs of the dataset
    Workers,     \* worker processes
    Users,       \* requests that assign a label
    Contents,    \* the sets of entity types a job may find in the dataset
    RuleChoices, \* the label rules that may be created
    MaxRules,    \* bound: rule changes
    Faults       \* {"callback"}: a worker's callback may be lost

VARIABLES
    found,     \* entity types in table classifications, of this dataset
    rules,     \* the active rows of table label_rules
    changes,   \* rule changes so far
    label,     \* labels.label of the dataset, or None without a row
    mirror,    \* datasources.sensitivity_label
    queue,     \* classification jobs not yet received
    workers,   \* each worker's processClassificationJob
    governors, \* each job's goroutine autoApplyGovernance
    users,     \* whether each user's request is still to come
    outdated   \* a goroutine last wrote the label, by types that required less than by then

vars == <<found, rules, changes, label, mirror, queue, workers, governors, users, outdated>>

-----------------------------------------------------------------------------
(* Labels and entity types. *)

None == "none"
LabelNames == {"PUBLIC", "INTERNAL", "CONFIDENTIAL", "HIGHLY_CONFIDENTIAL", "RESTRICTED"}

\* createLabelRule requires a label, of any name.
ASSUME ConstantsAssumption ==
    /\ RuleChoices \subseteq [classification : STRING, label : STRING, priority : Int]
    /\ \A r \in RuleChoices : r.label # None
    /\ MaxRules \in Nat
    /\ Faults \subseteq {"callback"}

EntityTypes == UNION Contents
AllLabels == LabelNames \cup {r.label : r \in RuleChoices}

\* The zero value of the map for any other name.
labelPriority(l) == CASE l = "INTERNAL" -> 1
                      [] l = "CONFIDENTIAL" -> 2
                      [] l = "HIGHLY_CONFIDENTIAL" -> 3
                      [] l = "RESTRICTED" -> 4
                      [] OTHER -> 0

\* entityLabelMap of the gateway.
entityLabelMap ==
    [RESTRICTED   |-> {"SSN", "CREDIT_CARD", "CREDIT_CARD_FORMATTED", "BANK_ACCOUNT",
                       "ROUTING_NUMBER", "IBAN", "PHI", "HEALTH_RECORD",
                       "MEDICAL_RECORD", "HEALTH_INSURANCE_ID"},
     CONFIDENTIAL |-> {"EMAIL", "PHONE", "ADDRESS", "PASSPORT", "DRIVER_LICENSE",
                       "DATE_OF_BIRTH", "AWS_ACCESS_KEY", "AWS_SECRET_KEY", "API_KEY",
                       "JWT_TOKEN", "IP_ADDRESS", "IPV6_ADDRESS", "MAC_ADDRESS", "VIN"}]

Meets(types, class) == types \cap class # {}

\* The highest label the gateway requires: INTERNAL at least.
highestLabel(types) ==
    CASE Meets(types, entityLabelMap.RESTRICTED) -> "RESTRICTED"
      [] ~ Meets(types, entityLabelMap.RESTRICTED)
         /\ Meets(types, entityLabelMap.CONFIDENTIAL) -> "CONFIDENTIAL"
      [] OTHER -> "INTERNAL"

\* The worker's own table: its classes are not the gateway's.
defaultClasses ==
    << [label |-> "RESTRICTED",
        types |-> {"SSN", "CREDIT_CARD", "CREDIT_CARD_FORMATTED", "BANK_ACCOUNT",
                   "ROUTING_NUMBER", "AWS_ACCESS_KEY", "AWS_SECRET_KEY", "API_KEY",
                   "JWT_TOKEN"}],
       [label |-> "HIGHLY_CONFIDENTIAL",
        types |-> {"MEDICAL_RECORD", "HEALTH_INSURANCE_ID", "IBAN"}],
       [label |-> "CONFIDENTIAL",
        types |-> {"EMAIL", "PHONE", "DATE_OF_BIRTH", "PASSPORT", "DRIVER_LICENSE",
                   "VIN", "PERSON_NAME"}],
       [label |-> "INTERNAL",
        types |-> {"ADDRESS", "IP_ADDRESS", "MAC_ADDRESS", "IPV6_ADDRESS", "US_ZIP",
                   "UK_POSTCODE", "ZIP_CODE"}] >>

determineDefaultLabel(types) ==
    LET met == {n \in DOMAIN defaultClasses : Meets(types, defaultClasses[n].types)}
    IN  IF met = {} THEN "PUBLIC"
        ELSE defaultClasses[CHOOSE n \in met : \A m \in met : n <= m].label

\* Rules that match; a negative priority never beats the initial -1.
Matching(types, active) == {r \in active : r.classification \in types /\ r.priority > -1}

\* The order of rules of equal priority is the database's.
Highest(match) == {r.label : r \in {t \in match : \A u \in match : u.priority <= t.priority}}

\* Mutant: no fallback when no rule matches.
RuleLabelsOnly(types, active) ==
    LET match == Matching(types, active)
    IN  IF match = {} THEN {None} ELSE Highest(match)

\* The label of a matching rule of the highest priority, else the default.
AssignedLabels(types, active) ==
    LET match == Matching(types, active)
    IN  IF match = {} THEN {determineDefaultLabel(types)} ELSE Highest(match)

-----------------------------------------------------------------------------
(* The worker: processClassificationJob from the DELETE on.                  *)

Worker   == [pc : {"idle", "classify", "read", "rules", "store", "mirror", "report"},
             job : Jobs \cup {None}, todo : SUBSET EntityTypes,
             types : SUBSET EntityTypes, label : AllLabels \cup {None}]
Governor == [pc : {"none", "read", "label", "create", "upgrade", "done", "lost"},
             types : SUBSET EntityTypes]

Idle == [pc |-> "idle", job |-> None, todo |-> {}, types |-> {}, label |-> None]
NewGovernor == [pc |-> "none", types |-> {}]

Goto(w, pc) == workers' = [workers EXCEPT ![w].pc = pc]
Govern(j, pc) == governors' = [governors EXCEPT ![j].pc = pc]

\* DELETE FROM classifications.
Clear(w) ==
    /\ workers[w].pc = "idle"
    /\ \E j \in queue, c \in Contents :
         /\ queue' = queue \ {j}
         /\ workers' = [workers EXCEPT ![w] = [Idle EXCEPT !.pc = "classify", !.job = j, !.todo = c]]
    /\ found' = {}
    /\ UNCHANGED <<rules, changes, label, mirror, governors, users, outdated>>

Classify(w) ==
    /\ workers[w].pc = "classify"
    /\ \E e \in workers[w].todo :
         /\ found' = found \cup {e}
         /\ workers' = [workers EXCEPT ![w] = [@ EXCEPT !.todo = workers[w].todo \ {e}]]
    /\ UNCHANGED <<rules, changes, label, mirror, queue, governors, users, outdated>>

\* SELECT ... FROM classifications: without a row no label is assigned.
ReadTypes(w) ==
    /\ workers[w].pc = "classify" /\ workers[w].todo = {}
    /\ workers' = [workers EXCEPT ![w] = [@ EXCEPT !.pc = IF found = {} THEN "report" ELSE "rules",
                                                   !.types = found]]
    /\ UNCHANGED <<found, rules, changes, label, mirror, queue, governors, users, outdated>>

ReadRules(w) ==
    /\ workers[w].pc = "rules"
    /\ \E l \in AssignedLabels(workers[w].types, rules) :
         workers' = [workers EXCEPT ![w] = [@ EXCEPT !.pc = IF l = None THEN "report" ELSE "store",
                                                     !.label = l]]
    /\ UNCHANGED <<found, rules, changes, label, mirror, queue, governors, users, outdated>>

\* INSERT ... ON CONFLICT DO UPDATE: over any label that is there.
Store(w) ==
    /\ workers[w].pc = "store"
    /\ label' = workers[w].label
    /\ Goto(w, "mirror")
    /\ outdated' = FALSE
    /\ UNCHANGED <<found, rules, changes, mirror, queue, governors, users>>

Mirror(w) ==
    /\ workers[w].pc = "mirror"
    /\ mirror' = workers[w].label
    /\ Goto(w, "report")
    /\ UNCHANGED <<found, rules, changes, label, queue, governors, users, outdated>>

\* sendClassificationCallback; classificationCallback starts the goroutine.
Report(w) ==
    /\ workers[w].pc = "report"
    /\ Govern(workers[w].job, "read")
    /\ workers' = [workers EXCEPT ![w] = Idle]
    /\ UNCHANGED <<found, rules, changes, label, mirror, queue, users, outdated>>

ReportLost(w) ==
    /\ workers[w].pc = "report"
    /\ "callback" \in Faults
    /\ Govern(workers[w].job, "lost")
    /\ workers' = [workers EXCEPT ![w] = Idle]
    /\ UNCHANGED <<found, rules, changes, label, mirror, queue, users, outdated>>

-----------------------------------------------------------------------------
(* The gateway: classificationCallback's goroutine and autoApplyGovernance.  *)

\* Mutant: without "if len(classifications) == 0 return".
GovernReadAny(j) ==
    /\ governors[j].pc = "read"
    /\ governors' = [governors EXCEPT ![j] = [pc |-> "label", types |-> found]]
    /\ UNCHANGED <<found, rules, changes, label, mirror, queue, workers, users, outdated>>

GovernRead(j) ==
    /\ governors[j].pc = "read"
    /\ governors' = [governors EXCEPT ![j] =
                       [pc |-> IF found = {} THEN "done" ELSE "label", types |-> found]]
    /\ UNCHANGED <<found, rules, changes, label, mirror, queue, workers, users, outdated>>

\* Mutant: lower labels are raised only when they were PUBLIC.
RaisesPublic(types, old) == old = "PUBLIC"

Raises(types, old) == labelPriority(highestLabel(types)) > labelPriority(old)

GovernLabel(j) ==
    /\ governors[j].pc = "label"
    /\ Govern(j, CASE label = None -> "create"
                   [] label # None /\ Raises(governors[j].types, label) -> "upgrade"
                   [] OTHER -> "done")
    /\ UNCHANGED <<found, rules, changes, label, mirror, queue, workers, users, outdated>>

\* A plain INSERT: the unique index on (tenant_id, dataset_id) refuses it when
\* a row has appeared; the error is logged.
GovernCreate(j) ==
    /\ governors[j].pc = "create"
    /\ label' = IF label = None THEN highestLabel(governors[j].types) ELSE label
    /\ Govern(j, "done")
    /\ UNCHANGED <<found, rules, changes, mirror, queue, workers, users, outdated>>

\* Lower than the gateway requires for what is in the dataset now.
Insufficient(l) == labelPriority(l) < labelPriority(highestLabel(found))

\* The UPDATE does not look again at the label it replaces.
GovernUpgrade(j) ==
    /\ governors[j].pc = "upgrade"
    /\ label' = highestLabel(governors[j].types)
    /\ outdated' = Insufficient(highestLabel(governors[j].types))
    /\ Govern(j, "done")
    /\ UNCHANGED <<found, rules, changes, mirror, queue, workers, users>>

-----------------------------------------------------------------------------
(* Users. *)

\* assignLabel: a plain INSERT, its error dropped.
AssignLabel(u) ==
    /\ users[u]
    /\ \E l \in LabelNames : label' = IF label = None THEN l ELSE label
    /\ users' = [users EXCEPT ![u] = FALSE]
    /\ UNCHANGED <<found, rules, changes, mirror, queue, workers, governors, outdated>>

\* createLabelRule; deleteLabelRule; updateLabelRule is one after the other.
ChangeRules ==
    /\ changes < MaxRules
    /\ \E r \in RuleChoices : rules' = IF r \in rules THEN rules \ {r} ELSE rules \cup {r}
    /\ changes' = changes + 1
    /\ UNCHANGED <<found, label, mirror, queue, workers, governors, users, outdated>>

-----------------------------------------------------------------------------
Init ==
    /\ found = {} /\ rules = {} /\ changes = 0
    /\ label = None /\ mirror = None
    /\ queue = Jobs
    /\ workers = [w \in Workers |-> Idle]
    /\ governors = [j \in Jobs |-> NewGovernor]
    /\ users = [u \in Users |-> TRUE]
    /\ outdated = FALSE

ApplyLabelRules(w) == ReadTypes(w) \/ ReadRules(w) \/ Store(w)

ProcessJob(w) == \/ Clear(w) \/ Classify(w) \/ ApplyLabelRules(w)
                 \/ Mirror(w) \/ Report(w) \/ ReportLost(w)

AutoApplyGovernance(j) == \/ GovernRead(j) \/ GovernLabel(j)
                          \/ GovernCreate(j) \/ GovernUpgrade(j)

Next == \/ \E w \in Workers : ProcessJob(w)
        \/ \E j \in Jobs : AutoApplyGovernance(j)
        \/ \E u \in Users : AssignLabel(u)
        \/ ChangeRules

Spec == Init /\ [][Next]_vars

-----------------------------------------------------------------------------
(* Properties. *)

\* Every variable stays within its type; a busy worker has a job, one that
\* stores a label has a label, and a goroutine that decided to write one has
\* entity types to derive it from.
TypeOK ==
    /\ found \subseteq EntityTypes
    /\ rules \subseteq RuleChoices
    /\ changes \in 0 .. MaxRules
    /\ {label, mirror} \subseteq AllLabels \cup {None}
    /\ queue \subseteq Jobs
    /\ workers \in [Workers -> Worker]
    /\ \A w \in Workers : /\ workers[w].pc # "idle" => workers[w].job \in Jobs
                          /\ workers[w].pc \in {"store", "mirror"} => workers[w].label # None
    /\ governors \in [Jobs -> Governor]
    /\ \A j \in Jobs : governors[j].pc \in {"label", "create", "upgrade"} => governors[j].types # {}
    /\ users \in [Users -> BOOLEAN]
    /\ outdated \in BOOLEAN

AtRest == /\ \A w \in Workers : workers[w].pc = "idle"
          /\ \A j \in Jobs : governors[j].pc \in {"none", "done", "lost"}

\* A classified dataset is labelled once the jobs received are done, even when
\* every callback is lost: the worker labels without the gateway's help.
Labelled == AtRest /\ found # {} => label # None

\* Once the workers and the goroutines they started are done, the label is as
\* high as the gateway requires for the types in the dataset, although workers
\* store lower labels over what governance wrote, in any order, users assign
\* lower ones and rules ask for lower ones. Two things excuse it: a callback that
\* was lost, and a goroutine that raised the label to what the types that it had
\* read require, when another job has found more or another goroutine raised it
\* higher by then (autoApplyGovernance updates without looking again).
LabelSufficient ==
    AtRest /\ found # {} /\ ~ outdated /\ (\A j \in Jobs : governors[j].pc # "lost")
        => ~ Insufficient(label)

=============================================================================
