-------------------------- MODULE GovernanceProofs --------------------------
(***************************************************************************)
(* Theorems about Governance and its parts, for any number of jobs,         *)
(* workers, users, sources, rules and requests.                             *)
(*                                                                          *)
(* Labels: Labelled and LabelSufficient speak of states at rest; their      *)
(* strengthenings say who still has to act while the label is missing or    *)
(* too low.                                                                 *)
(*                                                                          *)
(* Residency: NoViolationMissed speaks of states at rest too; at any time a *)
(* violation that is missing is one that some handler owes, since it will   *)
(* list it or has listed it and not inserted it.                            *)
(*                                                                          *)
(* Dpia: whoever is to store the officer's step as completed has recorded   *)
(* the consultation.                                                        *)
(***************************************************************************)
EXTENDS Governance, TLAPS

-----------------------------------------------------------------------------
(* Labels and priorities. *)

\* The default label of any set of types is one of the four.
LEMMA DefaultNamed ==
    ASSUME NEW types
    PROVE  determineDefaultLabel(types) \in LabelNames
<1> DEFINE met == {n \in DOMAIN defaultClasses : Meets(types, defaultClasses[n].types)}
<1>1. /\ DOMAIN defaultClasses = 1 .. 4
      /\ \A n \in 1 .. 4 : defaultClasses[n].label \in LabelNames
  BY DEF defaultClasses, LabelNames
<1>2. CASE met = {}
  BY <1>2 DEF determineDefaultLabel, LabelNames
<1>3. CASE met # {}
  <2>1. met \subseteq 1 .. 4
    BY <1>1
  <2> HIDE DEF met
  <2>2. \E n \in met : \A m \in met : n <= m
    <3>1. CASE 1 \in met
      BY <2>1, <3>1
    <3>2. CASE 1 \notin met /\ 2 \in met
      BY <2>1, <3>2
    <3>3. CASE 1 \notin met /\ 2 \notin met /\ 3 \in met
      BY <2>1, <3>3
    <3>4. CASE 1 \notin met /\ 2 \notin met /\ 3 \notin met
      <4>1. \A n \in met : n = 4
        BY <2>1, <3>4
      <4> QED BY <1>3, <4>1
    <3> QED BY <3>1, <3>2, <3>3, <3>4
  <2>3. (CHOOSE n \in met : \A m \in met : n <= m) \in met
    BY <2>2
  <2>4. defaultClasses[CHOOSE n \in met : \A m \in met : n <= m].label \in LabelNames
    BY <1>1, <2>1, <2>3
  <2> QED BY <1>3, <2>4 DEF determineDefaultLabel, met
<1> QED BY <1>2, <1>3

\* A worker assigns a label that is one.
LEMMA AssignedNamed ==
    ASSUME NEW types, NEW active \in SUBSET RuleChoices, NEW l \in AssignedLabels(types, active)
    PROVE  l \in AllLabels /\ l # None
<1>1. CASE Matching(types, active) = {}
  <2>1. l = determineDefaultLabel(types)
    BY <1>1 DEF AssignedLabels
  <2>2. l \in LabelNames
    BY <2>1, DefaultNamed
  <2> QED BY <2>2 DEF AllLabels, LabelNames, None
<1>2. CASE Matching(types, active) # {}
  <2>1. PICK r \in active : l = r.label
    BY <1>2 DEF AssignedLabels, Matching, Highest
  <2>2. l # None
    BY <2>1, ConstantsAssumption
  <2> QED BY <2>1, <2>2 DEF AllLabels
<1> QED BY <1>1, <1>2

\* The gateway requires INTERNAL at least, which a missing label is below.
LEMMA Required ==
    ASSUME NEW types, NEW l
    PROVE  /\ highestLabel(types) \in LabelNames
           /\ labelPriority(l) \in Int
           /\ labelPriority(None) < labelPriority(highestLabel(types))
BY DEF highestLabel, labelPriority, LabelNames, None

-----------------------------------------------------------------------------
(* Type correctness. *)

\* The initial values have their types.
LEMMA TypeInit == Init => TypeOK
<1> SUFFICES ASSUME Init PROVE TypeOK
  OBVIOUS
<1>1. workers \in [Workers -> Worker] /\ governors \in [Jobs -> Governor]
  BY DEF Init, Idle, NewGovernor, Worker, Governor
<1>2. \A w \in Workers : workers[w].pc = "idle"
  BY DEF Init, Idle
<1>3. \A j \in Jobs : governors[j].pc = "none"
  BY DEF Init, NewGovernor
<1>4. 0 \in 0 .. MaxRules
  BY ConstantsAssumption
<1> QED BY <1>1, <1>2, <1>3, <1>4 DEF Init, TypeOK

\* Every step keeps the types: one case per action.
LEMMA TypeStep == TypeOK /\ [Next]_vars => TypeOK'
<1> SUFFICES ASSUME TypeOK, [Next]_vars
             PROVE  TypeOK'
  OBVIOUS
<1>1. ASSUME NEW w \in Workers, Clear(w)
      PROVE  TypeOK'
  <2>1. PICK j \in queue, c \in Contents :
          /\ queue' = queue \ {j}
          /\ workers' = [workers EXCEPT ![w] = [Idle EXCEPT !.pc = "classify", !.job = j, !.todo = c]]
    BY <1>1 DEF Clear
  <2>2. c \in SUBSET EntityTypes /\ j \in Jobs
    BY DEF EntityTypes, TypeOK
  <2>3. [Idle EXCEPT !.pc = "classify", !.job = j, !.todo = c] \in Worker
    BY <2>2 DEF Idle, Worker
  <2> QED BY <1>1, <2>1, <2>3 DEF Clear, TypeOK, Idle
<1>2. ASSUME NEW w \in Workers, Classify(w)
      PROVE  TypeOK'
  BY <1>2 DEF Classify, TypeOK, Worker
<1>3. ASSUME NEW w \in Workers, ReadTypes(w)
      PROVE  TypeOK'
  <2>1. PICK pc \in {"report", "rules"} :
          workers' = [workers EXCEPT ![w] = [@ EXCEPT !.pc = pc, !.types = found]]
    BY <1>3 DEF ReadTypes
  <2>2. [workers[w] EXCEPT !.pc = pc, !.types = found] \in Worker
    BY DEF TypeOK, Worker
  <2>3. workers' \in [Workers -> Worker]
    BY <2>1, <2>2 DEF TypeOK
  <2> QED BY <1>3, <2>3 DEF ReadTypes, TypeOK
<1>4. ASSUME NEW w \in Workers, ReadRules(w)
      PROVE  TypeOK'
  <2>1. PICK l \in AssignedLabels(workers[w].types, rules) :
          workers' = [workers EXCEPT ![w] = [@ EXCEPT !.pc = IF l = None THEN "report" ELSE "store",
                                                      !.label = l]]
    BY <1>4 DEF ReadRules
  <2>2. l \in AllLabels /\ l # None
    BY <2>1, AssignedNamed DEF TypeOK
  <2>3. workers' = [workers EXCEPT ![w] = [workers[w] EXCEPT !.pc = "store", !.label = l]]
    BY <2>1, <2>2
  <2>4. [workers[w] EXCEPT !.pc = "store", !.label = l] \in Worker
    BY <2>2 DEF TypeOK, Worker
  <2>5. workers' \in [Workers -> Worker]
    BY <2>3, <2>4 DEF TypeOK
  <2>6. \A v \in Workers :
          /\ workers'[v].pc # "idle" => workers'[v].job \in Jobs
          /\ workers'[v].pc \in {"store", "mirror"} => workers'[v].label # None
    BY <1>4, <2>2, <2>3 DEF ReadRules, TypeOK, Worker
  <2> QED BY <1>4, <2>5, <2>6 DEF ReadRules, TypeOK
<1>5. ASSUME NEW w \in Workers, Store(w) \/ Mirror(w)
      PROVE  TypeOK'
  <2>1. /\ {label', mirror'} \subseteq AllLabels \cup {None}
        /\ workers' \in [Workers -> Worker]
    BY <1>5 DEF Store, Mirror, Goto, TypeOK, Worker
  <2>2. \A v \in Workers : /\ workers'[v].pc # "idle" => workers'[v].job \in Jobs
                           /\ workers'[v].pc \in {"store", "mirror"} => workers'[v].label # None
    BY <1>5 DEF Store, Mirror, Goto, TypeOK, Worker
  <2>3. outdated' \in BOOLEAN
    BY <1>5 DEF Store, Mirror, TypeOK
  <2> QED BY <1>5, <2>1, <2>2, <2>3 DEF Store, Mirror, TypeOK
<1>6. ASSUME NEW w \in Workers, Report(w) \/ ReportLost(w)
      PROVE  TypeOK'
  <2>1. Idle \in Worker
    BY DEF Idle, Worker
  <2>2. workers' \in [Workers -> Worker]
    BY <1>6, <2>1 DEF Report, ReportLost, TypeOK
  <2>3. governors' \in [Jobs -> Governor]
    BY <1>6 DEF Report, ReportLost, Govern, TypeOK, Governor
  <2> QED BY <1>6, <2>2, <2>3 DEF Report, ReportLost, Govern, TypeOK, Idle, Governor
<1>7. ASSUME NEW j \in Jobs, GovernRead(j)
      PROVE  TypeOK'
  BY <1>7 DEF GovernRead, TypeOK, Governor
<1>8. ASSUME NEW j \in Jobs, GovernLabel(j)
      PROVE  TypeOK'
  BY <1>8 DEF GovernLabel, Govern, TypeOK, Governor
<1>9. ASSUME NEW j \in Jobs, GovernCreate(j) \/ GovernUpgrade(j)
      PROVE  TypeOK'
  <2>1. label' \in AllLabels \cup {None}
    BY <1>9, Required DEF GovernCreate, GovernUpgrade, AllLabels, TypeOK
  <2>2. outdated' \in BOOLEAN
    <3>1. CASE GovernCreate(j)
      BY <3>1 DEF GovernCreate, TypeOK
    <3>2. CASE GovernUpgrade(j)
      <4>1. outdated' = Insufficient(highestLabel(governors[j].types))
        BY <3>2 DEF GovernUpgrade
      <4>2. Insufficient(highestLabel(governors[j].types)) \in BOOLEAN
        BY DEF Insufficient
      <4> QED BY <4>1, <4>2
    <3> QED BY <1>9, <3>1, <3>2
  <2> QED BY <1>9, <2>1, <2>2 DEF GovernCreate, GovernUpgrade, Govern, TypeOK, Governor
<1>10. ASSUME NEW u \in Users, AssignLabel(u)
      PROVE  TypeOK'
  BY <1>10 DEF AssignLabel, TypeOK, AllLabels
<1>11. CASE ChangeRules
  BY <1>11, ConstantsAssumption DEF ChangeRules, TypeOK
<1>12. CASE UNCHANGED vars
  BY <1>12 DEF vars, TypeOK
<1> QED
  BY <1>1, <1>2, <1>3, <1>4, <1>5, <1>6, <1>7, <1>8, <1>9, <1>10, <1>11, <1>12
  DEF Next, ProcessJob, ApplyLabelRules, AutoApplyGovernance

\* Every variable stays within its type; in particular autoApplyGovernance never
\* derives a label from no classification.
THEOREM TypeCorrect == Spec => []TypeOK
<1> QED BY TypeInit, TypeStep, PTL DEF Spec

-----------------------------------------------------------------------------
(* Labelled. *)

\* While a classified dataset has no label, some worker has yet to store one.
Labels(w) == workers[w].pc \in {"classify", "rules", "store"}
LabelledInv == found # {} /\ label = None => \E w \in Workers : Labels(w)

\* A worker lets go only of a dataset that it has labelled or found nothing in.
LEMMA LabelledStep == TypeOK /\ LabelledInv /\ [Next]_vars => LabelledInv'
<1> SUFFICES ASSUME TypeOK, LabelledInv, [Next]_vars, found' # {}, label' = None
             PROVE  \E w \in Workers : Labels(w)'
  BY DEF LabelledInv
<1>1. ASSUME NEW w \in Workers, Clear(w)
      PROVE  FALSE
  BY <1>1 DEF Clear
<1>2. ASSUME NEW w \in Workers, Classify(w)
      PROVE  \E v \in Workers : Labels(v)'
  <2>1. Labels(w)'
    BY <1>2 DEF Classify, Labels, TypeOK, Worker
  <2> QED BY <2>1
<1>3. ASSUME NEW w \in Workers, ReadTypes(w)
      PROVE  \E v \in Workers : Labels(v)'
  <2>1. Labels(w)'
    BY <1>3 DEF ReadTypes, Labels, TypeOK, Worker
  <2> QED BY <2>1
<1>4. ASSUME NEW w \in Workers, ReadRules(w)
      PROVE  \E v \in Workers : Labels(v)'
  <2>1. PICK l \in AssignedLabels(workers[w].types, rules) :
          workers' = [workers EXCEPT ![w] = [@ EXCEPT !.pc = IF l = None THEN "report" ELSE "store",
                                                      !.label = l]]
    BY <1>4 DEF ReadRules
  <2>2. l # None
    BY <2>1, AssignedNamed DEF TypeOK
  <2>3. Labels(w)'
    BY <2>1, <2>2 DEF Labels, TypeOK, Worker
  <2> QED BY <2>3
<1>5. ASSUME NEW w \in Workers, Store(w)
      PROVE  FALSE
  BY <1>5 DEF Store, TypeOK
<1>6. ASSUME NEW w \in Workers, Mirror(w) \/ Report(w) \/ ReportLost(w)
      PROVE  \E v \in Workers : Labels(v)'
  <2>1. PICK v \in Workers : Labels(v)
    BY <1>6 DEF LabelledInv, Mirror, Report, ReportLost
  <2>2. Labels(v)'
    BY <1>6, <2>1 DEF Labels, Mirror, Report, ReportLost, Goto, TypeOK, Worker
  <2> QED BY <2>2
<1>7. ASSUME NEW j \in Jobs, AutoApplyGovernance(j)
      PROVE  \E w \in Workers : Labels(w)'
  <2>1. found' = found /\ workers' = workers
    BY <1>7 DEF AutoApplyGovernance, GovernRead, GovernLabel, GovernCreate, GovernUpgrade
  <2>2. label = None
    BY <1>7, Required
    DEF AutoApplyGovernance, GovernRead, GovernLabel, GovernCreate, GovernUpgrade, LabelNames, None
  <2> QED BY <2>1, <2>2 DEF LabelledInv, Labels
<1>8. ASSUME NEW u \in Users, AssignLabel(u)
      PROVE  FALSE
  BY <1>8 DEF AssignLabel, LabelNames, None
<1>9. CASE ChangeRules \/ UNCHANGED vars
  BY <1>9 DEF ChangeRules, vars, LabelledInv, Labels
<1> QED
  BY <1>1, <1>2, <1>3, <1>4, <1>5, <1>6, <1>7, <1>8, <1>9
  DEF Next, ProcessJob, ApplyLabelRules

\* A classified dataset has a label once the workers and the goroutines they
\* started are done: applyLabelRulesAndAssign labels without the gateway's help,
\* whatever other workers delete and insert meanwhile.
THEOREM LabelledCorrect == Spec => []Labelled
<1>1. Init => LabelledInv
  BY DEF Init, LabelledInv
<1>2. TypeOK /\ LabelledInv => Labelled
  BY DEF LabelledInv, Labelled, Labels, AtRest
<1> QED BY <1>1, <1>2, TypeInit, TypeStep, LabelledStep, PTL DEF Spec

-----------------------------------------------------------------------------
(* LabelSufficient. *)

TooLow == found # {} /\ Insufficient(label)

\* Who will raise the label, or could have: a busy worker, whose callback is
\* still to come, and a goroutine that has yet to read the types, has read ones
\* that require enough, or was never started. A goroutine about to create the
\* label does not count: its INSERT may be refused.
Requires(j) == ~ labelPriority(highestLabel(governors[j].types)) < labelPriority(highestLabel(found))
Raiser(j) == \/ governors[j].pc \in {"read", "lost"}
             \/ governors[j].pc \in {"label", "upgrade"} /\ Requires(j)

WorkerActs == \E w \in Workers : workers[w].pc # "idle"
GovernorActs == \E j \in Jobs : Raiser(j)

\* While the label is too low, and not because a goroutine wrote it after its
\* types were outdated, somebody has yet to raise it.
SufficientInv == TooLow /\ ~ outdated => WorkerActs \/ GovernorActs

\* Every step that leaves the label too low leaves somebody who has yet to raise it.
LEMMA SufficientStep ==
    ASSUME TypeOK, LabelledInv, SufficientInv, [Next]_vars
    PROVE  SufficientInv'
<1> SUFFICES ASSUME TooLow', ~ outdated'
             PROVE  (WorkerActs \/ GovernorActs)'
  BY DEF SufficientInv
<1>1. ASSUME NEW w \in Workers, Clear(w) \/ Classify(w) \/ ApplyLabelRules(w) \/ Mirror(w)
      PROVE  WorkerActs'
  <2>1. CASE Clear(w)
    BY <2>1 DEF Clear, TooLow
  <2>2. CASE Classify(w) \/ ReadTypes(w) \/ ReadRules(w)
    <3>1. CASE Classify(w)
      BY <3>1 DEF Classify, WorkerActs, TypeOK, Worker
    <3>2. CASE ReadTypes(w)
      BY <3>2 DEF ReadTypes, WorkerActs, TypeOK, Worker
    <3>3. CASE ReadRules(w)
      BY <3>3 DEF ReadRules, WorkerActs, TypeOK, Worker
    <3> QED BY <2>2, <3>1, <3>2, <3>3
  <2>3. CASE Store(w) \/ Mirror(w)
    <3>1. workers'[w].pc # "idle"
      BY <2>3 DEF Store, Mirror, Goto, TypeOK, Worker
    <3> QED BY <3>1 DEF WorkerActs
  <2> QED BY <1>1, <2>1, <2>2, <2>3 DEF ApplyLabelRules
<1>2. ASSUME NEW w \in Workers, Report(w) \/ ReportLost(w)
      PROVE  (WorkerActs \/ GovernorActs)'
  <2>1. workers[w].job \in Jobs
    BY <1>2 DEF Report, ReportLost, TypeOK
  <2>2. governors'[workers[w].job].pc \in {"read", "lost"}
    BY <1>2, <2>1 DEF Report, ReportLost, Govern, TypeOK, Governor
  <2> QED BY <2>1, <2>2 DEF GovernorActs, Raiser
<1>3. ASSUME NEW j \in Jobs, AutoApplyGovernance(j)
      PROVE  (WorkerActs \/ GovernorActs)'
  <2>1. workers' = workers /\ found' = found
    BY <1>3 DEF AutoApplyGovernance, GovernRead, GovernLabel, GovernCreate, GovernUpgrade
  <2>2. label = None => WorkerActs'
    BY <2>1 DEF LabelledInv, Labels, WorkerActs, TooLow
  <2> SUFFICES ASSUME label # None
               PROVE  (WorkerActs \/ GovernorActs)'
    BY <2>2
  <2>3. \A k \in Jobs \ {j} : Raiser(k) => Raiser(k)'
    BY <1>3, <2>1
    DEF AutoApplyGovernance, GovernRead, GovernLabel, GovernCreate, GovernUpgrade, Govern, TypeOK,
        Raiser, Requires
  <2>4. CASE GovernRead(j)
    <3>1. governors'[j].pc = "label" /\ governors'[j].types = found'
      BY <2>1, <2>4 DEF GovernRead, TooLow, TypeOK
    <3>2. Requires(j)'
      BY <3>1, Required DEF Requires
    <3> QED BY <3>1, <3>2 DEF GovernorActs, Raiser
  <2>5. CASE GovernLabel(j)
    <3>1. TooLow /\ ~ outdated
      BY <2>5 DEF GovernLabel, TooLow, Insufficient
    <3>2. CASE Raiser(j)
      <4>1. governors[j].pc = "label" /\ Requires(j)
        BY <2>5, <3>2 DEF GovernLabel, Raiser
      <4>2. Raises(governors[j].types, label)
        BY <3>1, <4>1, Required DEF Requires, Raises, TooLow, Insufficient
      <4>3. governors' = [governors EXCEPT ![j].pc = "upgrade"]
        BY <2>5, <4>2 DEF GovernLabel, Govern
      <4>4. governors'[j].pc = "upgrade" /\ governors'[j].types = governors[j].types
        BY <4>3 DEF TypeOK, Governor
      <4> QED BY <2>1, <4>1, <4>4 DEF GovernorActs, Raiser, Requires
    <3>3. CASE ~ Raiser(j)
      BY <2>1, <2>3, <3>1, <3>3 DEF SufficientInv, WorkerActs, GovernorActs
    <3> QED BY <3>2, <3>3
  <2>6. CASE GovernCreate(j)
    <3>1. TooLow /\ ~ outdated
      BY <2>6 DEF GovernCreate, TooLow, Insufficient
    <3>2. ~ Raiser(j)
      BY <2>6 DEF GovernCreate, Raiser
    <3> QED BY <2>1, <2>3, <3>1, <3>2 DEF SufficientInv, WorkerActs, GovernorActs
  <2>7. CASE GovernUpgrade(j)
    BY <2>1, <2>7 DEF GovernUpgrade, TooLow, Insufficient
  <2> QED BY <1>3, <2>4, <2>5, <2>6, <2>7 DEF AutoApplyGovernance
<1>4. ASSUME NEW u \in Users, AssignLabel(u)
      PROVE  (WorkerActs \/ GovernorActs)'
  <2>1. TooLow /\ ~ outdated
    BY <1>4, Required DEF AssignLabel, TooLow, Insufficient
  <2> QED BY <1>4, <2>1 DEF AssignLabel, SufficientInv, WorkerActs, GovernorActs, Raiser, Requires
<1>5. CASE ChangeRules \/ UNCHANGED vars
  BY <1>5 DEF ChangeRules, vars, TooLow, Insufficient, SufficientInv, WorkerActs, GovernorActs,
              Raiser, Requires
<1> QED BY <1>1, <1>2, <1>3, <1>4, <1>5 DEF Next, ProcessJob

\* The label at rest is as high as the gateway requires, for any entity types,
\* rules, workers, jobs and users, unless a callback was lost or a goroutine
\* raised the label to what an outdated list requires: autoApplyGovernance
\* raises what applyLabelRulesAndAssign wrote, in any order of the two.
THEOREM SufficientCorrect == Spec => []LabelSufficient
<1>1. Init => SufficientInv
  BY DEF Init, SufficientInv, TooLow
<1>2. TypeOK /\ SufficientInv => LabelSufficient
  BY DEF SufficientInv, LabelSufficient, TooLow, AtRest, WorkerActs, GovernorActs, Raiser
<1>3. Init => LabelledInv
  BY DEF Init, LabelledInv
<1>4. TypeOK /\ LabelledInv /\ SufficientInv /\ [Next]_vars => SufficientInv'
  BY SufficientStep
<1> QED BY <1>1, <1>2, <1>3, <1>4, TypeInit, TypeStep, LabelledStep, PTL DEF Spec

-----------------------------------------------------------------------------
(* Residency. *)

ResidencyRequest ==
    [op : {"none", "rule", "unrule", "update", "tag", "detect", "keep", "create"},
     at : {"new", "sources", "insert", "delete", "cascade", "write", "clear", "list", "detect",
           "done"},
     source : Sources \cup {Residency!Nobody}, rule : ResidencyRules \cup {Residency!Nobody},
     region : Regions \cup {Residency!Untagged, Residency!Absent},
     todo : SUBSET (ResidencyRules \X Sources)]

\* A handler is at the statements of its own operation only, and an evaluation
\* inserts violations of its own source.
InOrder(q) ==
    LET request == residencyRequests[q]
    IN  /\ request.at = "sources" => request.op = "rule" /\ request.rule \in ResidencyRules
        /\ request.at \in {"clear", "list"} => request.op = "update"
        /\ request.at \in {"detect", "write", "clear", "list"} => request.source \in Sources
        /\ request.at = "insert" =>
               \/ request.op = "rule"
               \/ request.op = "update" /\ \A v \in request.todo : v[2] = request.source

ResidencyTypes ==
    /\ region \in [Sources -> Regions \cup {Residency!Untagged, Residency!Absent}]
    /\ residencyRules \in SUBSET ResidencyRules
    /\ residencyRequests \in [ResidencyRequests -> ResidencyRequest]
    /\ \A q \in ResidencyRequests : InOrder(q)

\* A rule whose violations are being deleted is gone.
Gone == \A q \in ResidencyRequests :
            residencyRequests[q].at = "cascade" => residencyRequests[q].rule \notin residencyRules

\* Request q evaluates source s, with the region it has written.
Evaluates(q, s) == /\ residencyRequests[q].op = "update" /\ residencyRequests[q].source = s
                   /\ residencyRequests[q].at \in {"clear", "list", "insert"}
                   /\ ~ Residency!Answered(q)

\* Nobody evaluates a checked source with another region than it has.
UpToDate ==
    \A s \in Residency!Stored \ unchecked, q \in ResidencyRequests :
        Evaluates(q, s) => residencyRequests[q].region = region[s]

\* Request q will insert the violation <<r, s>>, or list it.
Will(q, r, s) ==
    \/ residencyRequests[q].at = "sources" /\ residencyRequests[q].rule = r
    \/ residencyRequests[q].at = "insert" /\ <<r, s>> \in residencyRequests[q].todo
    \/ residencyRequests[q].at \in {"clear", "list"} /\ residencyRequests[q].source = s

\* A violation that is missing is one that somebody has yet to insert.
Owed(r, s) == \E q \in ResidencyRequests : Will(q, r, s)
AllOwed ==
    \A s \in Residency!Stored \ unchecked, r \in residencyRules :
        Residency!Violates(r, region[s]) => <<r, s>> \in violations \/ Owed(r, s)

ResidencyInv == ResidencyTypes /\ Gone /\ UpToDate /\ AllOwed

\* Initially the violations are those that the rules and the sources imply.
LEMMA ResidencyStart == Residency!Init => ResidencyInv
<1> SUFFICES ASSUME Residency!Init
             PROVE  ResidencyInv
  OBVIOUS
<1>1. ResidencyTypes
  BY DEF Residency!Init, ResidencyTypes, ResidencyRequest, InOrder, Residency!New,
     Residency!Untagged, Residency!Nobody
<1>2. \A q \in ResidencyRequests : residencyRequests[q].at = "new"
  BY DEF Residency!Init, Residency!New
<1>3. Gone /\ UpToDate
  BY <1>2 DEF Gone, UpToDate, Evaluates
<1>4. AllOwed
  BY DEF Residency!Init, AllOwed
<1> QED BY <1>1, <1>3, <1>4 DEF ResidencyInv

\* One request moves.
LEMMA OneMoves ==
    ASSUME ResidencyTypes, NEW q \in ResidencyRequests, NEW request \in ResidencyRequest,
           residencyRequests' = [residencyRequests EXCEPT ![q] = request]
    PROVE  /\ residencyRequests' \in [ResidencyRequests -> ResidencyRequest]
           /\ residencyRequests'[q] = request
           /\ \A p \in ResidencyRequests \ {q} :
                /\ residencyRequests'[p] = residencyRequests[p]
                /\ InOrder(p)'
                /\ \A s : Evaluates(p, s)' <=> Evaluates(p, s)
                /\ \A r, s : Will(p, r, s)' <=> Will(p, r, s)
BY DEF ResidencyTypes, InOrder, Evaluates, Will, Residency!Answered

\* A new rule is inserted, its sources still to be listed.
LEMMA InsertRuleStep ==
    ASSUME ResidencyInv, NEW q \in ResidencyRequests, Residency!InsertRule(q)
    PROVE  ResidencyInv'
<1>1. PICK r \in ResidencyRules \ residencyRules :
        /\ \A p \in ResidencyRequests : residencyRequests[p].rule # r
        /\ residencyRules' = residencyRules \cup {r}
        /\ residencyRequests' =
             [residencyRequests EXCEPT ![q] = [Residency!New EXCEPT !.op = "rule", !.at = "sources",
                                                                    !.rule = r]]
  BY DEF Residency!InsertRule, Residency!FreshRules
<1> DEFINE request == [Residency!New EXCEPT !.op = "rule", !.at = "sources", !.rule = r]
<1>2. /\ request \in ResidencyRequest
      /\ request.op = "rule" /\ request.at = "sources" /\ request.rule = r
  BY DEF ResidencyRequest, Residency!New, Residency!Nobody, Residency!Untagged
<1> HIDE DEF request
<1>3. /\ residencyRequests' \in [ResidencyRequests -> ResidencyRequest]
      /\ residencyRequests'[q] = request
      /\ \A p \in ResidencyRequests \ {q} :
           /\ residencyRequests'[p] = residencyRequests[p]
           /\ InOrder(p)'
           /\ \A s : Evaluates(p, s)' <=> Evaluates(p, s)
           /\ \A t, s : Will(p, t, s)' <=> Will(p, t, s)
  BY <1>1, <1>2, OneMoves DEF ResidencyInv, request
<1>4. /\ residencyRequests[q].at = "new" /\ UNCHANGED <<region, violations, unchecked>>
  BY DEF Residency!InsertRule
<1>5. ResidencyTypes'
  BY <1>1, <1>2, <1>3, <1>4 DEF ResidencyInv, ResidencyTypes, InOrder
<1>6. Gone'
  BY <1>1, <1>2, <1>3 DEF ResidencyInv, Gone
<1>7. UpToDate'
  BY <1>2, <1>3, <1>4 DEF ResidencyInv, UpToDate, Evaluates, Residency!Stored
<1>8. AllOwed'
  <2>1. \A s : Will(q, r, s)'
    BY <1>2, <1>3 DEF Will
  <2>2. \A t, s : Will(q, t, s) => FALSE
    BY <1>4 DEF Will
  <2>3. \A t, s : Owed(t, s) => Owed(t, s)'
    BY <1>3, <2>2 DEF Owed
  <2> QED BY <1>1, <1>4, <2>1, <2>3 DEF ResidencyInv, AllOwed, Owed, Residency!Stored,
        Residency!Violates
<1> QED BY <1>5, <1>6, <1>7, <1>8 DEF ResidencyInv

\* Source s was checked and has its region, and what was owed still is.
Kept(q, request, s) ==
    /\ s \in Residency!Stored \ unchecked /\ region'[s] = region[s]
    /\ Evaluates(q, s)' => request.region = region[s]
    /\ \A r \in residencyRules' :
         /\ \/ <<r, s>> \notin violations' => <<r, s>> \notin violations
            \/ ~ Residency!Violates(r, region[s])
            \/ Will(q, r, s)'
         /\ /\ <<r, s>> \notin violations'
            /\ Residency!Violates(r, region[s])
            /\ Will(q, r, s)
            => Will(q, r, s)'

\* Only q evaluates source s, whose region it has written, and all of it.
Taken(q, request, s) ==
    /\ \A p \in ResidencyRequests : Evaluates(p, s)' => p = q
    /\ request.region = region'[s]
    /\ \A r \in residencyRules' : Will(q, r, s)'

\* What a request may become: the parts of the invariant that concern it, and
\* no violation that it owed is dropped.
LEMMA Moved ==
    ASSUME ResidencyInv, NEW q \in ResidencyRequests, NEW request \in ResidencyRequest,
           residencyRequests' = [residencyRequests EXCEPT ![q] = request],
           region' \in [Sources -> Regions \cup {Residency!Untagged, Residency!Absent}],
           residencyRules' \subseteq residencyRules,
           InOrder(q)',
           request.at = "cascade" => request.rule \notin residencyRules',
           \A s \in (Residency!Stored \ unchecked)' : Kept(q, request, s) \/ Taken(q, request, s)
    PROVE  ResidencyInv'
<1>1. /\ residencyRequests' \in [ResidencyRequests -> ResidencyRequest]
      /\ residencyRequests'[q] = request
      /\ \A p \in ResidencyRequests \ {q} :
           /\ residencyRequests'[p] = residencyRequests[p]
           /\ InOrder(p)'
           /\ \A s : Evaluates(p, s)' <=> Evaluates(p, s)
           /\ \A r, s : Will(p, r, s)' <=> Will(p, r, s)
  BY OneMoves DEF ResidencyInv
<1>2. ResidencyTypes'
  BY <1>1 DEF ResidencyInv, ResidencyTypes
<1>3. Gone'
  BY <1>1 DEF ResidencyInv, Gone
<1>4. UpToDate'
  <2> SUFFICES ASSUME NEW s \in (Residency!Stored \ unchecked)', NEW p \in ResidencyRequests,
                      Evaluates(p, s)'
               PROVE  residencyRequests'[p].region = region'[s]
    BY DEF UpToDate
  <2>1. CASE p = q
    BY <1>1, <2>1 DEF Kept, Taken
  <2>2. CASE p # q
    <3>1. Evaluates(p, s) /\ residencyRequests'[p] = residencyRequests[p]
      BY <1>1, <2>2
    <3>2. s \in Residency!Stored \ unchecked /\ region'[s] = region[s]
      BY <2>2 DEF Kept, Taken
    <3> QED BY <3>1, <3>2 DEF ResidencyInv, UpToDate
  <2> QED BY <2>1, <2>2
<1>5. AllOwed'
  <2> SUFFICES ASSUME NEW s \in (Residency!Stored \ unchecked)', NEW r \in residencyRules',
                      Residency!Violates(r, region'[s]), <<r, s>> \notin violations'
               PROVE  Owed(r, s)'
    BY DEF AllOwed, Residency!Violates
  <2>1. ASSUME Will(q, r, s)'
        PROVE  Owed(r, s)'
    BY <2>1 DEF Owed
  <2>2. CASE /\ s \in Residency!Stored \ unchecked /\ region'[s] = region[s]
             /\ ~ Will(q, r, s)'
    <3>0. Kept(q, request, s)
      BY <2>2 DEF Taken
    <3>1. <<r, s>> \notin violations /\ Residency!Violates(r, region[s])
      BY <2>2, <3>0 DEF Kept
    <3>2. PICK p \in ResidencyRequests : Will(p, r, s)
      BY <2>2, <3>1 DEF ResidencyInv, AllOwed, Owed
    <3>3. p # q
      BY <2>2, <3>0, <3>1, <3>2 DEF Kept
    <3>4. Will(p, r, s)'
      BY <1>1, <3>2, <3>3
    <3> QED BY <3>4 DEF Owed
  <2>3. \/ s \in Residency!Stored \ unchecked /\ region'[s] = region[s]
        \/ Will(q, r, s)'
    BY DEF Kept, Taken
  <2> QED BY <2>1, <2>2, <2>3
<1> QED BY <1>2, <1>3, <1>4, <1>5 DEF ResidencyInv

\* A request's record in the next state.
LEMMA Becomes ==
    ASSUME ResidencyTypes, NEW q \in ResidencyRequests, NEW request,
           residencyRequests' = [residencyRequests EXCEPT ![q] = request]
    PROVE  residencyRequests'[q] = request
BY DEF ResidencyTypes

\* The sources that the new rule is evaluated for.
LEMMA ListSourcesStep ==
    ASSUME ResidencyInv, NEW q \in ResidencyRequests, Residency!ListSources(q)
    PROVE  ResidencyInv'
<1> DEFINE r == residencyRequests[q].rule
           breached == {s \in Residency!Stored : Residency!Violates(r, region[s])}
<1> PICK request : request = [residencyRequests[q] EXCEPT !.at = "insert", !.todo = {r} \X breached]
  OBVIOUS
<1>1. /\ residencyRequests' = [residencyRequests EXCEPT ![q] = request]
      /\ residencyRequests[q].at = "sources"
      /\ UNCHANGED <<region, residencyRules, violations, unchecked>>
  BY DEF Residency!ListSources
<1>2. residencyRequests[q] \in ResidencyRequest /\ InOrder(q)
  BY DEF ResidencyInv, ResidencyTypes
<1>3. residencyRequests[q].op = "rule" /\ r \in ResidencyRules
  BY <1>1, <1>2 DEF InOrder
<1>4. {r} \X breached \in SUBSET (ResidencyRules \X Sources)
  BY <1>3 DEF Residency!Stored
<1>5. request \in ResidencyRequest /\ request.op = "rule" /\ request.at = "insert"
      /\ request.todo = {r} \X breached
  BY <1>2, <1>3, <1>4 DEF ResidencyRequest
<1>6. residencyRequests'[q] = request
  BY <1>1, Becomes DEF ResidencyInv
<1>7. InOrder(q)'
  BY <1>5, <1>6 DEF InOrder
<1>8. \A s : ~ Evaluates(q, s)'
  BY <1>5, <1>6 DEF Evaluates
<1>9. \A s \in Residency!Stored, t \in residencyRules :
        Residency!Violates(t, region[s]) /\ Will(q, t, s) => Will(q, t, s)'
  BY <1>1, <1>5, <1>6 DEF Will
<1>10. region \in [Sources -> Regions \cup {Residency!Untagged, Residency!Absent}]
  BY DEF ResidencyInv, ResidencyTypes
<1> HIDE DEF r, breached
<1> QED BY <1>1, <1>5, <1>7, <1>8, <1>9, <1>10, Moved DEF Residency!Stored, Kept

\* A violation of the new rule, one source at a time.
LEMMA InsertViolationStep ==
    ASSUME ResidencyInv, NEW q \in ResidencyRequests, Residency!InsertViolation(q)
    PROVE  ResidencyInv'
<1> PICK v \in residencyRequests[q].todo :
        /\ violations' = violations \cup {v}
        /\ residencyRequests' = [residencyRequests EXCEPT
                                   ![q] = [@ EXCEPT !.todo = residencyRequests[q].todo \ {v}]]
  BY DEF Residency!InsertViolation
<1> PICK request : request = [residencyRequests[q] EXCEPT !.todo = residencyRequests[q].todo \ {v}]
  OBVIOUS
<1>1. /\ residencyRequests' = [residencyRequests EXCEPT ![q] = request]
      /\ residencyRequests[q].at = "insert"
      /\ UNCHANGED <<region, residencyRules, unchecked>>
  BY DEF Residency!InsertViolation
<1>2. /\ residencyRequests[q] \in ResidencyRequest /\ InOrder(q)
      /\ region \in [Sources -> Regions \cup {Residency!Untagged, Residency!Absent}]
  BY DEF ResidencyInv, ResidencyTypes
<1>3. /\ request \in ResidencyRequest
      /\ request.op = residencyRequests[q].op /\ request.at = "insert"
      /\ request.source = residencyRequests[q].source
      /\ request.region = residencyRequests[q].region
      /\ request.todo = residencyRequests[q].todo \ {v}
  BY <1>1, <1>2 DEF ResidencyRequest
<1>4. residencyRequests'[q] = request
  BY <1>1, Becomes DEF ResidencyInv
<1>5. InOrder(q)'
  BY <1>1, <1>2, <1>3, <1>4 DEF InOrder
<1>6. \A s : Evaluates(q, s)' => Evaluates(q, s)
  BY <1>1, <1>3, <1>4 DEF Evaluates, Residency!Answered
<1>7. \A s, r : Will(q, r, s) => Will(q, r, s)' \/ <<r, s>> = v
  BY <1>1, <1>3, <1>4 DEF Will
<1>8. \A s \in Residency!Stored \ unchecked : Evaluates(q, s) => request.region = region[s]
  BY <1>3 DEF ResidencyInv, UpToDate
<1> QED BY <1>1, <1>2, <1>3, <1>5, <1>6, <1>7, <1>8, Moved DEF Residency!Stored, Kept

\* deleteResidencyRule: the rule goes, and then its violations.
LEMMA RulesStep ==
    ASSUME ResidencyInv, NEW q \in ResidencyRequests, Residency!DeleteResidencyRule(q)
    PROVE  ResidencyInv'
<1>0. /\ residencyRequests[q] \in ResidencyRequest /\ InOrder(q)
      /\ region \in [Sources -> Regions \cup {Residency!Untagged, Residency!Absent}]
      /\ residencyRules \subseteq ResidencyRules
  BY DEF ResidencyInv, ResidencyTypes
<1>1. CASE Residency!FindRule(q)
  <2> PICK r \in residencyRules :
         residencyRequests' = [residencyRequests EXCEPT
           ![q] = [Residency!New EXCEPT !.op = "unrule", !.at = "delete", !.rule = r]]
    BY <1>1 DEF Residency!FindRule
  <2> PICK request : request = [Residency!New EXCEPT !.op = "unrule", !.at = "delete", !.rule = r]
    OBVIOUS
  <2>1. request \in ResidencyRequest /\ request.op = "unrule" /\ request.at = "delete"
    BY <1>0 DEF ResidencyRequest, Residency!New, Residency!Nobody, Residency!Untagged
  <2>2. residencyRequests'[q] = request
    BY Becomes DEF ResidencyInv
  <2>3. residencyRequests[q].at = "new" /\ UNCHANGED <<region, residencyRules, violations, unchecked>>
    BY <1>1 DEF Residency!FindRule
  <2>4. InOrder(q)' /\ \A s, t : ~ Evaluates(q, s)' /\ ~ Will(q, t, s)
    BY <2>1, <2>2, <2>3 DEF InOrder, Evaluates, Will
  <2> QED BY <1>0, <2>1, <2>3, <2>4, Moved DEF Residency!Stored, Kept
<1>2. CASE Residency!DeleteRule(q)
  <2> PICK request : request = [residencyRequests[q] EXCEPT !.at = "cascade"]
    OBVIOUS
  <2>1. /\ residencyRequests' = [residencyRequests EXCEPT ![q] = request]
        /\ residencyRequests[q].at = "delete"
        /\ residencyRules' = residencyRules \ {residencyRequests[q].rule}
        /\ UNCHANGED <<region, violations, unchecked>>
    BY <1>2 DEF Residency!DeleteRule, Residency!Goto
  <2>2. request \in ResidencyRequest /\ request.at = "cascade"
        /\ request.rule = residencyRequests[q].rule
    BY <1>0 DEF ResidencyRequest
  <2>3. residencyRequests'[q] = request
    BY <2>1, Becomes DEF ResidencyInv
  <2>4. InOrder(q)' /\ \A s, t : ~ Evaluates(q, s)' /\ ~ Will(q, t, s)
    BY <2>1, <2>2, <2>3 DEF InOrder, Evaluates, Will
  <2>5. residencyRules' \subseteq residencyRules /\ request.rule \notin residencyRules'
    BY <2>1, <2>2
  <2>6. Residency!Stored' = Residency!Stored
    BY <2>1 DEF Residency!Stored
  <2> QED BY <1>0, <2>1, <2>2, <2>4, <2>5, <2>6, Moved DEF Kept
<1>3. CASE Residency!DeleteRuleViolations(q)
  <2> PICK request : request = [residencyRequests[q] EXCEPT !.at = "done"]
    OBVIOUS
  <2>1. /\ residencyRequests' = [residencyRequests EXCEPT ![q] = request]
        /\ residencyRequests[q].at = "cascade"
        /\ violations' = {v \in violations : v[1] # residencyRequests[q].rule}
        /\ UNCHANGED <<region, residencyRules, unchecked>>
    BY <1>3 DEF Residency!DeleteRuleViolations, Residency!Goto
  <2>2. request \in ResidencyRequest /\ request.at = "done"
    BY <1>0 DEF ResidencyRequest
  <2>3. residencyRequests'[q] = request
    BY <2>1, Becomes DEF ResidencyInv
  <2>4. InOrder(q)' /\ \A s, t : ~ Evaluates(q, s)' /\ ~ Will(q, t, s)
    BY <2>1, <2>2, <2>3 DEF InOrder, Evaluates, Will
  <2>5. residencyRequests[q].rule \notin residencyRules
    BY <2>1 DEF ResidencyInv, Gone
  <2>6. \A r \in residencyRules : \A s : <<r, s>> \in violations => <<r, s>> \in violations'
    BY <2>1, <2>5
  <2> QED BY <1>0, <2>1, <2>2, <2>4, <2>6, Moved DEF Residency!Stored, Kept
<1> QED BY <1>1, <1>2, <1>3 DEF Residency!DeleteResidencyRule

\* A handler reads the row of a source and decides on the region it will write.
LEMMA FindSourceStep ==
    ASSUME ResidencyInv, NEW q \in ResidencyRequests, Residency!FindSource(q)
    PROVE  ResidencyInv'
<1>0. /\ region \in [Sources -> Regions \cup {Residency!Untagged, Residency!Absent}]
      /\ residencyRules \subseteq ResidencyRules
  BY DEF ResidencyInv, ResidencyTypes
<1> PICK s \in Residency!Stored, op \in {"update", "tag", "detect", "keep"} :
      \E g \in Residency!WrittenRegions(op, region[s]) :
         residencyRequests' = [residencyRequests EXCEPT
           ![q] = [Residency!New EXCEPT !.op = op, !.at = "write", !.source = s, !.region = g]]
  BY DEF Residency!FindSource
<1> PICK g \in Residency!WrittenRegions(op, region[s]) :
         residencyRequests' = [residencyRequests EXCEPT
           ![q] = [Residency!New EXCEPT !.op = op, !.at = "write", !.source = s, !.region = g]]
  OBVIOUS
<1> PICK request : request = [Residency!New EXCEPT !.op = op, !.at = "write", !.source = s,
                                                   !.region = g]
  OBVIOUS
<1>1. s \in Sources /\ g \in Regions \cup {Residency!Untagged, Residency!Absent}
  BY <1>0 DEF Residency!Stored, Residency!WrittenRegions
<1>2. /\ request \in ResidencyRequest /\ request.op = op /\ request.at = "write"
      /\ request.source = s
  BY <1>1 DEF ResidencyRequest, Residency!New, Residency!Nobody
<1>3. /\ residencyRequests[q].at = "new"
      /\ UNCHANGED <<region, residencyRules, violations, unchecked>>
  BY DEF Residency!FindSource
<1>4. residencyRequests'[q] = request
  BY Becomes DEF ResidencyInv
<1>5. InOrder(q)' /\ \A x, t : ~ Evaluates(q, x)' /\ ~ Will(q, t, x)
  BY <1>1, <1>2, <1>3, <1>4 DEF InOrder, Evaluates, Will
<1>6. Residency!Stored' = Residency!Stored
  BY <1>3 DEF Residency!Stored
<1> QED BY <1>0, <1>2, <1>3, <1>5, <1>6, Moved DEF Kept

\* updateDataSource evaluates after it has written; the other writers leave a
\* source whose region they change unchecked.
LEMMA WriteSourceStep ==
    ASSUME ResidencyInv, NEW q \in ResidencyRequests, Residency!WriteSource(q)
    PROVE  ResidencyInv'
<1> PICK old : old = residencyRequests[q]
  OBVIOUS
<1> PICK at : at = IF old.op = "update" THEN "clear" ELSE "done"
  OBVIOUS
<1> PICK s : s = old.source
  OBVIOUS
<1> PICK request : request = [old EXCEPT !.at = at]
  OBVIOUS
<1>0. /\ region \in [Sources -> Regions \cup {Residency!Untagged, Residency!Absent}]
      /\ residencyRules \subseteq ResidencyRules
      /\ old \in ResidencyRequest /\ InOrder(q)
  BY DEF ResidencyInv, ResidencyTypes
<1>1. /\ residencyRequests' = [residencyRequests EXCEPT ![q] = request]
      /\ old.at = "write"
      /\ region' = IF s \in Residency!Stored THEN [region EXCEPT ![s] = old.region] ELSE region
      /\ unchecked' = Residency!UncheckedBy(q, s)
      /\ UNCHANGED <<residencyRules, violations>>
  BY DEF Residency!WriteSource, Residency!Goto
<1>2. /\ request \in ResidencyRequest /\ request.at = at /\ request.op = old.op
      /\ request.source = s /\ request.region = old.region
  BY <1>0 DEF ResidencyRequest
<1>3. residencyRequests'[q] = request /\ s \in Sources
  BY <1>0, <1>1, Becomes DEF ResidencyInv, InOrder
<1>4. InOrder(q)'
  BY <1>2, <1>3 DEF InOrder
<1>5. region' \in [Sources -> Regions \cup {Residency!Untagged, Residency!Absent}]
  BY <1>0, <1>1 DEF ResidencyRequest
<1>6. \A x, t : ~ Will(q, t, x)
  BY <1>1 DEF Will
<1>7. ASSUME NEW x \in (Residency!Stored \ unchecked)', x # s
      PROVE  /\ x \in Residency!Stored \ unchecked /\ region'[x] = region[x]
             /\ ~ Evaluates(q, x)'
  <2>1. region'[x] = region[x] /\ x \in Residency!Stored
    BY <1>0, <1>1, <1>7 DEF Residency!Stored
  <2>2. x \notin unchecked
    BY <1>1, <1>7 DEF Residency!UncheckedBy
  <2> QED BY <1>2, <1>3, <1>7, <2>1, <2>2 DEF Evaluates
<1>8. CASE old.op = "update"
  <2>1. ASSUME s \in (Residency!Stored \ unchecked)'
        PROVE  /\ \A p \in ResidencyRequests : Evaluates(p, s)' => p = q
               /\ request.region = region'[s]
               /\ \A r \in residencyRules' : Will(q, r, s)'
    <3>1. s \in Residency!Stored /\ region'[s] = old.region
      BY <1>0, <1>1, <1>3, <2>1 DEF Residency!Stored
    <3>2. ~ Residency!EvaluatedBeside(q, s)
      BY <1>1, <1>8, <2>1 DEF Residency!UncheckedBy
    <3>3. \A p \in ResidencyRequests \ {q} : ~ Evaluates(p, s)'
      BY <1>1, <1>2, <3>2, OneMoves DEF Residency!EvaluatedBeside, Evaluates, ResidencyInv
    <3>4. \A r : Will(q, r, s)'
      BY <1>2, <1>3, <1>8 DEF Will
    <3> QED BY <1>2, <3>1, <3>3, <3>4
  <2>2. at # "cascade"
    BY <1>8
  <2>3. \A x \in (Residency!Stored \ unchecked)' : Kept(q, request, x) \/ Taken(q, request, x)
    BY <1>1, <1>6, <1>7, <2>1 DEF Kept, Taken
  <2> QED BY <1>1, <1>2, <1>4, <1>5, <2>2, <2>3, Moved
<1>9. CASE old.op # "update"
  <2>1. \A x : ~ Evaluates(q, x)'
    BY <1>2, <1>3, <1>9 DEF Evaluates
  <2>2. ASSUME s \in (Residency!Stored \ unchecked)'
        PROVE  s \in Residency!Stored \ unchecked /\ region'[s] = region[s]
    <3>1. old.region = region[s] /\ unchecked' = unchecked
      BY <1>1, <1>9, <2>2 DEF Residency!UncheckedBy
    <3> QED BY <1>0, <1>1, <2>2, <3>1 DEF Residency!Stored
  <2>3. at # "cascade"
    BY <1>9
  <2>4. \A x \in (Residency!Stored \ unchecked)' : Kept(q, request, x)
    BY <1>1, <1>6, <1>7, <2>1, <2>2 DEF Kept
  <2> QED BY <1>1, <1>2, <1>4, <1>5, <2>3, <2>4, Moved
<1> QED BY <1>8, <1>9

\* The violations of a source are deleted, and the rules listed that it violates.
LEMMA ReevaluateStep ==
    ASSUME ResidencyInv, NEW q \in ResidencyRequests, Residency!ReevaluateResidencyViolations(q)
    PROVE  ResidencyInv'
<1> PICK old : old = residencyRequests[q]
  OBVIOUS
<1>0. /\ region \in [Sources -> Regions \cup {Residency!Untagged, Residency!Absent}]
      /\ residencyRules \subseteq ResidencyRules
      /\ old \in ResidencyRequest /\ InOrder(q)
  BY DEF ResidencyInv, ResidencyTypes
<1>1. /\ old.at \in {"clear", "list"} /\ UNCHANGED <<region, residencyRules, unchecked>>
  BY DEF Residency!ReevaluateResidencyViolations, Residency!ClearAt, Residency!ListRulesAt
<1>2. /\ old.op = "update" /\ old.source \in Sources
      /\ \A s, r : Will(q, r, s) => s = old.source
      /\ Residency!Stored' = Residency!Stored
  BY <1>0, <1>1 DEF InOrder, Will, Residency!Stored
<1>3. \A s \in Residency!Stored \ unchecked : s = old.source => old.region = region[s]
  BY <1>1, <1>2 DEF ResidencyInv, UpToDate, Evaluates, Residency!Answered
<1>4. CASE Residency!ClearAt(q, "clear", "list")
  <2> PICK request : request = [old EXCEPT !.at = "list"]
    OBVIOUS
  <2>1. /\ residencyRequests' = [residencyRequests EXCEPT ![q] = request]
        /\ violations' = {v \in violations : v[2] # old.source}
    BY <1>4 DEF Residency!ClearAt, Residency!Goto
  <2>2. /\ request \in ResidencyRequest /\ request.at = "list" /\ request.op = "update"
        /\ request.source = old.source /\ request.region = old.region
    BY <1>0, <1>2 DEF ResidencyRequest
  <2>3. residencyRequests'[q] = request
    BY <2>1, Becomes DEF ResidencyInv
  <2>4. InOrder(q)'
    BY <1>2, <2>2, <2>3 DEF InOrder
  <2>5. \A s : Evaluates(q, s)' => s = old.source
    BY <2>2, <2>3 DEF Evaluates
  <2>6. \A r : Will(q, r, old.source)'
    BY <2>2, <2>3 DEF Will
  <2>7. \A r, s : <<r, s>> \in violations /\ s # old.source => <<r, s>> \in violations'
    BY <2>1
  <2>8. \A s \in (Residency!Stored \ unchecked)' : Kept(q, request, s)
    <3> TAKE s \in (Residency!Stored \ unchecked)'
    <3>1. s \in Residency!Stored \ unchecked /\ region'[s] = region[s]
      BY <1>1, <1>2
    <3>2. CASE s = old.source
      BY <1>3, <2>2, <2>6, <3>1, <3>2 DEF Kept
    <3>3. CASE s # old.source
      BY <1>2, <2>5, <2>7, <3>1, <3>3 DEF Kept
    <3> QED BY <3>2, <3>3
  <2> QED BY <1>0, <1>1, <2>1, <2>2, <2>4, <2>8, Moved
<1>5. CASE Residency!ListRulesAt(q, "list", "insert")
  <2> PICK breached : breached = {r \in residencyRules : Residency!Violates(r, old.region)}
    OBVIOUS
  <2> PICK request : request = [old EXCEPT !.at = "insert", !.todo = breached \X {old.source}]
    OBVIOUS
  <2>1. /\ residencyRequests' = [residencyRequests EXCEPT ![q] = request]
        /\ UNCHANGED violations
    BY <1>5 DEF Residency!ListRulesAt
  <2>2. breached \X {old.source} \in SUBSET (ResidencyRules \X Sources)
    BY <1>0, <1>2
  <2>3. /\ request \in ResidencyRequest /\ request.at = "insert" /\ request.op = "update"
        /\ request.source = old.source /\ request.region = old.region
        /\ request.todo = breached \X {old.source}
    BY <1>0, <1>2, <2>2 DEF ResidencyRequest
  <2>4. residencyRequests'[q] = request
    BY <2>1, Becomes DEF ResidencyInv
  <2>5. InOrder(q)'
    BY <2>3, <2>4 DEF InOrder
  <2>6. \A s : Evaluates(q, s)' => s = old.source
    BY <2>3, <2>4 DEF Evaluates
  <2>7. \A r \in residencyRules : Residency!Violates(r, old.region) => Will(q, r, old.source)'
    BY <2>3, <2>4 DEF Will
  <2>8. \A s \in (Residency!Stored \ unchecked)' : Kept(q, request, s)
    <3> TAKE s \in (Residency!Stored \ unchecked)'
    <3>1. s \in Residency!Stored \ unchecked /\ region'[s] = region[s]
      BY <1>1, <1>2
    <3>2. CASE s = old.source
      BY <1>1, <1>3, <2>1, <2>3, <2>7, <3>1, <3>2 DEF Kept
    <3>3. CASE s # old.source
      BY <1>2, <2>1, <2>6, <3>1, <3>3 DEF Kept
    <3> QED BY <3>2, <3>3
  <2> QED BY <1>0, <1>1, <2>1, <2>3, <2>5, <2>8, Moved
<1> QED BY <1>4, <1>5 DEF Residency!ReevaluateResidencyViolations

\* createDataSource: a source without violations, whose region is detected later.
LEMMA CreateSourceStep ==
    ASSUME ResidencyInv, NEW q \in ResidencyRequests, Residency!CreateDataSource(q)
    PROVE  ResidencyInv'
<1>0. /\ region \in [Sources -> Regions \cup {Residency!Untagged, Residency!Absent}]
      /\ residencyRules \subseteq ResidencyRules
      /\ residencyRequests[q] \in ResidencyRequest /\ InOrder(q)
  BY DEF ResidencyInv, ResidencyTypes
<1>1. CASE Residency!CreateSource(q)
  <2> PICK s \in Residency!FreshSources, g \in Regions \cup {Residency!Untagged} :
         /\ region' = [region EXCEPT ![s] = g]
         /\ unchecked' = unchecked \cup {s}
         /\ residencyRequests' = [residencyRequests EXCEPT
              ![q] = [Residency!New EXCEPT !.op = "create", !.at = "detect", !.source = s]]
    BY <1>1 DEF Residency!CreateSource
  <2> PICK request : request = [Residency!New EXCEPT !.op = "create", !.at = "detect", !.source = s]
    OBVIOUS
  <2>1. s \in Sources
    BY DEF Residency!FreshSources
  <2>2. request \in ResidencyRequest /\ request.op = "create" /\ request.at = "detect"
        /\ request.source = s
    BY <2>1 DEF ResidencyRequest, Residency!New, Residency!Nobody, Residency!Untagged
  <2>3. residencyRequests'[q] = request
    BY Becomes DEF ResidencyInv
  <2>4. residencyRequests[q].at = "new" /\ UNCHANGED <<residencyRules, violations>>
    BY <1>1 DEF Residency!CreateSource
  <2>5. InOrder(q)' /\ \A x, t : ~ Evaluates(q, x)' /\ ~ Will(q, t, x)
    BY <2>1, <2>2, <2>3, <2>4 DEF InOrder, Evaluates, Will
  <2>6. region' \in [Sources -> Regions \cup {Residency!Untagged, Residency!Absent}]
    BY <1>0
  <2>7. \A x \in (Residency!Stored \ unchecked)' : Kept(q, request, x)
    <3> TAKE x \in (Residency!Stored \ unchecked)'
    <3>1. x # s /\ x \in Sources /\ x \notin unchecked
      BY DEF Residency!Stored
    <3>2. region'[x] = region[x] /\ x \in Residency!Stored
      BY <1>0, <3>1 DEF Residency!Stored
    <3> QED BY <2>4, <2>5, <3>1, <3>2 DEF Kept
  <2> QED BY <2>2, <2>4, <2>5, <2>6, <2>7, Moved
<1>2. CASE Residency!DetectRegion(q)
  <2> PICK request : /\ residencyRequests' = [residencyRequests EXCEPT ![q] = request]
                     /\ \/ \E g \in Regions : request = [residencyRequests[q] EXCEPT !.at = "write",
                                                                                     !.region = g]
                        \/ request = [residencyRequests[q] EXCEPT !.at = "done"]
    BY <1>2 DEF Residency!DetectRegion, Residency!Goto
  <2>1. /\ residencyRequests[q].at = "detect"
        /\ UNCHANGED <<region, residencyRules, violations, unchecked>>
    BY <1>2 DEF Residency!DetectRegion
  <2>2. request \in ResidencyRequest /\ request.at \in {"write", "done"}
        /\ request.source = residencyRequests[q].source
    BY <1>0 DEF ResidencyRequest
  <2>3. residencyRequests'[q] = request
    BY Becomes DEF ResidencyInv
  <2>4. InOrder(q)' /\ \A x, t : ~ Evaluates(q, x)' /\ ~ Will(q, t, x)
    BY <1>0, <2>1, <2>2, <2>3 DEF InOrder, Evaluates, Will
  <2>5. Residency!Stored' = Residency!Stored
    BY <2>1 DEF Residency!Stored
  <2>6. \A x \in (Residency!Stored \ unchecked)' : Kept(q, request, x)
    BY <2>1, <2>4, <2>5 DEF Kept
  <2> QED BY <1>0, <2>1, <2>2, <2>4, <2>6, Moved
<1> QED BY <1>1, <1>2 DEF Residency!CreateDataSource

\* deleteDataSource: the source goes and its violations stay.
LEMMA DeleteSourceStep ==
    ASSUME ResidencyInv, NEW q \in ResidencyRequests, Residency!DeleteSource(q)
    PROVE  ResidencyInv'
<1>0. /\ region \in [Sources -> Regions \cup {Residency!Untagged, Residency!Absent}]
      /\ residencyRules \subseteq ResidencyRules
      /\ residencyRequests[q] \in ResidencyRequest /\ InOrder(q)
  BY DEF ResidencyInv, ResidencyTypes
<1> PICK request : request = [residencyRequests[q] EXCEPT !.at = "done"]
  OBVIOUS
<1> PICK s \in Residency!Stored : region' = [region EXCEPT ![s] = Residency!Absent]
  BY DEF Residency!DeleteSource
<1>1. /\ residencyRequests' = [residencyRequests EXCEPT ![q] = request]
      /\ residencyRequests[q].at = "new"
      /\ UNCHANGED <<residencyRules, violations, unchecked>>
  BY DEF Residency!DeleteSource, Residency!Goto
<1>2. request \in ResidencyRequest /\ request.at = "done"
  BY <1>0 DEF ResidencyRequest
<1>3. residencyRequests'[q] = request
  BY <1>1, Becomes DEF ResidencyInv
<1>4. InOrder(q)' /\ \A x, t : ~ Evaluates(q, x)' /\ ~ Will(q, t, x)
  BY <1>1, <1>2, <1>3 DEF InOrder, Evaluates, Will
<1>5. region' \in [Sources -> Regions \cup {Residency!Untagged, Residency!Absent}]
  BY <1>0
<1>6. \A x \in (Residency!Stored \ unchecked)' : Kept(q, request, x)
  <2> TAKE x \in (Residency!Stored \ unchecked)'
  <2>1. x # s /\ x \in Sources /\ x \notin unchecked
    BY <1>0, <1>1 DEF Residency!Stored
  <2>2. region'[x] = region[x] /\ x \in Residency!Stored
    BY <1>0, <2>1 DEF Residency!Stored
  <2> QED BY <1>1, <1>4, <2>1, <2>2 DEF Kept
<1> QED BY <1>0, <1>1, <1>2, <1>4, <1>5, <1>6, Moved

\* A request that stops half way leaves unchecked whatever it owed.
LEMMA AbandonStep ==
    ASSUME ResidencyInv, NEW q \in ResidencyRequests, Residency!Abandon(q)
    PROVE  ResidencyInv'
<1> PICK old : old = residencyRequests[q]
  OBVIOUS
<1>0. /\ region \in [Sources -> Regions \cup {Residency!Untagged, Residency!Absent}]
      /\ residencyRules \subseteq ResidencyRules
      /\ old \in ResidencyRequest /\ InOrder(q)
  BY DEF ResidencyInv, ResidencyTypes
<1> PICK request : request = [old EXCEPT !.at = "done"]
  OBVIOUS
<1>1. /\ residencyRequests' = [residencyRequests EXCEPT ![q] = request]
      /\ unchecked' = unchecked \cup (CASE old.op = "rule" -> Residency!Stored
                                        [] old.op = "update" -> {old.source}
                                        [] OTHER -> {})
      /\ UNCHANGED <<region, residencyRules, violations>>
  BY DEF Residency!Abandon, Residency!Goto
<1>2. request \in ResidencyRequest /\ request.at = "done"
  BY <1>0 DEF ResidencyRequest
<1>3. residencyRequests'[q] = request
  BY <1>1, Becomes DEF ResidencyInv
<1>4. InOrder(q)' /\ \A x : ~ Evaluates(q, x)'
  BY <1>2, <1>3 DEF InOrder, Evaluates
<1>5. Residency!Stored' = Residency!Stored
  BY <1>1 DEF Residency!Stored
<1>6. \A x \in (Residency!Stored \ unchecked)' : Kept(q, request, x)
  <2> TAKE x \in (Residency!Stored \ unchecked)'
  <2>1. x \in Residency!Stored \ unchecked
    BY <1>1, <1>5
  <2>2. CASE old.op = "rule"
    BY <1>1, <1>5, <2>2
  <2>3. CASE old.op = "update"
    <3>1. x # old.source
      BY <1>1, <2>3
    <3>2. \A t : ~ Will(q, t, x)
      BY <1>0, <2>3, <3>1 DEF InOrder, Will
    <3> QED BY <1>1, <1>4, <2>1, <3>2 DEF Kept
  <2>4. CASE old.op \notin {"rule", "update"}
    <3>1. \A t : ~ Will(q, t, x)
      BY <1>0, <2>4 DEF InOrder, Will
    <3> QED BY <1>1, <1>4, <2>1, <3>1 DEF Kept
  <2> QED BY <2>2, <2>3, <2>4
<1> QED BY <1>0, <1>1, <1>2, <1>4, <1>6, Moved

\* Every step of Residency keeps its invariant.
LEMMA ResidencyStep == ResidencyInv /\ Residency!Next => ResidencyInv'
<1> SUFFICES ASSUME ResidencyInv, NEW q \in ResidencyRequests,
                    \/ Residency!CreateResidencyRule(q) \/ Residency!DeleteResidencyRule(q)
                    \/ Residency!UpdateDataSource(q) \/ Residency!InsertViolation(q)
                    \/ Residency!CreateDataSource(q) \/ Residency!DeleteSource(q)
                    \/ Residency!Abandon(q)
             PROVE  ResidencyInv'
  BY DEF Residency!Next
<1>1. CASE Residency!CreateResidencyRule(q)
  BY <1>1, InsertRuleStep, ListSourcesStep DEF Residency!CreateResidencyRule
<1>2. CASE Residency!UpdateDataSource(q)
  BY <1>2, FindSourceStep, WriteSourceStep, ReevaluateStep DEF Residency!UpdateDataSource
<1> QED BY <1>1, <1>2, RulesStep, InsertViolationStep, CreateSourceStep, DeleteSourceStep,
          AbandonStep

\* Once every handler is done, nobody owes a violation.
LEMMA NoneOwed == ResidencyInv => Residency!NoViolationMissed
<1> SUFFICES ASSUME ResidencyInv, Residency!AtRest,
                    NEW s \in Residency!Stored \ unchecked, NEW r \in residencyRules,
                    Residency!Violates(r, region[s])
             PROVE  <<r, s>> \in violations
  BY DEF Residency!NoViolationMissed
<1>1. \A q \in ResidencyRequests : ~ Will(q, r, s)
  BY DEF Residency!AtRest, Residency!Answered, Will
<1> QED BY <1>1 DEF ResidencyInv, AllOwed, Owed

-----------------------------------------------------------------------------
(* Assessments. *)

DpiaRequest ==
    [op : {"none", "step", "status"},
     at : {"new", "consult", "store", "approve", "status", "done"},
     to : Dpia!StepStatuses \cup Dpia!Statuses,
     steps : [Dpia!Steps -> Dpia!StepStatuses]]

DpiaTypes ==
    /\ steps \in [Dpia!Steps -> Dpia!StepStatuses]
    /\ consulted \in BOOLEAN
    /\ dpiaRequests \in [DpiaRequests -> DpiaRequest]

\* A handler is at the statements of its own operation only; one that is to
\* store the officer's step as completed has recorded the consultation, and so
\* has one that approved.
Careful(q) ==
    LET request == dpiaRequests[q]
    IN  /\ request.at = "new" => request.op = "none"
        /\ request.at = "approve" => request.to = "approved"
        /\ request.at \in {"approve", "status"} => request.op = "status"
        /\ request.at = "status" /\ request.to = "approved" => consulted
        /\ request.at = "store" /\ request.steps["dpo_consultation"] = "completed" => consulted

DpiaInv == DpiaTypes /\ (\A q \in DpiaRequests : Careful(q)) /\ CompletedWasConsulted

\* A new assessment has completed nothing.
LEMMA DpiaStart == Dpia!Init => DpiaInv
<1> SUFFICES ASSUME Dpia!Init
             PROVE  DpiaInv
  OBVIOUS
<1>1. Dpia!defaultDPIASteps \in [Dpia!Steps -> Dpia!StepStatuses]
      /\ Dpia!defaultDPIASteps["dpo_consultation"] = "pending"
  BY DEF Dpia!defaultDPIASteps, Dpia!Steps, Dpia!StepStatuses
<1>2. DpiaTypes /\ \A q \in DpiaRequests : Careful(q)
  BY <1>1 DEF Dpia!Init, Dpia!New, DpiaTypes, DpiaRequest, Dpia!StepStatuses, Careful
<1>3. CompletedWasConsulted
  BY <1>1 DEF Dpia!Init, CompletedWasConsulted, Dpia!CompletedWasConsulted
<1> QED BY <1>2, <1>3 DEF DpiaInv

\* An assessment is completed by its steps only when the officer's is done.
LEMMA CompletedByOfficer ==
    ASSUME NEW all, Dpia!computeDPIAStatus(all) = "completed"
    PROVE  all["dpo_consultation"] \in {"completed", "skipped"}
<1> SUFFICES ASSUME ~ \A s \in Dpia!Steps : Dpia!IsDone(all[s])
             PROVE  FALSE
  BY DEF Dpia!Steps, Dpia!IsDone
<1> QED BY DEF Dpia!computeDPIAStatus

\* One handler moves, without forgetting a consultation or what it was asked.
LEMMA DpiaMoved ==
    ASSUME DpiaInv, NEW q \in DpiaRequests, NEW request \in DpiaRequest,
           dpiaRequests' = [dpiaRequests EXCEPT ![q] = request],
           consulted' \in BOOLEAN, consulted => consulted',
           Careful(q)'
    PROVE  /\ dpiaRequests' \in [DpiaRequests -> DpiaRequest]
           /\ dpiaRequests'[q] = request
           /\ \A p \in DpiaRequests : Careful(p)'
           /\ \A p \in DpiaRequests \ {q} : dpiaRequests'[p] = dpiaRequests[p]
<1>1. dpiaRequests \in [DpiaRequests -> DpiaRequest]
  BY DEF DpiaInv, DpiaTypes
<1>2. \A p \in DpiaRequests \ {q} : dpiaRequests'[p] = dpiaRequests[p]
  BY <1>1
<1>3. \A p \in DpiaRequests \ {q} : Careful(p)'
  BY <1>2 DEF DpiaInv, Careful
<1> QED BY <1>1, <1>2, <1>3

\* Its record in the next state.
LEMMA DpiaBecomes ==
    ASSUME DpiaInv, NEW q \in DpiaRequests, NEW request,
           dpiaRequests' = [dpiaRequests EXCEPT ![q] = request]
    PROVE  dpiaRequests'[q] = request
BY DEF DpiaInv, DpiaTypes

\* A status set outright stays on record.
LEMMA ForcedStays ==
    ASSUME DpiaInv, NEW q \in DpiaRequests, NEW request \in DpiaRequest,
           dpiaRequests' = [dpiaRequests EXCEPT ![q] = request],
           dpiaRequests[q].op = "status" =>
               request.op = "status" /\ request.to = dpiaRequests[q].to
    PROVE  Dpia!Forced => Dpia!Forced'
<1>1. dpiaRequests \in [DpiaRequests -> DpiaRequest]
  BY DEF DpiaInv, DpiaTypes
<1> QED BY <1>1 DEF Dpia!Forced

\* updateDPIAStep: the consultation is recorded before the steps that rely on it.
LEMMA UpdateStepStep ==
    ASSUME DpiaInv, NEW q \in DpiaRequests, Dpia!UpdateDPIAStep(q)
    PROVE  DpiaInv'
<1> PICK old : old = dpiaRequests[q]
  OBVIOUS
<1>0. /\ old \in DpiaRequest /\ Careful(q) /\ CompletedWasConsulted
      /\ steps \in [Dpia!Steps -> Dpia!StepStatuses] /\ consulted \in BOOLEAN
  BY DEF DpiaInv, DpiaTypes
<1>1. CASE Dpia!ReadForStep(q)
  <2> PICK s \in Dpia!Steps, to \in Dpia!StepStatuses :
         dpiaRequests' = [dpiaRequests EXCEPT ![q] =
            [op |-> "step", to |-> to, steps |-> [steps EXCEPT ![s] = to],
             at |-> IF s = "dpo_consultation" /\ to = "completed" THEN "consult" ELSE "store"]]
    BY <1>1 DEF Dpia!ReadForStep
  <2> PICK all : all = [steps EXCEPT ![s] = to]
    OBVIOUS
  <2> PICK at : at = IF s = "dpo_consultation" /\ to = "completed" THEN "consult" ELSE "store"
    OBVIOUS
  <2> PICK request : request = [op |-> "step", to |-> to, steps |-> all, at |-> at]
    OBVIOUS
  <2>1. old.at = "new" /\ UNCHANGED <<steps, dpiaStatus, consulted>>
    BY <1>1 DEF Dpia!ReadForStep
  <2>2. at \in {"consult", "store"} /\ all \in [Dpia!Steps -> Dpia!StepStatuses]
    BY <1>0
  <2>3. request \in DpiaRequest /\ request.at = at /\ request.op = "step"
        /\ request.steps = all
    BY <2>2 DEF DpiaRequest
  <2>4. dpiaRequests'[q] = request
    BY DpiaBecomes
  <2>5. at = "store" /\ all["dpo_consultation"] = "completed" => consulted
    <3>1. steps["dpo_consultation"] = "completed" => consulted
      BY <1>0 DEF CompletedWasConsulted, Dpia!CompletedWasConsulted
    <3>2. "dpo_consultation" \in Dpia!Steps
      BY DEF Dpia!Steps
    <3> QED BY <1>0, <3>1, <3>2
  <2>6. Careful(q)'
    BY <2>1, <2>2, <2>3, <2>4, <2>5 DEF Careful
  <2>7. Dpia!Forced => Dpia!Forced'
    <3>1. old.op = "none"
      BY <1>0, <2>1 DEF Careful
    <3> QED BY <2>3, <3>1, ForcedStays
  <2>8. CompletedWasConsulted'
    BY <1>0, <2>1, <2>7 DEF CompletedWasConsulted, Dpia!CompletedWasConsulted
  <2>9. DpiaTypes' /\ \A p \in DpiaRequests : Careful(p)'
    BY <1>0, <2>1, <2>3, <2>6, DpiaMoved DEF DpiaTypes
  <2> QED BY <2>8, <2>9 DEF DpiaInv
<1>2. CASE Dpia!ConsultAt(q, "consult", "store")
  <2> PICK request : request = [old EXCEPT !.at = "store"]
    OBVIOUS
  <2>1. /\ dpiaRequests' = [dpiaRequests EXCEPT ![q] = request]
        /\ consulted' = TRUE /\ UNCHANGED <<steps, dpiaStatus>>
    BY <1>2 DEF Dpia!ConsultAt, Dpia!Goto
  <2>2. request \in DpiaRequest /\ request.at = "store"
    BY <1>0 DEF DpiaRequest
  <2>3. dpiaRequests'[q] = request
    BY <2>1, DpiaBecomes
  <2>4. Careful(q)'
    BY <2>1, <2>2, <2>3 DEF Careful
  <2>5. CompletedWasConsulted'
    BY <2>1 DEF CompletedWasConsulted, Dpia!CompletedWasConsulted
  <2>6. DpiaTypes' /\ \A p \in DpiaRequests : Careful(p)'
    BY <1>0, <2>1, <2>2, <2>4, DpiaMoved DEF DpiaTypes
  <2> QED BY <2>5, <2>6 DEF DpiaInv
<1>3. CASE Dpia!StoreAt(q, "store", "done")
  <2> PICK request : request = [old EXCEPT !.at = "done"]
    OBVIOUS
  <2>1. /\ dpiaRequests' = [dpiaRequests EXCEPT ![q] = request]
        /\ old.at = "store" /\ steps' = old.steps
        /\ dpiaStatus' = Dpia!computeDPIAStatus(old.steps) /\ UNCHANGED consulted
    BY <1>3 DEF Dpia!StoreAt, Dpia!Goto
  <2>2. request \in DpiaRequest /\ request.at = "done"
    BY <1>0 DEF DpiaRequest
  <2>3. dpiaRequests'[q] = request
    BY <2>1, DpiaBecomes
  <2>4. Careful(q)'
    BY <2>1, <2>2, <2>3 DEF Careful
  <2>5. steps'["dpo_consultation"] = "completed" => consulted'
    BY <1>0, <2>1 DEF Careful
  <2>6. dpiaStatus' = "completed" /\ steps'["dpo_consultation"] # "skipped" => consulted'
    BY <2>1, <2>5, CompletedByOfficer
  <2>7. CompletedWasConsulted'
    BY <2>5, <2>6 DEF CompletedWasConsulted, Dpia!CompletedWasConsulted
  <2>8. steps' \in [Dpia!Steps -> Dpia!StepStatuses]
    BY <1>0, <2>1 DEF DpiaRequest
  <2>9. DpiaTypes' /\ \A p \in DpiaRequests : Careful(p)'
    BY <1>0, <2>1, <2>2, <2>4, <2>8, DpiaMoved DEF DpiaTypes
  <2> QED BY <2>7, <2>9 DEF DpiaInv
<1> QED BY <1>1, <1>2, <1>3 DEF Dpia!UpdateDPIAStep, Dpia!ConsultThenStore

\* updateDPIAStatus: an approval is recorded as a consultation too.
LEMMA UpdateStatusStep ==
    ASSUME DpiaInv, NEW q \in DpiaRequests, Dpia!UpdateDPIAStatus(q)
    PROVE  DpiaInv'
<1> PICK old : old = dpiaRequests[q]
  OBVIOUS
<1>0. /\ old \in DpiaRequest /\ Careful(q) /\ CompletedWasConsulted
      /\ steps \in [Dpia!Steps -> Dpia!StepStatuses] /\ consulted \in BOOLEAN
  BY DEF DpiaInv, DpiaTypes
<1>1. CASE Dpia!ReadForStatus(q)
  <2> PICK to \in Dpia!Statuses :
         dpiaRequests' = [dpiaRequests EXCEPT ![q] =
            [op |-> "status", to |-> to, steps |-> steps,
             at |-> IF to = "approved" THEN "approve" ELSE "status"]]
    BY <1>1 DEF Dpia!ReadForStatus
  <2> PICK at : at = IF to = "approved" THEN "approve" ELSE "status"
    OBVIOUS
  <2> PICK request : request = [op |-> "status", to |-> to, steps |-> steps, at |-> at]
    OBVIOUS
  <2>1. old.at = "new" /\ UNCHANGED <<steps, dpiaStatus, consulted>>
    BY <1>1 DEF Dpia!ReadForStatus
  <2>2. request \in DpiaRequest /\ request.at = at /\ request.op = "status" /\ request.to = to
    BY <1>0 DEF DpiaRequest
  <2>3. dpiaRequests'[q] = request
    BY DpiaBecomes
  <2>4. Careful(q)'
    BY <2>1, <2>2, <2>3 DEF Careful
  <2>5. Dpia!Forced => Dpia!Forced'
    <3>1. old.op = "none"
      BY <1>0, <2>1 DEF Careful
    <3> QED BY <2>2, <3>1, ForcedStays
  <2>6. CompletedWasConsulted'
    BY <1>0, <2>1, <2>5 DEF CompletedWasConsulted, Dpia!CompletedWasConsulted
  <2>7. DpiaTypes' /\ \A p \in DpiaRequests : Careful(p)'
    BY <1>0, <2>1, <2>2, <2>4, DpiaMoved DEF DpiaTypes
  <2> QED BY <2>6, <2>7 DEF DpiaInv
<1>2. CASE Dpia!Approve(q)
  <2> PICK request : request = [old EXCEPT !.at = "status"]
    OBVIOUS
  <2>1. /\ dpiaRequests' = [dpiaRequests EXCEPT ![q] = request] /\ old.at = "approve"
        /\ steps' = [old.steps EXCEPT !["dpo_consultation"] = "completed",
                                      !["sign_off"] = "completed"]
        /\ consulted' = TRUE
    BY <1>2 DEF Dpia!Approve, Dpia!Goto
  <2>2. request \in DpiaRequest /\ request.at = "status" /\ request.op = old.op
    BY <1>0 DEF DpiaRequest
  <2>3. dpiaRequests'[q] = request
    BY <2>1, DpiaBecomes
  <2>4. Careful(q)'
    BY <1>0, <2>1, <2>2, <2>3 DEF Careful
  <2>5. CompletedWasConsulted'
    BY <2>1 DEF CompletedWasConsulted, Dpia!CompletedWasConsulted
  <2>6. steps' \in [Dpia!Steps -> Dpia!StepStatuses]
    BY <1>0, <2>1 DEF DpiaRequest, Dpia!StepStatuses
  <2>7. DpiaTypes' /\ \A p \in DpiaRequests : Careful(p)'
    BY <1>0, <2>1, <2>2, <2>4, <2>6, DpiaMoved DEF DpiaTypes
  <2> QED BY <2>5, <2>7 DEF DpiaInv
<1>3. CASE Dpia!WriteStatus(q)
  <2> PICK request : request = [old EXCEPT !.at = "done"]
    OBVIOUS
  <2>1. /\ dpiaRequests' = [dpiaRequests EXCEPT ![q] = request] /\ old.at = "status"
        /\ dpiaStatus' = (IF old.to = "approved" THEN "completed" ELSE old.to)
        /\ UNCHANGED <<steps, consulted>>
    BY <1>3 DEF Dpia!WriteStatus, Dpia!Goto
  <2>2. request \in DpiaRequest /\ request.at = "done" /\ request.op = old.op
        /\ request.to = old.to
    BY <1>0 DEF DpiaRequest
  <2>3. dpiaRequests'[q] = request
    BY <2>1, DpiaBecomes
  <2>4. Careful(q)'
    BY <2>1, <2>2, <2>3 DEF Careful
  <2>5. old.op = "status"
    BY <1>0, <2>1 DEF Careful
  <2>6. dpiaStatus' = "completed" /\ ~ Dpia!Forced' => consulted
    <3>1. CASE old.to = "approved"
      BY <1>0, <2>1, <3>1 DEF Careful
    <3>2. CASE old.to # "approved"
      BY <2>1, <2>2, <2>3, <2>5, <3>2 DEF Dpia!Forced
    <3> QED BY <3>1, <3>2
  <2>7. CompletedWasConsulted'
    BY <1>0, <2>1, <2>6 DEF CompletedWasConsulted, Dpia!CompletedWasConsulted
  <2>8. DpiaTypes' /\ \A p \in DpiaRequests : Careful(p)'
    BY <1>0, <2>1, <2>2, <2>4, DpiaMoved DEF DpiaTypes
  <2> QED BY <2>7, <2>8 DEF DpiaInv
<1> QED BY <1>1, <1>2, <1>3 DEF Dpia!UpdateDPIAStatus

\* Every step of Dpia keeps its invariant.
LEMMA DpiaStep == DpiaInv /\ Dpia!Next => DpiaInv'
<1> SUFFICES ASSUME DpiaInv, NEW q \in DpiaRequests,
                    \/ Dpia!UpdateDPIAStep(q) \/ Dpia!UpdateDPIAStatus(q) \/ Dpia!Abandon(q)
             PROVE  DpiaInv'
  BY DEF Dpia!Next
<1>1. CASE Dpia!Abandon(q)
  <2> PICK old : old = dpiaRequests[q]
    OBVIOUS
  <2> PICK request : request = [old EXCEPT !.at = "done"]
    OBVIOUS
  <2>1. /\ dpiaRequests' = [dpiaRequests EXCEPT ![q] = request]
        /\ UNCHANGED <<steps, dpiaStatus, consulted>>
    BY <1>1 DEF Dpia!Abandon, Dpia!Goto
  <2>2. /\ old \in DpiaRequest /\ CompletedWasConsulted
        /\ steps \in [Dpia!Steps -> Dpia!StepStatuses] /\ consulted \in BOOLEAN
    BY DEF DpiaInv, DpiaTypes
  <2>3. request \in DpiaRequest /\ request.at = "done" /\ request.op = old.op
        /\ request.to = old.to
    BY <2>2 DEF DpiaRequest
  <2>4. dpiaRequests'[q] = request
    BY <2>1, DpiaBecomes
  <2>5. Careful(q)'
    BY <2>3, <2>4 DEF Careful
  <2>6. Dpia!Forced => Dpia!Forced'
    BY <2>1, <2>3, ForcedStays
  <2>7. CompletedWasConsulted'
    BY <2>1, <2>2, <2>6 DEF CompletedWasConsulted, Dpia!CompletedWasConsulted
  <2>8. DpiaTypes' /\ \A p \in DpiaRequests : Careful(p)'
    BY <2>1, <2>2, <2>3, <2>5, DpiaMoved DEF DpiaTypes
  <2> QED BY <2>7, <2>8 DEF DpiaInv
<1> QED BY <1>1, UpdateStepStep, UpdateStatusStep

-----------------------------------------------------------------------------
(* The governance handlers. *)

\* No violation is missed once the handlers are done, for any sources, rules
\* and requests: residency.go and updateDataSource, which write first and read
\* the other's table second, always leave one of the two to insert it.
THEOREM NoViolationMissedHolds == GovernanceSpec => []NoViolationMissed
<1>1. GovernanceInit => ResidencyInv
  BY ResidencyStart DEF GovernanceInit
<1>2. ResidencyInv /\ [GovernanceNext]_governanceVars => ResidencyInv'
  <2> SUFFICES ASSUME ResidencyInv, [GovernanceNext]_governanceVars
               PROVE  ResidencyInv'
    OBVIOUS
  <2>1. CASE UNCHANGED residencyVars
    BY <2>1 DEF residencyVars, ResidencyInv, ResidencyTypes, InOrder, Gone, UpToDate, Evaluates,
       AllOwed, Owed, Will, Residency!Stored, Residency!Answered
  <2> QED BY <2>1, ResidencyStep DEF GovernanceNext, MoveLabels, MoveResidency, MoveDpia,
        governanceVars
<1>3. ResidencyInv => NoViolationMissed
  BY NoneOwed DEF NoViolationMissed
<1> QED BY <1>1, <1>2, <1>3, PTL DEF GovernanceSpec

\* No assessment, nor its officer's step, is completed without the consultation
\* on record, for any steps and requests of dpia_cde_profiling.go: whoever is
\* to store the step as completed has recorded it before.
THEOREM CompletedWasConsultedHolds == GovernanceSpec => []CompletedWasConsulted
<1>1. GovernanceInit => DpiaInv
  BY DpiaStart DEF GovernanceInit
<1>2. DpiaInv /\ [GovernanceNext]_governanceVars => DpiaInv'
  <2> SUFFICES ASSUME DpiaInv, [GovernanceNext]_governanceVars
               PROVE  DpiaInv'
    OBVIOUS
  <2>1. CASE UNCHANGED dpiaVars
    BY <2>1 DEF dpiaVars, DpiaInv, DpiaTypes, Careful, CompletedWasConsulted,
       Dpia!CompletedWasConsulted, Dpia!Forced
  <2> QED BY <2>1, DpiaStep DEF GovernanceNext, MoveLabels, MoveResidency, MoveDpia,
        governanceVars
<1>3. DpiaInv => CompletedWasConsulted
  BY DEF DpiaInv
<1> QED BY <1>1, <1>2, <1>3, PTL DEF GovernanceSpec

\* The label of a dataset behaves under the governance handlers as Labels says,
\* so that the theorems above hold of it.
THEOREM LabelsWithin == GovernanceSpec => Spec
<1>1. GovernanceInit => Init
  BY DEF GovernanceInit
<1>2. [GovernanceNext]_governanceVars => [Next]_vars
  BY DEF GovernanceNext, MoveLabels, MoveResidency, MoveDpia, governanceVars
<1> QED BY <1>1, <1>2, PTL DEF GovernanceSpec, Spec
=============================================================================
