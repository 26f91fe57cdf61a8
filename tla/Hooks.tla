------------------------------- MODULE Hooks -------------------------------
(***************************************************************************)
(* The data hooks of the frontend (hooks/use-*.ts): which query keys the     *)
(* pages read under and what each mutation invalidates when it succeeds,     *)
(* beside the database tables that the server's handler of the same route    *)
(* reads or writes (internal/api, internal/external). Hooks that no page     *)
(* uses are left out, and rows are: the id in a key stands for the one row   *)
(* that the page shows.                                                      *)
(*                                                                           *)
(*   key          the query key; invalidateQueries matches it by prefix      *)
(*   reads        the tables behind the query                                *)
(*   mode         "auto" loads when shown, "poll" on an interval too,        *)
(*                "manual" only when asked (enabled: false), "local" is no   *)
(*                query at all but a fetch into a component's state          *)
(*   writes       the tables written before the answer is sent               *)
(*   later        the tables written after it, by a goroutine or a worker    *)
(*   invalidates  the keys that onSuccess invalidates                        *)
(***************************************************************************)

Query(key, reads) == [key |-> key, reads |-> reads, mode |-> "auto"]

Polled(key, reads) == [Query(key, reads) EXCEPT !.mode = "poll"]

Manual(key, reads) == [Query(key, reads) EXCEPT !.mode = "manual"]

Local(name, reads) == [Query(<<name>>, reads) EXCEPT !.mode = "local"]

\* The server has no route for the request, or refuses it, whatever the database holds.
Unrouted(key) == Query(key, {})

Mutation(writes, later, invalidates) ==
    [writes |-> writes, later |-> later, invalidates |-> invalidates]

UnroutedMutation(invalidates) == Mutation({}, {}, invalidates)

(* use-auth.ts: users, keys and invitations (internal/api/auth.go) *)
useCurrentUser == Unrouted(<<"currentUser">>)
useUpdateProfile == UnroutedMutation({<<"currentUser">>})
useUsers == Query(<<"users">>, {"users"})
useCreateUser == Mutation({"users"}, {}, {<<"users">>})
useDeleteUser == Mutation({"users"}, {}, {<<"users">>})
useAPIKeys == Query(<<"api-keys">>, {"api_keys"})
useCreateAPIKey == Mutation({"api_keys"}, {}, {<<"api-keys">>})
\* Mutant: the list is not invalidated.
useDeleteAPIKeyQuietly == Mutation({"api_keys"}, {}, {})
useDeleteAPIKey == Mutation({"api_keys"}, {}, {<<"api-keys">>})
useInvitations == Query(<<"invitations">>, {"invitations"})
useCreateInvitation == Mutation({"invitations"}, {}, {<<"invitations">>})
useCancelInvitation == Mutation({"invitations"}, {}, {<<"invitations">>})
useResendInvitation == Mutation({"invitations"}, {}, {<<"invitations">>})

(* use-jobs.ts: jobs, integrations, notifications (observability_jobs.go, rot_integrations.go) *)
useJobs == Query(<<"jobs">>, {"jobs"})
useCreateJob == Mutation({"jobs"}, {}, {<<"jobs">>})
useUpdateJob == Mutation({"jobs"}, {}, {<<"jobs">>, <<"jobs", "id">>})
useDeleteJob == Mutation({"jobs"}, {}, {<<"jobs">>})
useRunJobNow ==
    Mutation({"jobs", "job_executions"}, {"jobs", "job_executions"},
             {<<"jobs">>, <<"jobs", "id">>, <<"jobs", "id", "history">>})
useJobHistory == Query(<<"jobs", "id", "history">>, {"jobs", "job_executions"})
useIntegrations == Query(<<"integrations">>, {"integrations"})
useIntegration == Query(<<"integrations", "id">>, {"integrations"})
useCreateIntegration == Mutation({"integrations"}, {}, {<<"integrations">>})
useUpdateIntegration ==
    Mutation({"integrations"}, {}, {<<"integrations">>, <<"integrations", "id">>})
useDeleteIntegration == Mutation({"integrations"}, {}, {<<"integrations">>})
useTestIntegration == Mutation({"integrations", "integration_logs"}, {}, {})
useSyncIntegration == Mutation({"integrations"}, {}, {<<"integrations", "id">>})
useNotifications == Query(<<"notifications">>, {"notifications"})
useMarkNotificationRead == Mutation({"notifications"}, {}, {<<"notifications">>})
useMarkAllNotificationsRead == Mutation({"notifications"}, {}, {<<"notifications">>})
useDeleteNotification == Mutation({"notifications"}, {}, {<<"notifications">>})

(* use-datasources.ts: data sources and their scans (datasource.go) *)
useDataSources == Query(<<"datasources">>, {"datasources"})
useDataSource == Query(<<"datasources", "id">>, {"datasources"})
useCreateDataSource ==
    Mutation({"datasources", "audit_logs"}, {"datasources"}, {<<"datasources">>})
useDeleteDataSource == Mutation({"datasources", "audit_logs"}, {}, {<<"datasources">>})
useTriggerScan ==
    Mutation({"datasources", "scan_logs", "audit_logs"},
             {"datasources", "scan_logs", "classifications", "labels", "audit_logs"},
             {<<"datasources", "id">>})
useScanLogs == Query(<<"datasources", "id", "logs">>, {"datasources", "scan_logs"})
useDataSourceClassificationStats ==
    Query(<<"datasources", "id", "classification-stats">>,
          {"classifications", "datasources"})

(* use-gate.ts: the AI gate (gate.go) *)
useGateQuery == Mutation({"gate_queries", "data_flows"}, {}, {})
useGateStats == Polled(<<"gate-stats">>, {"gate_queries"})
useGateQueries(limit) == Query(<<"gate-queries", limit>>, {"gate_queries"})

(* use-remediation.ts: remediation (remediation_reports.go) *)
useRemediationActions ==
    Query(<<"remediation-actions">>, {"datasources", "remediation_actions"})
useRemediationLogs == Query(<<"remediation-logs", "id">>, {"audit_logs"})
useExecuteRemediationAction ==
    Mutation({"remediation_actions", "rot_data", "audit_logs"}, {},
             {<<"remediation-actions">>})

(* use-reports.ts: reports (remediation_reports.go) *)
useReports == Query(<<"reports">>, {"reports"})
useGenerateReport == Mutation({"reports"}, {"reports"}, {<<"reports">>})

(* use-policies.ts: policies (policy.go) *)
usePolicies == Query(<<"policies">>, {"policies"})
usePolicy == Query(<<"policies", "id">>, {"policies"})
useCreatePolicy == Mutation({"policies", "audit_logs"}, {}, {<<"policies">>})
useUpdatePolicy ==
    Mutation({"policies", "audit_logs"}, {}, {<<"policies">>, <<"policies", "id">>})
useDeletePolicy == Mutation({"policies", "audit_logs"}, {}, {<<"policies">>})
useEvaluatePolicy == Mutation({}, {}, {})
useGovernanceStats ==
    Query(<<"governance-stats">>, {"audit_logs", "gate_queries", "policies"})

(* use-audit.ts: audit trail and observability (quality_privacy.go, observability_jobs.go) *)
useAuditTrail(limit) == Query(<<"audit-trail", limit>>, {"audit_logs"})
useSystemHealth == Polled(<<"system-health">>, {})
useSystemMetrics ==
    Polled(<<"system-metrics">>,
           {"classifications", "datasources", "gate_queries", "policies"})
useAlerts == Query(<<"alerts">>, {"notifications"})
useCreateAlertRule == Mutation({"policies"}, {}, {<<"alerts">>})

(* use-advisor.ts: compliance advisor, ROT, labels and feedback (remediation_reports.go, rot_integrations.go) *)
useRecommendations ==
    Query(<<"recommendations">>,
          {"audit_logs", "classifications", "datasources", "labels", "policies",
           "retention_violations", "ropa"})
useComplianceGaps ==
    Query(<<"compliance-gaps">>,
          {"classifications", "datasources", "labels", "policies", "ropa"})
useRunComplianceAssessment ==
    Mutation({"compliance_assessments"}, {"compliance_assessments", "audit_logs"},
             {<<"recommendations">>, <<"compliance-gaps">>, <<"risk-score">>,
              <<"assessment-logs">>})
useAssessmentLogs == Query(<<"assessment-logs">>, {"compliance_assessments"})
useGenerateDefenseDocket == Mutation({"reports"}, {}, {})
usePlaybook == Query(<<"playbook", "type">>, {"playbooks"})
useRiskScore ==
    Query(<<"risk-score">>,
          {"classifications", "consent_records", "dpias", "policies",
           "retention_violations", "ropa"})
useROTSummary == Query(<<"rot-summary">>, {"classifications", "rot_data"})
useROTDatasets == Query(<<"rot-datasets">>, {"datasources", "rot_data"})
useROTDuplicates == Query(<<"rot-duplicates">>, {"duplicate_groups"})
useTriggerROTScan == Mutation({}, {"rot_data"}, {<<"rot-summary">>, <<"rot-datasets">>})
useRemediateROT ==
    Mutation({"remediation_actions"}, {}, {<<"rot-summary">>, <<"rot-datasets">>})
useDatasetLabel == Query(<<"labels", "id">>, {"labels"})
useAssignLabel == Mutation({"labels"}, {}, {<<"labels", "id">>})
useLabelRules == Query(<<"label-rules">>, {"label_rules"})
useCreateLabelRule == Mutation({"label_rules"}, {}, {<<"label-rules">>})
useUpdateLabelRule == Mutation({"label_rules"}, {}, {<<"label-rules">>})
useDeleteLabelRule == Mutation({"label_rules"}, {}, {<<"label-rules">>})
useLabelSummary == Query(<<"label-summary">>, {"labels"})
useFeedbackStats ==
    Query(<<"feedback-stats">>, {"custom_entities", "feedback", "knowledge_cache"})
useCreateCustomEntity == Mutation({"custom_entities"}, {}, {<<"custom-entities">>})
useKnowledgeCache == Query(<<"knowledge-cache">>, {"classifications"})
useCorrections == Query(<<"corrections">>, {"classifications", "feedback", "users"})
useCorrectionTrend == Query(<<"correction-trend">>, {"feedback"})
useCustomEntities == Query(<<"custom-entities">>, {"classifications", "custom_entities"})

(* use-datamap.ts: the data map and AI governance (rot_integrations.go, observability_jobs.go) *)
useDataMapSources ==
    Query(<<"datamap-sources">>, {"classifications", "datasources", "scan_logs"})
useDataMapCoverage == Query(<<"datamap-coverage">>, {"classifications", "labels"})
useDataMapGeography == Query(<<"datamap-geography">>, {"datasources"})
useDarkData == Query(<<"dark-data">>, {"classifications", "labels"})
useShadowIT == Unrouted(<<"shadow-it">>)
useAIModels == Unrouted(<<"ai-models">>)
useDatasetLineage == Query(<<"lineage", "id">>, {"data_flows", "model_lineage"})
useAIGovPolicies == Query(<<"ai-gov-policies">>, {"policies"})
useCheckEligibility == UnroutedMutation({})
useEligibleDatasets == Unrouted(<<"eligible-datasets">>)
useAnalyticsSummary ==
    Query(<<"analytics-summary">>,
          {"audit_logs", "classifications", "datasources", "document_classifications",
           "gate_queries", "labels", "policies", "retention_violations", "ropa"})

(* use-classification.ts: classification (classify.go) *)
useClassifyStats == Query(<<"classify-stats">>, {"classifications"})
useClassifyText == Mutation({"classifications"}, {"classifications", "audit_logs"}, {})
useClassificationModels == Query(<<"classification-models">>, {"classification_models"})
useClassificationRules == Query(<<"classification-rules">>, {"classification_rules"})
useCreateClassificationRule ==
    Mutation({"classification_rules"}, {}, {<<"classification-rules">>})
useDeleteClassificationRule ==
    Mutation({"classification_rules"}, {}, {<<"classification-rules">>})
useDatasetClassification ==
    Query(<<"classification", "id">>, {"classifications", "datasources"})
useDatasetColumns == Query(<<"classification", "id", "columns">>, {"classifications"})
useReclassifyDataset ==
    Mutation({"audit_logs"}, {"classifications", "labels", "audit_logs"},
             {<<"classification", "id">>})
useDocumentClassifications ==
    Query(<<"doc-classifications", "id">>, {"document_classifications"})
useClassifyDocument ==
    Mutation({"document_classifications", "review_queue"}, {},
             {<<"doc-classifications", "id">>, <<"review-queue">>})

(* use-quality.ts: quality, profiles and critical data (quality_privacy.go, dpia_cde_profiling.go) *)
useQualityTrends ==
    Query(<<"quality-trends">>,
          {"classifications", "datasources", "quality_scores", "rot_data"})
useQualityDimensions ==
    Query(<<"quality-dimensions">>,
          {"classifications", "datasources", "quality_scores", "rot_data"})
useSetQualityThreshold == Mutation({"policies"}, {}, {})
useDataProfile == Query(<<"data-profile", "id">>, {"data_profiles"})
useAutoProfile == Mutation({"data_profiles", "audit_logs"}, {}, {<<"data-profile", "id">>})
useCDEs == Query(<<"cdes">>, {"critical_data_elements", "datasources"})
useCreateCDE == Mutation({"critical_data_elements", "audit_logs"}, {}, {<<"cdes">>})
useDeleteCDE == Mutation({"critical_data_elements", "audit_logs"}, {}, {<<"cdes">>})

(* use-privacy.ts: privacy (quality_privacy.go, dpia_cde_profiling.go) *)
useDSARs == Query(<<"dsars">>, {"dsars"})
useDSAR == Query(<<"dsars", "id">>, {"dsars"})
useCreateDSAR == Mutation({"dsars"}, {}, {<<"dsars">>})
useDSARPackage == Manual(<<"dsars", "id", "package">>, {"dsars"})
useUpdateDSAR == Mutation({"dsars"}, {}, {<<"dsars">>, <<"dsars", "id">>})
useDeleteDSAR == Mutation({"dsars"}, {}, {<<"dsars">>})
useRoPA == Query(<<"ropa">>, {"ropa"})
useRecordConsent == Mutation({"audit_logs"}, {}, {})
useWithdrawConsent == Mutation({"audit_logs"}, {}, {})
useRetentionViolations == Query(<<"retention-violations">>, {"retention_violations"})
useDPIAs == Query(<<"dpias">>, {"dpias"})
useDPIA == Query(<<"dpias", "id">>, {"dpias"})
useCreateDPIA == Mutation({"dpias", "audit_logs"}, {}, {<<"dpias">>})
useUpdateDPIAStep == Mutation({"dpias", "audit_logs"}, {}, {<<"dpias", "id">>, <<"dpias">>})
useUpdateDPIAStatus ==
    Mutation({"dpias", "audit_logs"}, {}, {<<"dpias", "id">>, <<"dpias">>})

=============================================================================
