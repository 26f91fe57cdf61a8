------------------------------- MODULE Pages -------------------------------
(***************************************************************************)
(* The pages of the frontend (app/(app)/**/page.tsx): what each component    *)
(* shows and what its buttons do. A component is a view:                     *)
(*   reads   the queries it has mounted as long as it is shown               *)
(*   opens   those of the dialogs, panels and tabs that it mounts on demand  *)
(*   asks    the queries it fetches anew on a button, a timer or an event    *)
(*   does    its commands                                                    *)
(* and a command is a mutation m, the queries whose rows or whose loading    *)
(* state gate its button (needs), where the page goes when it succeeds       *)
(* (then, "stay" for nowhere), the queries its handler loads again (again)   *)
(* and those whose state it patches from the answer (patch). Layout, forms,  *)
(* filters, charts and toasts are left out.                                  *)
(***************************************************************************)
EXTENDS Hooks

Do(m) == [m |-> m, needs |-> {}, then |-> "stay", again |-> {}, patch |-> {}]

On(q, m) == [Do(m) EXCEPT !.needs = {q}]

To(page, c) == [c EXCEPT !.then = page]

Again(qs, c) == [c EXCEPT !.again = qs]

Patching(qs, c) == [c EXCEPT !.patch = qs]

View(reads, does) == [reads |-> reads, opens |-> {}, asks |-> {}, does |-> does]

Asking(qs, view) == [view EXCEPT !.asks = @ \union qs]

\* Children that are mounted with the component.
Beside(view, part) ==
    [reads |-> view.reads \union part.reads, opens |-> view.opens \union part.opens,
     asks |-> view.asks \union part.asks, does |-> view.does \union part.does]

\* Dialogs, panels and tabs that are mounted while they are open.
Opening(view, parts) ==
    [view EXCEPT !.opens = @ \union UNION {p.reads \union p.opens : p \in parts},
                 !.asks = @ \union UNION {p.asks : p \in parts},
                 !.does = @ \union UNION {p.does : p \in parts}]

(* Jobs, integrations and notifications *)
JobActionsMenu == View({}, {On(useJobs, useDeleteJob), On(useJobs, useRunJobNow)})
JobFormModal == View({}, {Do(useCreateJob), On(useJobs, useUpdateJob)})
JobHistoryModal == View({useJobHistory}, {})
JobsPage ==
    Opening(Beside(View({useJobs}, {}), JobActionsMenu), {JobFormModal, JobHistoryModal})
IntegrationsPage == Asking({useIntegrations}, View({useIntegrations}, {}))
\* Mutant: the page does not load the integration again after a test.
IntegrationDetailStale ==
    View({useIntegration}, {On(useIntegration, useTestIntegration)})
IntegrationDetailPage ==
    View({useIntegration},
         {To("integrations", On(useIntegration, useDeleteIntegration)),
          Again({useIntegration}, On(useIntegration, useTestIntegration)),
          Again({useIntegration}, On(useIntegration, useUpdateIntegration)),
          On(useIntegration, useSyncIntegration)})
NewIntegrationPage == View({}, {To("integrations", Do(useCreateIntegration))})
NotificationsPage ==
    View({useNotifications},
         {On(useNotifications, useMarkNotificationRead), On(useNotifications, useDeleteNotification),
          Do(useMarkAllNotificationsRead)})

(* Settings *)
SettingsPage == View({}, {})
APIKeysPage == View({useAPIKeys}, {Do(useCreateAPIKey), On(useAPIKeys, useDeleteAPIKey)})
UsersPage ==
    Asking({useUsers, useInvitations},
           View({useUsers, useInvitations},
                {Do(useCreateUser), Do(useCreateInvitation), On(useUsers, useDeleteUser),
                 On(useInvitations, useCancelInvitation), On(useInvitations, useResendInvitation)}))
ProfilePage == View({useCurrentUser}, {Do(useUpdateProfile)})
fetchProviders == Local("sso-providers", {"sso_providers"})
SSOProviderModal ==
    View({}, {Again({fetchProviders}, Do(Mutation({"sso_providers"}, {}, {})))})
SSOSettingsPage ==
    LET change == Again({fetchProviders}, On(fetchProviders, Mutation({"sso_providers"}, {}, {})))
    IN  Opening(View({fetchProviders}, {change}), {SSOProviderModal})
AdminPage == View({}, {})

(* Data sources *)
DataSourcesPage == Asking({useDataSources}, View({useDataSources}, {}))
EntityTypesModal == View({}, {})
ScanLogsCard == Asking({useScanLogs}, View({useScanLogs}, {}))
ClassificationOverviewCard ==
    Opening(View({useDataSourceClassificationStats}, {}), {EntityTypesModal})
DataSourceDetailPage ==
    Asking({useDataSource},
           Beside(Beside(View({useDataSource},
                              {To("dataSources", On(useDataSource, useDeleteDataSource)),
                               Again({useDataSource}, On(useDataSource, useTriggerScan))}),
                         ScanLogsCard), ClassificationOverviewCard))
NewDataSourcePage == View({}, {To("dataSources", Do(useCreateDataSource))})

(* Governance and labels *)
GovernancePage ==
    View({usePolicies, useRiskScore, useComplianceGaps, useGovernanceStats}, {})
PoliciesPage == Asking({usePolicies}, View({usePolicies}, {}))
PolicyDetailPage ==
    View({usePolicy}, {On(usePolicy, useUpdatePolicy), To("policies", On(usePolicy, useDeletePolicy))})
NewPolicyPage == View({}, {To("policies", Do(useCreatePolicy))})
PolicyEvaluatePage == View({}, {Do(useEvaluatePolicy)})
LabelsPage == View({useLabelSummary}, {})
LabelRulesPage ==
    View({useLabelRules},
         {Do(useCreateLabelRule), On(useLabelRules, useUpdateLabelRule),
          On(useLabelRules, useDeleteLabelRule)})
DatasetLabelsPage ==
    Opening(View({useDataSources}, {}),
            {View({useDatasetLabel}, {On(useDataSources, useAssignLabel)})})

(* Classification *)
ClassificationPage ==
    View({useDataSources, useClassificationModels, useClassificationRules, useFeedbackStats,
          useClassifyStats}, {Do(useClassifyText)})
ClassificationModelsPage == View({useClassificationModels}, {})
ClassificationRulesPage ==
    View({useClassificationRules},
         {Do(useCreateClassificationRule), On(useClassificationRules, useDeleteClassificationRule)})
ClassificationStatusCard ==
    Asking({useDatasetClassification, useDatasetColumns}, View({}, {}))
ClassificationDetailPage ==
    Beside(View({useDatasetClassification, useDatasetColumns, useClassificationRules,
                 useClassificationModels, useAuditTrail("100")},
                {On(useDatasetClassification, useReclassifyDataset)}), ClassificationStatusCard)

(* Privacy *)
PrivacyPage == View({useDSARs, useRoPA, useRetentionViolations}, {})
DSARPage == Asking({useDSARs}, View({useDSARs}, {Do(useCreateDSAR)}))
DSARDetailPage ==
    Asking({useDSARPackage},
           View({useDSAR, useDSARPackage},
                {On(useDSAR, useUpdateDSAR), To("dsar", On(useDSAR, useDeleteDSAR))}))
PreferenceCenterTab == View({Unrouted(<<"preferences">>)}, {Do(UnroutedMutation({}))})
WidgetConfigTab == View({Unrouted(<<"widget-config">>)}, {Do(UnroutedMutation({}))})
EmbedCodeTab == View({Unrouted(<<"embed-code">>)}, {})
ConsentPage ==
    Opening(View({}, {Do(useRecordConsent), Do(useWithdrawConsent)}),
            {PreferenceCenterTab, WidgetConfigTab, EmbedCodeTab})
DPIADetail ==
    View({useDPIA}, {On(useDPIA, useUpdateDPIAStep), On(useDPIA, useUpdateDPIAStatus)})
CreateDPIAModal == View({}, {Do(useCreateDPIA)})
DPIAPage == Opening(View({useDPIAs}, {}), {DPIADetail, CreateDPIAModal})

(* Quality *)
ProfileModal == View({useDataProfile}, {Do(useAutoProfile)})
QualityPage ==
    Opening(View({useQualityTrends, useQualityDimensions, useDataSources},
                 {On(useDataSources, useAutoProfile)}), {ProfileModal})
AddCDEModal == View({useDataSources}, {Do(useCreateCDE)})
CDEPage == Opening(View({useCDEs}, {On(useCDEs, useDeleteCDE)}), {AddCDEModal})
QualityRulesPage == View({}, {Do(useSetQualityThreshold)})

(* Remediation and redundant, obsolete and trivial data *)
LogViewer == View({useRemediationLogs}, {})
DetailPanel ==
    Opening(View({}, {Again({useRemediationActions},
                            On(useRemediationActions, useExecuteRemediationAction))}), {LogViewer})
RemediationPage == Opening(View({useRemediationActions}, {}), {DetailPanel})
ROTDetailPanel == View({}, {On(useROTDatasets, useRemediateROT)})
ROTPage ==
    Asking({useROTSummary, useROTDatasets},
           Opening(View({useROTSummary, useROTDatasets}, {Do(useTriggerROTScan)}), {ROTDetailPanel}))
DuplicatesPage == View({useROTDuplicates}, {On(useROTDuplicates, useRemediateROT)})
ObsoletePage == View({useROTDatasets}, {On(useROTDatasets, useRemediateROT)})
TrivialPage == View({useROTDatasets}, {On(useROTDatasets, useRemediateROT)})

(* Compliance advisor, audit and reports *)
AdvisorPage ==
    View({useRecommendations, useComplianceGaps, useRiskScore, useAssessmentLogs},
         {Do(useRunComplianceAssessment)})
GapsPage == View({useComplianceGaps}, {Do(useRunComplianceAssessment)})
PlaybooksPage == Opening(View({}, {}), {View({usePlaybook}, {})})
DefenseDocketPage == View({}, {Do(useGenerateDefenseDocket)})
AuditPage == Asking({useAuditTrail("100")}, View({useAuditTrail("100")}, {}))
GenerateModal == View({}, {Do(useGenerateReport)})
ReportsPage == Opening(View({useReports}, {}), {GenerateModal})

(* AI gate and AI governance *)
AIGatePage == View({useGateStats, useGateQueries("10")}, {})
AIGatePlaygroundPage == View({}, {Do(useGateQuery)})
AIGateQueriesPage == Asking({useGateQueries("100")}, View({useGateQueries("100")}, {}))
AIGovernancePage == View({useAIGovPolicies}, {})
EligibilityPage == View({useEligibleDatasets}, {Do(useCheckEligibility)})
ModelRegistryPage == View({useAIModels}, {})

(* Observability, feedback and the dashboard *)
ObservabilityPage == View({useSystemHealth, useSystemMetrics, useAlerts}, {})
AlertsPage == Asking({useAlerts}, View({useAlerts}, {Do(useCreateAlertRule)}))
FeedbackPage == View({useCorrections, useCorrectionTrend, useFeedbackStats}, {})
KnowledgeCachePage == View({useKnowledgeCache}, {})
CustomEntitiesPage == View({useCustomEntities}, {Do(useCreateCustomEntity)})
DashboardPage ==
    View({useDataSources, usePolicies, useGateStats, useAlerts, useRiskScore, useComplianceGaps,
          useRecommendations, useSystemHealth, useAuditTrail("10"), useQualityTrends,
          useAnalyticsSummary}, {})

(* Data map, lineage and documents *)
DataMapPage == View({useDataMapSources, useDataMapCoverage}, {})
CoveragePage == View({useDataMapCoverage, useDarkData, useShadowIT}, {})
GeographyPage == View({useDataMapGeography}, {})
loadAll == Local("residency", {"residency_rules", "residency_violations", "datasources"})
DataResidencyPage ==
    LET rules == Mutation({"residency_rules", "residency_violations"}, {}, {})
        tag   == Mutation({"datasources", "residency_violations"}, {}, {})
    IN  Asking({loadAll},
               View({loadAll}, {Again({loadAll}, Do(rules)), Again({loadAll}, On(loadAll, rules)),
                                Again({loadAll}, On(loadAll, tag))}))
LineagePage == Opening(View({useDataSources}, {}), {View({useDatasetLineage}, {})})
DocumentDetail == View({useDocumentClassifications}, {})
DocumentRow == View({useDocumentClassifications}, {})
DocumentsPage ==
    LET extract == Mutation({}, {"document_classifications"}, {})
    IN  Opening(Beside(View({}, {Do(useClassifyDocument), Do(extract)}), DocumentRow), {DocumentDetail})
DocumentUploadPage == View({}, {Do(Mutation({}, {"document_classifications"}, {}))})

(* Endpoints and device agents *)
fetchEndpoints == Local("endpoints", {"endpoint_scans"})
fetchAgents == Local("agents", {"endpoint_agents"})
AddEndpointModal ==
    View({}, {Again({fetchEndpoints}, Do(Mutation({"endpoint_scans"}, {}, {})))})
DeviceAgentsTab == Asking({fetchAgents}, View({fetchAgents}, {}))
EndpointsPage ==
    LET change == Patching({fetchEndpoints}, On(fetchEndpoints, Mutation({"endpoint_scans"}, {}, {})))
    IN  Asking({fetchEndpoints}, Opening(View({fetchEndpoints}, {change}), {AddEndpointModal, DeviceAgentsTab}))

(* The routes *)
Pages ==
    [jobs |-> JobsPage, integrations |-> IntegrationsPage,
     integrationDetail |-> IntegrationDetailPage, newIntegration |-> NewIntegrationPage,
     notifications |-> NotificationsPage, settings |-> SettingsPage,
     apiKeys |-> APIKeysPage, users |-> UsersPage, profile |-> ProfilePage,
     ssoSettings |-> SSOSettingsPage, admin |-> AdminPage, dataSources |-> DataSourcesPage,
     dataSourceDetail |-> DataSourceDetailPage, newDataSource |-> NewDataSourcePage,
     governance |-> GovernancePage, policies |-> PoliciesPage,
     policyDetail |-> PolicyDetailPage, newPolicy |-> NewPolicyPage,
     policyEvaluate |-> PolicyEvaluatePage, labels |-> LabelsPage,
     labelRules |-> LabelRulesPage, datasetLabels |-> DatasetLabelsPage,
     classification |-> ClassificationPage,
     classificationModels |-> ClassificationModelsPage,
     classificationRules |-> ClassificationRulesPage,
     classificationDetail |-> ClassificationDetailPage, privacy |-> PrivacyPage,
     dsar |-> DSARPage, dsarDetail |-> DSARDetailPage, consent |-> ConsentPage,
     dpia |-> DPIAPage, quality |-> QualityPage, cde |-> CDEPage,
     qualityRules |-> QualityRulesPage, remediation |-> RemediationPage, rot |-> ROTPage,
     duplicates |-> DuplicatesPage, obsolete |-> ObsoletePage, trivial |-> TrivialPage,
     advisor |-> AdvisorPage, gaps |-> GapsPage, playbooks |-> PlaybooksPage,
     defenseDocket |-> DefenseDocketPage, audit |-> AuditPage, reports |-> ReportsPage,
     aiGate |-> AIGatePage, aiGatePlayground |-> AIGatePlaygroundPage,
     aiGateQueries |-> AIGateQueriesPage, aiGovernance |-> AIGovernancePage,
     eligibility |-> EligibilityPage, modelRegistry |-> ModelRegistryPage,
     observability |-> ObservabilityPage, alerts |-> AlertsPage, feedback |-> FeedbackPage,
     knowledgeCache |-> KnowledgeCachePage, customEntities |-> CustomEntitiesPage,
     dashboard |-> DashboardPage, dataMap |-> DataMapPage, coverage |-> CoveragePage,
     geography |-> GeographyPage, dataResidency |-> DataResidencyPage,
     lineage |-> LineagePage, documents |-> DocumentsPage,
     documentUpload |-> DocumentUploadPage, endpoints |-> EndpointsPage]

============================================================================
