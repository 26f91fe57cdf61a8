----------------------------- MODULE MCBrowser -----------------------------
EXTENDS Browser

\* What a page goes on showing after a command that changed it: three lists that no hook
\* invalidates, and the package of a data subject request, which is only built on demand.
Gaps ==
    {<<useClassifyText, useClassifyStats>>,
     <<useReclassifyDataset, useAuditTrail("100")>>,
     <<useExecuteRemediationAction, useRemediationLogs>>,
     <<useCreateDSAR, useDSARPackage>>, <<useUpdateDSAR, useDSARPackage>>,
     <<useDeleteDSAR, useDSARPackage>>}
============================================================================
