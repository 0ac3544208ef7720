SPECIFICATION Spec
CONSTANTS
    MaxProposalWindow = 2
    MaxTime = 5
    MaxReports = 2
    ProposalInputs <- MCProposalInputs
    ReportInputs <- MCReportInputs
    AdmittedPrivacy <- MCAdmittedPrivacy
CHECK_DEADLOCK FALSE
INVARIANT TypeOK
INVARIANT OneContentPerProposal
INVARIANT InPlaceSpanBounded
INVARIANT NoCrossTenantEvidence
INVARIANT ExposureHasAnEnd
PROPERTY ImplementsBoundedExposure
