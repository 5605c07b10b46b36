SPECIFICATION Spec
CONSTANTS
    r1 = r1  s1 = s1  s2 = s2
    Events <- MCEvents
    Runs <- MCRuns
    RunOf <- MCRunOf
    Requests <- MCRequests
    Resolvers <- MCResolvers
    TargetOf <- MCTargetOf
    StatusOf <- MCStatusOf
    MaxCrashes = 2
INVARIANTS FailClosedEvidence AuditFirst ReviewIsQueued OneAdjudication
PROPERTIES ResolutionFinal HandlerEnds
\* Once every handler has ended nothing is left to do.
CHECK_DEADLOCK FALSE
