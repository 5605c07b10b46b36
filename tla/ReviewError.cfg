SPECIFICATION Spec
CONSTANTS
    r1 = r1  s1 = s1  s2 = s2
    Events <- MCEvents
    Runs <- MCRuns
    RunOf <- MCRunOf
    Requests <- MCRequests
    Resolvers <- MCResolvers
    TargetOf <- MCTargetOf
    StatusOf <- MCStatusOf
    MaxCrashes = 2
PROPERTY CommittedResolutionNotFailed
CHECK_DEADLOCK FALSE
