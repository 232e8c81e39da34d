SPECIFICATION Spec
CONSTANTS
    Scopes = {c1, c2, c3}
    Quorum = 2
    MaxDrifts = 2
    Runners = {r1, r2}
    None = None
CHECK_DEADLOCK FALSE
INVARIANTS AcceptedAreSound PushedIsVerified PassedReportIsBacked MergeIsSound
PROPERTIES ReportRepaired EveryProcessEnds
