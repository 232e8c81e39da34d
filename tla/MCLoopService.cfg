SPECIFICATION Spec
CONSTANTS
    c1 = c1
    c2 = c2
    d1 = d1
    d2 = d2
    team = team
    actor = actor
    self = self
    issue = issue
    session = session
    key1 = key1
    key2 = key2
    NoLease = NoLease
    Absent = Absent
    Unset = Unset
    Runners <- MCRunners
    MaxHistory = 2
    Branches <- MCBranches
    Answers = {"a", "b"}
    Elapsed = {1, 2}
    Options <- MCOptions
    Setups <- MCSetups
    Deliveries <- MCDeliveries
    Requests <- MCRequests
    JoinRequests <- MCJoinRequests
    Launched = c1
INVARIANTS
    HistoryIsOneChain
    StoppedIsQuiet
    OneFiringPerEvent
    JoinIsSound
CHECK_DEADLOCK FALSE
