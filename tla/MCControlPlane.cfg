SPECIFICATION Spec
CONSTANTS
    LaneOrder <- MCLaneOrder
    LaneQuotas <- MCLaneQuotas
    MaxLaneQuota = 4
    Clients = {"c1", "c2"}
    Controller = "controller"
    Stoppers = {"s1", "s2"}
    Pollers = {"p1", "p2"}
    MaxLastDecisions = 2
    Word <- MCWord
    Workloads <- MCWorkloads
INVARIANTS ScaleSustained SummaryCoversSignal
PROPERTIES NoLostUpdate AdaptiveFromCurrent QuietAfterStop ControllerStops
CHECK_DEADLOCK FALSE
