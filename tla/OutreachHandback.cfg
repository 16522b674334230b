CONSTANTS
    a1 = a1  a2 = a2  r1 = r1  s1 = s1  o1 = o1  o2 = o2  e1 = e1  e2 = e2
    Callers <- MCCallers
    Agents <- MCAgents
    Inbound <- MCInbound
    Sdrs <- MCSdrs
    Orders = {o1}
    Events = {e1}
    Occurrences <- ReplyOccurrences
    Sequences_ <- Sequences3
    AgentSeq = "seqA"
    HumanSeq = "seqB"
    MaxLaunches = 0
    MaxOthers = 3
    MaxCrashes = 0
SPECIFICATION Spec
INVARIANT HandbackIsNotSwallowed
CHECK_DEADLOCK FALSE
