CONSTANTS
    a1 = a1  a2 = a2  r1 = r1  s1 = s1  o1 = o1  o2 = o2  e1 = e1  e2 = e2
    Callers <- MCCallers
    Agents <- MCAgents
    Inbound <- MCInbound
    Sdrs <- MCSdrs
    Orders = {o1, o2}
    Events = {e1}
    Occurrences <- LaunchOccurrences
    Sequences_ <- Sequences3
    AgentSeq = "seqA"
    HumanSeq = "seqB"
    MaxLaunches = 3
    MaxOthers = 1
    MaxCrashes = 1
SPECIFICATION Spec
INVARIANTS TypeOK EffectsRunOnce CompletedWasApplied LiveOnlyWhenOwned OneOpening
SYMMETRY Symmetric
CHECK_DEADLOCK FALSE
