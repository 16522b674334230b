-------------------------- MODULE MCOutreachLaunch --------------------------
(* Two agents, one inbound worker and one SDR around one prospect.         *)
EXTENDS OutreachLaunch, TLC
CONSTANTS a1, a2, r1, s1, o1, o2, e1, e2

MCAgents == {a1, a2}
MCInbound == {r1}
MCSdrs == {s1}
MCCallers == {a1, a2, r1, s1}

LaunchKeys   == {<<"ai_managed", o>> : o \in Orders}
ReplyKeys    == {<<"handoff", e>> : e \in Events} \cup {<<"stop", e>> : e \in Events}
HandbackKeys == {<<"handback", "request">>}
WaitingKeys  == {<<"waiting", e>> : e \in Events}
LaunchOccurrences == LaunchKeys \cup ReplyKeys \cup HandbackKeys \cup WaitingKeys
ReplyOccurrences == ReplyKeys \cup HandbackKeys \cup LaunchKeys
Sequences3 == {"seqA", "seqB", NoSeq}
Symmetric == Permutations(Agents) \cup Permutations(Orders)
=============================================================================
