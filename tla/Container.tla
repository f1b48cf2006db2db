------------------------------ MODULE Container ------------------------------
(***************************************************************************)
(* Four parts of a container that share no state, one scene each: the ferry   *)
(* that carries its packets, the tree of its processes, the proxy of its DNS   *)
(* connections, and the graph of a link.  In a behaviour the variables of the  *)
(* other scenes stay as they are at the beginning.                           *)
(***************************************************************************)
EXTENDS ProcessTree

CONSTANTS Setups, MaxWait, MaxTime, LastArrival, MaxPackets, MaxSteps,    \* Ferry
          Spoken, BUFFER_SIZE, Room,                                      \* DnsProxy
          Amounts, BinWidth, Window, MaxClock                             \* BinnedLiveGraph

VARIABLES scene,
          setup, now, tun, signals, queue, passthrough, loop, timeout, report, arrived,
          known, sent, steps,
          peer, unread, from, active, thread, poll_report,
          rate, clock, value_this_bin, current_bin, data_points, mutex, constructed, halt,
          step, read, adds

\* The ferry and the proxy with what is proved of them.
F == INSTANCE FerryProofs
D == INSTANCE DnsProxyProofs
G == INSTANCE BinnedLiveGraph

ASSUME ContainerAssumption ==
    /\ F!FerryAssumption
    /\ BUFFER_SIZE \in Nat /\ BUFFER_SIZE >= 2 /\ Room \in Nat \ {0}
    /\ Spoken \in [D!Peers -> Nat]
    /\ G!GraphAssumption

ferry_vars == <<setup, now, tun, signals, queue, passthrough, loop, timeout, report, arrived,
                known, sent, steps>>
dns_vars == <<peer, unread, from, active, thread, poll_report>>
graph_vars == <<rate, clock, value_this_bin, current_bin, data_points, mutex, constructed,
                halt, step, read, adds>>
shell_vars == <<scene, ferry_vars, vars, dns_vars, graph_vars>>

\* Only the scene that is played begins in more than one way.
ShellInit ==
    /\ scene \in {"tree", "ferry", "dns", "graph"}
    /\ Init /\ F!Init /\ D!Init /\ G!Init
    /\ scene # "ferry" => setup = CHOOSE s \in Setups : TRUE
    /\ scene # "graph" => rate

InTree(A) == scene = "tree" /\ A /\ UNCHANGED <<scene, ferry_vars, dns_vars, graph_vars>>
InFerry(A) == scene = "ferry" /\ A /\ UNCHANGED <<scene, vars, dns_vars, graph_vars>>
InDns(A) == scene = "dns" /\ A /\ UNCHANGED <<scene, vars, ferry_vars, graph_vars>>
InGraph(A) == scene = "graph" /\ A /\ UNCHANGED <<scene, vars, ferry_vars, dns_vars>>

ShellNext == InTree(Next) \/ InFerry(F!Next) \/ InDns(D!Next) \/ InGraph(G!Next)

\* The fairness of the modules, each in its scene.
ShellFairness ==
    /\ WF_vars(scene = "tree" /\ Runs)
    /\ WF_vars(scene = "tree" /\ UserContinues)
    /\ WF_ferry_vars(scene = "ferry" /\ F!Loop)
    /\ WF_ferry_vars(scene = "ferry" /\ F!Tick)
    /\ WF_dns_vars(scene = "dns" /\ D!Relay)
    /\ \A p \in D!Peers : WF_dns_vars(scene = "dns" /\ D!Hear(p))

ShellSpec == ShellInit /\ [][ShellNext]_shell_vars /\ ShellFairness

-----------------------------------------------------------------------------
(* The properties of the instances; their initial states satisfy them all     *)

\* Of Ferry: no callback finds nothing to write.
NoBusyWait == F!NoBusyWait

\* Of Ferry: packets leave when they are due.
LeaveOnTime == F!LeaveOnTime

\* Of Ferry: packets leave in the order in which they are due.
LeaveInOrder == F!LeaveInOrder

\* Of Ferry: packets are taken exactly while a periodic link is on.
TakenWhileOn == F!TakenWhileOn

\* Of Ferry: what was taken leaves.
TakenLeaves == F!TakenLeaves

\* Of DnsProxy: bytes arrive as they were said, and none is lost at an end.
RelayedAsSaid == D!RelayedAsSaid

\* Of DnsProxy: what was said is read.
RelayedInTheEnd == D!RelayedInTheEnd

\* Of BinnedLiveGraph: each value is counted once, in its bin.
CountedInItsBin == G!CountedInItsBin
=============================================================================
