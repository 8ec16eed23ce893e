------------------------------- MODULE Setup -------------------------------
(***************************************************************************)
(* The start of a deployment.  Every node process draws a class-group key  *)
(* pair, listens and registers its address and public key with the proxy.  *)
(* With share_counts registrations the proxy numbers them and broadcasts   *)
(* the list; a node finds its id in it and answers with a flag; with       *)
(* share_counts flags the proxy starts key generation (module KeyGen).     *)
(*                                                                         *)
(* A node may be stopped and started again (gstbk-service.sh restart node):*)
(* it is another process then, with another key pair, that registers anew, *)
(* and nothing at the proxy tells the two apart.  What was in flight to a  *)
(* stopped process is lost, and a broadcast ends at the first address that *)
(* refuses the connection.  The proxy is started first and stays up; nodes *)
(* are stopped between handlers, not in the middle of a broadcast.         *)
(***************************************************************************)
EXTENDS Naturals, Sequences, FiniteSets

CONSTANTS
    Node,       \* addresses of the nodes, share_counts of them
    MaxLife     \* bound: how often a node is started

ASSUME SetupAssumption == IsFiniteSet(Node) /\ Node # {} /\ MaxLife \in Nat \ {0}

VARIABLES
    alive,          \* nodes whose process is running
    life,           \* [Node -> Nat]: how often it was started; names its key pair
    setupVec,       \* registrations the proxy holds; setup_msg_num is the length
    nodeInfo,       \* the proxy's node_info_vec, <<>> before it is made
    finishNum,      \* setup_finish_num
    keygenStarted,
    nodeId,         \* [Node -> its id, 0 for None]
    nodeList,       \* [Node -> its node_info_vec]
    inKeygen,       \* nodes that have begun key generation
    net             \* messages in flight

proxyVars == <<setupVec, nodeInfo, finishNum, keygenStarted>>
nodeVars  == <<nodeId, nodeList, inKeygen>>
vars      == <<alive, life, proxyVars, nodeVars, net>>

ShareCounts == Cardinality(Node)

Registration == [node : Node, life : 1 .. MaxLife]

\* The proxy numbers what it sends, as there is one message per list entry.
Message ==
    [type : {"register"}, node : Node, life : 1 .. MaxLife]
        \cup [type : {"setup", "finish", "keygen"}, node : Node, entry : 1 .. ShareCounts]

Init ==
    /\ alive = {}
    /\ life = [n \in Node |-> 0]
    /\ setupVec = <<>>
    /\ nodeInfo = <<>>
    /\ finishNum = 0
    /\ keygenStarted = FALSE
    /\ nodeId = [n \in Node |-> 0]
    /\ nodeList = [n \in Node |-> <<>>]
    /\ inKeygen = {}
    /\ net = {}

-----------------------------------------------------------------------------

\* A node process starts with nothing but a key pair, and registers.
Start(n) ==
    /\ n \notin alive
    /\ life[n] < MaxLife
    /\ alive' = alive \cup {n}
    /\ life' = [life EXCEPT ![n] = @ + 1]
    /\ net' = net \cup {[type |-> "register", node |-> n, life |-> life[n] + 1]}
    /\ UNCHANGED <<proxyVars, nodeVars>>

To(n) == {m \in net : m.type \in {"setup", "keygen"} /\ m.node = n}

\* A node process is stopped, to be started again: its state is gone.
Stop(n) ==
    /\ n \in alive
    /\ life[n] < MaxLife
    /\ alive' = alive \ {n}
    /\ nodeId' = [nodeId EXCEPT ![n] = 0]
    /\ nodeList' = [nodeList EXCEPT ![n] = <<>>]
    /\ inKeygen' = inKeygen \ {n}
    /\ net' = net \ To(n)
    /\ UNCHANGED <<life, proxyVars>>

\* A broadcast goes through the list and ends at the first failure.
Broadcast(type, list) ==
    {[type |-> type, node |-> list[i].node, entry |-> i] :
        i \in {k \in DOMAIN list : \A j \in 1 .. k : list[j].node \in alive}}

AllReached(list) == \A i \in DOMAIN list : list[i].node \in alive

\* Mutant: from share_counts registrations on.
AllRegisteredFrom(vec) == Len(vec) >= ShareCounts

AllRegistered(vec) == Len(vec) = ShareCounts

\* The proxy counts a registration, whoever's it is.  With share_counts of
\* them it numbers them in the order they came and broadcasts the list.
ProxySetupOne(m) ==
    /\ m \in net
    /\ m.type = "register"
    /\ LET vec == Append(setupVec, [node |-> m.node, life |-> m.life]) IN
         /\ setupVec' = vec
         /\ IF AllRegistered(vec)
            THEN /\ nodeInfo' = vec
                 /\ net' = (net \ {m}) \cup Broadcast("setup", vec)
            ELSE /\ net' = net \ {m}
                 /\ UNCHANGED nodeInfo
    /\ UNCHANGED <<alive, life, finishNum, keygenStarted, nodeVars>>

\* Mutant: the list is numbered from 0.
IdInFromZero(n, list) ==
    CHOOSE i \in 0 .. Len(list) - 1 :
        list[i + 1].node = n /\ \A j \in i + 2 .. Len(list) : list[j].node # n

\* The last entry with the node's address gives its id.
IdIn(n, list) ==
    CHOOSE i \in DOMAIN list :
        list[i].node = n /\ \A j \in i + 1 .. Len(list) : list[j].node # n

\* A node takes its id and the list and answers.
NodeSetupTwo(m) ==
    /\ m \in net
    /\ m.type = "setup"
    /\ nodeId' = [nodeId EXCEPT ![m.node] = IdIn(m.node, nodeInfo)]
    /\ nodeList' = [nodeList EXCEPT ![m.node] = nodeInfo]
    /\ net' = (net \ {m}) \cup {[m EXCEPT !.type = "finish"]}
    /\ UNCHANGED <<alive, life, proxyVars, inKeygen>>

\* Mutants: a flag is missing; one more than there are.
AllFinishedShort(num) == num = ShareCounts - 1
AllFinishedMore(num) == num = ShareCounts + 1

AllFinished(num) == num = ShareCounts

(***************************************************************************)
(* The proxy counts a flag.  With share_counts of them it broadcasts that  *)
(* setup is over and, if that reaches every node of the list, draws the    *)
(* participants and broadcasts the start of key generation.                *)
(***************************************************************************)
ProxySetupTwo(m) ==
    /\ m \in net
    /\ m.type = "finish"
    /\ finishNum' = finishNum + 1
    /\ IF AllFinished(finishNum + 1) /\ AllReached(nodeInfo)
       THEN /\ keygenStarted' = TRUE
            /\ net' = (net \ {m}) \cup Broadcast("keygen", nodeInfo)
       ELSE /\ net' = net \ {m}
            /\ UNCHANGED keygenStarted
    /\ UNCHANGED <<alive, life, setupVec, nodeInfo, nodeVars>>

\* A node begins key generation; one without an id panics.
NodeKeygen(m) ==
    /\ m \in net
    /\ m.type = "keygen"
    /\ net' = net \ {m}
    /\ inKeygen' = IF nodeId[m.node] # 0 THEN inKeygen \cup {m.node} ELSE inKeygen
    /\ UNCHANGED <<alive, life, proxyVars, nodeId, nodeList>>

Handle ==
    \E m \in net : \/ ProxySetupOne(m)
                   \/ NodeSetupTwo(m)
                   \/ ProxySetupTwo(m)
                   \/ NodeKeygen(m)

Next == Handle \/ \E n \in Node : Start(n) \/ Stop(n)

Spec == Init /\ [][Next]_vars

\* Messages are handled, and the script that starts the nodes starts them all.
FairSpec == Spec /\ WF_vars(Handle) /\ \A n \in Node : WF_vars(Start(n))

-----------------------------------------------------------------------------

TypeOK ==
    /\ alive \subseteq Node
    /\ life \in [Node -> 0 .. MaxLife]
    /\ setupVec \in Seq(Registration)
    /\ nodeInfo \in Seq(Registration) /\ Len(nodeInfo) \in {0, ShareCounts}
    /\ finishNum \in 0 .. ShareCounts
    /\ keygenStarted \in BOOLEAN
    /\ nodeId \in [Node -> 0 .. ShareCounts]
    /\ nodeList \in [Node -> {<<>>, nodeInfo}]
    /\ inKeygen \subseteq alive
    /\ net \subseteq Message

(***************************************************************************)
(* An id names one node, the same at every process, even when nodes were   *)
(* restarted and the list has an address twice: shares, dealings and MtA   *)
(* messages are all filed under it.                                        *)
(***************************************************************************)
IdsAgree ==
    \A n \in Node : nodeId[n] # 0 =>
        /\ nodeId[n] \in DOMAIN nodeInfo
        /\ nodeInfo[nodeId[n]].node = n
        /\ nodeList[n] = nodeInfo

\* The process that registered as entry i runs no more, or has its id and the list.
Ready(i) ==
    LET n == nodeInfo[i].node IN
        n \in alive /\ life[n] = nodeInfo[i].life => nodeId[n] # 0 /\ nodeList[n] = nodeInfo

(***************************************************************************)
(* Key generation starts only when every entry of the list has answered: a *)
(* node still in the life it registered in has its id and the list, which  *)
(* keygen_phase_one unwraps.  The proxy only counts flags.                 *)
(***************************************************************************)
KeygenStartsReady == keygenStarted => \A i \in DOMAIN nodeInfo : Ready(i)

\* Unless a node is stopped, every node gets as far as key generation.
Undisturbed == \A n \in Node : life[n] <= 1 /\ (life[n] = 1 => n \in alive)
SetupEnds == []Undisturbed => <>(inKeygen = Node)

-----------------------------------------------------------------------------

\* A registration is of the life a node is in or of one it was in.
LivesPast ==
    /\ \A m \in net : m.type = "register" => m.life <= life[m.node]
    /\ \A i \in DOMAIN setupVec : setupVec[i].life <= life[setupVec[i].node]
    /\ \A i \in DOMAIN nodeInfo : nodeInfo[i].life <= life[nodeInfo[i].node]

\* Until share_counts have registered there is no list and nothing of it anywhere.
NothingBeforeList ==
    /\ Len(setupVec) < ShareCounts => nodeInfo = <<>>
    /\ nodeInfo = <<>> => /\ finishNum = 0 /\ ~ keygenStarted
                         /\ \A n \in Node : nodeId[n] = 0 /\ nodeList[n] = <<>>
                         /\ \A m \in net : m.type = "register"

\* A message is about the entry it is numbered with; to a node, it is to one that runs.
NetEntries ==
    \A m \in net : m.type # "register" =>
        /\ m.entry \in DOMAIN nodeInfo
        /\ nodeInfo[m.entry].node = m.node
        /\ m.type # "finish" => m.node \in alive

\* An entry that has answered is ready, and is not asked any more.
AnswersReady ==
    \A m \in net : m.type = "finish" =>
        /\ Ready(m.entry)
        /\ \A q \in net : q.type = "setup" => q.entry # m.entry

\* The entries whose flag the proxy has not counted and may yet, or should not.
Open ==
    {i \in DOMAIN nodeInfo :
        ~ Ready(i) \/ \E m \in net : m.type \in {"setup", "finish"} /\ m.entry = i}

\* The flags counted are of other entries than the open ones.
FlagsCounted == finishNum + Cardinality(Open) <= ShareCounts

(***************************************************************************)
(* The inductive invariant behind the properties above: the proxy, which   *)
(* only counts flags, cannot have counted share_counts of them while an    *)
(* entry is open.                                                          *)
(***************************************************************************)
IInv ==
    TypeOK /\ IdsAgree /\ KeygenStartsReady /\ LivesPast /\ NothingBeforeList
           /\ NetEntries /\ AnswersReady /\ FlagsCounted

=============================================================================
