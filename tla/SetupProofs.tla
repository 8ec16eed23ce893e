---------------------------- MODULE SetupProofs ----------------------------
(***************************************************************************)
(* Proofs about Setup, for every set of nodes and every number of          *)
(* restarts: IInv is inductive, ids name one node at every process, and    *)
(* key generation starts only when every entry of the list is ready.       *)
(***************************************************************************)
EXTENDS Setup, Integers, FiniteSetTheorems, WellFoundedInduction, TLAPS

-----------------------------------------------------------------------------

LEMMA CountsPositive == ShareCounts \in Nat \ {0}
BY SetupAssumption, FS_CardinalityType, FS_EmptySet DEF ShareCounts

\* The entries of a list that is there are numbered 1 .. share_counts.
LEMMA ListEntries ==
    ASSUME TypeOK
    PROVE  /\ \A i \in DOMAIN nodeInfo : i \in 1 .. ShareCounts /\ nodeInfo[i] \in Registration
           /\ nodeInfo # <<>> => DOMAIN nodeInfo = 1 .. ShareCounts
BY CountsPositive DEF TypeOK

\* What is in flight, by its type.
LEMMA Messages ==
    ASSUME TypeOK, NEW m \in net
    PROVE  /\ m.node \in Node
           /\ m.type = "register" =>
                 /\ m \in [type : {"register"}, node : Node, life : 1 .. MaxLife]
                 /\ m.life \in 1 .. MaxLife
           /\ m.type # "register" =>
                 /\ m \in [type : {"setup", "finish", "keygen"}, node : Node, entry : 1 .. ShareCounts]
                 /\ m.type \in {"setup", "finish", "keygen"}
<1>1. \/ m \in [type : {"register"}, node : Node, life : 1 .. MaxLife]
      \/ m \in [type : {"setup", "finish", "keygen"}, node : Node, entry : 1 .. ShareCounts]
  BY DEF TypeOK, Message
<1>2. QED
  BY <1>1

\* A bounded set of naturals that is not empty has a greatest element: the
\* intervals above its elements are finite sets, which strict inclusion orders well.
LEMMA GreatestNatural ==
    ASSUME NEW m \in Nat, NEW S \in SUBSET (0 .. m), S # {}
    PROVE  \E x \in S : \A y \in S : y <= x
<1> DEFINE T == {n + 1 .. m : n \in S}
<1>1. T # {} /\ T \subseteq FiniteSubsetsOf(Nat)
  <2>1. \A n \in S : (n + 1 .. m) \in SUBSET Nat /\ IsFiniteSet(n + 1 .. m)
    BY FS_Interval
  <2>2. QED
    BY <2>1 DEF FiniteSubsetsOf
<1>2. PICK I \in T : \A J \in T : ~ (<<J, I>> \in StrictSubsetOrdering(Nat))
  <2>1. IsWellFoundedOn(StrictSubsetOrdering(Nat), FiniteSubsetsOf(Nat))
    BY FS_StrictSubsetOrderingWellFounded
  <2> HIDE DEF T
  <2>2. QED
    BY <1>1, <2>1, WFMin
<1>3. PICK x \in S : I = x + 1 .. m
  OBVIOUS
<1>4. ASSUME NEW y \in S, x < y
      PROVE  FALSE
  <2>1. (y + 1 .. m) \subseteq (x + 1 .. m) /\ y \in x + 1 .. m /\ y \notin y + 1 .. m
    BY <1>4
  <2>2. <<y + 1 .. m, x + 1 .. m>> \in StrictSubsetOrdering(Nat)
    BY <2>1 DEF StrictSubsetOrdering
  <2>3. (y + 1 .. m) \in T
    OBVIOUS
  <2>4. QED
    BY <1>2, <1>3, <2>2, <2>3
<1>5. QED
  BY <1>4

\* A node that is in the list gets an id that is an entry of its own.
LEMMA IdInList ==
    ASSUME NEW list \in Seq(Registration), NEW i \in DOMAIN list
    PROVE  /\ IdIn(list[i].node, list) \in DOMAIN list
           /\ list[IdIn(list[i].node, list)].node = list[i].node
<1> DEFINE n == list[i].node
           Own == {k \in DOMAIN list : list[k].node = n}
<1>1. Len(list) \in Nat /\ DOMAIN list = 1 .. Len(list)
  OBVIOUS
<1>2. Own \in SUBSET (0 .. Len(list)) /\ Own # {}
  BY <1>1
<1>3. PICK last \in Own : \A k \in Own : k <= last
  <2> HIDE DEF Own
  <2>1. QED
    BY <1>1, <1>2, GreatestNatural
<1>4. list[last].node = n /\ \A k \in last + 1 .. Len(list) : list[k].node # n
  BY <1>1, <1>3
<1>5. QED
  BY <1>3, <1>4 DEF IdIn

\* Entries are finitely many.
LEMMA EntrySets ==
    ASSUME NEW S \in SUBSET (1 .. ShareCounts)
    PROVE  IsFiniteSet(S) /\ Cardinality(S) \in 0 .. ShareCounts
<1>1. IsFiniteSet(1 .. ShareCounts) /\ Cardinality(1 .. ShareCounts) = ShareCounts
  BY CountsPositive, FS_Interval
<1>2. IsFiniteSet(S) /\ Cardinality(S) <= ShareCounts
  BY <1>1, FS_Subset
<1>3. QED
  BY <1>2, CountsPositive, FS_CardinalityType

\* A step that makes no entry unready, asks and answers about no other entry
\* and counts no flag keeps what is said of the count.
LEMMA CountKept ==
    ASSUME IInv, TypeOK', UNCHANGED <<nodeInfo, finishNum, keygenStarted>>,
           \A i \in DOMAIN nodeInfo : Ready(i) => Ready(i)',
           \A m \in net' : m.type \in {"setup", "finish"} =>
               \E q \in net : q.type \in {"setup", "finish"} /\ q.entry = m.entry
    PROVE  KeygenStartsReady' /\ FlagsCounted'
<1>1. KeygenStartsReady'
  BY DEF IInv, KeygenStartsReady
<1>2. Open' \in SUBSET Open
  BY DEF Open
<1>3. IsFiniteSet(Open) /\ Cardinality(Open) \in Nat
  <2>1. Open \in SUBSET (1 .. ShareCounts)
    BY ListEntries DEF IInv, Open
  <2>2. QED
    BY <2>1, EntrySets
<1>4. Cardinality(Open') <= Cardinality(Open) /\ Cardinality(Open') \in Nat
  BY <1>2, <1>3, FS_Subset, FS_CardinalityType
<1>5. FlagsCounted'
  BY <1>3, <1>4, CountsPositive DEF IInv, FlagsCounted, TypeOK, ShareCounts
<1>6. QED
  BY <1>1, <1>5

-----------------------------------------------------------------------------

LEMMA InitIInv == Init => IInv
<1> SUFFICES ASSUME Init PROVE IInv
  OBVIOUS
<1> USE SetupAssumption, CountsPositive DEF Init
<1>1. TypeOK
  <2>1. <<>> \in Seq(Registration) /\ Len(<<>>) = 0
    OBVIOUS
  <2>2. life \in [Node -> 0 .. MaxLife] /\ nodeId \in [Node -> 0 .. ShareCounts]
    OBVIOUS
  <2>3. QED
    BY <2>1, <2>2 DEF TypeOK
<1>2. IdsAgree /\ KeygenStartsReady
  BY DEF IdsAgree, KeygenStartsReady
<1>3. LivesPast /\ NothingBeforeList /\ NetEntries /\ AnswersReady
  BY DEF LivesPast, NothingBeforeList, NetEntries, AnswersReady
<1>4. FlagsCounted
  <2>1. Open = {}
    BY DEF Open
  <2>2. QED
    BY <2>1, FS_EmptySet DEF FlagsCounted
<1>5. QED
  BY <1>1, <1>2, <1>3, <1>4 DEF IInv

LEMMA StartStep ==
    ASSUME IInv, NEW n \in Node, Start(n)
    PROVE  IInv'
<1> USE SetupAssumption, CountsPositive DEF IInv
<1> DEFINE r == [type |-> "register", node |-> n, life |-> life[n] + 1]
<1>1. /\ alive' = alive \cup {n}
      /\ life[n] \in 0 .. MaxLife - 1
      /\ life' = [life EXCEPT ![n] = life[n] + 1]
      /\ net' = net \cup {r}
      /\ UNCHANGED <<setupVec, nodeInfo, finishNum, keygenStarted, nodeId, nodeList, inKeygen>>
  BY DEF Start, TypeOK, proxyVars, nodeVars
<1>2. TypeOK'
  <2>1. r \in Message
    BY <1>1 DEF Message
  <2>2. QED
    BY <1>1, <2>1 DEF TypeOK
<1>3. IdsAgree'
  BY <1>1 DEF IdsAgree
<1>4. LivesPast'
  <2>1. \A k \in Node : life'[k] \in Nat /\ life[k] <= life'[k]
    BY <1>1 DEF TypeOK
  <2>2. \A m \in net : m.type = "register" => m.node \in Node /\ m.life \in Nat
    BY Messages
  <2>3. \A i \in DOMAIN setupVec : setupVec[i].node \in Node /\ setupVec[i].life \in Nat
    <3>1. \A i \in DOMAIN setupVec : setupVec[i] \in Registration
      BY DEF TypeOK
    <3>2. QED
      BY <3>1 DEF Registration
  <2>4. \A i \in DOMAIN nodeInfo : nodeInfo[i].node \in Node /\ nodeInfo[i].life \in Nat
    BY ListEntries DEF Registration
  <2>5. r.life <= life'[r.node]
    BY <1>1 DEF TypeOK
  <2>6. \A k \in Node : life[k] \in Nat
    BY DEF TypeOK
  <2>7. QED
    BY <1>1, <2>1, <2>2, <2>3, <2>4, <2>5, <2>6 DEF LivesPast
<1>5. NothingBeforeList'
  BY <1>1 DEF NothingBeforeList
<1>6. NetEntries'
  BY <1>1 DEF NetEntries
<1>7. ASSUME NEW i \in DOMAIN nodeInfo, Ready(i)
      PROVE  Ready(i)'
  <2>1. nodeInfo[i].life <= life[nodeInfo[i].node] /\ nodeInfo[i] \in Registration
    BY ListEntries DEF LivesPast
  <2>2. CASE nodeInfo[i].node = n
    <3>1. life'[n] = life[n] + 1 /\ life[n] \in Nat
      BY <1>1 DEF TypeOK
    <3>2. nodeInfo[i].life \in Nat
      BY <2>1 DEF Registration
    <3>3. life'[n] # nodeInfo[i].life
      BY <2>1, <2>2, <3>1, <3>2
    <3>4. QED
      BY <1>1, <2>2, <3>3 DEF Ready
  <2>3. CASE nodeInfo[i].node # n
    BY <1>1, <1>7, <2>1, <2>3 DEF Ready, Registration, TypeOK
  <2>4. QED
    BY <2>2, <2>3
<1>8. AnswersReady'
  BY <1>1, <1>7 DEF AnswersReady, NetEntries
<1>9. KeygenStartsReady' /\ FlagsCounted'
  BY <1>1, <1>2, <1>7, CountKept
<1>10. QED
  BY <1>2, <1>3, <1>4, <1>5, <1>6, <1>8, <1>9

LEMMA StopStep ==
    ASSUME IInv, NEW n \in Node, Stop(n)
    PROVE  IInv'
<1> USE SetupAssumption, CountsPositive DEF IInv
<1>1. /\ alive' = alive \ {n}
      /\ nodeId' = [nodeId EXCEPT ![n] = 0]
      /\ nodeList' = [nodeList EXCEPT ![n] = <<>>]
      /\ inKeygen' = inKeygen \ {n}
      /\ net' = net \ To(n)
      /\ UNCHANGED <<life, setupVec, nodeInfo, finishNum, keygenStarted>>
  BY DEF Stop, proxyVars
<1>2. TypeOK'
  BY <1>1 DEF TypeOK
<1>3. IdsAgree'
  BY <1>1 DEF IdsAgree, TypeOK
<1>4. LivesPast'
  BY <1>1 DEF LivesPast
<1>5. NothingBeforeList'
  BY <1>1 DEF NothingBeforeList, TypeOK
<1>6. NetEntries'
  <2>1. ASSUME NEW m \in net', m.type # "register", m.type # "finish"
        PROVE  m.node # n
    <3>1. m.type \in {"setup", "keygen"} /\ m \in net
      BY <1>1, <2>1 DEF TypeOK, Message
    <3>2. QED
      BY <1>1, <3>1, <2>1 DEF To
  <2>2. QED
    BY <1>1, <2>1 DEF NetEntries
<1>7. ASSUME NEW i \in DOMAIN nodeInfo, Ready(i)
      PROVE  Ready(i)'
  BY <1>1, <1>7 DEF Ready, TypeOK
<1>8. AnswersReady'
  BY <1>1, <1>7 DEF AnswersReady, NetEntries
<1>9. KeygenStartsReady' /\ FlagsCounted'
  BY <1>1, <1>2, <1>7, CountKept
<1>10. QED
  BY <1>2, <1>3, <1>4, <1>5, <1>6, <1>8, <1>9

\* A registration that is not the last one changes nothing but the vector.
LEMMA ProxySetupOneStep ==
    ASSUME IInv, NEW m \in net, ProxySetupOne(m)
    PROVE  IInv'
<1> USE SetupAssumption, CountsPositive DEF IInv
<1> DEFINE e   == [node |-> m.node, life |-> m.life]
           vec == Append(setupVec, e)
<1>1. /\ setupVec' = vec
      /\ UNCHANGED <<alive, life, finishNum, keygenStarted, nodeId, nodeList, inKeygen>>
      /\ m.type = "register"
  BY DEF ProxySetupOne, nodeVars
<1>2. /\ e \in Registration /\ e.node = m.node /\ e.life = m.life
      /\ m.node \in Node
  BY <1>1, Messages DEF Registration
<1>3. /\ vec \in Seq(Registration) /\ Len(vec) = Len(setupVec) + 1 /\ Len(setupVec) \in Nat
      /\ DOMAIN vec = 1 .. Len(setupVec) + 1
      /\ \A i \in DOMAIN vec : vec[i] = e \/ (i \in DOMAIN setupVec /\ vec[i] = setupVec[i])
  BY <1>2 DEF TypeOK
<1>4. \A i \in DOMAIN vec : vec[i] \in Registration /\ vec[i].life <= life[vec[i].node]
  BY <1>1, <1>2, <1>3 DEF LivesPast, TypeOK
<1> HIDE DEF vec, e
<1>5. CASE ~ AllRegistered(vec)
  <2>1. net' = net \ {m} /\ nodeInfo' = nodeInfo
    BY <1>5 DEF ProxySetupOne, vec, e
  <2>2. TypeOK'
    BY <1>1, <1>3, <2>1 DEF TypeOK
  <2>3. IdsAgree'
    BY <1>1, <2>1 DEF IdsAgree
  <2>4. LivesPast'
    BY <1>1, <1>4, <2>1 DEF LivesPast
  <2>5. NothingBeforeList'
    BY <1>1, <1>3, <2>1 DEF NothingBeforeList
  <2>6. NetEntries'
    BY <1>1, <2>1 DEF NetEntries
  <2>7. \A i \in DOMAIN nodeInfo : Ready(i) => Ready(i)'
    BY <1>1, <2>1 DEF Ready
  <2>8. AnswersReady'
    BY <1>1, <2>1, <2>7 DEF AnswersReady, NetEntries
  <2>9. KeygenStartsReady' /\ FlagsCounted'
    BY <1>1, <2>1, <2>2, <2>7, CountKept
  <2>10. QED
    BY <2>2, <2>3, <2>4, <2>5, <2>6, <2>8, <2>9
<1>6. CASE AllRegistered(vec)
  <2>1. nodeInfo' = vec /\ net' = (net \ {m}) \cup Broadcast("setup", vec)
    BY <1>6 DEF ProxySetupOne, vec, e
  <2>2. Len(vec) = ShareCounts /\ DOMAIN vec = 1 .. ShareCounts /\ vec # <<>>
    BY <1>3, <1>6 DEF AllRegistered
  <2>3. nodeInfo = <<>>
    BY <1>3, <2>2 DEF NothingBeforeList
  <2>4. /\ finishNum = 0 /\ ~ keygenStarted
        /\ \A n \in Node : nodeId[n] = 0 /\ nodeList[n] = <<>>
        /\ \A q \in net : q.type = "register"
    BY <2>3 DEF NothingBeforeList
  <2>5. ASSUME NEW q \in Broadcast("setup", vec)
        PROVE  /\ q \in Message /\ q.type = "setup" /\ q.entry \in DOMAIN vec
               /\ vec[q.entry].node = q.node /\ q.node \in alive
    <3>1. PICK i \in {k \in DOMAIN vec : \A j \in 1 .. k : vec[j].node \in alive} :
             q = [type |-> "setup", node |-> vec[i].node, entry |-> i]
      BY DEF Broadcast
    <3>2. i \in 1 .. ShareCounts /\ i \in 1 .. i /\ vec[i].node \in Node /\ vec[i].node \in alive
      BY <1>4, <2>2, <3>1 DEF Registration
    <3>3. QED
      BY <2>2, <3>1, <3>2 DEF Message
  <2>6. TypeOK'
    <3>1. nodeList' \in [Node -> {<<>>, nodeInfo'}]
      BY <1>1, <2>4 DEF TypeOK
    <3>2. net' \subseteq Message
      BY <2>1, <2>5 DEF TypeOK
    <3>3. QED
      BY <1>1, <1>3, <2>1, <2>2, <3>1, <3>2 DEF TypeOK
  <2>7. IdsAgree' /\ KeygenStartsReady'
    BY <1>1, <2>4 DEF IdsAgree, KeygenStartsReady
  <2>8. LivesPast'
    BY <1>1, <1>4, <2>1, <2>5 DEF LivesPast
  <2>9. NothingBeforeList'
    BY <1>1, <2>1, <2>2 DEF NothingBeforeList
  <2>10. NetEntries'
    BY <1>1, <2>1, <2>4, <2>5 DEF NetEntries
  <2>11. AnswersReady'
    BY <2>1, <2>4, <2>5 DEF AnswersReady
  <2>12. FlagsCounted'
    <3>1. Open' \in SUBSET (1 .. ShareCounts)
      BY <2>1, <2>2 DEF Open
    <3>2. Cardinality(Open') \in 0 .. ShareCounts
      BY <3>1, EntrySets
    <3>3. QED
      BY <1>1, <2>4, <3>2 DEF FlagsCounted
  <2>13. QED
    BY <2>6, <2>7, <2>8, <2>9, <2>10, <2>11, <2>12
<1>7. QED
  BY <1>5, <1>6

LEMMA NodeSetupTwoStep ==
    ASSUME IInv, NEW m \in net, NodeSetupTwo(m)
    PROVE  IInv'
<1> USE SetupAssumption, CountsPositive DEF IInv
<1> DEFINE id  == IdIn(m.node, nodeInfo)
           ans == [m EXCEPT !.type = "finish"]
<1>1. /\ m.type = "setup"
      /\ nodeId' = [nodeId EXCEPT ![m.node] = id]
      /\ nodeList' = [nodeList EXCEPT ![m.node] = nodeInfo]
      /\ net' = (net \ {m}) \cup {ans}
      /\ UNCHANGED <<alive, life, setupVec, nodeInfo, finishNum, keygenStarted, inKeygen>>
  BY DEF NodeSetupTwo, proxyVars
<1>2. m.entry \in DOMAIN nodeInfo /\ nodeInfo[m.entry].node = m.node /\ m.node \in Node
  BY <1>1, Messages DEF NetEntries
<1>3. id \in DOMAIN nodeInfo /\ nodeInfo[id].node = m.node /\ id \in 1 .. ShareCounts
  BY <1>2, IdInList, ListEntries DEF TypeOK
<1>4. /\ ans \in Message /\ ans.type = "finish"
      /\ ans.node = m.node /\ ans.entry = m.entry
  BY <1>1, Messages DEF Message
<1> HIDE DEF id, ans
<1>5. TypeOK'
  BY <1>1, <1>2, <1>3, <1>4 DEF TypeOK
<1>6. IdsAgree'
  BY <1>1, <1>2, <1>3 DEF IdsAgree, TypeOK
<1>7. LivesPast'
  BY <1>1, <1>4 DEF LivesPast
<1>8. NothingBeforeList'
  BY <1>1, <1>2 DEF NothingBeforeList
<1>9. NetEntries'
  BY <1>1, <1>2, <1>4 DEF NetEntries
<1>10. /\ \A i \in DOMAIN nodeInfo : Ready(i) => Ready(i)'
       /\ Ready(m.entry)'
  <2>1. \A i \in DOMAIN nodeInfo : nodeInfo[i].node \in Node
    BY ListEntries DEF Registration
  <2>2. nodeId'[m.node] # 0 /\ nodeList'[m.node] = nodeInfo
    BY <1>1, <1>2, <1>3 DEF TypeOK
  <2>3. \A n \in Node \ {m.node} : nodeId'[n] = nodeId[n] /\ nodeList'[n] = nodeList[n]
    BY <1>1 DEF TypeOK
  <2>4. QED
    BY <1>1, <1>2, <2>1, <2>2, <2>3 DEF Ready
<1>11. AnswersReady'
  <2>1. ASSUME NEW q \in net, q.type = "setup", q.entry = m.entry
        PROVE  q = m
    <3>1. q.node = m.node
      BY <1>1, <1>2, <2>1 DEF NetEntries
    <3>2. QED
      BY <1>1, <2>1, <3>1, Messages
  <2>2. QED
    BY <1>1, <1>4, <1>10, <2>1 DEF AnswersReady, NetEntries
<1>12. KeygenStartsReady' /\ FlagsCounted'
  BY <1>1, <1>4, <1>5, <1>10, CountKept
<1>13. QED
  BY <1>5, <1>6, <1>7, <1>8, <1>9, <1>11, <1>12

\* When the last flag is counted no entry is open.
LEMMA ProxySetupTwoStep ==
    ASSUME IInv, NEW m \in net, ProxySetupTwo(m)
    PROVE  IInv'
<1> USE SetupAssumption, CountsPositive DEF IInv
<1> DEFINE sent == IF AllFinished(finishNum + 1) /\ AllReached(nodeInfo)
                   THEN Broadcast("keygen", nodeInfo) ELSE {}
<1>1. /\ m.type = "finish"
      /\ finishNum' = finishNum + 1
      /\ net' = (net \ {m}) \cup sent
      /\ keygenStarted' = (keygenStarted \/ (AllFinished(finishNum + 1) /\ AllReached(nodeInfo)))
      /\ UNCHANGED <<alive, life, setupVec, nodeInfo, nodeId, nodeList, inKeygen>>
  BY DEF ProxySetupTwo, nodeVars, TypeOK
<1>2. /\ m.entry \in DOMAIN nodeInfo /\ nodeInfo[m.entry].node = m.node
      /\ Ready(m.entry)
      /\ nodeInfo # <<>> /\ DOMAIN nodeInfo = 1 .. ShareCounts
  BY <1>1, ListEntries DEF NetEntries, AnswersReady
<1>3. ASSUME NEW q \in sent
      PROVE  /\ q \in Message /\ q.type = "keygen" /\ q.entry \in DOMAIN nodeInfo
             /\ nodeInfo[q.entry].node = q.node /\ q.node \in alive
  <2>1. PICK i \in {k \in DOMAIN nodeInfo : \A j \in 1 .. k : nodeInfo[j].node \in alive} :
           q = [type |-> "keygen", node |-> nodeInfo[i].node, entry |-> i]
    BY DEF Broadcast
  <2>2. i \in 1 .. ShareCounts /\ i \in 1 .. i /\ nodeInfo[i].node \in Node /\ nodeInfo[i].node \in alive
    BY <1>2, <2>1, ListEntries DEF Registration
  <2>3. QED
    BY <1>2, <2>1, <2>2 DEF Message
<1> HIDE DEF sent
<1>4. \A i \in DOMAIN nodeInfo : Ready(i)' = Ready(i)
  BY <1>1 DEF Ready
<1>5. Open' \in SUBSET (Open \ {m.entry}) /\ m.entry \in Open /\ Open \in SUBSET (1 .. ShareCounts)
  <2>1. ASSUME NEW q \in net, q.type = "finish", q.entry = m.entry
        PROVE  q = m
    <3>1. q.node = m.node
      BY <1>1, <1>2, <2>1 DEF NetEntries
    <3>2. QED
      BY <1>1, <2>1, <3>1, Messages
  <2>2. \A q \in net' : q.type \in {"setup", "finish"} => q \in net \ {m} /\ q.entry # m.entry
    BY <1>1, <1>3, <2>1 DEF AnswersReady
  <2>3. QED
    BY <1>1, <1>2, <1>4, <2>2 DEF Open
<1>6. /\ Cardinality(Open) \in Nat /\ Cardinality(Open') \in Nat /\ IsFiniteSet(Open')
      /\ Cardinality(Open') <= Cardinality(Open) - 1
  <2>1. IsFiniteSet(Open) /\ Cardinality(Open) \in Nat
    BY <1>5, EntrySets
  <2>2. IsFiniteSet(Open \ {m.entry}) /\ Cardinality(Open \ {m.entry}) = Cardinality(Open) - 1
    BY <1>5, <2>1, FS_RemoveElement
  <2>3. IsFiniteSet(Open') /\ Cardinality(Open') <= Cardinality(Open \ {m.entry})
    BY <1>5, <2>2, FS_Subset
  <2>4. Cardinality(Open') \in Nat
    BY <2>3, FS_CardinalityType
  <2>5. QED
    BY <2>1, <2>2, <2>3, <2>4
<1>7. FlagsCounted'
  BY <1>1, <1>6 DEF FlagsCounted, TypeOK
<1>8. TypeOK'
  <2>1. finishNum' \in 0 .. ShareCounts
    BY <1>1, <1>6, <1>7 DEF FlagsCounted, TypeOK
  <2>2. net' \subseteq Message
    BY <1>1, <1>3 DEF TypeOK
  <2>3. keygenStarted' \in BOOLEAN
    BY <1>1
  <2>4. QED
    BY <1>1, <2>1, <2>2, <2>3 DEF TypeOK
<1>9. IdsAgree'
  BY <1>1 DEF IdsAgree
<1>10. KeygenStartsReady'
  <2>1. CASE AllFinished(finishNum + 1)
    <3>1. Cardinality(Open') = 0
      BY <1>1, <1>6, <1>7, <2>1 DEF FlagsCounted, AllFinished
    <3>2. Open' = {}
      BY <1>6, <3>1, FS_EmptySet
    <3>3. QED
      BY <3>2 DEF KeygenStartsReady, Open
  <2>2. CASE ~ AllFinished(finishNum + 1)
    BY <1>1, <1>4, <2>2 DEF KeygenStartsReady
  <2>3. QED
    BY <2>1, <2>2
<1>11. LivesPast'
  BY <1>1, <1>3 DEF LivesPast
<1>12. NothingBeforeList'
  BY <1>1, <1>2 DEF NothingBeforeList
<1>13. NetEntries'
  BY <1>1, <1>3 DEF NetEntries
<1>14. AnswersReady'
  BY <1>1, <1>3, <1>4 DEF AnswersReady, NetEntries
<1>15. QED
  BY <1>7, <1>8, <1>9, <1>10, <1>11, <1>12, <1>13, <1>14

LEMMA NodeKeygenStep ==
    ASSUME IInv, NEW m \in net, NodeKeygen(m)
    PROVE  IInv'
<1> USE SetupAssumption, CountsPositive DEF IInv
<1>1. /\ m.type = "keygen"
      /\ net' = net \ {m}
      /\ inKeygen' \in {inKeygen, inKeygen \cup {m.node}}
      /\ UNCHANGED <<alive, life, setupVec, nodeInfo, finishNum, keygenStarted, nodeId, nodeList>>
  BY DEF NodeKeygen, proxyVars
<1>2. TypeOK'
  BY <1>1 DEF TypeOK, NetEntries
<1>3. IdsAgree'
  BY <1>1 DEF IdsAgree
<1>4. LivesPast' /\ NetEntries'
  BY <1>1 DEF LivesPast, NetEntries
<1>5. NothingBeforeList'
  BY <1>1 DEF NothingBeforeList
<1>6. \A i \in DOMAIN nodeInfo : Ready(i) => Ready(i)'
  BY <1>1 DEF Ready
<1>7. AnswersReady'
  BY <1>1, <1>6 DEF AnswersReady, NetEntries
<1>8. KeygenStartsReady' /\ FlagsCounted'
  BY <1>1, <1>2, <1>6, CountKept
<1>9. QED
  BY <1>2, <1>3, <1>4, <1>5, <1>7, <1>8

-----------------------------------------------------------------------------

\* IInv: registrations, the list and the flags stand for what nodes did, also
\* when they are stopped and started again.
THEOREM Inductive == Spec => []IInv
<1>1. ASSUME IInv, [Next]_vars
      PROVE  IInv'
  <2>1. CASE \E n \in Node : Start(n)
    BY <1>1, <2>1, StartStep
  <2>2. CASE \E n \in Node : Stop(n)
    BY <1>1, <2>2, StopStep
  <2>3. CASE \E m \in net : ProxySetupOne(m)
    BY <1>1, <2>3, ProxySetupOneStep
  <2>4. CASE \E m \in net : NodeSetupTwo(m)
    BY <1>1, <2>4, NodeSetupTwoStep
  <2>5. CASE \E m \in net : ProxySetupTwo(m)
    BY <1>1, <2>5, ProxySetupTwoStep
  <2>6. CASE \E m \in net : NodeKeygen(m)
    BY <1>1, <2>6, NodeKeygenStep
  <2>7. CASE UNCHANGED vars
    BY <1>1, <2>7 DEF vars, proxyVars, nodeVars, IInv, TypeOK, IdsAgree, KeygenStartsReady,
                      LivesPast, NothingBeforeList, NetEntries, AnswersReady, Ready,
                      FlagsCounted, Open
  <2>8. QED
    BY <1>1, <2>1, <2>2, <2>3, <2>4, <2>5, <2>6, <2>7 DEF Next, Handle
<1>2. QED
  BY InitIInv, <1>1, PTL DEF Spec

\* TypeOK: proxy and nodes keep the shape of their state through every handler
\* and every restart.
THEOREM TypeCorrect == Spec => []TypeOK
<1>1. IInv => TypeOK
  BY DEF IInv
<1>2. QED
  BY Inductive, <1>1, PTL

\* IdsAgree: the last entry with its address, which a node takes its id from,
\* is its own, and the proxy's list is the node's.
THEOREM IdsNameNodes == Spec => []IdsAgree
<1>1. IInv => IdsAgree
  BY DEF IInv
<1>2. QED
  BY Inductive, <1>1, PTL

\* KeygenStartsReady: the proxy, which counts flags, starts key generation only
\* when every entry has answered in the life it registered in, or is gone.
THEOREM StartsReady == Spec => []KeygenStartsReady
<1>1. IInv => KeygenStartsReady
  BY DEF IInv
<1>2. QED
  BY Inductive, <1>1, PTL

=============================================================================
