---------------------------- MODULE KeyGenProofs ----------------------------
(***************************************************************************)
(* Proofs about key generation, for every set of nodes and keys and for    *)
(* every order of messages.                                                *)
(***************************************************************************)
EXTENDS KeyGen, FiniteSetTheorems, TLAPS

\* A vector of commitments, dealings or proofs as long as the list of nodes
\* comes from all of them.
LEMMA FullVec ==
    ASSUME NEW V, V \subseteq Node, Cardinality(V) = Cardinality(Node)
    PROVE  V = Node
BY NodeAssumption, FS_Subset

\* The number of shares counted is the number of keys only when all are there.
LEMMA AllShared ==
    ASSUME NEW V, V \subseteq Tag
    PROVE  /\ Cardinality(V) \in Nat
           /\ Cardinality(V) <= Cardinality(Tag)
           /\ Cardinality(V) = Cardinality(Tag) => V = Tag
BY TagAssumption, FS_Subset, FS_CardinalityType

LEMMA OneMoreShared ==
    ASSUME NEW V, V \subseteq Tag, NEW t, t \notin V
    PROVE  Cardinality(V \cup {t}) = Cardinality(V) + 1
BY TagAssumption, FS_Subset, FS_AddElement

-----------------------------------------------------------------------------

LEMMA InitIInv == Init => IInv
<1> SUFFICES ASSUME Init PROVE IInv
    OBVIOUS
<1>1. TypeOK
    BY DEF Init, TypeOK, GpkState
<1>2. SharesCounted
    <2>1. \A n \in Node : Shared(n) = {}
        BY DEF Init, Shared
    <2> QED BY <2>1, FS_EmptySet DEF Init, SharesCounted
<1> QED
    BY <1>1, <1>2 DEF Init, IInv, StartedKnows, CommitAfterStart, CommitOnce, DealtAll,
       Dealt, DealOnce, ShareAfterDeals, ProofAfterShares, PublishedAfterProofs

LEMMA NodePhaseOneStep ==
    ASSUME IInv, NEW n \in Node, NodePhaseOne(n)
    PROVE  IInv'
<1> USE DEF IInv
<1>1. TypeOK'
    BY DEF NodePhaseOne, Commitments, TypeOK, proxyVars, GpkState, OneMsg
<1>2. StartedKnows'
    BY DEF NodePhaseOne, Commitments, StartedKnows, TypeOK, proxyVars
<1>3. CommitAfterStart'
    BY DEF NodePhaseOne, Commitments, CommitAfterStart, TypeOK, OneMsg
<1>4. CommitOnce'
    <2> SUFFICES ASSUME NEW m \in oneMsgs'
                 PROVE  m.from \notin phaseOneVec'[m.to][m.tag]
        BY DEF CommitOnce
    <2>1. CASE m \in oneMsgs
        BY <2>1 DEF NodePhaseOne, Commitments, CommitOnce, CommitAfterStart, TypeOK, OneMsg
    <2>2. CASE m \in [tag : Tag, from : {n}, to : Node \ {n}]
        BY <2>2 DEF NodePhaseOne, Commitments, CommitAfterStart, TypeOK
    <2> QED BY <2>1, <2>2 DEF NodePhaseOne, Commitments
<1>5. DealtAll'
    BY DEF NodePhaseOne, Commitments, DealtAll, Dealt, Dealing, TypeOK, proxyVars
<1>6. DealOnce'
    BY DEF NodePhaseOne, Commitments, DealOnce, proxyVars
<1>7. ShareAfterDeals'
    BY DEF NodePhaseOne, Commitments, ShareAfterDeals, proxyVars
<1>8. SharesCounted' /\ ProofAfterShares'
    BY DEF NodePhaseOne, Commitments, SharesCounted, ProofAfterShares, Shared, proxyVars
<1>9. PublishedAfterProofs'
    BY DEF NodePhaseOne, Commitments, PublishedAfterProofs, proxyVars, TypeOK
<1> QED BY <1>1, <1>2, <1>3, <1>4, <1>5, <1>6, <1>7, <1>8, <1>9

LEMMA NodePhaseTwoStep ==
    ASSUME IInv, NEW n \in Node, NEW m \in oneMsgs, NodePhaseTwo(n, m)
    PROVE  IInv'
<1> USE DEF IInv
<1> DEFINE vec == phaseOneVec[n][m.tag] \cup {m.from}
           deal == [tag |-> m.tag, from |-> n]
<1>1. m \in OneMsg /\ m.to = n /\ m.tag \in Tag /\ m.from \in Node /\ vec \subseteq Node
    BY DEF NodePhaseTwo, Full, Dealing, TypeOK, OneMsg
<1>2. oneMsgs' = oneMsgs \ {m} /\ phaseOneVec' = [phaseOneVec EXCEPT ![n][m.tag] = vec]
    BY DEF NodePhaseTwo, Full, Dealing
<1>3. \/ yiMap' = yiMap /\ twoMsgs' = twoMsgs
      \/ /\ vec = Node
         /\ yiMap' = [yiMap EXCEPT ![n][m.tag] = Node]
         /\ twoMsgs' = twoMsgs \cup {deal}
    BY <1>1, FullVec DEF NodePhaseTwo, Full, Dealing
<1>4. UNCHANGED <<proxyVars, nodeGpk, nodeParts, mskshare, xjNum,
                  startMsgs, threeMsgs, fiveMsgs, gpkMsgs>>
    BY DEF NodePhaseTwo, Full, Dealing
<1>5. TypeOK'
    <2>1. phaseOneVec' \in [Node -> [Tag -> SUBSET Node]]
        BY <1>1, <1>2 DEF TypeOK
    <2>2. yiMap' \in [Node -> [Tag -> SUBSET Node]]
        <3>1. CASE yiMap' = yiMap
            BY <3>1 DEF TypeOK
        <3>2. CASE yiMap' = [yiMap EXCEPT ![n][m.tag] = Node]
            BY <1>1, <3>2 DEF TypeOK
        <3> QED BY <1>3, <3>1, <3>2
    <2>3. twoMsgs' \subseteq TwoMsg
        BY <1>1, <1>3 DEF TypeOK, TwoMsg
    <2> QED BY <1>2, <1>4, <2>1, <2>2, <2>3 DEF TypeOK, proxyVars
<1>6. StartedKnows'
    BY <1>4 DEF StartedKnows, proxyVars
<1>7. CommitAfterStart'
    BY <1>1, <1>2, <1>4 DEF CommitAfterStart, TypeOK
<1>8. CommitOnce'
    <2> SUFFICES ASSUME NEW k \in oneMsgs'
                 PROVE  k.from \notin phaseOneVec'[k.to][k.tag]
        BY DEF CommitOnce
    <2>1. k \in oneMsgs /\ k # m /\ k \in OneMsg
        BY <1>2 DEF TypeOK
    <2>2. k.from # m.from \/ k.to # m.to \/ k.tag # m.tag
        BY <1>1, <2>1 DEF OneMsg
    <2> QED BY <1>1, <1>2, <2>1, <2>2 DEF CommitOnce, TypeOK, OneMsg
<1>9. DealtAll'
    <2> SUFFICES ASSUME NEW t \in Tag, NEW k \in Node, Dealt(k, t)'
                 PROVE  phaseOneVec'[k][t] = Node /\ yiMap'[k][t] = Node
        BY DEF DealtAll
    <2>1. CASE Dealt(k, t)
        <3>1. phaseOneVec[k][t] = Node /\ yiMap[k][t] = Node
            BY <2>1 DEF DealtAll
        <3>2. phaseOneVec'[k][t] = Node
            BY <1>1, <1>2, <3>1 DEF TypeOK
        <3>3. yiMap'[k][t] = Node
            <4>1. CASE yiMap' = yiMap
                BY <3>1, <4>1
            <4>2. CASE yiMap' = [yiMap EXCEPT ![n][m.tag] = Node]
                BY <1>1, <3>1, <4>2 DEF TypeOK
            <4> QED BY <1>3, <4>1, <4>2
        <3> QED BY <3>2, <3>3
    <2>2. CASE ~ Dealt(k, t)
        <3>1. k = n /\ t = m.tag /\ vec = Node /\ yiMap' = [yiMap EXCEPT ![n][m.tag] = Node]
            BY <1>3, <1>4, <2>2 DEF Dealt, Dealing, proxyVars
        <3> QED BY <1>1, <1>2, <3>1 DEF TypeOK
    <2> QED BY <2>1, <2>2
<1>10. DealOnce'
    <2>1. m.from \notin phaseOneVec[n][m.tag]
        BY <1>1 DEF CommitOnce
    <2>2. n \notin phaseTwoVec[m.tag]
        BY <1>1, <2>1 DEF DealtAll, Dealt
    <2> QED BY <1>3, <1>4, <2>2 DEF DealOnce, proxyVars
<1>11. ShareAfterDeals' /\ SharesCounted' /\ ProofAfterShares' /\ PublishedAfterProofs'
    BY <1>4 DEF ShareAfterDeals, SharesCounted, ProofAfterShares, Shared,
       PublishedAfterProofs, proxyVars
<1> QED BY <1>5, <1>6, <1>7, <1>8, <1>9, <1>10, <1>11

LEMMA ProxyPhaseThreeStep ==
    ASSUME IInv, NEW m \in twoMsgs, ProxyPhaseThree(m)
    PROVE  IInv'
<1> USE DEF IInv
<1> DEFINE vec == phaseTwoVec[m.tag] \cup {m.from}
<1>1. m.tag \in Tag /\ m.from \in Node /\ vec \subseteq Node
      /\ m = [tag |-> m.tag, from |-> m.from]
    BY DEF TypeOK, TwoMsg
<1>2. twoMsgs' = twoMsgs \ {m} /\ phaseTwoVec' = [phaseTwoVec EXCEPT ![m.tag] = vec]
    BY DEF ProxyPhaseThree, Full, MergedShares
<1>3. \/ UNCHANGED threeMsgs
      \/ /\ vec = Node
         /\ threeMsgs' = threeMsgs \cup [tag : {m.tag}, to : Node, dealers : {vec}]
    BY <1>1, FullVec DEF ProxyPhaseThree, Full, MergedShares
<1>4. UNCHANGED <<gpk, participants, phaseFiveVec, nodeVars,
                  startMsgs, oneMsgs, fiveMsgs, gpkMsgs>>
    BY DEF ProxyPhaseThree, Full, MergedShares
<1>5. TypeOK'
    BY <1>1, <1>2, <1>3, <1>4 DEF TypeOK, nodeVars, ThreeMsg
<1>6. StartedKnows' /\ CommitAfterStart' /\ CommitOnce'
    BY <1>4 DEF StartedKnows, CommitAfterStart, CommitOnce, nodeVars
<1>7. DealtAll'
    BY <1>1, <1>2, <1>4 DEF DealtAll, Dealt, Dealing, TypeOK, nodeVars
<1>8. DealOnce'
    BY <1>1, <1>2 DEF DealOnce, TypeOK, TwoMsg
<1>9. ShareAfterDeals'
    <2>1. phaseTwoVec[m.tag] # Node
        BY <1>1 DEF DealOnce
    <2>2. \A k \in threeMsgs : k.tag # m.tag
        BY <2>1 DEF ShareAfterDeals
    <2>3. \A k \in Node : mskshare[k][m.tag] = {}
        BY <1>1, <2>1 DEF ShareAfterDeals
    <2>4. \A k \in threeMsgs' :
            k.dealers = Node /\ mskshare[k.to][k.tag] = {} /\ phaseTwoVec'[k.tag] = Node
        <3> SUFFICES ASSUME NEW k \in threeMsgs'
                     PROVE  /\ k.dealers = Node /\ mskshare[k.to][k.tag] = {}
                            /\ phaseTwoVec'[k.tag] = Node
            OBVIOUS
        <3>1. CASE k \in threeMsgs
            <4>1. k \in ThreeMsg /\ k.tag # m.tag
                BY <2>2, <3>1 DEF TypeOK
            <4> QED BY <1>1, <1>2, <3>1, <4>1 DEF ShareAfterDeals, TypeOK, ThreeMsg
        <3>2. CASE k \notin threeMsgs
            <4>1. vec = Node /\ k \in [tag : {m.tag}, to : Node, dealers : {vec}]
                BY <1>3, <3>2
            <4>2. k.tag = m.tag /\ k.to \in Node /\ k.dealers = Node
                BY <4>1
            <4> QED BY <1>1, <1>2, <2>3, <4>1, <4>2 DEF TypeOK
        <3> QED BY <3>1, <3>2
    <2>5. \A k \in Node, t \in Tag :
            mskshare[k][t] # {} => mskshare[k][t] = Node /\ phaseTwoVec'[t] = Node
        BY <1>1, <1>2, <2>3 DEF ShareAfterDeals, TypeOK
    <2> QED BY <1>4, <2>4, <2>5 DEF ShareAfterDeals, nodeVars
<1>10. SharesCounted' /\ ProofAfterShares' /\ PublishedAfterProofs'
    BY <1>4 DEF SharesCounted, ProofAfterShares, Shared, PublishedAfterProofs, nodeVars
<1> QED BY <1>5, <1>6, <1>7, <1>8, <1>9, <1>10

LEMMA NodePhaseFourStep ==
    ASSUME IInv, NEW n \in Node, NEW m \in threeMsgs, NodePhaseFour(n, m)
    PROVE  /\ IInv'
           /\ mskshare[n][m.tag] = {}
           /\ mskshare' = [mskshare EXCEPT ![n][m.tag] = m.dealers]
<1> USE DEF IInv
<1>1. m \in ThreeMsg /\ m.to = n /\ m.tag \in Tag /\ m.dealers = Node
      /\ mskshare[n][m.tag] = {} /\ phaseTwoVec[m.tag] = Node
    BY DEF NodePhaseFour, LastShare, TypeOK, ThreeMsg, ShareAfterDeals
<1>2. /\ threeMsgs' = threeMsgs \ {m}
      /\ mskshare' = [mskshare EXCEPT ![n][m.tag] = m.dealers]
      /\ xjNum' = [xjNum EXCEPT ![n] = xjNum[n] + 1]
      /\ fiveMsgs' = IF xjNum[n] + 1 = Cardinality(Tag) /\ CanProve(n)
                   THEN fiveMsgs \cup {n} ELSE fiveMsgs
    BY DEF NodePhaseFour, LastShare
<1>3. UNCHANGED <<proxyVars, nodeGpk, nodeParts, phaseOneVec, yiMap,
                  startMsgs, oneMsgs, twoMsgs, gpkMsgs>>
    BY DEF NodePhaseFour, LastShare
<1>4. TypeOK'
    BY <1>1, <1>2, <1>3 DEF TypeOK, proxyVars
<1>5. StartedKnows' /\ CommitAfterStart' /\ CommitOnce' /\ DealtAll' /\ DealOnce'
    BY <1>3 DEF StartedKnows, CommitAfterStart, CommitOnce, DealtAll, Dealt, DealOnce, proxyVars
<1>6. \A k \in threeMsgs' : k.to # n \/ k.tag # m.tag
    <2> SUFFICES ASSUME NEW k \in threeMsgs, k.to = n, k.tag = m.tag PROVE k = m
        BY <1>2
    <2>1. k \in ThreeMsg /\ k.dealers = Node
        BY DEF TypeOK, ShareAfterDeals
    <2> QED BY <1>1, <2>1 DEF ThreeMsg
<1>7. ShareAfterDeals'
    BY <1>1, <1>2, <1>3, <1>6 DEF ShareAfterDeals, TypeOK, proxyVars, ThreeMsg
<1>8. /\ Shared(n)' = Shared(n) \cup {m.tag}
      /\ m.tag \notin Shared(n)
      /\ \A k \in Node : k # n => Shared(k)' = Shared(k)
    BY <1>1, <1>2 DEF Shared, TypeOK
<1>9. SharesCounted'
    <2>1. Cardinality(Shared(n)') = Cardinality(Shared(n)) + 1
        BY <1>8, OneMoreShared DEF Shared
    <2> QED BY <1>2, <1>8, <2>1 DEF SharesCounted, TypeOK
<1>10. ProofAfterShares'
    <2>1. ASSUME xjNum[n] + 1 = Cardinality(Tag)  PROVE Shared(n)' = Tag
        BY <1>2, <1>9, <2>1, AllShared DEF SharesCounted, TypeOK, Shared
    <2>2. \A k \in Node : Shared(k) = Tag => Shared(k)' = Tag
        BY <1>1, <1>8
    <2> QED BY <1>2, <1>3, <2>1, <2>2 DEF ProofAfterShares, proxyVars
<1>11. PublishedAfterProofs'
    BY <1>3 DEF PublishedAfterProofs, proxyVars
<1> QED BY <1>1, <1>2, <1>4, <1>5, <1>7, <1>9, <1>10, <1>11

LEMMA ProxyPhaseFiveStep ==
    ASSUME IInv, NEW n \in Node, ProxyPhaseFive(n)
    PROVE  IInv'
<1> USE DEF IInv
<1>1. /\ phaseFiveVec' = phaseFiveVec \cup {n}
      /\ fiveMsgs' = fiveMsgs \ {n}
      /\ n \in fiveMsgs
    BY DEF ProxyPhaseFive, AllProved
<1>2. \/ UNCHANGED <<gpk, gpkMsgs>>
      \/ phaseFiveVec' = Node /\ gpk' = "complete" /\ gpkMsgs' = Node
    <2>1. phaseFiveVec \cup {n} \subseteq Node
        BY DEF TypeOK
    <2> QED BY <2>1, FullVec DEF ProxyPhaseFive, AllProved
<1>3. UNCHANGED <<participants, phaseTwoVec, nodeVars,
                  startMsgs, oneMsgs, twoMsgs, threeMsgs>>
    BY DEF ProxyPhaseFive, AllProved
<1>4. TypeOK'
    BY <1>1, <1>2, <1>3 DEF TypeOK, nodeVars, GpkState
<1>5. /\ StartedKnows' /\ CommitAfterStart' /\ CommitOnce' /\ DealtAll' /\ DealOnce'
      /\ ShareAfterDeals' /\ SharesCounted'
    BY <1>3 DEF StartedKnows, CommitAfterStart, CommitOnce, DealtAll, Dealt, DealOnce,
       ShareAfterDeals, SharesCounted, Shared, nodeVars
<1>6. ProofAfterShares'
    BY <1>1, <1>3 DEF ProofAfterShares, Shared, nodeVars
<1>7. PublishedAfterProofs'
    BY <1>1, <1>2, <1>3 DEF PublishedAfterProofs, TypeOK, nodeVars
<1> QED BY <1>4, <1>5, <1>6, <1>7

LEMMA NodePhaseSixStep ==
    ASSUME IInv, NEW n \in Node, NodePhaseSix(n)
    PROVE  IInv'
<1> USE DEF IInv
<1>1. TypeOK'
    BY DEF NodePhaseSix, TypeOK, proxyVars, GpkState
<1>2. StartedKnows'
    BY DEF NodePhaseSix, StartedKnows, TypeOK, proxyVars
<1>3. /\ CommitAfterStart' /\ CommitOnce' /\ DealtAll' /\ DealOnce'
      /\ ShareAfterDeals' /\ SharesCounted' /\ ProofAfterShares'
    BY DEF NodePhaseSix, CommitAfterStart, CommitOnce, DealtAll, Dealt, DealOnce,
       ShareAfterDeals, SharesCounted, ProofAfterShares, Shared, proxyVars
<1>4. PublishedAfterProofs'
    BY DEF NodePhaseSix, PublishedAfterProofs, TypeOK, proxyVars
<1> QED BY <1>1, <1>2, <1>3, <1>4

LEMMA StutterStep == ASSUME IInv, UNCHANGED vars PROVE IInv'
<1> USE DEF vars, proxyVars, nodeVars, netVars, IInv
<1>1. TypeOK'
    BY DEF TypeOK
<1>2. StartedKnows' /\ CommitAfterStart' /\ CommitOnce'
    BY DEF StartedKnows, CommitAfterStart, CommitOnce
<1>3. DealtAll' /\ DealOnce' /\ ShareAfterDeals'
    BY DEF DealtAll, Dealt, DealOnce, ShareAfterDeals
<1>4. SharesCounted' /\ ProofAfterShares' /\ PublishedAfterProofs'
    BY DEF SharesCounted, Shared, ProofAfterShares, PublishedAfterProofs
<1> QED BY <1>1, <1>2, <1>3, <1>4

LEMMA NextIInv == IInv /\ [Next]_vars => IInv'
<1> SUFFICES ASSUME IInv, [Next]_vars PROVE IInv'
    OBVIOUS
<1>1. CASE \E n \in Node : NodePhaseOne(n) \/ ProxyPhaseFive(n) \/ NodePhaseSix(n)
    BY <1>1, NodePhaseOneStep, ProxyPhaseFiveStep, NodePhaseSixStep
<1>2. CASE \E n \in Node, m \in oneMsgs : NodePhaseTwo(n, m)
    BY <1>2, NodePhaseTwoStep
<1>3. CASE \E m \in twoMsgs : ProxyPhaseThree(m)
    BY <1>3, ProxyPhaseThreeStep
<1>4. CASE \E n \in Node, m \in threeMsgs : NodePhaseFour(n, m)
    BY <1>4, NodePhaseFourStep
<1>5. CASE Finished \/ UNCHANGED vars
    BY <1>5, StutterStep DEF Finished
<1> QED BY <1>1, <1>2, <1>3, <1>4, <1>5 DEF Next

\* The inductive invariant holds in every behaviour of key generation.
THEOREM InductiveInvariant == Spec => []IInv
<1>1. Init => IInv
    BY InitIInv
<1>2. IInv /\ [Next]_vars => IInv'
    BY NextIInv
<1> QED BY <1>1, <1>2, PTL DEF Spec

-----------------------------------------------------------------------------

\* Once a share exists, every node has dealt and everyone has started.
LEMMA ShareMeansDealt ==
    ASSUME IInv, NEW t \in Tag, phaseTwoVec[t] = Node
    PROVE  \A n \in Node : /\ yiMap[n][t] = Node
                           /\ nodeGpk[n] # "none" /\ nodeParts[n] = participants
<1>1. \A n \in Node : phaseOneVec[n][t] = Node /\ yiMap[n][t] = Node
    BY DEF IInv, DealtAll, Dealt
<1> QED BY <1>1 DEF IInv, CommitAfterStart, StartedKnows

\* The published key is backed by a full set of shares.
LEMMA PublishedMeansShared ==
    ASSUME IInv, gpk = "complete"
    PROVE  \A n \in Node, t \in Tag : mskshare[n][t] = Node /\ phaseTwoVec[t] = Node
BY DEF IInv, PublishedAfterProofs, ProofAfterShares, Shared, ShareAfterDeals

\* TypeOK: the state of key generation keeps its shape.
THEOREM TypeCorrect == Spec => []TypeOK
<1>1. IInv => TypeOK
    BY DEF IInv
<1> QED BY <1>1, InductiveInvariant, PTL

\* DealAfterCommit: no dealing of a key before every commitment to it.
THEOREM DealsAfterCommits == Spec => []DealAfterCommit
<1>1. IInv => DealAfterCommit
    BY DEF IInv, DealAfterCommit, DealtAll, Dealt, CommitAfterStart
<1> QED BY <1>1, InductiveInvariant, PTL

\* KeyPublishedWhenShared: a complete public key has shares behind it at
\* every node, each the sum of all nodes' dealings.
THEOREM PublishedKeyIsShared == Spec => []KeyPublishedWhenShared
<1>1. IInv => KeyPublishedWhenShared
    BY PublishedMeansShared DEF IInv, KeyPublishedWhenShared, PublishedAfterProofs
<1> QED BY <1>1, InductiveInvariant, PTL

\* NothingMissingAtProof: no handler unwraps a value that is not there yet.
THEOREM NothingMissing == Spec => []NothingMissingAtProof
<1>1. ASSUME IInv PROVE NothingMissingAtProof
    <2>1. \A m \in threeMsgs : m.to \in yiMap[m.to][m.tag]
        BY <1>1, ShareMeansDealt DEF IInv, ShareAfterDeals, TypeOK, ThreeMsg
    <2>2. \A n \in gpkMsgs : nodeGpk[n] # "none" /\ nodeParts[n] = participants
        <3> SUFFICES ASSUME NEW n \in gpkMsgs
                     PROVE  nodeGpk[n] # "none" /\ nodeParts[n] = participants
            OBVIOUS
        <3>1. n \in Node /\ gpk = "complete"
            BY <1>1 DEF IInv, TypeOK, PublishedAfterProofs
        <3>2. PICK t \in Tag : TRUE
            BY TagAssumption
        <3>3. phaseTwoVec[t] = Node
            BY <1>1, <3>1, PublishedMeansShared
        <3> QED BY <1>1, <3>1, <3>3, ShareMeansDealt
    <2> QED BY <2>1, <2>2 DEF NothingMissingAtProof
<1> QED BY <1>1, InductiveInvariant, PTL

\* SharesAreFinal: an accepted share is never replaced or counted twice.
THEOREM SharesNeverReplaced == Spec => SharesAreFinal
<1> DEFINE Keep == \A n \in Node, t \in Tag :
               mskshare[n][t] # {} =>
                   mskshare'[n][t] = mskshare[n][t] /\ xjNum'[n] <= Cardinality(Tag)
<1>1. ASSUME IInv, IInv', [Next]_vars PROVE Keep
    <2>1. \A n \in Node : xjNum'[n] <= Cardinality(Tag)
        <3> SUFFICES ASSUME NEW n \in Node PROVE xjNum'[n] <= Cardinality(Tag)
            OBVIOUS
        <3>1. Shared(n)' \subseteq Tag
            BY DEF Shared
        <3>2. xjNum'[n] = Cardinality(Shared(n)')
            BY <1>1 DEF IInv, SharesCounted
        <3> QED BY <3>1, <3>2, AllShared
    <2>2. CASE \E n \in Node, m \in threeMsgs : NodePhaseFour(n, m)
        <3>1. PICK n \in Node, m \in threeMsgs : NodePhaseFour(n, m)
            BY <2>2
        <3>2. mskshare[n][m.tag] = {} /\ mskshare' = [mskshare EXCEPT ![n][m.tag] = m.dealers]
            BY <1>1, <3>1, NodePhaseFourStep
        <3>3. \A k \in Node, t \in Tag : mskshare[k][t] # {} => mskshare'[k][t] = mskshare[k][t]
            BY <1>1, <3>2 DEF IInv, TypeOK
        <3> QED BY <2>1, <3>3
    <2>3. CASE UNCHANGED mskshare
        BY <2>1, <2>3
    <2> QED BY <1>1, <2>2, <2>3 DEF Next, NodePhaseOne, NodePhaseTwo, ProxyPhaseThree,
            ProxyPhaseFive, NodePhaseSix, Finished, vars, nodeVars
<1>2. IInv /\ IInv' /\ [Next]_vars => [Keep]_vars
    BY <1>1
<1> QED BY <1>2, InductiveInvariant, PTL DEF Spec, SharesAreFinal

=============================================================================
