------------------------------- MODULE KeyGen -------------------------------
(***************************************************************************)
(* The distributed key generation that follows setup: the proxy picks the  *)
(* participants and broadcasts its generators; every node commits to its   *)
(* contribution to each of the four keys (A, B, O, C), deals Feldman       *)
(* shares once it holds every commitment, and the proxy adds the dealings  *)
(* up per key and returns each node its share.  A node that holds a share  *)
(* of every key proves it to the proxy, which publishes the group public   *)
(* key once all nodes have.                                                *)
(*                                                                         *)
(* Every message travels on a TCP connection of its own and is handled by  *)
(* a task of its own (the accept loops of proxy_node.rs and nodeN.rs), so  *)
(* each kind of message is a set of messages in flight from which any one  *)
(* may be taken next.  A handler holds the process's one state lock from   *)
(* its first read to its last send: it is one action.                      *)
(*                                                                         *)
(* Proofs that are rejected make a handler panic; that path needs a wrong  *)
(* proof and is not modelled: every node follows the code.                 *)
(***************************************************************************)
EXTENDS Naturals, FiniteSets

CONSTANTS
    Node,               \* the group manager nodes, share_counts of them
    Tag,                \* the keys generated: Gamma_A, Gamma_B, Gamma_O, Gamma_C
    ProvedTag,          \* those of the group public key: all but Gamma_C
    ParticipantCount    \* threshold + 1

ASSUME NodeAssumption == IsFiniteSet(Node)
ASSUME TagAssumption == IsFiniteSet(Tag) /\ Tag # {} /\ ProvedTag \subseteq Tag

VARIABLES
    gpk,            \* the proxy's group public key: "none", "partial" or "complete"
    participants,   \* the nodes that will issue keys, {} before they are drawn
    phaseTwoVec,    \* [Tag -> SUBSET Node]: senders of the dealings the proxy holds
    phaseFiveVec,   \* senders of the proofs the proxy holds
    nodeGpk,        \* [Node -> gpk state]
    nodeParts,      \* [Node -> SUBSET Node]: each node's copy of participants
    phaseOneVec,    \* [Node -> [Tag -> SUBSET Node]]: commitments each node holds
    yiMap,          \* [Node -> [Tag -> SUBSET Node]]: yi_map, {} until phase two
    mskshare,       \* [Node -> [Tag -> SUBSET Node]]: dealers summed in the share, {} for None
    xjNum,          \* [Node -> Nat]: number of shares accepted
    startMsgs,      \* nodes the proxy's phase-one broadcast has yet to reach
    oneMsgs,        \* commitments in flight, [tag, from, to]
    twoMsgs,        \* dealings in flight to the proxy, [tag, from]
    threeMsgs,      \* merged shares in flight, [tag, to, dealers]
    fiveMsgs,       \* nodes whose proof is in flight to the proxy
    gpkMsgs         \* nodes the proxy's phase-five broadcast has yet to reach

proxyVars == <<gpk, participants, phaseTwoVec, phaseFiveVec>>
nodeVars  == <<nodeGpk, nodeParts, phaseOneVec, yiMap, mskshare, xjNum>>
netVars   == <<startMsgs, oneMsgs, twoMsgs, threeMsgs, fiveMsgs, gpkMsgs>>
vars      == <<proxyVars, nodeVars, netVars>>

GpkState == {"none", "partial", "complete"}

OneMsg   == [tag : Tag, from : Node, to : Node]
TwoMsg   == [tag : Tag, from : Node]
ThreeMsg == [tag : Tag, to : Node, dealers : SUBSET Node]

(***************************************************************************)
(* The proxy has just handled the last NodeSetupPhaseFinishFlag: it draws  *)
(* threshold + 1 participants, sets the generators of its public key and   *)
(* broadcasts both.                                                        *)
(***************************************************************************)
Init ==
    /\ gpk = "partial"
    /\ participants \in {P \in SUBSET Node : Cardinality(P) = ParticipantCount}
    /\ phaseTwoVec = [t \in Tag |-> {}]
    /\ phaseFiveVec = {}
    /\ nodeGpk = [n \in Node |-> "none"]
    /\ nodeParts = [n \in Node |-> {}]
    /\ phaseOneVec = [n \in Node |-> [t \in Tag |-> {}]]
    /\ yiMap = [n \in Node |-> [t \in Tag |-> {}]]
    /\ mskshare = [n \in Node |-> [t \in Tag |-> {}]]
    /\ xjNum = [n \in Node |-> 0]
    /\ startMsgs = Node
    /\ oneMsgs = {}
    /\ twoMsgs = {}
    /\ threeMsgs = {}
    /\ fiveMsgs = {}
    /\ gpkMsgs = {}

-----------------------------------------------------------------------------

\* Mutants: the vectors are compared with a number that is one short; the
\* length is compared with >= and one short; xj_num is compared before it is
\* incremented; the first share already triggers the proof.
FullOneShort(vec) == Cardinality(vec) = Cardinality(Node) - 1
FullFromOneShort(vec) == Cardinality(vec) >= Cardinality(Node) - 1
LastShareLate(k) == k = Cardinality(Tag)
LastShareFirst(k) == k = 0

\* A node's commitments to its contribution to each key, one to every peer.
Commitments(n) == [tag : Tag, from : {n}, to : Node \ {n}]

\* A node's dealing of a key: an encrypted share for every node, by id.
Dealing(n, t) == [tag |-> t, from |-> n]

\* What the proxy makes of the dealings of a key: for each node the sum of
\* the shares dealt to it.
MergedShares(t, dealers) == [tag : {t}, to : Node, dealers : {dealers}]

\* The proof takes the node's own entry of yi_map for every key proved.
CanProve(n) == \A t \in ProvedTag : n \in yiMap[n][t]

\* A vector that is complete: its length is share_counts.
Full(vec) == Cardinality(vec) = Cardinality(Node)

\* With this share, after k others, the node has one of every key.
LastShare(k) == k + 1 = Cardinality(Tag)

(***************************************************************************)
(* A node receives the proxy's broadcast.  It stores the generators and    *)
(* the participants, adds its own commitments to its vectors and sends     *)
(* them to every other node.  Unlike the handler of a peer's commitment,   *)
(* this one does not look at the length of the vectors it has just added   *)
(* to.                                                                     *)
(***************************************************************************)
NodePhaseOne(n) ==
    /\ n \in startMsgs
    /\ startMsgs' = startMsgs \ {n}
    /\ nodeGpk' = [nodeGpk EXCEPT ![n] = "partial"]
    /\ nodeParts' = [nodeParts EXCEPT ![n] = participants]
    /\ phaseOneVec' = [phaseOneVec EXCEPT
                         ![n] = [t \in Tag |-> phaseOneVec[n][t] \cup {n}]]
    /\ oneMsgs' = oneMsgs \cup Commitments(n)
    /\ UNCHANGED <<proxyVars, yiMap, mskshare, xjNum,
                   twoMsgs, threeMsgs, fiveMsgs, gpkMsgs>>

\* Mutant: the node's own entry is left out of yi_map.
NodePhaseTwoOthersOnly(n, m) ==
    /\ m \in oneMsgs /\ m.to = n
    /\ oneMsgs' = oneMsgs \ {m}
    /\ LET vec == phaseOneVec[n][m.tag] \cup {m.from} IN
         /\ phaseOneVec' = [phaseOneVec EXCEPT ![n][m.tag] = vec]
         /\ IF Full(vec)
            THEN /\ yiMap' = [yiMap EXCEPT ![n][m.tag] = vec \ {n}]
                 /\ twoMsgs' = twoMsgs \cup {Dealing(n, m.tag)}
            ELSE UNCHANGED <<yiMap, twoMsgs>>
    /\ UNCHANGED <<proxyVars, nodeGpk, nodeParts, mskshare, xjNum,
                   startMsgs, threeMsgs, fiveMsgs, gpkMsgs>>

(***************************************************************************)
(* A node receives a peer's commitment and adds it to the vector of that   *)
(* key.  When the vector has the length share_counts it opens the          *)
(* commitments, records whose they are in yi_map, deals a share to every   *)
(* node and sends the dealing to the proxy.                                *)
(***************************************************************************)
NodePhaseTwo(n, m) ==
    /\ m \in oneMsgs
    /\ m.to = n
    /\ oneMsgs' = oneMsgs \ {m}
    /\ LET vec == phaseOneVec[n][m.tag] \cup {m.from} IN
         /\ phaseOneVec' = [phaseOneVec EXCEPT ![n][m.tag] = vec]
         /\ IF Full(vec)
            THEN /\ yiMap' = [yiMap EXCEPT ![n][m.tag] = vec]
                 /\ twoMsgs' = twoMsgs \cup {Dealing(n, m.tag)}
            ELSE UNCHANGED <<yiMap, twoMsgs>>
    /\ UNCHANGED <<proxyVars, nodeGpk, nodeParts, mskshare, xjNum,
                   startMsgs, threeMsgs, fiveMsgs, gpkMsgs>>

(***************************************************************************)
(* The proxy receives a dealing.  With share_counts of them it adds the    *)
(* shares up and sends each node the sum that belongs to it.               *)
(***************************************************************************)
ProxyPhaseThree(m) ==
    /\ m \in twoMsgs
    /\ twoMsgs' = twoMsgs \ {m}
    /\ LET vec == phaseTwoVec[m.tag] \cup {m.from} IN
         /\ phaseTwoVec' = [phaseTwoVec EXCEPT ![m.tag] = vec]
         /\ threeMsgs' = IF Full(vec)
                         THEN threeMsgs \cup MergedShares(m.tag, vec)
                         ELSE threeMsgs
    /\ UNCHANGED <<gpk, participants, phaseFiveVec, nodeVars,
                   startMsgs, oneMsgs, fiveMsgs, gpkMsgs>>

(***************************************************************************)
(* A node receives its merged share of a key, stores it and counts it; at  *)
(* the last key it sends the proxy the proof of its contributions, or      *)
(* panics over a part of it that is missing.                               *)
(***************************************************************************)
NodePhaseFour(n, m) ==
    /\ m \in threeMsgs
    /\ m.to = n
    /\ threeMsgs' = threeMsgs \ {m}
    /\ mskshare' = [mskshare EXCEPT ![n][m.tag] = m.dealers]
    /\ xjNum' = [xjNum EXCEPT ![n] = @ + 1]
    /\ fiveMsgs' = IF LastShare(xjNum[n]) /\ CanProve(n)
                   THEN fiveMsgs \cup {n}
                   ELSE fiveMsgs
    /\ UNCHANGED <<proxyVars, nodeGpk, nodeParts, phaseOneVec, yiMap,
                   startMsgs, oneMsgs, twoMsgs, gpkMsgs>>

\* Mutant: the public key is published when one proof is still missing.
AllProvedShort(vec) == Cardinality(vec) = Cardinality(Node) - 1

\* The proxy holds the proof of every node.
AllProved(vec) == Cardinality(vec) = Cardinality(Node)

(***************************************************************************)
(* The proxy receives a node's proof; with all of them it completes its    *)
(* public key and broadcasts the rest of it.                               *)
(***************************************************************************)
ProxyPhaseFive(n) ==
    /\ n \in fiveMsgs
    /\ fiveMsgs' = fiveMsgs \ {n}
    /\ phaseFiveVec' = phaseFiveVec \cup {n}
    /\ IF AllProved(phaseFiveVec \cup {n})
       THEN gpk' = "complete" /\ gpkMsgs' = Node
       ELSE UNCHANGED <<gpk, gpkMsgs>>
    /\ UNCHANGED <<participants, phaseTwoVec, nodeVars,
                   startMsgs, oneMsgs, twoMsgs, threeMsgs>>

\* Mutant: the node drops the public key it had when the rest of it comes.
NodePhaseSixForgets(n) ==
    /\ n \in gpkMsgs
    /\ gpkMsgs' = gpkMsgs \ {n}
    /\ nodeGpk' = [nodeGpk EXCEPT ![n] = "absent"]
    /\ UNCHANGED <<proxyVars, nodeParts, phaseOneVec, yiMap, mskshare, xjNum,
                   startMsgs, oneMsgs, twoMsgs, threeMsgs, fiveMsgs>>

\* A node receives the rest of the public key and writes keygen.json.
NodePhaseSix(n) ==
    /\ n \in gpkMsgs
    /\ gpkMsgs' = gpkMsgs \ {n}
    /\ nodeGpk' = [nodeGpk EXCEPT ![n] = "complete"]
    /\ UNCHANGED <<proxyVars, nodeParts, phaseOneVec, yiMap, mskshare, xjNum,
                   startMsgs, oneMsgs, twoMsgs, threeMsgs, fiveMsgs>>

Done == \A n \in Node : nodeGpk[n] = "complete"

\* Key generation is over; the processes wait for users.
Finished == Done /\ UNCHANGED vars

Next ==
    \/ \E n \in Node : NodePhaseOne(n) \/ ProxyPhaseFive(n) \/ NodePhaseSix(n)
    \/ \E n \in Node, m \in oneMsgs : NodePhaseTwo(n, m)
    \/ \E m \in twoMsgs : ProxyPhaseThree(m)
    \/ \E n \in Node, m \in threeMsgs : NodePhaseFour(n, m)
    \/ Finished

Spec == Init /\ [][Next]_vars

(***************************************************************************)
(* The runtime polls every spawned task and TCP delivers what was sent:    *)
(* a message in flight is handled eventually.  Each message is handled     *)
(* once and there are finitely many, so fairness of Next as a whole says   *)
(* as much.                                                                *)
(***************************************************************************)
FairSpec == Spec /\ WF_vars(Next)

-----------------------------------------------------------------------------

TypeOK ==
    /\ gpk \in GpkState
    /\ participants \subseteq Node
    /\ phaseTwoVec \in [Tag -> SUBSET Node]
    /\ phaseFiveVec \subseteq Node
    /\ nodeGpk \in [Node -> GpkState]
    /\ nodeParts \in [Node -> SUBSET Node]
    /\ phaseOneVec \in [Node -> [Tag -> SUBSET Node]]
    /\ yiMap \in [Node -> [Tag -> SUBSET Node]]
    /\ mskshare \in [Node -> [Tag -> SUBSET Node]]
    /\ xjNum \in [Node -> Nat]
    /\ startMsgs \subseteq Node
    /\ oneMsgs \subseteq OneMsg
    /\ twoMsgs \subseteq TwoMsg
    /\ threeMsgs \subseteq ThreeMsg
    /\ fiveMsgs \subseteq Node
    /\ gpkMsgs \subseteq Node

(***************************************************************************)
(* No node deals shares of a key before every node has committed to its    *)
(* contribution to it: otherwise the last to commit could depend on what   *)
(* the others dealt (keygen_phase_two opens a full vector of commitments). *)
(***************************************************************************)
DealAfterCommit ==
    \A t \in Tag : \A n \in Node :
        (n \in phaseTwoVec[t] \/ Dealing(n, t) \in twoMsgs)
            => \A k \in Node : k \notin startMsgs /\ k \in phaseOneVec[n][t]

(***************************************************************************)
(* The public key is complete, at the proxy or at any node, only when      *)
(* every node holds a share of every key and each share sums the dealings  *)
(* of all nodes: a key nobody can use is never published, and every node   *)
(* shares the same secret.                                                 *)
(***************************************************************************)
KeyPublishedWhenShared ==
    (gpk = "complete" \/ \E n \in Node : nodeGpk[n] = "complete")
        => \A n \in Node, t \in Tag : mskshare[n][t] = Node

(***************************************************************************)
(* keygen_phase_five unwraps the node's own entry of yi_map for each key   *)
(* and keygen_phase_six unwraps gpk: both are there when they are used,    *)
(* whatever order the messages came in.                                    *)
(***************************************************************************)
NothingMissingAtProof ==
    /\ \A m \in threeMsgs : m.to \in yiMap[m.to][m.tag]
    /\ \A n \in gpkMsgs : nodeGpk[n] # "none" /\ nodeParts[n] = participants

(***************************************************************************)
(* A share, once accepted, is never replaced: a second delivery under the  *)
(* same key would leave the node with a share that no longer matches what  *)
(* the others hold (and would push xj_num past the number it is compared   *)
(* with).                                                                  *)
(***************************************************************************)
SharesAreFinal ==
    [][\A n \in Node, t \in Tag :
         mskshare[n][t] # {} => mskshare'[n][t] = mskshare[n][t] /\ xjNum'[n] <= Cardinality(Tag)]_vars

\* Key generation ends with the complete public key at every node.
KeygenCompletes == <>Done

\* The proxy's broadcast reaches a node after the commitments of all its peers.
StartedLast ==
    \E n \in startMsgs, t \in Tag : Node \ {n} \subseteq phaseOneVec[n][t]

(***************************************************************************)
(* That is the only thing that can stop it: unless the proxy's broadcast   *)
(* is the last first-round message some node handles, key generation ends, *)
(* whatever the order of all other messages.                               *)
(***************************************************************************)
CompletesIfStarted == []~StartedLast => <>Done

-----------------------------------------------------------------------------

(***************************************************************************)
(* The inductive strengthening of the invariants above, by the stage a     *)
(* contribution has reached.                                               *)
(***************************************************************************)

\* A node has taken part once the broadcast reached it.
StartedKnows ==
    \A n \in Node : n \notin startMsgs =>
        nodeGpk[n] # "none" /\ nodeParts[n] = participants

\* Whose commitment is anywhere has started.
CommitAfterStart ==
    /\ \A t \in Tag, n, k \in Node : k \in phaseOneVec[n][t] => k \notin startMsgs
    /\ \A m \in oneMsgs : m.from \notin startMsgs /\ m.from # m.to

\* A commitment in flight has not been received before.
CommitOnce == \A m \in oneMsgs : m.from \notin phaseOneVec[m.to][m.tag]

Dealt(n, t) == n \in phaseTwoVec[t] \/ Dealing(n, t) \in twoMsgs

\* Who dealt held all commitments, and opened all of them.
DealtAll ==
    \A t \in Tag, n \in Node :
        Dealt(n, t) => phaseOneVec[n][t] = Node /\ yiMap[n][t] = Node

\* A dealing in flight has not been received before.
DealOnce == \A m \in twoMsgs : m.from \notin phaseTwoVec[m.tag]

\* A merged share sums all dealings, is for a node without one, and comes
\* after the last dealing.
ShareAfterDeals ==
    /\ \A m \in threeMsgs :
         m.dealers = Node /\ mskshare[m.to][m.tag] = {} /\ phaseTwoVec[m.tag] = Node
    /\ \A n \in Node, t \in Tag :
         mskshare[n][t] # {} => mskshare[n][t] = Node /\ phaseTwoVec[t] = Node

Shared(n) == {t \in Tag : mskshare[n][t] # {}}

SharesCounted == \A n \in Node : xjNum[n] = Cardinality(Shared(n))

\* Who has proved its contributions holds all shares.
ProofAfterShares ==
    \A n \in Node : n \in fiveMsgs \cup phaseFiveVec => Shared(n) = Tag

PublishedAfterProofs ==
    /\ gpk = "complete" => phaseFiveVec = Node
    /\ gpkMsgs # {} => gpk = "complete"
    /\ \A n \in Node : nodeGpk[n] = "complete" => gpk = "complete"

IInv ==
    /\ TypeOK
    /\ StartedKnows
    /\ CommitAfterStart
    /\ CommitOnce
    /\ DealtAll
    /\ DealOnce
    /\ ShareAfterDeals
    /\ SharesCounted
    /\ ProofAfterShares
    /\ PublishedAfterProofs

=============================================================================
