----------------------------- MODULE JoinIssue -----------------------------
(***************************************************************************)
(* Joining and issuing: a user asks the proxy for an id, registers its     *)
(* public key under it, the proxy tells every node, the participants run   *)
(* the exchange of module MtA for the id, the proxy joins their shares     *)
(* into the user's key, and two more rounds with the participants give     *)
(* the encrypted key every node stores for opening signatures (reg).  The  *)
(* proxy starts the user's revocation round when it has counted a flag     *)
(* from every node and one from the user.                                  *)
(*                                                                         *)
(* Key generation has finished: the participants are drawn, every node     *)
(* knows them.  Each kind of message is handled in a task of its own, in   *)
(* any order; InOrder = TRUE assumes that two messages from one process    *)
(* to another are handled in the order they were sent.                     *)
(*                                                                         *)
(* Zero-knowledge proofs are assumed right: every process follows the      *)
(* code.  A user takes the leaf of the time tree that goes with its id;    *)
(* the tree has no leaf for more than the first FirstLeaf - 1 users.       *)
(***************************************************************************)
EXTENDS TimeTree

CONSTANTS
    Node,           \* all share_counts nodes
    Participant,    \* the threshold + 1 drawn at key generation
    User,           \* the users that join
    NoUser,
    InOrder

ASSUME JoinAssumption ==
    /\ IsFiniteSet(Node)
    /\ Participant \subseteq Node
    /\ Cardinality(Participant) >= 2
    /\ IsFiniteSet(User)
    /\ NoUser \notin User
    /\ "user" \notin Node      \* what tells a user's flags from a node's
    /\ InOrder \in BOOLEAN

Id == 1 .. Cardinality(User)

\* The ids there is a leaf for; the first leaf is nobody's.
WithLeaf == {i \in Id : i < FirstLeaf}

VARIABLES
    joinNum,        \* the proxy's user_join_msg_num
    userMap,        \* [Id -> User]: the proxy's user_info_map, by address
    finishVec,      \* [Id -> shares collected], mta_finish_msg_vec_map
    threeVec,       \* [Id -> SUBSET Node], join_phase_three_msg_vec_map
    fourVec,        \* [Id -> SUBSET Node], join_phase_four_msg_vec_map
    flagVec,        \* [Id -> senders of flags], join_shared_message
    revokeStarted,  \* ids whose revocation round the proxy has started
    userId,         \* [User -> its id, 0 before it has one]
    gsk,            \* [User -> the shares its key was made of, {} for no key]
    nodeUsers,      \* [Node -> SUBSET Id]: user_info_map of each node
    reg,            \* [Node -> SUBSET Id]: reg of each node
    net,            \* messages in flight outside the exchange
    collected,      \* shares the proxy has received
    \* the exchange, one session per id
    tag, held, alpha, beta, answered, oneMsgs, twoMsgs, finals

proxyVars == <<joinNum, userMap, finishVec, threeVec, fourVec, flagVec, revokeStarted>>
userVars  == <<userId, gsk>>
nodeVars  == <<nodeUsers, reg>>
mtaVars   == <<tag, held, alpha, beta, answered, oneMsgs, twoMsgs, finals>>
vars      == <<proxyVars, userVars, nodeVars, net, collected, mtaVars>>

M == INSTANCE MtA WITH Party <- Participant, Session <- Id,
                       Ordered <- IF InOrder THEN Id ELSE {}

\* Who raises a flag for an id: each node, and the user it belongs to.
Flag == Node \cup {"user"}

NodeMsgType == {"two", "three", "ackThree", "four", "ackFour", "five"}

Message ==
    [type : {"start"}, user : User]
        \cup [type : {"id", "register"}, user : User, id : Id]
        \cup [type : NodeMsgType, node : Node, id : Id]
        \cup [type : {"key"}, user : User, shares : SUBSET M!Final]
        \cup [type : {"flag"}, by : Flag, id : Id]

NodeMsg(type, nodes, id) == [type : {type}, node : nodes, id : {id}]

\* What a user process sends when it starts.
StartFlag(u) == [type |-> "start", user |-> u]

\* The proxy's announcement of a user to every node.
Announcement(id) == NodeMsg("two", Node, id)

\* The key made of the shares of an id, for the user the id stands for.
KeyFor(id, shares) == [type |-> "key", user |-> userMap[id], shares |-> shares]

\* With its key a user asks for the revocation data of its id.
UserFlag(id) == [type |-> "flag", by |-> "user", id |-> id]

\* What a participant answers in the two rounds that make the encrypted key.
AckOf == [three |-> "ackThree", four |-> "ackFour"]

\* The second of these rounds, and the broadcast of the encrypted key.
SecondRound(id) == NodeMsg("four", Participant, id)
EncryptedKey(id) == NodeMsg("five", Node, id)

\* Every user process sends its start flag before it listens.
Init ==
    /\ joinNum = 0
    /\ userMap = [i \in Id |-> NoUser]
    /\ finishVec = [i \in Id |-> {}]
    /\ threeVec = [i \in Id |-> {}]
    /\ fourVec = [i \in Id |-> {}]
    /\ flagVec = [i \in Id |-> {}]
    /\ revokeStarted = {}
    /\ userId = [u \in User |-> 0]
    /\ gsk = [u \in User |-> {}]
    /\ nodeUsers = [n \in Node |-> {}]
    /\ reg = [n \in Node |-> {}]
    /\ net = {StartFlag(u) : u \in User}
    /\ collected = {}
    /\ M!Init

-----------------------------------------------------------------------------

\* Mutants: the participants' messages are counted one short, and with >=.
FromParticipantsShort(vec) == Cardinality(vec) >= Cardinality(Participant) - 1

\* A vector with a message of threshold + 1 nodes.
FromParticipants(vec) == Cardinality(vec) = Cardinality(Participant)

\* Mutants: the flags of the nodes only; one more than there are.
AllFlagsNodesOnly(vec) == Cardinality(vec) = Cardinality(Node)
AllFlagsMore(vec) == Cardinality(vec) = Cardinality(Node) + 2

\* A flag from every node and one from the user: share_counts + 1.
AllFlags(vec) == Cardinality(vec) = Cardinality(Node) + 1

\* Mutants: the counter is read before it is incremented; the id is the size
\* of the user map; every start flag re-creates the user map.
ProxyPhaseOneFromZero(u) ==
    LET m == StartFlag(u) IN
      /\ m \in net
      /\ joinNum' = joinNum + 1
      /\ net' = (net \ {m}) \cup {[type |-> "id", user |-> u, id |-> joinNum]}
      /\ UNCHANGED <<userMap, finishVec, threeVec, fourVec, flagVec, revokeStarted,
                     userVars, nodeVars, collected, mtaVars>>
ProxyPhaseOneMapSize(u) ==
    LET m == StartFlag(u)
        known == {i \in Id : userMap[i] # NoUser} IN
      /\ m \in net
      /\ joinNum' = joinNum + 1
      /\ net' = (net \ {m})
            \cup {[type |-> "id", user |-> u, id |-> Cardinality(known) + 1]}
      /\ UNCHANGED <<userMap, finishVec, threeVec, fourVec, flagVec, revokeStarted,
                     userVars, nodeVars, collected, mtaVars>>
ProxyPhaseOneResets(u) ==
    LET m == StartFlag(u) IN
      /\ m \in net
      /\ joinNum' = joinNum + 1
      /\ userMap' = [i \in Id |-> NoUser]
      /\ net' = (net \ {m}) \cup {[type |-> "id", user |-> u, id |-> joinNum + 1]}
      /\ UNCHANGED <<finishVec, threeVec, fourVec, flagVec, revokeStarted,
                     userVars, nodeVars, collected, mtaVars>>

\* The number of the start flag that is being handled.
NextId == joinNum + 1

(***************************************************************************)
(* The proxy numbers the start flags as they come and answers with the     *)
(* number as the user's id.  The first one (re)creates the user map.       *)
(***************************************************************************)
ProxyPhaseOne(u) ==
    LET m == StartFlag(u) IN
      /\ m \in net
      /\ joinNum' = NextId
      /\ userMap' = IF NextId = 1 THEN [i \in Id |-> NoUser] ELSE userMap
      /\ net' = (net \ {m}) \cup {[type |-> "id", user |-> u, id |-> NextId]}
      /\ UNCHANGED <<finishVec, threeVec, fourVec, flagVec, revokeStarted,
                     userVars, nodeVars, collected, mtaVars>>

\* The user takes the id and sends its public key and the proof under it.
UserPhaseTwo(m) ==
    /\ m \in net
    /\ m.type = "id"
    /\ userId' = [userId EXCEPT ![m.user] = m.id]
    /\ net' = (net \ {m}) \cup {[m EXCEPT !.type = "register"]}
    /\ UNCHANGED <<proxyVars, gsk, nodeVars, collected, mtaVars>>

(***************************************************************************)
(* The proxy looks the user's leaf up, enters the user in its map and      *)
(* tells every node.  Past the last leaf the look-up panics: the message   *)
(* is lost, and no node ever hears of the user.                            *)
(***************************************************************************)
ProxyPhaseTwo(m) ==
    /\ m \in net
    /\ m.type = "register"
    /\ IF HasLeaf(m.id)
       THEN /\ userMap' = [userMap EXCEPT ![m.id] = m.user]
            /\ net' = (net \ {m}) \cup Announcement(m.id)
       ELSE net' = net \ {m} /\ UNCHANGED userMap
    /\ UNCHANGED <<joinNum, finishVec, threeVec, fourVec, flagVec, revokeStarted,
                   userVars, nodeVars, collected, mtaVars>>

\* A node enters the user; a participant opens the exchange for its id.
NodePhaseTwo(m) ==
    /\ m \in net
    /\ m.type = "two"
    /\ net' = net \ {m}
    /\ nodeUsers' = [nodeUsers EXCEPT ![m.node] = @ \cup {m.id}]
    /\ IF m.node \in Participant
       THEN M!Begin(m.node, m.id)
       ELSE UNCHANGED mtaVars
    /\ UNCHANGED <<proxyVars, userVars, reg, collected>>

\* The messages of the exchange among the participants.
NodeExchange ==
    /\ \/ \E m \in oneMsgs : M!HoldOne(m) \/ M!AnswerOne(m)
       \/ \E m \in twoMsgs : M!RecvTwo(m)
    /\ UNCHANGED <<proxyVars, userVars, nodeVars, net, collected>>

(***************************************************************************)
(* The proxy collects the participants' shares.  With threshold + 1 of     *)
(* them it computes the key from their sum, sends it to the user, asks the *)
(* participants for the next round and empties the vector.                 *)
(***************************************************************************)
ProxyPhaseThree(f) ==
    /\ f \in finals \ collected
    /\ collected' = collected \cup {f}
    /\ LET vec == finishVec[f.sess] \cup {f} IN
         IF FromParticipants(vec)
         THEN /\ finishVec' = [finishVec EXCEPT ![f.sess] = {}]
              /\ net' = net
                    \cup {KeyFor(f.sess, vec)}
                    \cup NodeMsg("three", Participant, f.sess)
         ELSE /\ finishVec' = [finishVec EXCEPT ![f.sess] = vec]
              /\ UNCHANGED net
    /\ UNCHANGED <<joinNum, userMap, threeVec, fourVec, flagVec, revokeStarted,
                   userVars, nodeVars, mtaVars>>

\* The user stores its key, writes join.json and asks for revocation data.
UserPhaseThree(m) ==
    /\ m \in net
    /\ m.type = "key"
    /\ gsk' = [gsk EXCEPT ![m.user] = m.shares]
    /\ net' = (net \ {m}) \cup {UserFlag(userId[m.user])}
    /\ UNCHANGED <<proxyVars, userId, nodeVars, collected, mtaVars>>

\* A participant contributes to A^gamma_C/k, then to A^gamma_C.
NodeContribute(m) ==
    /\ m \in net
    /\ m.type \in DOMAIN AckOf
    /\ net' = (net \ {m}) \cup {[m EXCEPT !.type = AckOf[m.type]]}
    /\ UNCHANGED <<proxyVars, userVars, nodeVars, collected, mtaVars>>

\* With threshold + 1 contributions the proxy starts the second round ...
ProxyPhaseFour(m) ==
    /\ m \in net
    /\ m.type = "ackThree"
    /\ LET vec == threeVec[m.id] \cup {m.node} IN
         /\ threeVec' = [threeVec EXCEPT ![m.id] = vec]
         /\ net' = (net \ {m}) \cup
                   IF FromParticipants(vec)
                   THEN SecondRound(m.id) ELSE {}
    /\ UNCHANGED <<joinNum, userMap, finishVec, fourVec, flagVec, revokeStarted,
                   userVars, nodeVars, collected, mtaVars>>

\* ... and with as many of the second it broadcasts the encrypted key.
ProxyPhaseFive(m) ==
    /\ m \in net
    /\ m.type = "ackFour"
    /\ LET vec == fourVec[m.id] \cup {m.node} IN
         /\ fourVec' = [fourVec EXCEPT ![m.id] = vec]
         /\ net' = (net \ {m}) \cup
                   IF FromParticipants(vec)
                   THEN EncryptedKey(m.id) ELSE {}
    /\ UNCHANGED <<joinNum, userMap, finishVec, threeVec, flagVec, revokeStarted,
                   userVars, nodeVars, collected, mtaVars>>

(***************************************************************************)
(* A node looks the user up to store its registration and raises its flag. *)
(* A node that does not know the user yet panics: the message is lost.     *)
(***************************************************************************)
NodePhaseSix(m) ==
    /\ m \in net
    /\ m.type = "five"
    /\ InOrder => [m EXCEPT !.type = "two"] \notin net
    /\ IF m.id \in nodeUsers[m.node]
       THEN /\ reg' = [reg EXCEPT ![m.node] = @ \cup {m.id}]
            /\ net' = (net \ {m}) \cup {[type |-> "flag", by |-> m.node, id |-> m.id]}
       ELSE net' = net \ {m} /\ UNCHANGED reg
    /\ UNCHANGED <<proxyVars, userVars, nodeUsers, collected, mtaVars>>

(***************************************************************************)
(* The proxy puts the flags of nodes and user in one vector and starts the *)
(* revocation round for the id when the vector has share_counts + 1.       *)
(***************************************************************************)
ProxyFlag(m) ==
    /\ m \in net
    /\ m.type = "flag"
    /\ net' = net \ {m}
    /\ LET vec == flagVec[m.id] \cup {m.by} IN
         /\ flagVec' = [flagVec EXCEPT ![m.id] = vec]
         /\ revokeStarted' = IF AllFlags(vec)
                             THEN revokeStarted \cup {m.id}
                             ELSE revokeStarted
    /\ UNCHANGED <<joinNum, userMap, finishVec, threeVec, fourVec,
                   userVars, nodeVars, collected, mtaVars>>

Next ==
    \/ \E u \in User : ProxyPhaseOne(u)
    \/ \E m \in net : \/ UserPhaseTwo(m)
                      \/ ProxyPhaseTwo(m)
                      \/ NodePhaseTwo(m)
                      \/ UserPhaseThree(m)
                      \/ NodeContribute(m)
                      \/ ProxyPhaseFour(m)
                      \/ ProxyPhaseFive(m)
                      \/ NodePhaseSix(m)
                      \/ ProxyFlag(m)
    \/ \E f \in finals : ProxyPhaseThree(f)
    \/ NodeExchange

Spec == Init /\ [][Next]_vars

(***************************************************************************)
(* Every message in flight is handled eventually; each is handled once and *)
(* a run sends finitely many, so fairness of Next says as much.            *)
(***************************************************************************)
FairSpec == Spec /\ WF_vars(Next)

-----------------------------------------------------------------------------

TypeOK ==
    /\ joinNum \in 0 .. Cardinality(User)
    /\ userMap \in [Id -> User \cup {NoUser}]
    /\ finishVec \in [Id -> SUBSET M!Final]
    /\ threeVec \in [Id -> SUBSET Node]
    /\ fourVec \in [Id -> SUBSET Node]
    /\ flagVec \in [Id -> SUBSET Flag]
    /\ revokeStarted \subseteq Id
    /\ userId \in [User -> Id \cup {0}]
    /\ gsk \in [User -> SUBSET M!Final]
    /\ nodeUsers \in [Node -> SUBSET Id]
    /\ reg \in [Node -> SUBSET Id]
    /\ net \subseteq Message
    /\ collected \subseteq finals
    /\ M!TypeOK

(***************************************************************************)
(* The revocation round of an id starts only when every node knows the     *)
(* user and has its registration, and the user has its key and a leaf that *)
(* can expire: the proxy only counts share_counts + 1 flags of either      *)
(* kind, whatever their senders.                                           *)
(***************************************************************************)
RegisteredEverywhere ==
    \A i \in revokeStarted :
        /\ i \in WithLeaf
        /\ \A n \in Node : i \in reg[n] /\ i \in nodeUsers[n]
        /\ \E u \in User : userId[u] = i /\ userMap[i] = u /\ gsk[u] # {}

(***************************************************************************)
(* Ids are handed out by a counter kept apart from the map they index, and *)
(* come back from the user: no two users share one, and the proxy's entry  *)
(* for an id is the user that goes by it, the one the key is sent to.      *)
(***************************************************************************)
IdsIdentify ==
    /\ \A u, v \in User : userId[u] # 0 /\ userId[u] = userId[v] => u = v
    /\ \A i \in Id : userMap[i] # NoUser => userId[userMap[i]] = i

(***************************************************************************)
(* A key is made of one share of every participant, all computed for the   *)
(* id of the user that holds the key, each with every cross term: nothing  *)
(* at the proxy or the user verifies the key (join_issue_phase_three).     *)
(***************************************************************************)
KeyWellFormed ==
    \A u \in User : gsk[u] # {} =>
        /\ {f.from : f \in gsk[u]} = Participant
        /\ \A f \in gsk[u] :
             /\ f.sess = userId[u]
             /\ f.alpha = Participant \ {f.from}
             /\ f.beta = Participant \ {f.from}

(***************************************************************************)
(* The first start flag empties the proxy's user map: no user already in   *)
(* it is ever dropped or replaced.                                         *)
(***************************************************************************)
UserMapStable ==
    [][\A i \in Id : userMap[i] # NoUser => userMap'[i] = userMap[i]]_vars

\* Every user that asks to join gets as far as its revocation round.
JoinCompletes == \A u \in User : <>(userId[u] \in revokeStarted)

\* A node has handled the last broadcast for an id without registering it.
LastLost ==
    \E n \in Node, i \in Id :
        /\ FromParticipants(fourVec[i])
        /\ [type |-> "five", node |-> n, id |-> i] \notin net
        /\ i \notin reg[n]

(***************************************************************************)
(* That, and a tree that is full, is all that can stop a join: unless a    *)
(* node lost its last broadcast to a first one that came later, as many    *)
(* users as there are leaves to give get there, whatever the order of all  *)
(* other messages and however many more users ask.                         *)
(***************************************************************************)
CompletesUnlessLost == []~LastLost => \A i \in WithLeaf : <>(i \in revokeStarted)

-----------------------------------------------------------------------------

\* Who has not been answered yet; the number i has been handed to u.
Waiting == {u \in User : StartFlag(u) \in net}
Handed(u, i) == [type |-> "id", user |-> u, id |-> i] \in net \/ userId[u] = i

\* There are as many numbers as users.
IdsSuffice == joinNum + Cardinality(Waiting) <= Cardinality(User)

\* Numbers are handed out in turn, one to a user.
IdsHandedOnce ==
    \A u, v \in User, i, j \in Id :
        /\ Handed(u, i) => i <= joinNum /\ u \notin Waiting
        /\ Handed(u, i) /\ Handed(v, j) => (u = v <=> i = j)

\* A number is taken, registered and, if it has a leaf, entered in the map, once each.
MapFollowsIds ==
    /\ \A m \in net : m.type = "id" => userId[m.user] = 0
    /\ \A m \in net : m.type = "register" => userId[m.user] = m.id /\ userMap[m.id] = NoUser
    /\ \A i \in Id : userMap[i] # NoUser => userId[userMap[i]] = i /\ i \in WithLeaf

\* Nodes are told of, and open exchanges for, users in the map.
NodesFollowMap ==
    /\ \A m \in net : m.type = "two" => userMap[m.id] # NoUser
    /\ \A p \in Participant, i \in Id : M!Ready(p, i) => userMap[i] # NoUser

\* A key for u: a share of every participant, from the exchange for u's number.
KeyOf(u, key) ==
    /\ {f.from : f \in key} = Participant
    /\ \A f \in key : f \in finals /\ f.sess = userId[u]
    /\ userId[u] # 0 /\ userMap[userId[u]] = u

KeysFollowShares ==
    /\ \A i \in Id : \A f \in finishVec[i] : f \in finals /\ f.sess = i
    /\ \A m \in net : m.type = "key" => KeyOf(m.user, m.shares)
    /\ \A u \in User : gsk[u] # {} => KeyOf(u, gsk[u])

\* Whoever raises a flag for i has done what the flag says.
Raises(by, i) ==
    IF by = "user"
    THEN \E u \in User : userId[u] = i /\ userMap[i] = u /\ gsk[u] # {}
    ELSE i \in reg[by]

FlagsFollow ==
    /\ \A m \in net : m.type = "flag" => Raises(m.by, m.id)
    /\ \A i \in Id : \A by \in flagVec[i] : Raises(by, i)
    /\ \A i \in revokeStarted : flagVec[i] = Flag
    /\ \A n \in Node : reg[n] \subseteq nodeUsers[n]

(***************************************************************************)
(* The inductive invariant of joining: what is in flight for a number, in  *)
(* whatever order it comes, follows from what has been done for it.  Of    *)
(* the exchange it takes what module MtA proves of its sessions.           *)
(***************************************************************************)
IInv ==
    TypeOK /\ IdsSuffice /\ IdsHandedOnce /\ MapFollowsIds /\ NodesFollowMap
           /\ KeysFollowShares /\ FlagsFollow

=============================================================================
