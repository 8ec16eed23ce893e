--------------------------- MODULE JoinIssueProofs ---------------------------
(***************************************************************************)
(* Proofs about JoinIssue, for every set of nodes, of participants and of  *)
(* users: IInv is inductive, ids name one user and stay, keys are made of  *)
(* one complete share of every participant, and a revocation round starts  *)
(* only when every node has the registration.  What is needed of the       *)
(* exchange is taken from module MtAProofs.                                *)
(***************************************************************************)
EXTENDS JoinIssue, FiniteSetTheorems, TLAPS

MP == INSTANCE MtAProofs WITH Party <- Participant, Session <- Id,
                              Ordered <- IF InOrder THEN Id ELSE {}

\* What joining relies on: a participant sends one share for an id at most,
\* and only when its exchange for the id is open.
Sound ==
    /\ M!TypeOK
    /\ M!OneFinalEach
    /\ \A f \in finals : M!Ready(f.from, f.sess)

-----------------------------------------------------------------------------

LEMMA CountsNatural ==
    /\ Cardinality(User) \in Nat
    /\ Cardinality(Node) \in Nat
    /\ IsFiniteSet(Participant) /\ Cardinality(Participant) \in Nat
    /\ Participant # {}
<1>1. IsFiniteSet(Participant)
  BY JoinAssumption, FS_Subset
<1>2. QED
  BY <1>1, JoinAssumption, FS_CardinalityType, FS_EmptySet

\* choose_leaf finds a leaf for as many users as there are leaves after the first.
LEMMA LeafOfId == ASSUME NEW i \in Id PROVE HasLeaf(i) <=> i \in WithLeaf
<1>1. FirstLeaf \in Int /\ Size \in Int /\ i \in Nat
  BY LevelAssumption, CountsNatural DEF FirstLeaf, Size, Id
<1>2. Size = 2 * FirstLeaf - 1
  <2>1. Level - 1 \in 0 .. Level /\ (Level - 1) + 1 = Level
    BY LevelAssumption
  <2>2. 2^Level = 2 * 2^(Level - 1)
    BY <2>1, PowersDouble
  <2>3. QED
    BY <2>2 DEF Size, FirstLeaf
<1>3. QED
  BY <1>1, <1>2 DEF HasLeaf, ChooseLeaf, Leaf, WithLeaf

\* What is in flight, by its type.
LEMMA Messages ==
    ASSUME TypeOK, NEW m \in net
    PROVE  /\ m.type = "start" => m.user \in User /\ m = StartFlag(m.user)
           /\ m.type \in {"id", "register"} =>
                 /\ m.user \in User /\ m.id \in Id
                 /\ m = [type |-> m.type, user |-> m.user, id |-> m.id]
           /\ m.type \in NodeMsgType =>
                 /\ m.node \in Node /\ m.id \in Id
                 /\ m = [type |-> m.type, node |-> m.node, id |-> m.id]
           /\ m.type = "key" =>
                 /\ m.user \in User /\ m.shares \in SUBSET M!Final
                 /\ m = [type |-> "key", user |-> m.user, shares |-> m.shares]
           /\ m.type = "flag" => m.by \in Flag /\ m.id \in Id
<1>1. \/ m \in [type : {"start"}, user : User]
      \/ m \in [type : {"id", "register"}, user : User, id : Id]
      \/ m \in [type : NodeMsgType, node : Node, id : Id]
      \/ m \in [type : {"key"}, user : User, shares : SUBSET M!Final]
      \/ m \in [type : {"flag"}, by : Flag, id : Id]
  BY DEF TypeOK, Message
<1>2. QED
  BY <1>1 DEF NodeMsgType, StartFlag

\* The messages of a kind to some nodes about an id.
LEMMA NodeMessages ==
    ASSUME NEW t \in NodeMsgType, NEW S \in SUBSET Node, NEW i \in Id
    PROVE  /\ NodeMsg(t, S, i) \subseteq Message
           /\ \A m \in NodeMsg(t, S, i) : m.type = t /\ m.id = i /\ m.node \in S
BY DEF NodeMsg, Message

-----------------------------------------------------------------------------
\* What a step leaves as it is, if it adds no message of the kinds concerned.

LEMMA IdsFrame ==
    ASSUME IInv, UNCHANGED <<joinNum, userId>>,
           \A m \in net' : m.type \in {"start", "id"} => m \in net
    PROVE  IdsSuffice' /\ IdsHandedOnce'
<1> USE DEF IInv
<1>1. Waiting' \in SUBSET Waiting
  BY DEF Waiting, StartFlag
<1>2. \A u \in User, i \in Id : Handed(u, i)' => Handed(u, i)
  BY DEF Handed
<1>3. IdsSuffice'
  <2>1. IsFiniteSet(Waiting) /\ IsFiniteSet(Waiting')
    BY <1>1, JoinAssumption, FS_Subset DEF Waiting
  <2>2. Cardinality(Waiting') <= Cardinality(Waiting)
    BY <1>1, <2>1, FS_Subset
  <2>3. Cardinality(Waiting) \in Nat /\ Cardinality(Waiting') \in Nat
    BY <2>1, FS_CardinalityType
  <2>4. QED
    BY <2>2, <2>3, CountsNatural DEF IdsSuffice, TypeOK
<1>4. IdsHandedOnce'
  BY <1>1, <1>2 DEF IdsHandedOnce
<1>5. QED
  BY <1>3, <1>4

LEMMA MapFrame ==
    ASSUME IInv, UNCHANGED <<userId, userMap>>,
           \A m \in net' : m.type \in {"id", "register"} => m \in net
    PROVE  MapFollowsIds'
BY DEF IInv, MapFollowsIds

LEMMA NodesFrame ==
    ASSUME IInv, UNCHANGED <<userMap, tag>>,
           \A m \in net' : m.type = "two" => m \in net
    PROVE  NodesFollowMap'
BY DEF IInv, NodesFollowMap, M!Ready

LEMMA KeysFrame ==
    ASSUME IInv, UNCHANGED <<userMap, userId, finishVec, gsk>>, finals \subseteq finals',
           \A m \in net' : m.type = "key" => m \in net
    PROVE  KeysFollowShares'
BY DEF IInv, KeysFollowShares, KeyOf

LEMMA FlagsFrame ==
    ASSUME IInv, UNCHANGED <<userId, userMap, gsk, reg, flagVec, revokeStarted>>,
           \A n \in Node : nodeUsers[n] \subseteq nodeUsers'[n],
           \A m \in net' : m.type = "flag" => m \in net
    PROVE  FlagsFollow'
BY DEF IInv, FlagsFollow, Raises

-----------------------------------------------------------------------------

LEMMA InitIInv == ASSUME Init, M!TypeOK PROVE IInv
<1> USE CountsNatural DEF Init
<1>1. TypeOK
  <2>1. net \subseteq Message
    BY DEF StartFlag, Message
  <2>2. collected \subseteq finals
    OBVIOUS
  <2>3. QED
    BY <2>1, <2>2 DEF TypeOK
<1>2. \A m \in net : m.type = "start"
  BY DEF StartFlag
<1>3. \A u \in User, i \in Id : ~ Handed(u, i)
  BY <1>2 DEF Handed, Id
<1>4. IdsSuffice
  <2>1. Waiting \in SUBSET User
    BY DEF Waiting
  <2>2. Cardinality(Waiting) <= Cardinality(User) /\ Cardinality(Waiting) \in Nat
    BY <2>1, JoinAssumption, FS_Subset, FS_CardinalityType
  <2>3. QED
    BY <2>2 DEF IdsSuffice
<1>5. IdsHandedOnce
  BY <1>3 DEF IdsHandedOnce
<1>6. MapFollowsIds
  BY <1>2 DEF MapFollowsIds
<1>7. NodesFollowMap
  BY <1>2 DEF NodesFollowMap, M!Init, M!Ready
<1>8. KeysFollowShares /\ FlagsFollow
  BY <1>2 DEF KeysFollowShares, FlagsFollow
<1>9. QED
  BY <1>1, <1>4, <1>5, <1>6, <1>7, <1>8 DEF IInv

LEMMA ProxyPhaseOneStep ==
    ASSUME IInv, NEW u \in User, ProxyPhaseOne(u)
    PROVE  IInv' /\ userMap' = userMap
<1> USE DEF IInv
<1> DEFINE m   == StartFlag(u)
           new == [type |-> "id", user |-> u, id |-> joinNum + 1]
<1>1. /\ m \in net /\ joinNum' = joinNum + 1
      /\ userMap' = IF joinNum + 1 = 1 THEN [i \in Id |-> NoUser] ELSE userMap
      /\ net' = (net \ {m}) \cup {new}
      /\ UNCHANGED <<finishVec, threeVec, fourVec, flagVec, revokeStarted, userId, gsk,
                     nodeUsers, reg, collected, tag, held, alpha, beta, answered,
                     oneMsgs, twoMsgs, finals>>
  BY DEF ProxyPhaseOne, NextId, userVars, nodeVars, mtaVars
<1>2. joinNum \in Nat /\ userId \in [User -> Id \cup {0}] /\ u \in Waiting
  BY <1>1 DEF TypeOK, Waiting
<1>3. \A v \in User, i \in Id : userId[v] = i => i <= joinNum /\ v # u
  BY <1>2 DEF IdsHandedOnce, Handed
<1>4. userMap' = userMap
  <2>1. ASSUME NEW i \in Id, userMap[i] # NoUser
        PROVE  joinNum + 1 # 1
    <3>1. userMap[i] \in User /\ userId[userMap[i]] = i
      BY <2>1 DEF MapFollowsIds, TypeOK
    <3>2. QED
      BY <1>2, <1>3, <3>1 DEF Id
  <2>2. userMap \in [Id -> User \cup {NoUser}]
    BY DEF TypeOK
  <2>3. QED
    BY <1>1, <2>1, <2>2
<1>5. IdsSuffice' /\ joinNum + 1 \in Id
  <2>1. Waiting' = Waiting \ {u}
    BY <1>1 DEF Waiting, StartFlag
  <2>2. IsFiniteSet(Waiting)
    BY JoinAssumption, FS_Subset DEF Waiting
  <2>3. Cardinality(Waiting \ {u}) = Cardinality(Waiting) - 1 /\ Cardinality(Waiting \ {u}) \in Nat
    BY <1>2, <2>2, FS_RemoveElement, FS_CardinalityType
  <2>4. Cardinality(Waiting) \in Nat
    BY <2>2, FS_CardinalityType
  <2>5. QED
    BY <1>1, <1>2, <2>1, <2>3, <2>4, CountsNatural DEF IdsSuffice, Id
<1>6. TypeOK'
  <2>1. new \in Message
    BY <1>5 DEF Message
  <2>2. joinNum' \in 0 .. Cardinality(User)
    BY <1>1, <1>2, <1>5, CountsNatural DEF Id
  <2>3. M!TypeOK'
    BY <1>1 DEF TypeOK, M!TypeOK
  <2>4. QED
    BY <1>1, <1>4, <2>1, <2>2, <2>3 DEF TypeOK
<1>7. IdsHandedOnce'
  <2>1. \A v \in User, i \in Id : Handed(v, i)' => Handed(v, i) \/ (v = u /\ i = joinNum + 1)
    BY <1>1 DEF Handed
  <2>2. \A v \in User, i \in Id : Handed(v, i) => i <= joinNum /\ v # u
    BY <1>2 DEF IdsHandedOnce
  <2>3. \A v \in User : v \in Waiting' => v \in Waiting /\ v # u
    BY <1>1 DEF Waiting, StartFlag
  <2>4. QED
    BY <1>1, <1>2, <2>1, <2>2, <2>3 DEF IdsHandedOnce, Id
<1>8. MapFollowsIds'
  BY <1>1, <1>2, <1>3, <1>4 DEF MapFollowsIds
<1>9. NodesFollowMap' /\ KeysFollowShares' /\ FlagsFollow'
  BY <1>1, <1>4, NodesFrame, KeysFrame, FlagsFrame
<1>10. QED
  BY <1>4, <1>5, <1>6, <1>7, <1>8, <1>9

LEMMA UserPhaseTwoStep ==
    ASSUME IInv, NEW m \in net, UserPhaseTwo(m)
    PROVE  IInv'
<1> USE DEF IInv
<1> DEFINE reply == [m EXCEPT !.type = "register"]
<1>1. /\ m.type = "id"
      /\ userId' = [userId EXCEPT ![m.user] = m.id]
      /\ net' = (net \ {m}) \cup {reply}
      /\ UNCHANGED <<joinNum, userMap, finishVec, threeVec, fourVec, flagVec, revokeStarted,
                     gsk, nodeUsers, reg, collected, tag, held, alpha, beta, answered,
                     oneMsgs, twoMsgs, finals>>
  BY DEF UserPhaseTwo, proxyVars, nodeVars, mtaVars
<1>2. /\ m.user \in User /\ m.id \in Id
      /\ m = [type |-> "id", user |-> m.user, id |-> m.id]
      /\ reply = [type |-> "register", user |-> m.user, id |-> m.id]
  BY <1>1, Messages
<1> HIDE DEF reply
<1>3. /\ Handed(m.user, m.id) /\ userId[m.user] = 0 /\ 0 \notin Id
      /\ userId'[m.user] = m.id
      /\ \A v \in User \ {m.user} : userId'[v] = userId[v]
  BY <1>1, <1>2 DEF Handed, MapFollowsIds, TypeOK, Id
<1>4. \A i \in Id : userMap[i] # NoUser => userMap[i] \in User /\ userMap[i] # m.user
  BY <1>3 DEF MapFollowsIds, TypeOK
<1>5. TypeOK'
  <2>1. reply \in Message
    BY <1>2 DEF Message
  <2>2. M!TypeOK'
    BY <1>1 DEF TypeOK, M!TypeOK
  <2>3. QED
    BY <1>1, <1>2, <2>1, <2>2 DEF TypeOK
<1>6. IdsSuffice' /\ IdsHandedOnce'
  <2>1. \A v \in User, i \in Id : Handed(v, i)' => Handed(v, i)
    BY <1>1, <1>2, <1>3 DEF Handed
  <2>2. Waiting' = Waiting
    BY <1>1, <1>2 DEF Waiting, StartFlag
  <2>3. QED
    BY <1>1, <2>1, <2>2 DEF IdsSuffice, IdsHandedOnce
<1>7. MapFollowsIds'
  <2>1. ASSUME NEW q \in net, q.type = "id", q # m
        PROVE  userId'[q.user] = 0
    <3>1. q.user \in User /\ q.id \in Id /\ Handed(q.user, q.id) /\ userId[q.user] = 0
      BY <2>1, Messages DEF Handed, MapFollowsIds
    <3>2. q.user # m.user
      BY <1>1, <1>2, <1>3, <2>1, <3>1, Messages DEF IdsHandedOnce
    <3>3. QED
      BY <1>3, <3>1, <3>2
  <2>2. ASSUME NEW q \in net, q.type = "register"
        PROVE  userId'[q.user] = q.id
    BY <1>3, <2>2, Messages DEF MapFollowsIds
  <2>3. userMap[m.id] = NoUser
    <3>1. SUFFICES ASSUME userMap[m.id] # NoUser PROVE FALSE
      OBVIOUS
    <3>2. userMap[m.id] \in User /\ Handed(userMap[m.id], m.id)
      BY <1>2, <1>4, <3>1 DEF MapFollowsIds, Handed
    <3>3. QED
      BY <1>2, <1>3, <1>4, <3>1, <3>2 DEF IdsHandedOnce
  <2>4. QED
    BY <1>1, <1>2, <1>3, <1>4, <2>1, <2>2, <2>3 DEF MapFollowsIds
<1>8. NodesFollowMap'
  BY <1>1, <1>2, NodesFrame
<1>9. \A v \in User : userId[v] # 0 /\ userMap[userId[v]] = v => userId'[v] = userId[v]
  BY <1>3
<1>10. KeysFollowShares'
  <2>1. \A v \in User, key \in SUBSET M!Final : KeyOf(v, key) => KeyOf(v, key)'
    BY <1>1, <1>9 DEF KeyOf
  <2>2. \A q \in net' : q.type = "key" => q \in net
    BY <1>1, <1>2
  <2>3. \A q \in net : q.type = "key" => q.user \in User /\ q.shares \in SUBSET M!Final
    BY Messages
  <2>4. QED
    BY <1>1, <2>1, <2>2, <2>3 DEF KeysFollowShares, TypeOK
<1>11. FlagsFollow'
  <2>1. \A by \in Flag, i \in Id : Raises(by, i) => Raises(by, i)'
    BY <1>1, <1>3 DEF Raises
  <2>2. \A q \in net' : q.type = "flag" => q \in net
    BY <1>1, <1>2
  <2>3. \A q \in net : q.type = "flag" => q.by \in Flag /\ q.id \in Id
    BY Messages
  <2>4. QED
    BY <1>1, <2>1, <2>2, <2>3 DEF FlagsFollow, TypeOK
<1>12. QED
  BY <1>5, <1>6, <1>7, <1>8, <1>10, <1>11

\* Between entries of the map nothing is replaced: what holds of keys and
\* flags survives a user that is added to it.
LEMMA KeysSurvive ==
    ASSUME IInv, UNCHANGED <<userId, finishVec, gsk>>, finals \subseteq finals',
           \A i \in Id : userMap[i] # NoUser => userMap'[i] = userMap[i],
           \A m \in net' : m.type = "key" => m \in net
    PROVE  KeysFollowShares'
<1> USE DEF IInv
<1>1. ASSUME NEW u \in User, NEW key, KeyOf(u, key)
      PROVE  KeyOf(u, key)'
  <2>1. userId[u] \in Id /\ userMap[userId[u]] = u /\ u # NoUser
    BY <1>1, JoinAssumption DEF KeyOf, TypeOK
  <2>2. QED
    BY <1>1, <2>1 DEF KeyOf
<1>2. \A q \in net : q.type = "key" => q.user \in User
  BY Messages
<1>3. \A q \in net' : q.type = "key" => KeyOf(q.user, q.shares)'
  BY <1>1, <1>2 DEF KeysFollowShares
<1>4. \A u \in User : gsk[u] # {} => KeyOf(u, gsk[u])'
  BY <1>1 DEF KeysFollowShares
<1>5. \A i \in Id : \A f \in finishVec'[i] : f \in finals' /\ f.sess = i
  BY DEF KeysFollowShares
<1>6. gsk' = gsk
  OBVIOUS
<1>7. QED
  BY <1>3, <1>4, <1>5, <1>6 DEF KeysFollowShares, KeyOf

LEMMA FlagsSurvive ==
    ASSUME IInv, UNCHANGED <<userId, gsk, reg, nodeUsers, flagVec, revokeStarted>>,
           \A i \in Id : userMap[i] # NoUser => userMap'[i] = userMap[i],
           \A m \in net' : m.type = "flag" => m \in net
    PROVE  FlagsFollow'
<1> USE DEF IInv
<1>1. ASSUME NEW by, NEW i \in Id, Raises(by, i)
      PROVE  Raises(by, i)'
  BY <1>1, JoinAssumption DEF Raises
<1>2. \A q \in net : q.type = "flag" => q.id \in Id
  BY Messages
<1>3. \A q \in net' : q.type = "flag" => Raises(q.by, q.id)'
  BY <1>1, <1>2 DEF FlagsFollow
<1>4. \A i \in Id : \A by \in flagVec[i] : Raises(by, i)'
  BY <1>1 DEF FlagsFollow
<1>5. QED
  BY <1>3, <1>4 DEF FlagsFollow

LEMMA ProxyPhaseTwoStep ==
    ASSUME IInv, NEW m \in net, ProxyPhaseTwo(m), HasLeaf(m.id)
    PROVE  /\ IInv'
           /\ \A i \in Id : userMap[i] # NoUser => userMap'[i] = userMap[i]
<1> USE DEF IInv
<1>1. /\ m.type = "register"
      /\ userMap' = [userMap EXCEPT ![m.id] = m.user]
      /\ net' = (net \ {m}) \cup NodeMsg("two", Node, m.id)
      /\ UNCHANGED <<joinNum, finishVec, threeVec, fourVec, flagVec, revokeStarted, userId,
                     gsk, nodeUsers, reg, collected, tag, held, alpha, beta, answered,
                     oneMsgs, twoMsgs, finals>>
  BY DEF ProxyPhaseTwo, Announcement, userVars, nodeVars, mtaVars
<1>2. /\ m.user \in User /\ m.id \in Id
      /\ m = [type |-> "register", user |-> m.user, id |-> m.id]
      /\ userId[m.user] = m.id /\ userMap[m.id] = NoUser /\ m.id \in WithLeaf
  BY <1>1, Messages, LeafOfId DEF MapFollowsIds
<1>3. /\ userMap'[m.id] = m.user /\ m.user # NoUser
      /\ \A i \in Id : i # m.id => userMap'[i] = userMap[i]
      /\ \A i \in Id : userMap[i] # NoUser => userMap'[i] = userMap[i]
  BY <1>1, <1>2, JoinAssumption DEF TypeOK
<1>4. \A q \in NodeMsg("two", Node, m.id) : q \in Message /\ q.type = "two" /\ q.id = m.id
  BY <1>2, NodeMessages DEF NodeMsgType
<1> DEFINE new == NodeMsg("two", Node, m.id)
<1> HIDE DEF new
<1>5. /\ net' = (net \ {m}) \cup new
      /\ \A q \in new : q \in Message /\ q.type = "two" /\ q.id = m.id
  BY <1>1, <1>4 DEF new
<1>6. TypeOK'
  <2>1. M!TypeOK'
    BY <1>1 DEF TypeOK, M!TypeOK
  <2>2. net' \subseteq Message
    BY <1>5 DEF TypeOK
  <2>3. userMap' \in [Id -> User \cup {NoUser}]
    BY <1>1, <1>2 DEF TypeOK
  <2>4. QED
    BY <1>1, <2>1, <2>2, <2>3 DEF TypeOK
<1>7. IdsSuffice' /\ IdsHandedOnce'
  BY <1>1, <1>5, IdsFrame
<1>8. MapFollowsIds'
  <2>1. \A q \in net' : q.type \in {"id", "register"} => q \in net /\ q # m
    BY <1>5
  <2>2. ASSUME NEW q \in net, q.type = "register", q # m
        PROVE  userMap'[q.id] = NoUser
    <3>1. /\ q.user \in User /\ q.id \in Id
          /\ q = [type |-> "register", user |-> q.user, id |-> q.id]
          /\ userId[q.user] = q.id /\ userMap[q.id] = NoUser
      BY <2>2, Messages DEF MapFollowsIds
    <3>2. q.id # m.id
      <4>1. SUFFICES ASSUME q.id = m.id PROVE q.user = m.user
        BY <1>2, <2>2, <3>1
      <4>2. Handed(q.user, q.id) /\ Handed(m.user, q.id)
        BY <1>2, <3>1, <4>1 DEF Handed
      <4>3. QED
        BY <1>2, <3>1, <4>2 DEF IdsHandedOnce
    <3>3. QED
      BY <1>3, <3>1, <3>2
  <2>3. \A i \in Id : userMap'[i] # NoUser => userId[userMap'[i]] = i /\ i \in WithLeaf
    BY <1>2, <1>3 DEF MapFollowsIds
  <2>4. QED
    BY <1>1, <2>1, <2>2, <2>3 DEF MapFollowsIds
<1>9. NodesFollowMap'
  <2>1. ASSUME NEW q \in net', q.type = "two" PROVE userMap'[q.id] # NoUser
    <3>1. CASE q \in net
      <4>1. q.id \in Id /\ userMap[q.id] # NoUser
        BY <2>1, <3>1, Messages DEF NodesFollowMap, NodeMsgType
      <4>2. QED
        BY <1>3, <4>1
    <3>2. CASE q \in new
      BY <1>3, <1>5, <3>2
    <3>3. QED
      BY <1>5, <3>1, <3>2
  <2>2. \A p \in Participant, i \in Id : M!Ready(p, i)' => userMap'[i] # NoUser
    BY <1>1, <1>3 DEF NodesFollowMap, M!Ready
  <2>3. QED
    BY <2>1, <2>2 DEF NodesFollowMap
<1>10. KeysFollowShares' /\ FlagsFollow'
  BY <1>1, <1>3, <1>5, KeysSurvive, FlagsSurvive
<1>11. QED
  BY <1>3, <1>6, <1>7, <1>8, <1>9, <1>10

\* The user is not entered, and nothing is sent.
LEMMA NoLeafStep ==
    ASSUME IInv, NEW m \in net, ProxyPhaseTwo(m), ~ HasLeaf(m.id)
    PROVE  IInv' /\ userMap' = userMap
<1> USE DEF IInv
<1>1. /\ net' \subseteq net
      /\ UNCHANGED <<joinNum, userMap, finishVec, threeVec, fourVec, flagVec, revokeStarted,
                     userId, gsk, nodeUsers, reg, collected, tag, held, alpha, beta, answered,
                     oneMsgs, twoMsgs, finals>>
  BY DEF ProxyPhaseTwo, userVars, nodeVars, mtaVars
<1>2. TypeOK'
  <2>1. M!TypeOK'
    BY <1>1 DEF TypeOK, M!TypeOK
  <2>2. QED
    BY <1>1, <2>1 DEF TypeOK
<1>3. IdsSuffice' /\ IdsHandedOnce' /\ MapFollowsIds' /\ NodesFollowMap'
  BY <1>1, IdsFrame, MapFrame, NodesFrame
<1>4. KeysFollowShares' /\ FlagsFollow'
  BY <1>1, KeysFrame, FlagsFrame
<1>5. QED
  BY <1>1, <1>2, <1>3, <1>4

LEMMA NodePhaseTwoStep ==
    ASSUME IInv, NEW m \in net, NodePhaseTwo(m), M!TypeOK'
    PROVE  IInv'
<1> USE DEF IInv
<1>1. /\ m.type = "two"
      /\ net' = net \ {m}
      /\ nodeUsers' = [nodeUsers EXCEPT ![m.node] = @ \cup {m.id}]
      /\ UNCHANGED <<joinNum, userMap, finishVec, threeVec, fourVec, flagVec, revokeStarted,
                     userId, gsk, reg, collected, finals>>
  BY DEF NodePhaseTwo, M!Begin, proxyVars, userVars, mtaVars
<1>2. m.node \in Node /\ m.id \in Id /\ userMap[m.id] # NoUser
  BY <1>1, Messages DEF NodesFollowMap, NodeMsgType
<1>3. TypeOK'
  BY <1>1, <1>2 DEF TypeOK
<1>4. IdsSuffice' /\ IdsHandedOnce' /\ MapFollowsIds' /\ KeysFollowShares'
  BY <1>1, IdsFrame, MapFrame, KeysFrame
<1>5. FlagsFollow'
  <2>1. \A n \in Node : nodeUsers[n] \subseteq nodeUsers'[n]
    BY <1>1, <1>2 DEF TypeOK
  <2>2. QED
    BY <1>1, <2>1, FlagsFrame
<1>6. NodesFollowMap'
  <2>1. ASSUME NEW p \in Participant, NEW i \in Id, tag'[p][i] = "ready"
        PROVE  userMap[i] # NoUser
    <3>1. CASE i = m.id
      BY <1>2, <3>1
    <3>2. CASE i # m.id
      <4>1. \/ tag' = [tag EXCEPT ![m.node][m.id] = "ready"]
            \/ tag' = tag
        BY DEF NodePhaseTwo, M!Begin, mtaVars
      <4>2. tag[p][i] = "ready"
        BY <2>1, <3>2, <4>1 DEF TypeOK, M!TypeOK
      <4>3. QED
        BY <4>2 DEF NodesFollowMap, M!Ready
    <3>3. QED
      BY <3>1, <3>2
  <2>2. QED
    BY <1>1, <2>1 DEF NodesFollowMap, M!Ready
<1>7. QED
  BY <1>3, <1>4, <1>5, <1>6

LEMMA NodeExchangeStep ==
    ASSUME IInv, NodeExchange, M!TypeOK'
    PROVE  IInv'
<1> USE DEF IInv
<1>1. UNCHANGED <<joinNum, userMap, finishVec, threeVec, fourVec, flagVec, revokeStarted,
                  userId, gsk, nodeUsers, reg, net, collected>>
  BY DEF NodeExchange, proxyVars, userVars, nodeVars
<1>2. finals \subseteq finals'
  BY DEF NodeExchange, M!HoldOne, M!AnswerOne, M!RecvTwo
<1>3. TypeOK'
  BY <1>1, <1>2 DEF TypeOK
<1>4. IdsSuffice' /\ IdsHandedOnce' /\ MapFollowsIds' /\ KeysFollowShares' /\ FlagsFollow'
  BY <1>1, <1>2, IdsFrame, MapFrame, KeysFrame, FlagsFrame
<1>5. ASSUME NEW p \in Participant, NEW i \in Id, tag'[p][i] = "ready"
      PROVE  tag[p][i] = "ready"
  <2>1. CASE \E k \in oneMsgs : M!HoldOne(k)
    <3>1. PICK k \in oneMsgs : M!HoldOne(k)
      BY <2>1
    <3>2. tag' = [tag EXCEPT ![k.to][k.sess] = "early"]
      BY <3>1 DEF M!HoldOne
    <3>3. QED
      BY <1>5, <3>2 DEF TypeOK, M!TypeOK
  <2>2. CASE (\E k \in oneMsgs : M!AnswerOne(k)) \/ \E k \in twoMsgs : M!RecvTwo(k)
    BY <1>5, <2>2 DEF M!AnswerOne, M!RecvTwo
  <2>3. QED
    BY <2>1, <2>2 DEF NodeExchange
<1>6. NodesFollowMap'
  BY <1>1, <1>5 DEF NodesFollowMap, M!Ready
<1>7. QED
  BY <1>3, <1>4, <1>6

-----------------------------------------------------------------------------

\* As many shares of an id as there are participants are one of each.
LEMMA OneOfEach ==
    ASSUME Sound, NEW i \in Id, NEW vec \in SUBSET finals,
           \A f \in vec : f.sess = i,
           Cardinality(vec) = Cardinality(Participant)
    PROVE  {f.from : f \in vec} = Participant
<1> DEFINE from == [f \in vec |-> f.from]
<1>1. from \in [vec -> Participant]
  BY DEF Sound, M!TypeOK, M!Final
<1>2. \A f, g \in vec : from[f] = from[g] => f = g
  BY DEF Sound, M!OneFinalEach
<1>3. from \in Injection(vec, Participant)
  BY <1>1, <1>2 DEF Injection, IsInjective
<1>4. from \in Surjection(vec, Participant)
  BY <1>3, CountsNatural, FS_Injection
<1>5. QED
  BY <1>1, <1>4 DEF Surjection

LEMMA ProxyPhaseThreeStep ==
    ASSUME IInv, Sound, NEW f \in finals, ProxyPhaseThree(f)
    PROVE  IInv'
<1> USE DEF IInv
<1> DEFINE i   == f.sess
           vec == finishVec[i] \cup {f}
           key == [type |-> "key", user |-> userMap[i], shares |-> vec]
           ask == NodeMsg("three", Participant, i)
<1>1. /\ f \in M!Final /\ i \in Id
      /\ M!Ready(f.from, i)
  BY DEF Sound, M!TypeOK, M!Final
<1>2. /\ collected' = collected \cup {f}
      /\ UNCHANGED <<joinNum, userMap, threeVec, fourVec, flagVec, revokeStarted, userId,
                     gsk, nodeUsers, reg, tag, held, alpha, beta, answered,
                     oneMsgs, twoMsgs, finals>>
      /\ \/ /\ Cardinality(vec) = Cardinality(Participant)
            /\ finishVec' = [finishVec EXCEPT ![i] = {}]
            /\ net' = net \cup {key} \cup ask
         \/ /\ finishVec' = [finishVec EXCEPT ![i] = vec]
            /\ net' = net
  BY DEF ProxyPhaseThree, FromParticipants, KeyFor, userVars, nodeVars, mtaVars
<1>3. vec \in SUBSET finals /\ vec \in SUBSET M!Final /\ \A g \in vec : g.sess = i
  BY <1>1 DEF KeysFollowShares, TypeOK, M!TypeOK
<1>4. userMap[i] \in User /\ userId[userMap[i]] = i
  <2>1. f.from \in Participant
    BY <1>1 DEF M!Final
  <2>2. QED
    BY <1>1, <2>1 DEF NodesFollowMap, MapFollowsIds, TypeOK
<1>5. \A q \in ask : q \in Message /\ q.type = "three"
  BY <1>1, JoinAssumption, NodeMessages DEF NodeMsgType
<1>6. /\ key \in Message /\ key.type = "key" /\ key.user = userMap[i] /\ key.shares = vec
  BY <1>3, <1>4 DEF Message
<1>7. ASSUME Cardinality(vec) = Cardinality(Participant)
      PROVE  KeyOf(key.user, key.shares)
  <2>1. {g.from : g \in vec} = Participant
    BY <1>1, <1>3, <1>7, OneOfEach
  <2>2. i # 0
    BY <1>1 DEF Id
  <2>3. QED
    BY <1>3, <1>4, <1>6, <2>1, <2>2 DEF KeyOf
<1> HIDE DEF i, vec, key, ask
<1>8. \A q \in net' : q \in net \/ (q = key /\ KeyOf(key.user, key.shares)) \/ q \in ask
  BY <1>2, <1>7
<1>9. TypeOK'
  <2>1. M!TypeOK'
    BY <1>2 DEF TypeOK, M!TypeOK
  <2>2. net' \subseteq Message
    BY <1>5, <1>6, <1>8 DEF TypeOK
  <2>3. finishVec' \in [Id -> SUBSET M!Final]
    BY <1>1, <1>2, <1>3 DEF TypeOK
  <2>4. QED
    BY <1>2, <2>1, <2>2, <2>3 DEF TypeOK
<1>10. IdsSuffice' /\ IdsHandedOnce' /\ MapFollowsIds' /\ NodesFollowMap' /\ FlagsFollow'
  BY <1>2, <1>5, <1>6, <1>8, IdsFrame, MapFrame, NodesFrame, FlagsFrame
<1>11. KeysFollowShares'
  <2>1. \A u, shares : KeyOf(u, shares) => KeyOf(u, shares)'
    BY <1>2 DEF KeyOf
  <2>2. \A j \in Id : \A g \in finishVec'[j] : g \in finals /\ g.sess = j
    <3>1. SUFFICES ASSUME NEW j \in Id, NEW g \in finishVec'[j]
                   PROVE  g \in finals /\ g.sess = j
      OBVIOUS
    <3>2. CASE j = i
      BY <1>1, <1>2, <1>3, <3>1, <3>2 DEF TypeOK
    <3>3. CASE j # i
      BY <1>2, <3>1, <3>3 DEF TypeOK, KeysFollowShares
    <3>4. QED
      BY <3>2, <3>3
  <2>3. \A q \in net' : q.type = "key" => KeyOf(q.user, q.shares)'
    BY <1>5, <1>8, <2>1 DEF KeysFollowShares
  <2>4. \A u \in User : (gsk[u] # {} => KeyOf(u, gsk[u]))'
    BY <1>2, <2>1 DEF KeysFollowShares
  <2>5. QED
    BY <1>2, <2>2, <2>3, <2>4 DEF KeysFollowShares, KeyOf
<1>12. QED
  BY <1>9, <1>10, <1>11

LEMMA UserPhaseThreeStep ==
    ASSUME IInv, NEW m \in net, UserPhaseThree(m)
    PROVE  IInv'
<1> USE DEF IInv
<1> DEFINE u    == m.user
           flag == UserFlag(userId[u])
<1>1. /\ m.type = "key"
      /\ gsk' = [gsk EXCEPT ![u] = m.shares]
      /\ net' = (net \ {m}) \cup {flag}
      /\ UNCHANGED <<joinNum, userMap, finishVec, threeVec, fourVec, flagVec, revokeStarted,
                     userId, nodeUsers, reg, collected, tag, held, alpha, beta, answered,
                     oneMsgs, twoMsgs, finals>>
  BY DEF UserPhaseThree, proxyVars, nodeVars, mtaVars
<1>2. u \in User /\ m.shares \in SUBSET M!Final /\ KeyOf(u, m.shares)
  BY <1>1, Messages DEF KeysFollowShares
<1>3. userId[u] \in Id /\ userMap[userId[u]] = u /\ m.shares # {}
  BY <1>2, CountsNatural DEF KeyOf, TypeOK
<1>4. /\ flag \in Message /\ flag.type = "flag"
      /\ flag.by = "user" /\ flag.id = userId[u]
  BY <1>3 DEF UserFlag, Message, Flag
<1> HIDE DEF u, flag
<1>5. gsk'[u] = m.shares /\ \A v \in User : v # u => gsk'[v] = gsk[v]
  BY <1>1, <1>2 DEF TypeOK
<1>6. TypeOK'
  <2>1. M!TypeOK'
    BY <1>1 DEF TypeOK, M!TypeOK
  <2>2. QED
    BY <1>1, <1>2, <1>4, <2>1 DEF TypeOK
<1>7. IdsSuffice' /\ IdsHandedOnce' /\ MapFollowsIds' /\ NodesFollowMap'
  BY <1>1, <1>4, IdsFrame, MapFrame, NodesFrame
<1>8. KeysFollowShares'
  <2>1. \A v, shares : KeyOf(v, shares) => KeyOf(v, shares)'
    BY <1>1 DEF KeyOf
  <2>2. \A q \in net' : q.type = "key" => KeyOf(q.user, q.shares)'
    BY <1>1, <1>4, <2>1 DEF KeysFollowShares
  <2>3. \A v \in User : (gsk[v] # {} => KeyOf(v, gsk[v]))'
    BY <1>2, <1>5, <2>1 DEF KeysFollowShares
  <2>4. \A j \in Id : \A g \in finishVec'[j] : g \in finals' /\ g.sess = j
    BY <1>1 DEF KeysFollowShares
  <2>5. QED
    BY <2>2, <2>3, <2>4 DEF KeysFollowShares, KeyOf
<1>9. FlagsFollow'
  <2>1. \A by, i : Raises(by, i) => Raises(by, i)'
    BY <1>1, <1>3, <1>5 DEF Raises
  <2>2. Raises("user", userId[u])'
    BY <1>1, <1>2, <1>3, <1>5 DEF Raises
  <2>3. \A q \in net' : q.type = "flag" => Raises(q.by, q.id)'
    BY <1>1, <1>4, <2>1, <2>2 DEF FlagsFollow
  <2>4. \A i \in Id : \A by \in flagVec'[i] : Raises(by, i)'
    BY <1>1, <2>1 DEF FlagsFollow
  <2>5. QED
    BY <1>1, <2>3, <2>4 DEF FlagsFollow
<1>10. QED
  BY <1>6, <1>7, <1>8, <1>9

\* A step that only replaces a message between proxy and nodes by others.
LEMMA RoundFrame ==
    ASSUME IInv, NEW t \in NodeMsgType, t # "two", NEW new \in SUBSET Message,
           \A q \in new : q.type = t,
           net' \subseteq net \cup new,
           threeVec' \in [Id -> SUBSET Node], fourVec' \in [Id -> SUBSET Node],
           UNCHANGED <<joinNum, userMap, finishVec, flagVec, revokeStarted, userId, gsk,
                       nodeUsers, reg, collected, tag, held, alpha, beta, answered,
                       oneMsgs, twoMsgs, finals>>
    PROVE  IInv'
<1> USE DEF IInv
<1>1. \A q \in net' : q \notin net => q.type \in {"three", "ackThree", "four", "ackFour", "five"}
  BY DEF NodeMsgType
<1>2. TypeOK'
  <2>1. M!TypeOK'
    BY DEF TypeOK, M!TypeOK
  <2>2. QED
    BY <2>1 DEF TypeOK
<1>3. IdsSuffice' /\ IdsHandedOnce' /\ MapFollowsIds' /\ NodesFollowMap'
  BY <1>1, IdsFrame, MapFrame, NodesFrame
<1>4. KeysFollowShares' /\ FlagsFollow'
  BY <1>1, KeysFrame, FlagsFrame
<1>5. QED
  BY <1>2, <1>3, <1>4

LEMMA NodeContributeStep ==
    ASSUME IInv, NEW m \in net, NodeContribute(m)
    PROVE  IInv'
<1> DEFINE ack == [m EXCEPT !.type = AckOf[m.type]]
<1>1. /\ m.type \in {"three", "four"}
      /\ net' = (net \ {m}) \cup {ack}
      /\ UNCHANGED <<joinNum, userMap, finishVec, threeVec, fourVec, flagVec, revokeStarted,
                     userId, gsk, nodeUsers, reg, collected, tag, held, alpha, beta, answered,
                     oneMsgs, twoMsgs, finals>>
  BY DEF NodeContribute, AckOf, proxyVars, userVars, nodeVars, mtaVars
<1>2. TypeOK
  BY DEF IInv
<1>3. m.node \in Node /\ m.id \in Id /\ m = [type |-> m.type, node |-> m.node, id |-> m.id]
  BY <1>1, <1>2, Messages DEF NodeMsgType
<1>4. AckOf[m.type] \in {"ackThree", "ackFour"}
  BY <1>1 DEF AckOf
<1> DEFINE t == AckOf[m.type]
<1> HIDE DEF t
<1>5. ack = [type |-> t, node |-> m.node, id |-> m.id]
  BY <1>3 DEF t
<1>6. ack \in Message /\ ack.type = t /\ t \in NodeMsgType /\ t # "two"
  BY <1>3, <1>4, <1>5 DEF Message, NodeMsgType, t
<1> HIDE DEF ack
<1> DEFINE new == {ack}
<1>7. /\ threeVec' \in [Id -> SUBSET Node] /\ fourVec' \in [Id -> SUBSET Node]
      /\ new \in SUBSET Message /\ \A q \in new : q.type = t
      /\ net' \subseteq net \cup new
  BY <1>1, <1>2, <1>6 DEF TypeOK
<1> HIDE DEF new
<1>8. QED
  BY <1>1, <1>6, <1>7, RoundFrame

LEMMA ProxyPhaseFourStep ==
    ASSUME IInv, NEW m \in net, ProxyPhaseFour(m)
    PROVE  IInv'
<1>1. m.type = "ackThree"
  BY DEF ProxyPhaseFour
<1>2. m.node \in Node /\ m.id \in Id
  BY <1>1, Messages DEF NodeMsgType, IInv
<1> DEFINE new == NodeMsg("four", Participant, m.id)
<1>3. "four" \in NodeMsgType /\ new \in SUBSET Message /\ \A q \in new : q.type = "four"
  BY <1>2, JoinAssumption, NodeMessages DEF NodeMsgType
<1>4. net' \subseteq net \cup new
  BY DEF ProxyPhaseFour, SecondRound
<1>5. threeVec' \in [Id -> SUBSET Node] /\ fourVec' \in [Id -> SUBSET Node]
  BY <1>2 DEF ProxyPhaseFour, IInv, TypeOK
<1>6. UNCHANGED <<joinNum, userMap, finishVec, flagVec, revokeStarted, userId, gsk,
                  nodeUsers, reg, collected, tag, held, alpha, beta, answered,
                  oneMsgs, twoMsgs, finals>>
  BY DEF ProxyPhaseFour, userVars, nodeVars, mtaVars
<1> HIDE DEF new
<1>7. QED
  BY <1>3, <1>4, <1>5, <1>6, RoundFrame

LEMMA ProxyPhaseFiveStep ==
    ASSUME IInv, NEW m \in net, ProxyPhaseFive(m)
    PROVE  IInv'
<1>1. m.type = "ackFour"
  BY DEF ProxyPhaseFive
<1>2. m.node \in Node /\ m.id \in Id
  BY <1>1, Messages DEF NodeMsgType, IInv
<1> DEFINE new == NodeMsg("five", Node, m.id)
<1>3. "five" \in NodeMsgType /\ new \in SUBSET Message /\ \A q \in new : q.type = "five"
  BY <1>2, NodeMessages DEF NodeMsgType
<1>4. net' \subseteq net \cup new
  BY DEF ProxyPhaseFive, EncryptedKey
<1>5. threeVec' \in [Id -> SUBSET Node] /\ fourVec' \in [Id -> SUBSET Node]
  BY <1>2 DEF ProxyPhaseFive, IInv, TypeOK
<1>6. UNCHANGED <<joinNum, userMap, finishVec, flagVec, revokeStarted, userId, gsk,
                  nodeUsers, reg, collected, tag, held, alpha, beta, answered,
                  oneMsgs, twoMsgs, finals>>
  BY DEF ProxyPhaseFive, userVars, nodeVars, mtaVars
<1> HIDE DEF new
<1>7. QED
  BY <1>3, <1>4, <1>5, <1>6, RoundFrame

LEMMA NodePhaseSixStep ==
    ASSUME IInv, NEW m \in net, NodePhaseSix(m)
    PROVE  IInv'
<1> USE DEF IInv
<1> DEFINE n    == m.node
           flag == [type |-> "flag", by |-> n, id |-> m.id]
<1>1. m.type = "five" /\ n \in Node /\ m.id \in Id
  BY Messages DEF NodePhaseSix, NodeMsgType
<1>2. UNCHANGED <<joinNum, userMap, finishVec, threeVec, fourVec, flagVec, revokeStarted,
                  userId, gsk, nodeUsers, collected, tag, held, alpha, beta, answered,
                  oneMsgs, twoMsgs, finals>>
  BY DEF NodePhaseSix, proxyVars, userVars, mtaVars
<1>3. \/ /\ m.id \in nodeUsers[n]
         /\ reg' = [reg EXCEPT ![n] = @ \cup {m.id}]
         /\ net' = (net \ {m}) \cup {flag}
      \/ reg' = reg /\ net' = net \ {m}
  BY DEF NodePhaseSix
<1>4. flag \in Message /\ flag.type = "flag" /\ flag.by = n /\ flag.id = m.id
  BY <1>1 DEF Message, Flag
<1> HIDE DEF n, flag
<1>5. \A q \in net' : q \in net \/ (q = flag /\ m.id \in reg'[n])
  BY <1>1, <1>3 DEF TypeOK
<1>6. \A k \in Node : reg[k] \subseteq reg'[k] /\ reg'[k] \subseteq nodeUsers[k]
  BY <1>1, <1>3 DEF TypeOK, FlagsFollow
<1>7. TypeOK'
  <2>1. M!TypeOK'
    BY <1>2 DEF TypeOK, M!TypeOK
  <2>2. reg' \in [Node -> SUBSET Id]
    BY <1>1, <1>3 DEF TypeOK
  <2>3. net' \subseteq Message
    BY <1>4, <1>5 DEF TypeOK
  <2>4. QED
    BY <1>2, <2>1, <2>2, <2>3 DEF TypeOK
<1>8. IdsSuffice' /\ IdsHandedOnce' /\ MapFollowsIds' /\ NodesFollowMap' /\ KeysFollowShares'
  BY <1>2, <1>4, <1>5, IdsFrame, MapFrame, NodesFrame, KeysFrame
<1>9. FlagsFollow'
  <2>1. ASSUME NEW by \in Flag, NEW i, Raises(by, i)
        PROVE  Raises(by, i)'
    BY <1>2, <1>6, <2>1 DEF Raises, Flag
  <2>2. m.id \in reg'[n] => Raises(n, m.id)'
    BY <1>1, JoinAssumption DEF Raises
  <2>3. \A q \in net' : q.type = "flag" => Raises(q.by, q.id)'
    <3>1. \A q \in net : q.type = "flag" => q.by \in Flag /\ Raises(q.by, q.id)
      BY Messages DEF FlagsFollow
    <3>2. QED
      BY <1>4, <1>5, <2>1, <2>2, <3>1
  <2>4. \A i \in Id : \A by \in flagVec[i] : Raises(by, i)'
    BY <2>1 DEF FlagsFollow, TypeOK
  <2>5. QED
    BY <1>2, <1>6, <2>3, <2>4 DEF FlagsFollow
<1>10. QED
  BY <1>7, <1>8, <1>9

LEMMA ProxyFlagStep ==
    ASSUME IInv, NEW m \in net, ProxyFlag(m)
    PROVE  IInv'
<1> USE DEF IInv
<1> DEFINE i   == m.id
           vec == flagVec[i] \cup {m.by}
<1>1. m.type = "flag" /\ m.by \in Flag /\ i \in Id /\ Raises(m.by, i)
  BY Messages DEF ProxyFlag, FlagsFollow
<1>2. /\ net' = net \ {m}
      /\ flagVec' = [flagVec EXCEPT ![i] = vec]
      /\ \/ Cardinality(vec) = Cardinality(Node) + 1 /\ revokeStarted' = revokeStarted \cup {i}
         \/ revokeStarted' = revokeStarted
      /\ UNCHANGED <<joinNum, userMap, finishVec, threeVec, fourVec, userId, gsk, nodeUsers,
                     reg, collected, tag, held, alpha, beta, answered, oneMsgs, twoMsgs, finals>>
  BY DEF ProxyFlag, AllFlags, userVars, nodeVars, mtaVars
<1>3. vec \in SUBSET Flag
  BY <1>1 DEF TypeOK
<1>4. Cardinality(vec) = Cardinality(Node) + 1 => vec = Flag
  <2>1. IsFiniteSet(Flag) /\ Cardinality(Flag) = Cardinality(Node) + 1
    BY JoinAssumption, FS_AddElement DEF Flag
  <2>2. QED
    BY <1>3, <2>1, FS_Subset
<1> HIDE DEF i, vec
<1>5. flagVec'[i] = vec /\ \A j \in Id : j # i => flagVec'[j] = flagVec[j]
  BY <1>1, <1>2 DEF TypeOK
<1>6. TypeOK'
  <2>1. M!TypeOK'
    BY <1>2 DEF TypeOK, M!TypeOK
  <2>2. QED
    BY <1>1, <1>2, <1>3, <2>1 DEF TypeOK
<1>7. IdsSuffice' /\ IdsHandedOnce' /\ MapFollowsIds' /\ NodesFollowMap' /\ KeysFollowShares'
  BY <1>2, IdsFrame, MapFrame, NodesFrame, KeysFrame
<1>8. FlagsFollow'
  <2>1. \A by, j : Raises(by, j) => Raises(by, j)'
    BY <1>2 DEF Raises
  <2>2. \A j \in Id : \A by \in flagVec'[j] : Raises(by, j)'
    <3>1. \A by \in vec : Raises(by, i)
      BY <1>1 DEF FlagsFollow, vec, i
    <3>2. QED
      BY <1>5, <2>1, <3>1 DEF FlagsFollow
  <2>3. \A j \in revokeStarted' : flagVec'[j] = Flag
    <3>1. i \in revokeStarted => vec = Flag
      BY <1>3 DEF FlagsFollow, vec
    <3>2. QED
      BY <1>2, <1>4, <1>5, <3>1 DEF FlagsFollow, TypeOK
  <2>4. \A q \in net' : q.type = "flag" => Raises(q.by, q.id)'
    BY <1>2, <2>1 DEF FlagsFollow
  <2>5. QED
    BY <1>2, <2>2, <2>3, <2>4 DEF FlagsFollow
<1>9. QED
  BY <1>6, <1>7, <1>8

LEMMA StutterStep == ASSUME IInv, UNCHANGED vars PROVE IInv'
<1> USE DEF IInv, vars, proxyVars, userVars, nodeVars, mtaVars
<1>1. TypeOK'
  BY DEF TypeOK, M!TypeOK
<1>2. IdsSuffice' /\ IdsHandedOnce' /\ MapFollowsIds' /\ NodesFollowMap'
  BY IdsFrame, MapFrame, NodesFrame
<1>3. KeysFollowShares' /\ FlagsFollow'
  BY KeysFrame, FlagsFrame
<1>4. QED
  BY <1>1, <1>2, <1>3

\* Every step keeps the invariant, and no step replaces a user in the map,
\* as long as the exchange is sound.
LEMMA NextIInv ==
    ASSUME IInv, Sound, [Next]_vars, M!TypeOK'
    PROVE  /\ IInv'
           /\ \A i \in Id : userMap[i] # NoUser => userMap'[i] = userMap[i]
<1>1. CASE \E u \in User : ProxyPhaseOne(u)
  BY <1>1, ProxyPhaseOneStep
<1>2. CASE \E m \in net : ProxyPhaseTwo(m)
  BY <1>2, ProxyPhaseTwoStep, NoLeafStep
<1>3. ASSUME NEW m \in net,
             \/ UserPhaseTwo(m) \/ NodePhaseTwo(m) \/ UserPhaseThree(m)
             \/ NodeContribute(m) \/ ProxyPhaseFour(m) \/ ProxyPhaseFive(m)
             \/ NodePhaseSix(m) \/ ProxyFlag(m)
      PROVE  IInv' /\ userMap' = userMap
  <2>1. IInv'
    BY <1>3, UserPhaseTwoStep, NodePhaseTwoStep, UserPhaseThreeStep, NodeContributeStep,
       ProxyPhaseFourStep, ProxyPhaseFiveStep, NodePhaseSixStep, ProxyFlagStep
  <2>2. userMap' = userMap
    BY <1>3 DEF UserPhaseTwo, NodePhaseTwo, UserPhaseThree, NodeContribute,
                ProxyPhaseFour, ProxyPhaseFive, NodePhaseSix, ProxyFlag, proxyVars
  <2>3. QED
    BY <2>1, <2>2
<1>4. CASE \E f \in finals : ProxyPhaseThree(f)
  <2>1. IInv'
    BY <1>4, ProxyPhaseThreeStep
  <2>2. userMap' = userMap
    BY <1>4 DEF ProxyPhaseThree
  <2>3. QED
    BY <2>1, <2>2
<1>5. CASE NodeExchange
  <2>1. IInv'
    BY <1>5, NodeExchangeStep
  <2>2. userMap' = userMap
    BY <1>5 DEF NodeExchange, proxyVars
  <2>3. QED
    BY <2>1, <2>2
<1>6. CASE UNCHANGED vars
  BY <1>6, StutterStep DEF vars, proxyVars
<1>7. QED
  BY <1>1, <1>2, <1>3, <1>4, <1>5, <1>6 DEF Next

-----------------------------------------------------------------------------
\* The exchange of module MtA, one session per id.

LEMMA PartyHolds ==
    MP!IsFiniteSet(Participant) /\ MP!Cardinality(Participant) >= 2
<1>1. \A S : IsFiniteSet(S) => MP!IsFiniteSet(S)
  BY DEF IsFiniteSet, MP!IsFiniteSet
<1>2. \A S : Cardinality(S) = MP!Cardinality(S)
  BY DEF Cardinality, MP!Cardinality
<1>3. QED
  BY <1>1, <1>2, CountsNatural, JoinAssumption

LEMMA ExchangeInit == ASSUME Init PROVE MP!IInv
<1>1. MP!Init
  BY DEF Init, M!Init, MP!Init, M!AllNone, MP!AllNone
<1>2. QED
  BY <1>1, PartyHolds, MP!InitIInv

LEMMA BeginIsBegin ==
    ASSUME NEW p \in Participant, NEW i \in Id, M!Begin(p, i)
    PROVE  MP!Begin(p, i)
BY DEF M!Begin, MP!Begin, M!Ready, MP!Ready, M!FreshShare, MP!FreshShare,
       M!Openings, MP!Openings, M!Others, MP!Others, M!Answers, MP!Answers

LEMMA HandlersAreHandlers ==
    ASSUME NodeExchange PROVE MP!Next
<1>1. ASSUME NEW m \in oneMsgs, M!HoldOne(m) \/ M!AnswerOne(m)
      PROVE  MP!HoldOne(m) \/ MP!AnswerOne(m)
  BY <1>1 DEF M!HoldOne, MP!HoldOne, M!AnswerOne, MP!AnswerOne, M!Ready, MP!Ready,
              M!Answers, MP!Answers, M!shares, MP!shares
<1>2. ASSUME NEW m \in twoMsgs, M!RecvTwo(m)
      PROVE  MP!RecvTwo(m)
  <2>1. \A S : M!Cardinality(S) = MP!Cardinality(S)
    BY DEF M!Cardinality, MP!Cardinality
  <2>2. QED
    BY <1>2, <2>1 DEF M!RecvTwo, MP!RecvTwo, M!HasAnswers, MP!HasAnswers,
                      M!FinalMsg, MP!FinalMsg
<1>3. QED
  BY <1>1, <1>2 DEF NodeExchange, MP!Next

LEMMA ExchangeNext ==
    ASSUME TypeOK, MP!IInv, [Next]_vars
    PROVE  MP!IInv'
<1>1. [MP!Next]_(MP!vars)
  <2>1. CASE \E m \in net : NodePhaseTwo(m)
    <3>1. PICK m \in net : NodePhaseTwo(m)
      BY <2>1
    <3>2. m.node \in Node /\ m.id \in Id
      BY <3>1, Messages DEF NodePhaseTwo, NodeMsgType
    <3>3. QED
      BY <3>1, <3>2, BeginIsBegin DEF NodePhaseTwo, MP!Next, MP!vars, mtaVars
  <2>2. CASE NodeExchange
    BY <2>2, HandlersAreHandlers
  <2>3. CASE UNCHANGED mtaVars
    BY <2>3 DEF mtaVars, MP!vars
  <2>4. QED
    BY <2>1, <2>2, <2>3
    DEF Next, vars, ProxyPhaseOne, UserPhaseTwo, ProxyPhaseTwo, UserPhaseThree,
        NodeContribute, ProxyPhaseFour, ProxyPhaseFive, NodePhaseSix, ProxyFlag,
        ProxyPhaseThree
<1>2. QED
  BY <1>1, PartyHolds, MP!NextIInv

LEMMA ExchangeSound ==
    ASSUME MP!IInv
    PROVE  Sound /\ M!TypeOK /\ (InOrder => \A f \in finals : M!Complete(f))
<1>1. M!TypeOK
  BY DEF MP!IInv, MP!TypeOK, M!TypeOK, MP!PartySets, M!PartySets, MP!Msg, M!Msg,
         MP!Final, M!Final
<1>2. M!OneFinalEach
  BY DEF MP!IInv, MP!OneFinalEach, M!OneFinalEach
<1>3. ASSUME NEW f \in finals PROVE M!Ready(f.from, f.sess)
  <2>1. f.from \in Participant /\ f.sess \in Id
    BY <1>1 DEF M!TypeOK, M!Final
  <2>2. PICK p \in Participant : p # f.from
    <3>1. Participant # {f.from}
      <4>1. Cardinality({f.from}) = 1
        BY FS_Singleton
      <4>2. Cardinality(Participant) >= 2
        BY JoinAssumption
      <4>3. Cardinality(Participant) # 1
        BY <4>2
      <4>4. QED
        BY <4>1, <4>3
    <3>2. QED
      BY <2>1, <3>1
  <2>3. alpha[f.from][f.sess] # {}
    BY <2>2 DEF MP!IInv, MP!AnswersCounted, MP!Others
  <2>4. QED
    BY <2>1, <2>3 DEF MP!IInv, MP!AnswersFindParams, M!Ready
<1>4. InOrder => \A f \in finals : M!Complete(f)
  BY <1>1 DEF MP!IInv, MP!SharesComplete, MP!Complete, MP!Others, M!Complete, M!Others,
              M!TypeOK, M!Final
<1>5. QED
  BY <1>1, <1>2, <1>3, <1>4 DEF Sound

-----------------------------------------------------------------------------

\* The invariant holds in every behaviour, and with it what the exchange
\* guarantees of its sessions.
THEOREM Inductive == Spec => [](IInv /\ MP!IInv)
<1>1. Init => IInv /\ MP!IInv
  BY InitIInv, ExchangeInit, ExchangeSound
<1>2. IInv /\ MP!IInv /\ [Next]_vars => IInv' /\ MP!IInv'
  <2> SUFFICES ASSUME IInv, MP!IInv, [Next]_vars
               PROVE  IInv' /\ MP!IInv'
    OBVIOUS
  <2>1. Sound
    BY ExchangeSound
  <2>2. TypeOK
    BY DEF IInv
  <2>3. MP!IInv'
    BY <2>2, ExchangeNext
  <2>4. M!TypeOK'
    BY <2>3 DEF MP!IInv, MP!TypeOK, M!TypeOK, MP!PartySets, M!PartySets, MP!Msg, M!Msg,
         MP!Final, M!Final
  <2>5. QED
    BY <2>1, <2>3, <2>4, NextIInv
<1>3. QED
  BY <1>1, <1>2, PTL DEF Spec

\* TypeOK: proxy, users, nodes and the network keep their shape through every
\* handler of a join.
THEOREM TypeCorrect == Spec => []TypeOK
<1>1. IInv => TypeOK
  BY DEF IInv
<1>2. QED
  BY <1>1, Inductive, PTL

\* IdsIdentify: no two users share an id, and the proxy's entry for an id is
\* the user that goes by it, however start flags, ids and registrations cross.
LEMMA IInvIdentifies == ASSUME IInv PROVE IdsIdentify
<1> USE DEF IInv
<1>1. ASSUME NEW u \in User, NEW v \in User, userId[u] # 0, userId[u] = userId[v]
      PROVE  u = v
  <2>1. userId[u] \in Id
    BY <1>1 DEF TypeOK
  <2>2. Handed(u, userId[u]) /\ Handed(v, userId[u])
    BY <1>1 DEF Handed
  <2>3. QED
    BY <2>1, <2>2 DEF IdsHandedOnce
<1>2. QED
  BY <1>1 DEF IdsIdentify, MapFollowsIds

\* IdsIdentify: the counter the proxy reads when a start flag comes gives no id
\* to two users, whatever order the flags come in.
THEOREM Identifies == Spec => []IdsIdentify
BY IInvIdentifies, Inductive, PTL

\* RegisteredEverywhere: the revocation round of an id starts only when every
\* node has its registration and its user holds a key, although the proxy
\* only counts flags.
LEMMA IInvRegistered == ASSUME IInv PROVE RegisteredEverywhere
<1> USE DEF IInv
<1> SUFFICES ASSUME NEW i \in revokeStarted
             PROVE  /\ i \in WithLeaf
                    /\ \A n \in Node : i \in reg[n] /\ i \in nodeUsers[n]
                    /\ \E u \in User : userId[u] = i /\ userMap[i] = u /\ gsk[u] # {}
  BY DEF RegisteredEverywhere
<1>1. \A by \in Flag : Raises(by, i)
  BY DEF FlagsFollow, TypeOK
<1>2. QED
  BY <1>1, JoinAssumption DEF Raises, Flag, FlagsFollow, MapFollowsIds, TypeOK

\* RegisteredEverywhere: counting n + 1 flags of any kind starts no revocation
\* round before every node has the registration and the user its key.
THEOREM Registered == Spec => []RegisteredEverywhere
BY IInvRegistered, Inductive, PTL

\* KeyWellFormed: where messages between two processes come in order, a key
\* is made of one share of every participant, each for the id of the user
\* that holds the key, each with all its terms.
LEMMA IInvWellFormed == ASSUME IInv, MP!IInv, InOrder PROVE KeyWellFormed
<1>1. \A f \in finals : M!Complete(f)
  BY ExchangeSound
<1>2. QED
  BY <1>1 DEF IInv, KeysFollowShares, KeyOf, KeyWellFormed, M!Complete, M!Others

\* KeyWellFormed: the shares a user adds up are those of all participants for
\* its own id, and complete, though the proxy counts them unseen.
THEOREM WellFormed == ASSUME InOrder PROVE Spec => []KeyWellFormed
BY IInvWellFormed, Inductive, PTL

\* UserMapStable: no user already in the proxy's map is ever dropped or
\* replaced, not by the first start flag either.
THEOREM MapStable == Spec => UserMapStable
<1>1. IInv /\ IInv' /\ MP!IInv /\ MP!IInv' /\ [Next]_vars
        => [\A i \in Id : userMap[i] # NoUser => userMap'[i] = userMap[i]]_vars
  <2> SUFFICES ASSUME IInv, IInv', MP!IInv, [Next]_vars
               PROVE  \A i \in Id : userMap[i] # NoUser => userMap'[i] = userMap[i]
    OBVIOUS
  <2>1. Sound
    BY ExchangeSound
  <2>2. M!TypeOK'
    BY DEF IInv, TypeOK
  <2>3. QED
    BY <2>1, <2>2, NextIInv
<1>2. QED
  BY <1>1, Inductive, PTL DEF Spec, UserMapStable

=============================================================================
