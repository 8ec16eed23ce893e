-------------------------- MODULE RevocationProofs --------------------------
(***************************************************************************)
(* Proofs about Revocation, for every set of nodes, of participants and of *)
(* users, every tree and every clock: IInv is inductive, a signature is    *)
(* verified only when every node has the expiry information it was made    *)
(* with, only a signature that every node found invalid is opened, and its *)
(* user's personal information is on the chain then.                       *)
(***************************************************************************)
EXTENDS Revocation, FiniteSetTheorems, TLAPS

-----------------------------------------------------------------------------

LEMMA Counts ==
    /\ Cardinality(Node) \in Nat
    /\ IsFiniteSet(Participant) /\ Cardinality(Participant) \in Nat
    /\ IsFiniteSet(Flag) /\ Cardinality(Flag) = Cardinality(Node) + 1
<1>1. IsFiniteSet(Participant)
  BY RevocationAssumption, FS_Subset
<1>2. IsFiniteSet(Flag) /\ Cardinality(Flag) = Cardinality(Node) + 1
  BY RevocationAssumption, FS_AddElement DEF Flag
<1>3. QED
  BY <1>1, <1>2, RevocationAssumption, FS_CardinalityType

\* The proxy asks for a leaf of the tree or for its root.
LEMMA CurrentIsCurrent ==
    ASSUME NEW t \in Nat
    PROVE  CurrentLeaf(t) \in Current /\ Current \subseteq LeafOrRoot
<1>1. CurrentLeaf(t) \in Current
  BY DEF CurrentLeaf, Current
<1>2. FirstLeaf \in Int /\ Size \in Int
  BY LevelAssumption DEF FirstLeaf, Size
<1>3. LeafNodes \subseteq Leaf
  BY <1>2 DEF LeafNodes, Leaf
<1>4. QED
  BY <1>1, <1>3 DEF Current, LeafOrRoot

\* There is no user 0, so expiry information is never the absent one.
LEMMA InfoIsSome == NoInfo \notin Info
<1>1. 0 \notin User
  <2>1. FirstLeaf \in Int
    BY LevelAssumption DEF FirstLeaf
  <2>2. QED
    BY <2>1, RevocationAssumption
<1>2. QED
  BY <1>1 DEF Info, NoInfo

\* What is in flight, by its type.
LEMMA Messages ==
    ASSUME TypeOK, NEW m \in net
    PROVE  /\ m.user \in User
           /\ m.type = "begin" => m.node \in Node
           /\ m.type = "ei" => /\ m.node \in Flag /\ m.ei \in Info
                               /\ m = [type |-> "ei", node |-> m.node, user |-> m.user, ei |-> m.ei]
           /\ m.type = "flag" => /\ m.by \in Flag
                                 /\ m = [type |-> "flag", by |-> m.by, user |-> m.user]
           /\ m.type \in {"verify", "openTwo"} =>
                 m.node \in Node /\ m = [type |-> m.type, node |-> m.node, user |-> m.user]
           /\ m.type = "openOne" => m.node \in Node /\ m.sigma \in Signature
           /\ m.type \in {"openKey", "reveal"} => m.node \in Node
<1>1. \/ m \in [type : {"begin"}, node : Node, user : User, leaf : LeafOrRoot]
      \/ m \in [type : {"ei"}, node : Flag, user : User, ei : Info]
      \/ m \in [type : {"flag"}, by : Flag, user : User]
      \/ m \in [type : {"verify", "openTwo"}, node : Node, user : User]
      \/ m \in [type : {"openOne"}, node : Node, user : User, sigma : Signature]
      \/ m \in [type : {"openKey", "reveal"}, node : Node, user : User, key : {"own", "random"}]
  BY DEF TypeOK, Message
<1>2. QED
  BY <1>1

-----------------------------------------------------------------------------
\* What a step leaves as it is, if it adds no message of the kinds concerned.

LEMMA RoundsFrame ==
    ASSUME IInv, UNCHANGED <<revokeInfo, drawn, issued, collected, finalVec>>,
           \A m \in net' : m.type = "begin" => m \in net
    PROVE  RoundsBegin'
BY DEF IInv, RoundsBegin, Current

LEMMA InfoFrame ==
    ASSUME IInv, UNCHANGED <<userEi, nodeEi>>, collected \subseteq collected',
           \A m \in net' : m.type = "ei" => m \in net
    PROVE  OneInfoEach'
<1>1. \A u, ei : Given(u, ei)' => Given(u, ei)
  BY DEF Given
<1>2. \A u : AllCollected(u) => AllCollected(u)'
  BY DEF AllCollected
<1>3. QED
  BY <1>1, <1>2 DEF IInv, OneInfoEach, Current

LEMMA FlagsFrame ==
    ASSUME IInv, UNCHANGED <<userEi, nodeEi, chain, info, flagVec, verdict>>,
           \A m \in net' : m.type \in {"flag", "verify"} => m \in net
    PROVE  FlagsFollow'
BY DEF IInv, FlagsFollow, Raises

LEMMA VerdictsFrame ==
    ASSUME IInv, UNCHANGED <<userEi, nodeEi, chain, verdict>>
    PROVE  VerdictsFollow'
BY DEF IInv, VerdictsFollow, ValidAt

LEMMA OpeningFrame ==
    ASSUME IInv, UNCHANGED <<chain, verdict, openOneVec, report>>,
           \A m \in net' : m.type \in {"openOne", "openKey", "openTwo", "reveal"} => m \in net
    PROVE  OpeningFollows'
BY DEF IInv, OpeningFollows, OpenOne, AllInvalid

-----------------------------------------------------------------------------

LEMMA InitIInv == Init => IInv
<1> SUFFICES ASSUME Init PROVE IInv
  OBVIOUS
<1> USE DEF Init, P!Init
<1>1. TypeOK
  <2>1. chain \in [User -> Signature \cup {NoSignature}]
    BY DEF OldSignature, NoSignature, Signature
  <2>2. time \in 0 .. MaxTime
    BY RevocationAssumption
  <2>3. QED
    BY <2>1, <2>2 DEF TypeOK
<1>2. RoundsBegin
  BY DEF RoundsBegin
<1>3. OneInfoEach
  BY InfoIsSome DEF OneInfoEach, Given
<1>4. FlagsFollow
  BY DEF FlagsFollow
<1>5. VerdictsFollow
  BY DEF VerdictsFollow
<1>6. OpeningFollows
  BY DEF OpeningFollows
<1>7. QED
  BY <1>1, <1>2, <1>3, <1>4, <1>5, <1>6 DEF IInv

LEMMA ProxyRevokeOneStep ==
    ASSUME IInv, NEW u \in User, ProxyRevokeOne(u)
    PROVE  IInv'
<1> USE DEF IInv
<1> DEFINE leaf  == CurrentLeaf(time)
           begin == [type : {"begin"}, node : Participant, user : {u}, leaf : {leaf}]
<1>1. leaf \in Current /\ leaf \in LeafOrRoot
  <2>1. time \in Nat
    <3>1. MaxTime \in Nat
      BY RevocationAssumption
    <3>2. time \in 0 .. MaxTime
      BY DEF TypeOK
    <3>3. QED
      BY <3>1, <3>2
  <2>2. QED
    BY <2>1, CurrentIsCurrent
<1>2. /\ revokeInfo' = [by |-> u, leaf |-> leaf]
      /\ roundLeaf' = [roundLeaf EXCEPT ![u] = leaf]
      /\ net' = net \cup begin
      /\ UNCHANGED <<time, drawn, issued, collected, finalVec, flagVec, openOneVec, openTwoVec,
                     nodeEi, verdict, report, userEi, chain, info>>
  BY DEF ProxyRevokeOne, exchange, nodeVars, userVars
<1>3. \A q \in begin : q.type = "begin" /\ q.node \in Participant /\ q \in Message
  BY <1>1, RevocationAssumption DEF Message
<1>4. revokeInfo' \in Info /\ revokeInfo'.leaf \in Current
  BY <1>1, <1>2 DEF Info
<1> HIDE DEF leaf, begin
<1>5. TypeOK'
  BY <1>1, <1>2, <1>3, <1>4 DEF TypeOK
<1>6. RoundsBegin'
  <2>1. revokeInfo' # NoInfo
    BY <1>4, InfoIsSome
  <2>2. revokeInfo'.leaf \in Current'
    BY <1>4 DEF Current
  <2>3. QED
    BY <1>2, <1>3, <2>1, <2>2 DEF RoundsBegin
<1>7. OneInfoEach' /\ FlagsFollow' /\ VerdictsFollow' /\ OpeningFollows'
  BY <1>2, <1>3, InfoFrame, FlagsFrame, VerdictsFrame, OpeningFrame
<1>8. QED
  BY <1>5, <1>6, <1>7

LEMMA NodeRevokeOneStep ==
    ASSUME IInv, NEW m \in net, NodeRevokeOne(m)
    PROVE  IInv'
<1> USE DEF IInv
<1>1. /\ m.type = "begin" /\ m.user \in User
      /\ net' = net \ {m}
      /\ drawn' = [drawn EXCEPT ![m.user] = @ \cup {m.node}]
      /\ UNCHANGED <<time, issued, revokeInfo, roundLeaf, collected, finalVec, flagVec,
                     openOneVec, openTwoVec, nodeEi, verdict, report, userEi, chain, info>>
  BY Messages DEF NodeRevokeOne, P!Draw, proxyVars, nodeVars, userVars
<1>2. m.node \in Participant
  BY DEF RoundsBegin, NodeRevokeOne
<1>3. TypeOK'
  BY <1>1, <1>2 DEF TypeOK
<1>4. RoundsBegin'
  <2>1. revokeInfo # NoInfo
    BY <1>1 DEF RoundsBegin
  <2>2. QED
    BY <1>1, <2>1 DEF RoundsBegin, Current
<1>5. OneInfoEach' /\ FlagsFollow' /\ VerdictsFollow' /\ OpeningFollows'
  BY <1>1, InfoFrame, FlagsFrame, VerdictsFrame, OpeningFrame
<1>6. QED
  BY <1>3, <1>4, <1>5

LEMMA NodeExchangeStep ==
    ASSUME IInv, NodeExchange
    PROVE  IInv'
<1> USE DEF IInv
<1>1. PICK p \in Participant, u \in User : P!Issue(p, u)
  BY DEF NodeExchange
<1> DEFINE share == [from |-> p, sess |-> u, alpha |-> Participant \ {p},
                     beta |-> Participant \ {p}]
<1>2. /\ drawn[u] = Participant
      /\ \A f \in issued : f.from # p \/ f.sess # u
      /\ issued' = issued \cup {share}
      /\ UNCHANGED <<time, drawn, revokeInfo, roundLeaf, collected, finalVec, flagVec,
                     openOneVec, openTwoVec, nodeEi, verdict, report, userEi, chain, info, net>>
  BY <1>1 DEF NodeExchange, P!Issue, proxyVars, nodeVars, userVars
<1>3. share.from = p /\ share.sess = u
  OBVIOUS
<1> HIDE DEF share
<1>4. TypeOK'
  BY <1>2 DEF TypeOK
<1>5. RoundsBegin'
  <2>1. revokeInfo # NoInfo
    BY <1>2, RevocationAssumption DEF RoundsBegin
  <2>2. QED
    BY <1>2, <1>3, <2>1 DEF RoundsBegin, Current
<1>6. OneInfoEach' /\ FlagsFollow' /\ VerdictsFollow' /\ OpeningFollows'
  BY <1>2, InfoFrame, FlagsFrame, VerdictsFrame, OpeningFrame
<1>7. QED
  BY <1>4, <1>5, <1>6

-----------------------------------------------------------------------------

\* As many shares of a round as there are participants are one of each.
LEMMA OneOfEach ==
    ASSUME RoundsBegin, NEW u \in User, NEW vec \in SUBSET issued,
           \A f \in vec : f.sess = u,
           Cardinality(vec) = Cardinality(Participant)
    PROVE  \A p \in Participant : \E f \in vec : f.from = p
<1> DEFINE from == [f \in vec |-> f.from]
<1>1. from \in [vec -> Participant]
  BY DEF RoundsBegin
<1>2. \A f, g \in vec : from[f] = from[g] => f = g
  BY DEF RoundsBegin
<1>3. from \in Injection(vec, Participant)
  BY <1>1, <1>2 DEF Injection, IsInjective
<1>4. IsFiniteSet(vec)
  BY <1>3, Counts, FS_Injection
<1>5. from \in Surjection(vec, Participant)
  BY <1>3, <1>4, Counts, FS_Injection
<1>6. QED
  BY <1>1, <1>5 DEF Surjection

LEMMA ProxyRevokeTwoStep ==
    ASSUME IInv, NEW f \in issued, ProxyRevokeTwo(f)
    PROVE  IInv'
<1> USE DEF IInv
<1> DEFINE u    == f.sess
           vec  == finalVec[u] \cup {f}
           done == FromParticipants(vec) /\ SharesFor(u)
           eis  == [type : {"ei"}, node : Flag, user : {u}, ei : {revokeInfo}]
<1>1. /\ f \notin collected /\ u \in User /\ f.from \in Participant
      /\ revokeInfo # NoInfo /\ revokeInfo \in Info /\ revokeInfo.leaf \in Current
  BY DEF ProxyRevokeTwo, RoundsBegin, TypeOK
<1>2. /\ collected' = collected \cup {f}
      /\ finalVec' = [finalVec EXCEPT ![u] = IF done THEN {} ELSE vec]
      /\ net' = IF done THEN net \cup eis ELSE net
      /\ UNCHANGED <<time, drawn, issued, revokeInfo, roundLeaf, flagVec, openOneVec, openTwoVec,
                     nodeEi, verdict, report, userEi, chain, info>>
  BY DEF ProxyRevokeTwo, exchange, nodeVars, userVars
<1>3. vec \in SUBSET issued /\ vec \subseteq collected' /\ \A g \in vec : g.sess = u
  BY <1>1, <1>2 DEF RoundsBegin, TypeOK
<1>4. \A q \in eis : /\ q.type = "ei" /\ q.user = u /\ q.ei = revokeInfo /\ q.node \in Flag
                     /\ q \in Message
  BY <1>1 DEF Message
<1>5. ~ AllCollected(u)
  <2>1. SUFFICES ASSUME NEW g \in collected, g.from = f.from, g.sess = u PROVE FALSE
    BY <1>1 DEF AllCollected
  <2>2. g \in issued
    BY DEF TypeOK
  <2>3. g = f
    BY <2>1, <2>2 DEF RoundsBegin
  <2>4. QED
    BY <1>1, <2>3
<1>6. ASSUME done PROVE AllCollected(u)'
  <2>1. \A p \in Participant : \E g \in vec : g.from = p
    BY <1>1, <1>3, <1>6, OneOfEach DEF FromParticipants
  <2>2. QED
    BY <1>3, <2>1 DEF AllCollected
<1> HIDE DEF u, vec, done, eis
<1>7. TypeOK'
  <2>1. finalVec' \in [User -> SUBSET issued]
    BY <1>2, <1>3 DEF TypeOK
  <2>2. QED
    BY <1>2, <1>4, <2>1 DEF TypeOK
<1>8. RoundsBegin'
  <2>1. \A m \in net' : m.type = "begin" => m \in net
    BY <1>2, <1>4
  <2>2. \A v \in User : \A g \in finalVec'[v] : g \in collected' /\ g.sess = v
    <3>1. SUFFICES ASSUME NEW v \in User, NEW g \in finalVec'[v]
                   PROVE  g \in collected' /\ g.sess = v
      OBVIOUS
    <3>2. CASE v = u
      BY <1>1, <1>2, <1>3, <3>1, <3>2 DEF TypeOK
    <3>3. CASE v # u
      BY <1>2, <3>1, <3>3 DEF TypeOK, RoundsBegin
    <3>4. QED
      BY <3>2, <3>3
  <2>3. QED
    BY <1>2, <2>1, <2>2 DEF RoundsBegin, Current
<1>9. OneInfoEach'
  <2>1. \A v : AllCollected(v) => AllCollected(v)'
    BY <1>2 DEF AllCollected
  <2>2. CASE ~ done
    BY <1>2, <2>2, InfoFrame
  <2>3. CASE done
    <3>1. \A v \in User, ei \in Info : v # u /\ Given(v, ei)' => Given(v, ei)
      BY <1>2, <1>4, <2>3 DEF Given
    <3>2. \A ei \in Info : ~ Given(u, ei)
      BY <1>1, <1>5 DEF OneInfoEach
    <3>3. \A ei \in Info : Given(u, ei)' => ei = revokeInfo
      BY <1>2, <1>4, <2>3, <3>2 DEF Given
    <3>4. \A v \in User, ei \in Info : Given(v, ei)' =>
              AllCollected(v)' /\ ei.leaf \in Current
      BY <1>1, <1>6, <2>1, <2>3, <3>1, <3>3 DEF OneInfoEach
    <3>5. \A v \in User, ei, old \in Info : Given(v, ei)' /\ Given(v, old)' => ei = old
      BY <3>1, <3>3 DEF OneInfoEach
    <3>6. userEi[u] = NoInfo /\ \A n \in Node : nodeEi[n][u] = NoInfo
      <4>1. userEi[u] \in Info \cup {NoInfo} /\ \A n \in Node : nodeEi[n][u] \in Info \cup {NoInfo}
        BY <1>1 DEF TypeOK
      <4>2. QED
        BY <3>2, <4>1 DEF Given
    <3>7. \A m \in net' : m.type = "ei" =>
              IF m.node = "user" THEN userEi[m.user] = NoInfo
                                 ELSE nodeEi[m.node][m.user] = NoInfo
      BY <1>2, <1>4, <2>3, <3>6 DEF OneInfoEach, Flag
    <3>8. QED
      BY <1>2, <3>4, <3>5, <3>7 DEF OneInfoEach, Current
  <2>4. QED
    BY <2>2, <2>3
<1>10. FlagsFollow' /\ VerdictsFollow' /\ OpeningFollows'
  BY <1>2, <1>4, FlagsFrame, VerdictsFrame, OpeningFrame
<1>11. QED
  BY <1>7, <1>8, <1>9, <1>10

-----------------------------------------------------------------------------

\* As long as the flag of by is missing no node has verified a signature, and
\* nothing has been contributed to opening it.
LEMMA NotVerified ==
    ASSUME IInv, NEW u \in User, NEW by \in Flag, by \notin flagVec[u]
    PROVE  /\ \A n \in Node : verdict[n][u] = "none"
           /\ \A m \in net : m.type = "verify" => m.user # u
           /\ \A m \in net : m.type = "openOne" => m.user # u
           /\ openOneVec[u] = {}
<1> USE DEF IInv
<1>1. flagVec[u] # Flag
  OBVIOUS
<1>2. \A n \in Node : verdict[n][u] = "none"
  BY <1>1 DEF FlagsFollow
<1>3. \A m \in net : m.type = "verify" => m.user # u
  BY <1>1 DEF FlagsFollow
<1>4. \A m \in net : m.type = "openOne" => m.user # u
  BY <1>2, Messages DEF OpeningFollows
<1>5. openOneVec[u] = {}
  BY <1>2 DEF OpeningFollows
<1>6. QED
  BY <1>2, <1>3, <1>4, <1>5

\* There is one message with ei_info to somebody about a user.
LEMMA OneMessageEach ==
    ASSUME IInv, NEW m \in net, NEW q \in net, m.type = "ei", q.type = "ei",
           q.user = m.user, q.node = m.node
    PROVE  q = m
<1>1. /\ m.user \in User /\ m.ei \in Info /\ q.ei \in Info
      /\ m = [type |-> "ei", node |-> m.node, user |-> m.user, ei |-> m.ei]
      /\ q = [type |-> "ei", node |-> q.node, user |-> q.user, ei |-> q.ei]
  BY Messages DEF IInv
<1>2. Given(m.user, m.ei) /\ Given(m.user, q.ei)
  BY DEF Given
<1>3. q.ei = m.ei
  BY <1>1, <1>2 DEF IInv, OneInfoEach
<1>4. QED
  BY <1>1, <1>3

LEMMA NodeRevokeTwoStep ==
    ASSUME IInv, NEW m \in net, NodeRevokeTwo(m)
    PROVE  IInv'
<1> USE DEF IInv
<1> DEFINE n == m.node
           u == m.user
           flag == NodeFlag(n, u)
<1>1. m.type = "ei" /\ n \in Node /\ u \in User /\ m.ei \in Info /\ n # "user"
  BY Messages, RevocationAssumption DEF NodeRevokeTwo
<1>2. /\ nodeEi' = [nodeEi EXCEPT ![n][u] = m.ei]
      /\ net' = (net \ {m}) \cup {flag}
      /\ UNCHANGED <<time, drawn, issued, revokeInfo, roundLeaf, collected, finalVec, flagVec,
                     openOneVec, openTwoVec, verdict, report, userEi, chain, info>>
  BY DEF NodeRevokeTwo, exchange, proxyVars, userVars
<1>3. /\ flag.type = "flag" /\ flag.by = n /\ flag.user = u
      /\ flag \in Message
  BY <1>1 DEF NodeFlag, Message, Flag
<1>4. nodeEi[n][u] = NoInfo
  BY <1>1 DEF OneInfoEach
<1>5. nodeEi'[n][u] = m.ei
  BY <1>1, <1>2 DEF TypeOK
<1>6. \A k \in Node, v \in User : k # n \/ v # u => nodeEi'[k][v] = nodeEi[k][v]
  BY <1>1, <1>2 DEF TypeOK
<1>7. n \in Flag /\ n \notin flagVec[u]
  BY <1>1, <1>4 DEF FlagsFollow, Raises, Flag
<1>8. \A k \in Node : verdict[k][u] = "none"
  BY <1>1, <1>7, NotVerified
<1> HIDE DEF n, u, flag
<1>9. TypeOK'
  <2>1. nodeEi' \in [Node -> [User -> Info \cup {NoInfo}]]
    BY <1>1, <1>2 DEF TypeOK
  <2>2. net' \subseteq Message
    BY <1>2, <1>3 DEF TypeOK
  <2>3. QED
    BY <1>2, <2>1, <2>2 DEF TypeOK
<1>10. RoundsBegin' /\ OpeningFollows'
  BY <1>2, <1>3, RoundsFrame, OpeningFrame
<1>11. OneInfoEach'
  <2>1. \A v \in User, ei \in Info : Given(v, ei)' => Given(v, ei)
    <3>1. Given(u, m.ei)
      BY <1>1 DEF Given, u
    <3>2. QED
      BY <1>2, <1>3, <1>5, <1>6, <3>1 DEF Given
  <2>2. \A v : AllCollected(v)' <=> AllCollected(v)
    BY <1>2 DEF AllCollected
  <2>3. \A q \in net' : q.type = "ei" =>
            IF q.node = "user" THEN userEi[q.user] = NoInfo ELSE nodeEi'[q.node][q.user] = NoInfo
    <3>1. SUFFICES ASSUME NEW q \in net, q # m, q.type = "ei"
                   PROVE  IF q.node = "user" THEN userEi[q.user] = NoInfo
                                             ELSE nodeEi'[q.node][q.user] = NoInfo
      BY <1>2, <1>3
    <3>2. q.node \in Flag /\ q.user \in User
      BY <3>1, Messages
    <3>3. q.node # n \/ q.user # u
      BY <1>1, <3>1, OneMessageEach DEF n, u
    <3>4. QED
      BY <1>6, <3>1, <3>2, <3>3 DEF OneInfoEach, Flag
  <2>4. QED
    BY <1>2, <2>1, <2>2, <2>3 DEF OneInfoEach, Current
<1>12. FlagsFollow'
  <2>1. \A by \in Flag, v \in User : Raises(by, v) => Raises(by, v)'
    BY <1>2, <1>4, <1>6 DEF Raises, Flag
  <2>2. Raises(n, u)'
    BY <1>1, <1>5, InfoIsSome DEF Raises
  <2>3. \A q \in net' : q.type = "flag" => Raises(q.by, q.user)' /\ q.by \notin flagVec[q.user]
    <3>1. \A q \in net : q.type = "flag" => q.by \in Flag /\ q.user \in User
      BY Messages
    <3>2. QED
      BY <1>2, <1>3, <1>7, <2>1, <2>2, <3>1 DEF FlagsFollow
  <2>4. \A v \in User : \A by \in flagVec[v] : Raises(by, v)'
    BY <2>1 DEF FlagsFollow, TypeOK
  <2>5. \A q \in net' : q.type = "verify" => q \in net
    BY <1>2, <1>3
  <2>6. QED
    BY <1>2, <2>3, <2>4, <2>5 DEF FlagsFollow
<1>13. VerdictsFollow'
  <2>1. \A k \in Node, v \in User : v # u => nodeEi'[k][v] = nodeEi[k][v]
    BY <1>6
  <2>2. QED
    BY <1>2, <1>8, <2>1 DEF VerdictsFollow, ValidAt
<1>14. QED
  BY <1>9, <1>10, <1>11, <1>12, <1>13

LEMMA UserSignStep ==
    ASSUME IInv, NEW m \in net, UserSign(m)
    PROVE  IInv'
<1> USE DEF IInv
<1> DEFINE u     == m.user
           flag  == UserFlag(u)
           sigma == Sign(u, m.ei)
<1>1. m.type = "ei" /\ m.node = "user" /\ u \in User /\ m.ei \in Info
  BY Messages DEF UserSign
<1>2. /\ userEi' = [userEi EXCEPT ![u] = m.ei]
      /\ UNCHANGED <<time, drawn, issued, revokeInfo, roundLeaf, collected, finalVec, flagVec,
                     openOneVec, openTwoVec, nodeEi, verdict, report>>
  BY DEF UserSign, exchange, proxyVars, nodeVars
<1>3. /\ chain' \in {chain, Registered(u, sigma)}
      /\ info' \in {info, info \cup {u}}
      /\ \/ net' = net \ {m}
         \/ /\ net' = (net \ {m}) \cup {flag}
            /\ Cstbk(m.ei.leaf) # {}
            /\ chain' = Registered(u, sigma)
            /\ info' = info \cup {u}
  BY DEF UserSign, FailedCall
<1>4. flag.type = "flag" /\ flag.by = "user" /\ flag.user = u /\ flag \in Message
  BY <1>1 DEF UserFlag, Message, Flag
<1>5. sigma \in Signature /\ sigma # NoSignature
  BY <1>1 DEF Sign, SigningKey, Signature, NoSignature
<1>6. userEi[u] = NoInfo
  BY <1>1 DEF OneInfoEach
<1>7. userEi'[u] = m.ei /\ \A v \in User : v # u => userEi'[v] = userEi[v]
  BY <1>1, <1>2 DEF TypeOK
<1>8. chain[u] \in {NoSignature, OldSignature}
  BY <1>1, <1>6 DEF VerdictsFollow
<1>9. /\ chain' \in [User -> Signature \cup {NoSignature}]
      /\ \A v \in User : v # u => chain'[v] = chain[v]
      /\ chain'[u] \in {NoSignature, OldSignature, sigma}
      /\ chain' = Registered(u, sigma) => chain'[u] # NoSignature
  <2>1. chain \in [User -> Signature \cup {NoSignature}]
    BY DEF TypeOK
  <2>2. CASE chain' = chain
    <3>1. chain' = Registered(u, sigma) => chain'[u] # NoSignature
      BY <1>1, <1>5, <2>1, <2>2 DEF Registered
    <3>2. QED
      BY <1>8, <2>1, <2>2, <3>1
  <2>3. CASE chain' = Registered(u, sigma)
    BY <1>1, <1>5, <1>8, <2>1, <2>3 DEF Registered
  <2>4. QED
    BY <1>3, <2>2, <2>3
<1>10. "user" \in Flag /\ "user" \notin flagVec[u]
  BY <1>1, <1>6 DEF FlagsFollow, Raises, Flag
<1>11. /\ \A k \in Node : verdict[k][u] = "none"
       /\ \A q \in net : q.type = "openOne" => q.user # u
       /\ openOneVec[u] = {}
  BY <1>1, <1>10, NotVerified
<1>12. \A q \in net' : q \in net \ {m} \/ q = flag
  BY <1>3
<1> HIDE DEF u, flag, sigma
<1>13. TypeOK'
  <2>1. net' \subseteq Message
    BY <1>4, <1>12 DEF TypeOK
  <2>2. userEi' \in [User -> Info \cup {NoInfo}]
    BY <1>1, <1>2 DEF TypeOK
  <2>3. info' \subseteq User
    BY <1>1, <1>3 DEF TypeOK
  <2>4. QED
    BY <1>2, <1>9, <2>1, <2>2, <2>3 DEF TypeOK
<1>14. RoundsBegin'
  BY <1>2, <1>4, <1>12, RoundsFrame
<1>15. OneInfoEach'
  <2>1. \A v \in User, ei \in Info : Given(v, ei)' => Given(v, ei)
    <3>1. Given(u, m.ei)
      BY <1>1 DEF Given, u
    <3>2. QED
      BY <1>2, <1>4, <1>7, <1>12, <3>1 DEF Given
  <2>2. \A v : AllCollected(v)' <=> AllCollected(v)
    BY <1>2 DEF AllCollected
  <2>3. \A q \in net' : q.type = "ei" =>
            IF q.node = "user" THEN userEi'[q.user] = NoInfo ELSE nodeEi[q.node][q.user] = NoInfo
    <3>1. SUFFICES ASSUME NEW q \in net, q # m, q.type = "ei"
                   PROVE  IF q.node = "user" THEN userEi'[q.user] = NoInfo
                                             ELSE nodeEi[q.node][q.user] = NoInfo
      BY <1>4, <1>12
    <3>2. q.node \in Flag /\ q.user \in User
      BY <3>1, Messages
    <3>3. q.node # "user" \/ q.user # u
      BY <1>1, <3>1, OneMessageEach DEF u
    <3>4. QED
      BY <1>7, <3>1, <3>2, <3>3 DEF OneInfoEach
  <2>4. QED
    BY <1>2, <2>1, <2>2, <2>3 DEF OneInfoEach, Current
<1>16. FlagsFollow'
  <2>1. \A by \in Flag, v \in User : Raises(by, v) => Raises(by, v)'
    BY <1>2, <1>3, <1>6, <1>7, <1>9 DEF Raises
  <2>2. flag \in net' /\ flag \notin net => Raises("user", u)'
    <3>1. SUFFICES ASSUME flag \in net', flag \notin net PROVE Raises("user", u)'
      OBVIOUS
    <3>2. Cstbk(m.ei.leaf) # {} /\ chain' = Registered(u, sigma) /\ info' = info \cup {u}
      BY <1>3, <3>1
    <3>3. (Cstbk(userEi[u].leaf))' = Cstbk(m.ei.leaf)
      BY <1>7 DEF Cstbk, Path, Size
    <3>4. QED
      BY <1>1, <1>7, <1>9, <3>2, <3>3, InfoIsSome DEF Raises
  <2>3. \A q \in net' : q.type = "flag" => Raises(q.by, q.user)' /\ q.by \notin flagVec[q.user]
    <3>1. \A q \in net : q.type = "flag" => q.by \in Flag /\ q.user \in User
      BY Messages
    <3>2. QED
      BY <1>4, <1>10, <1>12, <2>1, <2>2, <3>1 DEF FlagsFollow
  <2>4. \A v \in User : \A by \in flagVec[v] : Raises(by, v)'
    BY <2>1 DEF FlagsFollow, TypeOK
  <2>5. \A q \in net' : q.type = "verify" => q \in net
    BY <1>4, <1>12
  <2>6. QED
    BY <1>2, <2>3, <2>4, <2>5 DEF FlagsFollow
<1>17. VerdictsFollow'
  <2>1. \A v \in User : (chain[v] # NoSignature /\ chain[v] # OldSignature =>
                             userEi[v] # NoInfo /\ chain[v] = Sign(v, userEi[v]))'
    <3>1. SUFFICES ASSUME NEW v \in User, chain'[v] # NoSignature, chain'[v] # OldSignature
                   PROVE  userEi'[v] # NoInfo /\ chain'[v] = Sign(v, userEi'[v])
      BY DEF Sign, SigningKey, Common, ChooseLeaf, FirstLeaf, Path, Cstbk, Size
    <3>2. CASE v = u
      BY <1>1, <1>7, <1>9, <3>1, <3>2, InfoIsSome DEF sigma
    <3>3. CASE v # u
      BY <1>7, <1>9, <3>1, <3>3 DEF VerdictsFollow
    <3>4. QED
      BY <3>2, <3>3
  <2>2. \A k \in Node, v \in User : verdict[k][v] # "none" => chain'[v] = chain[v]
    BY <1>9, <1>11
  <2>3. QED
    BY <1>2, <2>1, <2>2 DEF VerdictsFollow, ValidAt
<1>18. OpeningFollows'
  <2>1. \A q \in net' : q.type = "openOne" =>
            (q = OpenOne(q.node, q.user) /\ verdict[q.node][q.user] = "invalid")'
    <3>1. SUFFICES ASSUME NEW q \in net, q.type = "openOne"
                   PROVE  (q = OpenOne(q.node, q.user) /\ verdict[q.node][q.user] = "invalid")'
      BY <1>4, <1>12
    <3>2. q.user \in User /\ q.user # u
      BY <1>11, <3>1, Messages
    <3>3. QED
      BY <1>2, <1>9, <3>1, <3>2 DEF OpeningFollows, OpenOne
  <2>2. \A v \in User : \A q \in openOneVec[v] :
            (q.node \in Node /\ q = OpenOne(q.node, v) /\ verdict[q.node][v] = "invalid")'
    BY <1>2, <1>9, <1>11 DEF OpeningFollows, OpenOne
  <2>3. \A q \in net' : q.type \in {"openKey", "openTwo", "reveal"} => q \in net
    BY <1>4, <1>12
  <2>4. QED
    BY <1>2, <2>1, <2>2, <2>3 DEF OpeningFollows, AllInvalid
<1>19. QED
  BY <1>13, <1>14, <1>15, <1>16, <1>17, <1>18

LEMMA ProxyFlagStep ==
    ASSUME IInv, NEW m \in net, ProxyFlag(m)
    PROVE  IInv'
<1> USE DEF IInv
<1> DEFINE u   == m.user
           vec == flagVec[u] \cup {m.by}
<1>1. m.type = "flag" /\ m.by \in Flag /\ u \in User /\ Raises(m.by, u) /\ m.by \notin flagVec[u]
  BY Messages DEF ProxyFlag, FlagsFollow
<1>2. /\ flagVec' = [flagVec EXCEPT ![u] = vec]
      /\ \/ net' = net \ {m}
         \/ AllFlags(vec) /\ net' = (net \ {m}) \cup VerifyOrders(u)
      /\ UNCHANGED <<time, drawn, issued, revokeInfo, roundLeaf, collected, finalVec,
                     openOneVec, openTwoVec, nodeEi, verdict, report, userEi, chain, info>>
  BY DEF ProxyFlag, exchange, nodeVars, userVars
<1>3. vec \in SUBSET Flag
  BY <1>1 DEF TypeOK
<1>4. AllFlags(vec) => vec = Flag
  BY <1>3, Counts, FS_Subset DEF AllFlags
<1>5. flagVec'[u] = vec /\ \A v \in User : v # u => flagVec'[v] = flagVec[v]
  BY <1>1, <1>2 DEF TypeOK
<1>6. /\ \A n \in Node : verdict[n][u] = "none"
      /\ \A q \in net : q.type = "verify" => q.user # u
  BY <1>1, NotVerified
<1>7. \A q \in VerifyOrders(u) : q.type = "verify" /\ q.user = u /\ q.node \in Node /\ q \in Message
  BY <1>1 DEF VerifyOrders, Message
<1>8. \A q \in net' : q \in net \ {m} \/ (q \in VerifyOrders(u) /\ vec = Flag)
  BY <1>2, <1>4
<1>9. \A q \in net : q.type = "flag" /\ q.by = m.by /\ q.user = u => q = m
  BY <1>1, Messages
<1> DEFINE orders == VerifyOrders(u)
<1> HIDE DEF orders, vec
<1>10. TypeOK'
  BY <1>2, <1>3, <1>7, <1>8 DEF TypeOK
<1>11. RoundsBegin' /\ OneInfoEach' /\ VerdictsFollow' /\ OpeningFollows'
  BY <1>2, <1>7, <1>8, RoundsFrame, InfoFrame, VerdictsFrame, OpeningFrame
<1>12. FlagsFollow'
  <2>1. \A by, v : Raises(by, v) => Raises(by, v)'
    BY <1>2 DEF Raises, Cstbk, Path, Size
  <2>2. \A q \in net' : q.type = "flag" => Raises(q.by, q.user)' /\ q.by \notin flagVec'[q.user]
    <3>1. SUFFICES ASSUME NEW q \in net \ {m}, q.type = "flag"
                   PROVE  Raises(q.by, q.user)' /\ q.by \notin flagVec'[q.user]
      BY <1>7, <1>8
    <3>2. q.user \in User /\ (q.user = u => q.by # m.by)
      BY <1>9, <3>1, Messages
    <3>3. QED
      BY <1>5, <2>1, <3>1, <3>2 DEF FlagsFollow, vec
  <2>3. \A v \in User : \A by \in flagVec'[v] : Raises(by, v)'
    BY <1>1, <1>5, <2>1 DEF FlagsFollow, vec
  <2>4. \A q \in net' : q.type = "verify" =>
            flagVec'[q.user] = Flag /\ verdict[q.node][q.user] = "none"
    <3>1. SUFFICES ASSUME NEW q \in net', q.type = "verify"
                   PROVE  flagVec'[q.user] = Flag /\ verdict[q.node][q.user] = "none"
      OBVIOUS
    <3>2. CASE q \in net
      <4>1. q.user \in User /\ q.user # u
        BY <1>6, <3>1, <3>2, Messages
      <4>2. QED
        BY <1>5, <3>1, <3>2, <4>1 DEF FlagsFollow
    <3>3. CASE q \notin net
      BY <1>5, <1>6, <1>7, <1>8, <3>1, <3>3
    <3>4. QED
      BY <3>2, <3>3
  <2>5. \A n \in Node, v \in User : verdict[n][v] # "none" => flagVec'[v] = Flag
    BY <1>5, <1>6 DEF FlagsFollow
  <2>6. QED
    BY <1>2, <2>2, <2>3, <2>4, <2>5 DEF FlagsFollow, Flag
<1>13. QED
  BY <1>10, <1>11, <1>12

LEMMA NodeVerifyStep ==
    ASSUME IInv, NEW m \in net, NodeVerify(m)
    PROVE  IInv'
<1> USE DEF IInv
<1> DEFINE n    == m.node
           u    == m.user
           open == OpenOne(n, u)
<1>1. /\ m.type = "verify" /\ n \in Node /\ u \in User
      /\ m = [type |-> "verify", node |-> n, user |-> u]
  BY Messages DEF NodeVerify
<1>2. flagVec[u] = Flag /\ verdict[n][u] = "none"
  BY <1>1 DEF FlagsFollow
<1>3. /\ UNCHANGED <<time, drawn, issued, revokeInfo, roundLeaf, collected, finalVec, flagVec,
                     openOneVec, openTwoVec, nodeEi, report, userEi, chain, info>>
      /\ \A q \in net' : q \in net \ {m} \/ q = open
  BY DEF NodeVerify, exchange, proxyVars, userVars
<1>4. PICK result \in {"valid", "invalid", "failed"} :
          /\ verdict' = [verdict EXCEPT ![n][u] = result]
          /\ result \in {"valid", "invalid"} =>
                (result = "valid" <=> ValidAt(chain[u], nodeEi[n][u]))
          /\ open \in net' => open \in net \ {m} \/ result = "invalid"
  BY DEF NodeVerify
<1>5. /\ verdict'[n][u] = result
      /\ \A k \in Node, v \in User : k # n \/ v # u => verdict'[k][v] = verdict[k][v]
  BY <1>1, <1>4 DEF TypeOK
<1>6. open.type = "openOne" /\ open.node = n /\ open.user = u
  BY DEF OpenOne
<1>7. open \in Message
  <2>1. chain[u] # NoSignature
    BY <1>1, <1>2 DEF FlagsFollow, Raises, Flag
  <2>2. chain[u] \in Signature
    BY <1>1, <2>1 DEF TypeOK
  <2>3. QED
    BY <1>1, <2>2 DEF OpenOne, Message
<1>8. \A v \in User : AllInvalid(v) => v # u
  BY <1>1, <1>2 DEF AllInvalid
<1>9. \A v \in User : AllInvalid(v) => AllInvalid(v)'
  BY <1>5, <1>8 DEF AllInvalid
<1> HIDE DEF n, u, open
<1>10. TypeOK'
  <2>1. verdict' \in [Node -> [User -> {"none", "valid", "invalid", "failed"}]]
    BY <1>1, <1>4 DEF TypeOK
  <2>2. net' \subseteq Message
    BY <1>3, <1>7 DEF TypeOK
  <2>3. QED
    BY <1>3, <2>1, <2>2 DEF TypeOK
<1>11. RoundsBegin' /\ OneInfoEach'
  BY <1>3, <1>6, RoundsFrame, InfoFrame
<1>12. FlagsFollow'
  <2>1. \A by, v : Raises(by, v) => Raises(by, v)'
    BY <1>3 DEF Raises, Cstbk, Path, Size
  <2>2. \A q \in net' : q.type \in {"flag", "verify"} => q \in net \ {m}
    BY <1>3, <1>6
  <2>3. \A q \in net' : q.type = "verify" => verdict'[q.node][q.user] = "none"
    <3>1. SUFFICES ASSUME NEW q \in net \ {m}, q.type = "verify"
                   PROVE  verdict'[q.node][q.user] = "none"
      BY <2>2
    <3>2. /\ q.node \in Node /\ q.user \in User
          /\ q = [type |-> "verify", node |-> q.node, user |-> q.user]
      BY <3>1, Messages
    <3>3. q.node # n \/ q.user # u
      BY <1>1, <3>1, <3>2
    <3>4. QED
      BY <1>5, <3>1, <3>2, <3>3 DEF FlagsFollow
  <2>4. \A k \in Node, v \in User : verdict'[k][v] # "none" => flagVec[v] = Flag
    BY <1>2, <1>5 DEF FlagsFollow
  <2>5. QED
    BY <1>3, <2>1, <2>2, <2>3, <2>4 DEF FlagsFollow, Flag
<1>13. VerdictsFollow'
  <2>1. \A v \in User : (chain[v] # NoSignature /\ chain[v] # OldSignature =>
                             userEi[v] # NoInfo /\ chain[v] = Sign(v, userEi[v]))'
    BY <1>3 DEF VerdictsFollow
  <2>2. \A k \in Node, v \in User : verdict'[k][v] \in {"valid", "invalid"} =>
            (verdict'[k][v] = "valid" <=> ValidAt(chain[v], nodeEi[k][v]))
    BY <1>4, <1>5 DEF VerdictsFollow, n, u
  <2>3. QED
    BY <1>3, <2>1, <2>2 DEF VerdictsFollow
<1>14. OpeningFollows'
  <2>1. \A q \in net' : q.type = "openOne" =>
            q = OpenOne(q.node, q.user) /\ verdict'[q.node][q.user] = "invalid"
    <3>1. SUFFICES ASSUME NEW q \in net', q.type = "openOne"
                   PROVE  q = OpenOne(q.node, q.user) /\ verdict'[q.node][q.user] = "invalid"
      OBVIOUS
    <3>2. CASE q \in net
      <4>1. q.node \in Node /\ q.user \in User /\ verdict[q.node][q.user] = "invalid"
        BY <3>1, <3>2, Messages DEF OpeningFollows
      <4>2. q.node # n \/ q.user # u
        BY <1>2, <4>1
      <4>3. QED
        BY <1>5, <3>1, <3>2, <4>1, <4>2 DEF OpeningFollows
    <3>3. CASE q \notin net
      BY <1>3, <1>4, <1>5, <1>6, <3>1, <3>3 DEF open
    <3>4. QED
      BY <3>2, <3>3
  <2>2. \A v \in User : \A q \in openOneVec[v] :
            q.node \in Node /\ q = OpenOne(q.node, v) /\ verdict'[q.node][v] = "invalid"
    <3>1. SUFFICES ASSUME NEW v \in User, NEW q \in openOneVec[v]
                   PROVE  q.node \in Node /\ q = OpenOne(q.node, v)
                             /\ verdict'[q.node][v] = "invalid"
      OBVIOUS
    <3>2. q.node \in Node /\ q = OpenOne(q.node, v) /\ verdict[q.node][v] = "invalid"
      BY DEF OpeningFollows
    <3>3. q.node # n \/ v # u
      BY <1>2, <3>2
    <3>4. QED
      BY <1>5, <3>2, <3>3
  <2>3. \A q \in net' : q.type \in {"openKey", "openTwo", "reveal"} => AllInvalid(q.user)'
    <3>1. SUFFICES ASSUME NEW q \in net, q.type \in {"openKey", "openTwo", "reveal"}
                   PROVE  AllInvalid(q.user)'
      BY <1>3, <1>6
    <3>2. QED
      BY <1>9, <3>1, Messages DEF OpeningFollows
  <2>4. \A k \in Node, v \in User : report[k][v] # "none" => AllInvalid(v)'
    BY <1>9 DEF OpeningFollows
  <2>5. QED
    BY <1>3, <2>1, <2>2, <2>3, <2>4 DEF OpeningFollows, OpenOne
<1>15. QED
  BY <1>10, <1>11, <1>12, <1>13, <1>14

-----------------------------------------------------------------------------

\* The contributions collected for a user, if there are as many as nodes, are
\* one of each, so every node found the signature invalid.
LEMMA AllContributed ==
    ASSUME NEW u \in User, NEW vec,
           \A m \in vec : /\ m.node \in Node /\ m = OpenOne(m.node, u)
                          /\ verdict[m.node][u] = "invalid",
           Cardinality(vec) = Cardinality(Node)
    PROVE  AllInvalid(u)
<1> DEFINE from == [m \in vec |-> m.node]
<1>1. from \in [vec -> Node]
  OBVIOUS
<1>2. \A m, q \in vec : from[m] = from[q] => m = q
  OBVIOUS
<1>3. from \in Injection(vec, Node)
  BY <1>1, <1>2 DEF Injection, IsInjective
<1>4. IsFiniteSet(vec)
  BY <1>3, RevocationAssumption, FS_Injection
<1>5. from \in Surjection(vec, Node)
  BY <1>3, <1>4, RevocationAssumption, FS_Injection
<1>6. \A n \in Node : \E m \in vec : m.node = n
  BY <1>1, <1>5 DEF Surjection
<1>7. QED
  BY <1>6 DEF AllInvalid

LEMMA ProxyOpenOneStep ==
    ASSUME IInv, NEW m \in net, ProxyOpenOne(m)
    PROVE  IInv'
<1> USE DEF IInv
<1> DEFINE u   == m.user
           vec == openOneVec[u] \cup {m}
           Keys(key) == [type : {"openKey"}, node : Node, user : {u}, key : {key}]
<1>1. /\ m.type = "openOne" /\ u \in User /\ m.node \in Node /\ m \in Message
      /\ m = OpenOne(m.node, u) /\ verdict[m.node][u] = "invalid"
  BY Messages DEF ProxyOpenOne, OpeningFollows, TypeOK
<1>2. /\ openOneVec' = [openOneVec EXCEPT ![u] = vec]
      /\ UNCHANGED <<time, drawn, issued, revokeInfo, roundLeaf, collected, finalVec, flagVec,
                     openTwoVec, nodeEi, verdict, report, userEi, chain, info>>
      /\ \/ net' = net \ {m}
         \/ FromAll(vec) /\ \E first \in vec : net' = (net \ {m}) \cup Keys(first.sigma.key)
  BY DEF ProxyOpenOne, exchange, nodeVars, userVars
<1>3. vec \in SUBSET Message
  BY <1>1 DEF TypeOK
<1>4. \A q \in vec : q.node \in Node /\ q = OpenOne(q.node, u) /\ verdict[q.node][u] = "invalid"
  BY <1>1 DEF OpeningFollows
<1>5. \A q \in vec : q.sigma.key \in {"own", "random"}
  <2>1. SUFFICES ASSUME NEW q \in vec PROVE q.sigma.key \in {"own", "random"}
    OBVIOUS
  <2>2. q.sigma = chain[u] /\ q.node \in Node /\ verdict[q.node][u] = "invalid"
    BY <1>4 DEF OpenOne
  <2>3. chain[u] # NoSignature
    BY <1>1, <2>2 DEF FlagsFollow, Raises, Flag
  <2>4. chain[u] \in Signature
    BY <1>1, <2>3 DEF TypeOK
  <2>5. QED
    BY <2>2, <2>4 DEF Signature
<1>6. FromAll(vec) => AllInvalid(u)
  BY <1>1, <1>4, AllContributed DEF FromAll
<1>7. \A q \in net' : \/ q \in net \ {m}
                      \/ q.type = "openKey" /\ q.user = u /\ q \in Message /\ AllInvalid(u)
  <2>1. \A key \in {"own", "random"} : \A q \in Keys(key) :
            q.type = "openKey" /\ q.user = u /\ q \in Message
    BY <1>1 DEF Message
  <2> HIDE DEF Keys, vec, u
  <2>2. CASE net' = net \ {m}
    BY <2>2
  <2>3. CASE FromAll(vec) /\ \E first \in vec : net' = (net \ {m}) \cup Keys(first.sigma.key)
    BY <1>5, <1>6, <2>1, <2>3
  <2>4. QED
    BY <1>2, <2>2, <2>3
<1>8. openOneVec'[u] = vec /\ \A v \in User : v # u => openOneVec'[v] = openOneVec[v]
  BY <1>1, <1>2 DEF TypeOK
<1> HIDE DEF u, vec, Keys
<1>9. TypeOK'
  BY <1>2, <1>3, <1>7 DEF TypeOK
<1>10. RoundsBegin' /\ OneInfoEach' /\ FlagsFollow' /\ VerdictsFollow'
  BY <1>2, <1>7, RoundsFrame, InfoFrame, FlagsFrame, VerdictsFrame
<1>11. OpeningFollows'
  <2>1. \A q \in net' : q.type = "openOne" =>
            q = OpenOne(q.node, q.user) /\ verdict[q.node][q.user] = "invalid"
    BY <1>7 DEF OpeningFollows
  <2>2. \A v \in User : \A q \in openOneVec'[v] :
            q.node \in Node /\ q = OpenOne(q.node, v) /\ verdict[q.node][v] = "invalid"
    BY <1>4, <1>8 DEF OpeningFollows
  <2>3. \A q \in net' : q.type \in {"openKey", "openTwo", "reveal"} => AllInvalid(q.user)
    BY <1>7 DEF OpeningFollows
  <2>4. QED
    BY <1>2, <2>1, <2>2, <2>3 DEF OpeningFollows, OpenOne, AllInvalid
<1>12. QED
  BY <1>9, <1>10, <1>11

\* The rest of the opening passes on what the contributions stand for.
LEMMA OpeningPasses ==
    ASSUME IInv, NEW m \in net, m.type \in {"openKey", "openTwo", "reveal"},
           UNCHANGED <<chain, verdict, openOneVec>>,
           \A q \in net' : q \in net \/ (q.type \in {"openTwo", "reveal"} /\ q.user = m.user),
           \A n \in Node, u \in User : report'[n][u] # "none" => report[n][u] # "none" \/ u = m.user
    PROVE  OpeningFollows'
BY DEF IInv, OpeningFollows, OpenOne, AllInvalid

LEMMA NodeOpenTwoStep ==
    ASSUME IInv, NEW m \in net, NodeOpenTwo(m)
    PROVE  IInv'
<1> USE DEF IInv
<1> DEFINE answer == [type |-> "openTwo", node |-> m.node, user |-> m.user]
<1>1. /\ m.type = "openKey"
      /\ net' = (net \ {m}) \cup {answer}
      /\ UNCHANGED <<time, drawn, issued, revokeInfo, roundLeaf, collected, finalVec, flagVec,
                     openOneVec, openTwoVec, nodeEi, verdict, report, userEi, chain, info>>
  BY DEF NodeOpenTwo, exchange, proxyVars, nodeVars, userVars
<1>2. answer.type = "openTwo" /\ answer.user = m.user /\ answer \in Message
  BY <1>1, Messages DEF Message
<1> HIDE DEF answer
<1>3. TypeOK'
  BY <1>1, <1>2 DEF TypeOK
<1>4. RoundsBegin' /\ OneInfoEach' /\ FlagsFollow' /\ VerdictsFollow'
  BY <1>1, <1>2, RoundsFrame, InfoFrame, FlagsFrame, VerdictsFrame
<1>5. OpeningFollows'
  BY <1>1, <1>2, OpeningPasses
<1>6. QED
  BY <1>3, <1>4, <1>5

LEMMA ProxyOpenTwoStep ==
    ASSUME IInv, NEW m \in net, ProxyOpenTwo(m)
    PROVE  IInv'
<1> USE DEF IInv
<1> DEFINE vec == openTwoVec[m.user] \cup {m.node}
<1>1. m.type = "openTwo" /\ m.user \in User /\ m.node \in Node
  BY Messages DEF ProxyOpenTwo
<1>2. /\ openTwoVec' = [openTwoVec EXCEPT ![m.user] = vec]
      /\ UNCHANGED <<time, drawn, issued, revokeInfo, roundLeaf, collected, finalVec, flagVec,
                     openOneVec, nodeEi, verdict, report, userEi, chain, info>>
      /\ \/ net' = net \ {m}
         \/ \E first \in openOneVec[m.user] :
               net' = (net \ {m}) \cup Revealed(m.user, first.sigma.key)
  BY DEF ProxyOpenTwo, exchange, nodeVars, userVars
<1>3. \A q \in openOneVec[m.user] : q.sigma.key \in {"own", "random"}
  <2>1. SUFFICES ASSUME NEW q \in openOneVec[m.user] PROVE q.sigma.key \in {"own", "random"}
    OBVIOUS
  <2>2. q.sigma = chain[m.user] /\ q.node \in Node /\ verdict[q.node][m.user] = "invalid"
    BY <1>1 DEF OpenOne, OpeningFollows
  <2>3. chain[m.user] # NoSignature
    BY <1>1, <2>2 DEF FlagsFollow, Raises, Flag
  <2>4. chain[m.user] \in Signature
    BY <1>1, <2>3 DEF TypeOK
  <2>5. QED
    BY <2>2, <2>4 DEF Signature
<1>4. \A q \in net' : \/ q \in net \ {m}
                      \/ q.type = "reveal" /\ q.user = m.user /\ q \in Message
  <2>1. \A key \in {"own", "random"} : \A q \in Revealed(m.user, key) :
            q.type = "reveal" /\ q.user = m.user /\ q \in Message
    BY <1>1 DEF Revealed, Message
  <2>2. QED
    BY <1>2, <1>3, <2>1
<1>5. TypeOK'
  <2>1. openTwoVec' \in [User -> SUBSET Node]
    BY <1>1, <1>2 DEF TypeOK
  <2>2. QED
    BY <1>2, <1>4, <2>1 DEF TypeOK
<1>6. RoundsBegin' /\ OneInfoEach' /\ FlagsFollow' /\ VerdictsFollow'
  BY <1>2, <1>4, RoundsFrame, InfoFrame, FlagsFrame, VerdictsFrame
<1>7. OpeningFollows'
  BY <1>1, <1>2, <1>4, OpeningPasses
<1>8. QED
  BY <1>5, <1>6, <1>7

LEMMA NodeOpenThreeStep ==
    ASSUME IInv, NEW m \in net, NodeOpenThree(m)
    PROVE  IInv'
<1> USE DEF IInv
<1>1. m.type = "reveal" /\ m.user \in User /\ m.node \in Node
  BY Messages DEF NodeOpenThree
<1>2. /\ net' = net \ {m}
      /\ report' = [report EXCEPT ![m.node][m.user] =
                       IF m.key = "own" THEN "revoked key" ELSE "invalid key"]
      /\ UNCHANGED <<time, drawn, issued, revokeInfo, roundLeaf, collected, finalVec, flagVec,
                     openOneVec, openTwoVec, nodeEi, verdict, userEi, chain, info>>
  BY DEF NodeOpenThree, exchange, proxyVars, userVars
<1>3. TypeOK'
  BY <1>1, <1>2 DEF TypeOK
<1>4. RoundsBegin' /\ OneInfoEach' /\ FlagsFollow' /\ VerdictsFollow'
  BY <1>2, RoundsFrame, InfoFrame, FlagsFrame, VerdictsFrame
<1>5. OpeningFollows'
  <2>1. \A n \in Node, u \in User : report'[n][u] # "none" => report[n][u] # "none" \/ u = m.user
    BY <1>1, <1>2 DEF TypeOK
  <2>2. QED
    BY <1>1, <1>2, <2>1, OpeningPasses
<1>6. QED
  BY <1>3, <1>4, <1>5

LEMMA ClockStep ==
    ASSUME IInv, Tick \/ UNCHANGED vars
    PROVE  IInv'
<1> USE DEF IInv
<1> USE DEF exchange, proxyVars, nodeVars, userVars
<1>1. /\ UNCHANGED <<drawn, issued, revokeInfo, roundLeaf, collected, finalVec, flagVec,
                     openOneVec, openTwoVec, nodeEi, verdict, report, userEi, chain, info, net>>
      /\ time' = time \/ (time < MaxTime /\ time' = time + 1)
  <2>1. CASE Tick
    BY <2>1 DEF Tick
  <2>2. CASE UNCHANGED vars
    BY <2>2 DEF vars
  <2>3. QED
    BY <2>1, <2>2
<1>2. TypeOK'
  <2>1. time \in 0 .. MaxTime
    BY DEF TypeOK
  <2>2. MaxTime \in Nat
    BY RevocationAssumption
  <2>3. time' \in 0 .. MaxTime
    BY <1>1, <2>1, <2>2
  <2>4. QED
    BY <1>1, <2>3 DEF TypeOK
<1>3. RoundsBegin' /\ OneInfoEach' /\ FlagsFollow' /\ VerdictsFollow' /\ OpeningFollows'
  BY <1>1, RoundsFrame, InfoFrame, FlagsFrame, VerdictsFrame, OpeningFrame
<1>4. QED
  BY <1>2, <1>3

-----------------------------------------------------------------------------

\* Every step keeps the invariant.
LEMMA NextIInv ==
    ASSUME IInv, [Next]_vars
    PROVE  IInv'
<1>1. CASE \E u \in User : ProxyRevokeOne(u)
  BY <1>1, ProxyRevokeOneStep
<1>2. CASE NodeExchange
  BY <1>2, NodeExchangeStep
<1>3. CASE \E f \in issued : ProxyRevokeTwo(f)
  BY <1>3, ProxyRevokeTwoStep
<1>4. ASSUME NEW m \in net,
             \/ NodeRevokeOne(m) \/ NodeRevokeTwo(m) \/ UserSign(m)
             \/ ProxyFlag(m) \/ NodeVerify(m) \/ ProxyOpenOne(m)
             \/ NodeOpenTwo(m) \/ ProxyOpenTwo(m) \/ NodeOpenThree(m)
      PROVE  IInv'
  BY <1>4, NodeRevokeOneStep, NodeRevokeTwoStep, UserSignStep, ProxyFlagStep, NodeVerifyStep,
     ProxyOpenOneStep, NodeOpenTwoStep, ProxyOpenTwoStep, NodeOpenThreeStep
<1>5. CASE Tick \/ UNCHANGED vars
  BY <1>5, ClockStep
<1>6. QED
  BY <1>1, <1>2, <1>3, <1>4, <1>5 DEF Next, Handle

(***************************************************************************)
(* IInv: a round's messages, flags and verdicts stand for what its user,   *)
(* the proxy and the nodes have done, whatever rounds of other users and   *)
(* the clock do to the revoke_info they share.                             *)
(***************************************************************************)
THEOREM Inductive == Spec => []IInv
<1>1. Init => IInv
  BY InitIInv
<1>2. IInv /\ [Next]_vars => IInv'
  BY NextIInv
<1>3. QED
  BY <1>1, <1>2, PTL DEF Spec

(***************************************************************************)
(* TypeOK: proxy, nodes, users and the chain keep the shape of their state *)
(* through every handler, from a round's start to an opening.              *)
(***************************************************************************)
THEOREM TypeCorrect == Spec => []TypeOK
<1>1. IInv => TypeOK
  BY DEF IInv
<1>2. QED
  BY <1>1, Inductive, PTL

\* With all flags everybody has the ei_info, and it is the same.
LEMMA AllHaveInfo ==
    ASSUME IInv, NEW u \in User, flagVec[u] = Flag
    PROVE  /\ chain[u] # NoSignature /\ u \in info /\ Cstbk(userEi[u].leaf) # {}
           /\ userEi[u] \in Info /\ userEi[u].leaf \in Current
           /\ \A n \in Node : nodeEi[n][u] = userEi[u]
<1> USE DEF IInv
<1>1. Raises("user", u) /\ \A n \in Node : Raises(n, u)
  BY DEF FlagsFollow, Flag
<1>2. userEi[u] # NoInfo /\ Cstbk(userEi[u].leaf) # {} /\ chain[u] # NoSignature /\ u \in info
  BY <1>1 DEF Raises
<1>3. userEi[u] \in Info
  BY <1>2 DEF TypeOK
<1>4. Given(u, userEi[u]) /\ userEi[u].leaf \in Current
  BY <1>3 DEF Given, OneInfoEach
<1>5. ASSUME NEW n \in Node PROVE nodeEi[n][u] = userEi[u]
  <2>1. n # "user"
    BY RevocationAssumption
  <2>2. nodeEi[n][u] # NoInfo
    BY <1>1, <2>1 DEF Raises
  <2>3. nodeEi[n][u] \in Info /\ Given(u, nodeEi[n][u])
    <3>1. nodeEi \in [Node -> [User -> Info \cup {NoInfo}]]
      BY DEF TypeOK
    <3>2. nodeEi[n][u] \in Info \cup {NoInfo}
      BY <3>1
    <3>3. QED
      BY <2>2, <3>2 DEF Given
  <2>4. QED
    BY <1>3, <1>4, <2>3 DEF OneInfoEach
<1>6. QED
  BY <1>2, <1>3, <1>4, <1>5

LEMMA IInvReady == ASSUME IInv PROVE VerifyReady
<1>1. SUFFICES ASSUME NEW m \in net, m.type = "verify"
               PROVE  /\ chain[m.user] # NoSignature
                      /\ \A n \in Node : nodeEi[n][m.user] # NoInfo /\ nodeEi[n][m.user] = userEi[m.user]
  BY DEF VerifyReady
<1>2. m.user \in User /\ flagVec[m.user] = Flag
  BY <1>1, Messages DEF IInv, FlagsFollow
<1>3. QED
  BY <1>2, AllHaveInfo, InfoIsSome

(***************************************************************************)
(* VerifyReady: what verify_phase unwraps is there.                        *)
(* When a signature is to be verified every node has the ei_info the user  *)
(* signed under, and the chain has a signature.                            *)
(***************************************************************************)
THEOREM ReadyToVerify == Spec => []VerifyReady
<1>1. IInv => VerifyReady
  BY IInvReady
<1>2. QED
  BY <1>1, Inductive, PTL

(***************************************************************************)
(* OpenedByAll: the proxy counts the contributions to an opening, and only *)
(* a signature that every node found invalid is opened.                    *)
(***************************************************************************)
THEOREM AllOpen == Spec => []OpenedByAll
<1>1. IInv => OpenedByAll
  BY DEF IInv, OpeningFollows, OpenedByAll, AllInvalid
<1>2. QED
  BY <1>1, Inductive, PTL

LEMMA IInvIdentified == ASSUME IInv PROVE OpenedIdentified
<1>1. SUFFICES ASSUME NEW n \in Node, NEW u \in User, report[n][u] # "none"
               PROVE  u \in info
  BY DEF OpenedIdentified
<1>2. verdict[n][u] = "invalid"
  BY <1>1 DEF IInv, OpeningFollows, AllInvalid
<1>3. flagVec[u] = Flag
  BY <1>2 DEF IInv, FlagsFollow
<1>4. QED
  BY <1>3, AllHaveInfo

(***************************************************************************)
(* OpenedIdentified: the personal information of whoever is opened is on   *)
(* the chain, either registration having possibly failed.                  *)
(***************************************************************************)
THEOREM Identified == Spec => []OpenedIdentified
<1>1. IInv => OpenedIdentified
  BY IInvIdentified
<1>2. QED
  BY <1>1, Inductive, PTL

-----------------------------------------------------------------------------
\* Verdicts.  What is needed of the time tree is proved in KeyExpiryProofs.

T == INSTANCE KeyExpiryProofs WITH joined <- 0, time <- 0

LEMMA TreeMeets ==
    ASSUME NEW u \in User, NEW l \in Current, Cstbk(l) # {}
    PROVE  /\ l \in LeafNodes
           /\ Path(ChooseLeaf(u)) \cap Cstbk(l) # {} <=> ChooseLeaf(u) >= l
<1> DEFINE x == ChooseLeaf(u)
<1>1. /\ T!FirstLeaf = FirstLeaf /\ T!Size = Size /\ T!Leaf = Leaf /\ T!LeafNodes = LeafNodes
      /\ \A id : T!Path(id) = Path(id)
      /\ T!Root = Root
  BY DEF T!FirstLeaf, FirstLeaf, T!Size, Size, T!Leaf, Leaf, T!LeafNodes, LeafNodes,
         T!Path, Path, T!Root, Root
<1>2. \A id : T!Cstbk(id) = Cstbk(id)
  BY <1>1 DEF T!Cstbk, Cstbk
<1>3. FirstLeaf \in Nat /\ Size = 2 * FirstLeaf - 1 /\ LeafNodes \subseteq Leaf
  BY <1>1, LevelAssumption, PowersDouble, T!Indices
<1>4. l \in LeafNodes
  <2>1. Cstbk(Root) = {}
    BY <1>1, <1>2, LevelAssumption, PowersDouble, T!CoverOfRoot
  <2>2. QED
    BY <2>1 DEF Current
<1>5. x \in Leaf /\ x \in Nat /\ l \in Nat
  BY <1>3, <1>4, RevocationAssumption DEF ChooseLeaf, Leaf
<1>6. /\ x >= l => \E n : Path(x) \cap Cstbk(l) = {n}
      /\ x < l => Path(x) \cap Cstbk(l) = {}
  <2>1. x \in T!Leaf /\ l \in T!LeafNodes
    BY <1>1, <1>4, <1>5
  <2> HIDE DEF x
  <2>2. /\ x >= l => \E n : T!Path(x) \cap T!Cstbk(l) = {n}
        /\ x < l => T!Path(x) \cap T!Cstbk(l) = {}
    BY <2>1, LevelAssumption, PowersDouble, T!CoverMeets
  <2>3. QED
    BY <1>1, <1>2, <2>2
<1>7. QED
  BY <1>4, <1>5, <1>6

LEMMA IInvRight == ASSUME IInv PROVE VerdictIsRight
<1> USE DEF IInv
<1>1. SUFFICES ASSUME NEW n \in Node, NEW u \in User, verdict[n][u] \in {"valid", "invalid"}
               PROVE  /\ nodeEi[n][u].leaf \in LeafNodes
                      /\ verdict[n][u] = "valid" <=>
                            /\ u \notin Wrong /\ chain[u] # OldSignature
                            /\ ChooseLeaf(u) >= nodeEi[n][u].leaf
  BY DEF VerdictIsRight
<1> DEFINE ei == userEi[u]
<1>2. flagVec[u] = Flag
  BY <1>1 DEF FlagsFollow
<1>3. /\ chain[u] # NoSignature /\ ei \in Info /\ ei.leaf \in Current /\ Cstbk(ei.leaf) # {}
      /\ nodeEi[n][u] = ei
  BY <1>2, AllHaveInfo
<1>4. verdict[n][u] = "valid" <=> chain[u].key = "own" /\ chain[u].ei = ei
  BY <1>1, <1>3 DEF VerdictsFollow, ValidAt
<1> HIDE DEF ei
<1>5. ei.leaf \in LeafNodes
  BY <1>3, TreeMeets
<1>6. CASE chain[u] = OldSignature
  BY <1>3, <1>4, <1>5, <1>6 DEF OldSignature
<1>7. CASE chain[u] # OldSignature
  <2>1. chain[u] = Sign(u, ei)
    BY <1>3, <1>7 DEF VerdictsFollow, ei
  <2>2. verdict[n][u] = "valid" <=> SigningKey(u, ei) = "own"
    BY <1>4, <2>1 DEF Sign
  <2>3. Common(u, ei) # {} <=> ChooseLeaf(u) >= ei.leaf
    BY <1>3, TreeMeets DEF Common
  <2>4. QED
    BY <1>3, <1>5, <1>7, <2>2, <2>3 DEF SigningKey
<1>8. QED
  BY <1>6, <1>7

(***************************************************************************)
(* VerdictIsRight: what verify_phase finds.  A verdict is "valid" exactly  *)
(* for an honest user with a free name whose leaf is in the cover the      *)
(* ei_info was made for, and there is none when all leaves had expired,    *)
(* whatever the height of the tree.                                        *)
(***************************************************************************)
THEOREM RightVerdicts == Spec => []VerdictIsRight
<1>1. IInv => VerdictIsRight
  BY IInvRight
<1>2. QED
  BY <1>1, Inductive, PTL

LEMMA StepsKeepOutcomes ==
    ASSUME IInv, [Next]_vars, NEW n \in Node, NEW u \in User
    PROVE  /\ nodeEi[n][u] # NoInfo => nodeEi'[n][u] = nodeEi[n][u]
           /\ verdict[n][u] # "none" => verdict'[n][u] = verdict[n][u]
<1> USE DEF IInv
<1>1. ASSUME NEW m \in net, NodeRevokeTwo(m)
      PROVE  (nodeEi[n][u] # NoInfo => nodeEi'[n][u] = nodeEi[n][u]) /\ verdict' = verdict
  <2>1. m.user \in User /\ m.node \in Node /\ m.type = "ei" /\ m.node # "user"
    BY <1>1, Messages, RevocationAssumption DEF NodeRevokeTwo
  <2>2. nodeEi[m.node][m.user] = NoInfo
    BY <2>1 DEF OneInfoEach
  <2>3. n # m.node \/ u # m.user => nodeEi'[n][u] = nodeEi[n][u]
    BY <1>1, <2>1 DEF NodeRevokeTwo, TypeOK
  <2>4. verdict' = verdict
    BY <1>1 DEF NodeRevokeTwo
  <2>5. QED
    BY <2>2, <2>3, <2>4
<1>2. ASSUME NEW m \in net, NodeVerify(m)
      PROVE  nodeEi' = nodeEi /\ (verdict[n][u] # "none" => verdict'[n][u] = verdict[n][u])
  <2>1. m.user \in User /\ m.node \in Node /\ verdict[m.node][m.user] = "none"
    BY <1>2, Messages DEF NodeVerify, FlagsFollow
  <2>2. PICK result \in {"valid", "invalid", "failed"} :
            verdict' = [verdict EXCEPT ![m.node][m.user] = result]
    BY <1>2 DEF NodeVerify
  <2>3. n # m.node \/ u # m.user => verdict'[n][u] = verdict[n][u]
    BY <2>1, <2>2 DEF TypeOK
  <2>4. nodeEi' = nodeEi
    BY <1>2 DEF NodeVerify
  <2>5. QED
    BY <2>1, <2>3, <2>4
<1>3. ASSUME \/ \E v \in User : ProxyRevokeOne(v)
             \/ NodeExchange
             \/ \E f \in issued : ProxyRevokeTwo(f)
             \/ \E m \in net : \/ NodeRevokeOne(m) \/ UserSign(m) \/ ProxyFlag(m)
                               \/ ProxyOpenOne(m) \/ NodeOpenTwo(m) \/ ProxyOpenTwo(m)
                               \/ NodeOpenThree(m)
             \/ Tick \/ UNCHANGED vars
      PROVE  nodeEi' = nodeEi /\ verdict' = verdict
  BY <1>3 DEF ProxyRevokeOne, NodeExchange, ProxyRevokeTwo, NodeRevokeOne, UserSign, ProxyFlag,
              ProxyOpenOne, NodeOpenTwo, ProxyOpenTwo, NodeOpenThree, Tick, vars, nodeVars
<1>4. QED
  BY <1>1, <1>2, <1>3 DEF Next, Handle

(***************************************************************************)
(* OutcomesStay: the ei_info a node has of a user, and its verdict, which  *)
(* its handlers write without looking, are never replaced.                 *)
(***************************************************************************)
THEOREM OutcomesAreFinal == Spec => OutcomesStay
<1>1. IInv /\ [Next]_vars
        => [\A n \in Node, u \in User :
               /\ nodeEi[n][u] # NoInfo => nodeEi'[n][u] = nodeEi[n][u]
               /\ verdict[n][u] # "none" => verdict'[n][u] = verdict[n][u]]_vars
  BY StepsKeepOutcomes
<1>2. QED
  BY <1>1, Inductive, PTL DEF Spec, OutcomesStay

=============================================================================
