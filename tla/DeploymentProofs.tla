--------------------------- MODULE DeploymentProofs ---------------------------
(***************************************************************************)
(* Proofs about the deployment, for every set of nodes, of keys and of     *)
(* users started early: what is proved of joining and of key generation    *)
(* holds when they run together and early users break exchanges, and users *)
(* that wait for key generation find every share and participant, and are  *)
(* not left waiting: a quiet state is one where their joins have ended.    *)
(***************************************************************************)
EXTENDS Deployment, JoinIssueProofs

KP == INSTANCE KeyGenProofs WITH ParticipantCount <- Cardinality(Participant),
                                 oneMsgs <- commitMsgs, twoMsgs <- dealMsgs

DP == INSTANCE MtAProofs WITH Party <- Participant, Session <- Id,
                              Ordered <- IF InOrder THEN Id ELSE {},
                              oneMsgs <- oneMsgs \cup Lost

\* What ties joining to key generation, apart from the invariants of each.
Ties == /\ gpkSent \in [User -> K!GpkState] /\ broken \subseteq Node \X Id
        /\ participants = Participant
        /\ ToldOnce /\ BrokenStays /\ PromptAfterKeygen

-----------------------------------------------------------------------------
\* Key generation.

LEMMA KeygenAssumptions ==
    /\ KP!IsFiniteSet(Node)
    /\ KP!IsFiniteSet(Tag) /\ Tag # {} /\ ProvedTag \subseteq Tag
<1>1. \A S : IsFiniteSet(S) => KP!IsFiniteSet(S)
  BY DEF IsFiniteSet, KP!IsFiniteSet
<1>2. QED
  BY <1>1, JoinAssumption, DeploymentAssumption

LEMMA KeygenInit == ASSUME K!Init PROVE KP!IInv
<1>1. \A S : K!Cardinality(S) = KP!Cardinality(S)
  BY DEF K!Cardinality, KP!Cardinality
<1>2. KP!Init
  BY <1>1 DEF K!Init, KP!Init
<1>3. QED
  BY <1>2, KeygenAssumptions, KP!InitIInv

LEMMA KeygenNext == ASSUME KP!IInv, K!Next PROVE KP!IInv'
<1>1. \A S : K!Cardinality(S) = KP!Cardinality(S)
  BY DEF K!Cardinality, KP!Cardinality
<1>2. ASSUME NEW n \in Node, K!NodePhaseOne(n) PROVE KP!NodePhaseOne(n)
  BY <1>2 DEF K!NodePhaseOne, KP!NodePhaseOne, K!Commitments, KP!Commitments,
              K!proxyVars, KP!proxyVars
<1>3. ASSUME NEW n \in Node, K!ProxyPhaseFive(n) PROVE KP!ProxyPhaseFive(n)
  BY <1>1, <1>3 DEF K!ProxyPhaseFive, KP!ProxyPhaseFive, K!AllProved, KP!AllProved,
              K!nodeVars, KP!nodeVars
<1>4. ASSUME NEW n \in Node, K!NodePhaseSix(n) PROVE KP!NodePhaseSix(n)
  BY <1>4 DEF K!NodePhaseSix, KP!NodePhaseSix, K!proxyVars, KP!proxyVars
<1>5. ASSUME NEW n \in Node, NEW m \in commitMsgs, K!NodePhaseTwo(n, m)
      PROVE  KP!NodePhaseTwo(n, m)
  BY <1>1, <1>5 DEF K!NodePhaseTwo, KP!NodePhaseTwo, K!Full, KP!Full, K!Dealing, KP!Dealing,
              K!proxyVars, KP!proxyVars
<1>6. ASSUME NEW m \in dealMsgs, K!ProxyPhaseThree(m) PROVE KP!ProxyPhaseThree(m)
  BY <1>1, <1>6 DEF K!ProxyPhaseThree, KP!ProxyPhaseThree, K!Full, KP!Full,
              K!MergedShares, KP!MergedShares, K!nodeVars, KP!nodeVars
<1>7. ASSUME NEW n \in Node, NEW m \in threeMsgs, K!NodePhaseFour(n, m)
      PROVE  KP!NodePhaseFour(n, m)
  BY <1>1, <1>7 DEF K!NodePhaseFour, KP!NodePhaseFour, K!LastShare, KP!LastShare,
              K!CanProve, KP!CanProve, K!proxyVars, KP!proxyVars
<1>8. ASSUME K!Finished PROVE KP!Finished
  BY <1>8 DEF K!Finished, KP!Finished, K!Done, KP!Done, K!vars, KP!vars,
              K!proxyVars, KP!proxyVars, K!nodeVars, KP!nodeVars, K!netVars, KP!netVars
<1>9. KP!Next
  BY <1>2, <1>3, <1>4, <1>5, <1>6, <1>7, <1>8 DEF K!Next, KP!Next
<1>10. QED
  BY <1>9, KeygenAssumptions, KP!NextIInv

LEMMA KeygenFrame == ASSUME KP!IInv, UNCHANGED keygenVars PROVE KP!IInv'
<1>1. UNCHANGED KP!vars
  BY DEF keygenVars, KP!vars, KP!proxyVars, KP!nodeVars, KP!netVars
<1>2. QED
  BY <1>1, KeygenAssumptions, KP!NextIInv

\* When the public key is complete every node can handle every user.
LEMMA CompleteMeansReady ==
    ASSUME KP!IInv, participants = Participant, gpk = "complete",
           NEW m, m.node \in Node
    PROVE  ReadyFor(m)
<1>1. \A n \in Node, t \in Tag : mskshare[n][t] = Node /\ phaseTwoVec[t] = Node
  BY KeygenAssumptions, KP!PublishedMeansShared
<1>2. SignTag \in Tag /\ OpenTag \in Tag
  BY DeploymentAssumption
<1>3. nodeParts[m.node] = Participant
  BY <1>1, <1>2, KeygenAssumptions, KP!ShareMeansDealt
<1>4. QED
  BY <1>1, <1>2, <1>3, CountsNatural DEF ReadyFor, Knows, Holds

-----------------------------------------------------------------------------
\* The exchange, with lost openings taken as delayed.

LEMMA DelayedSound ==
    ASSUME DP!IInv
    PROVE  Sound /\ M!TypeOK /\ (InOrder => \A f \in finals : M!Complete(f))
<1>1. M!TypeOK
  BY DEF DP!IInv, DP!TypeOK, M!TypeOK, DP!PartySets, M!PartySets, DP!Msg, M!Msg,
         DP!Final, M!Final
<1>2. M!OneFinalEach
  BY DEF DP!IInv, DP!OneFinalEach, M!OneFinalEach
<1>3. ASSUME NEW f \in finals PROVE M!Ready(f.from, f.sess)
  <2>1. f.from \in Participant /\ f.sess \in Id
    BY <1>1 DEF M!TypeOK, M!Final
  <2>2. PICK p \in Participant : p # f.from
    <3>1. Cardinality({f.from}) = 1
      BY FS_Singleton
    <3>2. Cardinality(Participant) # 1
      BY JoinAssumption, CountsNatural
    <3>3. Participant # {f.from}
      BY <3>1, <3>2
    <3>4. QED
      BY <2>1, <3>3
  <2>3. alpha[f.from][f.sess] # {}
    BY <2>2 DEF DP!IInv, DP!AnswersCounted, DP!Others
  <2>4. QED
    BY <2>1, <2>3 DEF DP!IInv, DP!AnswersFindParams, M!Ready
<1>4. InOrder => \A f \in finals : M!Complete(f)
  BY <1>1 DEF DP!IInv, DP!SharesComplete, DP!Complete, DP!Others, M!Complete, M!Others,
              M!TypeOK, M!Final
<1>5. QED
  BY <1>1, <1>2, <1>3, <1>4 DEF Sound

LEMMA PartyHoldsHere ==
    DP!IsFiniteSet(Participant) /\ DP!Cardinality(Participant) >= 2
<1>1. \A S : IsFiniteSet(S) => DP!IsFiniteSet(S)
  BY DEF IsFiniteSet, DP!IsFiniteSet
<1>2. \A S : Cardinality(S) = DP!Cardinality(S)
  BY DEF Cardinality, DP!Cardinality
<1>3. QED
  BY <1>1, <1>2, CountsNatural, JoinAssumption

LEMMA DelayedInit == ASSUME DeploymentInit PROVE DP!IInv
<1>1. oneMsgs \cup Lost = {}
  BY DEF DeploymentInit, Init, M!Init, Lost
<1>2. DP!Init
  BY <1>1 DEF DeploymentInit, Init, M!Init, DP!Init, M!AllNone, DP!AllNone
<1>3. QED
  BY <1>2, PartyHoldsHere, DP!InitIInv

LEMMA LostFrame == ASSUME UNCHANGED <<broken, tag, held>> PROVE Lost' = Lost
BY DEF Lost, M!Ready, M!Msg

LEMMA DelayedFrame ==
    ASSUME DP!IInv, UNCHANGED <<tag, held, alpha, beta, answered, twoMsgs, finals>>,
           oneMsgs' \cup Lost' = oneMsgs \cup Lost
    PROVE  DP!IInv'
<1>1. UNCHANGED DP!vars
  BY DEF DP!vars
<1>2. QED
  BY <1>1, PartyHoldsHere, DP!NextIInv

\* Opening an exchange sends its openings; those to broken exchanges are as
\* good as lost already.
LEMMA BeginDelayed ==
    ASSUME DP!IInv, NEW p \in Participant, NEW i \in Id, M!Begin(p, i), broken' = broken
    PROVE  DP!IInv'
<1>1. M!TypeOK
  BY DelayedSound
<1>2. /\ ~ M!Ready(p, i)
      /\ tag' = [tag EXCEPT ![p][i] = "ready"]
      /\ alpha' = [alpha EXCEPT ![p][i] = {}]
      /\ beta' = [beta EXCEPT ![p][i] = held[p][i]]
      /\ oneMsgs' = oneMsgs \cup M!Openings(p, i)
      /\ twoMsgs' = twoMsgs \cup M!Answers(p, held[p][i], i)
      /\ UNCHANGED <<held, answered, finals>>
  BY DEF M!Begin, M!FreshShare
<1>3. \A q \in Participant, j \in Id : M!Ready(q, j)' <=> M!Ready(q, j) \/ (q = p /\ j = i)
  BY <1>1, <1>2 DEF M!Ready, M!TypeOK
<1>4. Lost \subseteq Lost' /\ Lost' \subseteq Lost \cup M!Openings(p, i)
  BY <1>2, <1>3 DEF Lost, M!Msg, M!Openings, M!Others
<1>5. oneMsgs' \cup Lost' = (oneMsgs \cup Lost) \cup M!Openings(p, i)
  BY <1>2, <1>4
<1>6. DP!Begin(p, i)
  BY <1>2, <1>5 DEF DP!Begin, M!Ready, DP!Ready, DP!FreshShare, M!Openings, DP!Openings,
                    M!Others, DP!Others, M!Answers, DP!Answers
<1>7. QED
  BY <1>6, PartyHoldsHere, DP!NextIInv DEF DP!Next

LEMMA HandlersDelayed ==
    ASSUME DP!IInv, BrokenStays, broken \subseteq Node \X Id, broken' = broken,
           \/ \E m \in oneMsgs : ~ Broken(m) /\ (M!HoldOne(m) \/ M!AnswerOne(m))
           \/ \E m \in twoMsgs : M!RecvTwo(m)
    PROVE  DP!IInv'
<1> DEFINE Sent == oneMsgs \cup Lost
<1>1. M!TypeOK
  BY DelayedSound
<1>2. ASSUME NEW m \in oneMsgs, ~ Broken(m), M!HoldOne(m)
      PROVE  DP!HoldOne(m)
  <2>1. /\ m \in M!Msg /\ m \notin Lost /\ ~ M!Ready(m.to, m.sess)
        /\ oneMsgs' = oneMsgs \ {m}
        /\ tag' = [tag EXCEPT ![m.to][m.sess] = "early"]
        /\ held' = [held EXCEPT ![m.to][m.sess] = held[m.to][m.sess] \cup {m.from}]
    BY <1>1, <1>2 DEF M!HoldOne, M!TypeOK, Lost, Broken
  <2>2. \A q \in Participant, j \in Id : M!Ready(q, j)' <=> M!Ready(q, j)
    BY <1>1, <2>1 DEF M!Ready, M!TypeOK, M!Msg
  <2>3. \A k \in M!Msg : <<k.to, k.sess>> \in broken => held'[k.to][k.sess] = held[k.to][k.sess]
    BY <1>1, <1>2, <2>1 DEF M!TypeOK, M!PartySets, M!Msg, Broken
  <2>4. Lost' = Lost
    BY <2>2, <2>3 DEF Lost, M!Msg
  <2>5. Sent' = Sent \ {m}
    BY <2>1, <2>4
  <2>6. QED
    BY <1>2, <2>5 DEF M!HoldOne, DP!HoldOne, M!Ready, DP!Ready, M!shares, DP!shares
<1>3. ASSUME NEW m \in oneMsgs, ~ Broken(m), M!AnswerOne(m)
      PROVE  DP!AnswerOne(m)
  <2>1. Lost' = Lost /\ m \notin Lost /\ oneMsgs' = oneMsgs \ {m}
    BY <1>3, LostFrame DEF M!AnswerOne, Lost, Broken
  <2>2. Sent' = Sent \ {m}
    BY <2>1
  <2>3. QED
    BY <1>3, <2>2 DEF M!AnswerOne, DP!AnswerOne, M!Ready, DP!Ready, M!Answers, DP!Answers
<1>4. ASSUME NEW m \in twoMsgs, M!RecvTwo(m)
      PROVE  DP!RecvTwo(m)
  <2>1. m \in M!Msg /\ M!Ready(m.to, m.sess)
    BY <1>1 DEF M!TypeOK, DP!IInv, DP!AnswersFindParams, M!Ready
  <2>2. m \notin Lost
    BY <2>1, JoinAssumption DEF Lost, BrokenStays, M!Msg
  <2>3. Lost' = Lost
    BY <1>4, LostFrame DEF M!RecvTwo
  <2>4. Sent' = Sent
    BY <1>4, <2>3 DEF M!RecvTwo
  <2>5. m.sess \in (IF InOrder THEN Id ELSE {}) => m \notin Sent
    BY <1>4, <2>2 DEF M!RecvTwo
  <2>6. \A S : M!Cardinality(S) = DP!Cardinality(S)
    BY DEF M!Cardinality, DP!Cardinality
  <2>7. QED
    BY <1>4, <2>4, <2>5, <2>6 DEF M!RecvTwo, DP!RecvTwo, M!HasAnswers, DP!HasAnswers,
                                  M!FinalMsg, DP!FinalMsg
<1>5. DP!Next
  BY <1>2, <1>3, <1>4 DEF DP!Next
<1>6. QED
  BY <1>5, PartyHoldsHere, DP!NextIInv

\* An opening that is lost stays delayed.
LEMMA LoseOpeningDelayed ==
    ASSUME DP!IInv, NEW m \in oneMsgs, LoseOpening(m)
    PROVE  DP!IInv'
<1>1. /\ oneMsgs' = oneMsgs \ {m} /\ <<m.to, m.sess>> \in broken
      /\ UNCHANGED <<broken, tag, held, alpha, beta, answered, twoMsgs, finals>>
  BY DEF LoseOpening, Broken, ownVars
<1>2. m \in M!Msg /\ m = DP!Opening(m.from, m.to, m.sess) /\ m.from # m.to
  BY DelayedSound DEF M!TypeOK, M!Msg, DP!Opening, DP!IInv, DP!NoSelf
<1>3. m.from \notin held[m.to][m.sess]
  BY DEF DP!IInv, DP!OpenedOnce
<1>4. M!Ready(m.from, m.sess)
  BY <1>2 DEF DP!IInv, DP!Opened, M!Ready, M!Msg
<1>5. m \in Lost
  BY <1>1, <1>2, <1>3, <1>4 DEF Lost
<1>6. Lost' = Lost
  BY <1>1, LostFrame
<1>7. QED
  BY <1>1, <1>5, <1>6, DelayedFrame

\* An exchange that breaks has answered no opening: those sent to it are in
\* flight or put aside.
LEMMA LoseUserDelayed ==
    ASSUME IInv, DP!IInv, ToldOnce, NEW m \in net, LoseUser(m)
    PROVE  DP!IInv'
<1>1. /\ m.type = "two" /\ m.node \in Node /\ m.id \in Id
      /\ broken' = broken \cup {<<m.node, m.id>>}
      /\ UNCHANGED <<tag, held, alpha, beta, answered, oneMsgs, twoMsgs, finals>>
  BY Messages DEF LoseUser, mtaVars, NodeMsgType, IInv
<1>2. Lost \subseteq Lost'
  BY <1>1 DEF Lost, M!Ready, M!Msg
<1>3. ASSUME NEW k \in Lost' PROVE k \in oneMsgs \cup Lost
  <2>1. /\ k \in M!Msg /\ k.from # k.to /\ M!Ready(k.from, k.sess)
        /\ k.from \notin held[k.to][k.sess]
        /\ <<k.to, k.sess>> \in broken'
    BY <1>1 DEF Lost, M!Ready, M!Msg
  <2>2. CASE <<k.to, k.sess>> \in broken
    BY <2>1, <2>2 DEF Lost
  <2>3. CASE k.to = m.node /\ k.sess = m.id
    <3>1. ~ M!Ready(k.to, k.sess) /\ k.to \in Participant /\ k.from \in Participant
      BY <1>1, <2>1, <2>3 DEF ToldOnce, M!Msg
    <3>2. beta[k.to][k.sess] = {}
      BY <1>1, <2>3, <3>1 DEF DP!IInv, DP!HeldAreAnswered, M!Ready
    <3>3. DP!Opening(k.from, k.to, k.sess) \in oneMsgs \cup Lost
      BY <1>1, <2>1, <2>3, <3>1, <3>2 DEF DP!IInv, DP!Opened, M!Ready
    <3>4. k = DP!Opening(k.from, k.to, k.sess)
      BY <2>1 DEF M!Msg, DP!Opening
    <3>5. QED
      BY <3>3, <3>4
  <2>4. QED
    BY <1>1, <2>1, <2>2, <2>3
<1>4. oneMsgs' \cup Lost' = oneMsgs \cup Lost
  BY <1>1, <1>2, <1>3
<1>5. QED
  BY <1>1, <1>4, DelayedFrame

-----------------------------------------------------------------------------
\* Joining, and what ties it to key generation.

\* A handler that panics takes a message away and may have entered a user.
LEMMA LossKeepsIInv ==
    ASSUME IInv, M!TypeOK', net' \subseteq net,
           nodeUsers' \in [Node -> SUBSET Id],
           \A n \in Node : nodeUsers[n] \subseteq nodeUsers'[n],
           UNCHANGED <<joinNum, userMap, finishVec, threeVec, fourVec, flagVec, revokeStarted,
                       userId, gsk, reg, collected, tag, finals>>
    PROVE  IInv'
<1> USE DEF IInv
<1>1. TypeOK'
  BY DEF TypeOK
<1>2. IdsSuffice' /\ IdsHandedOnce' /\ MapFollowsIds' /\ NodesFollowMap'
  BY IdsFrame, MapFrame, NodesFrame
<1>3. KeysFollowShares' /\ FlagsFollow'
  BY KeysFrame, FlagsFrame
<1>4. QED
  BY <1>1, <1>2, <1>3

LEMMA TiesFrame ==
    ASSUME IInv, Ties, UNCHANGED <<gpkSent, broken, participants>>,
           gpk = "complete" => gpk' = "complete",
           \A i \in Id : userMap[i] # NoUser => userMap'[i] = userMap[i],
           \A m \in net' : m.type = "two" => m \in net,
           \A p \in Participant, i \in Id : M!Ready(p, i)' => M!Ready(p, i)
    PROVE  Ties'
<1> USE DEF Ties
<1>1. ToldOnce'
  <2>1. \A m \in net : m.type = "two" => m.id \in Id
    BY Messages DEF IInv, NodeMsgType
  <2>2. QED
    BY <2>1 DEF ToldOnce
<1>2. BrokenStays'
  BY DEF BrokenStays
<1>3. PromptAfterKeygen'
  BY DEF PromptAfterKeygen, Prompt
<1>4. K!GpkState' = K!GpkState /\ gpkSent' \in [User -> K!GpkState]
  BY DEF K!GpkState
<1>5. QED
  BY <1>1, <1>2, <1>3, <1>4

LEMMA AskToJoinTies ==
    ASSUME IInv, KP!IInv, Ties, NEW u \in User, AskToJoin(u)
    PROVE  Ties'
<1> USE DEF Ties
<1>1. /\ gpkSent' = [gpkSent EXCEPT ![u] = gpk] /\ u \in Waiting
      /\ userMap' = userMap
      /\ UNCHANGED <<broken, participants, gpk, tag>>
  BY ProxyPhaseOneStep DEF AskToJoin, ProxyPhaseOne, Waiting, keygenVars, mtaVars
<1>2. \A m \in net' : m.type = "two" => m \in net
  BY DEF AskToJoin, ProxyPhaseOne
<1>3. gpk \in K!GpkState
  BY DEF KP!IInv, KP!TypeOK, KP!GpkState, K!GpkState
<1>4. ToldOnce'
  BY <1>1, <1>2 DEF ToldOnce, M!Ready
<1>5. BrokenStays'
  <2>1. ASSUME NEW i \in Id, userMap[i] # NoUser PROVE userMap[i] \in User /\ userMap[i] # u
    <3>1. userMap[i] \in User /\ Handed(userMap[i], i)
      BY <2>1 DEF IInv, TypeOK, MapFollowsIds, Handed
    <3>2. QED
      BY <1>1, <3>1 DEF IInv, IdsHandedOnce
  <2>2. QED
    BY <1>1, <1>2, <2>1 DEF BrokenStays, M!Ready
<1>6. PromptAfterKeygen'
  BY <1>1 DEF PromptAfterKeygen, Prompt
<1>7. QED
  BY <1>1, <1>3, <1>4, <1>5, <1>6 DEF K!GpkState

LEMMA ProxyPhaseTwoTies ==
    ASSUME IInv, Ties, NEW m \in net, ProxyPhaseTwo(m), HasLeaf(m.id),
           UNCHANGED <<gpkSent, broken, participants, gpk>>
    PROVE  Ties'
<1> USE DEF Ties
<1>1. /\ m.type = "register" /\ m.id \in Id
      /\ userMap[m.id] = NoUser
      /\ tag' = tag
      /\ \A i \in Id : userMap[i] # NoUser => userMap'[i] = userMap[i]
  BY Messages, ProxyPhaseTwoStep DEF ProxyPhaseTwo, IInv, MapFollowsIds, mtaVars
<1>2. \A q \in net' : q \in net \/ q.id = m.id
  BY NodeMessages, <1>1 DEF ProxyPhaseTwo, Announcement, NodeMsgType
<1>3. /\ \A p \in Participant : ~ M!Ready(p, m.id)
      /\ \A n \in Node : <<n, m.id>> \notin broken
  BY <1>1 DEF IInv, NodesFollowMap, BrokenStays
<1>4. ToldOnce'
  BY <1>1, <1>2, <1>3 DEF ToldOnce, M!Ready
<1>5. BrokenStays'
  <2>1. ASSUME NEW n \in Node, NEW i \in Id, <<n, i>> \in broken
        PROVE  [type |-> "two", node |-> n, id |-> i] \notin net'
    BY <1>2, <1>3, <2>1 DEF BrokenStays
  <2>2. QED
    BY <1>1, <2>1 DEF BrokenStays, M!Ready
<1>6. PromptAfterKeygen'
  BY DEF PromptAfterKeygen, Prompt
<1>7. QED
  BY <1>4, <1>5, <1>6 DEF K!GpkState

LEMMA EnterUserTies ==
    ASSUME IInv, DP!IInv, Ties, NEW m \in net, EnterUser(m)
    PROVE  Ties'
<1> USE DEF Ties
<1>1. /\ m.type = "two" /\ m.node \in Node /\ m.id \in Id
      /\ m = [type |-> "two", node |-> m.node, id |-> m.id]
      /\ net' = net \ {m}
      /\ UNCHANGED <<gpkSent, broken, participants, gpk, userMap>>
  BY Messages DEF EnterUser, NodePhaseTwo, IInv, NodeMsgType, keygenVars, ownVars, proxyVars
<1>2. \A p \in Participant, i \in Id :
        M!Ready(p, i)' => M!Ready(p, i) \/ (p = m.node /\ i = m.id)
  <2>1. M!TypeOK
    BY DelayedSound
  <2>2. CASE m.node \in Participant
    <3>1. tag' = [tag EXCEPT ![m.node][m.id] = "ready"]
      BY <2>2 DEF EnterUser, NodePhaseTwo, M!Begin
    <3>2. QED
      BY <1>1, <2>1, <2>2, <3>1 DEF M!Ready, M!TypeOK
  <2>3. CASE m.node \notin Participant
    BY <2>3 DEF EnterUser, NodePhaseTwo, mtaVars, M!Ready
  <2>4. QED
    BY <2>2, <2>3
<1>3. ToldOnce'
  <2>1. SUFFICES ASSUME NEW q \in net', q.type = "two", q.node \in Participant
                 PROVE  ~ M!Ready(q.node, q.id)'
    BY DEF ToldOnce
  <2>2. /\ q \in net /\ q # m /\ q.id \in Id
        /\ q = [type |-> "two", node |-> q.node, id |-> q.id]
    BY <1>1, <2>1, Messages DEF IInv, NodeMsgType
  <2>3. QED
    BY <1>1, <1>2, <2>1, <2>2 DEF ToldOnce
<1>4. <<m.node, m.id>> \notin broken
  BY <1>1 DEF BrokenStays
<1>5. BrokenStays'
  BY <1>1, <1>2, <1>4, JoinAssumption DEF BrokenStays
<1>6. PromptAfterKeygen'
  BY <1>1 DEF PromptAfterKeygen, Prompt
<1>7. QED
  BY <1>1, <1>3, <1>5, <1>6 DEF K!GpkState

\* A user whose message is lost came before key generation was finished.
LEMMA LoseUserTies ==
    ASSUME IInv, KP!IInv, Ties, NEW m \in net, LoseUser(m)
    PROVE  Ties'
<1> USE DEF Ties
<1>1. /\ m.type = "two" /\ m.node \in Node /\ m.id \in Id
      /\ m = [type |-> "two", node |-> m.node, id |-> m.id]
      /\ net' = net \ {m} /\ ~ ReadyFor(m)
      /\ broken' = broken \cup {<<m.node, m.id>>}
      /\ UNCHANGED <<gpkSent, participants, gpk, userMap, tag>>
  BY Messages DEF LoseUser, IInv, NodeMsgType, keygenVars, mtaVars, proxyVars
<1>2. gpk # "complete"
  BY <1>1, CompleteMeansReady
<1>3. ToldOnce'
  BY <1>1 DEF ToldOnce, M!Ready
<1>4. userMap[m.id] # NoUser /\ userMap[m.id] \in User
  BY <1>1 DEF IInv, NodesFollowMap, TypeOK
<1>5. gpkSent[userMap[m.id]] # "complete"
  BY <1>2, <1>4 DEF PromptAfterKeygen, Prompt
<1>6. m.node \in Participant => ~ M!Ready(m.node, m.id)
  BY <1>1 DEF ToldOnce
<1>7. BrokenStays'
  <2>1. ASSUME NEW n \in Node, NEW i \in Id, <<n, i>> \in broken'
        PROVE  /\ userMap[i] # NoUser /\ gpkSent[userMap[i]] # "complete"
               /\ [type |-> "two", node |-> n, id |-> i] \notin net'
               /\ n \in Participant => ~ M!Ready(n, i)
    <3>1. CASE n = m.node /\ i = m.id
      BY <1>1, <1>4, <1>5, <1>6, <3>1
    <3>2. CASE <<n, i>> \in broken
      BY <1>1, <3>2 DEF BrokenStays
    <3>3. QED
      BY <1>1, <2>1, <3>1, <3>2
  <2>2. QED
    BY <1>1, <2>1 DEF BrokenStays, M!Ready
<1>8. PromptAfterKeygen'
  BY <1>1 DEF PromptAfterKeygen, Prompt
<1>9. broken' \subseteq Node \X Id
  BY <1>1
<1>10. QED
  BY <1>1, <1>3, <1>7, <1>8, <1>9 DEF K!GpkState

-----------------------------------------------------------------------------

\* The inductive invariant, part by part.
Parts == IInv /\ KP!IInv /\ DP!IInv /\ Ties

LEMMA DeploymentInitParts == ASSUME DeploymentInit PROVE Parts
<1>1. KP!IInv /\ DP!IInv
  BY KeygenInit, DelayedInit DEF DeploymentInit
<1>2. IInv
  BY <1>1, DelayedSound, InitIInv DEF DeploymentInit
<1>3. \A m \in net : m.type # "two"
  BY DEF DeploymentInit, Init, StartFlag
<1>4. Ties
  BY <1>3 DEF DeploymentInit, Ties, ToldOnce, BrokenStays, PromptAfterKeygen, Prompt, K!GpkState
<1>5. QED
  BY <1>1, <1>2, <1>4 DEF Parts

LEMMA KeygenParts == ASSUME Parts, Keygen PROVE Parts' /\ userMap' = userMap
<1> USE DEF Parts
<1>1. K!Next /\ UNCHANGED <<vars, gpkSent, broken>>
  BY DEF Keygen, ownVars
<1>2. KP!IInv'
  BY <1>1, KeygenNext
<1>3. IInv' /\ userMap' = userMap
  BY <1>1, StutterStep DEF vars, proxyVars
<1>4. DP!IInv'
  <2>1. UNCHANGED <<tag, held, alpha, beta, answered, oneMsgs, twoMsgs, finals, broken>>
    BY <1>1 DEF vars, mtaVars
  <2>2. QED
    BY <2>1, LostFrame, DelayedFrame
<1>5. participants' = participants /\ (gpk = "complete" => gpk' = "complete")
  BY <1>1 DEF K!Next, K!NodePhaseOne, K!ProxyPhaseFive, K!NodePhaseSix, K!NodePhaseTwo,
              K!ProxyPhaseThree, K!NodePhaseFour, K!Finished, K!proxyVars, K!vars
<1>6. Ties'
  BY <1>1, <1>5, TiesFrame DEF vars, proxyVars, mtaVars, M!Ready
<1>7. QED
  BY <1>2, <1>3, <1>4, <1>6

\* A step of joining keeps the invariant of joining; the rest is by step.
LEMMA JoinKeepsIInv ==
    ASSUME IInv, DP!IInv, DP!IInv', Next
    PROVE  /\ IInv'
           /\ \A i \in Id : userMap[i] # NoUser => userMap'[i] = userMap[i]
<1>1. M!TypeOK'
  <2>1. DP!TypeOK'
    BY DEF DP!IInv
  <2>2. QED
    BY <2>1 DEF DP!TypeOK, M!TypeOK, DP!PartySets, M!PartySets, DP!Msg, M!Msg, DP!Final, M!Final
<1>2. QED
  BY <1>1, DelayedSound, NextIInv

LEMMA AskToJoinParts ==
    ASSUME Parts, NEW u \in User, AskToJoin(u)
    PROVE  Parts' /\ userMap' = userMap
<1> USE DEF Parts
<1>1. ProxyPhaseOne(u) /\ UNCHANGED <<keygenVars, broken>>
  BY DEF AskToJoin
<1>2. IInv' /\ userMap' = userMap
  BY <1>1, ProxyPhaseOneStep
<1>3. UNCHANGED <<tag, held, alpha, beta, answered, oneMsgs, twoMsgs, finals>>
  BY <1>1 DEF ProxyPhaseOne, mtaVars
<1>4. QED
  BY <1>1, <1>2, <1>3, LostFrame, DelayedFrame, KeygenFrame, AskToJoinTies

LEMMA EnterUserParts ==
    ASSUME Parts, NEW m \in net, EnterUser(m)
    PROVE  Parts' /\ userMap' = userMap
<1> USE DEF Parts
<1>1. NodePhaseTwo(m) /\ UNCHANGED keygenVars /\ broken' = broken
  BY DEF EnterUser, ownVars
<1>2. m.node \in Node /\ m.id \in Id
  BY <1>1, Messages DEF NodePhaseTwo, IInv, NodeMsgType
<1>3. DP!IInv'
  <2>1. CASE m.node \in Participant
    BY <1>1, <1>2, <2>1, BeginDelayed DEF NodePhaseTwo
  <2>2. CASE m.node \notin Participant
    BY <1>1, <2>2, LostFrame, DelayedFrame DEF NodePhaseTwo, mtaVars
  <2>3. QED
    BY <2>1, <2>2
<1>4. IInv' /\ userMap' = userMap
  BY <1>1, <1>3, JoinKeepsIInv DEF Next, NodePhaseTwo, proxyVars
<1>5. QED
  BY <1>1, <1>3, <1>4, KeygenFrame, EnterUserTies

LEMMA LoseUserParts ==
    ASSUME Parts, NEW m \in net, LoseUser(m)
    PROVE  Parts' /\ userMap' = userMap
<1> USE DEF Parts
<1>1. /\ m.node \in Node /\ m.id \in Id
      /\ net' = net \ {m}
      /\ \/ nodeUsers' = [nodeUsers EXCEPT ![m.node] = @ \cup {m.id}]
         \/ nodeUsers' = nodeUsers
      /\ UNCHANGED keygenVars
      /\ UNCHANGED <<joinNum, userMap, finishVec, threeVec, fourVec, flagVec, revokeStarted,
                     userId, gsk, reg, collected, tag, held, alpha, beta, answered,
                     oneMsgs, twoMsgs, finals>>
  BY Messages DEF LoseUser, IInv, NodeMsgType, proxyVars, userVars, mtaVars
<1>2. /\ nodeUsers' \in [Node -> SUBSET Id]
      /\ \A n \in Node : nodeUsers[n] \subseteq nodeUsers'[n]
  BY <1>1 DEF IInv, TypeOK
<1>3. M!TypeOK'
  BY <1>1 DEF IInv, TypeOK, M!TypeOK
<1>4. IInv'
  BY <1>1, <1>2, <1>3, LossKeepsIInv
<1>5. QED
  BY <1>1, <1>4, LoseUserDelayed, KeygenFrame, LoseUserTies DEF Ties

LEMMA ExchangeParts == ASSUME Parts, Exchange PROVE Parts' /\ userMap' = userMap
<1> USE DEF Parts
<1>1. UNCHANGED <<keygenVars, gpkSent, broken, net, userMap>>
  BY DEF Exchange, ownVars, proxyVars
<1>2. DP!IInv'
  BY <1>1, HandlersDelayed DEF Exchange, Ties
<1>3. NodeExchange
  BY DEF Exchange, NodeExchange
<1>4. IInv'
  BY <1>2, <1>3, JoinKeepsIInv DEF Next
<1>5. \A p \in Participant, i \in Id : M!Ready(p, i)' => M!Ready(p, i)
  <2>1. ASSUME NEW k \in oneMsgs, M!HoldOne(k), NEW p \in Participant, NEW i \in Id, M!Ready(p, i)'
        PROVE  M!Ready(p, i)
    <3>1. tag' = [tag EXCEPT ![k.to][k.sess] = "early"]
      BY <2>1 DEF M!HoldOne
    <3>2. QED
      BY <2>1, <3>1, DelayedSound DEF M!TypeOK, M!Ready
  <2>2. (\E k \in oneMsgs : M!AnswerOne(k)) \/ (\E k \in twoMsgs : M!RecvTwo(k)) => tag' = tag
    BY DEF M!AnswerOne, M!RecvTwo
  <2>3. QED
    BY <2>1, <2>2 DEF Exchange, M!Ready
<1>6. Ties'
  BY <1>1, <1>5, TiesFrame DEF keygenVars
<1>7. QED
  BY <1>1, <1>2, <1>4, <1>6, KeygenFrame

LEMMA LoseOpeningParts ==
    ASSUME Parts, NEW m \in oneMsgs, LoseOpening(m)
    PROVE  Parts' /\ userMap' = userMap
<1> USE DEF Parts
<1>1. /\ oneMsgs' \subseteq oneMsgs
      /\ UNCHANGED <<keygenVars, gpkSent, broken>>
      /\ UNCHANGED <<joinNum, userMap, finishVec, threeVec, fourVec, flagVec, revokeStarted,
                     userId, gsk, nodeUsers, reg, net, collected, tag, held, alpha, beta,
                     answered, twoMsgs, finals>>
  BY DEF LoseOpening, proxyVars, userVars, nodeVars, ownVars
<1>2. M!TypeOK' /\ nodeUsers' \in [Node -> SUBSET Id]
  BY <1>1 DEF IInv, TypeOK, M!TypeOK
<1>3. IInv'
  BY <1>1, <1>2, LossKeepsIInv
<1>4. Ties'
  BY <1>1, TiesFrame DEF keygenVars, M!Ready
<1>5. QED
  BY <1>1, <1>3, <1>4, LoseOpeningDelayed, KeygenFrame

LEMMA LoseContributionParts ==
    ASSUME Parts, NEW m \in net, LoseContribution(m)
    PROVE  Parts' /\ userMap' = userMap
<1> USE DEF Parts
<1>1. /\ net' \subseteq net
      /\ UNCHANGED <<keygenVars, gpkSent, broken>>
      /\ UNCHANGED <<joinNum, userMap, finishVec, threeVec, fourVec, flagVec, revokeStarted,
                     userId, gsk, nodeUsers, reg, collected, tag, held, alpha, beta,
                     answered, oneMsgs, twoMsgs, finals>>
  BY DEF LoseContribution, proxyVars, userVars, nodeVars, ownVars, mtaVars
<1>2. M!TypeOK' /\ nodeUsers' \in [Node -> SUBSET Id]
  BY <1>1 DEF IInv, TypeOK, M!TypeOK
<1>3. IInv'
  BY <1>1, <1>2, LossKeepsIInv
<1>4. Ties'
  BY <1>1, TiesFrame DEF keygenVars, M!Ready
<1>5. QED
  BY <1>1, <1>3, <1>4, LostFrame, DelayedFrame, KeygenFrame

\* The steps of joining that touch neither the exchange nor key generation.
LEMMA OtherParts ==
    ASSUME Parts, (\E m \in net : Contribute(m)) \/ OtherJoinStep
    PROVE  /\ Parts'
           /\ \A i \in Id : userMap[i] # NoUser => userMap'[i] = userMap[i]
<1> USE DEF Parts
<1>1. UNCHANGED <<keygenVars, gpkSent, broken>>
  BY DEF Contribute, OtherJoinStep, ownVars
<1>2. UNCHANGED <<tag, held, alpha, beta, answered, oneMsgs, twoMsgs, finals>>
  BY DEF Contribute, OtherJoinStep, NodeContribute, UserPhaseTwo, ProxyPhaseTwo, UserPhaseThree,
         ProxyPhaseFour, ProxyPhaseFive, NodePhaseSix, ProxyFlag, ProxyPhaseThree, mtaVars
<1>3. DP!IInv' /\ KP!IInv'
  BY <1>1, <1>2, LostFrame, DelayedFrame, KeygenFrame
<1>4. Next
  BY DEF Contribute, OtherJoinStep, Next
<1>5. /\ IInv'
      /\ \A i \in Id : userMap[i] # NoUser => userMap'[i] = userMap[i]
  BY <1>3, <1>4, JoinKeepsIInv
<1>6. Ties'
  <2>1. CASE \E m \in net : ProxyPhaseTwo(m) /\ HasLeaf(m.id)
    BY <1>1, <2>1, ProxyPhaseTwoTies DEF keygenVars
  <2>2. ASSUME ~ \E m \in net : ProxyPhaseTwo(m) /\ HasLeaf(m.id)
        PROVE  \A q \in net' : q.type = "two" => q \in net
    <3>1. ASSUME NEW m \in net, NodeContribute(m), NEW q \in net', q.type = "two"
          PROVE  q \in net
      <4>1. /\ m.type \in {"three", "four"} /\ AckOf[m.type] # "two"
            /\ net' = (net \ {m}) \cup {[m EXCEPT !.type = AckOf[m.type]]}
        BY <3>1 DEF NodeContribute, AckOf
      <4>2. m = [type |-> m.type, node |-> m.node, id |-> m.id]
        BY <4>1, Messages DEF IInv, NodeMsgType
      <4>3. [m EXCEPT !.type = AckOf[m.type]].type = AckOf[m.type]
        BY <4>2
      <4>4. QED
        BY <3>1, <4>1, <4>3
    <3>2. ASSUME NEW m \in net, UserPhaseTwo(m), NEW q \in net', q.type = "two"
          PROVE  q \in net
      <4>1. m.type = "id" /\ net' = (net \ {m}) \cup {[m EXCEPT !.type = "register"]}
        BY <3>2 DEF UserPhaseTwo
      <4>2. m = [type |-> m.type, user |-> m.user, id |-> m.id]
        BY <4>1, Messages DEF IInv
      <4>3. [m EXCEPT !.type = "register"].type = "register"
        BY <4>2
      <4>4. QED
        BY <3>2, <4>1, <4>3
    <3>3. ASSUME NEW m \in net,
                 \/ UserPhaseThree(m) \/ ProxyPhaseFour(m) \/ ProxyPhaseFive(m)
                 \/ NodePhaseSix(m) \/ ProxyFlag(m),
                 NEW q \in net', q.type = "two"
          PROVE  q \in net
      BY <3>3 DEF UserPhaseThree, UserFlag, ProxyPhaseFour, SecondRound, ProxyPhaseFive,
                  EncryptedKey, NodePhaseSix, ProxyFlag, NodeMsg
    <3>4. ASSUME NEW f \in finals, ProxyPhaseThree(f), NEW q \in net', q.type = "two"
          PROVE  q \in net
      BY <3>4 DEF ProxyPhaseThree, KeyFor, NodeMsg
    <3>5. ASSUME NEW m \in net, ProxyPhaseTwo(m), NEW q \in net', q.type = "two"
          PROVE  q \in net
      BY <2>2, <3>5 DEF ProxyPhaseTwo
    <3>6. QED
      BY <3>1, <3>2, <3>3, <3>4, <3>5 DEF Contribute, OtherJoinStep
  <2>3. CASE ~ \E m \in net : ProxyPhaseTwo(m) /\ HasLeaf(m.id)
    BY <1>1, <1>2, <1>5, <2>2, <2>3, TiesFrame DEF keygenVars, M!Ready
  <2>4. QED
    BY <2>1, <2>3
<1>7. QED
  BY <1>3, <1>5, <1>6

LEMMA DeploymentNextParts ==
    ASSUME Parts, [DeploymentNext]_deploymentVars
    PROVE  /\ Parts'
           /\ \A i \in Id : userMap[i] # NoUser => userMap'[i] = userMap[i]
<1>1. CASE Keygen \/ \E u \in User : AskToJoin(u)
  BY <1>1, KeygenParts, AskToJoinParts
<1>2. CASE \E m \in net : EnterUser(m) \/ LoseUser(m) \/ LoseContribution(m)
  BY <1>2, EnterUserParts, LoseUserParts, LoseContributionParts
<1>3. CASE Exchange \/ \E m \in oneMsgs : LoseOpening(m)
  BY <1>3, ExchangeParts, LoseOpeningParts
<1>4. CASE (\E m \in net : Contribute(m)) \/ OtherJoinStep
  BY <1>4, OtherParts
<1>5. CASE UNCHANGED deploymentVars
  <2>1. UNCHANGED <<vars, keygenVars, gpkSent, broken>>
    BY <1>5 DEF deploymentVars, ownVars
  <2>2. IInv' /\ KP!IInv'
    BY <2>1, StutterStep, KeygenFrame DEF Parts
  <2>3. DP!IInv'
    BY <2>1, LostFrame, DelayedFrame DEF Parts, vars, mtaVars
  <2>4. Ties'
    BY <2>1, TiesFrame DEF Parts, vars, mtaVars, proxyVars, keygenVars, M!Ready
  <2>5. QED
    BY <2>1, <2>2, <2>3, <2>4 DEF Parts, vars, proxyVars
<1>6. QED
  BY <1>1, <1>2, <1>3, <1>4, <1>5 DEF DeploymentNext

\* The parts hold in every behaviour of the deployment.
THEOREM PartsHold == DeploymentSpec => []Parts
<1>1. DeploymentInit => Parts
  BY DeploymentInitParts
<1>2. Parts /\ [DeploymentNext]_deploymentVars => Parts'
  BY DeploymentNextParts
<1>3. QED
  BY <1>1, <1>2, PTL DEF DeploymentSpec

-----------------------------------------------------------------------------
\* Joins of prompt users go on.

Flow == RoundsBelong /\ PromptUsersKnown /\ JoinsGoOn

\* The user of an entry in the map, and who the entry is of.
LEMMA EntryUser ==
    ASSUME IInv, NEW i \in Id, userMap[i] # NoUser
    PROVE  /\ userMap[i] \in User /\ userId[userMap[i]] = i
           /\ \A u \in User : userId[u] = i => u = userMap[i]
<1>1. userMap[i] \in User /\ userId[userMap[i]] = i
  BY DEF IInv, TypeOK, MapFollowsIds
<1>2. \A u \in User : userId[u] = i => Handed(u, i)
  BY DEF Handed
<1>3. QED
  BY <1>1, <1>2 DEF IInv, IdsHandedOnce

LEMMA Everybody ==
    ASSUME NEW p \in Participant
    PROVE  /\ M!Others(p) # {}
           /\ Cardinality(M!Others(p)) = Cardinality(Participant) - 1
           /\ Participant \subseteq Node
<1>1. Cardinality(Participant \ {p}) = Cardinality(Participant) - 1
  BY CountsNatural, FS_RemoveElement
<1>2. Participant \ {p} # {}
  <2>1. Cardinality({}) = 0
    BY FS_EmptySet
  <2>2. Cardinality(Participant \ {p}) # 0
    BY <1>1, CountsNatural, JoinAssumption
  <2>3. QED
    BY <2>1, <2>2
<1>3. QED
  BY <1>1, <1>2, JoinAssumption DEF M!Others

\* A prompt user's messages find what they need.
LEMMA PromptReady ==
    ASSUME Parts, NEW m \in net, m.type \in {"two", "three"},
           userMap[m.id] # NoUser, Prompt(userMap[m.id])
    PROVE  ReadyFor(m)
<1>1. m.node \in Node /\ m.id \in Id
  BY Messages DEF Parts, IInv, NodeMsgType
<1>2. gpk = "complete" /\ participants = Participant
  BY <1>1, EntryUser DEF Parts, Ties, PromptAfterKeygen
<1>3. QED
  BY <1>1, <1>2, CompleteMeansReady DEF Parts

-----------------------------------------------------------------------------
\* What a step leaves as it is.

LEMMA BelongFrame ==
    ASSUME Parts, RoundsBelong, UNCHANGED <<threeVec, fourVec>>,
           \A i \in Id : userMap[i] # NoUser => userMap'[i] = userMap[i],
           \A m \in net' : m.type \in NodeMsgType => m \in net
    PROVE  RoundsBelong'
<1>1. \A m \in net : m.type \in NodeMsgType => m.id \in Id
  BY Messages DEF Parts, IInv
<1>2. QED
  BY <1>1 DEF RoundsBelong

LEMMA KnownFrame ==
    ASSUME Parts, PromptUsersKnown, UNCHANGED <<gpkSent, userId>>,
           \A i \in Id : userMap[i] # NoUser => userMap'[i] = userMap[i],
           \A m \in net : m.type \in {"id", "register"} => m \in net'
    PROVE  PromptUsersKnown'
<1>1. \A u \in User, i \in Id : Handed(u, i) => Handed(u, i)'
  BY DEF Handed
<1>2. \A u \in User : u # NoUser
  BY JoinAssumption
<1>3. QED
  BY <1>1, <1>2 DEF PromptUsersKnown, Prompt

LEMMA GoOnFrame ==
    ASSUME UNCHANGED <<gpkSent, userMap>>, JoinsGoOn,
           \A i \in Id : userMap[i] # NoUser /\ Prompt(userMap[i]) /\ JoinGoesOn(i)
                => JoinGoesOn(i)'
    PROVE  JoinsGoOn'
BY DEF JoinsGoOn, Prompt

LEMMA ToldFrame ==
    ASSUME NEW i \in Id, NodesTold(i),
           \A n \in Node : nodeUsers[n] \subseteq nodeUsers'[n],
           \A p \in Participant : M!Ready(p, i) => M!Ready(p, i)',
           \A m \in net : m.type = "two" /\ m.id = i => m \in net'
    PROVE  NodesTold(i)'
BY DEF NodesTold, InFlight

LEMMA SentFrame ==
    ASSUME NEW i \in Id, SharesSent(i), UNCHANGED alpha, finals \subseteq finals'
    PROVE  SharesSent(i)'
BY DEF SharesSent, M!SentFinal, M!Others

LEMMA MadeFrame ==
    ASSUME NEW i \in Id, KeyMade(i), UNCHANGED <<collected, finishVec, threeVec, gsk>>,
           userMap'[i] = userMap[i],
           \A m \in net : m.type = "key" => m \in net',
           \A m \in net : m.type \in {"three", "ackThree"} /\ m.id = i => m \in net'
    PROVE  KeyMade(i)'
BY DEF KeyMade, HasShares, Received, RoundGoesOn, InFlight

LEMMA EncryptedFrame ==
    ASSUME NEW i \in Id, KeyEncrypted(i), UNCHANGED <<threeVec, fourVec, flagVec>>,
           \A m \in net : m.type \in {"four", "ackFour", "five", "flag"} /\ m.id = i => m \in net'
    PROVE  KeyEncrypted(i)'
BY DEF KeyEncrypted, RoundGoesOn, InFlight, FlagInFlight

LEMMA RaisedFrame ==
    ASSUME NEW i \in Id, FlagsRaised(i), UNCHANGED <<gsk, flagVec, revokeStarted>>,
           userMap'[i] = userMap[i],
           \A m \in net : m.type = "flag" /\ m.id = i => m \in net'
    PROVE  FlagsRaised(i)'
BY DEF FlagsRaised, FlagInFlight

-----------------------------------------------------------------------------
\* The steps that lose messages, or none, and change nothing of a join.

LEMMA LossFlow ==
    ASSUME Parts, Flow, net' \subseteq net,
           \A m \in net \ net' : /\ m.type \in {"two", "three"}
                                 /\ ~ (userMap[m.id] # NoUser /\ Prompt(userMap[m.id])),
           \A n \in Node : nodeUsers[n] \subseteq nodeUsers'[n],
           UNCHANGED <<gpkSent, userMap, userId, gsk, finishVec, threeVec, fourVec, flagVec,
                       revokeStarted, collected, tag, alpha, finals>>
    PROVE  Flow'
<1> USE DEF Flow
<1>1. RoundsBelong'
  BY BelongFrame
<1>2. PromptUsersKnown'
  BY KnownFrame
<1>3. ASSUME NEW i \in Id, userMap[i] # NoUser, Prompt(userMap[i]), JoinGoesOn(i)
      PROVE  JoinGoesOn(i)'
  <2>1. \A m \in net : m.type \notin {"two", "three"} \/ m.id = i => m \in net'
    BY <1>3
  <2>2. \A p \in Participant : M!Ready(p, i) => M!Ready(p, i)'
    BY DEF M!Ready
  <2>3. NodesTold(i)'
    BY <1>3, <2>1, <2>2, ToldFrame DEF JoinGoesOn
  <2>4. SharesSent(i)' /\ KeyMade(i)'
    BY <1>3, <2>1, SentFrame, MadeFrame DEF JoinGoesOn
  <2>5. KeyEncrypted(i)' /\ FlagsRaised(i)'
    BY <1>3, <2>1, EncryptedFrame, RaisedFrame DEF JoinGoesOn
  <2>6. QED
    BY <2>3, <2>4, <2>5 DEF JoinGoesOn
<1>4. QED
  BY <1>1, <1>2, <1>3, GoOnFrame

LEMMA QuietFlow ==
    ASSUME Parts, Flow,
           Keygen \/ (\E m \in oneMsgs : LoseOpening(m)) \/ UNCHANGED deploymentVars
    PROVE  Flow'
<1>1. UNCHANGED <<gpkSent, userMap, userId, gsk, finishVec, threeVec, fourVec, flagVec, net,
                  revokeStarted, collected, tag, alpha, finals, nodeUsers>>
  BY DEF Keygen, LoseOpening, deploymentVars, vars, ownVars, proxyVars, userVars, nodeVars,
         mtaVars
<1>2. QED
  BY <1>1, LossFlow

LEMMA LoseUserFlow ==
    ASSUME Parts, Flow, NEW m \in net, LoseUser(m)
    PROVE  Flow'
<1>1. /\ m.type = "two" /\ ~ ReadyFor(m) /\ net' = net \ {m}
      /\ m.node \in Node /\ m.id \in Id
      /\ \/ nodeUsers' = [nodeUsers EXCEPT ![m.node] = @ \cup {m.id}]
         \/ nodeUsers' = nodeUsers
      /\ UNCHANGED <<gpkSent, userMap, userId, gsk, finishVec, threeVec, fourVec, flagVec,
                     revokeStarted, collected, tag, alpha, finals>>
  BY Messages DEF LoseUser, Parts, IInv, NodeMsgType, proxyVars, userVars, mtaVars
<1>2. \A n \in Node : nodeUsers[n] \subseteq nodeUsers'[n]
  BY <1>1 DEF Parts, IInv, TypeOK
<1>3. ~ (userMap[m.id] # NoUser /\ Prompt(userMap[m.id]))
  BY <1>1, PromptReady
<1>4. QED
  BY <1>1, <1>2, <1>3, LossFlow

LEMMA LoseContributionFlow ==
    ASSUME Parts, Flow, NEW m \in net, LoseContribution(m)
    PROVE  Flow'
<1>1. /\ m.type = "three" /\ ~ ReadyFor(m) /\ net' = net \ {m}
      /\ UNCHANGED <<gpkSent, userMap, userId, gsk, finishVec, threeVec, fourVec, flagVec,
                     revokeStarted, collected, tag, alpha, finals, nodeUsers>>
  BY DEF LoseContribution, proxyVars, userVars, nodeVars, mtaVars, ownVars
<1>2. ~ (userMap[m.id] # NoUser /\ Prompt(userMap[m.id]))
  BY <1>1, PromptReady
<1>3. QED
  BY <1>1, <1>2, LossFlow

-----------------------------------------------------------------------------
\* A user is handed its id, takes it and is entered in the map.

\* A step that only handles messages that no stage of a join waits for.
LEMMA BystanderFlow ==
    ASSUME NEW i \in Id, JoinGoesOn(i), userMap'[i] = userMap[i],
           \A m \in net : m.type \in NodeMsgType \cup {"key", "flag"} => m \in net',
           UNCHANGED <<gsk, finishVec, threeVec, fourVec, flagVec, revokeStarted, nodeUsers,
                       collected, tag, alpha, finals>>
    PROVE  JoinGoesOn(i)'
<1>1. \A p \in Participant : M!Ready(p, i) => M!Ready(p, i)'
  BY DEF M!Ready
<1>2. NodesTold(i)' /\ SharesSent(i)'
  BY <1>1, ToldFrame, SentFrame DEF JoinGoesOn, NodeMsgType
<1>3. KeyMade(i)' /\ KeyEncrypted(i)' /\ FlagsRaised(i)'
  BY MadeFrame, EncryptedFrame, RaisedFrame DEF JoinGoesOn, NodeMsgType
<1>4. QED
  BY <1>2, <1>3 DEF JoinGoesOn

LEMMA AskToJoinFlow ==
    ASSUME Parts, Parts', Flow, NEW u \in User, AskToJoin(u)
    PROVE  Flow'
<1> USE DEF Flow
<1> DEFINE start == StartFlag(u)
           new   == [type |-> "id", user |-> u, id |-> NextId]
<1>1. /\ u \in Waiting /\ start.type = "start"
      /\ net' = (net \ {start}) \cup {new}
      /\ gpkSent' = [gpkSent EXCEPT ![u] = gpk]
      /\ UNCHANGED <<userId, gsk, finishVec, threeVec, fourVec, flagVec, revokeStarted,
                     nodeUsers, collected, tag, alpha, finals>>
  BY DEF AskToJoin, ProxyPhaseOne, Waiting, StartFlag, userVars, nodeVars, mtaVars
<1>2. userMap' = userMap
  BY AskToJoinParts
<1>3. NextId \in Id
  <2>1. new \in Message
    BY <1>1 DEF Parts, IInv, TypeOK
  <2>2. QED
    BY <2>1 DEF Message, NodeMsgType
<1>4. \A i \in Id : ~ Handed(u, i)
  BY <1>1 DEF Parts, IInv, IdsHandedOnce
<1>5. \A v \in User : v # u => (Prompt(v)' <=> Prompt(v))
  BY <1>1 DEF Parts, Ties, Prompt
<1>6. RoundsBelong'
  BY <1>1, <1>2, BelongFrame DEF NodeMsgType
<1>7. PromptUsersKnown'
  <2>1. \E i \in Id : Handed(u, i)'
    <3>1. PICK i \in Id : i = NextId
      BY <1>3
    <3>2. Handed(u, i)'
      BY <1>1, <3>1 DEF Handed
    <3>3. QED
      BY <3>2
  <2>2. \A v \in User, i \in Id : Handed(v, i) => Handed(v, i)'
    BY <1>1 DEF Handed, StartFlag
  <2>3. \A i \in Id : userId'[u] # i
    BY <1>1, <1>4 DEF Handed
  <2>4. \A q \in net : q.type = "register" => q \in net'
    BY <1>1
  <2>5. QED
    BY <1>1, <1>2, <1>5, <2>1, <2>2, <2>3, <2>4 DEF PromptUsersKnown
<1>8. JoinsGoOn'
  <2>1. SUFFICES ASSUME NEW i \in Id, userMap'[i] # NoUser, Prompt(userMap[i])'
                 PROVE  JoinGoesOn(i)'
    BY <1>2 DEF JoinsGoOn, Prompt
  <2>2. userMap[i] \in User /\ Handed(userMap[i], i)
    BY <1>2, <2>1, EntryUser DEF Parts, Handed
  <2>3. JoinGoesOn(i)
    BY <1>2, <1>4, <1>5, <2>1, <2>2 DEF JoinsGoOn
  <2>4. \A m \in net : m.type \in NodeMsgType \cup {"key", "flag"} => m \in net'
    BY <1>1 DEF NodeMsgType
  <2>5. QED
    BY <1>1, <1>2, <2>3, <2>4, BystanderFlow
<1>9. QED
  BY <1>6, <1>7, <1>8

LEMMA UserPhaseTwoFlow ==
    ASSUME Parts, Flow, NEW m \in net, UserPhaseTwo(m), UNCHANGED ownVars
    PROVE  Flow'
<1> USE DEF Flow
<1> DEFINE reply == [m EXCEPT !.type = "register"]
<1>1. /\ m.type = "id"
      /\ userId' = [userId EXCEPT ![m.user] = m.id]
      /\ net' = (net \ {m}) \cup {reply}
      /\ UNCHANGED <<gpkSent, userMap, gsk, finishVec, threeVec, fourVec, flagVec,
                     revokeStarted, nodeUsers, collected, tag, alpha, finals>>
  BY DEF UserPhaseTwo, ownVars, proxyVars, nodeVars, mtaVars
<1>2. /\ m.user \in User /\ m.id \in Id
      /\ m = [type |-> "id", user |-> m.user, id |-> m.id]
      /\ reply = [type |-> "register", user |-> m.user, id |-> m.id]
  BY <1>1, Messages DEF Parts, IInv
<1> HIDE DEF reply
<1>3. /\ userId'[m.user] = m.id
      /\ \A v \in User : v # m.user => userId'[v] = userId[v]
  BY <1>1, <1>2 DEF Parts, IInv, TypeOK
<1>4. RoundsBelong'
  BY <1>1, <1>2, BelongFrame DEF NodeMsgType
<1>5. PromptUsersKnown'
  <2>1. SUFFICES ASSUME NEW v \in User, Prompt(v)
                 PROVE  /\ \E i \in Id : Handed(v, i)'
                        /\ \A i \in Id : userId'[v] = i =>
                              \/ [type |-> "register", user |-> v, id |-> i] \in net'
                              \/ userMap'[i] = v
                              \/ i \notin WithLeaf
    BY <1>1 DEF PromptUsersKnown, Prompt
  <2>2. CASE v = m.user
    BY <1>1, <1>2, <1>3, <2>2 DEF Handed
  <2>3. CASE v # m.user
    <3>1. \A i \in Id : [type |-> "id", user |-> v, id |-> i] # m
      BY <1>2, <2>3
    <3>2. \A i \in Id : Handed(v, i) => Handed(v, i)'
      BY <1>1, <1>3, <2>3, <3>1 DEF Handed
    <3>3. \A i \in Id : [type |-> "register", user |-> v, id |-> i] # m
      BY <1>1
    <3>4. QED
      BY <1>1, <1>3, <2>1, <2>3, <3>2, <3>3 DEF PromptUsersKnown
  <2>4. QED
    BY <2>2, <2>3
<1>6. JoinsGoOn'
  <2>1. \A q \in net : q.type \in NodeMsgType \cup {"key", "flag"} => q \in net'
    BY <1>1 DEF NodeMsgType
  <2>2. QED
    BY <1>1, <2>1, BystanderFlow, GoOnFrame
<1>7. QED
  BY <1>4, <1>5, <1>6

\* Nothing has come of an id that is not in the map: nothing has been done yet
\* of what its join is about.
LEMMA NothingYet ==
    ASSUME Parts, RoundsBelong, NEW i \in Id, userMap[i] = NoUser
    PROVE  /\ \A p \in Participant : ~ M!Ready(p, i) /\ alpha[p][i] = {}
           /\ finishVec[i] = {} /\ Received(i) = {}
           /\ threeVec[i] = {} /\ fourVec[i] = {}
           /\ "user" \notin flagVec[i]
<1> USE DEF Parts
<1>1. \A p \in Participant : ~ M!Ready(p, i)
  BY DEF IInv, NodesFollowMap
<1>2. \A p \in Participant : alpha[p][i] = {}
  BY <1>1 DEF M!Ready, DP!IInv, DP!AnswersFindParams
<1>3. \A f \in finals : f.sess # i
  BY <1>1, DelayedSound DEF Sound, M!TypeOK, M!Final
<1>4. finishVec[i] = {} /\ Received(i) = {}
  BY <1>3 DEF IInv, TypeOK, KeysFollowShares, Received
<1>5. threeVec[i] = {} /\ fourVec[i] = {}
  BY DEF RoundsBelong
<1>6. "user" \notin flagVec[i]
  <2>1. "user" \in flagVec[i] => Raises("user", i)
    BY DEF IInv, FlagsFollow
  <2>2. QED
    BY <2>1, JoinAssumption DEF Raises
<1>7. QED
  BY <1>1, <1>2, <1>4, <1>5, <1>6

LEMMA ProxyPhaseTwoFlow ==
    ASSUME Parts, Flow, NEW m \in net, ProxyPhaseTwo(m), HasLeaf(m.id), UNCHANGED ownVars
    PROVE  Flow'
<1> USE DEF Flow
<1>1. /\ m.type = "register" /\ m.user \in User /\ m.id \in Id
      /\ m = [type |-> "register", user |-> m.user, id |-> m.id]
      /\ userMap[m.id] = NoUser /\ userId[m.user] = m.id
      /\ userMap' = [userMap EXCEPT ![m.id] = m.user]
      /\ net' = (net \ {m}) \cup NodeMsg("two", Node, m.id)
      /\ UNCHANGED <<gpkSent, userId, gsk, finishVec, threeVec, fourVec, flagVec,
                     revokeStarted, nodeUsers, collected, tag, alpha, finals>>
  BY Messages DEF ProxyPhaseTwo, Announcement, ownVars, userVars, nodeVars, mtaVars,
                  Parts, IInv, MapFollowsIds
<1>2. /\ userMap'[m.id] = m.user /\ m.user # NoUser
      /\ \A i \in Id : i # m.id => userMap'[i] = userMap[i]
  BY <1>1, JoinAssumption DEF Parts, IInv, TypeOK
<1>3. \A q \in NodeMsg("two", Node, m.id) : q.type = "two" /\ q.id = m.id
  BY <1>1, NodeMessages DEF NodeMsgType
<1>4. \A q \in net : q.type # "register" => q \in net'
  BY <1>1
<1>5. RoundsBelong'
  <2>1. ASSUME NEW q \in net', q.type \in NodeMsgType
        PROVE  /\ userMap'[q.id] # NoUser
               /\ q.type \in {"three", "ackThree", "four", "ackFour"} => q.node \in Participant
    <3>1. CASE q \in net
      <4>1. q.id \in Id
        BY <2>1, <3>1, Messages DEF Parts, IInv
      <4>2. QED
        BY <1>2, <2>1, <3>1, <4>1 DEF RoundsBelong
    <3>2. CASE q \in NodeMsg("two", Node, m.id)
      BY <1>2, <1>3, <3>2
    <3>3. QED
      BY <1>1, <2>1, <3>1, <3>2
  <2>2. ASSUME NEW i \in Id
        PROVE  /\ threeVec[i] \cup fourVec[i] \subseteq Participant
               /\ threeVec[i] \cup fourVec[i] # {} => userMap'[i] # NoUser
    BY <1>2 DEF RoundsBelong
  <2>3. QED
    BY <1>1, <2>1, <2>2 DEF RoundsBelong
<1>6. PromptUsersKnown'
  <2>1. SUFFICES ASSUME NEW v \in User, Prompt(v)
                 PROVE  /\ \E i \in Id : Handed(v, i)'
                        /\ \A i \in Id : userId'[v] = i =>
                              \/ [type |-> "register", user |-> v, id |-> i] \in net'
                              \/ userMap'[i] = v
                              \/ i \notin WithLeaf
    BY <1>1 DEF PromptUsersKnown, Prompt
  <2>2. \A i \in Id : Handed(v, i) => Handed(v, i)'
    BY <1>1, <1>4 DEF Handed
  <2>3. ASSUME NEW i \in Id, userId[v] = i
        PROVE  \/ [type |-> "register", user |-> v, id |-> i] \in net'
               \/ userMap'[i] = v
               \/ i \notin WithLeaf
    <3>1. CASE userMap[i] = v
      BY <1>1, <1>2, <3>1, JoinAssumption
    <3>2. CASE [type |-> "register", user |-> v, id |-> i] = m
      BY <1>1, <1>2, <3>2
    <3>3. QED
      BY <1>1, <2>1, <2>3, <3>1, <3>2 DEF PromptUsersKnown
  <2>4. QED
    BY <1>1, <2>1, <2>2, <2>3 DEF PromptUsersKnown
<1>7. JoinsGoOn'
  <2>1. SUFFICES ASSUME NEW i \in Id, userMap'[i] # NoUser, Prompt(userMap'[i])
                 PROVE  JoinGoesOn(i)'
    BY <1>1 DEF JoinsGoOn, Prompt
  <2>2. CASE i # m.id
    <3>1. userMap'[i] = userMap[i] /\ JoinGoesOn(i)
      BY <1>2, <2>1, <2>2 DEF JoinsGoOn
    <3>2. \A q \in net : q.type \in NodeMsgType \cup {"key", "flag"} => q \in net'
      BY <1>4 DEF NodeMsgType
    <3>3. QED
      BY <1>1, <3>1, <3>2, BystanderFlow
  <2>3. CASE i = m.id
    <3> USE <2>3
    <3>1. /\ \A p \in Participant : alpha[p][i] = {}
          /\ finishVec[i] = {} /\ Received(i) = {} /\ threeVec[i] = {} /\ fourVec[i] = {}
          /\ "user" \notin flagVec[i]
      BY <1>1, NothingYet
    <3>2. NodesTold(i)'
      BY <1>1 DEF NodesTold, InFlight, NodeMsg
    <3>3. SharesSent(i)'
      BY <1>1, <3>1, Everybody DEF SharesSent, M!Others
    <3>4. ~ HasShares(i)' /\ Received(i)' = Received(i)
      BY <1>1, <3>1, CountsNatural DEF HasShares, Received
    <3>5. KeyMade(i)'
      BY <1>1, <3>1, <3>4 DEF KeyMade
    <3>6. KeyEncrypted(i)'
      BY <1>1, <3>1, CountsNatural DEF KeyEncrypted
    <3>7. gsk[m.user] = {}
      BY <1>1, <1>2 DEF Parts, IInv, KeysFollowShares, KeyOf
    <3>8. flagVec[i] # Flag
      BY <3>1 DEF Flag
    <3>9. FlagsRaised(i)'
      BY <1>1, <1>2, <3>7, <3>8 DEF FlagsRaised
    <3>10. QED
      BY <3>2, <3>3, <3>5, <3>6, <3>9 DEF JoinGoesOn
  <2>4. QED
    BY <2>2, <2>3
<1>8. QED
  BY <1>5, <1>6, <1>7

\* Who has no leaf is not entered: the message is lost, and no other.
LEMMA NoLeafFlow ==
    ASSUME Parts, Flow, NEW m \in net, ProxyPhaseTwo(m), ~ HasLeaf(m.id), UNCHANGED ownVars
    PROVE  Flow'
<1> USE DEF Flow
<1>1. /\ m.type = "register" /\ m.id \in Id /\ m.id \notin WithLeaf
      /\ net' = net \ {m}
      /\ UNCHANGED <<gpkSent, userMap, userId, gsk, finishVec, threeVec, fourVec, flagVec,
                     revokeStarted, nodeUsers, collected, tag, alpha, finals>>
  BY Messages, LeafOfId DEF ProxyPhaseTwo, ownVars, userVars, nodeVars, mtaVars, Parts, IInv
<1>2. RoundsBelong'
  BY <1>1, BelongFrame DEF NodeMsgType
<1>3. PromptUsersKnown'
  <2>1. \A v \in User, i \in Id : Handed(v, i) => Handed(v, i)'
    BY <1>1 DEF Handed
  <2>2. \A v \in User, i \in WithLeaf : [type |-> "register", user |-> v, id |-> i] # m
    BY <1>1
  <2>3. QED
    BY <1>1, <2>1, <2>2 DEF PromptUsersKnown, Prompt
<1>4. JoinsGoOn'
  <2>1. \A q \in net : q.type \in NodeMsgType \cup {"key", "flag"} => q \in net'
    BY <1>1 DEF NodeMsgType
  <2>2. QED
    BY <1>1, <2>1, BystanderFlow, GoOnFrame
<1>5. QED
  BY <1>2, <1>3, <1>4

-----------------------------------------------------------------------------
\* The nodes are told, and the participants exchange their terms.

LEMMA EnterUserFlow ==
    ASSUME Parts, Flow, NEW m \in net, EnterUser(m)
    PROVE  Flow'
<1> USE DEF Flow
<1>1. /\ m.type = "two" /\ m.node \in Node /\ m.id \in Id
      /\ net' = net \ {m}
      /\ nodeUsers' = [nodeUsers EXCEPT ![m.node] = @ \cup {m.id}]
      /\ UNCHANGED <<gpkSent, userMap, userId, gsk, finishVec, threeVec, fourVec, flagVec,
                     revokeStarted, collected, finals>>
      /\ \/ /\ m.node \in Participant
            /\ tag' = [tag EXCEPT ![m.node][m.id] = "ready"]
            /\ alpha' = [alpha EXCEPT ![m.node][m.id] = {}]
         \/ m.node \notin Participant /\ tag' = tag /\ alpha' = alpha
  BY Messages DEF EnterUser, NodePhaseTwo, M!Begin, M!FreshShare, Parts, IInv, NodeMsgType,
                  ownVars, proxyVars, userVars, mtaVars
<1>2. m = [type |-> "two", node |-> m.node, id |-> m.id]
  BY <1>1, Messages DEF Parts, IInv, NodeMsgType
<1>3. /\ \A n \in Node : nodeUsers[n] \subseteq nodeUsers'[n]
      /\ m.id \in nodeUsers'[m.node]
  BY <1>1 DEF Parts, IInv, TypeOK
<1>4. /\ \A p \in Participant, i \in Id : M!Ready(p, i) => M!Ready(p, i)'
      /\ m.node \in Participant => tag'[m.node][m.id] = "ready"
      /\ \A p \in Participant, i \in Id : alpha'[p][i] = alpha[p][i] \/ alpha'[p][i] = {}
  <2>1. /\ tag \in [Participant -> [Id -> {"absent", "early", "ready"}]]
        /\ alpha \in [Participant -> [Id -> SUBSET Participant]]
    BY DEF Parts, IInv, TypeOK, M!TypeOK, M!PartySets
  <2>2. CASE m.node \in Participant
    <3>1. tag'[m.node][m.id] = "ready" /\ alpha'[m.node][m.id] = {}
      BY <1>1, <2>1, <2>2
    <3>2. ASSUME NEW p \in Participant, NEW i \in Id, ~ (p = m.node /\ i = m.id)
          PROVE  tag'[p][i] = tag[p][i] /\ alpha'[p][i] = alpha[p][i]
      <4>1. CASE p = m.node
        BY <1>1, <2>1, <2>2, <3>2, <4>1
      <4>2. CASE p # m.node
        BY <1>1, <2>1, <2>2, <4>2
      <4>3. QED
        BY <4>1, <4>2
    <3>3. QED
      BY <3>1, <3>2 DEF M!Ready
  <2>3. QED
    BY <1>1, <2>2 DEF M!Ready
<1>5. RoundsBelong' /\ PromptUsersKnown'
  BY <1>1, BelongFrame, KnownFrame
<1>6. ASSUME NEW i \in Id, userMap[i] # NoUser, Prompt(userMap[i]), JoinGoesOn(i)
      PROVE  JoinGoesOn(i)'
  <2>1. NodesTold(i)'
    <3>1. SUFFICES ASSUME NEW n \in Node
                   PROVE  \/ [type |-> "two", node |-> n, id |-> i] \in net'
                          \/ i \in nodeUsers'[n] /\ (n \in Participant => tag'[n][i] = "ready")
      BY DEF NodesTold, InFlight, M!Ready
    <3>2. CASE n = m.node /\ i = m.id
      BY <1>3, <1>4, <3>2
    <3>3. CASE ~ (n = m.node /\ i = m.id)
      <4>1. [type |-> "two", node |-> n, id |-> i] # m
        BY <3>3
      <4>2. CASE InFlight("two", n, i)
        BY <1>1, <4>1, <4>2 DEF InFlight
      <4>3. CASE i \in nodeUsers[n] /\ (n \in Participant => M!Ready(n, i))
        BY <1>3, <1>4, <4>3 DEF M!Ready
      <4>4. QED
        BY <1>6, <4>2, <4>3 DEF JoinGoesOn, NodesTold
    <3>4. QED
      BY <3>2, <3>3
  <2>2. SharesSent(i)'
    <3>1. \A p \in Participant : alpha'[p][i] = Participant \ {p} => alpha'[p][i] = alpha[p][i]
      BY <1>4, Everybody DEF M!Others
    <3>2. QED
      BY <1>1, <1>6, <3>1 DEF JoinGoesOn, SharesSent, M!Others, M!SentFinal
  <2>3. \A q \in net : q.type # "two" => q \in net'
    BY <1>1
  <2>4. KeyMade(i)' /\ KeyEncrypted(i)' /\ FlagsRaised(i)'
    BY <1>1, <1>6, <2>3, MadeFrame, EncryptedFrame, RaisedFrame DEF JoinGoesOn
  <2>5. QED
    BY <2>1, <2>2, <2>4 DEF JoinGoesOn
<1>7. JoinsGoOn'
  BY <1>1, <1>6, GoOnFrame
<1>8. QED
  BY <1>5, <1>7

\* A party that comes to hold every other's term sends its share.
LEMMA LastAnswer ==
    ASSUME Parts, NEW m \in twoMsgs, M!RecvTwo(m), NEW p \in Participant, NEW i \in Id,
           alpha[p][i] = M!Others(p) => M!SentFinal(p, i),
           alpha'[p][i] = M!Others(p)
    PROVE  M!SentFinal(p, i)'
<1> DEFINE terms == alpha[m.to][m.sess] \cup {m.from}
           got == answered[m.to][m.sess] \cup {m.from}
<1>1. /\ alpha' = [alpha EXCEPT ![m.to][m.sess] = terms]
      /\ finals \subseteq finals'
      /\ M!HasAnswers(got) => M!FinalMsg(m.to, m.sess, terms) \in finals'
  BY DEF M!RecvTwo
<1>2. m.to \in Participant /\ m.sess \in Id /\ alpha \in [Participant -> [Id -> SUBSET Participant]]
  BY DEF Parts, IInv, TypeOK, M!TypeOK, M!PartySets, M!Msg
<1>3. CASE M!SentFinal(p, i)
  BY <1>1, <1>3 DEF M!SentFinal
<1>4. CASE ~ M!SentFinal(p, i)
  <2>1. m.to = p /\ m.sess = i
    BY <1>1, <1>2, <1>4
  <2>2. terms = M!Others(p)
    BY <1>1, <1>2, <2>1
  <2>3. answered[p][i] = alpha[p][i]
    BY <1>4 DEF Parts, DP!IInv, DP!AnswersCounted, DP!SentFinal, M!SentFinal
  <2>4. got = M!Others(p)
    BY <2>1, <2>2, <2>3
  <2>5. \A S : M!Cardinality(S) = Cardinality(S)
    BY DEF M!Cardinality, Cardinality
  <2>6. M!HasAnswers(got)
    BY <2>4, <2>5, Everybody DEF M!HasAnswers
  <2>7. M!FinalMsg(m.to, m.sess, terms) \in finals'
    BY <1>1, <2>6
  <2>8. M!FinalMsg(m.to, m.sess, terms).from = p /\ M!FinalMsg(m.to, m.sess, terms).sess = i
    BY <2>1 DEF M!FinalMsg
  <2>9. QED
    BY <2>7, <2>8 DEF M!SentFinal
<1>5. QED
  BY <1>3, <1>4

LEMMA ExchangeFlow ==
    ASSUME Parts, Flow, Exchange
    PROVE  Flow'
<1> USE DEF Flow
<1>1. UNCHANGED <<gpkSent, userMap, userId, gsk, finishVec, threeVec, fourVec, flagVec, net,
                  revokeStarted, collected, nodeUsers>>
  BY DEF Exchange, ownVars, proxyVars, userVars, nodeVars
<1>2. \A p \in Participant, i \in Id : M!Ready(p, i) => M!Ready(p, i)'
  <2>1. ASSUME NEW k \in oneMsgs, M!HoldOne(k), NEW p \in Participant, NEW i \in Id, M!Ready(p, i)
        PROVE  M!Ready(p, i)'
    BY <2>1 DEF M!HoldOne, M!Ready, Parts, IInv, TypeOK, M!TypeOK
  <2>2. (\E k \in oneMsgs : M!AnswerOne(k)) \/ (\E k \in twoMsgs : M!RecvTwo(k)) => tag' = tag
    BY DEF M!AnswerOne, M!RecvTwo
  <2>3. QED
    BY <2>1, <2>2 DEF Exchange, M!Ready
<1>3. ASSUME NEW i \in Id, SharesSent(i) PROVE SharesSent(i)'
  <2>1. CASE \E k \in twoMsgs : M!RecvTwo(k)
    <3>1. ASSUME NEW p \in Participant, alpha'[p][i] = M!Others(p)
          PROVE  M!SentFinal(p, i)'
      BY <1>3, <2>1, <3>1, LastAnswer DEF SharesSent
    <3>2. QED
      BY <3>1 DEF SharesSent, M!Others
  <2>2. CASE \E k \in oneMsgs : M!HoldOne(k) \/ M!AnswerOne(k)
    <3>1. UNCHANGED <<alpha, finals>>
      BY <2>2 DEF M!HoldOne, M!AnswerOne, M!shares
    <3>2. QED
      BY <1>3, <3>1, SentFrame
  <2>3. QED
    BY <2>1, <2>2 DEF Exchange
<1>4. RoundsBelong' /\ PromptUsersKnown'
  BY <1>1, BelongFrame, KnownFrame
<1>5. ASSUME NEW i \in Id, userMap[i] # NoUser, Prompt(userMap[i]), JoinGoesOn(i)
      PROVE  JoinGoesOn(i)'
  <2>1. NodesTold(i)' /\ SharesSent(i)'
    BY <1>1, <1>2, <1>3, <1>5, ToldFrame DEF JoinGoesOn
  <2>2. KeyMade(i)' /\ KeyEncrypted(i)' /\ FlagsRaised(i)'
    BY <1>1, <1>5, MadeFrame, EncryptedFrame, RaisedFrame DEF JoinGoesOn
  <2>3. QED
    BY <2>1, <2>2 DEF JoinGoesOn
<1>6. QED
  BY <1>1, <1>4, <1>5, GoOnFrame

-----------------------------------------------------------------------------
\* The key is made and the participants encrypt it.

LEMMA ContributeFlow ==
    ASSUME Parts, Flow, NEW m \in net, Contribute(m)
    PROVE  Flow'
<1> USE DEF Flow
<1> DEFINE ack == [m EXCEPT !.type = AckOf[m.type]]
<1>1. /\ m.type \in {"three", "four"}
      /\ net' = (net \ {m}) \cup {ack}
      /\ UNCHANGED <<gpkSent, userMap, userId, gsk, finishVec, threeVec, fourVec, flagVec,
                     revokeStarted, nodeUsers, collected, tag, alpha, finals>>
  BY DEF Contribute, NodeContribute, AckOf, ownVars, proxyVars, userVars, nodeVars, mtaVars
<1>2. /\ m.node \in Node /\ m.id \in Id
      /\ m = [type |-> m.type, node |-> m.node, id |-> m.id]
  BY <1>1, Messages DEF Parts, IInv, NodeMsgType
<1>3. \/ /\ m = [type |-> "three", node |-> m.node, id |-> m.id]
         /\ ack = [type |-> "ackThree", node |-> m.node, id |-> m.id]
      \/ /\ m = [type |-> "four", node |-> m.node, id |-> m.id]
         /\ ack = [type |-> "ackFour", node |-> m.node, id |-> m.id]
  BY <1>1, <1>2 DEF AckOf
<1> HIDE DEF ack
<1>4. RoundsBelong'
  <2>1. m.node \in Participant /\ userMap[m.id] # NoUser
    BY <1>1 DEF RoundsBelong, NodeMsgType
  <2>2. ack.node = m.node /\ ack.id = m.id
    BY <1>3
  <2>3. QED
    BY <1>1, <2>1, <2>2 DEF RoundsBelong
<1>5. PromptUsersKnown'
  BY <1>1, KnownFrame
<1>6. ASSUME NEW i \in Id, userMap[i] # NoUser, Prompt(userMap[i]), JoinGoesOn(i)
      PROVE  JoinGoesOn(i)'
  <2>1. \A q \in net : q.type \notin {"three", "four"} => q \in net'
    BY <1>1
  <2>2. \A p \in Participant : M!Ready(p, i) => M!Ready(p, i)'
    BY <1>1 DEF M!Ready
  <2>3. NodesTold(i)' /\ SharesSent(i)' /\ FlagsRaised(i)'
    BY <1>1, <1>6, <2>1, <2>2, ToldFrame, SentFrame, RaisedFrame DEF JoinGoesOn
  <2>4. ASSUME NEW p \in Participant
        PROVE  /\ InFlight("three", p, i) \/ InFlight("ackThree", p, i)
                     => (InFlight("three", p, i) \/ InFlight("ackThree", p, i))'
               /\ InFlight("four", p, i) \/ InFlight("ackFour", p, i)
                     => (InFlight("four", p, i) \/ InFlight("ackFour", p, i))'
    BY <1>1, <1>3 DEF InFlight
  <2>5. KeyMade(i)'
    BY <1>1, <1>6, <2>1, <2>4 DEF JoinGoesOn, KeyMade, HasShares, Received, RoundGoesOn
  <2>6. KeyEncrypted(i)'
    <3>1. Participant \subseteq threeVec[i] =>
             \A p \in Participant :
                 InFlight("four", p, i)' \/ InFlight("ackFour", p, i)' \/ p \in fourVec[i]
      BY <1>6, <2>4 DEF JoinGoesOn, KeyEncrypted, RoundGoesOn
    <3>2. InOrder /\ Participant \subseteq fourVec[i] =>
             \A n \in Node : InFlight("five", n, i)' \/ FlagInFlight(n, i)' \/ n \in flagVec[i]
      BY <1>6, <2>1 DEF JoinGoesOn, KeyEncrypted, InFlight, FlagInFlight
    <3>3. QED
      BY <1>1, <3>1, <3>2 DEF KeyEncrypted, RoundGoesOn
  <2>7. QED
    BY <2>3, <2>5, <2>6 DEF JoinGoesOn
<1>7. QED
  BY <1>1, <1>4, <1>5, <1>6, GoOnFrame

\* Shares of an id are as many as the participants when they are all of them.
LEMMA AllSent ==
    ASSUME Sound, NEW i \in Id, NEW vec \in SUBSET finals, \A f \in vec : f.sess = i
    PROVE  FromParticipants(vec) <=> {f.from : f \in vec} = Participant
<1> DEFINE from == [f \in vec |-> f.from]
<1>1. from \in [vec -> Participant]
  BY DEF Sound, M!TypeOK, M!Final
<1>2. \A f, g \in vec : from[f] = from[g] => f = g
  BY DEF Sound, M!OneFinalEach
<1>3. from \in Injection(vec, Participant)
  BY <1>1, <1>2 DEF Injection, IsInjective
<1>4. Cardinality(vec) = Cardinality(Participant) <=> from \in Surjection(vec, Participant)
  BY <1>3, CountsNatural, FS_Injection
<1>5. from \in Surjection(vec, Participant) <=> {f.from : f \in vec} = Participant
  BY <1>1 DEF Surjection
<1>6. QED
  BY <1>4, <1>5 DEF FromParticipants

LEMMA ProxyPhaseThreeFlow ==
    ASSUME Parts, Flow, NEW f \in finals, ProxyPhaseThree(f), UNCHANGED ownVars
    PROVE  Flow'
<1> USE DEF Flow
<1> DEFINE j   == f.sess
           vec == finishVec[j] \cup {f}
           key == [type |-> "key", user |-> userMap[j], shares |-> vec]
           ask == NodeMsg("three", Participant, j)
<1>1. Sound /\ M!TypeOK /\ IInv
  BY DelayedSound DEF Parts
<1>2. /\ f.from \in Participant /\ j \in Id /\ f \notin collected
      /\ userMap[j] # NoUser
  BY <1>1 DEF Sound, M!TypeOK, M!Final, IInv, NodesFollowMap, ProxyPhaseThree
<1>3. /\ collected' = collected \cup {f}
      /\ UNCHANGED <<gpkSent, userMap, userId, gsk, threeVec, fourVec, flagVec, revokeStarted,
                     nodeUsers, tag, alpha, finals>>
      /\ IF FromParticipants(vec)
         THEN finishVec' = [finishVec EXCEPT ![j] = {}] /\ net' = net \cup {key} \cup ask
         ELSE finishVec' = [finishVec EXCEPT ![j] = vec] /\ net' = net
  BY DEF ProxyPhaseThree, KeyFor, ownVars, userVars, nodeVars, mtaVars
<1>4. vec \in SUBSET finals /\ \A g \in vec : g.sess = j
  BY <1>1, <1>2 DEF IInv, KeysFollowShares, TypeOK
<1>5. \A q \in ask : q.type = "three" /\ q.id = j /\ q.node \in Participant
  BY DEF NodeMsg
<1>6. \A n \in Participant : [type |-> "three", node |-> n, id |-> j] \in ask
  BY DEF NodeMsg
<1>7. FromParticipants(vec) <=> {g.from : g \in vec} = Participant
  BY <1>1, <1>2, <1>4, AllSent
<1>8. key.type = "key" /\ key.user = userMap[j]
  OBVIOUS
<1>9. finishVec'[j] = (IF FromParticipants(vec) THEN {} ELSE vec)
  BY <1>1, <1>2, <1>3 DEF IInv, TypeOK
<1>10. \A i \in Id : i # j => finishVec'[i] = finishVec[i]
  BY <1>1, <1>3 DEF IInv, TypeOK
<1> HIDE DEF vec, key, ask
<1>11. RoundsBelong'
  <2>1. \A q \in net' : q.type \in NodeMsgType =>
           q \in net \/ (q.type = "three" /\ q.id = j /\ q.node \in Participant)
    BY <1>3, <1>5, <1>8 DEF NodeMsgType
  <2>2. QED
    BY <1>2, <1>3, <2>1 DEF RoundsBelong
<1>12. PromptUsersKnown'
  BY <1>3, KnownFrame
<1>13. ASSUME NEW i \in Id, userMap[i] # NoUser, Prompt(userMap[i]), JoinGoesOn(i)
       PROVE  JoinGoesOn(i)'
  <2>1. net \subseteq net'
    BY <1>3
  <2>2. \A p \in Participant : M!Ready(p, i) => M!Ready(p, i)'
    BY <1>3 DEF M!Ready
  <2>3. NodesTold(i)' /\ SharesSent(i)' /\ KeyEncrypted(i)' /\ FlagsRaised(i)'
    BY <1>3, <1>13, <2>1, <2>2, ToldFrame, SentFrame, EncryptedFrame, RaisedFrame
    DEF JoinGoesOn
  <2>4. KeyMade(i) /\ collected \subseteq finals
    BY <1>1, <1>13 DEF JoinGoesOn, IInv, TypeOK
  <2>5. CASE i # j
    <3>1. Received(i)' = Received(i)
      BY <1>3, <2>5 DEF Received
    <3>2. HasShares(i)' <=> HasShares(i)
      BY <3>1 DEF HasShares
    <3>3. QED
      BY <1>3, <1>10, <2>1, <2>3, <2>4, <2>5, <3>1, <3>2
      DEF KeyMade, RoundGoesOn, InFlight, JoinGoesOn
  <2>6. CASE i = j
    <3>1. Received(j)' = Received(j) \cup {f}
      BY <1>3 DEF Received
    <3>2. ~ HasShares(j)
      BY <1>1, <1>2, <2>4 DEF HasShares, Received, Sound, M!OneFinalEach
    <3>3. vec = Received(j)'
      BY <2>4, <2>6, <3>1, <3>2 DEF KeyMade, vec
    <3>4. HasShares(j)' <=> FromParticipants(vec)
      BY <1>7, <3>3 DEF HasShares
    <3>5. CASE FromParticipants(vec)
      <4>1. \A n \in Participant : InFlight("three", n, j)'
        BY <1>3, <1>6, <3>5 DEF InFlight
      <4>2. \E q \in net' : q.type = "key" /\ q.user = userMap[j]
        BY <1>3, <1>8, <3>5
      <4>3. QED
        BY <1>3, <2>3, <2>6, <3>4, <3>5, <4>1, <4>2 DEF KeyMade, RoundGoesOn, JoinGoesOn
    <3>6. CASE ~ FromParticipants(vec)
      BY <1>9, <2>3, <2>6, <3>3, <3>4, <3>6 DEF KeyMade, JoinGoesOn
    <3>7. QED
      BY <3>5, <3>6
  <2>7. QED
    BY <2>5, <2>6
<1>14. QED
  BY <1>3, <1>11, <1>12, <1>13, GoOnFrame

LEMMA UserPhaseThreeFlow ==
    ASSUME Parts, Flow, NEW m \in net, UserPhaseThree(m), UNCHANGED ownVars
    PROVE  Flow'
<1> USE DEF Flow
<1> DEFINE u    == m.user
           flag == UserFlag(userId[u])
<1>1. /\ m.type = "key"
      /\ gsk' = [gsk EXCEPT ![u] = m.shares]
      /\ net' = (net \ {m}) \cup {flag}
      /\ flag = [type |-> "flag", by |-> "user", id |-> userId[u]]
      /\ UNCHANGED <<gpkSent, userMap, userId, finishVec, threeVec, fourVec, flagVec,
                     revokeStarted, nodeUsers, collected, tag, alpha, finals>>
  BY DEF UserPhaseThree, UserFlag, ownVars, proxyVars, nodeVars, mtaVars
<1>2. u \in User /\ KeyOf(u, m.shares)
  BY <1>1, Messages DEF Parts, IInv, KeysFollowShares
<1>3. m.shares # {}
  BY <1>2, CountsNatural DEF KeyOf
<1>4. gsk'[u] = m.shares /\ \A v \in User : v # u => gsk'[v] = gsk[v]
  BY <1>1, <1>2 DEF Parts, IInv, TypeOK
<1> HIDE DEF flag
<1>5. \A q \in net : q.type # "key" \/ q.user # u => q \in net'
  BY <1>1
<1>6. RoundsBelong' /\ PromptUsersKnown'
  BY <1>1, <1>5, BelongFrame, KnownFrame DEF NodeMsgType
<1>7. ASSUME NEW i \in Id, userMap[i] # NoUser, Prompt(userMap[i]), JoinGoesOn(i)
      PROVE  JoinGoesOn(i)'
  <2>1. userMap[i] \in User /\ userId[userMap[i]] = i
    BY <1>7, EntryUser DEF Parts
  <2>2. \A p \in Participant : M!Ready(p, i) => M!Ready(p, i)'
    BY <1>1 DEF M!Ready
  <2>3. \A q \in net : q.type \in NodeMsgType \cup {"flag"} => q \in net'
    BY <1>5 DEF NodeMsgType
  <2>4. NodesTold(i)' /\ SharesSent(i)' /\ KeyEncrypted(i)'
    BY <1>1, <1>7, <2>2, <2>3, ToldFrame, SentFrame, EncryptedFrame
    DEF JoinGoesOn, NodeMsgType
  <2>5. KeyMade(i)'
    <3>1. /\ Received(i)' = Received(i)
          /\ HasShares(i)' <=> HasShares(i)
      BY <1>1 DEF Received, HasShares
    <3>2. \/ gsk'[userMap[i]] # {}
          \/ userMap[i] # u /\ gsk'[userMap[i]] = gsk[userMap[i]]
      BY <1>3, <1>4, <2>1
    <3>3. HasShares(i) => \/ gsk'[userMap[i]] # {}
                          \/ \E q \in net' : q.type = "key" /\ q.user = userMap[i]
      BY <1>5, <1>7, <3>2 DEF JoinGoesOn, KeyMade
    <3>4. HasShares(i) => \A p \in Participant : \/ InFlight("three", p, i)'
                                                 \/ InFlight("ackThree", p, i)'
                                                 \/ p \in threeVec[i]
      BY <1>7, <2>3 DEF JoinGoesOn, KeyMade, RoundGoesOn, InFlight, NodeMsgType
    <3>5. QED
      BY <1>1, <1>7, <3>1, <3>3, <3>4 DEF JoinGoesOn, KeyMade, RoundGoesOn
  <2>6. FlagsRaised(i)'
    <3>1. CASE userMap[i] = u
      BY <1>1, <1>7, <2>1, <3>1 DEF FlagsRaised, FlagInFlight, JoinGoesOn
    <3>2. CASE userMap[i] # u
      BY <1>1, <1>4, <1>7, <2>1, <2>3, <3>2 DEF FlagsRaised, FlagInFlight, JoinGoesOn
    <3>3. QED
      BY <3>1, <3>2
  <2>7. QED
    BY <2>4, <2>5, <2>6 DEF JoinGoesOn
<1>8. QED
  BY <1>1, <1>6, <1>7, GoOnFrame

\* A round that every participant has answered leads to the next.
LEMMA AllAnswered ==
    ASSUME NEW vec \in SUBSET Participant, Participant \subseteq vec
    PROVE  FromParticipants(vec)
BY DEF FromParticipants

LEMMA ProxyPhaseFourFlow ==
    ASSUME Parts, Flow, NEW m \in net, ProxyPhaseFour(m), UNCHANGED ownVars
    PROVE  Flow'
<1> USE DEF Flow
<1> DEFINE vec == threeVec[m.id] \cup {m.node}
           new == IF FromParticipants(vec) THEN SecondRound(m.id) ELSE {}
<1>1. /\ m.type = "ackThree"
      /\ threeVec' = [threeVec EXCEPT ![m.id] = vec]
      /\ net' = (net \ {m}) \cup new
      /\ UNCHANGED <<gpkSent, userMap, userId, gsk, finishVec, fourVec, flagVec,
                     revokeStarted, nodeUsers, collected, tag, alpha, finals>>
  BY DEF ProxyPhaseFour, ownVars, userVars, nodeVars, mtaVars
<1>2. /\ m.node \in Participant /\ m.id \in Id /\ userMap[m.id] # NoUser
      /\ m = [type |-> "ackThree", node |-> m.node, id |-> m.id]
  BY <1>1, Messages DEF Parts, IInv, NodeMsgType, RoundsBelong
<1>3. threeVec'[m.id] = vec /\ \A i \in Id : i # m.id => threeVec'[i] = threeVec[i]
  BY <1>1, <1>2 DEF Parts, IInv, TypeOK
<1>4. vec \subseteq Participant
  BY <1>2 DEF RoundsBelong
<1>5. \A q \in new : q.type = "four" /\ q.id = m.id /\ q.node \in Participant
  BY DEF SecondRound, NodeMsg
<1>6. Participant \subseteq vec =>
         \A p \in Participant : [type |-> "four", node |-> p, id |-> m.id] \in new
  BY <1>4, AllAnswered DEF SecondRound, NodeMsg
<1> HIDE DEF vec, new
<1>7. RoundsBelong'
  <2>1. \A q \in net' : q.type \in NodeMsgType =>
           q \in net \/ (q.id = m.id /\ q.node \in Participant)
    BY <1>1, <1>5
  <2>2. \A q \in net' : q.type \in NodeMsgType =>
           /\ userMap'[q.id] # NoUser
           /\ q.type \in {"three", "ackThree", "four", "ackFour"} => q.node \in Participant
    BY <1>1, <1>2, <2>1 DEF RoundsBelong
  <2>3. \A i \in Id : /\ threeVec'[i] \cup fourVec'[i] \subseteq Participant
                      /\ threeVec'[i] \cup fourVec'[i] # {} => userMap'[i] # NoUser
    BY <1>1, <1>2, <1>3, <1>4 DEF RoundsBelong
  <2>4. QED
    BY <2>2, <2>3 DEF RoundsBelong
<1>8. PromptUsersKnown'
  BY <1>1, KnownFrame
<1>9. ASSUME NEW i \in Id, userMap[i] # NoUser, Prompt(userMap[i]), JoinGoesOn(i)
      PROVE  JoinGoesOn(i)'
  <2>1. \A q \in net : q # m => q \in net'
    BY <1>1
  <2>2. \A p \in Participant : M!Ready(p, i) => M!Ready(p, i)'
    BY <1>1 DEF M!Ready
  <2>3. \A q \in net : q.type # "ackThree" => q \in net'
    BY <1>1
  <2>4. NodesTold(i)' /\ SharesSent(i)' /\ FlagsRaised(i)'
    BY <1>1, <1>9, <2>2, <2>3, ToldFrame, SentFrame, RaisedFrame DEF JoinGoesOn
  <2>5. KeyMade(i)'
    <3>1. \A p \in Participant :
             InFlight("three", p, i) \/ InFlight("ackThree", p, i) \/ p \in threeVec[i]
               => InFlight("three", p, i)' \/ InFlight("ackThree", p, i)' \/ p \in threeVec'[i]
      <4>1. ASSUME NEW p \in Participant, InFlight("ackThree", p, i)
            PROVE  InFlight("ackThree", p, i)' \/ p \in threeVec'[i]
        <5>1. CASE [type |-> "ackThree", node |-> p, id |-> i] = m
          BY <1>3, <5>1 DEF vec
        <5>2. CASE [type |-> "ackThree", node |-> p, id |-> i] # m
          BY <2>1, <4>1, <5>2 DEF InFlight
        <5>3. QED
          BY <5>1, <5>2
      <4>2. threeVec[i] \subseteq threeVec'[i]
        BY <1>3 DEF vec
      <4>3. QED
        BY <2>3, <4>1, <4>2 DEF InFlight
    <3>2. \A q \in net : q.type = "key" => q \in net'
      BY <1>1
    <3>3. QED
      BY <1>1, <1>9, <3>1, <3>2 DEF JoinGoesOn, KeyMade, HasShares, Received, RoundGoesOn
  <2>6. KeyEncrypted(i)'
    <3>1. InOrder /\ Participant \subseteq fourVec[i] =>
             \A n \in Node : InFlight("five", n, i)' \/ FlagInFlight(n, i)' \/ n \in flagVec[i]
      BY <1>9, <2>3 DEF JoinGoesOn, KeyEncrypted, InFlight, FlagInFlight
    <3>2. CASE i = m.id
      <4>1. Participant \subseteq threeVec'[i] =>
               \A p \in Participant : InFlight("four", p, i)'
        BY <1>1, <1>3, <1>6, <3>2 DEF InFlight
      <4>2. QED
        BY <1>1, <3>1, <4>1 DEF KeyEncrypted, RoundGoesOn
    <3>3. CASE i # m.id
      <4>1. Participant \subseteq threeVec[i] =>
             \A p \in Participant :
                 InFlight("four", p, i)' \/ InFlight("ackFour", p, i)' \/ p \in fourVec[i]
        BY <1>9, <2>3 DEF JoinGoesOn, KeyEncrypted, RoundGoesOn, InFlight
      <4>2. QED
        BY <1>1, <1>3, <3>1, <3>3, <4>1 DEF KeyEncrypted, RoundGoesOn
    <3>4. QED
      BY <3>2, <3>3
  <2>7. QED
    BY <2>4, <2>5, <2>6 DEF JoinGoesOn
<1>10. QED
  BY <1>1, <1>7, <1>8, <1>9, GoOnFrame

LEMMA ProxyPhaseFiveFlow ==
    ASSUME Parts, Flow, NEW m \in net, ProxyPhaseFive(m), UNCHANGED ownVars
    PROVE  Flow'
<1> USE DEF Flow
<1> DEFINE vec == fourVec[m.id] \cup {m.node}
           new == IF FromParticipants(vec) THEN EncryptedKey(m.id) ELSE {}
<1>1. /\ m.type = "ackFour"
      /\ fourVec' = [fourVec EXCEPT ![m.id] = vec]
      /\ net' = (net \ {m}) \cup new
      /\ UNCHANGED <<gpkSent, userMap, userId, gsk, finishVec, threeVec, flagVec,
                     revokeStarted, nodeUsers, collected, tag, alpha, finals>>
  BY DEF ProxyPhaseFive, ownVars, userVars, nodeVars, mtaVars
<1>2. /\ m.node \in Participant /\ m.id \in Id /\ userMap[m.id] # NoUser
      /\ m = [type |-> "ackFour", node |-> m.node, id |-> m.id]
  BY <1>1, Messages DEF Parts, IInv, NodeMsgType, RoundsBelong
<1>3. fourVec'[m.id] = vec /\ \A i \in Id : i # m.id => fourVec'[i] = fourVec[i]
  BY <1>1, <1>2 DEF Parts, IInv, TypeOK
<1>4. vec \subseteq Participant
  BY <1>2 DEF RoundsBelong
<1>5. \A q \in new : q.type = "five" /\ q.id = m.id
  BY DEF EncryptedKey, NodeMsg
<1>6. Participant \subseteq vec =>
         \A n \in Node : [type |-> "five", node |-> n, id |-> m.id] \in new
  BY <1>4, AllAnswered DEF EncryptedKey, NodeMsg
<1> HIDE DEF vec, new
<1>7. RoundsBelong'
  <2>1. \A q \in net' : q.type \in NodeMsgType =>
           q \in net \/ (q.id = m.id /\ q.type = "five")
    BY <1>1, <1>5
  <2>2. \A q \in net' : q.type \in NodeMsgType =>
           /\ userMap'[q.id] # NoUser
           /\ q.type \in {"three", "ackThree", "four", "ackFour"} => q.node \in Participant
    BY <1>1, <1>2, <2>1 DEF RoundsBelong
  <2>3. \A i \in Id : /\ threeVec'[i] \cup fourVec'[i] \subseteq Participant
                      /\ threeVec'[i] \cup fourVec'[i] # {} => userMap'[i] # NoUser
    BY <1>1, <1>2, <1>3, <1>4 DEF RoundsBelong
  <2>4. QED
    BY <2>2, <2>3 DEF RoundsBelong
<1>8. PromptUsersKnown'
  BY <1>1, KnownFrame
<1>9. ASSUME NEW i \in Id, userMap[i] # NoUser, Prompt(userMap[i]), JoinGoesOn(i)
      PROVE  JoinGoesOn(i)'
  <2>1. \A q \in net : q # m => q \in net'
    BY <1>1
  <2>2. \A p \in Participant : M!Ready(p, i) => M!Ready(p, i)'
    BY <1>1 DEF M!Ready
  <2>3. \A q \in net : q.type # "ackFour" => q \in net'
    BY <1>1
  <2>4. NodesTold(i)' /\ SharesSent(i)' /\ KeyMade(i)' /\ FlagsRaised(i)'
    BY <1>1, <1>9, <2>2, <2>3, ToldFrame, SentFrame, MadeFrame, RaisedFrame DEF JoinGoesOn
  <2>5. Participant \subseteq threeVec[i] =>
             \A p \in Participant :
                 InFlight("four", p, i)' \/ InFlight("ackFour", p, i)' \/ p \in fourVec'[i]
    <3>1. ASSUME NEW p \in Participant, InFlight("ackFour", p, i)
          PROVE  InFlight("ackFour", p, i)' \/ p \in fourVec'[i]
      <4>1. CASE [type |-> "ackFour", node |-> p, id |-> i] = m
        BY <1>3, <4>1 DEF vec
      <4>2. CASE [type |-> "ackFour", node |-> p, id |-> i] # m
        BY <2>1, <3>1, <4>2 DEF InFlight
      <4>3. QED
        BY <4>1, <4>2
    <3>2. fourVec[i] \subseteq fourVec'[i]
      BY <1>3 DEF vec
    <3>3. \A p \in Participant : InFlight("four", p, i) => InFlight("four", p, i)'
      BY <2>3 DEF InFlight
    <3>4. QED
      BY <1>9, <3>1, <3>2, <3>3 DEF JoinGoesOn, KeyEncrypted, RoundGoesOn
  <2>6. InOrder /\ Participant \subseteq fourVec'[i] =>
             \A n \in Node : InFlight("five", n, i)' \/ FlagInFlight(n, i)' \/ n \in flagVec[i]
    <3>1. CASE i = m.id
      BY <1>1, <1>3, <1>6, <3>1 DEF InFlight
    <3>2. CASE i # m.id
      BY <1>3, <1>9, <2>3, <3>2 DEF JoinGoesOn, KeyEncrypted, InFlight, FlagInFlight
    <3>3. QED
      BY <3>1, <3>2
  <2>7. KeyEncrypted(i)'
    BY <1>1, <2>5, <2>6 DEF KeyEncrypted, RoundGoesOn
  <2>8. QED
    BY <2>4, <2>7 DEF JoinGoesOn
<1>10. QED
  BY <1>1, <1>7, <1>8, <1>9, GoOnFrame

-----------------------------------------------------------------------------
\* The nodes store the encrypted key, and the proxy counts flags.

\* A node that handles the broadcast after the announcement knows the user.
LEMMA NodePhaseSixFlow ==
    ASSUME Parts, Flow, NEW m \in net, NodePhaseSix(m), UNCHANGED ownVars
    PROVE  Flow'
<1> USE DEF Flow
<1> DEFINE flag == [type |-> "flag", by |-> m.node, id |-> m.id]
<1>1. /\ m.type = "five"
      /\ InOrder => [m EXCEPT !.type = "two"] \notin net
      /\ IF m.id \in nodeUsers[m.node]
         THEN net' = (net \ {m}) \cup {flag}
         ELSE net' = net \ {m}
      /\ UNCHANGED <<gpkSent, userMap, userId, gsk, finishVec, threeVec, fourVec, flagVec,
                     revokeStarted, nodeUsers, collected, tag, alpha, finals>>
  BY DEF NodePhaseSix, ownVars, proxyVars, userVars, mtaVars
<1>2. /\ m.node \in Node /\ m.id \in Id
      /\ m = [type |-> "five", node |-> m.node, id |-> m.id]
  BY <1>1, Messages DEF Parts, IInv, NodeMsgType
<1>3. [m EXCEPT !.type = "two"] = [type |-> "two", node |-> m.node, id |-> m.id]
  BY <1>2
<1>4. \A q \in net : q # m => q \in net'
  BY <1>1
<1>5. RoundsBelong' /\ PromptUsersKnown'
  BY <1>1, BelongFrame, KnownFrame DEF NodeMsgType
<1>6. ASSUME NEW i \in Id, userMap[i] # NoUser, Prompt(userMap[i]), JoinGoesOn(i)
      PROVE  JoinGoesOn(i)'
  <2>1. \A p \in Participant : M!Ready(p, i) => M!Ready(p, i)'
    BY <1>1 DEF M!Ready
  <2>2. \A q \in net : q.type # "five" => q \in net'
    BY <1>1
  <2>3. NodesTold(i)' /\ SharesSent(i)' /\ KeyMade(i)' /\ FlagsRaised(i)'
    BY <1>1, <1>6, <2>1, <2>2, ToldFrame, SentFrame, MadeFrame, RaisedFrame DEF JoinGoesOn
  <2>4. ASSUME InOrder, NEW n \in Node, InFlight("five", n, i)
        PROVE  InFlight("five", n, i)' \/ FlagInFlight(n, i)'
    <3>1. CASE n = m.node /\ i = m.id
      <4>1. i \in nodeUsers[n]
        BY <1>1, <1>3, <1>6, <2>4, <3>1 DEF JoinGoesOn, NodesTold, InFlight
      <4>2. QED
        BY <1>1, <3>1, <4>1 DEF FlagInFlight
    <3>2. CASE ~ (n = m.node /\ i = m.id)
      <4>1. [type |-> "five", node |-> n, id |-> i] # m
        BY <3>2
      <4>2. QED
        BY <1>4, <2>4, <4>1 DEF InFlight
    <3>3. QED
      BY <3>1, <3>2
  <2>5. KeyEncrypted(i)'
    BY <1>1, <1>6, <2>2, <2>4
    DEF JoinGoesOn, KeyEncrypted, RoundGoesOn, InFlight, FlagInFlight
  <2>6. QED
    BY <2>3, <2>5 DEF JoinGoesOn
<1>7. QED
  BY <1>1, <1>5, <1>6, GoOnFrame

LEMMA ProxyFlagFlow ==
    ASSUME Parts, Flow, NEW m \in net, ProxyFlag(m), UNCHANGED ownVars
    PROVE  Flow'
<1> USE DEF Flow
<1> DEFINE vec == flagVec[m.id] \cup {m.by}
<1>1. /\ m.type = "flag"
      /\ net' = net \ {m}
      /\ flagVec' = [flagVec EXCEPT ![m.id] = vec]
      /\ revokeStarted' = IF AllFlags(vec) THEN revokeStarted \cup {m.id} ELSE revokeStarted
      /\ UNCHANGED <<gpkSent, userMap, userId, gsk, finishVec, threeVec, fourVec,
                     nodeUsers, collected, tag, alpha, finals>>
  BY DEF ProxyFlag, ownVars, userVars, nodeVars, mtaVars
<1>2. m.by \in Flag /\ m.id \in Id
  BY <1>1, Messages DEF Parts, IInv
<1>3. flagVec'[m.id] = vec /\ \A i \in Id : i # m.id => flagVec'[i] = flagVec[i]
  BY <1>1, <1>2 DEF Parts, IInv, TypeOK
<1>4. vec = Flag => AllFlags(vec)
  <2>1. Cardinality(Flag) = Cardinality(Node) + 1
    BY JoinAssumption, FS_AddElement DEF Flag
  <2>2. QED
    BY <2>1 DEF AllFlags
<1>5. \A q \in net : q # m => q \in net'
  BY <1>1
<1>6. RoundsBelong' /\ PromptUsersKnown'
  BY <1>1, BelongFrame, KnownFrame DEF NodeMsgType
<1>7. ASSUME NEW i \in Id, userMap[i] # NoUser, Prompt(userMap[i]), JoinGoesOn(i)
      PROVE  JoinGoesOn(i)'
  <2>1. \A p \in Participant : M!Ready(p, i) => M!Ready(p, i)'
    BY <1>1 DEF M!Ready
  <2>2. \A q \in net : q.type # "flag" => q \in net'
    BY <1>1
  <2>3. NodesTold(i)' /\ SharesSent(i)' /\ KeyMade(i)'
    BY <1>1, <1>7, <2>1, <2>2, ToldFrame, SentFrame, MadeFrame DEF JoinGoesOn
  <2>4. flagVec[i] \subseteq flagVec'[i]
    BY <1>3
  <2>5. ASSUME NEW by \in Flag, FlagInFlight(by, i)
        PROVE  FlagInFlight(by, i)' \/ by \in flagVec'[i]
    <3>1. CASE [type |-> "flag", by |-> by, id |-> i] = m
      <4>1. m.by = by /\ m.id = i
        BY <3>1
      <4>2. QED
        BY <1>3, <4>1
    <3>2. CASE [type |-> "flag", by |-> by, id |-> i] # m
      BY <1>5, <2>5, <3>2 DEF FlagInFlight
    <3>3. QED
      BY <3>1, <3>2
  <2>6. KeyEncrypted(i)'
    <3>1. Participant \subseteq threeVec[i] =>
             \A p \in Participant :
                 InFlight("four", p, i)' \/ InFlight("ackFour", p, i)' \/ p \in fourVec[i]
      BY <1>7, <2>2 DEF JoinGoesOn, KeyEncrypted, RoundGoesOn, InFlight
    <3>2. InOrder /\ Participant \subseteq fourVec[i] =>
             \A n \in Node : InFlight("five", n, i)' \/ FlagInFlight(n, i)' \/ n \in flagVec'[i]
      BY <1>7, <2>2, <2>4, <2>5 DEF JoinGoesOn, KeyEncrypted, InFlight, Flag
    <3>3. QED
      BY <1>1, <3>1, <3>2 DEF KeyEncrypted, RoundGoesOn
  <2>7. FlagsRaised(i)'
    <3>1. gsk[userMap[i]] # {} => FlagInFlight("user", i)' \/ "user" \in flagVec'[i]
      BY <1>7, <2>4, <2>5 DEF JoinGoesOn, FlagsRaised, Flag
    <3>2. flagVec'[i] = Flag => i \in revokeStarted'
      BY <1>1, <1>3, <1>4, <1>7 DEF JoinGoesOn, FlagsRaised
    <3>3. QED
      BY <1>1, <3>1, <3>2 DEF FlagsRaised, Flag
  <2>8. QED
    BY <2>3, <2>6, <2>7 DEF JoinGoesOn
<1>8. QED
  BY <1>1, <1>6, <1>7, GoOnFrame

-----------------------------------------------------------------------------

LEMMA InitFlow == ASSUME DeploymentInit PROVE Flow
<1>1. \A u \in User : ~ Prompt(u)
  BY DEF DeploymentInit, Prompt
<1>2. \A m \in net : m.type = "start"
  BY DEF DeploymentInit, Init, StartFlag
<1>3. \A i \in Id : userMap[i] = NoUser /\ threeVec[i] = {} /\ fourVec[i] = {}
  BY DEF DeploymentInit, Init
<1>4. QED
  BY <1>1, <1>2, <1>3 DEF Flow, RoundsBelong, PromptUsersKnown, JoinsGoOn, NodeMsgType

LEMMA NextFlow ==
    ASSUME Parts, Parts', Flow, [DeploymentNext]_deploymentVars
    PROVE  Flow'
<1>1. CASE \E u \in User : AskToJoin(u)
  BY <1>1, AskToJoinFlow
<1>2. CASE \E m \in net : EnterUser(m) \/ LoseUser(m) \/ Contribute(m) \/ LoseContribution(m)
  BY <1>2, EnterUserFlow, LoseUserFlow, ContributeFlow, LoseContributionFlow
<1>3. CASE Exchange
  BY <1>3, ExchangeFlow
<1>4. CASE Keygen \/ (\E m \in oneMsgs : LoseOpening(m)) \/ UNCHANGED deploymentVars
  BY <1>4, QuietFlow
<1>5. CASE OtherJoinStep
  <2>1. UNCHANGED ownVars
    BY <1>5 DEF OtherJoinStep
  <2>2. ASSUME NEW m \in net,
               \/ UserPhaseTwo(m) \/ ProxyPhaseTwo(m) \/ UserPhaseThree(m)
               \/ ProxyPhaseFour(m) \/ ProxyPhaseFive(m) \/ NodePhaseSix(m) \/ ProxyFlag(m)
        PROVE  Flow'
    BY <2>1, <2>2, UserPhaseTwoFlow, ProxyPhaseTwoFlow, NoLeafFlow, UserPhaseThreeFlow,
       ProxyPhaseFourFlow, ProxyPhaseFiveFlow, NodePhaseSixFlow, ProxyFlagFlow
  <2>3. ASSUME NEW f \in finals, ProxyPhaseThree(f) PROVE Flow'
    BY <2>1, <2>3, ProxyPhaseThreeFlow
  <2>4. QED
    BY <1>5, <2>2, <2>3 DEF OtherJoinStep
<1>6. QED
  BY <1>1, <1>2, <1>3, <1>4, <1>5 DEF DeploymentNext

\* The joins of prompt users go on in every behaviour.
THEOREM FlowHolds == DeploymentSpec => []Flow
<1>1. DeploymentInit => Flow
  BY InitFlow
<1>2. Parts /\ Parts' /\ Flow /\ [DeploymentNext]_deploymentVars => Flow'
  BY NextFlow
<1>3. QED
  BY <1>1, <1>2, PartsHold, PTL DEF DeploymentSpec

-----------------------------------------------------------------------------
\* What Parts says, in the definitions of the deployment.

LEMMA SameKeygen ==
    ASSUME KP!IInv PROVE K!IInv
<1>1. \A S : K!Cardinality(S) = KP!Cardinality(S)
  BY DEF K!Cardinality, KP!Cardinality
<1>2. K!TypeOK
  BY DEF KP!IInv, KP!TypeOK, K!TypeOK, KP!GpkState, K!GpkState, KP!OneMsg, K!OneMsg,
         KP!TwoMsg, K!TwoMsg, KP!ThreeMsg, K!ThreeMsg
<1>3. K!StartedKnows /\ K!CommitAfterStart /\ K!CommitOnce /\ K!PublishedAfterProofs
  BY DEF KP!IInv, KP!StartedKnows, K!StartedKnows, KP!CommitAfterStart, K!CommitAfterStart,
         KP!CommitOnce, K!CommitOnce, KP!PublishedAfterProofs, K!PublishedAfterProofs
<1>4. K!DealtAll /\ K!DealOnce /\ K!ShareAfterDeals
  BY DEF KP!IInv, KP!DealtAll, K!DealtAll, KP!Dealt, K!Dealt, KP!Dealing, K!Dealing,
         KP!DealOnce, K!DealOnce, KP!ShareAfterDeals, K!ShareAfterDeals
<1>5. K!SharesCounted /\ K!ProofAfterShares
  BY <1>1 DEF KP!IInv, KP!SharesCounted, K!SharesCounted, KP!Shared, K!Shared,
         KP!ProofAfterShares, K!ProofAfterShares
<1>6. QED
  BY <1>2, <1>3, <1>4, <1>5 DEF K!IInv

LEMMA SameExchange ==
    ASSUME DP!IInv PROVE Delayed!IInv
<1>1. Delayed!TypeOK /\ Delayed!NoSelf
  BY DEF DP!IInv, DP!TypeOK, Delayed!TypeOK, DP!PartySets, Delayed!PartySets, DP!Msg,
         Delayed!Msg, DP!Final, Delayed!Final, DP!NoSelf, Delayed!NoSelf
<1>2. Delayed!Opened /\ Delayed!OpenedOnce /\ Delayed!HeldAreAnswered /\ Delayed!OpeningFirst
  BY DEF DP!IInv, DP!Opened, Delayed!Opened, DP!Opening, Delayed!Opening, DP!OpenedOnce,
         Delayed!OpenedOnce, DP!HeldAreAnswered, Delayed!HeldAreAnswered,
         DP!OpeningFirst, Delayed!OpeningFirst
<1>3. Delayed!AnswersFindParams /\ Delayed!TermsPaired /\ Delayed!AnswerOnce
  BY DEF DP!IInv, DP!AnswersFindParams, Delayed!AnswersFindParams, DP!TermsPaired,
         Delayed!TermsPaired, DP!Others, Delayed!Others, DP!AnswerOnce, Delayed!AnswerOnce
<1>4. Delayed!AnswersCounted /\ Delayed!OneFinalEach /\ Delayed!SharesComplete
  BY DEF DP!IInv, DP!AnswersCounted, Delayed!AnswersCounted, DP!Others, Delayed!Others,
         DP!SentFinal, Delayed!SentFinal, DP!OneFinalEach, Delayed!OneFinalEach,
         DP!SharesComplete, Delayed!SharesComplete, DP!Complete, Delayed!Complete
<1>5. QED
  BY <1>1, <1>2, <1>3, <1>4 DEF Delayed!IInv

\* The inductive invariant holds in every behaviour of the deployment.
THEOREM DeploymentInductive == DeploymentSpec => []DeploymentInv
<1>1. ASSUME Parts, Flow PROVE DeploymentInv
  <2>1. IInv /\ K!IInv /\ Delayed!IInv
    BY <1>1, SameKeygen, SameExchange DEF Parts
  <2>2. DeploymentTypeOK
    BY <1>1, <2>1 DEF Parts, Ties, DeploymentTypeOK, IInv, K!IInv
  <2>3. QED
    BY <1>1, <2>1, <2>2 DEF Parts, Ties, Flow, DeploymentInv
<1>2. QED
  BY <1>1, PartsHold, FlowHolds, PTL

\* DeploymentTypeOK: joining and key generation keep the shape of their state
\* when they run together.
THEOREM DeploymentTypeCorrect == DeploymentSpec => []DeploymentTypeOK
<1>1. DeploymentInv => DeploymentTypeOK
  BY DEF DeploymentInv
<1>2. QED
  BY <1>1, DeploymentInductive, PTL

\* IdsIdentify: no two users share an id, nor does a user that came too early
\* leave its own to another.
THEOREM DeploymentIdentifies == DeploymentSpec => []IdsIdentify
<1>1. Parts => IdsIdentify
  BY IInvIdentifies DEF Parts
<1>2. QED
  BY <1>1, PartsHold, PTL

\* RegisteredEverywhere: no revocation round starts without every node's
\* registration, whatever messages early users have lost.
THEOREM DeploymentRegisters == DeploymentSpec => []RegisteredEverywhere
<1>1. Parts => RegisteredEverywhere
  BY IInvRegistered DEF Parts
<1>2. QED
  BY <1>1, PartsHold, PTL

\* KeyWellFormed: with messages in order a key is complete and its user's,
\* broken exchanges of other users or its own notwithstanding.
THEOREM DeploymentWellFormed == ASSUME InOrder PROVE DeploymentSpec => []KeyWellFormed
<1>1. ASSUME Parts PROVE KeyWellFormed
  <2>1. \A f \in finals : M!Complete(f)
    BY <1>1, DelayedSound DEF Parts
  <2>2. QED
    BY <1>1, <2>1 DEF Parts, IInv, KeysFollowShares, KeyOf, KeyWellFormed, M!Complete, M!Others
<1>2. QED
  BY <1>1, PartsHold, PTL

\* UserMapStable: neither a user that comes early nor one whose join is
\* abandoned is dropped from the proxy's map or replaced in it.
THEOREM DeploymentMapStable == DeploymentSpec => UserMapStable
<1>1. Parts /\ [DeploymentNext]_deploymentVars
        => [\A i \in Id : userMap[i] # NoUser => userMap'[i] = userMap[i]]_vars
  BY DeploymentNextParts
<1>2. QED
  BY <1>1, PartsHold, PTL DEF DeploymentSpec, UserMapStable

\* PromptUsersFindKeys: a user answered when key generation was finished meets
\* nodes that have what their handlers unwrap, and none of its exchanges is
\* ever broken.
THEOREM PromptUsersSafe == DeploymentSpec => []PromptUsersFindKeys
<1>1. ASSUME Parts PROVE PromptUsersFindKeys
  <2>1. SUFFICES ASSUME NEW u \in User, Prompt(u)
                 PROVE  /\ \A m \in net : m.type \in {"two", "three"} /\ m.id = userId[u]
                                            => ReadyFor(m)
                        /\ \A p \in broken : p[2] # userId[u]
    BY DEF PromptUsersFindKeys
  <2>2. gpk = "complete" /\ participants = Participant
    BY <1>1, <2>1 DEF Parts, Ties, PromptAfterKeygen
  <2>3. \A m \in net : m.type \in {"two", "three"} => ReadyFor(m)
    <3>1. \A m \in net : m.type \in {"two", "three"} => m.node \in Node
      BY <1>1, Messages DEF Parts, IInv, NodeMsgType
    <3>2. QED
      BY <1>1, <2>2, <3>1, CompleteMeansReady DEF Parts
  <2>4. ASSUME NEW p \in broken, p[2] = userId[u]
        PROVE  FALSE
    <3>1. PICK n \in Node, i \in Id : p = <<n, i>>
      BY <1>1 DEF Parts, Ties
    <3>2. userMap[i] # NoUser /\ gpkSent[userMap[i]] # "complete"
      BY <1>1, <3>1 DEF Parts, Ties, BrokenStays
    <3>3. userMap[i] \in User /\ userId[userMap[i]] = userId[u] /\ userId[u] # 0
      BY <1>1, <2>4, <3>1, <3>2 DEF Parts, IInv, TypeOK, MapFollowsIds, Id
    <3>4. userMap[i] = u
      BY <1>1, <3>3, IInvIdentifies DEF Parts, IdsIdentify
    <3>5. QED
      BY <2>1, <3>2, <3>4 DEF Prompt
  <2>5. QED
    BY <2>3, <2>4
<1>2. QED
  BY <1>1, PartsHold, PTL

-----------------------------------------------------------------------------
\* A quiet state is one where the joins of prompt users have ended.

\* With nothing in flight each participant has every other's term.
LEMMA QuietExchange ==
    ASSUME Parts, Quiet, NEW i \in Id, NodesTold(i),
           userMap[i] # NoUser, Prompt(userMap[i]), NEW p \in Participant
    PROVE  alpha[p][i] = M!Others(p)
<1> USE DEF Parts
<1>1. \A q \in Participant : M!Ready(q, i)
  BY Everybody DEF Quiet, NodesTold, InFlight
<1>2. \A q \in Participant : <<q, i>> \notin broken
  BY JoinAssumption DEF Ties, BrokenStays, Prompt
<1>3. \A m \in oneMsgs \cup Lost : m.sess # i
  BY <1>2 DEF Quiet, Lost, M!Msg
<1>4. ASSUME NEW q \in Participant, q # p
      PROVE  q \in alpha[p][i]
  <2>1. DP!Opening(p, q, i).sess = i
    BY DEF DP!Opening
  <2>2. p \in held[q][i] \/ p \in beta[q][i]
    BY <1>1, <1>3, <1>4, <2>1 DEF DP!IInv, DP!Opened, M!Ready
  <2>3. p \in beta[q][i]
    BY <1>1, <2>2 DEF DP!IInv, DP!HeldAreAnswered, M!Ready
  <2>4. QED
    BY <1>4, <2>3 DEF DP!IInv, DP!TermsPaired, DP!Others, Quiet
<1>5. alpha[p][i] \subseteq Participant /\ p \notin alpha[p][i]
  BY DEF DP!IInv, DP!NoSelf, DP!TypeOK, DP!PartySets
<1>6. QED
  BY <1>4, <1>5 DEF M!Others

\* PromptUsersJoin: with messages in order a user answered when key generation
\* was finished is not left waiting if the tree has a leaf for it: when nothing
\* is on its way any more its revocation round has started, whatever early users
\* have broken, while that of a user without a leaf never does.
THEOREM PromptUsersGetThere == ASSUME InOrder PROVE DeploymentSpec => []PromptUsersJoin
<1>1. ASSUME Parts, Flow PROVE PromptUsersJoin
  <2> USE DEF Parts, Flow
  <2>1. SUFFICES ASSUME Quiet, NEW u \in User, Prompt(u)
                 PROVE  userId[u] \in revokeStarted <=> userId[u] \in WithLeaf
    BY DEF PromptUsersJoin
  <2>2. \A m \in net : m.type = "start"
    BY <2>1 DEF Quiet
  <2>3. SUFFICES ASSUME userId[u] \in WithLeaf PROVE userId[u] \in revokeStarted
    BY <1>1, IInvRegistered DEF RegisteredEverywhere
  <2>4. PICK i \in Id : userId[u] = i /\ userMap[i] = u
    <3>1. PICK i \in Id : Handed(u, i)
      BY <1>1, <2>1 DEF PromptUsersKnown
    <3>2. userId[u] = i
      BY <2>2, <3>1 DEF Handed
    <3>3. QED
      BY <1>1, <2>1, <2>2, <2>3, <3>2 DEF PromptUsersKnown
  <2>5. userMap[i] # NoUser /\ Prompt(userMap[i])
    BY <2>1, <2>4, JoinAssumption
  <2>6. NodesTold(i) /\ SharesSent(i) /\ KeyMade(i) /\ KeyEncrypted(i) /\ FlagsRaised(i)
    BY <1>1, <2>5 DEF JoinsGoOn, JoinGoesOn
  <2>7. \A p \in Participant : M!SentFinal(p, i)
    BY <1>1, <2>1, <2>5, <2>6, QuietExchange DEF SharesSent
  <2>8. HasShares(i)
    <3>1. \A f \in collected : f.from \in Participant
      BY <1>1 DEF IInv, TypeOK, M!TypeOK, M!Final
    <3>2. QED
      BY <2>1, <2>7, <3>1 DEF HasShares, Received, M!SentFinal, Quiet
  <2>9. gsk[u] # {} /\ Participant \subseteq threeVec[i]
    BY <2>2, <2>4, <2>6, <2>8 DEF KeyMade, RoundGoesOn, InFlight
  <2>10. Participant \subseteq fourVec[i]
    BY <2>2, <2>6, <2>9 DEF KeyEncrypted, RoundGoesOn, InFlight
  <2>11. Node \subseteq flagVec[i]
    BY <2>2, <2>6, <2>10 DEF KeyEncrypted, InFlight, FlagInFlight
  <2>12. "user" \in flagVec[i]
    BY <2>2, <2>4, <2>6, <2>9 DEF FlagsRaised, FlagInFlight
  <2>13. flagVec[i] = Flag
    BY <1>1, <2>11, <2>12 DEF IInv, TypeOK, Flag
  <2>14. QED
    BY <2>4, <2>6, <2>13 DEF FlagsRaised
<1>2. QED
  BY <1>1, PartsHold, FlowHolds, PTL

=============================================================================
