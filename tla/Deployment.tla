----------------------------- MODULE Deployment -----------------------------
(***************************************************************************)
(* Key generation and joining in one deployment.  The scripts start the    *)
(* users when the proxy's log says that key generation is finished, but    *)
(* need not (GSTBK_SERVICE_WAIT_FOR_KEYGEN=0), and no process checks: a    *)
(* user is answered with the group public key as it is, and a node that    *)
(* has not got its shares, or not even heard of the participants, panics   *)
(* when it is told of the user.  The message is lost, and the openings of  *)
(* its peers for that user are answered by a panic from then on.           *)
(*                                                                         *)
(* Modules KeyGen and JoinIssue each take their steps; this one says where *)
(* a step of the second needs what the first has left.  It begins, as      *)
(* KeyGen does, when setup has ended.                                      *)
(***************************************************************************)
EXTENDS JoinIssue

CONSTANTS
    Early,          \* users that may be started before key generation is finished
    Tag, ProvedTag, \* the keys generated, as in module KeyGen
    SignTag,        \* Gamma_A, whose shares the exchange multiplies
    OpenTag         \* Gamma_C, whose shares the third round uses

ASSUME DeploymentAssumption ==
    /\ Early \subseteq User
    /\ IsFiniteSet(Tag) /\ ProvedTag \subseteq Tag
    /\ SignTag \in ProvedTag /\ OpenTag \in Tag

VARIABLES
    \* key generation; gpk is the proxy's public key
    gpk, participants, phaseTwoVec, phaseFiveVec,
    nodeGpk, nodeParts, phaseOneVec, yiMap, mskshare, xjNum,
    startMsgs, commitMsgs, dealMsgs, threeMsgs, fiveMsgs, gpkMsgs,
    gpkSent,        \* [User -> gpk as the proxy sent it with the user's id]
    broken          \* <<node, id>> where the handler of "two" panicked

K == INSTANCE KeyGen WITH ParticipantCount <- Cardinality(Participant),
                          oneMsgs <- commitMsgs, twoMsgs <- dealMsgs

keygenVars == <<gpk, participants, phaseTwoVec, phaseFiveVec,
                nodeGpk, nodeParts, phaseOneVec, yiMap, mskshare, xjNum,
                startMsgs, commitMsgs, dealMsgs, threeMsgs, fiveMsgs, gpkMsgs>>
ownVars == <<gpkSent, broken>>
deploymentVars == <<vars, keygenVars, ownVars>>

DeploymentInit ==
    /\ Init
    /\ K!Init
    /\ participants = Participant
    /\ gpkSent = [u \in User |-> "none"]
    /\ broken = {}

-----------------------------------------------------------------------------

Keygen == K!Next /\ UNCHANGED <<vars, ownVars>>

\* The scripts start a user when they see the proxy finish key generation,
\* unless told not to or started alone; the proxy answers with the public key it has.
AskToJoin(u) ==
    /\ u \in Early \/ gpk = "complete"
    /\ ProxyPhaseOne(u)
    /\ gpkSent' = [gpkSent EXCEPT ![u] = gpk]
    /\ UNCHANGED <<keygenVars, broken>>

\* A node has heard of the participants; it has its share, if it is one.
Knows(n) == nodeParts[n] # {}
Holds(n, t) == n \in Participant => mskshare[n][t] # {}

\* What the handler of "two" needs: the participants, known with the public
\* key, and the share of Gamma_A; what that of "three" needs is Gamma_C's.
ReadyFor(m) ==
    /\ m.type = "two" => Knows(m.node) /\ Holds(m.node, SignTag)
    /\ m.type = "three" => Holds(m.node, OpenTag)

EnterUser(m) == ReadyFor(m) /\ NodePhaseTwo(m) /\ UNCHANGED <<keygenVars, ownVars>>

(***************************************************************************)
(* The handler of "two" tags the id before it looks for the participants   *)
(* and enters the user before it looks for its share: a participant that   *)
(* panics there, and the user's exchange with it, are lost.                *)
(***************************************************************************)
LoseUser(m) ==
    /\ m \in net
    /\ m.type = "two" /\ ~ ReadyFor(m)
    /\ net' = net \ {m}
    /\ nodeUsers' = IF Knows(m.node)
                    THEN [nodeUsers EXCEPT ![m.node] = @ \cup {m.id}]
                    ELSE nodeUsers
    /\ broken' = broken \cup {<<m.node, m.id>>}
    /\ UNCHANGED <<proxyVars, userVars, reg, collected, mtaVars, keygenVars, gpkSent>>

Broken(m) == <<m.to, m.sess>> \in broken

\* The exchange where it was opened ...
Exchange ==
    /\ \/ \E m \in oneMsgs : ~ Broken(m) /\ (M!HoldOne(m) \/ M!AnswerOne(m))
       \/ \E m \in twoMsgs : M!RecvTwo(m)
    /\ UNCHANGED <<proxyVars, userVars, nodeVars, net, collected, keygenVars, ownVars>>

\* ... and where it was not: the id is tagged, so the opening is answered at
\* once, and mta_phase_two unwraps parameters that were never drawn.
LoseOpening(m) ==
    /\ m \in oneMsgs /\ Broken(m)
    /\ oneMsgs' = oneMsgs \ {m}
    /\ UNCHANGED <<proxyVars, userVars, nodeVars, net, collected,
                   tag, held, alpha, beta, answered, twoMsgs, finals, keygenVars, ownVars>>

Contribute(m) == ReadyFor(m) /\ NodeContribute(m) /\ UNCHANGED <<keygenVars, ownVars>>

\* A participant without its share of Gamma_C panics in the third round.
LoseContribution(m) ==
    /\ m \in net
    /\ m.type = "three" /\ ~ ReadyFor(m)
    /\ net' = net \ {m}
    /\ UNCHANGED <<proxyVars, userVars, nodeVars, collected, mtaVars, keygenVars, ownVars>>

\* The handlers of joining that need nothing of key generation.
OtherJoinStep ==
    /\ \/ \E m \in net : \/ UserPhaseTwo(m) \/ ProxyPhaseTwo(m) \/ UserPhaseThree(m)
                         \/ ProxyPhaseFour(m) \/ ProxyPhaseFive(m)
                         \/ NodePhaseSix(m) \/ ProxyFlag(m)
       \/ \E f \in finals : ProxyPhaseThree(f)
    /\ UNCHANGED <<keygenVars, ownVars>>

DeploymentNext ==
    \/ Keygen
    \/ \E u \in User : AskToJoin(u)
    \/ \E m \in net : \/ EnterUser(m) \/ LoseUser(m)
                      \/ Contribute(m) \/ LoseContribution(m)
    \/ Exchange
    \/ \E m \in oneMsgs : LoseOpening(m)
    \/ OtherJoinStep

DeploymentSpec == DeploymentInit /\ [][DeploymentNext]_deploymentVars

-----------------------------------------------------------------------------

DeploymentTypeOK ==
    /\ TypeOK
    /\ K!TypeOK
    /\ gpkSent \in [User -> K!GpkState]
    /\ broken \subseteq Node \X Id

\* A user that came when key generation was finished, as the scripts have it.
Prompt(u) == gpkSent[u] = "complete"

(***************************************************************************)
(* For such a user every node, whenever it is told of it, has what its     *)
(* handlers unwrap, though the proxy's "finished" comes before the nodes   *)
(* have the public key and nothing orders the two: every message it is     *)
(* the subject of finds shares and participants.                           *)
(***************************************************************************)
PromptUsersFindKeys ==
    \A u \in User : Prompt(u) =>
        /\ \A m \in net : m.type \in {"two", "three"} /\ m.id = userId[u] => ReadyFor(m)
        /\ \A p \in broken : p[2] # userId[u]

\* Nothing is in flight but start flags of users the scripts hold back.
Quiet ==
    /\ \A m \in net : m.type = "start"
    /\ oneMsgs = {} /\ twoMsgs = {} /\ finals = collected

(***************************************************************************)
(* Such a user gets as far as its revocation round, whatever became of     *)
(* one that came too early: the ids and vectors of its abandoned join do   *)
(* not stand in the way.  Every message is handled once, so a join that    *)
(* stops short would be a quiet state without its round.  It is so for as  *)
(* many users as the tree has leaves to give, and for no others: a user    *)
(* that asks later is answered with an id and then waits for ever.         *)
(***************************************************************************)
PromptUsersJoin ==
    Quiet => \A u \in User : Prompt(u) =>
        (userId[u] \in revokeStarted <=> userId[u] \in WithLeaf)

-----------------------------------------------------------------------------

\* A participant is told of a user once, and opens its exchange then or never.
ToldOnce ==
    \A m \in net : m.type = "two" /\ m.node \in Participant => ~ M!Ready(m.node, m.id)

\* Where a handler panicked: the user was in the map, nothing more comes to
\* open the exchange, and the user's key generation was not finished.
BrokenStays ==
    \A n \in Node, i \in Id : <<n, i>> \in broken =>
        /\ userMap[i] # NoUser
        /\ gpkSent[userMap[i]] # "complete"
        /\ [type |-> "two", node |-> n, id |-> i] \notin net
        /\ n \in Participant => ~ M!Ready(n, i)

\* The public key, once a user has been answered with it, stays complete.
PromptAfterKeygen == \A u \in User : Prompt(u) => gpk = "complete"

(***************************************************************************)
(* The openings that have come, or will come, to a broken exchange.  With  *)
(* them put back in flight the exchange is one of module MtA in which they *)
(* are still on their way: losing an opening is a stutter of it.           *)
(***************************************************************************)
Lost ==
    {m \in M!Msg : /\ <<m.to, m.sess>> \in broken
                   /\ m.from # m.to
                   /\ M!Ready(m.from, m.sess)
                   /\ m.from \notin held[m.to][m.sess]}

Delayed == INSTANCE MtA WITH Party <- Participant, Session <- Id,
                             Ordered <- IF InOrder THEN Id ELSE {},
                             oneMsgs <- oneMsgs \cup Lost

\* The rounds of a join are with users that are in the map, those among the
\* participants with nobody else.
RoundsBelong ==
    /\ \A m \in net : m.type \in NodeMsgType =>
          /\ userMap[m.id] # NoUser
          /\ m.type \in {"three", "ackThree", "four", "ackFour"} => m.node \in Participant
    /\ \A i \in Id : /\ threeVec[i] \cup fourVec[i] \subseteq Participant
                     /\ threeVec[i] \cup fourVec[i] # {} => userMap[i] # NoUser

\* A prompt user has or is being sent an id, and is in the map or registering,
\* unless there is no leaf for it.
PromptUsersKnown ==
    \A u \in User : Prompt(u) =>
        /\ \E i \in Id : Handed(u, i)
        /\ \A i \in Id : userId[u] = i =>
              \/ [type |-> "register", user |-> u, id |-> i] \in net
              \/ userMap[i] = u
              \/ i \notin WithLeaf

InFlight(type, n, i) == [type |-> type, node |-> n, id |-> i] \in net
FlagInFlight(by, i) == [type |-> "flag", by |-> by, id |-> i] \in net

\* Every node knows the user, and the participants have opened its exchange.
NodesTold(i) ==
    \A n \in Node : \/ InFlight("two", n, i)
                    \/ i \in nodeUsers[n] /\ (n \in Participant => M!Ready(n, i))

\* Who has all answers has sent its share ...
SharesSent(i) ==
    \A p \in Participant : alpha[p][i] = M!Others(p) => M!SentFinal(p, i)

\* ... and the proxy has put it in its vector until it has all of them.
Received(i) == {f \in collected : f.sess = i}
HasShares(i) == {f.from : f \in Received(i)} = Participant

\* A round among the participants: each is asked, has answered or is counted.
RoundGoesOn(ask, ack, counted, i) ==
    \A p \in Participant : InFlight(ask, p, i) \/ InFlight(ack, p, i) \/ p \in counted

KeyMade(i) ==
    IF HasShares(i)
    THEN /\ RoundGoesOn("three", "ackThree", threeVec[i], i)
         /\ \/ gsk[userMap[i]] # {}
            \/ \E m \in net : m.type = "key" /\ m.user = userMap[i]
    ELSE finishVec[i] = Received(i)

KeyEncrypted(i) ==
    /\ Participant \subseteq threeVec[i] => RoundGoesOn("four", "ackFour", fourVec[i], i)
    /\ InOrder /\ Participant \subseteq fourVec[i] =>
          \A n \in Node : InFlight("five", n, i) \/ FlagInFlight(n, i) \/ n \in flagVec[i]

FlagsRaised(i) ==
    /\ gsk[userMap[i]] # {} => FlagInFlight("user", i) \/ "user" \in flagVec[i]
    /\ flagVec[i] = Flag => i \in revokeStarted

(***************************************************************************)
(* What a prompt user waits for, at every stage of its join, is in flight  *)
(* or has been done and leads to the next.                                 *)
(***************************************************************************)
JoinGoesOn(i) ==
    NodesTold(i) /\ SharesSent(i) /\ KeyMade(i) /\ KeyEncrypted(i) /\ FlagsRaised(i)

JoinsGoOn ==
    \A i \in Id : userMap[i] # NoUser /\ Prompt(userMap[i]) => JoinGoesOn(i)

(***************************************************************************)
(* The inductive invariant of the deployment: those of its parts, and what *)
(* ties them together.                                                     *)
(***************************************************************************)
DeploymentInv ==
    /\ IInv
    /\ K!IInv
    /\ Delayed!IInv
    /\ DeploymentTypeOK
    /\ participants = Participant
    /\ ToldOnce
    /\ BrokenStays
    /\ PromptAfterKeygen
    /\ RoundsBelong
    /\ PromptUsersKnown
    /\ JoinsGoOn

=============================================================================
