----------------------------- MODULE Revocation -----------------------------
(***************************************************************************)
(* From the start of a user's revocation round to the end of its           *)
(* signature's life: the proxy takes the cover of the current leaf, the    *)
(* participants exchange shares for its nodes (here through what module    *)
(* SharedProduct promises, which module MtA implements), the proxy makes   *)
(* the expiry information ei_info of them and sends it to the nodes and    *)
(* the user, the user signs and registers the signature on the chain, and  *)
(* with a flag of every node and of the user the proxy has the signature   *)
(* verified.  A node that finds it invalid starts to open it, which takes  *)
(* all nodes, twice.                                                       *)
(*                                                                         *)
(* The rounds of different users share one revoke_info at the proxy; the   *)
(* clock moves while they run.  A user has one round.  Messages are        *)
(* handled in any order.  Expiry information is named by the round whose   *)
(* revoke_info it was computed from.                                       *)
(***************************************************************************)
EXTENDS TimeTree

CONSTANTS
    Node,
    Participant,    \* the threshold + 1 nodes of the exchange
    User,           \* ids of the users, 1, 2, ...
    Wrong,          \* users that run sign_wrong
    Taken,          \* users whose name an earlier deployment may have taken
    Failing,        \* nodes and users whose calls to the chain may fail
    MaxTime         \* bound on the clock

ASSUME RevocationAssumption ==
    /\ IsFiniteSet(Node) /\ "user" \notin Node
    /\ Participant \subseteq Node /\ Participant # {}
    /\ User \subseteq 1 .. FirstLeaf - 1
    /\ Wrong \subseteq User
    /\ Taken \subseteq User /\ Failing \subseteq Node \cup User
    /\ MaxTime \in Nat

VARIABLES
    time,           \* periods since the tree was built
    revokeInfo,     \* the proxy's revoke_info: the user and the leaf it is of
    roundLeaf,      \* [User -> leaf of its round, 0 before the round]
    drawn, issued,  \* the exchange, module SharedProduct
    collected,      \* shares the proxy has received
    finalVec,       \* [User -> shares collected]: revoke_mta_finial_msg_map
    userEi,         \* [User -> its ei_info]
    nodeEi,         \* [Node -> [User -> ei_info in user_info_map]]
    flagVec,        \* [User -> senders of flags]: revoke_shared_message
    chain,          \* [User -> the signature on the chain]
    info,           \* users whose personal information is on the chain
    verdict,        \* [Node -> [User -> outcome of verify_phase]]
    openOneVec,     \* [User -> messages collected]: open_phase_one_msg_vec_map
    openTwoVec,     \* [User -> senders]: open_phase_two_msg_vec_map
    report,         \* [Node -> [User -> what open_phase_three found]]
    net             \* messages in flight

exchange   == <<drawn, issued>>
proxyVars  == <<revokeInfo, roundLeaf, collected, finalVec, flagVec, openOneVec, openTwoVec>>
nodeVars   == <<nodeEi, verdict, report>>
userVars   == <<userEi, chain, info>>
vars       == <<time, exchange, proxyVars, nodeVars, userVars, net>>

P == INSTANCE SharedProduct WITH Party <- Participant, Session <- User

LeafOrRoot == Leaf \cup {Root}
Info == [by : User, leaf : LeafOrRoot]
NoInfo == [by |-> 0, leaf |-> 0]

\* A signature: made with the user's own key or not, under some ei_info.
Signature == [key : {"own", "random"}, ei : Info \cup {NoInfo}]
NoSignature == [key |-> "none", ei |-> NoInfo]
\* A name may have a signature of an earlier deployment.
OldSignature == [key |-> "random", ei |-> NoInfo]

Flag == Node \cup {"user"}

Message ==
    [type : {"begin"}, node : Node, user : User, leaf : LeafOrRoot]
        \cup [type : {"ei"}, node : Flag, user : User, ei : Info]
        \cup [type : {"flag"}, by : Flag, user : User]
        \cup [type : {"verify", "openTwo"}, node : Node, user : User]
        \cup [type : {"openOne"}, node : Node, user : User, sigma : Signature]
        \cup [type : {"openKey", "reveal"}, node : Node, user : User, key : {"own", "random"}]

\* The flags that a node and the user send when they have their ei_info.
NodeFlag(n, u) == [type |-> "flag", by |-> n, user |-> u]
UserFlag(u) == [type |-> "flag", by |-> "user", user |-> u]

\* The proxy's order to verify, of which the user's id is all there is.
VerifyOrders(u) == [type : {"verify"}, node : Node, user : {u}]

Init ==
    /\ time = 0
    /\ revokeInfo = NoInfo
    /\ roundLeaf = [u \in User |-> 0]
    /\ P!Init
    /\ collected = {}
    /\ finalVec = [u \in User |-> {}]
    /\ userEi = [u \in User |-> NoInfo]
    /\ nodeEi = [n \in Node |-> [u \in User |-> NoInfo]]
    /\ flagVec = [u \in User |-> {}]
    /\ chain \in [User -> {NoSignature, OldSignature}]
    /\ \A u \in User \ Taken : chain[u] = NoSignature
    /\ info = {}
    /\ verdict = [n \in Node |-> [u \in User |-> "none"]]
    /\ openOneVec = [u \in User |-> {}]
    /\ openTwoVec = [u \in User |-> {}]
    /\ report = [n \in Node |-> [u \in User |-> "none"]]
    /\ net = {}

-----------------------------------------------------------------------------

(***************************************************************************)
(* The last flag of the user's join has come: revoke_phase_one looks up    *)
(* the current leaf, replaces revoke_info, whoever's it was, and tells the *)
(* participants the leaf.                                                  *)
(***************************************************************************)
ProxyRevokeOne(u) ==
    /\ roundLeaf[u] = 0
    /\ LET leaf == CurrentLeaf(time) IN
         /\ revokeInfo' = [by |-> u, leaf |-> leaf]
         /\ roundLeaf' = [roundLeaf EXCEPT ![u] = leaf]
         /\ net' = net \cup [type : {"begin"}, node : Participant, user : {u}, leaf : {leaf}]
    /\ UNCHANGED <<time, exchange, collected, finalVec, flagVec, openOneVec, openTwoVec,
                   nodeVars, userVars>>

\* A participant draws its parameters for every node of the leaf's cover.
NodeRevokeOne(m) ==
    /\ m \in net
    /\ m.type = "begin"
    /\ net' = net \ {m}
    /\ P!Draw(m.node, m.user)
    /\ UNCHANGED <<time, proxyVars, nodeVars, userVars>>

\* The participants exchange; each ends with a share for every such node.
NodeExchange ==
    /\ \E p \in Participant, u \in User : P!Issue(p, u)
    /\ UNCHANGED <<time, proxyVars, nodeVars, userVars, net>>

\* The nodes have shares for the cover of the round's leaf; revoke_phase_two
\* looks one up for every node of the cover in revoke_info.
SharesFor(u) == Cstbk(revokeInfo.leaf) \subseteq Cstbk(roundLeaf[u])

\* Mutant: the shares are put together when one is still missing.
FromParticipantsShort(vec) == Cardinality(vec) = Cardinality(Participant) - 1

FromParticipants(vec) == Cardinality(vec) = Cardinality(Participant)

(***************************************************************************)
(* The proxy collects the shares of a user's round.  With threshold + 1 of *)
(* them it computes ei_info, sends it to all nodes and the user and        *)
(* empties the vector.  If a share is missing for a node of the cover it   *)
(* panics, with the vector full: the round is over.                        *)
(***************************************************************************)
ProxyRevokeTwo(f) ==
    /\ f \in issued \ collected
    /\ collected' = collected \cup {f}
    /\ LET u == f.sess
           vec == finalVec[u] \cup {f}
           done == FromParticipants(vec) /\ SharesFor(u)
       IN /\ finalVec' = [finalVec EXCEPT ![u] = IF done THEN {} ELSE vec]
          /\ net' = IF done
                    THEN net \cup [type : {"ei"}, node : Flag, user : {u}, ei : {revokeInfo}]
                    ELSE net
    /\ UNCHANGED <<time, exchange, revokeInfo, roundLeaf, flagVec, openOneVec, openTwoVec,
                   nodeVars, userVars>>

\* A node stores the user's ei_info and raises its flag.
NodeRevokeTwo(m) ==
    /\ m \in net
    /\ m.type = "ei" /\ m.node \in Node
    /\ nodeEi' = [nodeEi EXCEPT ![m.node][m.user] = m.ei]
    /\ net' = (net \ {m}) \cup {NodeFlag(m.node, m.user)}
    /\ UNCHANGED <<time, exchange, proxyVars, verdict, report, userVars>>

\* Mutant: the user takes a node of its path that is not in the cover.
SigningKeyAny(u, ei) == IF u \in Wrong THEN "random" ELSE "own"

\* The nodes the user has a key for and ei_info the other half.
Common(u, ei) == Path(ChooseLeaf(u)) \cap Cstbk(ei.leaf)

\* sign uses the key of such a node, if there is one, and random points for
\* the key otherwise; sign_wrong always signs with random points.
SigningKey(u, ei) == IF u \notin Wrong /\ Common(u, ei) # {} THEN "own" ELSE "random"

\* A signature proves knowledge of the key under the user's ei_info.
Sign(u, ei) == [key |-> SigningKey(u, ei), ei |-> ei]

\* The signature contract keeps the signature a name has and answers ret -1,
\* which is no error to the caller.
Registered(u, sigma) ==
    IF chain[u] = NoSignature THEN [chain EXCEPT ![u] = sigma] ELSE chain

\* What a failing call leaves behind: the signature may be registered or not,
\* and if it is, so may the personal information.
FailedCall(u, sigma) ==
    \/ UNCHANGED <<chain, info>>
    \/ chain' = Registered(u, sigma) /\ info' \in {info, info \cup {u}}

\* Mutant: the flag is sent even if the personal information could not be registered.
UserSignIgnoresInfo(m) ==
    /\ m \in net
    /\ m.type = "ei" /\ m.node = "user"
    /\ userEi' = [userEi EXCEPT ![m.user] = m.ei]
    /\ IF Cstbk(m.ei.leaf) = {}
       THEN net' = net \ {m} /\ UNCHANGED <<chain, info>>
       ELSE /\ net' = (net \ {m}) \cup {UserFlag(m.user)}
            /\ chain' = Registered(m.user, Sign(m.user, m.ei))
            /\ info' \in {info \cup {m.user}} \cup (IF m.user \in Failing THEN {info} ELSE {})
    /\ UNCHANGED <<time, exchange, proxyVars, nodeVars>>

(***************************************************************************)
(* The user stores its ei_info and signs.  Without a node in the cover     *)
(* there is none to choose and the handler panics; otherwise the user      *)
(* registers its signature, then its personal information, and raises its  *)
(* flag.  If either call fails the handler panics where it is.             *)
(***************************************************************************)
UserSign(m) ==
    /\ m \in net
    /\ m.type = "ei" /\ m.node = "user"
    /\ userEi' = [userEi EXCEPT ![m.user] = m.ei]
    /\ \/ /\ Cstbk(m.ei.leaf) = {}
          /\ net' = net \ {m}
          /\ UNCHANGED <<chain, info>>
       \/ /\ Cstbk(m.ei.leaf) # {}
          /\ net' = (net \ {m}) \cup {UserFlag(m.user)}
          /\ chain' = Registered(m.user, Sign(m.user, m.ei))
          /\ info' = info \cup {m.user}
       \/ /\ Cstbk(m.ei.leaf) # {} /\ m.user \in Failing
          /\ net' = net \ {m}
          /\ FailedCall(m.user, Sign(m.user, m.ei))
    /\ UNCHANGED <<time, exchange, proxyVars, nodeVars>>

\* Mutants: the flags of the nodes only; one more than there are.
AllFlagsNodesOnly(vec) == Cardinality(vec) = Cardinality(Node)
AllFlagsMore(vec) == Cardinality(vec) = Cardinality(Node) + 2

AllFlags(vec) == Cardinality(vec) = Cardinality(Node) + 1

\* The proxy counts the flags of either kind and starts the verification.
ProxyFlag(m) ==
    /\ m \in net
    /\ m.type = "flag"
    /\ LET vec == flagVec[m.user] \cup {m.by} IN
         /\ flagVec' = [flagVec EXCEPT ![m.user] = vec]
         /\ net' = (net \ {m}) \cup
                   IF AllFlags(vec)
                   THEN VerifyOrders(m.user) ELSE {}
    /\ UNCHANGED <<time, exchange, revokeInfo, roundLeaf, collected, finalVec,
                   openOneVec, openTwoVec, nodeVars, userVars>>

\* A node's first contribution to opening carries the signature it read.
OpenOne(n, u) == [type |-> "openOne", node |-> n, user |-> u, sigma |-> chain[u]]

\* What the proxy makes of the contributions of the second round.
Revealed(u, key) == [type : {"reveal"}, node : Node, user : {u}, key : {key}]

ValidAt(sigma, ei) == sigma.key = "own" /\ sigma.ei = ei

(***************************************************************************)
(* A node reads the signature from the chain and checks it with the user's *)
(* ei_info.  If it is invalid the node sends its first contribution to     *)
(* opening it.  If the query fails there is no signature to open and the   *)
(* handler panics.                                                         *)
(***************************************************************************)
NodeVerify(m) ==
    /\ m \in net
    /\ m.type = "verify"
    /\ \/ /\ ValidAt(chain[m.user], nodeEi[m.node][m.user])
          /\ verdict' = [verdict EXCEPT ![m.node][m.user] = "valid"]
          /\ net' = net \ {m}
       \/ /\ ~ ValidAt(chain[m.user], nodeEi[m.node][m.user])
          /\ verdict' = [verdict EXCEPT ![m.node][m.user] = "invalid"]
          /\ net' = (net \ {m}) \cup {OpenOne(m.node, m.user)}
       \/ /\ m.node \in Failing
          /\ verdict' = [verdict EXCEPT ![m.node][m.user] = "failed"]
          /\ net' = net \ {m}
    /\ UNCHANGED <<time, exchange, proxyVars, nodeEi, report, userVars>>

\* Mutant: one contribution too few is taken to be enough.
FromAllShort(vec) == Cardinality(vec) = Cardinality(Node) - 1

FromAll(vec) == Cardinality(vec) = Cardinality(Node)

\* With a contribution of every node the proxy recovers the key from the
\* signature in the first of them and sends it to the nodes ...
ProxyOpenOne(m) ==
    /\ m \in net
    /\ m.type = "openOne"
    /\ LET vec == openOneVec[m.user] \cup {m} IN
         /\ openOneVec' = [openOneVec EXCEPT ![m.user] = vec]
         /\ IF FromAll(vec)
            THEN \E first \in vec :
                   net' = (net \ {m}) \cup [type : {"openKey"}, node : Node,
                                            user : {m.user}, key : {first.sigma.key}]
            ELSE net' = net \ {m}
    /\ UNCHANGED <<time, exchange, revokeInfo, roundLeaf, collected, finalVec, flagVec,
                   openTwoVec, nodeVars, userVars>>

\* ... a node raises it to its share of gamma_C ...
NodeOpenTwo(m) ==
    /\ m \in net
    /\ m.type = "openKey"
    /\ net' = (net \ {m}) \cup {[type |-> "openTwo", node |-> m.node, user |-> m.user]}
    /\ UNCHANGED <<time, exchange, proxyVars, nodeVars, userVars>>

\* ... the proxy multiplies the results of all of them ...
ProxyOpenTwo(m) ==
    /\ m \in net
    /\ m.type = "openTwo"
    /\ LET vec == openTwoVec[m.user] \cup {m.node} IN
         /\ openTwoVec' = [openTwoVec EXCEPT ![m.user] = vec]
         /\ IF FromAll(vec)
            THEN \E first \in openOneVec[m.user] :
                   net' = (net \ {m}) \cup Revealed(m.user, first.sigma.key)
            ELSE net' = net \ {m}
    /\ UNCHANGED <<time, exchange, revokeInfo, roundLeaf, collected, finalVec, flagVec,
                   openOneVec, nodeVars, userVars>>

\* ... and a node compares with its registration of the user.
NodeOpenThree(m) ==
    /\ m \in net
    /\ m.type = "reveal"
    /\ net' = net \ {m}
    /\ report' = [report EXCEPT ![m.node][m.user] =
                    IF m.key = "own" THEN "revoked key" ELSE "invalid key"]
    /\ UNCHANGED <<time, exchange, proxyVars, nodeEi, verdict, userVars>>

\* A period passes.
Tick ==
    /\ time < MaxTime
    /\ time' = time + 1
    /\ UNCHANGED <<exchange, proxyVars, nodeVars, userVars, net>>

Handle ==
    \/ \E u \in User : ProxyRevokeOne(u)
    \/ NodeExchange
    \/ \E f \in issued : ProxyRevokeTwo(f)
    \/ \E m \in net : \/ NodeRevokeOne(m)
                      \/ NodeRevokeTwo(m)
                      \/ UserSign(m)
                      \/ ProxyFlag(m)
                      \/ NodeVerify(m)
                      \/ ProxyOpenOne(m)
                      \/ NodeOpenTwo(m)
                      \/ ProxyOpenTwo(m)
                      \/ NodeOpenThree(m)

Next == Handle \/ Tick

Spec == Init /\ [][Next]_vars

\* Every message is handled eventually and every join comes to its round;
\* each happens once, so fairness of Handle says as much.  Time may stop.
FairSpec == Spec /\ WF_vars(Handle)

-----------------------------------------------------------------------------

TypeOK ==
    /\ time \in 0 .. MaxTime
    /\ revokeInfo \in Info \cup {NoInfo}
    /\ roundLeaf \in [User -> LeafOrRoot \cup {0}]
    /\ drawn \in [User -> SUBSET Participant]
    /\ collected \subseteq issued
    /\ finalVec \in [User -> SUBSET issued]
    /\ userEi \in [User -> Info \cup {NoInfo}]
    /\ nodeEi \in [Node -> [User -> Info \cup {NoInfo}]]
    /\ flagVec \in [User -> SUBSET Flag]
    /\ chain \in [User -> Signature \cup {NoSignature}]
    /\ info \subseteq User
    /\ verdict \in [Node -> [User -> {"none", "valid", "invalid", "failed"}]]
    /\ openOneVec \in [User -> SUBSET Message]
    /\ openTwoVec \in [User -> SUBSET Node]
    /\ report \in [Node -> [User -> {"none", "revoked key", "invalid key"}]]
    /\ net \subseteq Message

(***************************************************************************)
(* When a signature is to be verified, every node has the user's ei_info,  *)
(* the one the user signed under, and the chain has a signature:           *)
(* verify_phase unwraps the first and open_phase_one the second.  The      *)
(* proxy only counts share_counts + 1 flags of either kind.                *)
(***************************************************************************)
VerifyReady ==
    \A m \in net : m.type = "verify" =>
        /\ chain[m.user] # NoSignature
        /\ \A n \in Node : nodeEi[n][m.user] # NoInfo /\ nodeEi[n][m.user] = userEi[m.user]

(***************************************************************************)
(* What verify_phase decides: a signature is valid exactly if the user     *)
(* signed honestly, its name was free on the chain, and its leaf had not   *)
(* expired when the ei_info was made, even if that is another user's.  So  *)
(* two nodes never disagree.  And when all leaves had expired by then      *)
(* nothing is verified: the search of the current leaf ends at the root,   *)
(* which is no leaf, and whose cover has no node to sign with.             *)
(***************************************************************************)
VerdictIsRight ==
    \A n \in Node, u \in User : verdict[n][u] \in {"valid", "invalid"} =>
        /\ nodeEi[n][u].leaf \in LeafNodes
        /\ verdict[n][u] = "valid" <=>
              /\ u \notin Wrong /\ chain[u] # OldSignature
              /\ ChooseLeaf(u) >= nodeEi[n][u].leaf

(***************************************************************************)
(* A user is opened only if its signature is invalid at every node: each   *)
(* node's own verification is a vote, and one that verifies or fails to    *)
(* read the chain stops the opening.                                       *)
(***************************************************************************)
OpenedByAll ==
    \A n \in Node, u \in User : report[n][u] # "none" =>
        \A k \in Node : verdict[k][u] = "invalid"

(***************************************************************************)
(* Who is opened can be identified: its personal information has been      *)
(* registered since, though its signature was on the chain before it and a *)
(* failure may have left one without the other.                            *)
(***************************************************************************)
OpenedIdentified ==
    \A n \in Node, u \in User : report[n][u] # "none" => u \in info

(***************************************************************************)
(* The ei_info a node has of a user and its verdict are final: node and    *)
(* proxy overwrite and count without looking whether they did so before,   *)
(* and it is the counting of shares and flags that keeps a round from      *)
(* giving out a second ei_info or verifying a second time.                 *)
(***************************************************************************)
OutcomesStay ==
    [][\A n \in Node, u \in User :
          /\ nodeEi[n][u] # NoInfo => nodeEi'[n][u] = nodeEi[n][u]
          /\ verdict[n][u] # "none" => verdict'[n][u] = verdict[n][u]]_vars

\* The round of a user cannot go on: the proxy has the shares and could not
\* use them, the user gave up signing or registering, or a query failed.
GaveUp(u) == userEi[u] # NoInfo /\ "user" \notin flagVec[u] /\ UserFlag(u) \notin net

Stuck(u) ==
    \/ FromParticipants(finalVec[u])
    \/ GaveUp(u)
    \/ \E n \in Node : verdict[n][u] = "failed"

Ended(u) == \A n \in Node : verdict[n][u] = "valid" \/ report[n][u] # "none"

\* Every round ends: each node has verified the signature or seen it opened.
RoundsEnd == \A u \in User : <>Ended(u)

(***************************************************************************)
(* Only those three can stop a round, whatever the order of the messages   *)
(* and wherever the other user's round is.                                 *)
(***************************************************************************)
EndsUnlessStuck == \A u \in User : []~Stuck(u) => <>Ended(u)

-----------------------------------------------------------------------------

\* The leaves whose expiry information is ever asked for.
Current == LeafNodes \cup {Root}

\* Nothing happens in a round before the proxy has a revoke_info, and a share
\* belongs to one participant and one round.
RoundsBegin ==
    /\ revokeInfo # NoInfo => revokeInfo.leaf \in Current
    /\ \A m \in net : m.type = "begin" => m.node \in Participant /\ revokeInfo # NoInfo
    /\ \A u \in User : drawn[u] # {} => revokeInfo # NoInfo
    /\ \A f \in issued : f.from \in Participant /\ f.sess \in User /\ revokeInfo # NoInfo
    /\ \A f, g \in issued : f.from = g.from /\ f.sess = g.sess => f = g
    /\ \A u \in User : \A f \in finalVec[u] : f \in collected /\ f.sess = u

\* The proxy has had all the shares of u's round: no other one can come.
AllCollected(u) == \A p \in Participant : \E f \in collected : f.from = p /\ f.sess = u

\* ei is the ei_info of u that somebody has or is being sent.
Given(u, ei) ==
    \/ \E m \in net : m.type = "ei" /\ m.user = u /\ m.ei = ei
    \/ ei = userEi[u]
    \/ \E n \in Node : ei = nodeEi[n][u]

\* The ei_info of a user is computed once, from all the shares, and the same
\* for everybody; it comes to each once.
OneInfoEach ==
    /\ \A u \in User, ei \in Info : Given(u, ei) => AllCollected(u) /\ ei.leaf \in Current
    /\ \A u \in User, ei, old \in Info : Given(u, ei) /\ Given(u, old) => ei = old
    /\ \A m \in net : m.type = "ei" =>
          IF m.node = "user" THEN userEi[m.user] = NoInfo ELSE nodeEi[m.node][m.user] = NoInfo

\* Whoever raises the flag of u's round has done what the flag says.
Raises(by, u) ==
    IF by = "user"
    THEN userEi[u] # NoInfo /\ Cstbk(userEi[u].leaf) # {} /\ chain[u] # NoSignature /\ u \in info
    ELSE nodeEi[by][u] # NoInfo

\* It does so once, and the signature is verified once, with all flags.
FlagsFollow ==
    /\ \A m \in net : m.type = "flag" => Raises(m.by, m.user) /\ m.by \notin flagVec[m.user]
    /\ \A u \in User : \A by \in flagVec[u] : Raises(by, u)
    /\ \A m \in net : m.type = "verify" =>
          flagVec[m.user] = Flag /\ verdict[m.node][m.user] = "none"
    /\ \A n \in Node, u \in User : verdict[n][u] # "none" => flagVec[u] = Flag

\* The chain has what an earlier deployment left or what the user signed, and
\* a node's verdict is about that and the ei_info of the node.
VerdictsFollow ==
    /\ \A u \in User :
          chain[u] # NoSignature /\ chain[u] # OldSignature =>
              userEi[u] # NoInfo /\ chain[u] = Sign(u, userEi[u])
    /\ \A n \in Node, u \in User : verdict[n][u] \in {"valid", "invalid"} =>
          (verdict[n][u] = "valid" <=> ValidAt(chain[u], nodeEi[n][u]))

AllInvalid(u) == \A k \in Node : verdict[k][u] = "invalid"

\* A contribution to opening stands for an invalid verdict, and what follows
\* the contributions stands for one of every node.
OpeningFollows ==
    /\ \A m \in net : m.type = "openOne" =>
          m = OpenOne(m.node, m.user) /\ verdict[m.node][m.user] = "invalid"
    /\ \A u \in User : \A m \in openOneVec[u] :
          m.node \in Node /\ m = OpenOne(m.node, u) /\ verdict[m.node][u] = "invalid"
    /\ \A m \in net : m.type \in {"openKey", "openTwo", "reveal"} => AllInvalid(m.user)
    /\ \A n \in Node, u \in User : report[n][u] # "none" => AllInvalid(u)

(***************************************************************************)
(* The inductive invariant of a round: what each message stands for, and   *)
(* that a round's shares, flags and verdicts are there once.               *)
(***************************************************************************)
IInv ==
    TypeOK /\ RoundsBegin /\ OneInfoEach /\ FlagsFollow /\ VerdictsFollow /\ OpeningFollows

=============================================================================
