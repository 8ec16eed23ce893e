-------------------------------- MODULE MtA --------------------------------
(***************************************************************************)
(* The multiplicative-to-additive exchange by which the participants turn  *)
(* their addends a_p and b_p into additive shares of the product           *)
(* (sum of a_p) * (sum of b_p), once per user in the join/issue phase and  *)
(* once per user in the revocation phase.  Both use the code modelled      *)
(* here, each with maps of its own; a Session is one user in one of the    *)
(* two phases.                                                             *)
(*                                                                         *)
(* A party's share pi_share starts as a_p * b_p.  For every other party q  *)
(* it must gain alpha(p,q), which q computes for p, and beta(p,q), which p *)
(* keeps when it computes alpha(q,p) for q, where                          *)
(*     alpha(p,q) + beta(q,p) = a_p * b_q.                                 *)
(* The shares add up to the product exactly when every party's share holds *)
(* both terms for every other party, so the model records a share as the   *)
(* two sets of parties whose terms have been added to it.                  *)
(*                                                                         *)
(* One message is one TCP connection and one task at the receiver.  The    *)
(* maps are read and written under the node's lock, which a handler holds  *)
(* until its last message is sent.  Nothing orders two messages between    *)
(* the same two nodes; of the sessions in Ordered it is assumed that the   *)
(* network and the scheduler nevertheless deliver a party's opening before *)
(* its answer.                                                             *)
(***************************************************************************)
EXTENDS Naturals, FiniteSets

CONSTANTS
    Party,      \* the participants: threshold + 1 nodes
    Session,    \* one user, in the join or in the revocation phase
    Ordered     \* the sessions in which an opening comes before its sender's answer

ASSUME PartyAssumption == IsFiniteSet(Party) /\ Cardinality(Party) >= 2
ASSUME OrderedAssumption == Ordered \subseteq Session

VARIABLES
    tag,        \* [Party -> [Session -> tag state]]: tag_map, "absent" for no entry
    held,       \* [Party -> [Session -> SUBSET Party]]: shared_message_map, by sender
    alpha,      \* terms received: parties whose alpha has been added to pi_share
    beta,       \* terms kept: parties whose opening this one has answered
    answered,   \* senders in mta_two_map since it was last cleared
    oneMsgs,    \* openings in flight, [from, to, sess]
    twoMsgs,    \* answers in flight, [from, to, sess]
    finals      \* shares sent to the proxy so far, [from, sess, alpha, beta]

shares == <<alpha, beta>>
vars == <<tag, held, alpha, beta, answered, oneMsgs, twoMsgs, finals>>

Others(p) == Party \ {p}

Msg   == [from : Party, to : Party, sess : Session]
Final == [from : Party, sess : Session, alpha : SUBSET Party, beta : SUBSET Party]

AllNone == [p \in Party |-> [s \in Session |-> {}]]

Init ==
    /\ tag = [p \in Party |-> [s \in Session |-> "absent"]]
    /\ held = AllNone
    /\ alpha = AllNone
    /\ beta = AllNone
    /\ answered = AllNone
    /\ oneMsgs = {}
    /\ twoMsgs = {}
    /\ finals = {}

-----------------------------------------------------------------------------

\* The parameters of the session have been drawn; openings can be answered.
Ready(p, s) == tag[p][s] = "ready"

\* A share as it is drawn, a_p * b_p: it holds no term of another party.
FreshShare == {}

\* The openings of a session: a_p encrypted for every other party.
Openings(p, s) == [from : {p}, to : Others(p), sess : {s}]

\* The answers of p to the openings of the parties in Q.
Answers(p, Q, s) == [from : {p}, to : Q, sess : {s}]

\* The message that ends p's part of a session.
FinalMsg(p, s, terms) == [from |-> p, sess |-> s, alpha |-> terms, beta |-> beta[p][s]]

\* Mutant: the number of answers awaited is one short.
HasAnswersShort(got) == Cardinality(got) = Cardinality(Party) - 2

\* mta_two_map has an answer of every other party.
HasAnswers(got) == Cardinality(got) = Cardinality(Party) - 1

\* Mutants: the openings put aside are forgotten, or answered without keeping beta.
BeginForgetsHeld(p, s) ==
    /\ ~ Ready(p, s)
    /\ tag' = [tag EXCEPT ![p][s] = "ready"]
    /\ alpha' = [alpha EXCEPT ![p][s] = FreshShare]
    /\ oneMsgs' = oneMsgs \cup Openings(p, s)
    /\ UNCHANGED <<held, beta, answered, twoMsgs, finals>>
BeginKeepsNoBeta(p, s) ==
    /\ ~ Ready(p, s)
    /\ tag' = [tag EXCEPT ![p][s] = "ready"]
    /\ alpha' = [alpha EXCEPT ![p][s] = FreshShare]
    /\ oneMsgs' = oneMsgs \cup Openings(p, s)
    /\ twoMsgs' = twoMsgs \cup Answers(p, held[p][s], s)
    /\ UNCHANGED <<held, beta, answered, finals>>

(***************************************************************************)
(* The proxy's message opens the exchange at p, once per session: p draws  *)
(* a_p and b_p (and with them a fresh share), sends its opening to every   *)
(* other party and answers the openings that came before it.  The list of  *)
(* early openings is not emptied.                                          *)
(***************************************************************************)
Begin(p, s) ==
    /\ ~ Ready(p, s)
    /\ tag' = [tag EXCEPT ![p][s] = "ready"]
    /\ alpha' = [alpha EXCEPT ![p][s] = FreshShare]
    /\ beta' = [beta EXCEPT ![p][s] = held[p][s]]
    /\ oneMsgs' = oneMsgs \cup Openings(p, s)
    /\ twoMsgs' = twoMsgs \cup Answers(p, held[p][s], s)
    /\ UNCHANGED <<held, answered, finals>>

\* Mutant: the message is put aside as it is, not its sender.
HoldOneWhole(m) ==
    /\ m \in oneMsgs
    /\ ~ Ready(m.to, m.sess)
    /\ oneMsgs' = oneMsgs \ {m}
    /\ tag' = [tag EXCEPT ![m.to][m.sess] = "early"]
    /\ held' = [held EXCEPT ![m.to][m.sess] = @ \cup {m}]
    /\ UNCHANGED <<shares, answered, twoMsgs, finals>>

(***************************************************************************)
(* An opening that comes before the proxy's message is put aside, even if  *)
(* it is the first sign of the session.                                    *)
(***************************************************************************)
HoldOne(m) ==
    /\ m \in oneMsgs
    /\ ~ Ready(m.to, m.sess)
    /\ oneMsgs' = oneMsgs \ {m}
    /\ tag' = [tag EXCEPT ![m.to][m.sess] = "early"]
    /\ held' = [held EXCEPT ![m.to][m.sess] = @ \cup {m.from}]
    /\ UNCHANGED <<shares, answered, twoMsgs, finals>>

\* Mutant: openings are answered without asking for the parameters.
AnswerOneUnready(m) ==
    /\ m \in oneMsgs
    /\ oneMsgs' = oneMsgs \ {m}
    /\ beta' = [beta EXCEPT ![m.to][m.sess] = @ \cup {m.from}]
    /\ twoMsgs' = twoMsgs \cup Answers(m.to, {m.from}, m.sess)
    /\ UNCHANGED <<tag, held, alpha, answered, finals>>

\* An opening that comes after it is answered at once, with beta kept.
AnswerOne(m) ==
    /\ m \in oneMsgs
    /\ Ready(m.to, m.sess)
    /\ oneMsgs' = oneMsgs \ {m}
    /\ beta' = [beta EXCEPT ![m.to][m.sess] = @ \cup {m.from}]
    /\ twoMsgs' = twoMsgs \cup Answers(m.to, {m.from}, m.sess)
    /\ UNCHANGED <<tag, held, alpha, answered, finals>>

(***************************************************************************)
(* An answer: its alpha is added to the share.  With the answer of every   *)
(* other party the share goes to the proxy, as it is at this moment: the   *)
(* handler counts answers received, not openings answered.                 *)
(***************************************************************************)
RecvTwo(m) ==
    /\ m \in twoMsgs
    /\ m.sess \in Ordered => m \notin oneMsgs
    /\ twoMsgs' = twoMsgs \ {m}
    /\ LET p == m.to
           s == m.sess
           terms == alpha[p][s] \cup {m.from}
           got == answered[p][s] \cup {m.from}
       IN /\ alpha' = [alpha EXCEPT ![p][s] = terms]
          /\ IF HasAnswers(got)
             THEN /\ finals' = finals \cup {FinalMsg(p, s, terms)}
                  /\ answered' = [answered EXCEPT ![p][s] = {}]
             ELSE /\ answered' = [answered EXCEPT ![p][s] = got]
                  /\ UNCHANGED finals
    /\ UNCHANGED <<tag, held, beta, oneMsgs>>

Next ==
    \/ \E p \in Party, s \in Session : Begin(p, s)
    \/ \E m \in oneMsgs : HoldOne(m) \/ AnswerOne(m)
    \/ \E m \in twoMsgs : RecvTwo(m)

Spec == Init /\ [][Next]_vars

\* Every message is handled eventually, the proxy's opening ones included.
FairSpec == Spec /\ WF_vars(Next)

-----------------------------------------------------------------------------

PartySets == [Party -> [Session -> SUBSET Party]]

TypeOK ==
    /\ tag \in [Party -> [Session -> {"absent", "early", "ready"}]]
    /\ held \in PartySets
    /\ alpha \in PartySets
    /\ beta \in PartySets
    /\ answered \in PartySets
    /\ oneMsgs \subseteq Msg
    /\ twoMsgs \subseteq Msg
    /\ finals \subseteq Final

(***************************************************************************)
(* A share that leaves for the proxy holds both terms of every other       *)
(* party: the shares the proxy adds up make the product (join_issue_phase  *)
(* and revoke_phase of the proxy divide by it).  A share sent too early is *)
(* wrong for good, and nothing checks the key computed from it.            *)
(***************************************************************************)
Complete(f) == f.alpha = Others(f.from) /\ f.beta = Others(f.from)

SharesCompleteAlways == \A f \in finals : Complete(f)

(***************************************************************************)
(* It is so in every session whose messages are delivered in order,        *)
(* whatever the order in the others.                                       *)
(***************************************************************************)
SharesComplete == \A f \in finals : f.sess \in Ordered => Complete(f)

(***************************************************************************)
(* mta_phase_two and mta_phase_three unwrap the parameters drawn when the  *)
(* exchange was opened: no answer is on its way to a party that has not    *)
(* drawn them, and no share is drawn twice over a term already added.      *)
(***************************************************************************)
AnswersFindParams ==
    /\ \A m \in twoMsgs : tag[m.to][m.sess] = "ready" /\ tag[m.from][m.sess] = "ready"
    /\ \A p \in Party, s \in Session :
         tag[p][s] # "ready" => alpha[p][s] = {} /\ answered[p][s] = {}

(***************************************************************************)
(* The two halves of a cross term exist together: p holds alpha(p,q), or   *)
(* it is on its way to p, exactly when q has kept beta(q,p).  A term with  *)
(* one half only would make the shares add up to something else.           *)
(***************************************************************************)
TermsPaired ==
    \A s \in Session, p \in Party : \A q \in Others(p) :
        p \in beta[q][s] <=> \/ q \in alpha[p][s]
                             \/ [from |-> q, to |-> p, sess |-> s] \in twoMsgs

(***************************************************************************)
(* The proxy counts threshold + 1 shares of a user without looking who     *)
(* sent them: no party sends two for a session.                            *)
(***************************************************************************)
OneFinalEach ==
    \A f, g \in finals : f.from = g.from /\ f.sess = g.sess => f = g

(***************************************************************************)
(* In these sessions the exchange implements what SharedProduct promises:  *)
(* seen through the openings handled and the shares sent, each step draws, *)
(* issues a complete share, or stutters.                                   *)
(***************************************************************************)
Drawn == [s \in Ordered |-> {p \in Party : tag[p][s] = "ready"}]
Issued == {f \in finals : f.sess \in Ordered}

Product == INSTANCE SharedProduct WITH
               Session <- Ordered, drawn <- Drawn, issued <- Issued

ImplementsProduct == Product!Spec

(***************************************************************************)
(* An exchange of which one party has heard ends with a share from each,   *)
(* in whatever order its messages come.                                    *)
(***************************************************************************)
Heard(s) == \E p \in Party : tag[p][s] # "absent"

ExchangeEnds ==
    \A p \in Party, s \in Session :
        Heard(s) ~> \E f \in finals : f.from = p /\ f.sess = s

-----------------------------------------------------------------------------

(***************************************************************************)
(* The inductive strengthening.  An opening is in one of three places: in  *)
(* flight, put aside, or answered.                                         *)
(***************************************************************************)
Opening(q, p, s) == [from |-> q, to |-> p, sess |-> s]

NoSelf ==
    /\ \A m \in oneMsgs \cup twoMsgs : m.from # m.to
    /\ \A p \in Party, s \in Session :
         p \notin held[p][s] /\ p \notin alpha[p][s] /\ p \notin beta[p][s]

Opened ==
    \A s \in Session, q \in Party, p \in Party : p # q =>
        (tag[q][s] = "ready" <=> \/ Opening(q, p, s) \in oneMsgs
                                \/ q \in held[p][s]
                                \/ q \in beta[p][s])

OpenedOnce ==
    \A m \in oneMsgs : m.from \notin held[m.to][m.sess] /\ m.from \notin beta[m.to][m.sess]

HeldAreAnswered ==
    \A p \in Party, s \in Session :
        /\ tag[p][s] = "ready" => held[p][s] \subseteq beta[p][s]
        /\ tag[p][s] # "ready" => beta[p][s] = {}

AnswerOnce == \A m \in twoMsgs : m.from \notin alpha[m.to][m.sess]

SentFinal(p, s) == \E f \in finals : f.from = p /\ f.sess = s

AnswersCounted ==
    /\ \A f \in finals : /\ f.alpha = Others(f.from)
                         /\ alpha[f.from][f.sess] = Others(f.from)
    /\ \A p \in Party, s \in Session :
         ~ SentFinal(p, s) => answered[p][s] = alpha[p][s]

\* With messages in order, the sender of an answer has been answered or held.
OpeningFirst ==
    \A s \in Ordered, p, q \in Party :
        q \in alpha[p][s] => Opening(q, p, s) \notin oneMsgs

IInv ==
    /\ TypeOK
    /\ NoSelf
    /\ Opened
    /\ OpenedOnce
    /\ HeldAreAnswered
    /\ AnswersFindParams
    /\ TermsPaired
    /\ AnswerOnce
    /\ AnswersCounted
    /\ OpeningFirst
    /\ OneFinalEach
    /\ SharesComplete

=============================================================================
