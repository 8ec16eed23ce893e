----------------------------- MODULE MtAProofs -----------------------------
(***************************************************************************)
(* Proofs about the exchange, for every set of parties and sessions.  What *)
(* needs the order of messages is about the sessions in Ordered only.      *)
(***************************************************************************)
EXTENDS MtA, FiniteSetTheorems, TLAPS

\* As many answers as there are other parties: one from each.
LEMMA AllAnswered ==
    ASSUME NEW p \in Party, NEW V, V \subseteq Others(p),
           Cardinality(V) = Cardinality(Party) - 1
    PROVE  V = Others(p)
<1>1. IsFiniteSet(Others(p)) /\ Cardinality(Others(p)) = Cardinality(Party) - 1
    BY PartyAssumption, FS_RemoveElement DEF Others
<1> QED BY <1>1, FS_Subset

-----------------------------------------------------------------------------

LEMMA InitIInv == Init => IInv
<1> SUFFICES ASSUME Init PROVE IInv
    OBVIOUS
<1> USE DEF Init, AllNone
<1>1. TypeOK
    BY DEF TypeOK, PartySets
<1>2. NoSelf /\ Opened /\ OpenedOnce /\ HeldAreAnswered /\ AnswersFindParams
    BY DEF NoSelf, Opened, OpenedOnce, HeldAreAnswered, AnswersFindParams
<1>3. TermsPaired /\ AnswerOnce /\ OpeningFirst
    BY DEF TermsPaired, AnswerOnce, OpeningFirst, Others
<1>4. AnswersCounted /\ OneFinalEach /\ SharesComplete
    BY DEF AnswersCounted, OneFinalEach, SharesComplete, Complete
<1> QED BY <1>1, <1>2, <1>3, <1>4 DEF IInv

LEMMA BeginStep ==
    ASSUME IInv, NEW p \in Party, NEW s \in Session, Begin(p, s)
    PROVE  IInv'
<1> USE DEF IInv
<1> DEFINE openings == [from : {p}, to : Others(p), sess : {s}]
           answers  == [from : {p}, to : held[p][s], sess : {s}]
<1>1. /\ tag[p][s] # "ready"
      /\ tag' = [tag EXCEPT ![p][s] = "ready"]
      /\ alpha' = [alpha EXCEPT ![p][s] = {}]
      /\ beta' = [beta EXCEPT ![p][s] = held[p][s]]
      /\ oneMsgs' = oneMsgs \cup openings
      /\ twoMsgs' = twoMsgs \cup answers
      /\ UNCHANGED <<held, answered, finals>>
    BY DEF Begin, Ready, FreshShare, Openings, Answers
\* Before its opening p has received, kept and sent nothing.
<1>2. /\ alpha[p][s] = {} /\ answered[p][s] = {} /\ beta[p][s] = {}
      /\ alpha' = alpha
      /\ \A q \in Party : Opening(q, p, s) \notin twoMsgs /\ Opening(p, q, s) \notin twoMsgs
      /\ \A q \in Party : /\ Opening(p, q, s) \notin oneMsgs
                          /\ p \notin held[q][s]
                          /\ p \notin beta[q][s]
      /\ \A q \in Party : p \notin alpha[q][s]
    <2>1. alpha[p][s] = {} /\ answered[p][s] = {} /\ beta[p][s] = {}
        BY <1>1 DEF AnswersFindParams, HeldAreAnswered
    <2>2. alpha' = alpha
        BY <1>1, <2>1 DEF TypeOK, PartySets
    <2>3. \A q \in Party : Opening(q, p, s) \notin twoMsgs /\ Opening(p, q, s) \notin twoMsgs
        BY <1>1 DEF AnswersFindParams, Opening
    <2>4. \A q \in Party : /\ Opening(p, q, s) \notin oneMsgs
                           /\ p \notin held[q][s]
                           /\ p \notin beta[q][s]
        <3> SUFFICES ASSUME NEW q \in Party
                     PROVE  /\ Opening(p, q, s) \notin oneMsgs
                            /\ p \notin held[q][s]
                            /\ p \notin beta[q][s]
            OBVIOUS
        <3>1. CASE q = p
            BY <3>1 DEF NoSelf, Opening
        <3>2. CASE q # p
            BY <1>1, <3>2 DEF Opened
        <3> QED BY <3>1, <3>2
    <2>5. \A q \in Party : p \notin alpha[q][s]
        <3> SUFFICES ASSUME NEW q \in Party, p \in alpha[q][s] PROVE FALSE
            OBVIOUS
        <3>1. q # p
            BY DEF NoSelf
        <3>2. q \in beta[p][s]
            BY <3>1 DEF TermsPaired, Others
        <3> QED BY <2>1, <3>2
    <2> QED BY <2>1, <2>2, <2>3, <2>4, <2>5
<1>3. TypeOK'
    <2>1. openings \subseteq Msg /\ answers \subseteq Msg
        BY DEF TypeOK, PartySets, Msg, Others
    <2>2. tag' \in [Party -> [Session -> {"absent", "early", "ready"}]]
        BY <1>1 DEF TypeOK
    <2>3. beta' \in PartySets
        BY <1>1 DEF TypeOK, PartySets
    <2> QED BY <1>1, <1>2, <2>1, <2>2, <2>3 DEF TypeOK
<1>4. NoSelf'
    <2>1. \A m \in openings \cup answers : m.from # m.to
        BY DEF NoSelf, Others
    <2>2. \A q \in Party, r \in Session : q \notin beta'[q][r]
        BY <1>1 DEF NoSelf, TypeOK, PartySets
    <2> QED BY <1>1, <1>2, <2>1, <2>2 DEF NoSelf
<1>5. Opened'
    <2> SUFFICES ASSUME NEW r \in Session, NEW q \in Party, NEW k \in Party, k # q
                 PROVE  tag'[q][r] = "ready" <=> \/ Opening(q, k, r) \in oneMsgs'
                                                 \/ q \in held'[k][r]
                                                 \/ q \in beta'[k][r]
        BY DEF Opened, Opening
    <2>1. CASE q = p /\ r = s
        <3>1. tag'[q][r] = "ready"
            BY <1>1, <2>1 DEF TypeOK
        <3>2. Opening(q, k, r) \in oneMsgs'
            BY <1>1, <2>1 DEF Opening, Others
        <3> QED BY <3>1, <3>2
    <2>2. CASE ~ (q = p /\ r = s)
        <3>1. tag'[q][r] = tag[q][r]
            BY <1>1, <2>2 DEF TypeOK
        <3>2. Opening(q, k, r) \in oneMsgs' <=> Opening(q, k, r) \in oneMsgs
            BY <1>1, <2>2 DEF Opening
        <3>3. q \in held'[k][r] \/ q \in beta'[k][r] <=> q \in held[k][r] \/ q \in beta[k][r]
            BY <1>1, <1>2 DEF TypeOK, PartySets
        <3> QED BY <3>1, <3>2, <3>3 DEF Opened
    <2> QED BY <2>1, <2>2
<1>6. OpenedOnce'
    <2> SUFFICES ASSUME NEW m \in oneMsgs'
                 PROVE  m.from \notin held[m.to][m.sess] /\ m.from \notin beta'[m.to][m.sess]
        BY <1>1 DEF OpenedOnce
    <2>1. CASE m \in oneMsgs
        BY <1>1, <2>1 DEF OpenedOnce, TypeOK, PartySets, Msg
    <2>2. CASE m \in openings
        <3>1. m.from = p /\ m.sess = s /\ m.to \in Party /\ m.to # p
            BY <2>2 DEF Others
        <3> QED BY <1>1, <1>2, <3>1 DEF TypeOK, PartySets
    <2> QED BY <1>1, <2>1, <2>2
<1>7. HeldAreAnswered'
    BY <1>1 DEF HeldAreAnswered, TypeOK, PartySets
<1>8. AnswersFindParams'
    <2>1. \A q \in held[p][s] : q \in Party /\ q # p /\ tag[q][s] = "ready"
        BY DEF NoSelf, Opened, TypeOK, PartySets
    <2>2. \A m \in twoMsgs' : tag'[m.to][m.sess] = "ready" /\ tag'[m.from][m.sess] = "ready"
        <3> SUFFICES ASSUME NEW m \in twoMsgs'
                     PROVE  tag'[m.to][m.sess] = "ready" /\ tag'[m.from][m.sess] = "ready"
            OBVIOUS
        <3>1. CASE m \in twoMsgs
            BY <1>1, <3>1 DEF AnswersFindParams, TypeOK, Msg
        <3>2. CASE m \in answers
            BY <1>1, <2>1, <3>2 DEF TypeOK
        <3> QED BY <1>1, <3>1, <3>2
    <2>3. \A q \in Party, r \in Session :
            tag'[q][r] # "ready" => alpha'[q][r] = {} /\ answered'[q][r] = {}
        BY <1>1, <1>2 DEF AnswersFindParams, TypeOK
    <2> QED BY <2>2, <2>3 DEF AnswersFindParams
<1>9. TermsPaired'
    <2> SUFFICES ASSUME NEW r \in Session, NEW k \in Party, NEW q \in Others(k)
                 PROVE  k \in beta'[q][r] <=> \/ q \in alpha[k][r]
                                              \/ Opening(q, k, r) \in twoMsgs'
        BY <1>2 DEF TermsPaired, Opening
    <2>1. CASE q = p /\ r = s
        <3>1. k \in beta'[q][r] <=> k \in held[p][s]
            BY <1>1, <2>1 DEF TypeOK, PartySets
        <3>2. Opening(q, k, r) \in twoMsgs' <=> k \in held[p][s]
            BY <1>1, <1>2, <2>1 DEF Opening
        <3> QED BY <1>2, <2>1, <3>1, <3>2
    <2>2. CASE ~ (q = p /\ r = s)
        <3>1. beta'[q][r] = beta[q][r]
            BY <1>1, <2>2 DEF TypeOK, PartySets, Others
        <3>2. Opening(q, k, r) \in twoMsgs' <=> Opening(q, k, r) \in twoMsgs
            BY <1>1, <2>2 DEF Opening
        <3> QED BY <3>1, <3>2 DEF TermsPaired, Opening
    <2> QED BY <2>1, <2>2
<1>10. AnswerOnce'
    <2> SUFFICES ASSUME NEW m \in twoMsgs' PROVE m.from \notin alpha[m.to][m.sess]
        BY <1>2 DEF AnswerOnce
    <2>1. CASE m \in twoMsgs
        BY <2>1 DEF AnswerOnce
    <2>2. CASE m \in answers
        <3>1. m.from = p /\ m.sess = s /\ m.to \in Party
            BY <2>2 DEF TypeOK, PartySets
        <3> QED BY <1>2, <3>1
    <2> QED BY <1>1, <2>1, <2>2
<1>11. AnswersCounted' /\ OneFinalEach' /\ SharesComplete'
    <2>1. \A q \in Party, r \in Session : SentFinal(q, r)' <=> SentFinal(q, r)
        BY <1>1 DEF SentFinal
    <2>2. \A f \in finals' : /\ f.alpha = Others(f.from)
                             /\ alpha'[f.from][f.sess] = Others(f.from)
        <3>1. \A f \in finals : /\ f.alpha = Others(f.from)
                                /\ alpha[f.from][f.sess] = Others(f.from)
            BY DEF AnswersCounted
        <3>2. finals' = finals /\ alpha' = alpha
            BY <1>1, <1>2
        <3> QED BY <3>1, <3>2
    <2>3. ASSUME NEW q \in Party, NEW r \in Session, ~ SentFinal(q, r)'
          PROVE  answered'[q][r] = alpha'[q][r]
        <3>1. answered[q][r] = alpha[q][r]
            BY <2>1, <2>3 DEF AnswersCounted
        <3> QED BY <1>1, <1>2, <3>1
    <2>4. AnswersCounted'
        BY <2>2, <2>3 DEF AnswersCounted
    <2> QED BY <1>1, <2>4 DEF OneFinalEach, SharesComplete, Complete
<1>12. OpeningFirst'
    <2> SUFFICES ASSUME NEW r \in Ordered, NEW k \in Party, NEW q \in Party,
                        q \in alpha[k][r]
                 PROVE  Opening(q, k, r) \notin oneMsgs'
        BY <1>2 DEF OpeningFirst, Opening
    <2>1. ~ (q = p /\ r = s)
        BY <1>2
    <2> USE OrderedAssumption
    <2>2. Opening(q, k, r) \notin openings
        BY <2>1 DEF Opening
    <2> QED BY <1>1, <2>2 DEF OpeningFirst
<1> QED BY <1>3, <1>4, <1>5, <1>6, <1>7, <1>8, <1>9, <1>10, <1>11, <1>12

LEMMA HoldOneStep ==
    ASSUME IInv, NEW m \in oneMsgs, HoldOne(m)
    PROVE  IInv'
<1> USE DEF IInv
<1> DEFINE p == m.to
           s == m.sess
<1>1. /\ m \in Msg /\ p \in Party /\ s \in Session /\ m.from \in Party /\ m.from # p
      /\ m = Opening(m.from, p, s)
    BY DEF TypeOK, Msg, NoSelf, Opening
<1>2. /\ tag[p][s] # "ready"
      /\ oneMsgs' = oneMsgs \ {m}
      /\ tag' = [tag EXCEPT ![p][s] = "early"]
      /\ held' = [held EXCEPT ![p][s] = held[p][s] \cup {m.from}]
      /\ UNCHANGED <<alpha, beta, answered, twoMsgs, finals>>
    BY DEF HoldOne, Ready, shares
<1> HIDE DEF p, s
<1>3. \A q \in Party, r \in Session : tag'[q][r] = "ready" <=> tag[q][r] = "ready"
    BY <1>1, <1>2 DEF TypeOK
<1>4. TypeOK'
    <2>1. held' \in PartySets
        BY <1>1, <1>2 DEF TypeOK, PartySets
    <2> QED BY <1>1, <1>2, <2>1 DEF TypeOK
<1>5. NoSelf'
    BY <1>1, <1>2 DEF NoSelf, TypeOK, PartySets
<1>6. Opened'
    <2> SUFFICES ASSUME NEW r \in Session, NEW q \in Party, NEW k \in Party, k # q
                 PROVE  tag[q][r] = "ready" <=> \/ Opening(q, k, r) \in oneMsgs'
                                                \/ q \in held'[k][r]
                                                \/ q \in beta[k][r]
        BY <1>2, <1>3 DEF Opened, Opening
    <2>1. CASE Opening(q, k, r) = m
        <3>1. q = m.from /\ k = p /\ r = s
            BY <2>1 DEF Opening, p, s
        <3>2. q \in held'[k][r]
            BY <1>1, <1>2, <3>1 DEF TypeOK, PartySets
        <3>3. tag[q][r] = "ready"
            BY <2>1 DEF Opened
        <3> QED BY <3>2, <3>3
    <2>2. CASE Opening(q, k, r) # m
        <3>1. q # m.from \/ k # p \/ r # s
            BY <1>1, <2>2
        <3>2. q \in held'[k][r] <=> q \in held[k][r]
            BY <1>1, <1>2, <3>1 DEF TypeOK, PartySets
        <3> QED BY <1>2, <2>2, <3>2 DEF Opened
    <2> QED BY <2>1, <2>2
<1>7. OpenedOnce'
    <2> SUFFICES ASSUME NEW k \in oneMsgs, k # m
                 PROVE  k.from \notin held'[k.to][k.sess] /\ k.from \notin beta[k.to][k.sess]
        BY <1>2 DEF OpenedOnce
    <2>1. k \in Msg /\ (k.from # m.from \/ k.to # p \/ k.sess # s)
        BY <1>1 DEF TypeOK, Msg, p, s
    <2> QED BY <1>1, <1>2, <2>1 DEF OpenedOnce, TypeOK, PartySets, Msg
<1>8. HeldAreAnswered'
    BY <1>1, <1>2, <1>3 DEF HeldAreAnswered, TypeOK, PartySets
<1>9. AnswersFindParams'
    BY <1>2, <1>3 DEF AnswersFindParams, TypeOK, Msg
<1>10. TermsPaired' /\ AnswerOnce' /\ AnswersCounted' /\ OneFinalEach'
       /\ SharesComplete'
    BY <1>2 DEF TermsPaired, AnswerOnce, AnswersCounted, SentFinal, OneFinalEach, SharesComplete, Complete
<1>11. OpeningFirst'
    BY <1>2 DEF OpeningFirst, Opening
<1> QED BY <1>4, <1>5, <1>6, <1>7, <1>8, <1>9, <1>10, <1>11

\* The answer to one opening is one message.
LEMMA OneAnswer ==
    ASSUME NEW p, NEW q, NEW s
    PROVE  Answers(p, {q}, s) = {Opening(p, q, s)}
<1>1. ASSUME NEW x \in Answers(p, {q}, s) PROVE x = Opening(p, q, s)
    BY <1>1 DEF Answers, Opening
<1>2. Opening(p, q, s) \in Answers(p, {q}, s)
    BY DEF Answers, Opening
<1> QED BY <1>1, <1>2

LEMMA AnswerOneStep ==
    ASSUME IInv, NEW m \in oneMsgs, AnswerOne(m)
    PROVE  IInv'
<1> USE DEF IInv
<1> DEFINE p == m.to
           s == m.sess
           q == m.from
<1>1. /\ m \in Msg /\ p \in Party /\ s \in Session /\ q \in Party /\ q # p
      /\ m = Opening(q, p, s)
    BY DEF TypeOK, Msg, NoSelf, Opening
<1>2. /\ tag[p][s] = "ready"
      /\ oneMsgs' = oneMsgs \ {m}
      /\ beta' = [beta EXCEPT ![p][s] = beta[p][s] \cup {q}]
      /\ twoMsgs' = twoMsgs \cup {Opening(p, q, s)}
      /\ UNCHANGED <<tag, held, alpha, answered, finals>>
    BY OneAnswer DEF AnswerOne, Ready
\* Nobody has this opening yet: q has no answer from p.
<1>3. /\ tag[q][s] = "ready" /\ q \notin beta[p][s] /\ q \notin held[p][s]
      /\ p \notin alpha[q][s] /\ Opening(p, q, s) \notin twoMsgs
    <2>1. tag[q][s] = "ready"
        BY <1>1 DEF Opened
    <2>2. q \notin beta[p][s] /\ q \notin held[p][s]
        BY DEF OpenedOnce
    <2> QED BY <1>1, <2>1, <2>2 DEF TermsPaired, Others, Opening
<1> HIDE DEF p, s, q
<1>4. TypeOK'
    <2>1. beta' \in PartySets
        BY <1>1, <1>2 DEF TypeOK, PartySets
    <2>2. Opening(p, q, s) \in Msg
        BY <1>1 DEF Msg, Opening
    <2> QED BY <1>2, <2>1, <2>2 DEF TypeOK
<1>5. NoSelf'
    <2>1. \A k \in Party, r \in Session : k \notin beta'[k][r]
        BY <1>1, <1>2 DEF NoSelf, TypeOK, PartySets
    <2>2. \A k \in oneMsgs' \cup twoMsgs' : k.from # k.to
        BY <1>1, <1>2 DEF NoSelf, Opening
    <2> QED BY <1>2, <2>1, <2>2 DEF NoSelf
<1>6. Opened'
    <2> SUFFICES ASSUME NEW r \in Session, NEW j \in Party, NEW k \in Party, k # j
                 PROVE  tag[j][r] = "ready" <=> \/ Opening(j, k, r) \in oneMsgs'
                                                \/ j \in held[k][r]
                                                \/ j \in beta'[k][r]
        BY <1>2 DEF Opened, Opening
    <2>1. CASE j = q /\ k = p /\ r = s
        BY <1>1, <1>2, <1>3, <2>1 DEF TypeOK, PartySets
    <2>2. CASE ~ (j = q /\ k = p /\ r = s)
        <3>1. j \in beta'[k][r] <=> j \in beta[k][r]
            BY <1>1, <1>2, <2>2 DEF TypeOK, PartySets
        <3>2. Opening(j, k, r) # m
            BY <1>1, <2>2 DEF Opening
        <3> QED BY <1>2, <3>1, <3>2 DEF Opened
    <2> QED BY <2>1, <2>2
<1>7. OpenedOnce'
    <2> SUFFICES ASSUME NEW k \in oneMsgs, k # m
                 PROVE  k.from \notin held[k.to][k.sess] /\ k.from \notin beta'[k.to][k.sess]
        BY <1>2 DEF OpenedOnce
    <2>1. k \in Msg /\ (k.from # q \/ k.to # p \/ k.sess # s)
        BY <1>1 DEF TypeOK, Msg, p, s, q
    <2> QED BY <1>1, <1>2, <2>1 DEF OpenedOnce, TypeOK, PartySets, Msg
<1>8. HeldAreAnswered'
    BY <1>1, <1>2 DEF HeldAreAnswered, TypeOK, PartySets
<1>9. AnswersFindParams'
    BY <1>1, <1>2, <1>3 DEF AnswersFindParams, Opening
<1>10. TermsPaired'
    <2> SUFFICES ASSUME NEW r \in Session, NEW k \in Party, NEW j \in Others(k)
                 PROVE  k \in beta'[j][r] <=> \/ j \in alpha[k][r]
                                              \/ Opening(j, k, r) \in twoMsgs'
        BY <1>2 DEF TermsPaired, Opening
    <2>1. CASE j = p /\ k = q /\ r = s
        BY <1>1, <1>2, <2>1 DEF TypeOK, PartySets
    <2>2. CASE ~ (j = p /\ k = q /\ r = s)
        <3>1. k \in beta'[j][r] <=> k \in beta[j][r]
            BY <1>1, <1>2, <2>2 DEF TypeOK, PartySets, Others
        <3>2. Opening(j, k, r) # Opening(p, q, s)
            BY <2>2 DEF Opening
        <3> QED BY <1>2, <3>1, <3>2 DEF TermsPaired, Opening
    <2> QED BY <2>1, <2>2
<1>11. AnswerOnce'
    BY <1>2, <1>3 DEF AnswerOnce, Opening
<1>12. AnswersCounted' /\ OneFinalEach' /\ SharesComplete' /\ OpeningFirst'
    BY <1>2 DEF AnswersCounted, SentFinal, OneFinalEach, SharesComplete, Complete, OpeningFirst, Opening
<1> QED BY <1>4, <1>5, <1>6, <1>7, <1>8, <1>9, <1>10, <1>11, <1>12

LEMMA RecvTwoStep ==
    ASSUME IInv, NEW m \in twoMsgs, RecvTwo(m)
    PROVE  IInv'
<1> USE DEF IInv
<1> DEFINE p == m.to
           s == m.sess
           q == m.from
           terms == alpha[p][s] \cup {q}
           final == [from |-> p, sess |-> s, alpha |-> terms, beta |-> beta[p][s]]
<1>1. /\ m \in Msg /\ p \in Party /\ s \in Session /\ q \in Party /\ q # p
      /\ m = Opening(q, p, s)
    BY DEF TypeOK, Msg, NoSelf, Opening
<1>2. /\ twoMsgs' = twoMsgs \ {m}
      /\ alpha' = [alpha EXCEPT ![p][s] = terms]
      /\ s \in Ordered => m \notin oneMsgs
      /\ UNCHANGED <<tag, held, beta, oneMsgs>>
    BY DEF RecvTwo, HasAnswers, FinalMsg
\* This is the first answer of q; p has not sent its share.
<1>3. /\ tag[p][s] = "ready" /\ tag[q][s] = "ready"
      /\ q \notin alpha[p][s] /\ p \in beta[q][s]
      /\ ~ SentFinal(p, s)
      /\ answered[p][s] = alpha[p][s]
      /\ terms \subseteq Others(p)
    <2>1. q \notin alpha[p][s] /\ p \in beta[q][s]
        BY <1>1 DEF AnswerOnce, TermsPaired, Others, Opening
    <2>2. ~ SentFinal(p, s)
        BY <1>1, <2>1 DEF SentFinal, AnswersCounted, Others
    <2>3. answered[p][s] = alpha[p][s]
        BY <1>1, <2>2 DEF AnswersCounted
    <2>4. alpha[p][s] \subseteq Others(p)
        BY <1>1 DEF TypeOK, PartySets, NoSelf, Others
    <2> QED BY <1>1, <2>1, <2>2, <2>3, <2>4 DEF AnswersFindParams, Others
<1>4. \/ /\ terms = Others(p)
         /\ finals' = finals \cup {final}
         /\ answered' = [answered EXCEPT ![p][s] = {}]
      \/ /\ finals' = finals
         /\ answered' = [answered EXCEPT ![p][s] = terms]
    <2>1. Cardinality(terms) = Cardinality(Party) - 1 => terms = Others(p)
        BY <1>1, <1>3, AllAnswered
    <2> QED BY <1>3, <2>1 DEF RecvTwo, HasAnswers, FinalMsg
<1> HIDE DEF p, s, q
<1>5. TypeOK'
    <2>1. alpha' \in PartySets
        BY <1>1, <1>2 DEF TypeOK, PartySets
    <2>2. answered' \in PartySets
        <3>1. terms \subseteq Party
            BY <1>3 DEF Others
        <3>2. CASE answered' = [answered EXCEPT ![p][s] = {}]
            BY <1>1, <3>2 DEF TypeOK, PartySets
        <3>3. CASE answered' = [answered EXCEPT ![p][s] = terms]
            BY <1>1, <3>1, <3>3 DEF TypeOK, PartySets
        <3> QED BY <1>4, <3>2, <3>3
    <2>3. final \in Final
        BY <1>1, <1>3 DEF TypeOK, PartySets, Final, Others
    <2> HIDE DEF final
    <2> QED BY <1>2, <1>4, <2>1, <2>2, <2>3 DEF TypeOK
<1>6. NoSelf'
    BY <1>1, <1>2 DEF NoSelf, TypeOK, PartySets
<1>7. Opened' /\ OpenedOnce' /\ HeldAreAnswered'
    BY <1>2 DEF Opened, OpenedOnce, HeldAreAnswered, Opening
<1>8. AnswersFindParams'
    <2>1. \A k \in Party, r \in Session :
            tag[k][r] # "ready" => alpha'[k][r] = {} /\ answered'[k][r] = {}
        <3> SUFFICES ASSUME NEW k \in Party, NEW r \in Session, tag[k][r] # "ready"
                     PROVE  alpha'[k][r] = {} /\ answered'[k][r] = {}
            OBVIOUS
        <3>1. ~ (k = p /\ r = s)
            BY <1>3
        <3>2. alpha'[k][r] = alpha[k][r]
            BY <1>1, <1>2, <3>1 DEF TypeOK, PartySets
        <3>3. answered'[k][r] = answered[k][r]
            BY <1>1, <1>4, <3>1 DEF TypeOK, PartySets
        <3> QED BY <3>2, <3>3 DEF AnswersFindParams
    <2> QED BY <1>2, <2>1 DEF AnswersFindParams
<1>9. TermsPaired'
    <2> SUFFICES ASSUME NEW r \in Session, NEW k \in Party, NEW j \in Others(k)
                 PROVE  k \in beta[j][r] <=> \/ j \in alpha'[k][r]
                                             \/ Opening(j, k, r) \in twoMsgs'
        BY <1>2 DEF TermsPaired, Opening
    <2>1. CASE j = q /\ k = p /\ r = s
        BY <1>1, <1>2, <1>3, <2>1 DEF TypeOK, PartySets
    <2>2. CASE ~ (j = q /\ k = p /\ r = s)
        <3>1. j \in alpha'[k][r] <=> j \in alpha[k][r]
            BY <1>1, <1>2, <2>2 DEF TypeOK, PartySets, Others
        <3>2. Opening(j, k, r) # m
            BY <1>1, <2>2 DEF Opening
        <3> QED BY <1>2, <3>1, <3>2 DEF TermsPaired, Opening
    <2> QED BY <2>1, <2>2
<1>10. AnswerOnce'
    <2> SUFFICES ASSUME NEW k \in twoMsgs, k # m PROVE k.from \notin alpha'[k.to][k.sess]
        BY <1>2 DEF AnswerOnce
    <2>1. k \in Msg /\ (k.from # q \/ k.to # p \/ k.sess # s)
        BY <1>1 DEF TypeOK, Msg, p, s, q
    <2> QED BY <1>1, <1>2, <2>1 DEF AnswerOnce, TypeOK, PartySets, Msg
<1>11. alpha'[p][s] = terms /\ \A f \in finals : alpha'[f.from][f.sess] = alpha[f.from][f.sess]
    <2>1. \A f \in finals : f.from # p \/ f.sess # s
        BY <1>3 DEF SentFinal
    <2> QED BY <1>1, <1>2, <2>1 DEF TypeOK, PartySets, Final
<1>12. AnswersCounted'
    <2>1. \A f \in finals' : /\ f.alpha = Others(f.from)
                             /\ alpha'[f.from][f.sess] = Others(f.from)
        <3> SUFFICES ASSUME NEW f \in finals'
                     PROVE  f.alpha = Others(f.from) /\ alpha'[f.from][f.sess] = Others(f.from)
            OBVIOUS
        <3>1. CASE f \in finals
            BY <1>11, <3>1 DEF AnswersCounted
        <3>2. CASE f \notin finals
            <4>1. f = final /\ terms = Others(p)
                BY <1>4, <3>2
            <4>2. f.from = p /\ f.sess = s /\ f.alpha = terms
                BY <4>1
            <4> QED BY <1>11, <4>1, <4>2
        <3> QED BY <3>1, <3>2
    <2>2. ASSUME NEW k \in Party, NEW r \in Session, ~ SentFinal(k, r)'
          PROVE  answered'[k][r] = alpha'[k][r]
        <3>1. CASE k = p /\ r = s
            <4>1. answered' = [answered EXCEPT ![p][s] = terms]
                <5>1. final.from = p /\ final.sess = s
                    OBVIOUS
                <5>2. final \notin finals'
                    BY <2>2, <3>1, <5>1 DEF SentFinal
                <5> HIDE DEF final
                <5> QED BY <1>4, <5>2
            <4> QED BY <1>1, <1>11, <3>1, <4>1 DEF TypeOK, PartySets
        <3>2. CASE ~ (k = p /\ r = s)
            <4>1. alpha'[k][r] = alpha[k][r]
                BY <1>1, <1>2, <3>2 DEF TypeOK, PartySets
            <4>2. answered'[k][r] = answered[k][r]
                BY <1>1, <1>4, <3>2 DEF TypeOK, PartySets
            <4>3. ~ SentFinal(k, r)
                BY <1>4, <2>2 DEF SentFinal
            <4> QED BY <4>1, <4>2, <4>3 DEF AnswersCounted
        <3> QED BY <3>1, <3>2
    <2> QED BY <2>1, <2>2 DEF AnswersCounted
<1>13. OneFinalEach'
    <2> SUFFICES ASSUME NEW f \in finals', NEW g \in finals',
                        f.from = g.from, f.sess = g.sess
                 PROVE  f = g
        BY DEF OneFinalEach
    <2>1. final.from = p /\ final.sess = s
        OBVIOUS
    <2>2. \A h \in finals : h.from # p \/ h.sess # s
        BY <1>3 DEF SentFinal
    <2> HIDE DEF final
    <2> QED BY <1>4, <2>1, <2>2 DEF OneFinalEach
<1>14. OpeningFirst'
    <2> USE OrderedAssumption
    <2> SUFFICES ASSUME NEW r \in Ordered, NEW k \in Party, NEW j \in Party,
                        j \in alpha'[k][r]
                 PROVE  Opening(j, k, r) \notin oneMsgs
        BY <1>2 DEF OpeningFirst, Opening
    <2>1. CASE j = q /\ k = p /\ r = s
        BY <1>1, <1>2, <2>1
    <2>2. CASE ~ (j = q /\ k = p /\ r = s)
        <3>1. j \in alpha[k][r]
            BY <1>1, <1>2, <2>2 DEF TypeOK, PartySets
        <3> QED BY <3>1 DEF OpeningFirst
    <2> QED BY <2>1, <2>2
\* In order, p has answered everyone whose answer it has.
<1>15. ASSUME s \in Ordered, terms = Others(p) PROVE beta[p][s] = Others(p)
    <2> SUFFICES ASSUME NEW j \in Others(p) PROVE j \in beta[p][s]
        BY <1>1 DEF NoSelf, TypeOK, PartySets, Others
    <2>1. j \in Party /\ j # p
        BY DEF Others
    <2>2. tag[j][s] = "ready"
        <3>1. CASE j = q
            BY <1>3, <3>1
        <3>2. CASE j # q
            <4>1. j \in alpha[p][s]
                BY <1>15, <3>2
            <4>2. p \in beta[j][s]
                BY <1>1, <4>1 DEF TermsPaired
            <4> QED BY <1>1, <2>1, <4>2 DEF HeldAreAnswered
        <3> QED BY <3>1, <3>2
    <2>3. Opening(j, p, s) \notin oneMsgs
        BY <1>1, <1>2, <1>11, <1>14, <1>15, <2>1 DEF OpeningFirst, Opening
    <2> QED BY <1>1, <1>3, <2>1, <2>2, <2>3 DEF Opened, HeldAreAnswered
<1>16. SharesComplete'
    <2> SUFFICES ASSUME NEW f \in finals', f.sess \in Ordered PROVE Complete(f)
        BY DEF SharesComplete
    <2>1. CASE f \in finals
        BY <2>1 DEF SharesComplete
    <2>2. CASE f \notin finals
        <3>1. f = final /\ terms = Others(p)
            BY <1>4, <2>2
        <3>2. f.from = p /\ f.sess = s /\ f.alpha = terms /\ f.beta = beta[p][s]
            BY <3>1
        <3>3. beta[p][s] = Others(p)
            BY <1>15, <3>1, <3>2
        <3> QED BY <3>1, <3>2, <3>3 DEF Complete
    <2> QED BY <2>1, <2>2
<1> QED BY <1>5, <1>6, <1>7, <1>8, <1>9, <1>10, <1>12, <1>13, <1>14, <1>16

LEMMA StutterStep == ASSUME IInv, UNCHANGED vars PROVE IInv'
<1> USE DEF IInv, vars, shares
<1>1. TypeOK' /\ NoSelf' /\ OpenedOnce' /\ HeldAreAnswered' /\ AnswersFindParams'
    BY DEF TypeOK, NoSelf, OpenedOnce, HeldAreAnswered, AnswersFindParams
<1>2. Opened' /\ TermsPaired' /\ OpeningFirst'
    BY DEF Opened, TermsPaired, OpeningFirst, Opening
<1>3. AnswerOnce' /\ AnswersCounted' /\ OneFinalEach' /\ SharesComplete'
    BY DEF AnswerOnce, AnswersCounted, SentFinal, OneFinalEach, SharesComplete, Complete
<1> QED BY <1>1, <1>2, <1>3

LEMMA NextIInv == IInv /\ [Next]_vars => IInv'
BY BeginStep, HoldOneStep, AnswerOneStep, RecvTwoStep, StutterStep DEF Next

\* The inductive invariant holds in every behaviour of the exchange.
THEOREM InductiveInvariant == Spec => []IInv
<1>1. Init => IInv
    BY InitIInv
<1>2. IInv /\ [Next]_vars => IInv'
    BY NextIInv
<1> QED BY <1>1, <1>2, PTL DEF Spec

-----------------------------------------------------------------------------

\* TypeOK: the state of the exchange keeps its shape.
THEOREM TypeCorrect == Spec => []TypeOK
<1>1. IInv => TypeOK
    BY DEF IInv
<1> QED BY <1>1, InductiveInvariant, PTL

\* TermsPaired: in whatever order messages come, the two halves of a cross
\* term exist together.
THEOREM TermsStayPaired == Spec => []TermsPaired
<1>1. IInv => TermsPaired
    BY DEF IInv
<1> QED BY <1>1, InductiveInvariant, PTL

\* AnswersFindParams: who answers an opening, and who gets the answer, has
\* drawn the parameters its handler unwraps.
THEOREM ParamsAreFound == Spec => []AnswersFindParams
<1>1. IInv => AnswersFindParams
    BY DEF IInv
<1> QED BY <1>1, InductiveInvariant, PTL

\* OneFinalEach: a party sends its share of a session once.
THEOREM SharesSentOnce == Spec => []OneFinalEach
<1>1. IInv => OneFinalEach
    BY DEF IInv
<1> QED BY <1>1, InductiveInvariant, PTL

\* SharesComplete: from a session whose messages come in order, no share
\* leaves a party without both terms of every other party.
THEOREM SharesAreComplete == Spec => []SharesComplete
<1>1. IInv => SharesComplete
    BY DEF IInv
<1> QED BY <1>1, InductiveInvariant, PTL

-----------------------------------------------------------------------------

LEMMA BeginDraws ==
    ASSUME IInv, NEW p \in Party, NEW s \in Session, Begin(p, s)
    PROVE  \/ s \in Ordered /\ Product!Draw(p, s)
           \/ Drawn' = Drawn /\ Issued' = Issued
<1>1. /\ tag[p][s] # "ready"
      /\ tag' = [tag EXCEPT ![p][s] = "ready"]
      /\ Issued' = Issued
    BY DEF Begin, Ready, FreshShare, Openings, Answers, Issued
<1>2. \A r \in Ordered : Drawn'[r] = IF r = s THEN Drawn[s] \cup {p} ELSE Drawn[r]
    BY <1>1, OrderedAssumption DEF Drawn, IInv, TypeOK
<1>3. CASE s \in Ordered
    <2>1. p \notin Drawn[s]
        BY <1>1, <1>3 DEF Drawn
    <2>2. Drawn' = [Drawn EXCEPT ![s] = @ \cup {p}]
        BY <1>2 DEF Drawn
    <2> QED BY <1>1, <1>3, <2>1, <2>2 DEF Product!Draw
<1>4. CASE s \notin Ordered
    <2>1. Drawn' = Drawn
        BY <1>2, <1>4 DEF Drawn
    <2> QED BY <1>1, <2>1
<1> QED BY <1>3, <1>4

LEMMA OpeningsStutter ==
    ASSUME IInv, NEW m \in oneMsgs, HoldOne(m) \/ AnswerOne(m)
    PROVE  Drawn' = Drawn /\ Issued' = Issued
<1>1. m \in Msg /\ Issued' = Issued
    BY DEF HoldOne, AnswerOne, IInv, TypeOK, Issued
<1>2. \A p \in Party, s \in Session : tag'[p][s] = "ready" <=> tag[p][s] = "ready"
    BY <1>1 DEF HoldOne, AnswerOne, Ready, IInv, TypeOK, Msg
<1> QED BY <1>1, <1>2, OrderedAssumption DEF Drawn

LEMMA AnswerIssues ==
    ASSUME IInv, IInv', NEW m \in twoMsgs, RecvTwo(m)
    PROVE  \/ Drawn' = Drawn /\ Issued' = Issued
           \/ \E p \in Party, s \in Ordered : Product!Issue(p, s)
<1>1. m \in Msg /\ m.to \in Party /\ m.sess \in Session /\ m.from \in Party
      /\ m.from # m.to /\ m = Opening(m.from, m.to, m.sess)
    BY DEF IInv, TypeOK, Msg, NoSelf, Opening
<1> DEFINE p == m.to
           s == m.sess
           terms == alpha[p][s] \cup {m.from}
           final == [from |-> p, sess |-> s, alpha |-> terms, beta |-> beta[p][s]]
<1>2. /\ Drawn' = Drawn
      /\ alpha' = [alpha EXCEPT ![p][s] = terms]
      /\ tag' = tag /\ beta' = beta
      /\ finals' = finals \/ finals' = finals \cup {final}
    BY DEF RecvTwo, HasAnswers, FinalMsg, Drawn
<1>3. final.from = p /\ final.sess = s /\ final.alpha = terms /\ final.beta = beta[p][s]
    OBVIOUS
<1>4. ASSUME finals' = finals \cup {final}, finals' # finals, s \in Ordered
      PROVE  Product!Issue(p, s)
    <2>1. alpha'[p][s] = terms /\ final \in finals'
        BY <1>1, <1>2, <1>4 DEF IInv, TypeOK, PartySets
    <2>2. Issued' = Issued \cup {final}
        <3> HIDE DEF final
        <3> QED BY <1>3, <1>4 DEF Issued
    <2>3. terms = Others(p) /\ beta[p][s] = Others(p)
        <3> HIDE DEF final, terms
        <3> QED BY <1>3, <1>4, <2>1 DEF IInv, SharesComplete, Complete
    <2>4. final = [from |-> p, sess |-> s, alpha |-> Party \ {p}, beta |-> Party \ {p}]
        BY <2>3 DEF Others
    <2>5. \A f \in Issued : f.from # p \/ f.sess # s
        <3>1. m.from \notin alpha[p][s]
            BY <1>1 DEF IInv, AnswerOnce
        <3> QED BY <1>1, <3>1 DEF IInv, AnswersCounted, Others, Issued
    <2>6. Drawn[s] = Party
        <3>1. ASSUME NEW q \in Party PROVE tag[q][s] = "ready"
            <4>1. CASE q = p \/ q = m.from
                BY <1>1, <4>1 DEF IInv, AnswersFindParams
            <4>2. CASE q # p /\ q # m.from
                <5>1. q \in alpha[p][s]
                    BY <2>3, <4>2 DEF Others
                <5>2. p \in beta[q][s]
                    BY <1>1, <4>2, <5>1 DEF IInv, TermsPaired, Others
                <5> QED BY <1>1, <5>2 DEF IInv, HeldAreAnswered
            <4> QED BY <4>1, <4>2
        <3> QED BY <1>1, <1>4, <3>1 DEF Drawn
    <2> HIDE DEF final
    <2> QED BY <1>2, <2>2, <2>4, <2>5, <2>6 DEF Product!Issue
\* A share of another session leaves the promise untouched.
<1>5. ASSUME s \notin Ordered PROVE Issued' = Issued
    <2> HIDE DEF final
    <2> QED BY <1>2, <1>3, <1>5 DEF Issued
<1>6. finals' = finals => Issued' = Issued
    BY DEF Issued
<1> QED BY <1>1, <1>2, <1>4, <1>5, <1>6

\* ImplementsProduct: in the sessions whose messages come in order the
\* exchange implements the promise of SharedProduct, step by step.
THEOREM ExchangeImplementsProduct == Spec => ImplementsProduct
<1>1. Init => Product!Init
    BY OrderedAssumption DEF Init, AllNone, Product!Init, Drawn, Issued
<1>2. IInv /\ IInv' /\ [Next]_vars => [Product!Next]_<<Drawn, Issued>>
    <2> SUFFICES ASSUME IInv, IInv', [Next]_vars
                 PROVE  [Product!Next]_<<Drawn, Issued>>
        OBVIOUS
    <2>1. CASE \E p \in Party, s \in Session : Begin(p, s)
        BY <2>1, BeginDraws DEF Product!Next
    <2>2. CASE \E m \in oneMsgs : HoldOne(m) \/ AnswerOne(m)
        BY <2>2, OpeningsStutter
    <2>3. CASE \E m \in twoMsgs : RecvTwo(m)
        BY <2>3, AnswerIssues DEF Product!Next
    <2>4. CASE UNCHANGED vars
        BY <2>4 DEF vars, Drawn, Issued
    <2> QED BY <2>1, <2>2, <2>3, <2>4 DEF Next
<1> QED BY <1>1, <1>2, InductiveInvariant, PTL
     DEF Spec, ImplementsProduct, Product!Spec, Product!vars

=============================================================================
