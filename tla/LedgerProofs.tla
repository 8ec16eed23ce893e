---------------------------- MODULE LedgerProofs ----------------------------
(***************************************************************************)
(* Proofs about Ledger, for every set of names, every number of restarts   *)
(* and every number of blocks: IInv is inductive, the search backwards     *)
(* from a block finds the value the block ended with, and readers agree on *)
(* a signature whose maker can be identified.                              *)
(***************************************************************************)
EXTENDS Ledger, Integers, FiniteSetTheorems, WellFoundedInduction, TLAPS

-----------------------------------------------------------------------------

LEMMA InitIInv == Init => IInv
<1> SUFFICES ASSUME Init PROVE IInv
  OBVIOUS
<1> USE LedgerAssumption DEF Init
<1>1. TypeOK
  BY DEF TypeOK, Contract, Block, Life, Nothing
<1>2. CallersAddressed
  BY DEF CallersAddressed
<1>3. OldSpan
  <2>1. old = [c \in Contract |-> [n \in Name |-> [b \in Block |-> 0]]] /\ block = 1
    OBVIOUS
  <2>2. \A c \in Contract, n \in Name : \A b \in Block : old[c][n][b] = 0
    BY ONLY <2>1
  <2>3. 1 \in Block /\ \A h \in block + 1 .. MaxBlock : h \in Block
    BY <2>1 DEF Block
  <2>4. QED
    BY ONLY <2>2, <2>3 DEF OldSpan
<1>4. OldLasts /\ OldStarts
  BY DEF OldLasts, OldStarts, ValueAt, Block, Nothing
<1>5. FlagsBacked /\ ReadsCurrent
  BY DEF FlagsBacked, ReadsCurrent
<1>6. QED
  BY <1>1, <1>2, <1>3, <1>4, <1>5 DEF IInv

\* The tables and what is derived from them stay, so do the addresses known.
LEMMA UserStep ==
    ASSUME IInv, UNCHANGED chainVars
    PROVE  OldSpan' /\ OldLasts' /\ OldStarts' /\ Addressed' = Addressed
BY DEF IInv, OldSpan, OldLasts, OldStarts, ValueAt, Addressed, chainVars

LEMMA DeployStep ==
    ASSUME IInv, NEW c \in Contract, Deploy(c)
    PROVE  IInv'
<1> USE LedgerAssumption DEF IInv, Deploy, userVars
<1>1. TypeOK'
  BY DEF TypeOK, Block
<1>2. CallersAddressed'
  BY DEF CallersAddressed, Addressed, TypeOK
<1>3. OldSpan' /\ OldLasts' /\ OldStarts'
  BY DEF OldSpan, OldLasts, OldStarts, ValueAt
<1>4. FlagsBacked' /\ ReadsCurrent'
  BY DEF FlagsBacked, ReadsCurrent
<1>5. QED
  BY <1>1, <1>2, <1>3, <1>4

LEMMA StartStep ==
    ASSUME IInv, NEW n \in Name, Start(n)
    PROVE  IInv'
<1> USE LedgerAssumption DEF IInv, Start
<1>1. TypeOK'
  BY DEF TypeOK, Transaction, Call, Contract, Life, chainVars
<1>2. CallersAddressed'
  BY DEF CallersAddressed, Addressed, chainVars
<1>3. OldSpan' /\ OldLasts' /\ OldStarts'
  BY UserStep
<1>4. FlagsBacked' /\ ReadsCurrent'
  BY DEF FlagsBacked, ReadsCurrent, Call, chainVars
<1>5. QED
  BY <1>1, <1>2, <1>3, <1>4

LEMMA FailStep ==
    ASSUME IInv, NEW t \in pending, Fail(t)
    PROVE  IInv'
<1> USE LedgerAssumption DEF IInv, Fail, Panic
<1>1. TypeOK'
  BY DEF TypeOK, Transaction, chainVars
<1>2. CallersAddressed'
  BY DEF CallersAddressed, Addressed, chainVars
<1>3. OldSpan' /\ OldLasts' /\ OldStarts'
  BY UserStep
<1>4. FlagsBacked' /\ ReadsCurrent'
  BY DEF FlagsBacked, ReadsCurrent, chainVars
<1>5. QED
  BY <1>1, <1>2, <1>3, <1>4

LEMMA ReadStep ==
    ASSUME IInv, NEW n \in Name, Read(n)
    PROVE  IInv'
<1> USE LedgerAssumption DEF IInv
<1>1. UNCHANGED <<chainVars, life, pc, flagged, pending>>
  BY DEF Read, userVars
<1>2. /\ table["signature"][n] \in Life
      /\ reads' = reads \cup {[name |-> n, sig |-> table["signature"][n], known |-> TRUE]}
  <2>1. table["signature"][n] \in Life /\ table["info"][n] # 0
    BY DEF Read, FlagsBacked, TypeOK, Contract
  <2>2. (table["info"][n] # 0) = TRUE
    BY <2>1
  <2>3. QED
    BY <2>1, <2>2 DEF Read
<1>3. TypeOK'
  <2>1. reads' \subseteq [name : Name, sig : {0} \cup Life, known : BOOLEAN]
    <3>1. [name |-> n, sig |-> table["signature"][n], known |-> TRUE]
             \in [name : Name, sig : {0} \cup Life, known : BOOLEAN]
      BY <1>2
    <3>2. QED
      BY <1>2, <3>1 DEF TypeOK
  <2>2. QED
    BY <1>1, <2>1 DEF TypeOK, chainVars
<1>4. CallersAddressed'
  BY <1>1 DEF CallersAddressed, Addressed, chainVars
<1>5. OldSpan' /\ OldLasts' /\ OldStarts'
  BY <1>1, UserStep
<1>6. FlagsBacked'
  BY <1>1 DEF FlagsBacked, chainVars
<1>7. ReadsCurrent'
  <2>1. \A r \in reads : r.known /\ r.sig # 0 /\ r.sig = table["signature"][r.name]
    BY DEF ReadsCurrent
  <2>2. table["signature"][n] # 0
    BY <1>2 DEF Life
  <2>3. QED
    BY <1>1, <1>2, <2>1, <2>2 DEF ReadsCurrent, chainVars
<1>8. QED
  BY <1>3, <1>4, <1>5, <1>6, <1>7

\* The value at the end of a block is the same before and after its seal.
LEMMA SealStep ==
    ASSUME IInv, Seal
    PROVE  IInv'
<1> USE LedgerAssumption DEF IInv, Seal, userVars
<1>1. TypeOK'
  BY DEF TypeOK, Block
<1>2. CallersAddressed'
  BY DEF CallersAddressed, Addressed, TypeOK, Block
<1>3. OldSpan'
  BY DEF OldSpan, TypeOK, Block
<1>4. \A c \in Contract, n \in Name, b \in Block : ValueAt(c, n, b)' = ValueAt(c, n, b)
  BY DEF ValueAt, TypeOK, Block
<1>5. OldLasts' /\ OldStarts'
  BY <1>4 DEF OldLasts, OldStarts
<1>6. FlagsBacked' /\ ReadsCurrent'
  BY DEF FlagsBacked, ReadsCurrent
<1>7. QED
  BY <1>1, <1>2, <1>3, <1>5, <1>6

-----------------------------------------------------------------------------

\* What a transaction does to the contract keeps the history, and leaves the
\* name with a value; a signature that was there is there still.
LEMMA StoreStep ==
    ASSUME IInv, NEW t \in pending,
           IF Takes(t)
           THEN /\ table' = [table EXCEPT ![t.to][t.name] = t.life]
                /\ old' = [old EXCEPT ![t.to][t.name][block] = t.life]
           ELSE UNCHANGED <<table, old>>,
           UNCHANGED <<block, deployed, past>>
    PROVE  /\ table' \in [Contract -> [Name -> {0} \cup Life]]
           /\ old' \in [Contract -> [Name -> [Block -> {0} \cup Life]]]
           /\ OldSpan' /\ OldLasts' /\ OldStarts'
           /\ table'[t.to][t.name] # 0
           /\ \A c \in Contract, n \in Name : table[c][n] # 0 => table'[c][n] # 0
           /\ \A n \in Name : table["signature"][n] # 0
                                 => table'["signature"][n] = table["signature"][n]
<1> USE LedgerAssumption DEF IInv
<1>1. t \in Transaction /\ t.life \in Nat \ {0} /\ t.to \in Contract /\ t.name \in Name
  BY DEF TypeOK, Transaction, Life
<1>2. block \in 2 .. MaxBlock
  BY DEF CallersAddressed, Addressed, TypeOK, Block, Contract
<1>3. CASE ~ Takes(t)
  <2>1. UNCHANGED <<table, old>>
    BY <1>3
  <2>2. OldSpan' /\ OldLasts' /\ OldStarts'
    BY <2>1 DEF OldSpan, OldLasts, OldStarts, ValueAt
  <2>3. table[t.to][t.name] # 0
    BY <1>3 DEF Takes
  <2>4. QED
    BY <2>1, <2>2, <2>3 DEF TypeOK
<1>4. CASE Takes(t)
  <2>1. /\ table' = [table EXCEPT ![t.to][t.name] = t.life]
        /\ old' = [old EXCEPT ![t.to][t.name][block] = t.life]
    BY <1>4
  <2>2. /\ table' \in [Contract -> [Name -> {0} \cup Life]]
        /\ old' \in [Contract -> [Name -> [Block -> {0} \cup Life]]]
    BY <1>1, <2>1 DEF TypeOK, Transaction
  <2>3. /\ table'[t.to][t.name] = t.life
        /\ \A c \in Contract, n \in Name :
              <<c, n>> # <<t.to, t.name>> => table'[c][n] = table[c][n] /\ old'[c][n] = old[c][n]
        /\ \A b \in Block : old'[t.to][t.name][b] =
                               IF b = block THEN t.life ELSE old[t.to][t.name][b]
    BY <1>1, <2>1 DEF TypeOK
  <2>4. OldSpan'
    BY <1>1, <1>2, <2>3 DEF OldSpan, Block
  <2>5. \A c \in Contract, n \in Name, b \in Block :
           ValueAt(c, n, b)' = IF <<c, n>> = <<t.to, t.name>> /\ block <= b
                               THEN t.life ELSE ValueAt(c, n, b)
    BY <1>1, <1>2, <2>3 DEF ValueAt, Block
  <2>6. OldLasts'
    <3> SUFFICES ASSUME NEW c \in Contract, NEW n \in Name, NEW b \in Block, NEW h \in Block,
                        h <= b, old'[c][n][h] # 0, \A k \in h + 1 .. b : old'[c][n][k] = 0
                 PROVE  ValueAt(c, n, b)' = old'[c][n][h]
      BY DEF OldLasts
    <3>1. CASE <<c, n>> # <<t.to, t.name>>
      BY <2>3, <2>5, <3>1 DEF OldLasts
    <3>2. CASE <<c, n>> = <<t.to, t.name>> /\ b < block
      <4>1. \A k \in h .. b : k \in Block /\ old'[c][n][k] = old[c][n][k]
        BY <1>2, <2>3, <3>2 DEF Block
      <4>2. ValueAt(c, n, b) = old[c][n][h]
        BY <4>1 DEF OldLasts, Block
      <4>3. QED
        BY <1>2, <2>5, <3>2, <4>1, <4>2 DEF Block
    <3>3. CASE <<c, n>> = <<t.to, t.name>> /\ block <= b
      <4>1. ~ (h < block)
        BY <1>1, <1>2, <2>3, <3>3 DEF Block
      <4>2. ~ (block < h)
        BY <1>2, <2>3, <3>3 DEF OldSpan, Block
      <4>3. QED
        BY <1>2, <2>3, <2>5, <3>3, <4>1, <4>2 DEF Block
    <3>4. QED
      BY <1>2, <3>1, <3>2, <3>3 DEF Block
  <2>7. OldStarts'
    <3> SUFFICES ASSUME NEW c \in Contract, NEW n \in Name, NEW b \in Block,
                        \A k \in 1 .. b : old'[c][n][k] = 0
                 PROVE  ValueAt(c, n, b)' = 0
      BY DEF OldStarts
    <3>1. <<c, n>> # <<t.to, t.name>> \/ b < block
      BY <1>1, <1>2, <2>3 DEF Block
    <3>2. \A k \in 1 .. b : old[c][n][k] = 0
      BY <1>2, <2>3, <3>1 DEF Block
    <3>3. QED
      BY <1>2, <2>5, <3>1, <3>2 DEF OldStarts, Block
  <2>8. \A n \in Name : table["signature"][n] # 0
                          => table'["signature"][n] = table["signature"][n]
    BY <1>1, <1>4, <2>3 DEF Takes, Contract
  <2>9. QED
    BY <1>1, <2>2, <2>3, <2>4, <2>6, <2>7, <2>8
<1>5. QED
  BY <1>3, <1>4

LEMMA ExecuteStep ==
    ASSUME IInv, NEW t \in pending, Execute(t)
    PROVE  IInv'
<1> USE LedgerAssumption DEF IInv
<1>1. /\ table' \in [Contract -> [Name -> {0} \cup Life]]
      /\ old' \in [Contract -> [Name -> [Block -> {0} \cup Life]]]
      /\ OldSpan' /\ OldLasts' /\ OldStarts'
      /\ table'[t.to][t.name] # 0
      /\ \A c \in Contract, n \in Name : table[c][n] # 0 => table'[c][n] # 0
      /\ \A n \in Name : table["signature"][n] # 0
                            => table'["signature"][n] = table["signature"][n]
  BY StoreStep DEF Execute
<1>2. t \in Transaction /\ t.life \in Life /\ t.to \in Contract /\ t.name \in Name
  BY DEF TypeOK, Transaction
<1>3. UNCHANGED <<block, deployed, past, life, reads>>
  BY DEF Execute
<1>4. pending' \subseteq pending \cup
         (IF t.to = "signature" THEN {Call("info", t.name, t.life)} ELSE {})
  BY DEF Execute, NextCall
<1>5. \/ UNCHANGED flagged
      \/ t.to = "info" /\ flagged' = [flagged EXCEPT ![t.name] = @ \cup {t.life}]
  BY <1>2 DEF Execute, NextCall, Contract
<1>6. TypeOK'
  <2>1. pending' \subseteq Transaction
    BY <1>2, <1>4 DEF TypeOK, Call, Transaction, Contract
  <2>2. pc' \in [Name -> {"down", "failed", "flagged"} \cup Contract]
    BY <1>2 DEF Execute, NextCall, Panic, TypeOK, Contract
  <2>3. flagged' \in [Name -> SUBSET Life]
    <3>1. flagged \in [Name -> SUBSET Life]
      BY DEF TypeOK
    <3>2. flagged[t.name] \cup {t.life} \in SUBSET Life
      BY <1>2, <3>1
    <3>3. QED
      BY <1>2, <1>5, <3>1, <3>2
  <2>4. QED
    BY <1>1, <1>3, <2>1, <2>2, <2>3 DEF TypeOK
<1>7. CallersAddressed'
  BY <1>3 DEF CallersAddressed, Addressed
<1>8. FlagsBacked'
  <2>1. ASSUME NEW u \in pending', u.to = "info"
        PROVE  table'["signature"][u.name] # 0
    <3>1. CASE u \in pending
      BY <1>1, <2>1, <3>1 DEF FlagsBacked, TypeOK, Transaction, Contract
    <3>2. CASE t.to = "signature" /\ u = Call("info", t.name, t.life)
      BY <1>1, <3>2 DEF Call
    <3>3. QED
      BY <1>4, <3>1, <3>2
  <2>2. ASSUME NEW n \in Name, flagged'[n] # {}, NEW c \in Contract
        PROVE  table'[c][n] # 0
    <3>1. CASE flagged[n] # {}
      BY <1>1, <2>2, <3>1 DEF FlagsBacked
    <3>2. CASE n = t.name /\ t.to = "info"
      BY <1>1, <1>2, <2>2, <3>2 DEF FlagsBacked, Contract
    <3>3. QED
      BY <1>2, <1>5, <2>2, <3>1, <3>2 DEF TypeOK
  <2>3. QED
    BY <2>1, <2>2 DEF FlagsBacked
<1>9. ReadsCurrent'
  BY <1>1, <1>3 DEF ReadsCurrent, TypeOK
<1>10. QED
  BY <1>1, <1>6, <1>7, <1>8, <1>9

\* IInv: what the contracts hold and users were told stands for the calls they
\* made, those of earlier lives included.
THEOREM Inductive == Spec => []IInv
<1>1. ASSUME IInv, [Next]_vars
      PROVE  IInv'
  <2>1. CASE \E c \in Contract : Deploy(c)
    BY <1>1, <2>1, DeployStep
  <2>2. CASE \E n \in Name : Start(n)
    BY <1>1, <2>2, StartStep
  <2>3. CASE \E n \in Name : Read(n)
    BY <1>1, <2>3, ReadStep
  <2>4. CASE \E t \in pending : Execute(t)
    BY <1>1, <2>4, ExecuteStep
  <2>5. CASE \E t \in pending : Fail(t)
    BY <1>1, <2>5, FailStep
  <2>6. CASE Seal
    BY <1>1, <2>6, SealStep
  <2>7. CASE UNCHANGED vars
    BY <1>1, <2>7 DEF vars, chainVars, userVars, IInv, TypeOK, CallersAddressed, Addressed,
                      OldSpan, OldLasts, OldStarts, ValueAt, FlagsBacked, ReadsCurrent
  <2>8. QED
    BY <1>1, <2>1, <2>2, <2>3, <2>4, <2>5, <2>6, <2>7 DEF Next
<1>2. QED
  BY InitIInv, <1>1, PTL DEF Spec

-----------------------------------------------------------------------------

\* A bounded set of naturals that is not empty has a greatest element: the
\* intervals above its elements are finite sets, which strict inclusion orders well.
LEMMA GreatestNatural ==
    ASSUME NEW m \in Nat, NEW S \in SUBSET (0 .. m), S # {}
    PROVE  \E x \in S : \A y \in S : y <= x
<1> DEFINE T == {n + 1 .. m : n \in S}
<1>1. T # {} /\ T \subseteq FiniteSubsetsOf(Nat)
  <2>1. \A n \in S : (n + 1 .. m) \in SUBSET Nat /\ IsFiniteSet(n + 1 .. m)
    BY FS_Interval
  <2>2. QED
    BY <2>1 DEF FiniteSubsetsOf
<1>2. PICK I \in T : \A J \in T : ~ (<<J, I>> \in StrictSubsetOrdering(Nat))
  <2>1. IsWellFoundedOn(StrictSubsetOrdering(Nat), FiniteSubsetsOf(Nat))
    BY FS_StrictSubsetOrderingWellFounded
  <2> HIDE DEF T
  <2>2. QED
    BY <1>1, <2>1, WFMin
<1>3. PICK x \in S : I = x + 1 .. m
  OBVIOUS
<1>4. ASSUME NEW y \in S, x < y
      PROVE  FALSE
  <2>1. (y + 1 .. m) \subseteq (x + 1 .. m) /\ y \in x + 1 .. m /\ y \notin y + 1 .. m
    BY <1>4
  <2>2. <<y + 1 .. m, x + 1 .. m>> \in StrictSubsetOrdering(Nat)
    BY <2>1 DEF StrictSubsetOrdering
  <2>3. (y + 1 .. m) \in T
    OBVIOUS
  <2>4. QED
    BY <1>2, <1>3, <2>2, <2>3
<1>5. QED
  BY <1>4

\* The backward search of selectWithBlockNumber, whatever was registered since,
\* finds the value a block ended with.
LEMMA SearchFinds ==
    ASSUME IInv
    PROVE  HistoryIsPast
<1> USE LedgerAssumption DEF IInv
<1> SUFFICES ASSUME NEW c \in Contract, NEW n \in Name, NEW b \in 0 .. MaxBlock,
                    table[c][n] # 0
             PROVE  SelectAt(c, n, b) = IF ValueAt(c, n, b) = 0 THEN -2 ELSE ValueAt(c, n, b)
  BY DEF HistoryIsPast, SelectAt
<1>1. old[c][n][1] = 0 /\ \A h \in Block : old[c][n][h] \in Nat
  BY DEF OldSpan, TypeOK, Life
<1>2. CASE Searched(c, n, b) = {}
  <2>1. \A h \in 1 .. b : old[c][n][h] = 0
    BY <1>1, <1>2 DEF Searched, Block
  <2>2. ValueAt(c, n, b) = 0
    BY <2>1 DEF OldStarts, ValueAt, Block
  <2>3. QED
    BY <1>2, <2>2 DEF SelectAt
<1>3. CASE Searched(c, n, b) # {}
  <2>1. Searched(c, n, b) \in SUBSET (0 .. MaxBlock)
    BY DEF Searched, Block
  <2>2. \E h \in Searched(c, n, b) : \A k \in Searched(c, n, b) : k <= h
    BY <1>3, <2>1, GreatestNatural
  <2> DEFINE last == CHOOSE h \in Searched(c, n, b) : \A k \in Searched(c, n, b) : k <= h
  <2>3. last \in Searched(c, n, b) /\ \A k \in Searched(c, n, b) : k <= last
    BY <2>2
  <2> HIDE DEF last
  <2>4. last \in Block /\ last <= b /\ old[c][n][last] # 0 /\ b \in Block
    BY <2>3 DEF Searched, Block
  <2>5. \A k \in last + 1 .. b : old[c][n][k] = 0
    BY <2>3, <2>4 DEF Searched, Block
  <2>6. ValueAt(c, n, b) = old[c][n][last]
    BY <2>4, <2>5 DEF OldLasts
  <2>7. SelectAt(c, n, b) = old[c][n][last]
    BY <1>3 DEF SelectAt, last
  <2>8. QED
    BY <2>4, <2>6, <2>7
<1>4. QED
  BY <1>2, <1>3

\* TypeOK: contracts, users and pending calls keep their shape.
THEOREM TypeCorrect == Spec => []TypeOK
<1>1. IInv => TypeOK
  BY DEF IInv
<1>2. QED
  BY Inductive, <1>1, PTL

\* HistoryIsPast: what selectWithBlockNumber answers is what the block ended
\* with, for any number of blocks and replacements.
THEOREM HistoryCorrect == Spec => []HistoryIsPast
<1>1. IInv => HistoryIsPast
  BY SearchFinds
<1>2. QED
  BY Inductive, <1>1, PTL

\* ReadsAgree: all nodes that read the signature of a flagged user read the
\* same one, whenever they do and whoever was restarted.
THEOREM ReadersAgree == Spec => []ReadsAgree
<1>1. IInv => ReadsAgree
  BY DEF IInv, ReadsCurrent, ReadsAgree
<1>2. QED
  BY Inductive, <1>1, PTL

\* IdentityBehindSignature: behind a signature that nodes read there is personal
\* information, though either registration may fail.
THEOREM Identified == Spec => []IdentityBehindSignature
<1>1. IInv => IdentityBehindSignature
  BY DEF IInv, ReadsCurrent, IdentityBehindSignature
<1>2. QED
  BY Inductive, <1>1, PTL

=============================================================================
