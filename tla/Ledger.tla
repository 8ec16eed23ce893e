------------------------------- MODULE Ledger -------------------------------
(***************************************************************************)
(* The contracts Signature and PersonalInfo and the calls made to them.  A *)
(* user that signed registers its signature, waits for the receipt,        *)
(* registers its personal information, and only then raises its flag, upon *)
(* which the nodes read the signature of its name.  A user may be stopped  *)
(* and started again between any two of these steps and then signs anew;   *)
(* a transaction it had sent may still be executed.  A call may fail       *)
(* before, while or after the chain executes it.                           *)
(*                                                                         *)
(* Both contracts keep, beside the value of a name, its value per block;   *)
(* selectWithBlockNumber answers from them.  What is registered is told    *)
(* apart by the life of the user that registered it.  The chain executes   *)
(* transactions one at a time.                                             *)
(***************************************************************************)
EXTENDS Integers

CONSTANTS
    Name,           \* names of users
    MaxLife,        \* bound on the starts of a user
    MaxBlock        \* bound on the blocks

ASSUME LedgerAssumption == MaxLife \in Nat /\ MaxBlock \in Nat \ {0}

Contract == {"signature", "info"}
Life == 1 .. MaxLife
Block == 1 .. MaxBlock

VARIABLES
    block,          \* the block in the making
    deployed,       \* [Contract -> block of its deployment, or 0]
    table,          \* [Contract -> [Name -> the life it has a value of, or 0]]
    old,            \* [Contract -> [Name -> [Block -> the value kept under name@block, or 0]]]
    pending,        \* transactions sent and not executed
    life,           \* [Name -> starts of its user]
    pc,             \* [Name -> the call its user waits for, or what became of it]
    flagged,        \* [Name -> lives in which its user raised its flag]
    reads,          \* auxiliary: what was read, and if there was information then
    past            \* auxiliary: table at the end of each block

chainVars == <<block, deployed, table, old, past>>
userVars  == <<life, pc, flagged>>
vars      == <<chainVars, userVars, pending, reads>>

Transaction == [to : Contract, name : Name, life : Life]
Call(c, n, l) == [to |-> c, name |-> n, life |-> l]

Nothing == [c \in Contract |-> [n \in Name |-> 0]]

Init ==
    /\ block = 1
    /\ deployed = [c \in Contract |-> 0]
    /\ table = Nothing
    /\ old = [c \in Contract |-> [n \in Name |-> [b \in Block |-> 0]]]
    /\ pending = {}
    /\ life = [n \in Name |-> 0]
    /\ pc = [n \in Name |-> "down"]
    /\ flagged = [n \in Name |-> {}]
    /\ reads = {}
    /\ past = [b \in Block |-> Nothing]

-----------------------------------------------------------------------------

\* A contract is deployed in the block in the making, with empty tables.
Deploy(c) ==
    /\ deployed[c] = 0
    /\ deployed' = [deployed EXCEPT ![c] = block]
    /\ UNCHANGED <<block, table, old, past, userVars, pending, reads>>

\* The addresses are in the environment of whoever calls, from the receipts.
Addressed == \A c \in Contract : deployed[c] \in 1 .. block - 1

\* Mutant: the transaction is named by the life before.
StartLate(n) ==
    /\ Addressed
    /\ life[n] < MaxLife
    /\ life' = [life EXCEPT ![n] = life[n] + 1]
    /\ pc' = [pc EXCEPT ![n] = "signature"]
    /\ pending' = pending \cup {Call("signature", n, life[n])}
    /\ UNCHANGED <<chainVars, flagged, reads>>

\* A user, started or started again, has signed and registers the signature.
Start(n) ==
    /\ Addressed
    /\ life[n] < MaxLife
    /\ life' = [life EXCEPT ![n] = life[n] + 1]
    /\ pc' = [pc EXCEPT ![n] = "signature"]
    /\ pending' = pending \cup {Call("signature", n, life[n] + 1)}
    /\ UNCHANGED <<chainVars, flagged, reads>>

\* Mutant: signatures are replaced like personal information.
TakesAny(t) == TRUE

\* Signature keeps the signature a name has, PersonalInfo takes the new value.
Takes(t) == t.to = "info" \/ table[t.to][t.name] = 0

\* The user waits for this call: no later life has begun, none has failed.
Awaited(t) == life[t.name] = t.life /\ pc[t.name] = t.to

\* Mutant: the flag is raised before the personal information is registered.
NextCallEarly(t) ==
    /\ pc' = [pc EXCEPT ![t.name] = "flagged"]
    /\ flagged' = [flagged EXCEPT ![t.name] = @ \cup {t.life}]
    /\ pending' = pending \ {t}

\* With the receipt, whatever it says about the name, the user goes on.
NextCall(t) ==
    IF t.to = "signature"
    THEN /\ pc' = [pc EXCEPT ![t.name] = "info"]
         /\ pending' = (pending \ {t}) \cup {Call("info", t.name, t.life)}
         /\ UNCHANGED flagged
    ELSE /\ pc' = [pc EXCEPT ![t.name] = "flagged"]
         /\ flagged' = [flagged EXCEPT ![t.name] = @ \cup {t.life}]
         /\ pending' = pending \ {t}

\* The user of a failed call panics.
Panic(n) == pc' = [pc EXCEPT ![n] = "failed"]

\* The contract looks the name up and stores the value, also under the block.
Execute(t) ==
    /\ t \in pending
    /\ IF Takes(t)
       THEN /\ table' = [table EXCEPT ![t.to][t.name] = t.life]
            /\ old' = [old EXCEPT ![t.to][t.name][block] = t.life]
       ELSE UNCHANGED <<table, old>>
    /\ \/ Awaited(t) /\ NextCall(t)
       \/ /\ Awaited(t) /\ Panic(t.name)      \* the receipt is lost
          /\ pending' = pending \ {t}
          /\ UNCHANGED flagged
       \/ /\ ~ Awaited(t)
          /\ pending' = pending \ {t}
          /\ UNCHANGED <<pc, flagged>>
    /\ UNCHANGED <<block, deployed, past, life, reads>>

\* A call fails: it was never sent (no payload file, no connection), or it was
\* and the chain has yet to execute it.
Fail(t) ==
    /\ t \in pending /\ Awaited(t)
    /\ Panic(t.name)
    /\ pending' \in {pending, pending \ {t}}
    /\ UNCHANGED <<chainVars, life, flagged, reads>>

\* A node told to verify the user, in a life in which it raised its flag,
\* reads the signature of the name.
Read(n) ==
    /\ flagged[n] # {}
    /\ reads' = reads \cup {[name |-> n, sig |-> table["signature"][n],
                             known |-> table["info"][n] # 0]}
    /\ UNCHANGED <<chainVars, userVars, pending>>

\* The block is sealed.
Seal ==
    /\ block < MaxBlock
    /\ block' = block + 1
    /\ past' = [past EXCEPT ![block] = table]
    /\ UNCHANGED <<deployed, table, old, userVars, pending, reads>>

Next ==
    \/ \E c \in Contract : Deploy(c)
    \/ \E n \in Name : Start(n) \/ Read(n)
    \/ \E t \in pending : Execute(t) \/ Fail(t)
    \/ Seal

Spec == Init /\ [][Next]_vars

-----------------------------------------------------------------------------

TypeOK ==
    /\ block \in Block
    /\ deployed \in [Contract -> {0} \cup Block]
    /\ table \in [Contract -> [Name -> {0} \cup Life]]
    /\ old \in [Contract -> [Name -> [Block -> {0} \cup Life]]]
    /\ pending \subseteq Transaction
    /\ life \in [Name -> 0 .. MaxLife]
    /\ pc \in [Name -> {"down", "failed", "flagged"} \cup Contract]
    /\ flagged \in [Name -> SUBSET Life]
    /\ reads \subseteq [name : Name, sig : {0} \cup Life, known : BOOLEAN]
    /\ past \in [Block -> [Contract -> [Name -> {0} \cup Life]]]

\* Mutant: the search stops one block earlier.
SearchedShort(c, n, b) == {h \in Block : 2 < h /\ h <= b /\ old[c][n][h] # 0}

\* The blocks low + 1 .. b, low being 1, under which there is a value.
Searched(c, n, b) == {h \in Block : 1 < h /\ h <= b /\ old[c][n][h] # 0}

\* selectWithBlockNumber: -1 and -2 are its error codes, else it gives a life.
SelectAt(c, n, b) ==
    IF table[c][n] = 0 THEN -1
    ELSE IF Searched(c, n, b) = {} THEN -2
    ELSE old[c][n][CHOOSE h \in Searched(c, n, b) : \A k \in Searched(c, n, b) : k <= h]

\* The value at the end of block b, or now if b is not sealed.
ValueAt(c, n, b) ==
    IF b \in 1 .. block - 1 THEN past[b][c][n] ELSE IF b = 0 THEN 0 ELSE table[c][n]

(***************************************************************************)
(* What selectWithBlockNumber answers for a name and a block is the value  *)
(* the name had at the end of the block, however often it was replaced     *)
(* before or since, and -2 if it had none; only a name that has none to    *)
(* this day is answered -1.  That the search leaves out block 1, against   *)
(* the comment, loses nothing: the contract is itself created in a block.  *)
(***************************************************************************)
HistoryIsPast ==
    \A c \in Contract, n \in Name, b \in 0 .. MaxBlock :
        LET v == ValueAt(c, n, b) IN
            SelectAt(c, n, b) = IF table[c][n] = 0 THEN -1 ELSE IF v = 0 THEN -2 ELSE v

(***************************************************************************)
(* Whoever reads the signature of a name after its user's flag, and        *)
(* whenever, reads the same one, though the user may have been restarted   *)
(* in between and a transaction of an earlier life executed late: nodes    *)
(* verify, and vote to open, one and the same signature.                   *)
(***************************************************************************)
ReadsAgree ==
    \A r, q \in reads : r.name = q.name => r.sig = q.sig /\ r.sig # 0

(***************************************************************************)
(* A signature that nodes read is of a name with personal information on   *)
(* the chain, so that the one who made it can be identified, though a      *)
(* failure or a restart between the two registrations leaves a signature   *)
(* without.                                                                *)
(***************************************************************************)
IdentityBehindSignature == \A r \in reads : r.known

-----------------------------------------------------------------------------

\* Whoever has been started, or has sent anything, knows both addresses.
CallersAddressed ==
    (pending # {} \/ \E n \in Name : life[n] # 0) => Addressed

\* There is nothing under the block of a deployment or under a later block
\* than the one in the making.
OldSpan ==
    \A c \in Contract, n \in Name :
        old[c][n][1] = 0 /\ \A h \in block + 1 .. MaxBlock : old[c][n][h] = 0

\* From a block with a value under it to the next such block, that is the value.
OldLasts ==
    \A c \in Contract, n \in Name, b, h \in Block :
        /\ h <= b
        /\ old[c][n][h] # 0
        /\ \A k \in h + 1 .. b : old[c][n][k] = 0
        => ValueAt(c, n, b) = old[c][n][h]

\* Before the first block with a value under it there is no value.
OldStarts ==
    \A c \in Contract, n \in Name, b \in Block :
        (\A k \in 1 .. b : old[c][n][k] = 0) => ValueAt(c, n, b) = 0

\* The information of a name is sent when its signature is there, and the flag
\* is raised when both are.
FlagsBacked ==
    /\ \A t \in pending : t.to = "info" => table["signature"][t.name] # 0
    /\ \A n \in Name : flagged[n] # {} => \A c \in Contract : table[c][n] # 0

\* What was read of a signature is what the contract has to this day.
ReadsCurrent ==
    \A r \in reads : r.known /\ r.sig # 0 /\ r.sig = table["signature"][r.name]

(***************************************************************************)
(* The inductive invariant behind the properties above: what is kept per   *)
(* block bounds, from one entry to the next, the value at the end of each  *)
(* block, and reads and flags are tied to tables that never lose a value.  *)
(***************************************************************************)
IInv ==
    TypeOK /\ CallersAddressed /\ OldSpan /\ OldLasts /\ OldStarts
           /\ FlagsBacked /\ ReadsCurrent

=============================================================================
