----------------------------- MODULE KeyExpiry -----------------------------
(***************************************************************************)
(* How the time tree is used over a deployment's life: users join one      *)
(* after the other and take the leaves from the second on, and the periods *)
(* pass.  A user's key can sign in a period when its path meets the cover  *)
(* of the period.                                                          *)
(***************************************************************************)
EXTENDS TimeTree

VARIABLES
    joined,     \* user_join_msg_num: users 1 .. joined have joined
    time        \* periods since the tree was built

vars == <<joined, time>>

Init == joined = 0 /\ time = 0

\* The next user takes its leaf; a user without one makes the proxy panic.
Join == HasLeaf(joined + 1) /\ joined' = joined + 1 /\ UNCHANGED time

\* A period passes; nothing changes any more once all leaves have expired.
Tick == CurrentLeaf(time) # Root /\ time' = time + 1 /\ UNCHANGED joined

Next == Join \/ Tick

Spec == Init /\ [][Next]_vars

-----------------------------------------------------------------------------

User == 1 .. joined

\* The nodes a user can sign with in a period.
Common(u, t) == Path(ChooseLeaf(u)) \cap Cstbk(CurrentLeaf(t))

\* The time a user's leaf expires: set_time gives leaf number i period i.
Expired(u, t) == t >= u

TypeOK == joined \in 0 .. FirstLeaf - 1 /\ time \in Nat

(***************************************************************************)
(* A key can sign exactly until its leaf expires, and with exactly one     *)
(* node of the tree: sign takes the first common node of two hash maps in  *)
(* any order, and falls back on a made-up key when there is none.          *)
(***************************************************************************)
SignsUntilExpiry ==
    \A u \in User : Cardinality(Common(u, time)) = IF Expired(u, time) THEN 0 ELSE 1

(***************************************************************************)
(* The cover is exact: the leaves below its nodes are the ones that have   *)
(* not expired, each below one node only.                                  *)
(***************************************************************************)
CoverExact ==
    LET cover == Cstbk(CurrentLeaf(time))
        Below(n) == {l \in Leaf : n \in Path(l)}
    IN  /\ UNION {Below(n) : n \in cover} =
             {l \in LeafNodes : CurrentLeaf(time) # Root /\ l >= CurrentLeaf(time)}
        /\ \A m, n \in cover : m # n => Below(m) \cap Below(n) = {}

=============================================================================
