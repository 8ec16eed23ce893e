------------------------------ MODULE TimeTree ------------------------------
(***************************************************************************)
(* The proxy's time tree: a complete binary tree of 2^Level - 1 nodes, in  *)
(* an array whose first node is number 1, the children of n being 2n and   *)
(* 2n + 1.  Each user owns a leaf and a key for every node on the path     *)
(* from it to the root; every leaf but the first has an expiry time, one   *)
(* more period of 130 seconds than the leaf before it.  A revocation round *)
(* gives out expiry information for the nodes of a cover of the leaves     *)
(* that have not expired; a user signs with a node that is on its path and *)
(* in the cover.                                                           *)
(*                                                                         *)
(* Time is counted in periods since the proxy built the tree.              *)
(***************************************************************************)
EXTENDS Naturals, FiniteSets

CONSTANT Level

ASSUME LevelAssumption == Level \in Nat /\ Level >= 2

\* The law of powers, for as many as the tree has levels: it holds whatever
\* Level is, but the proof system has no axiom about powers to show it with.
ASSUME PowersDouble == \A k \in 0 .. Level : 2^(k + 1) = 2 * 2^k

Size == 2^Level - 1
FirstLeaf == 2^(Level - 1)
Root == 1

TreeNode == 1 .. Size
Leaf == FirstLeaf .. Size

\* The leaves get_leaf_nodes returns: its slice starts after the first leaf.
LeafNodes == FirstLeaf + 1 .. Size

\* A node and its ancestors: the index is halved until it is zero.
Path(id) == {id \div 2^k : k \in 0 .. Level} \ {0}

\* Mutant: the leaf itself is left out of the cover.
CstbkAfter(id) == {n + 1 : n \in {m \in Path(id) : m % 2 = 0}}

(***************************************************************************)
(* The cover: the right siblings of the left children on the path of the   *)
(* leaf before id (of id itself if it is the first leaf).                  *)
(***************************************************************************)
Cstbk(id) ==
    LET index == IF id = (Size + 1) \div 2 THEN id ELSE id - 1
    IN  {n + 1 : n \in {m \in Path(index) : m % 2 = 0}}

\* Mutant: users start at the first leaf, which has no expiry time.
ChooseLeafFirst(id) == FirstLeaf + id - 1

\* The leaf of user id; there is none, and the proxy panics, from FirstLeaf on.
ChooseLeaf(id) == FirstLeaf + id

\* Mutants: one user more has a leaf; the last leaf is given to nobody.
HasLeafPast(id) == ChooseLeaf(id) - 1 \in Leaf
HasLeafShort(id) == ChooseLeaf(id) + 1 \in Leaf

HasLeaf(id) == ChooseLeaf(id) \in Leaf

\* Mutant: when all leaves have expired the search ends after the last.
CurrentLeafPast(time) == FirstLeaf + time + 1

\* The first leaf that has not expired, and the root when all have.
CurrentLeaf(time) ==
    IF FirstLeaf + time + 1 \in LeafNodes THEN FirstLeaf + time + 1 ELSE Root

=============================================================================
