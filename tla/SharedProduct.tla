---------------------------- MODULE SharedProduct ----------------------------
(***************************************************************************)
(* What the exchange of module MtA promises to its users (the proxy's      *)
(* issuing and revocation code): a party issues its additive share of the  *)
(* product once, after every party has drawn its addends, and with every   *)
(* cross term in it.                                                       *)
(***************************************************************************)
EXTENDS FiniteSets

CONSTANTS Party, Session

VARIABLES
    drawn,      \* [Session -> SUBSET Party]: parties that have drawn a_p and b_p
    issued      \* shares issued, [from, sess, alpha, beta]

vars == <<drawn, issued>>

Init ==
    /\ drawn = [s \in Session |-> {}]
    /\ issued = {}

Draw(p, s) ==
    /\ p \notin drawn[s]
    /\ drawn' = [drawn EXCEPT ![s] = @ \cup {p}]
    /\ UNCHANGED issued

Issue(p, s) ==
    /\ drawn[s] = Party
    /\ \A f \in issued : f.from # p \/ f.sess # s
    /\ issued' = issued \cup {[from |-> p, sess |-> s,
                               alpha |-> Party \ {p}, beta |-> Party \ {p}]}
    /\ UNCHANGED drawn

Next == \E p \in Party, s \in Session : Draw(p, s) \/ Issue(p, s)

Spec == Init /\ [][Next]_vars

=============================================================================
