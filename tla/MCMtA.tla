------------------------------- MODULE MCMtA -------------------------------
EXTENDS MtA

\* Sessions share no state but the sets of messages: a behaviour runs one of
\* them, one that is delivered in order or one that is not.
OneSession == \A s, r \in Session : Heard(s) /\ Heard(r) => s = r

MCNext == Next /\ OneSession'

MCSpec == Init /\ [][MCNext]_vars /\ WF_vars(MCNext)
=============================================================================
