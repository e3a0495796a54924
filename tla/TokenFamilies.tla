--------------------------- MODULE TokenFamilies ---------------------------
(***************************************************************************)
(* What the refresh tokens of an account promise, whatever the requests    *)
(* do at the same time: a sign-in opens a family, a family has one current *)
(* token, a rotation replaces the current token by a newer one, and a      *)
(* family without a current token never gets one again.                    *)
(***************************************************************************)
EXTENDS Naturals

CONSTANT Tokens             \* the tokens, numbered as they are issued from 1

VARIABLES
  opened,                   \* the families that were opened, named by first token
  current                   \* the current token of each family, 0 when there is none

chain == <<opened, current>>

ChainInit ==
  /\ opened = {}
  /\ current = [f \in Tokens |-> 0]

\* A sign-in. It may close other families: a user keeps only so many of them.
Open(f) ==
  /\ f \notin opened
  /\ opened' = opened \cup {f}
  /\ \E closed \in SUBSET opened :
       current' = [g \in Tokens |-> IF g = f THEN f ELSE IF g \in closed THEN 0 ELSE current[g]]

Rotate(f, t) ==
  /\ current[f] # 0
  /\ t > current[f]
  /\ current' = [current EXCEPT ![f] = t]
  /\ UNCHANGED opened

Close(closed) ==
  /\ current' = [g \in Tokens |-> IF g \in closed THEN 0 ELSE current[g]]
  /\ UNCHANGED opened

ChainNext ==
  \/ \E f \in Tokens : Open(f)
  \/ \E f, t \in Tokens : Rotate(f, t)
  \/ \E closed \in SUBSET opened : Close(closed)

ChainSpec == ChainInit /\ [][ChainNext]_chain
=============================================================================
