------------------------------ MODULE OpStream ------------------------------
(***************************************************************************)
(* What usk-sync promises an editor: each actor's ops form one stream, and *)
(* every replica holds a prefix of every stream, all of its own, and only  *)
(* ever grows those prefixes.  No frame, queue, buffer, relay or failure   *)
(* shows through.                                                          *)
(***************************************************************************)
EXTENDS Integers

CONSTANTS Actor, MaxOps

VARIABLES
    minted,   \* how many ops each actor has authored
    have      \* have[r][a]: how many of a's ops replica r holds

vars == <<minted, have>>

Init == /\ minted = [a \in Actor |-> 0]
        /\ have = [r \in Actor |-> [a \in Actor |-> 0]]

\* An edit: the author holds its own op at once, connected or not.
Author(a) ==
    /\ minted[a] < MaxOps
    /\ minted' = [minted EXCEPT ![a] = @ + 1]
    /\ have' = [have EXCEPT ![a][a] = minted[a] + 1]

\* Delivery: a replica's prefixes grow, never past what was authored.
Deliver(r) ==
    /\ \E prefix \in [Actor -> 0..MaxOps] :
          /\ \A a \in Actor : have[r][a] <= prefix[a] /\ prefix[a] <= minted[a]
          /\ have' = [have EXCEPT ![r] = prefix]
    /\ UNCHANGED minted

Next == \E r \in Actor : Author(r) \/ Deliver(r)

Spec == Init /\ [][Next]_vars
=============================================================================
