------------------------------ MODULE MCAgent -------------------------------
(* Small instances of the agent's server. *)
EXTENDS AgentServer

Put(at, n) == [kind |-> "edit", at |-> at, what |-> Num(n)]
Clear(at) == [kind |-> "edit", at |-> at, what |-> Blank]
Link(at, to) == [kind |-> "edit", at |-> at, what |-> Copy(to)]

\* One edit; two with an effect downstream; one that grows the sheet; one
\* whose second edit may not bind; a clear.
Requests ==
    {<<Put(1, 1)>>,
     <<Link(2, 1), Put(1, 1)>>,
     <<Put(3, 1)>>,
     <<Put(1, 1), Link(1, 3)>>,
     <<Clear(2), Link(1, 2)>>}
=============================================================================
