------------------------------ MODULE MCShell -------------------------------
(* Sheets of one to three rows in a window a row and a half high. *)
EXTENDS Shell

\* A formula naming the word below it, over a blank; a lone formula.
Sheet == << <<Equals, 1>>, <<Letter>>, Blank >>
Lone == << <<Equals, 0>> >>
SmallScenes ==
    {[texts |-> Sheet, height |-> 3, system |-> TRUE],
     [texts |-> Sheet, height |-> 5, system |-> FALSE],
     [texts |-> Lone, height |-> 3, system |-> TRUE]}
TypedKeys == {Equals, 2}
OtherWords == {<<Letter, Letter>>}
ShownWords == {<<Letter>>}
WheelDeltas == {1}
=============================================================================
