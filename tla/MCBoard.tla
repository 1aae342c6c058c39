------------------------------- MODULE MCBoard -------------------------------
(***************************************************************************)
(* A small instance of Board for TLC.                                      *)
(***************************************************************************)
EXTENDS Board

LoopAtOne == [c \in 0 .. Last |-> 1 % Positions]

\* Two lines that share an index.
TwoTags == {<<0, 0>>, <<0, 1>>}
=============================================================================
