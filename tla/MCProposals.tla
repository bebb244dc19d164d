----------------------------- MODULE MCProposals -----------------------------
(***************************************************************************)
(* Instances of Proposals for TLC.                                         *)
(***************************************************************************)
EXTENDS Proposals

CONSTANTS p, q, x, y

OneId == {p}
TwoIds == {p, q}
OneCommand == {x}
TwoCommands == {x, y}

\* Other leaders bring a command with the ID that this node's clients use,
\* or only commands with other IDs.
SameForeign == {<<p, x>>}
OtherForeign == {<<q, x>>}
=============================================================================
