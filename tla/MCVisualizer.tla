---------------------------- MODULE MCVisualizer -----------------------------
(***************************************************************************)
(* The instance of Visualizer for TLC: three members, of which the first   *)
(* writes to the second, which answers.                                    *)
(***************************************************************************)
EXTENDS Visualizer

Members == 1 .. 3
RequestsAndAnswers == {<<1, 2>>, <<2, 1>>}
=============================================================================
