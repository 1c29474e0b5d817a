-------------------------------- MODULE Loops --------------------------------
(***************************************************************************)
(* What a loop leaves: its steps are a sequence of functions, each of what *)
(* the one before it left.                                                 *)
(***************************************************************************)
EXTENDS Integers, Sequences

Loop(steps, d) ==
    LET left[i \in 0..Len(steps)] == IF i = 0 THEN d ELSE steps[i][left[i - 1]]
    IN  left[Len(steps)]
=============================================================================
