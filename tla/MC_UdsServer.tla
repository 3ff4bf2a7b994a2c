---------------------------- MODULE MC_UdsServer ----------------------------
(* Instances of UdsServer for TLC: one region, a transfer of two one-byte   *)
(* blocks, the two default routines, and two that the integrator registers, *)
(* one of them under an identifier that is taken.                           *)
EXTENDS UdsServer

MC_Ranges == {[start |-> 0, end |-> 3]}
MC_Blocks == {<<>>, <<1>>}

eraseMemory == [id |-> 0, sessions |-> {"PROGRAMMING"}, secured |-> TRUE,
                start |-> TRUE, stop |-> FALSE, results |-> FALSE]
checkProgrammingIntegrity ==
  [id |-> 1, sessions |-> Sessions, secured |-> FALSE,
   start |-> TRUE, stop |-> FALSE, results |-> FALSE]
custom(n) == [id |-> n, sessions |-> Sessions, secured |-> FALSE,
              start |-> TRUE, stop |-> TRUE, results |-> TRUE]

MC_Defaults == <<eraseMemory, checkProgrammingIntegrity>>
MC_Routines == {custom(1), custom(2)}
=============================================================================
