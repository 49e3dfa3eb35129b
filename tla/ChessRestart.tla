---------------------------- MODULE ChessRestart ----------------------------
(***************************************************************************)
(* The system with a robot program that is stopped and started again: by   *)
(* the operator, after an error or after its End.  It begins at its first  *)
(* line, without knowing what it was doing.                                *)
(***************************************************************************)
EXTENDS ChessSystem

CONSTANTS
  MaxRestarts,   \* bound: how often the robot's program is started again
  KeepsOutput    \* whether the robot controller keeps its output word meanwhile;
                 \* the repository does not say

ASSUME RestartAssumption == MaxRestarts \in Nat /\ KeepsOutput \in BOOLEAN

VARIABLE restarts  \* how often it was started again

restartVars == <<vars, restarts>>

RestartInit == Init /\ restarts = 0

\* The program's own variables are zeroed, then it jumps to *main.  It never
\* writes its output word before the end of a move.
\* Mutant: the first line takes the READY signal back.
RobotRestartZeroed ==
  /\ restarts < MaxRestarts /\ restarts' = restarts + 1
  /\ label' = "main"
  /\ nW' = [cmd1 |-> Zero, type |-> Zero, source |-> Zero, dest |-> Zero]
  /\ robotOut' = Zero
  /\ UNCHANGED <<performed, driverVars, plcVars, reqs, rsps, connected, robotIn, faults>>
RobotRestart ==
  /\ restarts < MaxRestarts /\ restarts' = restarts + 1
  /\ label' = "main"
  /\ nW' = [cmd1 |-> Zero, type |-> Zero, source |-> Zero, dest |-> Zero]
  /\ robotOut' = IF KeepsOutput THEN robotOut ELSE Zero
  /\ UNCHANGED <<performed, driverVars, plcVars, reqs, rsps, connected, robotIn, faults>>

RestartNext == (Next /\ UNCHANGED restarts) \/ RobotRestart

RestartSpec == RestartInit /\ [][RestartNext]_restartVars

-----------------------------------------------------------------------------
\* The calls of robot_sendMove that the robot has carried out.
Carried == {performed[i].call : i \in 1 .. Len(performed)}

\* A program that starts again finds the command of the move it was making, or
\* had made, still in its input words, and makes it again.  That is all: the
\* calls are carried out in order, and each start repeats at most one move.
RepeatsByRestartsOnly ==
  /\ \A i, j \in 1 .. Len(performed) : i < j => performed[i].call <= performed[j].call
  /\ Len(performed) <= Cardinality(Carried) + restarts
=============================================================================
