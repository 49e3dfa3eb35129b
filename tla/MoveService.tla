---------------------------- MODULE MoveService ----------------------------
(***************************************************************************)
(* What robot_sendMove promises an application that waits for the robot    *)
(* between two moves ("send a move and wait", modbus_driver.h): a move is  *)
(* ordered, the robot carries it out once, and only then is the success    *)
(* reported; the robot switches off only after the exit command, with no   *)
(* move left undone.  When the connection is lost, an order may stay       *)
(* undone or unreported, and the next ones with it; what is done is still  *)
(* done once and in order.                                                 *)
(***************************************************************************)
EXTENDS Naturals, Sequences

CONSTANT Jobs   \* the moves that may be ordered

VARIABLES
  ordered,   \* the moves the application has ordered
  done,      \* the moves the robot has carried out
  reported,  \* how many of them robot_sendMove has reported done
  exiting,   \* the exit command has been given
  on,        \* the robot's program runs
  lost       \* the connection is lost

serviceVars == <<ordered, done, reported, exiting, on, lost>>

ServiceInit ==
  /\ ordered = <<>> /\ done = <<>> /\ reported = 0
  /\ exiting = FALSE /\ on = TRUE /\ lost = FALSE

Order ==
  /\ ~exiting /\ (reported = Len(ordered) \/ lost)
  /\ \E m \in Jobs : ordered' = Append(ordered, m)
  /\ UNCHANGED <<done, reported, exiting, on, lost>>

Perform ==
  /\ on /\ Len(done) < Len(ordered)
  /\ done' = Append(done, ordered[Len(done) + 1])
  /\ UNCHANGED <<ordered, reported, exiting, on, lost>>

Report ==
  /\ reported < Len(done)
  /\ reported' = reported + 1
  /\ UNCHANGED <<ordered, done, exiting, on, lost>>

AskExit ==
  /\ ~exiting /\ (reported = Len(ordered) \/ lost)
  /\ exiting' = TRUE
  /\ UNCHANGED <<ordered, done, reported, on, lost>>

SwitchOff ==
  /\ on /\ exiting
  /\ on' = FALSE
  /\ UNCHANGED <<ordered, done, reported, exiting, lost>>

Lose ==
  /\ ~lost /\ lost' = TRUE
  /\ UNCHANGED <<ordered, done, reported, exiting, on>>

\* The exit command goes the way of the connection.
LoseExit ==
  /\ lost /\ exiting /\ on
  /\ exiting' = FALSE
  /\ UNCHANGED <<ordered, done, reported, on, lost>>

ServiceNext ==
  Order \/ Perform \/ Report \/ AskExit \/ SwitchOff \/ Lose \/ LoseExit

\* While the connection lasts, what is due happens.
ServiceFairness == /\ WF_serviceVars(~lost /\ Perform)
                   /\ WF_serviceVars(~lost /\ Report)
                   /\ WF_serviceVars(~lost /\ SwitchOff)

ServiceSpec == ServiceInit /\ [][ServiceNext]_serviceVars /\ ServiceFairness
=============================================================================
