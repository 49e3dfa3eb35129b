----------------------------- MODULE MCRobotArm -----------------------------
(***************************************************************************)
(* An instance of RobotArm for TLC: every move between a few fields.       *)
(***************************************************************************)
EXTENDS RobotArm, TLC

MCJobs == [source : Fields, dest : Fields, hit : BOOLEAN]

\* The fields and the pieces are alike.
Alike == Permutations(Fields) \union Permutations(Pieces)
=============================================================================
