------------------------- MODULE ChessRestartProofs -------------------------
(***************************************************************************)
(* Proofs about ChessRestart, for every set of moves, every number of      *)
(* calls, of faults and of restarts of the robot's program.                *)
(***************************************************************************)
EXTENDS ChessRestart, ChessHandshakeProofs

\* The robot may yet make again the last move it made: the first command word of
\* that call is still where it will look, or it has read it.
MayRepeat ==
  \/ label \notin {"moveReady", "waitforpc"} /\ robotIn[ADDR_CMD_1].val = CMD_ALLOW_MOVE_1
     /\ robotIn[ADDR_CMD_1].by = LastCall
  \/ label \in Reading /\ nW.cmd1.by = LastCall

RobotKnows ==
  /\ LastCall <= robotIn[ADDR_CMD_1].by
  /\ label \in Reading => LastCall <= nW.cmd1.by /\ nW.cmd1.by <= robotIn[ADDR_CMD_1].by

\* One more move may be repeated than was, when one may.
Budget ==
  /\ MayRepeat => Len(performed) + 1 <= Cardinality(Carried) + restarts
  /\ \A i \in 1 .. Len(performed) : performed[i].call <= LastCall

RestartInv == TypeInv /\ CommandOrder /\ CallOrder /\ RobotKnows /\ Budget
              /\ RepeatsByRestartsOnly /\ restarts \in Nat

-----------------------------------------------------------------------------
\* The calls carried out are finitely many numbers.
LEMMA CarriedFinite ==
  ASSUME TypeInv
  PROVE  IsFiniteSet(Carried) /\ Cardinality(Carried) \in Nat /\ Len(performed) \in Nat
<1>1. Len(performed) \in Nat
  BY DEF TypeInv, TypeOK, RobotTypeOK
<1>2. IsFiniteSet(1 .. Len(performed))
  BY <1>1, FS_Interval
<1> DEFINE f == [i \in 1 .. Len(performed) |-> performed[i].call]
<1>3. f \in Surjection(1 .. Len(performed), Carried)
  BY DEF Carried, Surjection
<1>4. IsFiniteSet(Carried)
  BY <1>2, <1>3, FS_Surjection
<1> QED BY <1>1, <1>4, FS_CardinalityType

\* Steps of the others, which may give the robot a later first command word.
LEMMA OthersKeep ==
  ASSUME RestartInv, TypeInv', UNCHANGED robotVars, InputFollows, restarts' \in Nat,
         restarts <= restarts'
  PROVE  RobotKnows' /\ Budget' /\ RepeatsByRestartsOnly'
<1>1. /\ LastCall' = LastCall /\ label' = label /\ nW' = nW /\ performed' = performed
      /\ Carried' = Carried
  BY DEF robotVars, LastCall, Carried
<1>2. /\ robotIn[ADDR_CMD_1].by \in Nat /\ robotIn'[ADDR_CMD_1].by \in Nat
      /\ nW.cmd1.by \in Nat /\ LastCall \in Nat
  BY OrderTypes, WordFields, InputType DEF RestartInv
<1>3. Cardinality(Carried) \in Nat /\ Len(performed) \in Nat /\ restarts \in Nat
  BY CarriedFinite DEF RestartInv
<1>4. RobotKnows'
  BY <1>1, <1>2 DEF RestartInv, RobotKnows, InputFollows, Follows
<1>5. MayRepeat' => MayRepeat
  BY <1>1, <1>2 DEF RestartInv, RobotKnows, MayRepeat, InputFollows, Follows
<1>6. Budget'
  BY <1>1, <1>3, <1>5 DEF RestartInv, Budget
<1>7. RepeatsByRestartsOnly'
  BY <1>1, <1>3 DEF RestartInv, RepeatsByRestartsOnly
<1> QED BY <1>4, <1>6, <1>7

\* The robot's reads and jumps that carry nothing out.
LEMMA ReadsKeep ==
  ASSUME RestartInv, TypeInv', RobotReads, UNCHANGED restarts
  PROVE  RobotKnows' /\ Budget' /\ RepeatsByRestartsOnly'
<1> DEFINE in == robotIn[ADDR_CMD_1]
<1>1. robotIn' = robotIn /\ performed' = performed
  BY DEF RobotReads, Robot, RobotMain, RobotReadCmd1, RobotReadSecond, RobotReadType,
         RobotReadSource, RobotReadDest, Goto
<1>2. LastCall' = LastCall /\ Carried' = Carried
  BY <1>1 DEF LastCall, Carried
<1>3. in.by \in Nat /\ LastCall \in Nat /\ nW.cmd1.by \in Nat
  BY OrderTypes, WordFields DEF RestartInv
<1>4. nW \in [cmd1 : Word, type : Word, source : Word, dest : Word]
  BY DEF RestartInv, TypeInv, TypeOK, RobotTypeOK
<1>5. label' \notin {"moveReady", "waitforpc"} /\ label \notin {"moveReady", "waitforpc"}
  BY DEF RobotReads, Robot, RobotMain, RobotReadCmd1, RobotReadSecond, RobotReadType,
         RobotReadSource, RobotReadDest, Goto, AfterParams
<1>6. label' \in Reading => \/ label \in Reading /\ nW'.cmd1 = nW.cmd1
                            \/ in.val = CMD_ALLOW_MOVE_1 /\ nW'.cmd1 = in
  BY <1>4 DEF RobotReads, Robot, RobotMain, RobotReadCmd1, RobotReadSecond, RobotReadType,
              RobotReadSource, RobotReadDest, Goto, Reading, ParamLabels
<1>7. RobotKnows'
  BY <1>1, <1>2, <1>3, <1>6 DEF RestartInv, RobotKnows
<1>8. MayRepeat' => MayRepeat
  BY <1>1, <1>2, <1>5, <1>6 DEF MayRepeat
<1>9. Budget'
  BY <1>1, <1>2, <1>8 DEF RestartInv, Budget
<1>10. RepeatsByRestartsOnly'
  BY <1>1, <1>2 DEF RestartInv, RepeatsByRestartsOnly
<1> QED BY <1>7, <1>9, <1>10

\* The move itself: it is the next call's, or uses up what a restart allowed.
LEMMA MoveKeeps ==
  ASSUME RestartInv, TypeInv', Robot(RobotStartNormalMove), UNCHANGED restarts
  PROVE  RobotKnows' /\ Budget' /\ RepeatsByRestartsOnly'
<1> DEFINE e == [call |-> nW.cmd1.by, source |-> nW.source.val, dest |-> nW.dest.val,
                 type |-> nW.type.val]
           c == nW.cmd1.by
           n == Len(performed)
<1>1. /\ performed' = Append(performed, e) /\ label = "startNormalMove" /\ label' = "moveReady"
      /\ nW' = nW /\ robotIn' = robotIn
  BY DEF Robot, RobotStartNormalMove
<1>2. c \in Nat /\ LastCall \in Nat /\ robotIn[ADDR_CMD_1].by \in Nat
  BY OrderTypes, WordFields DEF RestartInv
<1>3. performed \in Seq(Execution) /\ e.call = c
  BY DEF RestartInv, TypeInv, TypeOK, RobotTypeOK
<1>4. LastCall <= c /\ c <= robotIn[ADDR_CMD_1].by
  BY <1>1 DEF RestartInv, RobotKnows, Reading, ParamLabels
<1> HIDE DEF e, c
<1>5. /\ n \in Nat /\ Len(performed') = n + 1 /\ performed'[n + 1] = e
      /\ \A i \in 1 .. n : performed'[i] = performed[i]
  BY <1>1, <1>3
<1>6. LastCall' = c
  <2>1. performed' # <<>>
    BY <1>5
  <2> QED BY <1>3, <1>5, <2>1 DEF LastCall
<1>7. \A i \in 1 .. n : performed[i].call \in Nat /\ performed[i].call <= LastCall
  BY OrderTypes DEF RestartInv, Budget
<1> HIDE DEF n
<1>8. \A i \in 1 .. n + 1 : performed'[i].call <= c
  BY <1>2, <1>3, <1>4, <1>5, <1>7
<1>9. \A i, j \in 1 .. n + 1 : i < j => performed'[i].call <= performed'[j].call
  <2> SUFFICES ASSUME NEW i \in 1 .. n + 1, NEW j \in 1 .. n + 1, i < j
               PROVE  performed'[i].call <= performed'[j].call
    OBVIOUS
  <2>1. CASE j = n + 1
    BY <1>3, <1>5, <1>8, <2>1
  <2>2. CASE j # n + 1
    <3>1. i \in 1 .. n /\ j \in 1 .. n
      BY <1>5, <2>2
    <3> QED BY <1>5, <3>1 DEF RestartInv, RepeatsByRestartsOnly, n
  <2> QED BY <2>1, <2>2
<1>10. Carried' = Carried \union {c}
  <2>1. Carried' = {performed'[i].call : i \in 1 .. n + 1}
    BY <1>5 DEF Carried
  <2>2. Carried = {performed'[i].call : i \in 1 .. n}
    BY <1>5 DEF Carried, n
  <2>3. 1 .. n + 1 = (1 .. n) \union {n + 1} /\ performed'[n + 1].call = c
    BY <1>3, <1>5
  <2> QED BY <2>1, <2>2, <2>3
<1>11. n + 1 <= Cardinality(Carried') + restarts
  <2>1. IsFiniteSet(Carried) /\ Cardinality(Carried) \in Nat /\ restarts \in Nat
    BY CarriedFinite DEF RestartInv
  <2>2. n <= Cardinality(Carried) + restarts
    BY DEF RestartInv, RepeatsByRestartsOnly, n
  <2>3. CASE c = LastCall
    <3>1. MayRepeat
      BY <1>1, <2>3 DEF MayRepeat, Reading, ParamLabels, c
    <3>2. n + 1 <= Cardinality(Carried) + restarts
      BY <3>1 DEF RestartInv, Budget, n
    <3>3. Cardinality(Carried) <= Cardinality(Carried')
      <4>1. IsFiniteSet(Carried')
        BY <1>10, <2>1, FS_AddElement
      <4> QED BY <1>10, <4>1, FS_Subset
    <3>4. Cardinality(Carried') \in Nat
      BY CarriedFinite, TypeInv', <1>10, <2>1, FS_AddElement, FS_CardinalityType
    <3> QED BY <1>5, <2>1, <3>2, <3>3, <3>4
  <2>4. CASE c # LastCall
    <3>1. c \notin Carried
      BY <1>2, <1>4, <1>7, <2>4 DEF Carried, n
    <3>2. Cardinality(Carried') = Cardinality(Carried) + 1
      BY <1>10, <2>1, <3>1, FS_AddElement
    <3> QED BY <1>5, <2>1, <2>2, <3>2
  <2> QED BY <2>3, <2>4
<1>12. RobotKnows' /\ ~MayRepeat'
  BY <1>1, <1>4, <1>6 DEF RobotKnows, MayRepeat, Reading, ParamLabels
<1>13. Budget'
  BY <1>5, <1>6, <1>8, <1>12 DEF Budget
<1>14. RepeatsByRestartsOnly'
  BY <1>5, <1>9, <1>11 DEF RepeatsByRestartsOnly
<1> QED BY <1>12, <1>13, <1>14

\* The signals: *main is reached again only after CMD_CLR_READY.
LEMMA ActsKeep ==
  ASSUME RestartInv, TypeInv', RobotActs, UNCHANGED restarts
  PROVE  RobotKnows' /\ Budget' /\ RepeatsByRestartsOnly'
<1>1. CASE Robot(RobotStartNormalMove)
  BY <1>1, MoveKeeps
<1>2. CASE ~Robot(RobotStartNormalMove)
  <2>1. performed' = performed /\ nW' = nW /\ robotIn' = robotIn
    BY <1>2 DEF RobotActs, Robot, RobotStartHitMove, RobotOffBoard, RobotMoveReady, RobotWaitForPc,
                RobotClearReady, Goto
  <2>2. LastCall' = LastCall /\ Carried' = Carried
    BY <2>1 DEF LastCall, Carried
  <2>3. \/ label \in {"startHitMove", "startNormalMove"} /\ label' \in {"startNormalMove", "stopped"}
        \/ label = "moveReady" /\ label' = "waitforpc"
        \/ label = "waitforpc" /\ label' = "clearReady"
           /\ robotIn[ADDR_CMD_1].val = CMD_CLR_READY
        \/ label = "clearReady" /\ label' = "main"
    BY <1>2 DEF RobotActs, Robot, RobotStartHitMove, RobotOffBoard, RobotMoveReady, RobotWaitForPc,
                RobotClearReady, Goto
  <2>4. RobotKnows' /\ (MayRepeat' => MayRepeat)
    BY <2>1, <2>2, <2>3, Constants DEF RestartInv, RobotKnows, MayRepeat, Reading, ParamLabels
  <2> QED BY <2>1, <2>2, <2>4 DEF RestartInv, Budget, RepeatsByRestartsOnly
<1> QED BY <1>1, <1>2

\* A start of the robot's program pays for one repeated move.
LEMMA RestartKeeps ==
  ASSUME RestartInv, RobotRestart
  PROVE  RestartInv'
<1>1. UNCHANGED <<performed, driverVars, plcVars, reqs, rsps, connected, robotIn, faults>>
      /\ restarts' = restarts + 1 /\ label' = "main"
  BY DEF RobotRestart
<1>2. LastCall' = LastCall /\ Carried' = Carried /\ Cmd1Writes' = Cmd1Writes
      /\ \A i : Cmd1Word(i)' = Cmd1Word(i)
  BY <1>1 DEF LastCall, Carried, Cmd1Writes, Cmd1Word
<1>3. CommandOrder' /\ CallOrder'
  BY <1>1, <1>2 DEF RestartInv, CommandOrder, CallOrder, Unsent, driverVars, plcVars, calls
<1>4. TypeInv'
  <2>1. LinkTypeOK' /\ RobotTypeOK'
    BY <1>1, ZeroWord DEF RestartInv, TypeInv, TypeOK, LinkTypeOK, RobotTypeOK, RobotRestart, Labels
  <2> QED BY <1>1, <2>1 DEF RestartInv, TypeInv, TypeOK, DriverTypeOK, PlcTypeOK, StepOK, FaultsOK,
                            driverVars, plcVars, calls
<1>5. RobotKnows'
  BY <1>1, <1>2 DEF RestartInv, RobotKnows, Reading, ParamLabels
<1>6. Cardinality(Carried) \in Nat /\ Len(performed) \in Nat /\ restarts \in Nat
  BY CarriedFinite DEF RestartInv
<1>7. Budget' /\ RepeatsByRestartsOnly'
  BY <1>1, <1>2, <1>6 DEF RestartInv, Budget, RepeatsByRestartsOnly
<1> QED BY <1>1, <1>3, <1>4, <1>5, <1>6, <1>7 DEF RestartInv

LEMMA InitRestart == RestartInit => RestartInv
<1> SUFFICES ASSUME RestartInit PROVE RestartInv
  OBVIOUS
<1>1. TypeInv /\ OnceInv /\ performed = <<>> /\ restarts = 0 /\ label = "main"
  BY InitType, InitOnce DEF RestartInit, Init, RobotInit
<1>2. LastCall = 0 /\ Carried = {} /\ Cardinality(Carried) = 0 /\ Len(performed) = 0
  BY <1>1, FS_EmptySet DEF LastCall, Carried
<1>3. RobotKnows /\ ~MayRepeat
  BY <1>1, <1>2 DEF OnceInv, RobotOrder, RobotKnows, MayRepeat, Reading, ParamLabels
<1>4. Budget /\ RepeatsByRestartsOnly
  BY <1>1, <1>2, <1>3 DEF Budget, RepeatsByRestartsOnly
<1> QED BY <1>1, <1>3, <1>4 DEF OnceInv, RestartInv

LEMMA NextRestart == RestartInv /\ [RestartNext]_restartVars => RestartInv'
<1> SUFFICES ASSUME RestartInv, [RestartNext]_restartVars PROVE RestartInv'
  OBVIOUS
<1>1. CASE [Next]_vars /\ UNCHANGED restarts
  <2>1. TypeInv' /\ restarts' \in Nat /\ restarts <= restarts'
    BY <1>1, NextType DEF RestartInv
  <2>2. /\ CommandOrder' /\ CallOrder' /\ InputFollows
        /\ UNCHANGED robotVars \/ RobotReads \/ RobotActs
    BY <1>1, NextPipe DEF RestartInv
  <2>3. RobotKnows' /\ Budget' /\ RepeatsByRestartsOnly'
    BY <1>1, <2>1, <2>2, OthersKeep, ReadsKeep, ActsKeep
  <2> QED BY <2>1, <2>2, <2>3 DEF RestartInv
<1>2. CASE RobotRestart
  BY <1>2, RestartKeeps
<1> QED BY <1>1, <1>2 DEF RestartNext, restartVars

\* However often the robot's program is started again, whatever it was doing, and
\* with any faults of the connection and the PC program: the calls of
\* robot_sendMove are carried out in order, and a start of the program makes the
\* robot repeat at most one move.
THEOREM RestartsRepeat == RestartSpec => []RepeatsByRestartsOnly
<1>1. RestartInv => RepeatsByRestartsOnly
  BY DEF RestartInv
<1> QED BY InitRestart, NextRestart, <1>1, PTL DEF RestartSpec

-----------------------------------------------------------------------------
(* What is carried out is what was ordered, and true still means carried out. *)

\* The robot carries out calls that were made.
LEMMA NextCallsMade ==
  ASSUME TypeInv, CallsMade, NEW k \in 0 .. calls, NEW n \in 0 .. 6, Stage(k, n), [Next]_vars
  PROVE  CallsMade'
<1>1. performed \in Seq(Execution) /\ Len(performed) \in Nat /\ calls \in Nat
  BY StageTypes DEF TypeInv, TypeOK, RobotTypeOK
<1>2. \A c \in 1 .. calls : c \in 1 .. calls'
  BY OrderedStays
<1>3. CASE performed' = performed
  BY <1>2, <1>3 DEF CallsMade
<1>4. CASE RobotActs /\ RobotStartNormalMove
  <2>1. PICK e : performed' = Append(performed, e) /\ e.call = nW.cmd1.by
    BY <1>4 DEF RobotStartNormalMove
  <2>2. e.call = k /\ k >= 1
    BY <1>4, <2>1 DEF RobotStartNormalMove, Stage, RobotAt, Reading, ParamLabels
  <2>3. \A i \in 1 .. Len(performed') : \/ performed'[i] = e
                                        \/ i \in 1 .. Len(performed) /\ performed'[i] = performed[i]
    BY <1>1, <2>1
  <2>4. k \in 1 .. calls
    BY <1>1, <2>2
  <2> QED BY <1>2, <2>2, <2>3, <2>4 DEF CallsMade
<1> QED BY <1>3, <1>4, PerformedStep

\* A program that starts again with its output word kept is at the same stage: it
\* has forgotten what it has read, and nothing that the others can see.
LEMMA RestartStage ==
  ASSUME TypeInv, KeepsOutput, NEW k \in 0 .. calls, NEW n \in 0 .. 6, Stage(k, n), RobotRestart
  PROVE  Stage(k, n)'
<1>1. /\ UNCHANGED <<fn, step, pending, issued, reqs, rsps, connected, d>>
      /\ UNCHANGED <<ready, robotIn, robotOut, performed>>
      /\ label' = "main"
  BY DEF RobotRestart, driverVars, plcVars
<1>2. LastCall' = LastCall /\ Ordered(k)' = Ordered(k) /\ k \in Nat
  BY <1>1, StageTypes DEF LastCall, Ordered, JobOf
<1>3. label' \notin Busy /\ label' \notin Reading /\ label' \notin ParamLabels
  BY <1>1 DEF Busy, Reading, ParamLabels
<1>4. Seen(k) => Seen(k)'
  BY <1>1, <1>2, <1>3 DEF Seen
<1>5. RobotInAt(k, n)'
  BY <1>1, <1>2 DEF Stage, RobotInAt, Params
<1>6. RobotAt(k, n)'
  BY <1>1, <1>2, <1>3, <1>4 DEF Stage, RobotAt, ParamLabels
<1> QED BY <1>1, <1>2, <1>4, <1>5, <1>6, SeenFrame

\* The handshake with restarts of the robot's program.
HeldInv == RestartInv /\ HandshakeHeld /\ (Clean => CallsMade)

LEMMA InitHeld == RestartInit => HeldInv
<1> SUFFICES ASSUME RestartInit PROVE HeldInv
  OBVIOUS
<1>1. Init /\ performed = <<>>
  BY DEF RestartInit, Init, RobotInit
<1>2. CallsMade
  BY <1>1 DEF CallsMade
<1> QED BY <1>1, <1>2, InitRestart, InitHandshake DEF HeldInv, HandshakeInv

LEMMA NextHeldInv ==
  ASSUME Paced, KeepsOutput, HeldInv, [RestartNext]_restartVars
  PROVE  HeldInv'
<1>1. RestartInv'
  BY NextRestart DEF HeldInv
<1>2. CASE [Next]_vars
  <2>1. TypeInv /\ CommandOrder /\ LastCall <= robotIn[ADDR_CMD_1].by
    BY DEF HeldInv, RestartInv, RobotKnows
  <2>2. HandshakeHeld'
    BY <1>2, <2>1, NextHeld DEF HeldInv
  <2>3. ASSUME Clean' PROVE CallsMade'
    <3>1. Clean
      BY <1>2, <2>1, <2>3, CleanStep
    <3>2. PICK k \in 0 .. calls, n \in 0 .. 6 : Stage(k, n)
      BY <3>1 DEF HeldInv, HandshakeHeld
    <3> QED BY <1>2, <2>1, <3>1, <3>2, NextCallsMade DEF HeldInv
  <2> QED BY <1>1, <2>2, <2>3 DEF HeldInv
<1>3. CASE RobotRestart
  <2>1. /\ UNCHANGED <<performed, issued, reqs, d, scan, robotIn, faults>>
        /\ label' = "main"
    BY <1>3 DEF RobotRestart, driverVars, plcVars
  <2>2. ScanInv' /\ Shapes' /\ SignalHeld'
    BY <2>1 DEF HeldInv, HandshakeHeld, ScanInv, Shapes, SignalHeld
  <2>3. Clean' = Clean /\ CallsMade' = CallsMade /\ MovesAsOrdered' = MovesAsOrdered
        /\ calls' = calls
    BY <2>1 DEF Clean, CallsMade, MovesAsOrdered, Ordered, JobOf, calls
  <2>4. ASSUME Clean PROVE \E k \in 0 .. calls, n \in 0 .. 6 : Stage(k, n)'
    <3>1. PICK k \in 0 .. calls, n \in 0 .. 6 : Stage(k, n)
      BY <2>4 DEF HeldInv, HandshakeHeld
    <3> QED BY <1>3, <3>1, RestartStage DEF HeldInv, RestartInv
  <2>5. HandshakeHeld'
    BY <2>2, <2>3, <2>4 DEF HeldInv, HandshakeHeld
  <2> QED BY <1>1, <2>3, <2>5 DEF HeldInv
<1> QED BY <1>2, <1>3 DEF RestartNext, restartVars

LEMMA HeldInvariant == ASSUME Paced, KeepsOutput PROVE RestartSpec => []HeldInv
<1>1. HeldInv /\ [RestartNext]_restartVars => HeldInv'
  BY NextHeldInv
<1> QED BY InitHeld, <1>1, PTL DEF RestartSpec

\* However often the robot's program is started again, as long as its controller
\* keeps the output word, and wherever the connection breaks: every motion of the
\* robot, a repeated one too, is the move of one call as it was ordered.
THEOREM RestartsMoveAsOrdered ==
  ASSUME Paced, KeepsOutput, FaultKinds \subseteq {"loss"}
  PROVE  RestartSpec => []MovesAsOrdered
<1>1. HeldInv => MovesAsOrdered
  <2> SUFFICES ASSUME HeldInv PROVE MovesAsOrdered
    OBVIOUS
  <2>1. faults \in Seq(FaultKinds) /\ DOMAIN faults = 1 .. Len(faults)
    BY DEF HeldInv, RestartInv, TypeInv, TypeOK, FaultsOK
  <2>2. \A i \in 1 .. Len(faults) : faults[i] \in FaultKinds
    BY <2>1, ElementOfSeq
  <2>3. Clean
    BY <2>1, <2>2 DEF Clean
  <2> QED BY <2>3 DEF HeldInv, HandshakeHeld
<1> QED BY HeldInvariant, <1>1, PTL

\* The driver does not see the restarts.
LEMMA RestartTrue ==
  ASSUME TrueInv, RobotRestart
  PROVE  TrueInv'
<1>1. UNCHANGED <<performed, fn, step, tId, pending, issued, reqs, rsps, connected, faults>>
  BY DEF RobotRestart, driverVars
<1>2. TidInv' = TidInv
  BY <1>1 DEF TidInv, Behind, Owed, Back, TimedOut, Waits
<1>3. /\ Refused' = Refused /\ TrueMeansPerformed' = TrueMeansPerformed
      /\ Done(calls)' = Done(calls)
  BY <1>1 DEF Refused, TrueMeansPerformed, Done, Ordered, JobOf, calls
<1> QED BY <1>1, <1>2, <1>3 DEF TrueInv

\* With late answers too: robot_sendMove returns true only when the robot has
\* carried out its move, however often the robot's program was started again
\* before, during or after it.
THEOREM RestartsKeepTrue ==
  ASSUME Paced, KeepsOutput, FaultKinds \subseteq {"timeout", "loss"}, MaxFaults < TidCount
  PROVE  RestartSpec => []TrueMeansPerformed
<1>1. "restart" \notin FaultKinds
  OBVIOUS
<1>2. HeldInv /\ TrueInv /\ [RestartNext]_restartVars => TrueInv'
  <2> SUFFICES ASSUME HeldInv, TrueInv, [RestartNext]_restartVars PROVE TrueInv'
    OBVIOUS
  <2>1. CASE [Next]_vars
    BY <1>1, <2>1, NextTrue DEF HeldInv, RestartInv
  <2>2. CASE RobotRestart
    BY <2>2, RestartTrue
  <2> QED BY <2>1, <2>2 DEF RestartNext, restartVars
<1>3. RestartInit => TrueInv
  BY InitTrue DEF RestartInit
<1>4. HeldInv /\ TrueInv => TrueMeansPerformed
  <2> SUFFICES ASSUME HeldInv, TrueInv PROVE TrueMeansPerformed
    OBVIOUS
  <2>1. faults \in Seq(FaultKinds) /\ DOMAIN faults = 1 .. Len(faults)
    BY DEF HeldInv, RestartInv, TypeInv, TypeOK, FaultsOK
  <2>2. \A i \in 1 .. Len(faults) : faults[i] \in FaultKinds
    BY <2>1, ElementOfSeq
  <2>3. ~Refused
    BY <2>1, <2>2 DEF Refused
  <2> QED BY <2>3 DEF TrueInv
<1>5. RestartSpec => []HeldInv
  BY HeldInvariant
<1> QED BY <1>2, <1>3, <1>4, <1>5, PTL DEF RestartSpec

\* A program that starts again has read nothing.
LEMMA RestartExit ==
  ASSUME ExitInv, RobotRestart
  PROVE  ExitInv'
<1>1. /\ UNCHANGED <<fn, step, pending, issued, reqs, rsps, d, scan, robotIn>>
      /\ label' = "main"
  BY DEF RobotRestart, driverVars, plcVars
<1>2. ScanInv' /\ Shapes'
  BY <1>1 DEF ExitInv, ScanInv, Shapes
<1>3. TypeSet' = TypeSet /\ TypeRead' = TypeRead
  BY <1>1 DEF TypeSet, TypeRead
<1>4. ParamsFirst'
  BY <1>1, <1>3 DEF ExitInv, ParamsFirst
<1>5. TypeBeforeCommand'
  BY <1>1, <1>3 DEF ExitInv, TypeBeforeCommand, ParamLabels
<1> QED BY <1>2, <1>4, <1>5 DEF ExitInv

\* Nor does a start of the robot's program, whatever its controller does with the
\* output word, make it run on into its end: it ends only on CMD_EXIT.
THEOREM RestartsExitOnCommand ==
  ASSUME "restart" \notin FaultKinds
  PROVE  RestartSpec => ExitOnlyOnCommand
<1>1. RestartInit => RestartInv /\ ExitInv
  BY InitRestart, InitExit DEF RestartInit
<1>2. RestartInv /\ ExitInv /\ [RestartNext]_restartVars => RestartInv' /\ ExitInv'
  <2> SUFFICES ASSUME RestartInv, ExitInv, [RestartNext]_restartVars PROVE RestartInv' /\ ExitInv'
    OBVIOUS
  <2>1. CASE [Next]_vars
    BY <2>1, NextRestart, NextScan, NextShapes, NextParamsFirst, NextTypeBefore
       DEF RestartInv, ExitInv
  <2>2. CASE RobotRestart
    BY <2>2, NextRestart, RestartExit
  <2> QED BY <2>1, <2>2 DEF RestartNext, restartVars
<1>3. ExitInv /\ [RestartNext]_restartVars =>
        [label' = "exit" /\ label # "exit" => robotIn[ADDR_CMD_EXIT].val = CMD_EXIT]_vars
  <2> SUFFICES ASSUME ExitInv, [RestartNext]_restartVars
               PROVE  [label' = "exit" /\ label # "exit" => robotIn[ADDR_CMD_EXIT].val = CMD_EXIT]_vars
    OBVIOUS
  <2>1. CASE [Next]_vars
    BY <2>1, ExitStep DEF ExitInv
  <2>2. CASE RobotRestart
    BY <2>2 DEF RobotRestart
  <2> QED BY <2>1, <2>2 DEF RestartNext, restartVars
<1> QED BY <1>1, <1>2, <1>3, PTL DEF RestartSpec, ExitOnlyOnCommand
=============================================================================
