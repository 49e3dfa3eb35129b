--------------------------- MODULE ChessHandshake ---------------------------
(***************************************************************************)
(* Why ChessSystem keeps its promises: the inductive invariants of the     *)
(* two-word command and of the READY handshake.  A call of robot_sendMove  *)
(* passes through the registers in stages,                                 *)
(*   0  nothing stored          1  CMD_ALLOW_MOVE_1 stored                 *)
(*   2  the parameters too      3  CMD_ALLOW_MOVE_2 too                    *)
(*   4  CMD_1 zeroed            5  CMD_2 zeroed          6  at rest,       *)
(* and each stage fixes what the PLC and the robot may hold and do.        *)
(***************************************************************************)
EXTENDS ChessSystem

MoveTypes == {NORMAL_MOVE, HIT_MOVE}

\* The program past the test of the second command word, and past the first.
ParamLabels == {"type", "source", "dest", "startHitMove", "startNormalMove"}
Reading     == ParamLabels \union {"readsecond"}
\* From the test of the first command word to the end of the handshake.
Busy        == Reading \union {"moveReady", "waitforpc", "clearReady"}

\* What the scan has copied: all at its start, else the words before the next.
ScanInv ==
  \A a \in CommandAddrs : scan = 0 \/ a < ADDR_CMD_1 + scan - 1 => robotIn[a] = d[a]

\* The three forms of a request.
Shape(r) ==
  /\ r.op = "write_register" => r.addr \in CommandAddrs /\ Len(r.words) = 1
  /\ r.op = "write_registers" => /\ r.addr = ADDR_MOVESOURCE
                                 /\ Len(r.words) = 3
                                 /\ r.words[3].val \in MoveTypes
  /\ r.op = "read_registers" => r.addr = ADDR_READY /\ r.words = <<>>
Shapes == \A i \in 1 .. Len(reqs) : Shape(reqs[i])

-----------------------------------------------------------------------------
\* A type of a move stands in D544, and nothing under way replaces it by zero;
\* then the robot has read it too.
TypeSet == /\ fn # "robot_connect"
           /\ d[ADDR_MOVETYPE].val \in MoveTypes
           /\ \A i \in 1 .. Len(reqs) : reqs[i].addr # ADDR_MOVETYPE
TypeRead == TypeSet /\ robotIn[ADDR_MOVETYPE].val \in MoveTypes

\* The zero of robot_connect never overtakes the parameters of a move; a call
\* sends CMD_ALLOW_MOVE_2 only after its parameters, or those of a call before,
\* have been confirmed.
ParamsFirst ==
  /\ \A i \in 1 .. Len(reqs) : reqs[i].op = "write_registers" =>
       fn # "robot_connect" /\ \A j \in i .. Len(reqs) : reqs[j].addr # ADDR_MOVETYPE
  /\ \A i \in 1 .. Len(rsps) : rsps[i].op = "write_registers" /\ rsps[i].ok => TypeSet
  /\ fn = "robot_sendMove" /\ step >= 3 => TypeSet
  /\ \A i \in 1 .. Len(reqs) :
       reqs[i].addr = ADDR_CMD_2 /\ reqs[i].words[1].val = CMD_ALLOW_MOVE_2 => TypeSet

\* So the robot finds a type where it finds CMD_ALLOW_MOVE_2.
TypeBeforeCommand ==
  /\ \/ d[ADDR_CMD_2].val = CMD_ALLOW_MOVE_2
     \/ robotIn[ADDR_CMD_2].val = CMD_ALLOW_MOVE_2
     \/ label \in ParamLabels
     => TypeRead
  /\ label \in {"source", "dest"} => nW.type.val \in MoveTypes

\* The inductive invariant behind ExitOnlyOnCommand: with timeouts, refusals and
\* broken connections, but no restart, the robot that has seen both command
\* words reads NORMAL_MOVE or HIT_MOVE.
ExitInv == ScanInv /\ Shapes /\ ParamsFirst /\ TypeBeforeCommand

-----------------------------------------------------------------------------
ParamAddrs == {ADDR_MOVESOURCE, ADDR_MOVEDEST, ADDR_MOVETYPE}

\* The registers f hold the parameters of call k.
Params(f, k) == /\ f[ADDR_MOVESOURCE].val = Ordered(k).source
                /\ f[ADDR_MOVEDEST].val = Ordered(k).dest
                /\ f[ADDR_MOVETYPE].val = Ordered(k).type

\* Call k at stage n: the PLC's registers, and the robot's input words, which
\* are at most one request behind.
PlcAt(k, n) ==
  /\ d[ADDR_CMD_1].by <= k
  /\ n \in {0, 4, 5, 6} => d[ADDR_CMD_1].val # CMD_ALLOW_MOVE_1
  /\ n \in 1 .. 3 => d[ADDR_CMD_1].by = k /\ d[ADDR_CMD_1].val = CMD_ALLOW_MOVE_1
  /\ n \in {4, 5} => d[ADDR_CMD_1].val # CMD_CLR_READY
  /\ n \in {0, 1, 2, 5, 6} => d[ADDR_CMD_2].val # CMD_ALLOW_MOVE_2
  /\ n >= 2 /\ k >= 1 => Params(d, k)

RobotInAt(k, n) ==
  /\ robotIn[ADDR_CMD_1].by <= k
  /\ n \in {0, 5, 6} => robotIn[ADDR_CMD_1].val # CMD_ALLOW_MOVE_1
  /\ n \in 1 .. 3 => robotIn[ADDR_CMD_1].val = CMD_ALLOW_MOVE_1 <=> robotIn[ADDR_CMD_1].by = k
  /\ n \in {4, 5} => robotIn[ADDR_CMD_1].val # CMD_CLR_READY
  /\ n \in {0, 1, 2, 6} => robotIn[ADDR_CMD_2].val # CMD_ALLOW_MOVE_2
  /\ n >= 3 /\ k >= 1 => Params(robotIn, k)

\* The robot has carried out call k, and the PLC has the signal; or the signal is
\* back, and the robot waits for the next command.
Seen(k) ==
  /\ LastCall = k
  /\ IF robotOut.val = CMD_READY
       THEN ready.val = CMD_READY
       ELSE label \notin Busy /\ robotIn[ADDR_CMD_1].val # CMD_ALLOW_MOVE_1

\* The request that may be under way at stage n.
Clears1(r, k) == /\ r.addr = ADDR_CMD_1
                 /\ r.words[1].val # CMD_ALLOW_MOVE_1
                 /\ r.words[1].by <= k
Clears2(r)    == r.addr = ADDR_CMD_2 /\ r.words[1].val # CMD_ALLOW_MOVE_2
Fits(r, k, n) ==
  /\ n = 0 => /\ r.addr = ADDR_CMD_1
              /\ r.words[1].by = k /\ r.words[1].val = CMD_ALLOW_MOVE_1
  /\ n = 1 => /\ r.op = "write_registers"
              /\ r.words[1].val = Ordered(k).source
              /\ r.words[2].val = Ordered(k).dest
              /\ r.words[3].val = Ordered(k).type
  /\ n = 2 => r.op = "write_register" /\ r.addr = ADDR_CMD_2
  /\ n = 3 => \/ r.addr = ADDR_READY
              \/ Clears1(r, k) /\ r.words[1].val # CMD_CLR_READY /\ Seen(k)
  /\ n = 4 => Clears2(r)
  /\ n = 5 => Clears1(r, k)
  /\ n = 6 => /\ r.op = "write_register"
              /\ r.addr = ADDR_CMD_1 => Clears1(r, k)
              /\ r.addr = ADDR_CMD_2 => Clears2(r)
              /\ r.addr \in ParamAddrs => k = 0

\* The robot's program: what it has read past *main is of call k, which it is
\* making, perhaps not for the first time; a READY that anyone sees is the one of
\* this call, and it is taken back when the call is at rest.
RobotAt(k, n) ==
  /\ LastCall <= k /\ (n = 0 => LastCall < k)
  /\ LastCall < k => /\ label \notin {"moveReady", "waitforpc", "clearReady"}
                     /\ robotOut.val # CMD_READY
  /\ ready.val = CMD_READY => Seen(k)
  /\ \A i \in 1 .. Len(rsps) : rsps[i].word.val = CMD_READY => Seen(k)
  /\ label \in Reading => k >= 1 /\ n >= 1 /\ nW.cmd1.by = k
  /\ label \in ParamLabels => n >= 3
  /\ label \in ParamLabels \ {"type"} => nW.type.val = Ordered(k).type
  /\ label \in ParamLabels \ {"type", "source"} => nW.source.val = Ordered(k).source
  /\ label \in {"startHitMove", "startNormalMove"} => nW.dest.val = Ordered(k).dest
  /\ label = "clearReady" => n = 6
  /\ n >= 4 => Seen(k)

\* The stage before the running call's request is stored, and after.
StageBefore == IF fn # "robot_sendMove" THEN 6 ELSE IF step <= 4 THEN step - 1 ELSE step - 2
StageAfter  == IF fn # "robot_sendMove" THEN 6 ELSE IF step <= 3 THEN step ELSE step - 1

\* The driver, while it can be answered: its request or the answer is the only
\* thing on the connection, and the answer is its own.
Link(k, n) ==
  connected \/ rsps # <<>> =>
    /\ k = calls /\ (fn = "robot_connect" => k = 0)
    /\ fn # "robot_sendMove" \/ step >= 5 => Seen(k)
    /\ pending = NoTid => n = StageBefore /\ reqs = <<>> /\ rsps = <<>>
    /\ pending # NoTid =>
         \/ /\ n = StageBefore /\ rsps = <<>> /\ Len(reqs) = 1
            /\ reqs[1].tid = pending /\ reqs[1].op = Script[step].op
         \/ /\ n = StageAfter /\ reqs = <<>> /\ Len(rsps) = 1
            /\ rsps[1].tid = pending /\ rsps[1].op = Script[step].op /\ rsps[1].ok

Stage(k, n) ==
  /\ n < 6 => k >= 1
  /\ PlcAt(k, n) /\ RobotInAt(k, n) /\ RobotAt(k, n) /\ Link(k, n)
  /\ Len(reqs) <= 1
  /\ reqs # <<>> => Fits(reqs[1], k, n)

\* The signal stands exactly while the robot waits for CMD_CLR_READY.
ReadySignal == robotOut.val = CMD_READY <=> label \in {"waitforpc", "clearReady"}
\* What remains of it when the robot's program is started again.
SignalHeld  == label \in {"waitforpc", "clearReady"} => robotOut.val = CMD_READY

\* No fault so far but broken connections.
Clean == \A i \in DOMAIN faults : faults[i] = "loss"

\* What holds of the handshake even when the robot's program is started again:
\* for an application that waits for the signal to go, some call is at some stage,
\* and what has been done is what was ordered.
HandshakeHeld ==
  /\ ScanInv /\ Shapes /\ SignalHeld
  /\ Clean => MovesAsOrdered /\ \E k \in 0 .. calls, n \in 0 .. 6 : Stage(k, n)

\* The inductive invariant behind MovesAsOrdered.
HandshakeInv == HandshakeHeld /\ ReadySignal

-----------------------------------------------------------------------------
\* The transaction n before the last one.
Back(n) == IF tId >= n THEN tId - n ELSE tId - n + TidCount

TimedOut == \E i \in DOMAIN faults : faults[i] = "timeout"

Waits == IF pending = NoTid THEN 0 ELSE 1

\* What is under way belongs to the last n transactions, in their order.
Owed(n) ==
  /\ connected => Len(rsps) + Len(reqs) = n
  /\ connected \/ pending # NoTid => /\ Len(rsps) <= n
                                     /\ \A i \in 1 .. Len(rsps) : rsps[i].tid = Back(n - i)
  /\ connected => \A i \in 1 .. Len(reqs) : reqs[i].tid = Back(n - Len(rsps) - i)

\* After m timeouts the driver is m answers behind: every answer it reads belongs
\* to the m-th transaction before the one it waits for.
Behind(m) == (TimedOut => m > 0) /\ Owed(m + Waits)
TidInv ==
  /\ pending \in {NoTid, tId}
  /\ \E m \in 0 .. Len(faults) : Behind(m)

\* The robot has carried out call k as it was ordered.
Done(k) == \E i \in 1 .. Len(performed) : performed[i] = Ordered(k)

\* The inductive invariant behind TrueUnlessRefused, together with HandshakeInv:
\* robot_sendMove leaves the poll for READY only when the move has been made.
TrueInv ==
  /\ TidInv
  /\ ~Refused => /\ TrueMeansPerformed
                 /\ fn = "robot_sendMove" /\ step >= 5 => Done(calls)

-----------------------------------------------------------------------------
\* The exit command goes out once, last of all, and is not taken back.
Leaving     == {"exit", "disconnect", "closed"}
ExitWord(r) == r.addr = ADDR_CMD_EXIT /\ r.words[1].val = CMD_EXIT
ExitLast ==
  /\ \A i \in 1 .. Len(reqs) : ExitWord(reqs[i]) => fn \in Leaving
  /\ d[ADDR_CMD_EXIT].val = CMD_EXIT =>
       /\ fn \in Leaving
       /\ \A i \in 1 .. Len(reqs) : reqs[i].addr = ADDR_CMD_EXIT => ExitWord(reqs[i])
  /\ robotIn[ADDR_CMD_EXIT].val = CMD_EXIT \/ label = "exit" => d[ADDR_CMD_EXIT].val = CMD_EXIT

\* While the connection stands, every call of robot_sendMove that has returned has
\* returned true, and the exit command is stored when its call returns.
AllWell ==
  /\ connected \/ (fn = "closed" /\ reqs = <<>>)
  /\ \A k \in 1 .. calls : issued[k].outcome = "true" \/ (k = calls /\ fn = "robot_sendMove")
  /\ fn = "exit" /\ pending # NoTid =>
       \/ d[ADDR_CMD_EXIT].val = CMD_EXIT
       \/ reqs # <<>> /\ ExitWord(reqs[1])
  /\ fn = "disconnect" => d[ADDR_CMD_EXIT].val = CMD_EXIT

\* The moves made are those of the first calls, one each, and the call at hand is
\* the last of these or the next.
InTurn(k) == /\ k <= Len(performed) + 1
             /\ \A i \in 1 .. Len(performed) : performed[i].call = i

\* robot_sendMove has no outcome before it returns.
OutcomeOpen == fn = "robot_sendMove" => issued[calls].outcome = "pending"

\* The inductive invariant behind ImplementsService, together with HandshakeInv and
\* TrueInv.
ServiceInv ==
  Clean => /\ \E k \in 0 .. calls, n \in 0 .. 6 : Stage(k, n) /\ InTurn(k)
           /\ ExitLast
           /\ OutcomeOpen
           /\ faults = <<>> => AllWell
=============================================================================
