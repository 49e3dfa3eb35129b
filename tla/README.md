# Robotchess: a TLA+ verification project

A chess player's move is typed into a PC program, travels over Modbus/TCP to a
PLC, from there through the multi-CPU memory to a robot controller, and the
robot moves the piece. Nobody sends a message that says "move": the three
parties share 16-bit registers, and each reads them at its own pace. What this
project asks is what that register handshake guarantees: is a move made, made
once, made as ordered, and made before it is reported?

All paths are relative to the repository root; `PC` stands for
`src/pc/RobotController/src`.

## 1. Inventory

| component | source | state | operations |
|---|---|---|---|
| PC driver and main loop | `PC/modbus_driver.c`, `PC/main.c`, `PC/types.h`, `PC/consts.h` | which function runs, which libmodbus call it has reached; no other memory between calls | `robot_connect`, `modbusClearCommand`, `robot_sendCmd`, `robot_sendMove`, `robot_disconnect`, the loop of `main` |
| libmodbus TCP client | `PC/modbus/modbus.c`, `PC/modbus/modbus-tcp.c` | socket, the static transaction counter, timeouts, error recovery | `modbus_write_register(s)`, `modbus_read_registers`, `send_msg`, `receive_msg`, `check_confirmation`, flush |
| libmodbus connection set-up | `modbus-tcp.c` l.210-562, `modbus-rtu.c` l.462-793, `modbus.c` | `ctx->s`, the caller's listening socket, the saved `termios` | connect, close, listen, accept; the recovery of the link |
| libmodbus contexts and mappings | `modbus.c` l.1528-1636, `modbus_new_*`, `robot_connect` | blocks of the heap | `modbus_new_tcp`, `_tcp_pi`, `_rtu`, `modbus_free`, `modbus_mapping_new`, `_free` |
| PLC program | `src/plcModbusServer` (binary engineering project) | D540..D545, D1040, position in the scan | Modbus/TCP server, cyclic copy to and from the robot ("Adatküldés") |
| Robot program | `src/robot/robotchess_modbus.prg` | label, the words it has read, the output word, arm and gripper | `*main`, `*readsecond`, `*readMoveParams`, `*startHitMove`, `*startNormalMove`, `*waitforpc`, `*exit` |
| Stand-alone robot program | `src/robot/robotchess_simple.prg` | arm and gripper | one fixed move, no communication |
| libmodbus server | `PC/modbus/modbus.c` l.641-1011 | the mapping of registers | `modbus_receive`, `modbus_reply`, `modbus_reply_exception`; nothing in the repository calls it |
| libmodbus RTU backend | `PC/modbus/modbus-rtu.c` | bytes on the line, slave number | framing, checksum, filter, send and receive of master and slaves; nothing in the repository calls it |
| libmodbus data helpers | `PC/modbus/modbus-data.c` | none | packing of bits, bytes and floats; the server and the client use the bits |
| libmodbus settings and diagnostics | `modbus.c`, `modbus.h` | one field each | setters, getters, error texts, debug output |

**How they interact.** The PC program is single-threaded: one libmodbus call at
a time, one request and one answer per call, on one TCP connection. The PLC
answers requests into D registers and, in its own cycle, copies six command
words to the robot's inputs and one output word of the robot back to D1040. The
robot program polls its inputs word by word. So three actors run concurrently
with two shared memories between them and no lock: a request is atomic at the
PLC, but a *command* is three requests, seven registers and up to six copies.

The protocol of one move (`robot_sendMove`, `modbus_driver.c` l.88-143):

    PC:    CMD_1 := ALLOW_MOVE_1; (source,dest,type) := m; CMD_2 := ALLOW_MOVE_2
    robot: sees both words, reads type, source, dest, moves, READY := 1111,
           waits in *waitforpc
    PC:    polls READY until 1111; CMD_1 := 0; CMD_2 := 0; CMD_1 := CLR_READY; returns true
    robot: sees CLR_READY, clears a bit of READY, goes back to *main

**What is hard.** Word-wise copying and word-wise reading (a command may be seen
half); the READY word of the previous move is still there when the next call
polls; a poll that times out leaves its answer in the stream; three of the
seven calls of `robot_sendMove` may fail unnoticed and a failed poll leaves the
command standing; a restarted PC program zeroes registers under a robot that is
reading them; a robot program that is started again finds an old command and
keeps an old READY; poll and `*waitforpc` wait for each other. Below that, in
libmodbus: nothing in a stream of bytes says where a message begins, so that
everything left by a call that was given up is read by the next; on a serial
line everyone hears everything; a descriptor's number belongs to someone else
as soon as it is closed; each of five allocations may fail.

**What makes each part correct.**

- PC driver: one call makes the robot move at most once; `true` means moved; a
  motion is the move that was ordered; every call returns when nothing fails.
- libmodbus client: the answer taken for a call is the answer to that call;
  both ends agree where a message ends; no request is executed twice; after an
  error the stream is back in step.
- RTU: a slave executes what the master sent it and nothing else it hears, without
  a fault the request of the call that runs;
  corruption of a byte is noticed.
- connection set-up and memory: whatever fails halfway, nothing is lost, and
  nothing of another's is closed or freed.
- libmodbus server: a call changes exactly the range it names, or nothing.
- Robot program: it leaves its loop only on `CMD_EXIT`; it takes READY back
  before it looks for the next command; started again it repeats at most one
  move; a piece it picks up it also puts down.
- PLC program: assumed, not verified (section 4).
- The whole: the abstract service of `MoveService.tla`.

`PROJECT.json` lists each hazard at its line with the properties that watch it.

## 2. Modules

| module | models | main state | actions |
|---|---|---|---|
| `RegisterMap` | `types.h`, `consts.h`, the TCP connection, the multi-CPU memory | `reqs`, `rsps`, `connected`, `robotIn`, `robotOut` | - |
| `RobotDriver` | `modbus_driver.c`, `main.c`, the calls of libmodbus as seen by them | `fn`, `step`, `tId`, `pending`, `issued` | `ModbusSend`, `ModbusReceive`, `ModbusTimeout`, `ModbusNoConnection`, `ConnectionLost`, `StartSendMove`, `StartExit`, `RobotDisconnect`, `Restart` |
| `Plc` | the PLC program (external) | `d`, `ready`, `scan` | `PlcServe`, `PlcReject`, `PlcNoRequest`, `PlcCopyWord` |
| `RobotProgram` | `robotchess_modbus.prg` | `label`, `nW`, `performed` | one action per label, and one per read of an input word |
| `ChessSystem` | the composition and the faults | `faults` | each action of the three parts, with the others' state unchanged; `Timeout`, `Reject`, `Break`, `Reboot` |
| `MoveService` | what `modbus_driver.h` promises | `ordered`, `done`, `reported`, `exiting`, `on`, `lost` | `Order`, `Perform`, `Report`, `AskExit`, `SwitchOff`, `Lose`, `LoseExit` |
| `RobotArm` | the motions inside `*startHitMove` and `*startNormalMove`, statement by statement, and the command that makes the program begin them | `board`, `dropped`, `at`, `low`, `hand`, `held`, `job`, `pc`, `waiting`, `command`, `standing`, `restarts` | one per kind of statement; `Order`, `Withdraw`, `BeginMove`, `EndMove`, `BackToMain`, `ProgramRestart` |
| `ChessBoard` | what a move, a stop in the middle of one, and a move made again do to the board | `board`, `dropped`, `command`, `standing`, `made`, `due`, `stops` | `AskMove`, `MakeMove`, `TakeBack`, `Stop` |
| `ModbusFrames` | messages, and how long each end takes them to be | `req`, `rsp` | - |
| `ModbusClient` | the client calls of `modbus.c` | `call`, `sent`, `tId`, `result` | `Invoke`, `Confirm`, `TimedOut` |
| `ModbusServer` | `modbus_reply`, `modbus_reply_exception` | `tabs` | one per case of the switch |
| `ModbusTransaction` | a client, a server and the connection | `made`, `before` | `Ask`, `Serve`, `Refuse`, `Return`, `GiveUp` |
| `DataTables` | what the calls of `modbus.h` promise | `tabs`, `call`, `last`, `result` | `Ask`, `Answer`, `RefuseAtOnce` |
| `ChessRestart` | the robot's program stopped and started again, in the whole system | `restarts` | `RobotRestart`, and those of `ChessSystem` |
| `ModbusReceive` | `receive_msg`: picking a message out of a stream of bytes; the check of an answer, byte by byte | - | - |
| `ModbusSession` | a TCP client that calls again and again: late bytes, broken connections, both error recovery modes | `pc`, `request`, `rx`, `link`, `reqs`, `wire`, `sock` | `Call`, `Send`, `SendFails`, `Receive`, `ReceiveEnd`, `Timeout`, `Flush`, `Reopen`; `Serve`, `Arrive`, `Break`, `Restore` |
| `ModbusCrc` | the two tables and the loop over them; CRC-16 as it is defined | - | - |
| `RtuBus` | a master, with or without error recovery, and slaves on one serial line | `recovery`, `pc`, `rx`, `input`, `job` | `Call`, `MasterReceive`, `MasterTimeout`, `MasterFlush`, `SlaveReceive`, `SlaveTimeout`, `SlaveReply` |
| `ModbusConnection` | connect, close, listen, accept and the recovery of the link, by what they do to descriptors and the serial port | `owner`, `s`, `listening`, `served`, `port` | `Connect`, `Close`, `Recover`, `Listen`, `Accept`, `ServerClose`; `AppOpen`, `AppClose` |
| `ModbusMemory` | contexts, mappings and `robot_connect`'s loop, by the blocks they take and free | `heap`, `mapping`, `context`, `main` | `MappingNew`, `MappingFree`, `ApplicationNew`, `ApplicationFree`, `RobotConnect`, `RobotDisconnect` |
| `ModbusData` | `modbus-data.c` | - | - |
| `MCChessSystem`, `MCChessRestart`, `MCRobotArm`, `MCModbus`, `MCModbusSession`, `MCRtuBus`, `MCModbusResources` | the instances TLC checks | - | - |
| `ChessHandshake` | why `ChessSystem` keeps its promises: the stages of a call, and the inductive invariants | - | - |
| `ChessSystemProofs`, `ChessHandshakeProofs`, `ChessRestartProofs`, `RobotArmProofs`, `ModbusProofs`, `ModbusSessionProofs`, `RtuProofs`, `ModbusResourcesProofs` | theorems | - | - |

`ChessSystem` composes the first four and is shown to implement `MoveService`;
`ChessHandshake` adds its invariants, `ChessRestart` one more action; `RobotArm` implements `ChessBoard`;
`ModbusTransaction` composes client and server and implements `DataTables`;
`ModbusSession` and `RtuBus` are both built on `ModbusReceive`, which takes the
lengths from `ModbusFrames` and the check of an answer from `ModbusClient`.

**Code and model.** A driver function is a *script*, the sequence of libmodbus
calls it makes; `fn` and `step` are its program counter. A call is two steps,
request and answer, so that everything else can happen between them. What the
function does with the result of a call is `Continue`: only the parameter write
and the poll are looked at (`Fails`, `PollsAgain`), all other results are
dropped, as in the code. `Script` and `AfterLast` follow `main`: connect (which
ends in `modbusClearCommand`), prompt, moves, exit command, disconnect.

The loop of `main.c` that reads moves from the keyboard (l.28-53) is commented
out in this commit, which sends no move at all. It is the only caller of
`robot_sendMove` in the repository and the reason the rest exists, so the
application is modelled with it: at the prompt (`fn = "idle"`) it may order any
move, ask for the exit, or disconnect at once, as the code without the loop
does.

Words carry two things: `val`, the 16 bits, and `by`, the number of the
`robot_sendMove` call that sent them. `by` is a history variable: no guard
reads it. `performed` and `issued` are histories too, except that `issued`
also carries the arguments of the running call.

The robot's reads are separate actions because the PLC overwrites the words
while the program runs. The motions between two labels are one action in
`RobotProgram`: they read no shared word. `RobotArm` takes that action apart.
A field number outside the pallet (1..64) is a controller error; the program
stops there, without READY (`RobotOffBoard`).

`RobotArm` puts pieces on the board and runs the motions of the program one by
one: over a field, down, close the hand, up, and so on. The hand takes what
stands where it closes, if it was open and the arm is down; it leaves the piece
where it opens; a piece let go anywhere else falls and is on no field.
The program looks at no board. `Order` and `Withdraw` are the PC program's side:
both command words and the parameters are written, and taken back; `BeginMove` is
`*main` finding the words and reading the parameters, `EndMove` the READY word,
`BackToMain` the way out of `*waitforpc`. `ProgramRestart` is the program stopped
anywhere and started again: the hand keeps what it holds, and since the input words
are the PLC's, a command that still stands there is begun again (l.111-135), on the
board the first time has left. The source is then usually empty: a normal move
closes the hand on nothing and comes down, closed, on the piece it had put on the
goal; a hit move takes its own mover for the piece hit and throws it away. If the
piece was in the hand at the stop it falls at the first `HOpen`, and READY is
signalled for a move that has not been made. `ChessBoard` says what all of that does
to the board: `MakeMove`, done once for each command and once more for each stop that
finds it standing, on what is there (`After`), and `Stop`, some of the motions of a
move that is due, in their order, with the piece in the hand standing nowhere. That
the arm may have been down when it was stopped, and what `mov pObs` then does, is left
out, and so are the delays. The normal move of `robotchess_simple.prg` (l.27-48) is the
same sequence of motions.

`M_Out(10800) = CMD_READY` writes 16 bits, while `M_out(nWcmd1Addr) = 0` is a
bit output and clears only the lowest one: READY goes from 1111 to 1110, which
the poll takes for "not ready". `RobotClearReady` says just that.

**libmodbus by itself.** `ChessSystem` takes a libmodbus call as one request and
one answer. `ModbusTransaction` looks inside: what the call checks, what it
sends, what the server makes of it, and what the call makes of the answer. A
message is a record of its fields with the number of bytes its sender wrote
(`len`); the receiver never sees `len`, it computes from the function code and
the byte count how much to read, as `receive_msg` does. Bits are packed into
bytes, a byte being the set of its places that are 1. 16-bit values, which the
code splits in two bytes and joins again, stay whole. `before` is a history: the tables as the last finished call left them,
so that a call is one step of `DataTables`. Calls are made with
numbers that are not negative and arrays as long as their number says
(`ClientAssumption`): nothing in the library checks either. A read of no values,
or `modbus_report_slave_id`, cannot tell an exception from bad data, since the
exception is as long as a regular answer; the model has it so.

**libmodbus over a stream.** `ModbusSession` has bytes instead of messages. An
answer is computed, split and checked as the code does it: `Receive` is one
`recv` of `receive_msg`, of as many bytes as have arrived and were asked for;
`Timeout` stands for both the response and the byte timeout. What a timeout, a
flush or a broken connection leaves behind is what the next call starts with. A
byte carries, beside its value, whether it belongs to the call that runs: a
history, for the properties only. `Timeout` while something is still under way
is a fault and counts as one (the answer is late); a timeout when nothing is
under way is the regular end of a call whose answer is incomplete.

`RtuBus` has the same receiver on every node of the line, for requests
(`MSG_INDICATION`) in the slaves and for answers in the master. Whatever one
node sends all others read, at their own pace, in pieces. A slave that is
executing a request does not read meanwhile. The timeouts of master and slave are
equally long (`modbus-private.h` l.51-52), but the master's begins when `write` has
returned and a slave's at its last `recv`, which is later: when the master's has ended
(`MasterTimeout`) the slaves have read and executed what they have heard
(`SlavesIdle`, otherwise someone was late, a fault), but may still wait for the rest of
a message. Only with the recovery of the link the master then sleeps for one more
timeout (`MasterFlush`), within which theirs end. `RequestTo` and `Asks` are the request of
a call as the master keeps it and as it is sent; `ExecutesRequests` compares with both.

`ModbusConnection` has no bytes at all: it has the process's table of
descriptors, of which the lowest free number is given out next, and who each
one belongs to. The three backends differ in which numbers they keep after a
failure, and that is what the properties are about. `ModbusMemory` is the same
for blocks of the heap; `main` is in it because `robot_connect` makes a new
context on each attempt.

## 3. Properties, runs and bounds

| run | specification and bounds | properties | what it shows |
|---|---|---|---|
| `system_paced` | `FairSpec`, 2 calls, 2 moves, 1 broken connection, paced | `TypeOK`, `HandshakeInv`, `ServiceInv`, `SendMoveReturns`, `ImplementsService`, `ServiceProgresses` | the system implements the service; a command cut off in the middle is not obeyed, and its call returns |
| `system_unpaced` | `FairSpec`, 2 calls, 2 moves, no faults | `SendMoveReturns`, `ReadyTakenBack`, `ExitHonoured` | nobody waits for ever |
| `system_faults` | 2 calls, 1 move, 2 faults of any of the four kinds | `AtMostOnce` | no move is made twice, whatever fails |
| `system_refusals` | 2 calls, 2 moves, 2 timeouts, exceptions or broken connections, paced | `TrueUnlessRefused`, `ExitInv`, `ExitOnlyOnCommand` | a late answer is never taken for another; a half-written command never switches the robot off |
| `robot_restart` | 2 calls, 2 moves, 2 restarts of the robot's program, paced | `RepeatsByRestartsOnly`, `TrueMeansPerformed`, `MovesAsOrdered` | a restart repeats at most one move, and confuses nothing else |
| `robot_arm` | 4 fields, 3 pieces, every move but a normal one to an occupied field, from every position, 3 restarts; symmetric in fields and pieces | `ImplementsBoard`, `NoCollision`, `LosesOnlyCarried`, `ReadyMeansMoved` | the motions make the move, and only the move; what a move made again after a restart does, and what it cannot do |
| `modbus_calls` | tables of 10, 9, 3 and 2 cells with about 190 calls, and tables as large as the largest calls with calls at and above every limit, two in a row; data helpers on 24 bits and pairs of registers | `FramesAgree`, `ImplementsTables`, `BitsReadBack`, `FloatsReadBack` | every call does what it says, or nothing; the limits of client, server and buffers fit together |
| `session` | `FairSpec`, 2 requests, all four recovery settings, 2 faults, 3 identifiers, `MaxStream` 12 | `OwnAnswer`, `OwnBytesAnswer`, `ExecutedOnce`, `SessionInv`, `BackInStep` | what a given-up call leaves in the stream is never another's answer, and does not stay for good |
| `rtu_bus` | 2 slaves, 3 requests, no error recovery or both modes, 1 lost byte or late answer, `MaxInput` 8; messages of 1 and 2 bytes for the checksum | `OwnAnswer`, `ExecutesRequests`, `NeverTwice`, `TablesAreCrc16`, `ErrorsDetected` | who hears what on a shared line, and what the checksum is good for |
| `resources` | 4 descriptors, 6 kinds of client; 8 blocks, 1 mapping, 1 context, 2 failed attempts | `ConnectedMeansOpen`, `NoSocketLeft`, `PortRestored`, `OthersUntouched`, `OnlyAttemptsLose`, `OneOwner` | what fails halfway gives back what it took |
| `stale_ready` | no faults, not paced | `TrueMeansPerformed` (violated) | finding 1 |
| `leftover_command` | 1 exception, paced | `MovesAsOrdered` (violated) | finding 2 |

**The system.** `MaxMoves` calls of `robot_sendMove`, `MaxFaults` faults,
`MaxRestarts` restarts, `TidCount` transaction identifiers (65536 in libmodbus,
4 here). Every property is about one call and what is left over from others: two
calls are enough to have a leftover, two faults to have a late answer and a
refused write in the same behaviour. `TidCount` must exceed `MaxFaults`: a
connection holds at most one answer per timeout and one for the call that
waits, and identifiers repeat only after `TidCount` calls. With 65536 that
would take as many timeouts on one connection. The theorems have the same
hypothesis. A hit move and a normal move
are both in `MCMoves`, with different fields, so that any mixture of two
moves shows. Only `robot_arm` uses symmetry.

`Paced` says whether the application waits with its next move until the READY
word of the last one has gone from D1040. The code does not; a person who
types the moves, watching a robot that is back at its place, in effect does.
Both are checked. Without it `TrueMeansPerformed` fails (finding 1), while
`AtMostOnce` and the three liveness properties hold.

**The arm.** Four fields, so that there are two which are neither source nor
destination, and three pieces: a mover, one that is hit and one that nobody touches.
The number of moves is not bounded: the positions are finitely many. Three restarts, so
that the same move may be cut off, cut off when made again, and made once more.
Fields and pieces may be exchanged among themselves (`Alike`): no module names one,
and there is no liveness property. `ReadyMeansMoved` has two exceptions, which are the
limits of the code: the mover was in the hand at a restart, or a hit was made twice.

**libmodbus, messages.** `MaxCalls` 2: one call to change the tables and one to
look at them. The small tables have ten bits, so that a second byte is begun,
and three registers, so that ranges overlap, end at the end and beyond it. The
deadlock check is off: a client may stop calling. `SampleInit` gives the data
helpers every range of up to 16 bits in two bytes at every offset, and floats
with the ends of both halves; a sample has one step, and no call follows.

**libmodbus, stream.** `MaxFaults` 2: two times something comes late, in as many
pieces as there are bytes, or the connection breaks. One is not enough for
`BackInStep`: with both modes something stays in the stream only if an answer is later
than the timeout and then later than the flush. `MaxStream` bounds what earlier
calls have left when a new one is made: 12 bytes are one whole answer, or the
rest of one and a request. The requests are a read and a read the server refuses, whose
answers have different lengths; the identifiers are three, one more than the faults.
`OwnAnswer` depends on values that are no small number: section *Observed limits*.

**RTU.** Two slaves, so that one hears the other's answers. `MaxInput` is what a
node may not have read yet when the master sends: a whole answer. `NeverTwice`
is about a line without faults and a master with the recovery of the link: without it
see *Observed limits*. The checksum's messages are all of one byte,
and those that grow from one by one of four bytes (`MoreBytes`, `MaxLength`).
They have nothing to do with the bus: the first state decides between the two.

**Resources.** Four descriptors: the standard input, and those of a client, a
listening socket and a connection, so that there are none to spare and every
number that becomes free is given out again. Eight blocks: two failed attempts and
one success of `robot_connect`, and the other context; a mapping of five fits
before the last two of these, and is refused after.

**Fairness.** In `ChessSystem`: weak fairness on the PC program's calls (`Send`,
`Receive`: a single thread, every call returns), on the PLC's scan (`Serve`,
`NoRequest`, `CopyWord`: a PLC is cyclic) and on the robot program (a loop). None on
`OrderMove`, `OrderExit` and `Disconnect`, which are a person's choices, nor on
faults. The liveness properties are checked without faults, `SendMoveReturns`
and `ServiceProgresses` also with a broken connection, which ends the call.
`ServiceProgresses` is the fairness of `MoveService`, `ImplementsService` all else
of it; together they are the refinement of `ServiceSpec`. With a
refused `CMD_CLR_READY` or a timeout the poll and `*waitforpc` do wait for
each other for ever, and a restarted PC program withdraws an exit command the
robot has not read. Those are limits of the code, not of the model. What
`MoveService` owes after a lost connection is weaker: orders may stay undone, an
exit command may be lost, but what is done is done once and in order.

In `ModbusSession`: weak fairness on the client (`receive_msg` has timeouts, so
that every call ends, and the application calls again and again), on the server,
on the network that delivers what is under way, and on a server that listens
again after a fault.

**Faults.** `Timeout`: the response timeout ends a call with -1 while no answer
has arrived; the answer comes later and stays in the stream, where the next
call finds it, rejects it for its transaction identifier and returns -1 in
turn. After one timeout the connection therefore remains one answer behind
until it is closed. `Reject`: the server answers with an exception. `Break`: the connection is gone; a prefix
of the requests under way still reaches the PLC, a prefix of the answers the PC
program, and every later call returns -1 (the driver never switches error recovery on,
so libmodbus does not connect again). `Reboot`:
the PC program is killed anywhere, or ends, and is started again; requests
under way are dropped. `RobotRestart`: the robot's program is stopped anywhere,
or has ended, and begins at its first line. In `ModbusSession` the client is any
application of libmodbus, with any of the recovery modes, and may connect again
by itself (`Reopen`).

A restart of the PC program is part of `system_faults` only. `ExitOnlyOnCommand` and
`MovesAsOrdered` do not hold with one: `robot_connect` zeroes the parameters,
and a robot that is reading them then sees a zero type, which runs on into
`*exit`, or a zero field number. Nothing in the repository promises otherwise.

**Findings.**

1. *A stale READY confirms a move that was not made.* If the next call follows
   before the robot has seen `CMD_CLR_READY` and the PLC has copied the
   cleared word, the poll reads the previous move's 1111, `robot_sendMove`
   zeroes its own command and returns true, and the robot never moves.
2. *A leftover second command word.* When the poll fails, both command words
   stay. The next call's first word completes the old command, and the robot
   moves by the old parameters, or by a mixture, before that call has sent its
   own.

**Observed limits.** What the properties of libmodbus and of the robot's restart
leave out, each because the code does not provide it. The repository promises
none of them, and the driver meets only the last.

- *The identifier is two bytes anywhere* (`modbus-tcp.c` l.198): when a call
  without error recovery was given up in the middle of an answer, the rest of it
  stands at the beginning of the stream. If its value bytes are a small number,
  say 0 2, they pass for the identifier 2, and the call with that number returns
  success with bytes that are no answer.
- *Out of step for good* (`modbus.c` l.431): a message that would be too long is
  given up without a flush, whatever the mode. An exception is two bytes shorter
  than the answer the receiver reads out of step, and a client to which the
  server refuses request after request may stay two bytes out of step for ever.
  `BackInStep` says that this is the only case.
- *A late answer on a serial line* (`modbus.c` l.485): there is no identifier, and
  the slave's number of an answer is not compared with that of the request. It
  is taken for the answer to the next call, even one to another slave.
- *Out of step on a serial line*: a slave that waits for the rest of an answer it has
  taken for a request drops it half a second after its last `recv`. The master's
  response timeout ends earlier, and a master without the recovery of the link that
  calls again at once meets the slave as it was: any number of calls in a row may
  fail. With that mode `_sleep_and_flush` waits long enough (`NeverTwice`).
- *A broadcast* (`modbus-rtu.c` l.848) is answered by every slave with the number
  0. The answer to a write has the form of the request: the others execute it.
- *A number of before in TCP PI* (`modbus-tcp.c` l.335): connect decides by
  `ctx->s` whether it has succeeded and does not reset it. After a close, a
  connect that reaches no address returns 0.
- *A number closed twice*: by the recovery of the link after a connect that
  failed (`modbus.c` l.397), and by an application that calls
  `modbus_tcp_accept` again after an error, which left 0 in its variable
  (`modbus-tcp.c` l.533).
- *READY that stays*: a robot program that is started again in `*waitforpc`, or
  just before it, begins at `*main` and takes READY back only at the end of its
  next move, if the controller keeps its outputs. An application that waits for
  READY to go waits for ever; one that does not takes it for its own move's. If
  the controller clears its outputs instead, the move is made again and reported
  to the next call: `MovesAsOrdered` fails.
- *A move made again* (`robotchess_modbus.prg` l.111-135): see `RobotArm` in section 2. A
  repeated hit move throws away its own mover, a repeated normal move comes down with
  the closed hand on the piece it has moved, and READY is signalled for a move whose
  piece was in the hand when the program was stopped. `NoCollision`,
  `LosesOnlyCarried` and `ReadyMeansMoved` say that nothing worse happens.

## 4. Assumptions about the PLC

The PLC project is a binary file. The model assumes what the two programs
around it rely on: requests are executed whole, one at a time, in the order they
arrive; a scan answers at most one request and then copies the six command
words in address order, one word at a time; D1040 is the robot's output word.
If the PLC served several requests between two copies of CMD_1, the robot
could miss `CMD_CLR_READY` altogether; one request per scan is the assumption
under which it cannot, as every libmodbus call waits for its answer.

## 5. Proofs

Every theorem holds for every value of the constants: any moves, any number of
calls, faults, restarts, fields, blocks, bytes. What a theorem assumes beside the
named ASSUMEs of its modules stands in its statement, and here with the reason.
TLC checked the inductive invariants on the runs' instances before they were proved;
`OnceInv`, `TrueInv`, `TransactionInv`, `ArmInv`, `MemoryInv` and the invariants of the
descriptors are left out of the runs again, where only what follows from them is kept.

**The system, whatever fails.** `ChessSystemProofs.tla`, for every kind of fault and
both values of `Paced`:

- `TypeCorrect`: `Spec => []TypeOK`. The inductive form adds `StepOK`: `step`
  lies inside the script of the running function, a running `robot_sendMove`
  has an entry in `issued`.
- `OnceInvariant`: `Spec => []OnceInv`, and from it
- `NoMoveTwice`: `Spec => []AtMostOnce`.

`AtMostOnce` is not inductive: nothing in it says why the robot, back at
`*main`, does not find the same `CMD_ALLOW_MOVE_1` again. `OnceInv` adds three
facts. `CommandOrder`: the words sent to CMD_1 keep their order on the way
connection, D540, robot input, and of two consecutive ones the later belongs
to the same call or a later one, strictly later if it is `CMD_ALLOW_MOVE_1`.
`CallOrder`: no word is ahead of its call. `RobotOrder`: the last call performed is no
later than the call of the robot's CMD_1 word, and strictly earlier whenever
that word is `CMD_ALLOW_MOVE_1` outside `moveReady` and `waitforpc`, which the
robot leaves only on `CMD_CLR_READY`. Timeouts and refusals only remove words
from the order, a broken connection keeps a prefix of it, a restart empties it, so the
argument survives every fault.

**The handshake.** `ChessHandshakeProofs.tla` has the rest of what is proved of the
system, in four steps, each on top of the ones before.

1. *The exit* (`ExitInvariant`, `ExitsOnlyOnCommand`). `*exit` is also where a
   robot ends up that has seen both command words and then reads no type of a
   move. `ExitInv` says why it reads one: a call sends `CMD_ALLOW_MOVE_2` only after
   parameters have been confirmed (`ParamsFirst`), the only other writer of the
   type is `robot_connect`, which is over, and the scan copies the type with the
   command or before (`ScanInv`). Timeouts, refusals and lost connections are
   allowed, and calls without a pause; a restart of the PC program is not, because
   `robot_connect` then zeroes the type under the robot's hands.
2. *The stages* (`HandshakeInvariant`, `MovesOnlyAsOrdered`). A call passes through
   the registers in seven stages, from "nothing stored" to "at rest", and
   `Stage(k, n)` fixes for call k at stage n what D540..D545 hold, what the
   robot's input words may still hold, where its program may be and what it has
   read by then, what may be under way and where the driver is. The robot's inputs
   are at most one request behind, since the scan copies all words between two
   requests. One lemma per action says which stage follows which. It needs `Paced`
   (finding 1) and holds as long as nothing but the connection has failed
   (`Clean`): after a refused write or a failed poll the words of two calls mix
   (finding 2). A lost connection freezes the stage. `HandshakeHeld` is the part of
   `HandshakeInv` that a restart of the robot's program keeps; `ReadySignal`, that READY
   has gone when the robot is back at `*main`, is the rest.
3. *Whose answer it is* (`TrueInvariant`, `TrueUnlessRefusedAlways`,
   `TrueAlwaysPerformed`). After m timeouts the driver is m answers behind:
   `TidInv` says that what is under way belongs to the last transactions in their
   order, and that the driver, once behind, stays it. So the answer it reads is
   never the one it waits for, unless identifiers have come round; hence
   `MaxFaults < TidCount`, fewer than 65536 faults. Then a poll that succeeds
   has the answer of its own transaction, and by step 2 that means the move was
   made.
4. *The service* (`ServiceInvariant`, `SystemIsService`). Under the refinement
   mapping every step of the system is one of `MoveService` or none of them, with
   any number of broken connections. `ServiceInv` adds what only the
   refinement needs: the moves made are those of the first calls, one each
   (`InTurn`); the exit command is sent last and nothing takes it back
   (`ExitLast`); a call has no outcome before it returns (`OutcomeOpen`); and
   without a fault every call returns true (`AllWell`). One lemma per abstract
   action: the order, the motion, the report, the exit, the loss. Only
   `ServiceProgresses`, its fairness, is left to TLC.

**The robot's restarts.** `ChessRestartProofs.tla` proves `RestartsRepeat`:
`RestartSpec => []RepeatsByRestartsOnly`, for any number of restarts and every
fault of the system beside them, whether or not the controller keeps its output.
`RobotOrder` does not survive a restart: the robot is at `*main` and the word of
the move it has just made is still there. `RobotKnows` is what remains of it:
the last call performed is no later than the robot's word. `Budget` counts:
moves made, plus one if the program `MayRepeat` the last of them, are no more
than calls carried out plus restarts. A restart pays for what it makes possible;
`CommandOrder` and `CallOrder` come from the proof before, for the robot's
restart touches no word of theirs.

What else survives any number of restarts is proved on top of `ChessHandshakeProofs`,
by adding the one action to its invariants.

- `RestartsMoveAsOrdered`: every motion, a repeated one too, is the move of a call as
  it was ordered. A program that begins again has forgotten what it has read, and
  nothing of that was visible to the others: the stage is the same (`RestartStage`). It
  needs `KeepsOutput`, for a READY that vanishes in `*waitforpc` makes the robot repeat a
  move that the poll then reports to nobody, or to the next call; `Paced` (finding 1); and
  no fault but lost connections (finding 2).
- `RestartsKeepTrue`: `robot_sendMove` returns true only when its move has been made,
  also with late answers, fewer than there are identifiers.
- `RestartsExitOnCommand`: a restart does not make the program run on into `*exit`, under
  the hypothesis of `ExitsOnlyOnCommand` alone.

**The arm.** `RobotArmProofs.tla`, for any fields, pieces, moves and number of
restarts: `ArmInvariant`, `ArmNeverCollides`, `OnlyCarriedLost`, `ReadyIsTrue` and
`ArmImplementsBoard`, which is the refinement as a whole, for `BoardSpec` has no
fairness. The motions of a hit move and of a normal move are numbered alike, 1 to
16; `ArmInv` says for each number where the arm, the hand and the pieces are, as a
function of the board the move began with. After a restart that board is not the one
the command was given for: `Stage` has what it can be, each of the two fields of the
move as it was, cleared, or with the mover on the goal, and all others untouched;
from every such board the motions lead to such a board again. Without restarts it is
the board of the command. `MoverKept` follows the mover itself, which `ReadyMeansMoved`
needs. A piece left in the hand by a restart is
dropped by the first `HOpen`, over a field and not on it; that it is known to be one
of `carried` until then (`Leftover`) is what `LosesOnlyCarried` needs. `ArmAssumption`
asks that the points `pObs` and `pDrop` are no fields.

**The messages.** `ModbusProofs.tla` proves `FramesInvariant` and from it
`NoMessageCut`: `Spec => []FramesAgree`, for any tables, any calls that satisfy
`ClientAssumption` and any number of them. `FramesAgree` alone is not
inductive: an exception is recognised by its function code, 128 more than the
request's, so the invariant adds that a request's code is below 128. The
lemmas go message by message: every request a call builds (`RequestFrames`),
every answer with data, every echo and every exception (`DataFrames`,
`EchoFrames`, `ExceptionFrames`), then every case of the switch (`ReplyKeeps`).

The same module proves `TransactionInvariant` and from it `TransactionIsTables`:
`Spec => ImplementsTables`, the refinement as a whole, for `TablesSpec` has no fairness.
The abstract call happens when the client returns, but the tables change when the
server replies; what connects the two is `TransactionInv`. Nothing or one message is on
the connection: the request of the call that runs, with the tables as the last call
left them; or an answer, and then either the call is legal, the tables are `Written`
and the client will make of this answer what the call promises (`Obeyed`), or the
tables are as before and the client will return -1 (`Refused`). That an answer is taken
needs the length the client computes from its request to be the one it reads
(`AnswerLengths`, `AnswerTaken`); that an exception is never taken for success needs
the function codes apart (`ExceptionTaken`). That what is read is what was written
needs bits to survive packing (`Unpacked`), parts and updates of tables to be those of
`DataTables` (`Parts`, `Puts`, `InsideCells`), and numbers to fit their byte: a count of
2 x 121 does, which is why the limit of the client comes before that of the server.
Then one lemma per case of the switch (`ReadBitsServed` to `SlaveIdServed`).
The hypothesis `ProperUse` is what libmodbus expects of its callers: a cell of a bit
table is 0 or 1 (`response_io_status`, `modbus.c` l.604, shifts any other value into
the bits of its neighbours), the array of a call that writes is what its number says, and
the value of a single register lies in 0..65535. `MCModbus` states it of its
instance as an ASSUME, which TLC evaluates.

**The session.** `ModbusSessionProofs.tla` proves `SessionInvariant`, `SessionTypes`,
`ExecutedAtMostOnce` and `OwnBytesSuffice` for any requests that read or write
registers, any error recovery, any faults, and any bytes in the stream. Of the sizes
it takes those of `modbus-tcp.h` (`TcpAssumption`). `SessionInv` has two halves.

*Once, and within the buffer.* `OwnOne`: the request of the call that runs is on its
way once, or has been executed once, or neither; so that the recovery of the link,
which sends again, does it only before anything has been sent. `StreamInv`: a message
being received together with what is still to be read of it has the length of its
step (`Fitting`), which is why the next `recv` never goes over the buffer, whatever
bytes of earlier calls it reads: a message that would grow too long is given up
first.

*Whose bytes they are.* `OwnBytesAnswer` says that only bytes of earlier calls can
mislead a call: as long as all that has arrived is its own answer, however cut into
pieces, `receive_msg` reads just to its end and `check_confirmation` accepts it. Two
facts carry it. The connection keeps the order: what stands in the message being
received, in the socket and on the way is first bytes of earlier calls, then the
answer of this one from its first byte on, perhaps cut off by a broken connection
(`OrderInv`, with `QueueInv` for the requests that are not yet answered). And the
receiver measures right: from the function code on it knows how long the message is,
through all cuts (`Framed`), and that length is the one the server has sent
(`AnswerFrame`), so that the message is complete just when it is the whole answer
(`WholeAnswer`). That such an answer is accepted, exceptions included, is
`AnswerConfirmed`.

*No timeout too early.* `OwnAnswer`, which is about the bytes of earlier calls too,
depends on their values, except under `OnTime`: the client gives up waiting, and empties
the socket, only when nothing is on its way any more. `OnTimeOwnAnswer` proves it there
for any recovery, any broken connections and any refusals. Then nothing is in the
connection when no call waits, and everything in it belongs to the one that does
(`Unmixed`): a broken connection leaves the first part of an answer, which ends the call
and is never the beginning of the next; and when a message is complete, the order of
the stream leaves nothing behind it (`ReceivedUnmixed`).

**The descriptors.** `ModbusResourcesProofs.tla` proves `ConnectedOwns`,
`NothingLeft`, `SettingsBack` and `FilesUntouched` for any set of descriptors,
under `Tracking`: every client is one that keeps no number of a descriptor it
has lost (TCP without the recovery of the link, RTU with it or without), and
the server does not accept again after an error. `ConnectionInv` adds to the
properties that each number the context and the application hold is one they
own (`OwnNumbers`), and that the settings saved while a port is open are the
original ones (`SavedOriginal`). Connecting from `Connect` and from `Recover` is
one lemma (`AttemptKeeps`), with the descriptors and settings it begins with as
parameters, as in the model. `Tracking` cannot be dropped: *Observed limits*.

**The memory.** The same module proves `MemoryInvariant`,
`LosesOnlyAttempts` and `EveryBlockOneOwner` for any number of mappings, contexts,
blocks and attempts. `MemoryInv` adds to the two properties what is needed to
count: a context is two blocks, and `plc` is NULL only before the first attempt and
after the last call. The blocks an operation takes are the first free ones, so most
of the lemmas are about those: the n-th free block exists (`Nth`), it is free, and two
different n have different ones; the rest is the count of what one pointer leads to.

**The checksum.** `RtuProofs.tla` proves of `crc16` what `TablesAreCrc16` and
`ErrorsDetected` say, for every message of bytes, of any length: `TablesAreCrc16Always`,
and `NoErrorUnnoticed`, which follows from `OneByteDetected`.

The loop keeps two bytes (`After`); the states after each byte of a message are a `Run`,
and the checksum is the last of them (`RunIsCrc`). An error in one byte of the message
makes the state differ after that byte, for exclusive or can be undone (`XorCancels`)
and no entry of `table_crc_lo` occurs twice (`NoEntryTwice`), which SMT is told by the place
of each entry; and from then on the two runs receive the same bytes, and different
states remain different for the same reasons (`AfterCancels`, `OneByteShows`). An error
in the checksum itself needs no such argument.
That the tables are CRC-16 takes their 256 entries: eight steps of the shift register,
written out bit by bit (`EightShifts`), are what one look into both tables gives
(`LowTable`, `HighTable`), and a register into which a byte has been put is that of its
upper byte with the byte shifted through its lower one (`OneByteMore`). From there to
messages of any length is induction over the length, by a set of numbers that holds 0
and with each number the next (`NatSet`): so it needs no theorem with an operator for a
parameter.

**The line.** `RtuProofs.tla` also proves `NeverTwice` of `RtuBus`, and that every call
returns the answer of its slave to its own request, as long as no byte was lost and no
answer came late, for a master with any error recovery. `RegisterLine` is what both theorems assume of the constants: the
lengths of `modbus-rtu.h`, slaves that are on the line, and requests that read or write
registers in the form the client calls give them.

`ReadOn` is about the receiver alone: of a message that fits the buffer and whose fields
tell its length (`Fits`), it asks at every read for no more than what is still to come,
in whatever pieces that comes, and is complete with the last byte. Requests fit as
indications (`RequestFits`), answers and exceptions as confirmations (`AnswerFits`), and
`AnswerConfirmed` says that `check_confirmation` takes them.

`OneSlaveNoneFails`: on a line with one slave, no call fails. The invariant is `InStep`:
no call runs and nothing is under way, or the slave hears the request of the call, or is
about to execute it, or the master hears its answer. Nothing is assumed but the
constants.

`ManySlavesNeverTwice`: with more slaves one hears the answers to the others, takes them
for requests, and may wait for the rest of one when its own request comes; so a call may
fail. What the invariant `LineInv` adds is how far out of step the slave can be:
there is at most one request for it to read, and if it has the beginning of something
else, that is from before the call (`Few`). With the recovery of the link it is so once
only: the master sleeps after its timeout (`Sleeps`), and when it wakes the byte timeout
of every slave has ended (`HasFailed`), so that the next request finds everyone at the
beginning of a message. The theorem assumes
`ExecutesRequests` of the behaviour, which the run checks beside it: that no slave takes
anything else for a request is what a checksum of 16 bits decides, and it can be wrong
for some values.

Both say what `OwnAnswer` says as long as nothing has failed (`NoneFails`, `EachOwn`).
Where a line loses no byte (`LossFree`), the only faults are late answers, which
`OwnAnswer` excepts: `OneSlaveOwnAnswer` and `ManySlavesOwnAnswer`.

**The data helpers.** `ModbusProofs.tla` also has what `modbus-data.c` does to bits and
numbers. `BitsAreKept`: what `modbus_set_bits_from_bytes` wrote, at any index of any
table, with any number of bits, `modbus_get_byte_from_bits` reads, and the cells beside
them are as they were. `FloatsKept`: `modbus_set_float` gives back the two registers
`modbus_get_float` has read, whatever stands in them. `BitsReadBackAlways` and
`FloatsReadBackAlways` are the two properties of the run. A number is the sum of its bits, each with its
value (`WordBits`, `ByteOfBits`); one lemma for each of the sixteen places of a register
says that nothing else of the sum reaches that place (`Bit0` to `Bit15`).

**Only model-checked.** Liveness and ENABLED are out of the prover's reach:
`SendMoveReturns`, `ReadyTakenBack`, `ExitHonoured`, `ServiceProgresses`,
`BackInStep`. `OwnAnswer` of `ModbusSession`, where a timeout may come too early, depends
on the values in the stream and holds only for instances whose values are no small numbers
(*Observed limits*); what holds for all of them is `OwnBytesAnswer`, and `OwnAnswer` under
`OnTime`. Of `RtuBus`, `ExecutesRequests` and `OwnAnswer` with lost bytes depend on values
too: a node that is out of step takes a message from the middle of others, and only a
checksum of 16 bits says that it is none. `NoErrorUnnoticed`
says nothing of such a message, which is no message with one wrong byte; that none of
them passes is a fact about the messages of the instance.

## 6. Not modelled, and what is left

Not modelled, and why:

- The PLC's program, other than from outside: its project is a binary file.
- The Windows serial port, RS485 mode, `termios` flag by flag, socket options,
  addresses and their resolution: system calls with no behaviour of the
  program's own; `ModbusConnection` has their failures.
- Setters, getters, error texts, debug output: one assignment each. The settings
  that matter (error recovery, slave number) are constants or variables of the
  modules that depend on them.
- A `send` that takes only a part of a request (`modbus.c` l.196): `send_msg` then
  gives up with the first part sent. In the model a request is sent whole or not at all.
- `malloc` refusing a context: `_modbus_new_*` does not look, and the program
  ends.
- The field numbers from the keyboard outside 1..64, in the runs: the program
  stops (`RobotOffBoard`), and nothing answers the PC any more.
- The delays, speeds and points of the robot program; the flag that ends
  `robotchess_simple.prg` after its one move.
- What the robot controller does with its outputs when a program is started
  again: `KeepsOutput` has both.

Left to do:

1. `OwnAnswer` of the session with timeouts that come too early, under the
   hypothesis on the values that section *Observed limits* shows to be needed.
2. `ExecutesRequests`, and `OwnAnswer` with lost bytes, under the hypothesis that no
   piece of the line that is not a message has a right checksum.
