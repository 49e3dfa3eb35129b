------------------------------- MODULE RtuBus -------------------------------
(***************************************************************************)
(* The RTU backend: one master and several slaves, all of them libmodbus,  *)
(* on one serial line.  Whatever one of them sends all the others read: a  *)
(* slave reads the requests to the other slaves and their answers too, and *)
(* takes each for a request until its function code, its checksum or its   *)
(* slave number says otherwise.  A message has no transaction identifier.  *)
(* The line is half duplex: a message goes over it as a whole.             *)
(***************************************************************************)
EXTENDS ModbusReceive, ModbusCrc

CONSTANTS
  Slaves,      \* the slaves' numbers
  Targets,     \* the numbers the master sends requests to: slaves, or 0 for all
  Pdus,        \* its requests, from the function code on
  Modes,       \* its error recovery modes that are looked at
  FaultKinds,  \* what may go wrong: "noise", "late"
  MaxFaults,   \* bound: how often
  MaxInput     \* bound: bytes a node may not have read yet when the master sends

Master == 0    \* as a node; as a slave number 0 is the broadcast
Nodes  == Slaves \cup {Master}

ASSUME BusAssumption ==
  /\ Slaves \subseteq 1 .. 247 /\ Targets \subseteq Nodes
  /\ Modes \subseteq SUBSET {"link", "protocol"}
  /\ FaultKinds \subseteq {"noise", "late"} /\ MaxFaults \in Nat /\ MaxInput \in Nat

VARIABLES
  recovery, \* the master's error recovery mode; the slaves have none
  pc,       \* where the master is: "idle", "receive", or asleep before a flush, after
            \* no answer ("timedOut") or a wrong one ("badData")
  request,  \* the request of the call that runs, or was the last
  result,   \* what it has returned, and whether by the answer to its request
  before,   \* history: what the call before it has returned
  rx,       \* rx[n]: the message node n is receiving
  input,    \* input[n]: bytes that have reached node n
  job,      \* job[s]: the message modbus_receive has returned to slave s, or <<>>
  faults    \* the kinds of the faults so far, in their order

vars == <<recovery, pc, request, result, before, rx, input, job, faults>>

NoResult == [rc |-> "none", own |-> FALSE]

BusInit ==
  /\ recovery \in Modes
  /\ pc = "idle"
  /\ request = [tid |-> 0, slave |-> 0, function |-> 0, nb |-> 0]
  /\ result = NoResult /\ before = "none"
  /\ rx = [n \in Nodes |-> NewMessage]
  /\ input = [n \in Nodes |-> <<>>]
  /\ job = [s \in Slaves |-> <<>>]
  /\ faults = <<>>

Fault(kind) == /\ kind \in FaultKinds /\ Len(faults) < MaxFaults
               /\ faults' = Append(faults, kind)

\* The bytes of a history tell who has sent them and whether they belong to the
\* call that runs.
Age(bytes) == [i \in DOMAIN bytes |-> [bytes[i] EXCEPT !.by.now = FALSE]]
AllBy(bytes, by) == \A i \in DOMAIN bytes : bytes[i].by = by

Without(bytes, k) == SubSeq(bytes, 1, k - 1) \o SubSeq(bytes, k + 1, Len(bytes))

\* What "from" sends reaches everyone else, or all but one byte of it does.
Transmit(from, heard, bytes) ==
  \/ /\ input' = [n \in Nodes |-> IF n = from THEN heard[n] ELSE heard[n] \o bytes]
     /\ UNCHANGED faults
  \/ /\ Fault("noise")
     /\ \E k \in DOMAIN bytes :
          input' = [n \in Nodes |-> IF n = from THEN heard[n] ELSE heard[n] \o Without(bytes, k)]

-----------------------------------------------------------------------------
\* _modbus_rtu_filter_request.
\* Mutant: the slave's number is not looked at.
FilteredNever(s) == FALSE
Filtered(s) == ByteAt(job[s], 0) \notin {s, 0}
Executing(s) == job[s] # <<>> /\ ~Filtered(s)

\* A request, as the master remembers it and as it sends it.
RequestTo(slave, pdu) ==
  [tid |-> 0, slave |-> slave, function |-> pdu[1], nb |-> 256 * pdu[4] + pdu[5]]
Asks(slave, pdu) == Bytes(SendMsgPre(<<slave>> \o pdu), [from |-> Master, now |-> TRUE])

\* The master sends a request.  The slaves have read by then what they have heard,
\* unless they are executing one, but may still wait for the rest of a message.
Call ==
  /\ pc = "idle" /\ pc' = "receive"
  /\ \A n \in Nodes : Len(input[n]) <= MaxInput
  /\ \A s \in Slaves : (input[s] = <<>> /\ job[s] = <<>>) \/ Executing(s)
  /\ \E slave \in Targets, pdu \in Pdus :
       /\ request' = RequestTo(slave, pdu)
       /\ Transmit(Master, [n \in Nodes |-> Age(input[n])], Asks(slave, pdu))
  /\ job' = [s \in Slaves |-> Age(job[s])] /\ UNCHANGED recovery
  /\ rx' = [n \in Nodes |-> IF n = Master THEN NewMessage ELSE [rx[n] EXCEPT !.bytes = Age(@)]]
  /\ result' = NoResult /\ before' = result.rc

\* A read from the serial port: the bytes that are there, as many as were asked for.
Got(n, kind) == Read(rx[n], SubSeq(input[n], 1, Taken(rx[n], Len(input[n]))), kind)
Rest(n)      == SubSeq(input[n], Taken(rx[n], Len(input[n])) + 1, Len(input[n]))

\* Nothing compares the slave's number of an answer with that of the request.
Checked(bytes) ==
  LET c == Confirmation(request, bytes, 0) IN
    IF ~CheckIntegrity(Vals(bytes)) \/ c.errno = "EMBBADDATA"
      THEN [rc |-> "failed", own |-> FALSE]
      ELSE [rc  |-> IF c.rc = -1 THEN "exception" ELSE "ok",
            own |-> AllBy(bytes, [from |-> request.slave, now |-> TRUE])]

\* With the recovery of the protocol, a wrong checksum flushes what has come, and a
\* wrong answer is given up only after _sleep_and_flush.
MasterReceive ==
  /\ pc = "receive" /\ input[Master] # <<>>
  /\ LET got      == Got(Master, "confirmation")
         protocol == "protocol" \in recovery
         badCrc   == ~CheckIntegrity(Vals(got.bytes))
     IN
       /\ rx' = [rx EXCEPT ![Master] = IF TooLong(got) \/ Complete(got) THEN NewMessage ELSE got]
       /\ input' = [input EXCEPT ![Master] =
                      IF ~TooLong(got) /\ Complete(got) /\ badCrc /\ protocol
                        THEN <<>> ELSE Rest(Master)]
       /\ \/ TooLong(got) /\ pc' = "idle" /\ result' = [rc |-> "failed", own |-> FALSE]
          \/ /\ ~TooLong(got) /\ Complete(got)
             /\ result' = Checked(got.bytes)
             /\ pc' = IF result'.rc = "failed" /\ ~badCrc /\ protocol THEN "badData" ELSE "idle"
          \/ ~TooLong(got) /\ ~Complete(got) /\ UNCHANGED <<pc, result>>
  /\ UNCHANGED <<recovery, request, before, job, faults>>

\* Within the response timeout the slaves have read what they have heard and answered;
\* one that has not is late.
SlavesIdle == \A s \in Slaves : input[s] = <<>> /\ job[s] = <<>>

\* The master's timeout.  It runs from the end of write, the byte timeout of a slave,
\* which is as long, from its last recv: a slave may still be in the middle of what it
\* takes for a message.
MasterTimeout ==
  /\ pc = "receive" /\ input[Master] = <<>>
  /\ IF SlavesIdle THEN UNCHANGED faults ELSE Fault("late")
  /\ pc' = IF "link" \in recovery THEN "timedOut" ELSE "idle"
  /\ rx' = [rx EXCEPT ![Master] = NewMessage]
  /\ result' = [rc |-> "failed", own |-> FALSE]
  /\ UNCHANGED <<recovery, request, before, input, job>>

\* _sleep_and_flush: once more the response timeout.  After a timeout, when nothing has
\* been sent meanwhile, every slave's byte timeout has ended by then.
\* Mutant: it is not waited.
MasterFlushAtOnce ==
  /\ pc \in {"timedOut", "badData"}
  /\ IF SlavesIdle THEN UNCHANGED faults ELSE Fault("late")
  /\ pc' = "idle" /\ input' = [input EXCEPT ![Master] = <<>>]
  /\ UNCHANGED <<recovery, request, result, before, rx, job>>
MasterFlush ==
  /\ pc \in {"timedOut", "badData"}
  /\ IF SlavesIdle /\ (pc = "timedOut" => \A s \in Slaves : ~Begun(rx[s]))
       THEN UNCHANGED faults ELSE Fault("late")
  /\ pc' = "idle" /\ input' = [input EXCEPT ![Master] = <<>>]
  /\ UNCHANGED <<recovery, request, result, before, rx, job>>

-----------------------------------------------------------------------------
\* modbus_receive of a slave: a message whose checksum is wrong is dropped.
SlaveReceive(s) ==
  /\ job[s] = <<>> /\ input[s] # <<>>
  /\ LET got == Got(s, "indication") IN
       /\ input' = [input EXCEPT ![s] = Rest(s)]
       /\ rx' = [rx EXCEPT ![s] = IF TooLong(got) \/ Complete(got) THEN NewMessage ELSE got]
       /\ job' = [job EXCEPT ![s] = IF ~TooLong(got) /\ Complete(got) /\ CheckIntegrity(Vals(got.bytes))
                                      THEN got.bytes ELSE <<>>]
  /\ UNCHANGED <<recovery, pc, request, result, before, faults>>

\* The byte timeout: what has come of a message is dropped.
SlaveTimeout(s) ==
  /\ job[s] = <<>> /\ input[s] = <<>> /\ Begun(rx[s])
  /\ rx' = [rx EXCEPT ![s] = NewMessage]
  /\ UNCHANGED <<recovery, pc, request, result, before, input, job, faults>>

\* modbus_reply: the request is executed and answered, also if it was a broadcast.
SlaveReply(s) ==
  /\ job[s] # <<>>
  /\ job' = [job EXCEPT ![s] = <<>>]
  /\ \/ Filtered(s) /\ UNCHANGED <<input, faults>>
     \/ /\ Executing(s)
        /\ LET pdu    == SubSeq(Vals(job[s]), 2, Len(job[s]) - 2)
               answer == SendMsgPre(<<ByteAt(job[s], 0)>> \o AnswerPdu(pdu))
           IN Transmit(s, input, Bytes(answer, [from |-> s, now |-> job[s][1].by.now]))
  /\ UNCHANGED <<recovery, pc, request, result, before, rx>>

MasterNext == Call \/ MasterReceive \/ MasterTimeout \/ MasterFlush
Next == MasterNext \/ \E s \in Slaves : SlaveReceive(s) \/ SlaveTimeout(s) \/ SlaveReply(s)

Spec == BusInit /\ [][Next]_vars

-----------------------------------------------------------------------------
\* A call that returns a value or an exception has it from the slave it asked,
\* and in answer to the request it sent, unless an answer of before came late:
\* without a transaction identifier that one looks like its own.
Late == \E i \in DOMAIN faults : faults[i] = "late"
OwnAnswer == result.rc \in {"ok", "exception"} => Late \/ result.own

\* A slave executes what the master has sent it and nothing else it can hear: no
\* answer of another slave, and no piece of two messages, is taken for a request; and
\* while there is no fault, it is the request of the call that runs.
ExecutesRequests ==
  \A s \in Slaves : Executing(s) =>
    /\ \A i \in DOMAIN job[s] : job[s][i].by.from = Master
    /\ faults = <<>> => \E pdu \in Pdus : request = RequestTo(s, pdu) /\ job[s] = Asks(s, pdu)

\* A request may be lost because its slave still waits for the rest of another
\* slave's answer.  With the recovery of the link the silence after it brings the slave
\* back into step, so that the request of the next call is answered.
NeverTwice == "link" \in recovery /\ faults = <<>> => ~(before = "failed" /\ result.rc = "failed")
=============================================================================
