--------------------------- MODULE ModbusSession ---------------------------
(***************************************************************************)
(* A libmodbus client that calls again and again over one TCP connection,  *)
(* byte by byte, with its two error recovery modes: what a timeout, bytes  *)
(* that come too late, or a broken connection leave behind in the stream   *)
(* for the calls that follow.                                              *)
(***************************************************************************)
EXTENDS ModbusReceive

CONSTANTS
  Modes,       \* the error recovery modes a client may set: subsets of {"link", "protocol"}
  Pdus,        \* the requests, from the function code on
  TidCount,    \* number of transaction identifiers: 2^16 in libmodbus
  MaxFaults,   \* bound: late bytes and broken connections, each counts
  MaxStream    \* bound: bytes of earlier calls that may be under way when one is made

\* Requests that read or write registers, as many as the server does not refuse.
PDU == {p \in Seq(0 .. 255) : /\ Len(p) >= 5 /\ p[1] \in {3, 6, 16}
                              /\ p[1] = 3 => p[4] = 0 /\ p[5] \in 1 .. 125
                              /\ p[1] = 16 => p[4] = 0 /\ p[5] \in 1 .. 123}

\* The lengths of modbus-tcp.h.
ASSUME TcpAssumption == adu_header = 7 /\ adu_checksum = 0 /\ adu_max = 260

ASSUME SessionAssumption ==
  /\ Modes \subseteq SUBSET {"link", "protocol"} /\ Modes # {}
  /\ Pdus \subseteq PDU
  /\ TidCount \in Nat \ {0} /\ TidCount <= 65536
  /\ MaxFaults \in Nat /\ MaxStream \in Nat

VARIABLES
  recovery, \* the error recovery modes of this client
  pc,       \* where the client is: "idle", "send", "receive" or "flush"
  tId,      \* the static transaction counter
  request,  \* the request of the call that runs, or was the last
  rx,       \* the answer as far as it has been received
  result,   \* what the last call has returned, and whether by its own answer
  link,     \* the connection: "up", "broken", or "closed" once sending has failed
  listening,  \* whether the server listens
  reqs,     \* requests on their way to the server, and in it
  wire,     \* bytes on their way to the client
  sock,     \* bytes that have arrived at the client's socket
  served,   \* history: how often the request of the call that runs was executed
  faults    \* faults so far

clientVars == <<pc, tId, request, rx, result>>
netVars    == <<link, listening, reqs, wire, sock, served>>
vars       == <<recovery, clientVars, netVars, faults>>

NoResult == [rc |-> "none", own |-> FALSE]
Ok       == {"ok", "exception"}

SessionInit ==
  /\ recovery \in Modes
  /\ pc = "idle" /\ tId = 0
  /\ request = [tid |-> 0, function |-> 0, nb |-> 0, pdu |-> <<>>]
  /\ rx = NewMessage /\ result = NoResult
  /\ link = "up" /\ listening = TRUE
  /\ reqs = <<>> /\ wire = <<>> /\ sock = <<>>
  /\ served = 0 /\ faults = 0

Fault == faults < MaxFaults /\ faults' = faults + 1
Quiet == reqs = <<>> /\ wire = <<>>

-----------------------------------------------------------------------------
\* The MBAP header: identifier, protocol 0, length (send_msg_pre), unit 255.
Word(n)       == <<n \div 256, n % 256>>
Adu(tid, pdu) == Word(tid) \o Word(0) \o Word(Len(pdu) + 1) \o <<255>> \o pdu

OwnAdu == Bytes(Adu(request.tid, AnswerPdu(request.pdu)), TRUE)

\* Bytes and requests of earlier calls are no call's own.
Aged(bytes) == [i \in DOMAIN bytes |-> [bytes[i] EXCEPT !.by = FALSE]]

-----------------------------------------------------------------------------
\* _modbus_tcp_build_request_basis counts from 0 again after its last identifier.
\* Mutant: it counts on.
NextTidUnbounded == tId + 1
NextTid == IF tId < TidCount - 1 THEN tId + 1 ELSE 0

\* A call builds its request.
Call ==
  /\ pc = "idle"
  /\ 12 * Len(reqs) + Len(wire) + Len(sock) <= MaxStream   \* a request has 12 bytes
  /\ \E pdu \in Pdus :
       /\ tId' = NextTid
       /\ request' = [tid |-> tId', function |-> pdu[1], nb |-> 256 * pdu[4] + pdu[5], pdu |-> pdu]
  /\ pc' = "send" /\ result' = NoResult /\ served' = 0
  /\ reqs' = [i \in DOMAIN reqs |-> [reqs[i] EXCEPT !.own = FALSE]]
  /\ wire' = Aged(wire) /\ sock' = Aged(sock)
  /\ UNCHANGED <<rx, link, listening, faults>>

\* send_msg: the request is sent, perhaps into a connection that is gone.
Send ==
  /\ pc = "send" /\ link # "closed"
  /\ pc' = "receive" /\ rx' = NewMessage
  /\ reqs' = IF link = "up" THEN Append(reqs, [tid |-> request.tid, pdu |-> request.pdu, own |-> TRUE])
                            ELSE reqs
  /\ UNCHANGED <<tId, request, result, link, listening, wire, sock, served, faults>>

Fail(next) == pc' = next /\ result' = [rc |-> "failed", own |-> FALSE]

\* modbus_close and modbus_connect, which may fail: what was in the old
\* connection is gone.
Reconnect ==
  /\ link' = IF listening THEN "up" ELSE "closed"
  /\ reqs' = <<>> /\ wire' = <<>> /\ sock' = <<>>

\* send fails.  With the recovery of the link it is tried until it succeeds.
SendFails ==
  /\ pc = "send" /\ link # "up"
  /\ IF "link" \in recovery
       THEN Reconnect /\ UNCHANGED <<pc, result>>
       ELSE Fail("idle") /\ link' = "closed" /\ UNCHANGED <<reqs, wire, sock>>
  /\ UNCHANGED <<tId, request, rx, listening, served, faults>>

\* The application closes the connection and makes a new one after a failure.
Reopen ==
  /\ pc = "idle" /\ result.rc = "failed"
  /\ Reconnect
  /\ UNCHANGED <<clientVars, listening, served, faults>>

-----------------------------------------------------------------------------
\* Mutant: the transaction identifier is not compared.
CheckedAnyTid(bytes) ==
  LET c == Confirmation(request, bytes, request.tid) IN
    IF c.errno = "EMBBADDATA"
      THEN Fail(IF "protocol" \in recovery THEN "flush" ELSE "idle")
      ELSE /\ pc' = "idle"
           /\ result' = [rc |-> IF c.rc = -1 THEN "exception" ELSE "ok", own |-> bytes = OwnAdu]

\* What the caller gets for a complete message.  An exception is an answer; for
\* all else check_confirmation calls _sleep_and_flush, if that mode is set.
Checked(bytes) ==
  LET c == Confirmation(request, bytes, WordAt(bytes, 0)) IN
    IF c.errno = "EMBBADDATA"
      THEN Fail(IF "protocol" \in recovery THEN "flush" ELSE "idle")
      ELSE /\ pc' = "idle"
           /\ result' = [rc |-> IF c.rc = -1 THEN "exception" ELSE "ok", own |-> bytes = OwnAdu]

\* receive_msg: a recv.  A message that would be too long is given up as it
\* stands, in every mode.
Receive ==
  /\ pc = "receive" /\ sock # <<>>
  /\ LET n   == Taken(rx, Len(sock))
         got == Read(rx, SubSeq(sock, 1, n), "confirmation")
     IN /\ sock' = SubSeq(sock, n + 1, Len(sock))
        /\ rx' = IF TooLong(got) \/ Complete(got) THEN NewMessage ELSE got
        /\ \/ TooLong(got) /\ Fail("idle")
           \/ Complete(got) /\ Checked(got.bytes)
           \/ ~TooLong(got) /\ ~Complete(got) /\ UNCHANGED <<pc, result>>
  /\ UNCHANGED <<tId, request, link, listening, reqs, wire, served, faults>>

\* receive_msg: recv finds the connection closed or reset.
ReceiveEnd ==
  /\ pc = "receive" /\ sock = <<>> /\ link # "up"
  /\ Fail("idle") /\ rx' = NewMessage
  /\ IF "link" \in recovery THEN Reconnect ELSE UNCHANGED <<link, reqs, wire, sock>>
  /\ UNCHANGED <<tId, request, listening, served, faults>>

\* Mutant: a request without an answer is sent again.
TimeoutSendsAgain ==
  /\ pc = "receive" /\ sock = <<>> /\ link = "up"
  /\ IF Quiet THEN UNCHANGED faults ELSE Fault
  /\ pc' = "send" /\ rx' = NewMessage
  /\ UNCHANGED <<tId, request, result, netVars>>

\* receive_msg: select has waited for the response timeout, or after the first
\* bytes for the byte timeout.  While something is still on its way that is late.
Timeout ==
  /\ pc = "receive" /\ sock = <<>> /\ link = "up"
  /\ IF Quiet THEN UNCHANGED faults ELSE Fault
  /\ Fail(IF "link" \in recovery THEN "flush" ELSE "idle") /\ rx' = NewMessage
  /\ UNCHANGED <<tId, request, netVars>>

\* Mutant: the socket is not emptied.
FlushNothing ==
  /\ pc = "flush"
  /\ IF Quiet THEN UNCHANGED faults ELSE Fault
  /\ pc' = "idle"
  /\ UNCHANGED <<tId, request, rx, result, netVars>>

\* _sleep_and_flush: the socket is emptied when the response timeout has passed
\* once more; what comes later than that stays.
Flush ==
  /\ pc = "flush"
  /\ IF Quiet THEN UNCHANGED faults ELSE Fault
  /\ pc' = "idle" /\ sock' = <<>>
  /\ UNCHANGED <<tId, request, rx, result, link, listening, reqs, wire, served>>

-----------------------------------------------------------------------------
\* The server executes a request and answers it.
Serve ==
  /\ reqs # <<>>
  /\ reqs' = Tail(reqs)
  /\ wire' = wire \o Bytes(Adu(Head(reqs).tid, AnswerPdu(Head(reqs).pdu)), Head(reqs).own)
  /\ served' = served + IF Head(reqs).own THEN 1 ELSE 0
  /\ UNCHANGED <<clientVars, link, listening, sock, faults>>

\* The network hands over as many bytes as it likes.
Arrive ==
  /\ \E n \in 1 .. Len(wire) : /\ sock' = sock \o SubSeq(wire, 1, n)
                               /\ wire' = SubSeq(wire, n + 1, Len(wire))
  /\ UNCHANGED <<clientVars, link, listening, reqs, served, faults>>

\* The connection breaks: bytes that have not arrived, and requests the server
\* has not read, are lost.
Break ==
  /\ link = "up" /\ Fault
  /\ link' = "broken" /\ listening' \in BOOLEAN
  /\ reqs' = <<>> /\ wire' = <<>>
  /\ UNCHANGED <<clientVars, sock, served>>

\* The server listens again.
Restore ==
  /\ ~listening /\ listening' = TRUE
  /\ UNCHANGED <<clientVars, link, reqs, wire, sock, served, faults>>

Client == Call \/ Send \/ SendFails \/ Receive \/ ReceiveEnd \/ Timeout \/ Flush
Net    == Serve \/ Arrive \/ Restore
Next   == (Client \/ Net \/ Reopen \/ Break) /\ UNCHANGED recovery

Spec == SessionInit /\ [][Next]_vars

\* A call that has been made goes on, and so do the server and the network; and
\* the application calls again and again.
FairSpec == /\ Spec
            /\ WF_vars(Client /\ UNCHANGED recovery) /\ WF_vars(Serve /\ UNCHANGED recovery)
            /\ WF_vars(Arrive /\ UNCHANGED recovery) /\ WF_vars(Restore /\ UNCHANGED recovery)

-----------------------------------------------------------------------------
TypeOK ==
  /\ recovery \in Modes
  /\ pc \in {"idle", "send", "receive", "flush"}
  /\ tId \in 0 .. TidCount - 1
  /\ request.tid \in 0 .. TidCount - 1 /\ request.pdu \in Pdus \cup {<<>>}
  /\ rx.step \in {"function", "meta", "data"} /\ Len(rx.bytes) <= adu_max
  /\ result.rc \in {"none", "failed"} \cup Ok /\ result.own \in BOOLEAN
  /\ link \in {"up", "broken", "closed"} /\ listening \in BOOLEAN
  /\ \A b \in {wire[i] : i \in DOMAIN wire} \cup {sock[i] : i \in DOMAIN sock} :
        b \in [val : 0 .. 255, by : BOOLEAN]
  /\ served \in 0 .. 2 /\ faults \in 0 .. MaxFaults

\* A call that returns a value or an exception has it from its own answer, from
\* the first byte to the last: neither an answer that came late, nor the rest of
\* one of which the first part was given up, is taken for it.
OwnAnswer == result.rc \in Ok => result.own

\* Nothing but bytes of earlier calls can mislead a call: as long as only bytes of
\* its own answer have reached the client, receive_msg goes on waiting for the rest
\* of it, in whatever pieces it comes, and check_confirmation takes the whole of it
\* for the answer; neither finds a byte too many or bad data.
AllOwn(bytes) == \A i \in DOMAIN bytes : bytes[i].by
OwnBytesAnswer ==
  [][Receive /\ AllOwn(rx.bytes \o sock) => \/ pc' = "receive"
                                            \/ result'.rc \in Ok /\ result'.own]_vars

\* No call's request is executed twice: with the recovery of the link a request
\* is sent again, but only one of which nothing has been sent.
ExecutedOnce == served <= 1

\* A message that is being received never grows over the buffer.
Byte == [val : 0 .. 255, by : BOOLEAN]
Fitting(m) ==
  /\ m \in [bytes : Seq(Byte), step : {"function", "meta", "data"}, length_to_read : Nat]
  /\ m.step = "function" => Len(m.bytes) + m.length_to_read = adu_header + 1
  /\ m.step = "meta" => Len(m.bytes) + m.length_to_read <= adu_header + 5
  /\ m.step = "data" => Len(m.bytes) + m.length_to_read <= adu_max
StreamInv ==
  /\ reqs \in Seq([tid : 0 .. TidCount - 1, pdu : Pdus, own : BOOLEAN])
  /\ wire \in Seq(Byte) /\ sock \in Seq(Byte)
  /\ Fitting(rx)

\* The request of the call that runs is on its way, or executed, or neither.
OwnOne ==
  /\ \A i, j \in 1 .. Len(reqs) : reqs[i].own /\ reqs[j].own => i = j
  /\ served # 0 \/ pc = "send" => \A i \in 1 .. Len(reqs) : ~reqs[i].own
  /\ pc = "send" => served = 0 /\ request.pdu \in Pdus

\* What is known of the length of a message from its function code on.
FrameLength(bytes) == 8 + Meta(bytes, "confirmation") + Data(bytes, "confirmation")
Framed(m) ==
  m.step # "function" =>
    /\ Len(m.bytes) >= 8
    /\ m.step = "meta" => Len(m.bytes) + m.length_to_read = 8 + Meta(m.bytes, "confirmation")
    /\ m.step = "data" => /\ Len(m.bytes) >= 8 + Meta(m.bytes, "confirmation")
                          /\ Len(m.bytes) + m.length_to_read = FrameLength(m.bytes)

\* The bytes of a call stand behind those of earlier calls, and are its answer
\* from the first byte on: all of it, or what a broken connection has left of it.
Old(bytes) == \A i \in 1 .. Len(bytes) : ~bytes[i].by
OldThenOwn(bytes, own) ==
  \E k \in 0 .. Len(bytes) : /\ Len(bytes) <= k + Len(own)
                             /\ \A i \in 1 .. k : ~bytes[i].by
                             /\ \A i \in k + 1 .. Len(bytes) : bytes[i] = own[i - k]
Stream == (rx.bytes \o sock) \o wire

Asks(q, pdu) == q.function = pdu[1] /\ q.nb = 256 * pdu[4] + pdu[5]
AskedInv ==
  pc \in {"send", "receive"} =>
    result = NoResult /\ request.pdu \in Pdus /\ Asks(request, request.pdu)
QueueInv ==
  pc = "receive" => \A i \in 1 .. Len(reqs) : reqs[i].own =>
    i = Len(reqs) /\ reqs[i].tid = request.tid /\ reqs[i].pdu = request.pdu
OrderInv ==
  /\ pc = "send" => Old(sock) /\ Old(wire)
  /\ pc = "receive" /\ served = 0 => Old(Stream)
  /\ pc = "receive" /\ served # 0 => reqs = <<>> /\ OldThenOwn(Stream, OwnAdu)

\* The inductive invariant behind TypeOK, ExecutedOnce and OwnBytesAnswer.
SessionInv == /\ TypeOK /\ StreamInv /\ OwnOne /\ ExecutedOnce
              /\ AskedInv /\ QueueInv /\ OrderInv /\ Framed(rx)

\* With both modes, the calls succeed again some time after the last fault: what
\* is left in the stream does not put client and server out of step for good,
\* unless the application asks again and again for what the server refuses.
Refused(q) == q.pdu # <<>> /\ AnswerPdu(q.pdu)[1] >= 128
BackInStep == \/ <>[](recovery = {"link", "protocol"} => result.rc # "failed")
              \/ []<>Refused(request)
=============================================================================
