------------------------- MODULE ModbusTransaction -------------------------
(***************************************************************************)
(* A libmodbus client and a libmodbus server, and the connection between   *)
(* them.                                                                   *)
(***************************************************************************)
EXTENDS ModbusClient, ModbusServer

CONSTANT MaxCalls   \* bound: calls in a behaviour

ASSUME MaxCallsAssumption == MaxCalls \in Nat

VARIABLES
  made,    \* number of calls made
  before   \* history: the tables as the last call that has returned left them

vars == <<req, rsp, clientVars, tabs, made, before>>

Init == ClientInit /\ ServerInit /\ made = 0 /\ before = tabs

Ask == made < MaxCalls /\ Invoke /\ made' = made + 1 /\ UNCHANGED <<tabs, before>>

\* The server receives the whole request, and replies.
Received == RequestBytes(req) = req.len /\ req.len <= max_adu_length
Serve  == Received /\ Reply /\ UNCHANGED <<clientVars, made, before>>
Refuse == Received /\ ReplyException /\ UNCHANGED <<clientVars, made, before>>

Return == Confirm /\ before' = tabs /\ UNCHANGED <<tabs, made>>
GiveUp == TimedOut /\ before' = tabs /\ UNCHANGED <<tabs, made>>

Next == Ask \/ Serve \/ Refuse \/ Return \/ GiveUp

Spec == Init /\ [][Next]_vars

-----------------------------------------------------------------------------
\* The two ends agree on where every message ends, and no message is longer than
\* the buffers: what receive_msg computes from the function code and the byte
\* count is what the other end has written.  Otherwise the rest of a message
\* would be taken for the beginning of the next.
FramesAgree ==
  /\ req # NoMsg => RequestBytes(req) = req.len /\ req.len <= max_adu_length
  /\ rsp # NoMsg => AnswerBytes(rsp) = rsp.len /\ rsp.len <= max_adu_length

\* Client, server and wire together are what a program may take the calls for.
Tables == INSTANCE DataTables WITH tabs <- before
ImplementsTables == Tables!TablesSpec

-----------------------------------------------------------------------------
\* Tables and calls as a program has them: a bit is 0 or 1, a call that writes is
\* given as many values as its number says, and a single value fits a register.
RegisterValues == {v \in Nat : v < 65536}
BitTable       == Seq({0, 1})
ServerTabs     == [bits : BitTable, input_bits : BitTable,
                   registers : Seq(Int), input_registers : Seq(Int)]
ProperCall(c) ==
  /\ c.fn \in Tables!Writes => Len(c.src) = c.nb
  /\ c.fn \in {"write_bit", "write_register"} => c.nb = 1
  /\ c.fn \in {"write_bit", "write_bits"} => c.src \in BitTable
  /\ c.fn = "write_register" => c.src[1] \in RegisterValues
ProperUse == InitTabs \subseteq ServerTabs /\ \A c \in Calls : ProperCall(c)

\* What the call will return by the answer that is on the connection.
Outcome(c) == Deliver(c, rsp, CheckConfirmation(sent, rsp))

\* The request was obeyed, and the client will see it; or it was not, and the client
\* will return -1.
Obeyed(c) ==
  /\ Tables!Legal(c) /\ tabs = Tables!Written(c)
  /\ Outcome(c) = Result(Tables!Count(c), "none", Tables!Values(c))
Refused(c) ==
  /\ tabs = before /\ Outcome(c).rc = -1
  /\ Tables!Legal(c) => \/ Outcome(c).errno = "EMBXSBUSY"
                        \/ c.fn = "report_slave_id" /\ Outcome(c).errno = "EMBBADDATA"

\* The inductive invariant behind ImplementsTables: nothing or one message is on the
\* connection, the request of the call that runs, or an answer that tells the client
\* what has become of the tables.
TransactionInv ==
  /\ tabs \in ServerTabs
  /\ call = NoCall => req = NoMsg /\ rsp = NoMsg
  /\ call # NoCall => /\ call \in Calls /\ ~TooMany(call)
                      /\ sent = [Request(call) EXCEPT !.tid = sent.tid]
  /\ req # NoMsg => req = sent /\ rsp = NoMsg
  /\ rsp = NoMsg => /\ tabs = before
                    /\ call # NoCall /\ req = NoMsg => call.fn = "raw"
  /\ rsp # NoMsg => IF call.fn = "raw" THEN tabs = before ELSE Obeyed(call) \/ Refused(call)
=============================================================================
