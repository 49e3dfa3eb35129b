-------------------------- MODULE ModbusConnection --------------------------
(***************************************************************************)
(* Descriptors: which numbers libmodbus keeps, and whose they are by the   *)
(* time it uses them.  A process has a client's context, a server's        *)
(* context with its listening socket, and files of its own; a number that  *)
(* has been closed is given to whoever opens something next.               *)
(***************************************************************************)
EXTENDS Integers

CONSTANTS
  Clients,      \* the clients there may be: records of a backend, "tcp", "tcp_pi" or
                \*   "rtu", and the error recovery modes, {} or {"link"}
  Retries,      \* whether the server's application accepts again after an error
  Descriptors   \* the numbers a process may have open; 0 is the standard input

ASSUME ConnectionAssumption ==
  /\ Clients \subseteq [backend : {"tcp", "tcp_pi", "rtu"}, recovery : SUBSET {"link"}]
  /\ Retries \in BOOLEAN /\ Descriptors \subseteq Nat /\ 0 \in Descriptors

VARIABLES
  client,      \* the client of this process
  owner,       \* owner[d]: whose descriptor d is: "client", "listener", "server",
               \*   "application" or "free"
  s,           \* the socket or device of the client's context, or -1
  connected,   \* whether the last modbus_connect has returned 0, with no modbus_close since
  inUse,       \* whether the application has been told so, and has not closed it
  listening,   \* the application's variable with the listening socket, or -1
  served,      \* the socket of the server's context, or -1
  serving,     \* whether a connection was accepted, and modbus_close was not called
  port,        \* the settings of the serial port: "original" or "raw"
  old_tios     \* those _modbus_rtu_connect has saved

clientVars == <<client, s, connected, inUse, port, old_tios>>
serverVars == <<listening, served, serving>>
vars       == <<owner, clientVars, serverVars>>

ConnectionInit ==
  /\ client \in Clients
  /\ owner = [d \in Descriptors |-> IF d = 0 THEN "application" ELSE "free"]
  /\ s = -1 /\ connected = FALSE /\ inUse = FALSE
  /\ listening = -1 /\ served = -1 /\ serving = FALSE
  /\ port = "original" /\ old_tios = "original"

-----------------------------------------------------------------------------
\* socket, accept and open give the lowest number that is free; close(2) frees a
\* number whoever has it, and does nothing for one that is not open.
Free(table) == {d \in Descriptors : table[d] = "free"}
Lowest(table) == CHOOSE d \in Free(table) : \A e \in Free(table) : d <= e
Opened(table, who) == [table EXCEPT ![Lowest(table)] = who]
Closed(table, d) == IF d \in Descriptors THEN [table EXCEPT ![d] = "free"] ELSE table

\* modbus_connect.  Each of these begins with the descriptors "table" and the
\* serial port in the settings "tios".
NoSocket(table) ==
  /\ owner' = table /\ s' = -1 /\ connected' = FALSE

Success(table) ==
  /\ Free(table) # {}
  /\ owner' = Opened(table, "client") /\ s' = Lowest(table) /\ connected' = TRUE

\* Mutant: the socket of a failed attempt stays open.
TcpConnectLeavesSocket(table) ==
  \/ NoSocket(table)
  \/ Free(table) # {} /\ owner' = Opened(table, "client") /\ s' = Lowest(table) /\ connected' = FALSE
  \/ Success(table)
\* Mutant: success is reported without a look at what connect has returned.
TcpConnectReturnsZero(table) ==
  \/ NoSocket(table)
  \/ Free(table) # {} /\ owner' = table /\ s' = Lowest(table) /\ connected' = TRUE
  \/ Success(table)
\* _modbus_tcp_connect: no socket; a socket that is closed again, of which the
\* context keeps the number; or a connection.
TcpConnect(table) ==
  \/ NoSocket(table)
  \/ Free(table) # {} /\ owner' = table /\ s' = Lowest(table) /\ connected' = FALSE
  \/ Success(table)

\* Mutant: the socket of an address that refuses stays open.
TcpPiConnectLeavesSocket(table) ==
  \/ owner' = table /\ s' = s /\ connected' = FALSE
  \/ Free(table) # {} /\ owner' = Opened(table, "client") /\ s' = s /\ connected' = (s >= 0)
  \/ Success(table)
\* _modbus_tcp_pi_connect: the address is not found; none of the addresses it
\* stands for can be connected to; or one can.
TcpPiConnect(table) ==
  \/ owner' = table /\ s' = s /\ connected' = FALSE
  \/ owner' = table /\ s' = s /\ connected' = (s >= 0)
  \/ Success(table)

\* _modbus_rtu_connect: the device cannot be opened, or not be set up; or it is
\* open, and its settings were saved.
\* Mutant: the device's number is kept when its settings were refused.
RtuConnectKeepsNumber(table, tios) ==
  \/ NoSocket(table) /\ port' = tios /\ UNCHANGED old_tios
  \/ Free(table) # {} /\ owner' = table /\ s' = Lowest(table) /\ connected' = FALSE
     /\ port' = tios /\ old_tios' = tios
  \/ Success(table) /\ port' = "raw" /\ old_tios' = tios
RtuConnect(table, tios) ==
  \/ NoSocket(table) /\ port' = tios /\ UNCHANGED old_tios
  \/ Free(table) # {} /\ NoSocket(table) /\ port' = tios /\ old_tios' = tios
  \/ Success(table) /\ port' = "raw" /\ old_tios' = tios

ModbusConnect(table, tios) ==
  \/ client.backend = "tcp" /\ TcpConnect(table) /\ port' = tios /\ UNCHANGED old_tios
  \/ client.backend = "tcp_pi" /\ TcpPiConnect(table) /\ port' = tios /\ UNCHANGED old_tios
  \/ client.backend = "rtu" /\ RtuConnect(table, tios)

\* What _modbus_rtu_close leaves of the port's settings: they are set back, if the
\* device is still the context's.
\* Mutant: the settings are not set back.
NotReverted == port
Reverted == IF client.backend = "rtu" /\ s \in Descriptors /\ owner[s] = "client" THEN old_tios ELSE port

-----------------------------------------------------------------------------
\* The client's application connects, again after a failure if it likes, and
\* closes a connection that was made.
Connect ==
  /\ ~inUse
  /\ ModbusConnect(owner, port) /\ inUse' = connected'
  /\ UNCHANGED <<client, serverVars>>

Close ==
  /\ inUse
  /\ owner' = Closed(owner, s) /\ connected' = FALSE /\ inUse' = FALSE
  /\ port' = Reverted
  /\ UNCHANGED <<client, s, old_tios, serverVars>>

\* The recovery of the link, in a call made while the connection is in use:
\* modbus_close and modbus_connect.  When that fails the call ends, and the next one
\* comes here again, whatever has happened to the number in between.
Recover ==
  /\ "link" \in client.recovery /\ inUse
  /\ ModbusConnect(Closed(owner, s), Reverted)
  /\ UNCHANGED <<client, inUse, serverVars>>

-----------------------------------------------------------------------------
\* modbus_tcp_listen and modbus_tcp_pi_listen: a failure closes the socket.
Listen ==
  /\ listening \in {-1, 0}
  /\ \/ listening' = -1 /\ UNCHANGED owner
     \/ /\ Free(owner) # {}
        /\ owner' = Opened(owner, "listener") /\ listening' = Lowest(owner)
  /\ UNCHANGED <<clientVars, served, serving>>

\* modbus_tcp_accept and modbus_tcp_pi_accept: an error closes the listening socket
\* and sets the application's variable to 0.
Accept ==
  /\ ~serving
  /\ listening > 0 \/ (listening = 0 /\ Retries)
  /\ \/ /\ owner[listening] = "listener" /\ Free(owner) # {}
        /\ owner' = Opened(owner, "server") /\ served' = Lowest(owner) /\ serving' = TRUE
        /\ UNCHANGED listening
     \/ /\ owner' = Closed(owner, listening) /\ listening' = 0
        /\ served' = -1 /\ UNCHANGED serving
  /\ UNCHANGED clientVars

\* modbus_close of the server's context.
ServerClose ==
  /\ serving
  /\ owner' = Closed(owner, served) /\ serving' = FALSE
  /\ UNCHANGED <<clientVars, listening, served>>

-----------------------------------------------------------------------------
\* The application opens and closes files of its own.
AppOpen ==
  /\ Free(owner) # {}
  /\ owner' = Opened(owner, "application")
  /\ UNCHANGED <<clientVars, serverVars>>

AppClose(d) ==
  /\ owner[d] = "application"
  /\ owner' = Closed(owner, d)
  /\ UNCHANGED <<clientVars, serverVars>>

Next == Connect \/ Close \/ Recover \/ Listen \/ Accept \/ ServerClose
          \/ AppOpen \/ \E d \in Descriptors \ {0} : AppClose(d)

Spec == ConnectionInit /\ [][Next]_vars

-----------------------------------------------------------------------------
\* Whether the context forgets a number when it closes it: that of the RTU backend
\* does; that of a TCP client keeps it, which harms nobody until it is used again:
\* by modbus_connect after an address that is not found, or by the recovery of the
\* link after a failed one.
Tracks(c) == c.backend = "rtu" \/ (c.backend = "tcp" /\ "link" \notin c.recovery)

\* After modbus_connect has returned 0 the context has an open socket of its own.
ConnectedMeansOpen ==
  connected /\ Tracks(client) => s \in Descriptors /\ owner[s] = "client"

\* No attempt to connect, to listen or to accept leaves a socket behind that no
\* one knows: each open one is that of a connection or the listening one.
NoSocketLeft ==
  \A d \in Descriptors :
    /\ owner[d] = "client" => connected /\ s = d
    /\ owner[d] = "listener" => listening = d
    /\ owner[d] = "server" => serving /\ served = d

\* libmodbus closes no descriptor that the application has opened for itself.
OthersUntouched ==
  [][\A d \in Descriptors :
       Tracks(client) /\ owner[d] = "application" /\ owner'[d] # "application"
         => AppClose(d) /\ d # 0]_vars

\* A serial port that is closed has its settings from before.
PortRestored == port = "raw" <=> connected /\ client.backend = "rtu"
=============================================================================
