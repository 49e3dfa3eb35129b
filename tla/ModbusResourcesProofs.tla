----------------------- MODULE ModbusResourcesProofs ------------------------
(***************************************************************************)
(* What libmodbus takes from the system, it gives back: proofs about       *)
(* ModbusConnection, for any number of descriptors, and ModbusMemory, for  *)
(* any number of mappings, contexts, blocks and attempts.                  *)
(***************************************************************************)
EXTENDS ModbusConnection, ModbusMemory, WellFoundedInduction, FiniteSetTheorems, TLAPS

-----------------------------------------------------------------------------
(* The descriptors: the clients that keep no number of one they have lost,   *)
(* and an application that does not accept again after an error.             *)

Tracking == Retries = FALSE /\ \A c \in Clients : Tracks(c)

Owners == {"client", "listener", "server", "application", "free"}

ConnectionTypeOK ==
  /\ client \in Clients
  /\ owner \in [Descriptors -> Owners]
  /\ s \in Descriptors \union {-1}
  /\ connected \in BOOLEAN /\ inUse \in BOOLEAN /\ serving \in BOOLEAN
  /\ listening \in Nat \union {-1}

\* Each number that is kept for a descriptor in use is that of an own open
\* descriptor, and 0 is none of them.
OwnNumbers ==
  /\ connected => inUse
  /\ inUse /\ ~connected => s = -1
  /\ listening > 0 => listening \in Descriptors /\ owner[listening] = "listener"
  /\ serving => served \in Descriptors /\ owner[served] = "server"
  /\ owner[0] = "application"

\* What is saved while the port is raw are the settings from before.
SavedSettings == port # "raw" => port = "original"
SavedOriginal == connected /\ client.backend = "rtu" => old_tios = "original"

ConnectionInv == ConnectionTypeOK /\ OwnNumbers /\ ConnectedMeansOpen /\ NoSocketLeft
                 /\ PortRestored /\ SavedSettings /\ SavedOriginal

-----------------------------------------------------------------------------
\* A set of numbers that is not empty has a least one.
LEMMA Least ==
  ASSUME NEW T, T \subseteq Nat, T # {}
  PROVE  \E x \in T : \A y \in T : x <= y
<1> DEFINE R == {ss \in Nat \X Nat : ss[1] < ss[2]}
<1>1. IsWellFoundedOn(R, Nat)
  BY NatLessThanWellFounded, Zenon DEF OpToRel
<1>2. PICK x \in T : \A y \in T : ~ (<<y, x>> \in R)
  <2> HIDE DEF R
  <2> QED BY <1>1, WFMin
<1>3. \A y \in T : ~ (y < x)
  BY <1>2
<1> QED BY <1>3

\* Opening takes a descriptor that was free, and no other.
LEMMA OpenedOne ==
  ASSUME NEW table \in [Descriptors -> Owners], Free(table) # {}, NEW who \in Owners
  PROVE  /\ Lowest(table) \in Descriptors /\ table[Lowest(table)] = "free"
         /\ Opened(table, who) \in [Descriptors -> Owners]
         /\ Opened(table, who)[Lowest(table)] = who
         /\ \A d \in Descriptors : d # Lowest(table) => Opened(table, who)[d] = table[d]
<1>1. Free(table) \subseteq Nat
  BY ConnectionAssumption DEF Free
<1>2. \E x \in Free(table) : \A y \in Free(table) : x <= y
  BY <1>1, Least
<1>3. Lowest(table) \in Free(table)
  BY <1>2 DEF Lowest
<1>4. Lowest(table) \in Descriptors /\ table[Lowest(table)] = "free"
  BY <1>3 DEF Free
<1> QED BY <1>4 DEF Opened

\* Closing frees the one descriptor.
LEMMA ClosedOne ==
  ASSUME NEW table \in [Descriptors -> Owners], NEW d \in Descriptors
  PROVE  /\ Closed(table, d) \in [Descriptors -> Owners]
         /\ Closed(table, d)[d] = "free"
         /\ \A e \in Descriptors : e # d => Closed(table, d)[e] = table[e]
  BY DEF Closed, Owners

\* No step but its own takes a descriptor from the application.
Mine == \A d \in Descriptors :
          owner[d] = "application" /\ owner'[d] # "application" => AppClose(d) /\ d # 0

LEMMA InitConnection == Tracking /\ ConnectionInit => ConnectionInv
<1> SUFFICES ASSUME Tracking, ConnectionInit PROVE ConnectionInv
  OBVIOUS
<1>1. 0 \in Descriptors /\ Descriptors \subseteq Nat
  BY ConnectionAssumption
<1>2. ConnectionTypeOK /\ OwnNumbers
  <2>1. owner \in [Descriptors -> Owners] /\ owner[0] = "application"
    BY <1>1 DEF ConnectionInit, Owners
  <2>2. /\ client \in Clients /\ s = -1 /\ connected = FALSE /\ inUse = FALSE
        /\ listening = -1 /\ serving = FALSE
    BY DEF ConnectionInit
  <2>3. ConnectionTypeOK
    BY <2>1, <2>2 DEF ConnectionTypeOK
  <2>4. ~ (listening > 0)
    BY <2>2
  <2>5. ~serving /\ ~inUse /\ ~connected
    BY <2>2, Zenon
  <2>6. OwnNumbers
    BY <2>1, <2>4, <2>5 DEF OwnNumbers
  <2> QED BY <2>3, <2>6
<1>3. ConnectedMeansOpen /\ NoSocketLeft
  BY <1>1 DEF ConnectionInit, ConnectedMeansOpen, NoSocketLeft
<1>4. PortRestored /\ SavedSettings /\ SavedOriginal
  BY DEF ConnectionInit, PortRestored, SavedSettings, SavedOriginal
<1> QED BY <1>2, <1>3, <1>4 DEF ConnectionInv

\* modbus_connect when the context has no open descriptor: on success it owns the
\* one new descriptor, otherwise no descriptor has changed hands.
LEMMA AttemptKeeps ==
  ASSUME Tracking, ConnectionInv, NEW table \in [Descriptors -> Owners],
         \A d \in Descriptors : table[d] # "client",
         \A d \in Descriptors :
            table[d] = owner[d] \/ (owner[d] = "client" /\ table[d] = "free"),
         ModbusConnect(table, "original"), UNCHANGED <<client, serverVars>>,
         connected' \in BOOLEAN => inUse' \in BOOLEAN, connected' => inUse',
         inUse' /\ ~connected' => client.backend = "rtu"
  PROVE  ConnectionInv' /\ Mine
<1>0. /\ owner \in [Descriptors -> Owners] /\ "client" \in Owners /\ 0 \in Descriptors
      /\ client \in Clients /\ Tracks(client)
  BY ConnectionAssumption DEF ConnectionInv, ConnectionTypeOK, Owners, Tracking
<1>1. \/ /\ owner' = table /\ ~connected' /\ connected' \in BOOLEAN
         /\ s' = -1 \/ (client.backend = "tcp" /\ Free(table) # {} /\ s' = Lowest(table))
         /\ port' = "original"
      \/ /\ Success(table)
         /\ IF client.backend = "rtu" THEN port' = "raw" /\ old_tios' = "original"
                                      ELSE port' = "original"
  BY <1>0 DEF ModbusConnect, TcpConnect, RtuConnect, NoSocket, Success, Tracks
<1>2. CASE /\ owner' = table /\ ~connected' /\ connected' \in BOOLEAN
           /\ s' = -1 \/ (client.backend = "tcp" /\ Free(table) # {} /\ s' = Lowest(table))
           /\ port' = "original"
  <2>1. s' \in Descriptors \union {-1}
    BY <1>0, <1>2, OpenedOne
  <2>2. ConnectionTypeOK'
    BY <1>2, <2>1 DEF ConnectionInv, ConnectionTypeOK, serverVars
  <2>3. OwnNumbers'
    BY <1>0, <1>2 DEF ConnectionInv, OwnNumbers, serverVars
  <2>4. ConnectedMeansOpen' /\ NoSocketLeft'
    <3>1. ConnectedMeansOpen'
      BY <1>2 DEF ConnectedMeansOpen
    <3>2. NoSocketLeft'
      BY <1>2 DEF ConnectionInv, NoSocketLeft, serverVars
    <3> QED BY <3>1, <3>2
  <2>5. PortRestored' /\ SavedSettings' /\ SavedOriginal'
    BY <1>2 DEF PortRestored, SavedSettings, SavedOriginal
  <2>6. Mine
    BY <1>2 DEF Mine
  <2> QED BY <2>2, <2>3, <2>4, <2>5, <2>6 DEF ConnectionInv
<1>3. CASE /\ Success(table)
           /\ IF client.backend = "rtu" THEN port' = "raw" /\ old_tios' = "original"
                                        ELSE port' = "original"
  <2> DEFINE l == Lowest(table)
  <2>1. /\ l \in Descriptors /\ table[l] = "free" /\ owner' \in [Descriptors -> Owners]
        /\ owner'[l] = "client" /\ s' = l /\ connected' = TRUE
        /\ \A d \in Descriptors : d # l => owner'[d] = table[d]
    BY <1>0, <1>3, OpenedOne DEF Success
  <2> HIDE DEF l
  <2>2. ConnectionTypeOK'
    BY <2>1 DEF ConnectionInv, ConnectionTypeOK, serverVars
  <2>3. OwnNumbers'
    BY <1>0, <2>1 DEF ConnectionInv, OwnNumbers, serverVars
  <2>4. ConnectedMeansOpen' /\ NoSocketLeft'
    <3>1. ConnectedMeansOpen'
      BY <2>1 DEF ConnectedMeansOpen
    <3>2. NoSocketLeft'
      BY <2>1 DEF ConnectionInv, NoSocketLeft, serverVars
    <3> QED BY <3>1, <3>2
  <2>5. PortRestored' /\ SavedSettings' /\ SavedOriginal'
    BY <1>3, <2>1 DEF PortRestored, SavedSettings, SavedOriginal
  <2>6. Mine
    BY <2>1 DEF Mine
  <2> QED BY <2>2, <2>3, <2>4, <2>5, <2>6 DEF ConnectionInv
<1> QED BY <1>1, <1>2, <1>3

\* The application connects.
LEMMA ConnectKeeps ==
  ASSUME Tracking, ConnectionInv, Connect
  PROVE  ConnectionInv' /\ Mine
<1>1. owner \in [Descriptors -> Owners] /\ ~connected /\ port = "original"
  BY DEF Connect, ConnectionInv, ConnectionTypeOK, OwnNumbers, PortRestored, SavedSettings
<1>2. \A d \in Descriptors : owner[d] # "client"
  BY <1>1 DEF ConnectionInv, NoSocketLeft
<1>3. /\ ModbusConnect(owner, "original") /\ inUse' = connected'
      /\ UNCHANGED <<client, serverVars>>
  BY <1>1 DEF Connect
<1> QED BY <1>1, <1>2, <1>3, AttemptKeeps

\* The descriptors and the settings of the port after modbus_close: the context's
\* own descriptor is closed, if it has one, and its port is set back.
LEMMA AfterClose ==
  ASSUME Tracking, ConnectionInv, inUse
  PROVE  /\ Closed(owner, s) \in [Descriptors -> Owners]
         /\ \A d \in Descriptors : Closed(owner, s)[d] # "client"
         /\ \A d \in Descriptors : \/ Closed(owner, s)[d] = owner[d]
                                   \/ owner[d] = "client" /\ Closed(owner, s)[d] = "free"
         /\ Reverted = "original"
<1>0. owner \in [Descriptors -> Owners] /\ Descriptors \subseteq Nat /\ Tracks(client)
  BY ConnectionAssumption DEF ConnectionInv, ConnectionTypeOK, Tracking
<1>1. CASE connected
  <2>1. s \in Descriptors /\ owner[s] = "client"
    BY <1>0, <1>1 DEF ConnectionInv, ConnectedMeansOpen
  <2>2. \A d \in Descriptors : d # s => owner[d] # "client"
    BY DEF ConnectionInv, NoSocketLeft
  <2>3. Reverted = "original"
    BY <1>1, <2>1 DEF Reverted, ConnectionInv, SavedOriginal, PortRestored, SavedSettings
  <2> QED BY <1>0, <2>1, <2>2, <2>3, ClosedOne
<1>2. CASE ~connected
  <2>1. s = -1 /\ ~ (s \in Descriptors)
    BY <1>0, <1>2 DEF ConnectionInv, OwnNumbers
  <2>2. Closed(owner, s) = owner /\ Reverted = port
    BY <2>1 DEF Closed, Reverted
  <2>3. port = "original" /\ \A d \in Descriptors : owner[d] # "client"
    BY <1>2 DEF ConnectionInv, PortRestored, SavedSettings, NoSocketLeft
  <2> QED BY <1>0, <2>2, <2>3
<1> QED BY <1>1, <1>2

\* The recovery of the link closes and connects again; of the clients that may, only
\* that of the RTU backend has it.
LEMMA RecoverKeeps ==
  ASSUME Tracking, ConnectionInv, Recover
  PROVE  ConnectionInv' /\ Mine
<1>1. client.backend = "rtu"
  BY DEF Recover, Tracking, Tracks, ConnectionInv, ConnectionTypeOK
<1>2. /\ ModbusConnect(Closed(owner, s), "original") /\ inUse /\ inUse' = inUse
      /\ UNCHANGED <<client, serverVars>>
  BY AfterClose DEF Recover
<1>3. inUse' \in BOOLEAN
  BY <1>2 DEF ConnectionInv, ConnectionTypeOK
<1> QED BY <1>1, <1>2, <1>3, AfterClose, AttemptKeeps

\* modbus_close.
LEMMA CloseKeeps ==
  ASSUME Tracking, ConnectionInv, Close
  PROVE  ConnectionInv' /\ Mine
<1>1. /\ owner' \in [Descriptors -> Owners] /\ port' = "original"
      /\ \A d \in Descriptors : owner'[d] # "client"
      /\ \A d \in Descriptors : \/ owner'[d] = owner[d]
                                \/ owner[d] = "client" /\ owner'[d] = "free"
  BY AfterClose DEF Close
<1>2. connected' = FALSE /\ inUse' = FALSE /\ UNCHANGED <<client, s, old_tios, serverVars>>
  BY DEF Close
<1>3. ConnectionTypeOK'
  BY <1>1, <1>2 DEF ConnectionInv, ConnectionTypeOK, serverVars
<1>4. OwnNumbers'
  BY <1>1, <1>2, ConnectionAssumption DEF ConnectionInv, OwnNumbers, serverVars
<1>5. ConnectedMeansOpen' /\ NoSocketLeft'
  <2>1. ConnectedMeansOpen'
    BY <1>2 DEF ConnectedMeansOpen
  <2>2. NoSocketLeft'
    BY <1>1, <1>2 DEF ConnectionInv, NoSocketLeft, serverVars
  <2> QED BY <2>1, <2>2
<1>6. PortRestored' /\ SavedSettings' /\ SavedOriginal'
  BY <1>1, <1>2 DEF PortRestored, SavedSettings, SavedOriginal
<1>7. Mine
  BY <1>1 DEF Mine
<1> QED BY <1>3, <1>4, <1>5, <1>6, <1>7 DEF ConnectionInv

\* What a step of the server's end or of the application, which takes one free
\* descriptor or frees one of its own, leaves of the client's.
LEMMA ClientUndisturbed ==
  ASSUME ConnectionInv, UNCHANGED clientVars,
         \A d \in Descriptors : \/ owner'[d] = owner[d]
                                \/ owner[d] # "client" /\ owner'[d] # "client"
  PROVE  ConnectedMeansOpen' /\ PortRestored' /\ SavedSettings' /\ SavedOriginal'
  BY DEF clientVars, ConnectionInv, ConnectedMeansOpen, PortRestored, SavedSettings, SavedOriginal

\* modbus_tcp_listen: no socket, or the listening one.
LEMMA ListenKeeps ==
  ASSUME Tracking, ConnectionInv, Listen
  PROVE  ConnectionInv' /\ Mine
<1>0. /\ owner \in [Descriptors -> Owners] /\ "listener" \in Owners
      /\ 0 \in Descriptors /\ Descriptors \subseteq Nat /\ owner[0] = "application"
  BY ConnectionAssumption DEF ConnectionInv, ConnectionTypeOK, OwnNumbers, Owners
<1>1. UNCHANGED <<clientVars, served, serving>> /\ listening \in {-1, 0}
  BY DEF Listen
<1>2. \A d \in Descriptors : owner[d] # "listener"
  BY <1>0, <1>1 DEF ConnectionInv, NoSocketLeft
<1>3. CASE listening' = -1 /\ UNCHANGED owner
  <2>1. ConnectionTypeOK' /\ OwnNumbers'
    BY <1>1, <1>3 DEF ConnectionInv, ConnectionTypeOK, OwnNumbers, clientVars
  <2>2. NoSocketLeft'
    BY <1>1, <1>2, <1>3 DEF ConnectionInv, NoSocketLeft, clientVars
  <2> QED BY <1>1, <1>3, <2>1, <2>2, ClientUndisturbed DEF ConnectionInv, Mine
<1>4. CASE Free(owner) # {} /\ owner' = Opened(owner, "listener") /\ listening' = Lowest(owner)
  <2> DEFINE l == Lowest(owner)
  <2>1. /\ l \in Descriptors /\ owner[l] = "free" /\ owner' \in [Descriptors -> Owners]
        /\ owner'[l] = "listener" /\ listening' = l
        /\ \A d \in Descriptors : d # l => owner'[d] = owner[d]
    BY <1>0, <1>4, OpenedOne
  <2> HIDE DEF l
  <2>2. ConnectionTypeOK'
    BY <1>0, <1>1, <2>1 DEF ConnectionInv, ConnectionTypeOK, clientVars
  <2>3. OwnNumbers'
    BY <1>0, <1>1, <2>1 DEF ConnectionInv, OwnNumbers, clientVars
  <2>4. NoSocketLeft'
    BY <1>1, <1>2, <2>1 DEF ConnectionInv, NoSocketLeft, clientVars
  <2>5. Mine
    BY <2>1 DEF Mine
  <2> QED BY <1>1, <2>1, <2>2, <2>3, <2>4, <2>5, ClientUndisturbed DEF ConnectionInv
<1> QED BY <1>3, <1>4 DEF Listen

\* modbus_tcp_accept: a connection, or the listening socket closed and forgotten.
LEMMA AcceptKeeps ==
  ASSUME Tracking, ConnectionInv, Accept
  PROVE  ConnectionInv' /\ Mine
<1>0. /\ owner \in [Descriptors -> Owners] /\ "server" \in Owners
      /\ 0 \in Descriptors /\ Descriptors \subseteq Nat /\ owner[0] = "application"
  BY ConnectionAssumption DEF ConnectionInv, ConnectionTypeOK, OwnNumbers, Owners
<1>1. /\ UNCHANGED clientVars /\ ~serving
      /\ listening \in Descriptors /\ listening > 0 /\ owner[listening] = "listener"
  BY DEF Accept, Tracking, ConnectionInv, OwnNumbers
<1>2. CASE /\ Free(owner) # {} /\ owner' = Opened(owner, "server") /\ served' = Lowest(owner)
           /\ serving' = TRUE /\ UNCHANGED listening
  <2> DEFINE l == Lowest(owner)
  <2>1. /\ l \in Descriptors /\ owner[l] = "free" /\ owner' \in [Descriptors -> Owners]
        /\ owner'[l] = "server" /\ served' = l
        /\ \A d \in Descriptors : d # l => owner'[d] = owner[d]
    BY <1>0, <1>2, OpenedOne
  <2> HIDE DEF l
  <2>2. ConnectionTypeOK' /\ OwnNumbers'
    BY <1>0, <1>1, <1>2, <2>1 DEF ConnectionInv, ConnectionTypeOK, OwnNumbers, clientVars
  <2>3. NoSocketLeft'
    BY <1>1, <1>2, <2>1 DEF ConnectionInv, NoSocketLeft, clientVars
  <2>4. Mine
    BY <2>1 DEF Mine
  <2> QED BY <1>1, <2>1, <2>2, <2>3, <2>4, ClientUndisturbed DEF ConnectionInv
<1>3. CASE /\ owner' = Closed(owner, listening) /\ listening' = 0
           /\ served' = -1 /\ UNCHANGED serving
  <2>1. /\ owner' \in [Descriptors -> Owners] /\ owner'[listening] = "free"
        /\ \A d \in Descriptors : d # listening => owner'[d] = owner[d]
    BY <1>0, <1>1, <1>3, ClosedOne
  <2>2. ConnectionTypeOK' /\ OwnNumbers'
    BY <1>0, <1>1, <1>3, <2>1 DEF ConnectionInv, ConnectionTypeOK, OwnNumbers, clientVars
  <2>3. NoSocketLeft'
    BY <1>1, <1>3, <2>1 DEF ConnectionInv, NoSocketLeft, clientVars
  <2>4. Mine
    BY <1>1, <2>1 DEF Mine
  <2> QED BY <1>1, <2>1, <2>2, <2>3, <2>4, ClientUndisturbed DEF ConnectionInv
<1> QED BY <1>2, <1>3 DEF Accept

\* modbus_close of the server's context closes the accepted socket.
LEMMA ServerCloseKeeps ==
  ASSUME Tracking, ConnectionInv, ServerClose
  PROVE  ConnectionInv' /\ Mine
<1>1. /\ owner \in [Descriptors -> Owners] /\ owner[0] = "application" /\ 0 \in Descriptors
      /\ served \in Descriptors /\ owner[served] = "server"
      /\ serving' = FALSE /\ UNCHANGED <<clientVars, listening, served>>
  BY ConnectionAssumption DEF ServerClose, ConnectionInv, ConnectionTypeOK, OwnNumbers
<1>2. /\ owner' \in [Descriptors -> Owners] /\ owner'[served] = "free"
      /\ \A d \in Descriptors : d # served => owner'[d] = owner[d]
  BY <1>1, ClosedOne DEF ServerClose
<1>3. ConnectionTypeOK' /\ OwnNumbers'
  BY <1>1, <1>2 DEF ConnectionInv, ConnectionTypeOK, OwnNumbers, clientVars
<1>4. NoSocketLeft'
  BY <1>1, <1>2 DEF ServerClose, ConnectionInv, NoSocketLeft, clientVars
<1>5. Mine
  BY <1>1, <1>2 DEF Mine
<1> QED BY <1>1, <1>2, <1>3, <1>4, <1>5, ClientUndisturbed DEF ConnectionInv

\* The application's own files.
LEMMA AppKeeps ==
  ASSUME Tracking, ConnectionInv, AppOpen \/ \E d \in Descriptors \ {0} : AppClose(d)
  PROVE  ConnectionInv' /\ Mine
<1>0. /\ owner \in [Descriptors -> Owners] /\ "application" \in Owners
      /\ 0 \in Descriptors /\ owner[0] = "application" /\ UNCHANGED <<clientVars, serverVars>>
  BY ConnectionAssumption DEF ConnectionInv, ConnectionTypeOK, OwnNumbers, Owners, AppOpen, AppClose
<1>1. PICK l \in Descriptors :
        /\ owner' \in [Descriptors -> Owners]
        /\ \A d \in Descriptors : d # l => owner'[d] = owner[d]
        /\ \/ owner[l] = "free" /\ owner'[l] = "application"
           \/ l # 0 /\ owner[l] = "application" /\ owner'[l] = "free" /\ AppClose(l)
  <2>1. CASE AppOpen
    BY <1>0, <2>1, OpenedOne DEF AppOpen
  <2>2. CASE \E d \in Descriptors \ {0} : AppClose(d)
    BY <1>0, <2>2, ClosedOne DEF AppClose
  <2> QED BY <2>1, <2>2
<1>2. ConnectionTypeOK' /\ OwnNumbers'
  BY <1>0, <1>1 DEF ConnectionInv, ConnectionTypeOK, OwnNumbers, clientVars, serverVars
<1>3. NoSocketLeft'
  BY <1>0, <1>1 DEF ConnectionInv, NoSocketLeft, clientVars, serverVars
<1>4. Mine
  BY <1>1 DEF Mine
<1> QED BY <1>0, <1>1, <1>2, <1>3, <1>4, ClientUndisturbed DEF ConnectionInv

LEMMA NextConnection ==
  Tracking /\ ConnectionInv /\ [Next]_vars => ConnectionInv' /\ Mine
<1> SUFFICES ASSUME Tracking, ConnectionInv, [Next]_vars PROVE ConnectionInv' /\ Mine
  OBVIOUS
<1>1. CASE Connect
  BY <1>1, ConnectKeeps
<1>2. CASE Close
  BY <1>2, CloseKeeps
<1>3. CASE Recover
  BY <1>3, RecoverKeeps
<1>4. CASE Listen \/ Accept \/ ServerClose
  BY <1>4, ListenKeeps, AcceptKeeps, ServerCloseKeeps
<1>5. CASE AppOpen \/ \E d \in Descriptors \ {0} : AppClose(d)
  BY <1>5, AppKeeps
<1>6. CASE UNCHANGED vars
  BY <1>6 DEF vars, clientVars, serverVars, ConnectionInv, ConnectionTypeOK, OwnNumbers, Mine,
     ConnectedMeansOpen, NoSocketLeft, PortRestored, SavedSettings, SavedOriginal
<1> QED BY <1>1, <1>2, <1>3, <1>4, <1>5, <1>6 DEF Next

-----------------------------------------------------------------------------
LEMMA ConnectionInvariant == ASSUME Tracking PROVE Spec => []ConnectionInv
<1>1. ConnectionInit => ConnectionInv
  BY InitConnection
<1>2. ConnectionInv /\ [Next]_vars => ConnectionInv'
  BY NextConnection
<1> QED BY <1>1, <1>2, PTL DEF Spec

\* However many descriptors a process has and however its files, the client's and
\* the server's connections come and go: a client by TCP without the recovery of
\* the link, or on a serial port, that is connected owns an open descriptor.
THEOREM ConnectedOwns == ASSUME Tracking PROVE Spec => []ConnectedMeansOpen
<1>1. ConnectionInv => ConnectedMeansOpen
  BY DEF ConnectionInv
<1> QED BY <1>1, ConnectionInvariant, PTL

\* No attempt to connect, to listen or to accept leaves a socket that no one knows.
THEOREM NothingLeft == ASSUME Tracking PROVE Spec => []NoSocketLeft
<1>1. ConnectionInv => NoSocketLeft
  BY DEF ConnectionInv
<1> QED BY <1>1, ConnectionInvariant, PTL

\* A serial port that modbus_close has closed has its settings from before.
THEOREM SettingsBack == ASSUME Tracking PROVE Spec => []PortRestored
<1>1. ConnectionInv => PortRestored
  BY DEF ConnectionInv
<1> QED BY <1>1, ConnectionInvariant, PTL

\* Such a client, and such a server, close no descriptor of the application's.
THEOREM FilesUntouched == ASSUME Tracking PROVE Spec => OthersUntouched
<1> DEFINE Untouched ==
      \A d \in Descriptors :
        Tracks(client) /\ owner[d] = "application" /\ owner'[d] # "application"
          => AppClose(d) /\ d # 0
<1>0. [Mine]_vars => [Untouched]_vars
  BY DEF Mine
<1> HIDE DEF Untouched
<1>1. ConnectionInv /\ [Next]_vars => [Mine]_vars
  BY NextConnection
<1>2. []ConnectionInv /\ [][Next]_vars => [][Mine]_vars
  BY <1>1, PTL
<1>3. Spec => [][Mine]_vars
  BY <1>2, ConnectionInvariant, PTL DEF Spec
<1>4. [][Mine]_vars => [][Untouched]_vars
  BY <1>0, PTL
<1>5. [][Untouched]_vars => OthersUntouched
  BY DEF Untouched, OthersUntouched
<1> QED BY <1>3, <1>4, <1>5, PTL

-----------------------------------------------------------------------------
(* The memory.                                                               *)

\* Every number up to the size of a set counts one of its elements.
LEMMA Nth ==
  ASSUME NEW S, S \subseteq Nat, IsFiniteSet(S), NEW n \in 1 .. Cardinality(S)
  PROVE  \E b \in S : Cardinality({c \in S : c < b}) = n - 1
<1> DEFINE Below(b) == {c \in S : c < b}
           Counts(m) == \E b \in S : Cardinality(Below(b)) = m - 1
<1>1. Cardinality(S) \in Nat
  BY FS_CardinalityType
<1>2. \A b : IsFiniteSet(Below(b))
  BY FS_Subset
<1>3. Counts(1)
  <2>1. S # {}
    BY <1>1, FS_EmptySet
  <2>2. PICK x \in S : \A y \in S : x <= y
    BY <2>1, Least
  <2>3. Below(x) = {}
    <3>1. \A y \in S : ~ (y < x)
      BY <2>2
    <3> QED BY <3>1
  <2>4. Cardinality(Below(x)) = 0
    BY <2>3, FS_EmptySet
  <2> QED BY <2>4
<1>4. ASSUME NEW m \in Nat, m < Cardinality(S), Counts(m) PROVE Counts(m + 1)
  <2>1. PICK b \in S : Cardinality(Below(b)) = m - 1
    BY <1>4
  <2> DEFINE L == Below(b) \cup {b}
             T == S \ L
  <2>2. IsFiniteSet(L) /\ Cardinality(L) = m
    <3>1. b \notin Below(b)
      OBVIOUS
    <3> HIDE DEF Below
    <3>2. Cardinality(L) = Cardinality(Below(b)) + 1 /\ IsFiniteSet(L)
      BY <3>1, <1>2, FS_AddElement
    <3> QED BY <2>1, <3>2
  <2>3. T # {}
    <3>1. L \subseteq S
      OBVIOUS
    <3>2. L # S
      BY <1>1, <1>4, <2>2
    <3> QED BY <3>1, <3>2
  <2>4. PICK x \in T : \A y \in T : x <= y
    BY <2>3, Least
  <2>5. Below(x) = L
    <3>1. x \in S /\ b < x
      BY <2>4
    <3>2. \A c \in S : c < x => c \in L
      BY <2>4
    <3>3. \A c \in L : c \in S /\ c < x
      BY <3>1
    <3> QED BY <3>2, <3>3
  <2>6. Cardinality(Below(x)) = m + 1 - 1
    BY <2>2, <2>5
  <2> QED BY <2>4, <2>6
<1> DEFINE K == {m \in 1 .. Cardinality(S) : ~Counts(m)}
<1> HIDE DEF Below, Counts
<1>5. K = {}
  <2> SUFFICES ASSUME K # {} PROVE FALSE
    OBVIOUS
  <2>1. K \subseteq Nat
    BY <1>1
  <2>2. PICK k \in K : \A y \in K : k <= y
    BY <2>1, Least
  <2>3. k \in Nat /\ 1 <= k /\ k <= Cardinality(S) /\ ~Counts(k)
    BY <1>1
  <2>4. k # 1
    BY <1>3, <2>3
  <2>5. k - 1 \in Nat /\ 1 <= k - 1 /\ k - 1 < Cardinality(S) /\ (k - 1) + 1 = k
    BY <1>1, <2>3, <2>4
  <2>6. k - 1 \notin K
    BY <2>2, <2>3
  <2>7. Counts(k - 1)
    BY <1>1, <2>5, <2>6
  <2>8. Counts((k - 1) + 1)
    BY <1>4, <2>5, <2>7
  <2> QED BY <2>3, <2>5, <2>8
<1>6. Counts(n)
  BY <1>5
<1> QED BY <1>6 DEF Counts, Below

LEMMA BlockIsFree ==
  ASSUME heap \subseteq Blocks, NEW n \in 1 .. Cardinality(FreeBlocks)
  PROVE  Block(n) \in FreeBlocks /\ Cardinality({c \in FreeBlocks : c < Block(n)}) = n - 1
<1>1. FreeBlocks \subseteq Nat /\ IsFiniteSet(FreeBlocks)
  BY MemoryAssumption, FS_Subset DEF FreeBlocks
<1>2. \E b \in FreeBlocks : Cardinality({c \in FreeBlocks : c < b}) = n - 1
  BY <1>1, Nth
<1> QED BY <1>2 DEF Block

\* A function that gives no value twice.
Distinct(f) == \A i, j \in DOMAIN f : f[i] = f[j] => i = j

\* What modbus_mapping_new takes is free, and no table shares its memory.
LEMMA TakenAreFree ==
  ASSUME heap \subseteq Blocks, NEW names \in SUBSET DOMAIN Order,
         \A t \in names : Order[t] <= Cardinality(FreeBlocks)
  PROVE  /\ DOMAIN Taken(names) = names /\ Distinct(Taken(names))
         /\ Range(Taken(names)) \subseteq FreeBlocks
<1>1. \A t \in DOMAIN Order : Order[t] \in 1 .. 5
  BY DEF Order
<1>2. \A t, u \in DOMAIN Order : Order[t] = Order[u] => t = u
  BY DEF Order
<1>3. Cardinality(FreeBlocks) \in Nat
  BY MemoryAssumption, FS_Subset, FS_CardinalityType DEF FreeBlocks
<1>4. \A t \in names : Order[t] \in 1 .. Cardinality(FreeBlocks)
  BY <1>1, <1>3
<1>5. \A t \in names : /\ Block(Order[t]) \in FreeBlocks
                       /\ Cardinality({c \in FreeBlocks : c < Block(Order[t])}) = Order[t] - 1
  BY <1>4, BlockIsFree
<1>6. \A t, u \in names : Block(Order[t]) = Block(Order[u]) => t = u
  <2> SUFFICES ASSUME NEW t \in names, NEW u \in names, Block(Order[t]) = Block(Order[u])
               PROVE  t = u
    OBVIOUS
  <2>1. Order[t] - 1 = Order[u] - 1
    BY <1>5
  <2>2. Order[t] = Order[u]
    BY <1>1, <2>1
  <2> QED BY <1>2, <2>2
<1> QED BY <1>5, <1>6 DEF Taken, Distinct, Range

\* What modbus_new_tcp and the others take for a context and its backend.
Pair == [ctx |-> Block(1), backend_data |-> Block(2)]
LEMMA PairIsFree ==
  ASSUME heap \subseteq Blocks, Cardinality(FreeBlocks) >= 2
  PROVE  /\ DOMAIN Pair = {"ctx", "backend_data"} /\ Distinct(Pair)
         /\ Range(Pair) = {Block(1), Block(2)} /\ Range(Pair) \subseteq FreeBlocks
         /\ Block(1) # Block(2)
<1>1. Cardinality(FreeBlocks) \in Nat
  BY MemoryAssumption, FS_Subset, FS_CardinalityType DEF FreeBlocks
<1>2. 1 \in 1 .. Cardinality(FreeBlocks) /\ 2 \in 1 .. Cardinality(FreeBlocks)
  BY <1>1
<1>3. Block(1) \in FreeBlocks /\ Block(2) \in FreeBlocks
  BY <1>2, BlockIsFree
<1>4. Block(1) # Block(2)
  <2>1. /\ Cardinality({c \in FreeBlocks : c < Block(1)}) = 1 - 1
        /\ Cardinality({c \in FreeBlocks : c < Block(2)}) = 2 - 1
    BY <1>2, BlockIsFree
  <2> QED BY <2>1
<1> QED BY <1>3, <1>4 DEF Pair, Distinct, Range

-----------------------------------------------------------------------------
(* Who has which block: "own" gives each pointer its blocks by name.         *)

Owned(own) == UNION {Range(own[p]) : p \in Pointers}
OneEach(h, own) ==
  \A p, q \in Pointers :
    /\ Range(own[p]) \subseteq h
    /\ \A i \in DOMAIN own[p], j \in DOMAIN own[q] : own[p][i] = own[q][j] => p = q /\ i = j
Own == [p \in Pointers |-> Of(p)]

LEMMA OwnIsOf == OneOwner <=> OneEach(heap, Own)
BY DEF OneOwner, OneEach, Own
LEMMA ReachedIsOwned == Reached = Owned(Own)
BY DEF Reached, Owned, Own

\* A pointer gets blocks that were free; what it had before has no owner.
LEMMA Given ==
  ASSUME NEW h, NEW own, OneEach(h, own), NEW p \in Pointers,
         NEW f, Distinct(f), Range(f) \cap h = {},
         NEW own2, own2[p] = f, \A q \in Pointers \ {p} : own2[q] = own[q]
  PROVE  /\ OneEach(h \cup Range(f), own2)
         /\ (h \cup Range(f)) \ Owned(own2) = (h \ Owned(own)) \cup Range(own[p])
<1>1. \A q \in Pointers : \A i \in DOMAIN own[q] : own[q][i] \in h
  BY DEF OneEach, Range
<1>2. \A i \in DOMAIN f : f[i] \notin h /\ f[i] \in Range(f)
  BY DEF Range
<1>3. OneEach(h \cup Range(f), own2)
  <2> SUFFICES ASSUME NEW q \in Pointers, NEW r \in Pointers
               PROVE  /\ Range(own2[q]) \subseteq h \cup Range(f)
                      /\ \A i \in DOMAIN own2[q], j \in DOMAIN own2[r] :
                           own2[q][i] = own2[r][j] => q = r /\ i = j
    BY DEF OneEach
  <2>1. Range(own2[q]) \subseteq h \cup Range(f)
    BY DEF OneEach
  <2>2. ASSUME NEW i \in DOMAIN own2[q], NEW j \in DOMAIN own2[r], own2[q][i] = own2[r][j]
        PROVE  q = r /\ i = j
    <3>1. CASE q = p /\ r = p
      BY <2>2, <3>1 DEF Distinct
    <3>2. CASE q = p /\ r # p
      BY <1>1, <1>2, <2>2, <3>2
    <3>3. CASE q # p /\ r = p
      BY <1>1, <1>2, <2>2, <3>3
    <3>4. CASE q # p /\ r # p
      BY <2>2, <3>4 DEF OneEach
    <3> QED BY <3>1, <3>2, <3>3, <3>4
  <2> QED BY <2>1, <2>2
<1>4. \A b : b \in Owned(own2) <=> b \in Range(f) \/ \E q \in Pointers \ {p} : b \in Range(own[q])
  BY DEF Owned
<1>5. \A b : b \in Owned(own) <=> b \in Range(own[p]) \/ \E q \in Pointers \ {p} : b \in Range(own[q])
  BY DEF Owned
<1>6. \A b \in Range(own[p]) : b \in h /\ \A q \in Pointers \ {p} : b \notin Range(own[q])
  BY DEF OneEach, Range
<1> QED BY <1>3, <1>4, <1>5, <1>6

\* A pointer gives up all its blocks.
LEMMA GivenBack ==
  ASSUME NEW h, NEW own, OneEach(h, own), NEW p \in Pointers,
         NEW own2, own2[p] = <<>>, \A q \in Pointers \ {p} : own2[q] = own[q]
  PROVE  /\ OneEach(h \ Range(own[p]), own2)
         /\ (h \ Range(own[p])) \ Owned(own2) = h \ Owned(own)
<1>1. DOMAIN <<>> = {} /\ Range(<<>>) = {}
  BY DEF Range
<1>2. \A q \in Pointers \ {p} : Range(own[q]) \subseteq h \ Range(own[p])
  BY DEF OneEach, Range
<1>3. OneEach(h \ Range(own[p]), own2)
  <2> SUFFICES ASSUME NEW q \in Pointers, NEW r \in Pointers
               PROVE  /\ Range(own2[q]) \subseteq h \ Range(own[p])
                      /\ \A i \in DOMAIN own2[q], j \in DOMAIN own2[r] :
                           own2[q][i] = own2[r][j] => q = r /\ i = j
    BY DEF OneEach
  <2>1. CASE q = p
    BY <1>1, <2>1
  <2>2. CASE r = p /\ q # p
    BY <1>1, <1>2, <2>2
  <2>3. CASE q # p /\ r # p
    BY <1>2, <2>3 DEF OneEach
  <2> QED BY <2>1, <2>2, <2>3
<1>4. \A b : b \in Owned(own2) <=> \E q \in Pointers \ {p} : b \in Range(own[q])
  BY <1>1 DEF Owned
<1>5. \A b : b \in Owned(own) <=> b \in Range(own[p]) \/ \E q \in Pointers \ {p} : b \in Range(own[q])
  BY DEF Owned
<1> QED BY <1>3, <1>4, <1>5

-----------------------------------------------------------------------------
(* The inductive invariant.                                                  *)

Lost     == heap \ Reached
Expected == 2 * (attempts - IF main = "connecting" /\ context["plc"] # <<>> THEN 1 ELSE 0)
Shapes   == /\ heap \subseteq Blocks
            /\ DOMAIN mapping = Mappings /\ DOMAIN context = Contexts \cup {"plc"}
            /\ \A p \in Contexts \cup {"plc"} :
                 context[p] = <<>> \/ DOMAIN context[p] = {"ctx", "backend_data"}
Progress == /\ main \in {"connecting", "connected", "done"} /\ attempts \in 0 .. MaxAttempts
            /\ context["plc"] = <<>> => main = "done" \/ (main = "connecting" /\ attempts = 0)

LEMMA InvParts ==
  MemoryInv <=> OneEach(heap, Own) /\ Cardinality(Lost) = Expected /\ Shapes /\ Progress
BY OwnIsOf, Zenon DEF MemoryInv, OnlyAttemptsLose, Lost, Expected, Shapes, Progress

LEMMA EmptyRange == DOMAIN <<>> = {} /\ Range(<<>>) = {}
BY DEF Range

LEMMA InitMemory == MemoryInit => MemoryInv
<1> SUFFICES ASSUME MemoryInit PROVE MemoryInv
  OBVIOUS
<1>1. \A p \in Pointers : Own[p] = <<>>
  BY MemoryAssumption DEF MemoryInit, Own, Of, Pointers
<1>2. OneEach(heap, Own)
  BY <1>1, EmptyRange DEF OneEach
<1>3. Lost = {} /\ Expected = 0
  BY DEF MemoryInit, Lost, Expected
<1>4. Cardinality(Lost) = Expected
  BY <1>3, FS_EmptySet
<1>5. Shapes /\ Progress
  BY MemoryAssumption DEF MemoryInit, Shapes, Progress
<1> QED BY <1>2, <1>4, <1>5, InvParts

\* Whose blocks a step changes.
LEMMA MappingOwn ==
  ASSUME Shapes, NEW p \in Mappings, NEW f,
         mapping' = [mapping EXCEPT ![p] = f], UNCHANGED context
  PROVE  /\ p \in Pointers /\ Own[p] = mapping[p] /\ Own'[p] = f
         /\ \A q \in Pointers \ {p} : Own'[q] = Own[q]
         /\ Shapes' \/ ~(heap' \subseteq Blocks)
BY DEF Shapes, Own, Of, Pointers
LEMMA ContextOwn ==
  ASSUME Shapes, NEW p \in Contexts \cup {"plc"}, NEW f,
         f = <<>> \/ DOMAIN f = {"ctx", "backend_data"},
         context' = [context EXCEPT ![p] = f], UNCHANGED mapping
  PROVE  /\ p \in Pointers /\ Own[p] = context[p] /\ Own'[p] = f
         /\ \A q \in Pointers \ {p} : Own'[q] = Own[q]
         /\ Shapes' \/ ~(heap' \subseteq Blocks)
<1>1. p \notin Mappings
  BY MemoryAssumption
<1> QED BY <1>1 DEF Shapes, Own, Of, Pointers

LEMMA SameLost ==
  ASSUME Cardinality(Lost) = Expected, Lost' = Lost, UNCHANGED <<main, attempts>>,
         context'["plc"] = context["plc"]
  PROVE  (Cardinality(Lost) = Expected)'
BY DEF Expected

LEMMA SameProgress ==
  ASSUME Progress, UNCHANGED <<main, attempts>>, context'["plc"] = context["plc"]
  PROVE  Progress'
BY DEF Progress

LEMMA LostIsUnowned == Lost = heap \ Owned(Own)
BY ReachedIsOwned DEF Lost

\* The invariant after a step, from its parts.
LEMMA NextParts ==
  ASSUME NEW h, NEW own, h = heap', own = Own',
         OneEach(h, own), (Cardinality(Lost) = Expected)', Shapes', Progress'
  PROVE  MemoryInv'
<1>1. OneEach(heap, Own)'
  BY DEF OneEach
<1>2. (MemoryInv <=> OneEach(heap, Own) /\ Cardinality(Lost) = Expected /\ Shapes /\ Progress)'
  BY InvParts, PTL
<1> QED BY <1>1, <1>2

LEMMA NextLost ==
  ASSUME NEW h, NEW own, h = heap', own = Own' PROVE Lost' = h \ Owned(own)
<1>1. (Lost = heap \ Owned(Own))'
  BY LostIsUnowned, PTL
<1> QED BY <1>1 DEF Owned

-----------------------------------------------------------------------------
(* The steps of mappings.                                                    *)

LEMMA MappingNewStep ==
  ASSUME MemoryInv, NEW p \in Mappings, NEW nb \in [Tables -> {0, 1}],
         NEW names \in {Wanted(nb)} \cup {Before(t, Wanted(nb)) : t \in Wanted(nb)},
         MappingNew(p, nb, names)
  PROVE  MemoryInv'
<1>1. OneEach(heap, Own) /\ Cardinality(Lost) = Expected /\ Shapes /\ Progress
  BY InvParts
<1>2. names \in SUBSET DOMAIN Order
  BY DEF Wanted, Before, Tables, Order
<1>3. /\ DOMAIN Taken(names) = names /\ Distinct(Taken(names))
      /\ Range(Taken(names)) \cap heap = {} /\ Range(Taken(names)) \subseteq Blocks
  BY <1>1, <1>2, TakenAreFree DEF MappingNew, Shapes, FreeBlocks
<1>4. /\ mapping[p] = <<>> /\ UNCHANGED <<context, main, attempts>>
      /\ mapping' = [mapping EXCEPT ![p] = Returned(names, nb)]
  BY DEF MappingNew
<1> DEFINE f == Returned(names, nb)
<1>5. /\ p \in Pointers /\ Own[p] = <<>> /\ Own'[p] = f
      /\ \A q \in Pointers \ {p} : Own'[q] = Own[q]
      /\ Shapes' \/ ~(heap' \subseteq Blocks)
  BY <1>1, <1>4, MappingOwn
<1>6. f = Taken(names) \/ f = <<>>
  BY DEF Returned
<1>7. heap' = heap \cup Range(f) /\ Distinct(f) /\ Range(f) \cap heap = {}
      /\ Range(f) \subseteq Blocks
  <2>1. CASE names = Wanted(nb)
    BY <1>3, <2>1 DEF MappingNew, Returned
  <2>2. CASE names # Wanted(nb)
    <3>1. heap' = heap /\ f = <<>>
      BY <1>3, <2>2 DEF MappingNew, Returned, FreedOnFailure
    <3> QED BY <3>1, EmptyRange DEF Distinct
  <2> QED BY <2>1, <2>2
<1> HIDE DEF f
<1>8. PICK own : own = Own'
  OBVIOUS
<1>9. OneEach(heap', own) /\ heap' \ Owned(own) = heap \ Owned(Own)
  <2>1. own[p] = f /\ \A q \in Pointers \ {p} : own[q] = Own[q]
    BY <1>5, <1>8
  <2>2. /\ OneEach(heap \cup Range(f), own)
        /\ (heap \cup Range(f)) \ Owned(own) = (heap \ Owned(Own)) \cup Range(Own[p])
    BY <1>1, <1>5, <1>7, <2>1, Given
  <2> QED BY <1>5, <1>7, <2>2, EmptyRange
<1>10. Lost' = Lost
  BY <1>8, <1>9, LostIsUnowned, NextLost
<1>11. Shapes'
  BY <1>1, <1>5, <1>7 DEF Shapes
<1>12. (Cardinality(Lost) = Expected)' /\ Progress'
  BY <1>1, <1>4, <1>10, SameLost, SameProgress
<1> QED BY <1>8, <1>9, <1>11, <1>12, NextParts

LEMMA MappingFreeStep ==
  ASSUME MemoryInv, NEW p \in Mappings, MappingFree(p)
  PROVE  MemoryInv'
<1>1. OneEach(heap, Own) /\ Cardinality(Lost) = Expected /\ Shapes /\ Progress
  BY InvParts
<1>2. /\ UNCHANGED <<context, main, attempts>> /\ mapping' = [mapping EXCEPT ![p] = <<>>]
      /\ heap' = heap \ Range(mapping[p])
  BY DEF MappingFree, Freed
<1>3. /\ p \in Pointers /\ Own[p] = mapping[p] /\ Own'[p] = <<>>
      /\ \A q \in Pointers \ {p} : Own'[q] = Own[q]
      /\ Shapes' \/ ~(heap' \subseteq Blocks)
  BY <1>1, <1>2, MappingOwn
<1>4. PICK own : own = Own'
  OBVIOUS
<1>5. OneEach(heap', own) /\ heap' \ Owned(own) = heap \ Owned(Own)
  <2>1. own[p] = <<>> /\ \A q \in Pointers \ {p} : own[q] = Own[q]
    BY <1>3, <1>4
  <2>2. /\ OneEach(heap \ Range(Own[p]), own)
        /\ (heap \ Range(Own[p])) \ Owned(own) = heap \ Owned(Own)
    BY <1>1, <1>3, <2>1, GivenBack
  <2> QED BY <1>2, <1>3, <2>2
<1>6. Lost' = Lost
  BY <1>4, <1>5, LostIsUnowned, NextLost
<1>7. Shapes'
  BY <1>1, <1>2, <1>3 DEF Shapes
<1>8. (Cardinality(Lost) = Expected)' /\ Progress'
  BY <1>1, <1>2, <1>6, SameLost, SameProgress
<1> QED BY <1>4, <1>5, <1>7, <1>8, NextParts

-----------------------------------------------------------------------------
(* The steps of contexts.                                                    *)

\* A context is taken as a whole or not at all; the one the pointer led to is lost.
LEMMA ContextNewStep ==
  ASSUME MemoryInv, NEW p \in Contexts \cup {"plc"}, NEW args, ContextNew(p, args),
         UNCHANGED mapping, context[p] = <<>> \/ Accepted(args)
  PROVE  /\ OneEach(heap, Own)' /\ Shapes' /\ Lost' = Lost \cup Range(context[p])
         /\ Accepted(args) => context'[p] # <<>>
         /\ \A q \in (Contexts \cup {"plc"}) \ {p} : context'[q] = context[q]
<1>1. OneEach(heap, Own) /\ Shapes
  BY InvParts
<1> DEFINE f == IF Accepted(args) THEN Pair ELSE <<>>
<1>2. context' = [context EXCEPT ![p] = f]
  BY DEF ContextNew, Pair
<1>3. /\ DOMAIN Pair = {"ctx", "backend_data"} /\ Distinct(Pair)
      /\ Range(Pair) = {Block(1), Block(2)} /\ Range(Pair) \cap heap = {}
      /\ Range(Pair) \subseteq Blocks
  BY <1>1, PairIsFree DEF ContextNew, Shapes, FreeBlocks
<1>4. heap' = heap \cup Range(f) /\ Distinct(f) /\ Range(f) \cap heap = {} /\ Range(f) \subseteq Blocks
  <2>1. CASE Accepted(args)
    BY <1>3, <2>1 DEF ContextNew, FreedWhenRefused
  <2>2. CASE ~Accepted(args)
    <3>1. heap' = heap /\ f = <<>>
      BY <1>3, <2>2 DEF ContextNew, FreedWhenRefused
    <3> QED BY <3>1, EmptyRange DEF Distinct
  <2> QED BY <2>1, <2>2
<1>5. f = <<>> \/ DOMAIN f = {"ctx", "backend_data"}
  BY <1>3
<1>6. Accepted(args) => f # <<>>
  BY <1>3, EmptyRange
<1> HIDE DEF f
<1>7. /\ p \in Pointers /\ Own[p] = context[p] /\ Own'[p] = f
      /\ \A q \in Pointers \ {p} : Own'[q] = Own[q]
      /\ Shapes' \/ ~(heap' \subseteq Blocks)
  BY <1>1, <1>2, <1>5, ContextOwn
<1>8. PICK own : own = Own'
  OBVIOUS
<1>9. /\ OneEach(heap', own)
      /\ heap' \ Owned(own) = (heap \ Owned(Own)) \cup Range(context[p])
  <2>1. own[p] = f /\ \A q \in Pointers \ {p} : own[q] = Own[q]
    BY <1>7, <1>8
  <2> QED BY <1>1, <1>4, <1>7, <2>1, Given
<1>10. Lost' = Lost \cup Range(context[p])
  BY <1>8, <1>9, LostIsUnowned, NextLost
<1>11. Shapes'
  BY <1>1, <1>4, <1>7 DEF Shapes
<1>12. OneEach(heap, Own)'
  BY <1>8, <1>9 DEF OneEach
<1>13. /\ Accepted(args) => context'[p] # <<>>
       /\ \A q \in (Contexts \cup {"plc"}) \ {p} : context'[q] = context[q]
  BY <1>1, <1>2, <1>6 DEF Shapes
<1> QED BY <1>10, <1>11, <1>12, <1>13

LEMMA JoinParts ==
  ASSUME OneEach(heap, Own)', (Cardinality(Lost) = Expected)', Shapes', Progress'
  PROVE  MemoryInv'
<1>1. (MemoryInv <=> OneEach(heap, Own) /\ Cardinality(Lost) = Expected /\ Shapes /\ Progress)'
  BY InvParts, PTL
<1> QED BY <1>1

LEMMA ApplicationNewStep ==
  ASSUME MemoryInv, NEW p \in Contexts, NEW args, ApplicationNew(p, args)
  PROVE  MemoryInv'
<1>1. /\ context[p] = <<>> /\ ContextNew(p, args) /\ UNCHANGED <<mapping, main, attempts>>
      /\ p # "plc"
  BY MemoryAssumption DEF ApplicationNew
<1>2. /\ OneEach(heap, Own)' /\ Shapes' /\ Lost' = Lost \cup Range(context[p])
      /\ \A q \in (Contexts \cup {"plc"}) \ {p} : context'[q] = context[q]
  BY <1>1, ContextNewStep
<1>3. Lost' = Lost /\ context'["plc"] = context["plc"]
  BY <1>1, <1>2, EmptyRange
<1>4. (Cardinality(Lost) = Expected)' /\ Progress'
  BY <1>1, <1>3, InvParts, SameLost, SameProgress
<1> QED BY <1>2, <1>4, JoinParts

LEMMA ContextFreeStep ==
  ASSUME MemoryInv, NEW p \in Contexts \cup {"plc"}, ContextFree(p), UNCHANGED mapping
  PROVE  /\ OneEach(heap, Own)' /\ Shapes' /\ Lost' = Lost /\ context'[p] = <<>>
         /\ \A q \in (Contexts \cup {"plc"}) \ {p} : context'[q] = context[q]
<1>1. OneEach(heap, Own) /\ Shapes
  BY InvParts
<1>2. heap' = heap \ Range(context[p]) /\ context' = [context EXCEPT ![p] = <<>>]
  BY DEF ContextFree, Freed
<1>3. /\ p \in Pointers /\ Own[p] = context[p] /\ Own'[p] = <<>>
      /\ \A q \in Pointers \ {p} : Own'[q] = Own[q]
      /\ Shapes' \/ ~(heap' \subseteq Blocks)
  BY <1>1, <1>2, ContextOwn
<1>4. PICK own : own = Own'
  OBVIOUS
<1>5. OneEach(heap', own) /\ heap' \ Owned(own) = heap \ Owned(Own)
  <2>1. own[p] = <<>> /\ \A q \in Pointers \ {p} : own[q] = Own[q]
    BY <1>3, <1>4
  <2>2. /\ OneEach(heap \ Range(Own[p]), own)
        /\ (heap \ Range(Own[p])) \ Owned(own) = heap \ Owned(Own)
    BY <1>1, <1>3, <2>1, GivenBack
  <2> QED BY <1>2, <1>3, <2>2
<1>6. Lost' = Lost /\ OneEach(heap, Own)'
  BY <1>4, <1>5, LostIsUnowned, NextLost DEF OneEach
<1>7. Shapes'
  BY <1>1, <1>2, <1>3 DEF Shapes
<1>8. /\ context'[p] = <<>>
      /\ \A q \in (Contexts \cup {"plc"}) \ {p} : context'[q] = context[q]
  BY <1>1, <1>2 DEF Shapes
<1> QED BY <1>6, <1>7, <1>8

LEMMA ApplicationFreeStep ==
  ASSUME MemoryInv, NEW p \in Contexts, ApplicationFree(p)
  PROVE  MemoryInv'
<1>1. ContextFree(p) /\ UNCHANGED <<mapping, main, attempts>> /\ p # "plc"
  BY MemoryAssumption DEF ApplicationFree
<1>2. /\ OneEach(heap, Own)' /\ Shapes' /\ Lost' = Lost
      /\ context'["plc"] = context["plc"]
  BY <1>1, ContextFreeStep
<1>3. (Cardinality(Lost) = Expected)' /\ Progress'
  BY <1>1, <1>2, InvParts, SameLost, SameProgress
<1> QED BY <1>2, <1>3, JoinParts

LEMMA RobotDisconnectStep == ASSUME MemoryInv, RobotDisconnect PROVE MemoryInv'
<1>1. /\ main = "connected" /\ main' = "done" /\ ContextFree("plc")
      /\ UNCHANGED <<mapping, attempts>>
  BY DEF RobotDisconnect
<1>2. OneEach(heap, Own)' /\ Shapes' /\ Lost' = Lost
  BY <1>1, ContextFreeStep
<1>3. Cardinality(Lost) = Expected /\ Progress
  BY InvParts
<1>4. (Cardinality(Lost) = Expected)'
  BY <1>1, <1>2, <1>3 DEF Expected
<1>5. Progress'
  BY <1>1, <1>3 DEF Progress
<1> QED BY <1>2, <1>4, <1>5, JoinParts

\* A context that is lost is two blocks.
LEMMA PairSize ==
  ASSUME MemoryInv, context["plc"] # <<>>
  PROVE  IsFiniteSet(Range(context["plc"])) /\ Cardinality(Range(context["plc"])) = 2
<1> DEFINE f == context["plc"]
<1>1. DOMAIN f = {"ctx", "backend_data"}
  BY DEF MemoryInv
<1>2. f["ctx"] # f["backend_data"]
  <2>1. "plc" \in Pointers /\ Of("plc") = f
    BY MemoryAssumption DEF Pointers, Of
  <2> QED BY <1>1, <2>1 DEF MemoryInv, OneOwner
<1>3. Range(f) = {f["ctx"]} \cup {f["backend_data"]}
  BY <1>1 DEF Range
<1> HIDE DEF f
<1>4. IsFiniteSet({f["ctx"]}) /\ Cardinality({f["ctx"]}) = 1
  BY FS_Singleton
<1>5. IsFiniteSet(Range(f)) /\ Cardinality(Range(f)) = 1 + 1
  BY <1>2, <1>3, <1>4, FS_AddElement
<1> QED BY <1>5 DEF f

LEMMA RobotConnectStep ==
  ASSUME MemoryInv, NEW succeeds \in BOOLEAN, RobotConnect(succeeds)
  PROVE  MemoryInv'
<1>1. /\ main = "connecting" /\ ContextNew("plc", PlcArgs) /\ UNCHANGED mapping
      /\ succeeds \/ attempts < MaxAttempts
      /\ main' = IF succeeds THEN "connected" ELSE main
      /\ attempts' = IF succeeds THEN attempts ELSE attempts + 1
  BY DEF RobotConnect
<1>2. Accepted(PlcArgs)
  BY DEF Accepted, PlcArgs
<1>3. /\ OneEach(heap, Own)' /\ Shapes' /\ Lost' = Lost \cup Range(context["plc"])
      /\ context'["plc"] # <<>>
  BY <1>1, <1>2, ContextNewStep
<1>4. Cardinality(Lost) = Expected /\ Shapes /\ Progress
  BY InvParts
<1>5. attempts \in Nat
  BY <1>4, MemoryAssumption DEF Progress
<1>6. Cardinality(Lost') = Expected'
  <2>1. CASE context["plc"] = <<>>
    <3>1. Lost' = Lost
      BY <1>3, <2>1, EmptyRange
    <3>2. attempts = 0 /\ Cardinality(Lost) = 0
      BY <1>1, <1>4, <1>5, <2>1 DEF Expected, Progress
    <3>3. Expected' = 0
      BY <1>1, <1>3, <3>2 DEF Expected
    <3> QED BY <3>1, <3>2, <3>3
  <2>2. CASE context["plc"] # <<>>
    <3>1. IsFiniteSet(Range(context["plc"])) /\ Cardinality(Range(context["plc"])) = 2
      BY <2>2, PairSize
    <3>2. IsFiniteSet(Lost)
      BY <1>4, MemoryAssumption, FS_Subset DEF Lost, Shapes
    <3>3. Lost \cap Range(context["plc"]) = {}
      BY MemoryAssumption DEF Lost, Reached, Pointers, Of
    <3>4. Cardinality(Lost') = Cardinality(Lost) + 2
      <4>1. Cardinality(Lost \cup Range(context["plc"]))
              = Cardinality(Lost) + Cardinality(Range(context["plc"])) - Cardinality({})
        BY <3>1, <3>2, <3>3, FS_Union
      <4>2. Cardinality({}) = 0 /\ Cardinality(Lost) \in Nat
        BY <3>2, FS_EmptySet, FS_CardinalityType
      <4> QED BY <1>3, <3>1, <4>1, <4>2
    <3>5. Cardinality(Lost) = 2 * (attempts - 1)
      BY <1>1, <1>4, <2>2 DEF Expected
    <3>6. Expected' = 2 * attempts
      <4>1. CASE succeeds
        BY <1>1, <1>5, <4>1 DEF Expected
      <4>2. CASE ~succeeds
        BY <1>1, <1>3, <1>5, <4>2 DEF Expected
      <4> QED BY <4>1, <4>2
    <3> QED BY <1>5, <3>4, <3>5, <3>6
  <2> QED BY <2>1, <2>2
<1>7. (Cardinality(Lost) = Expected)'
  BY <1>6
<1>8. Progress'
  BY <1>1, <1>3, <1>4, MemoryAssumption DEF Progress
<1> QED BY <1>3, <1>7, <1>8, JoinParts

LEMMA StutterMemory == ASSUME MemoryInv, UNCHANGED memoryVars PROVE MemoryInv'
<1>1. OneEach(heap, Own) /\ Cardinality(Lost) = Expected /\ Shapes /\ Progress
  BY InvParts
<1>2. Own' = Own /\ Lost' = Lost /\ Expected' = Expected
  BY DEF memoryVars, Own, Of, Lost, Reached, Expected
<1>3. OneEach(heap, Own)'
  BY <1>1, <1>2 DEF OneEach, memoryVars
<1>4. (Cardinality(Lost) = Expected)' /\ Shapes' /\ Progress'
  BY <1>1, <1>2 DEF memoryVars, Shapes, Progress
<1> QED BY <1>3, <1>4, JoinParts

-----------------------------------------------------------------------------
(* What holds in every state.                                                *)

\* Each pointer owns its blocks alone, and what no pointer owns was lost by an
\* attempt of robot_connect, whatever malloc and the arguments refuse.
THEOREM MemoryInvariant == MemorySpec => []MemoryInv
<1>1. MemoryInit => MemoryInv
  BY InitMemory
<1>2. MemoryInv /\ [MemoryNext]_memoryVars => MemoryInv'
  <2> SUFFICES ASSUME MemoryInv, [MemoryNext]_memoryVars PROVE MemoryInv'
    OBVIOUS
  <2>1. CASE \E p \in Mappings, nb \in [Tables -> {0, 1}] :
               \E names \in {Wanted(nb)} \cup {Before(t, Wanted(nb)) : t \in Wanted(nb)} :
                 MappingNew(p, nb, names)
    BY <2>1, MappingNewStep
  <2>2. CASE \E p \in Mappings : MappingFree(p)
    BY <2>2, MappingFreeStep
  <2>3. CASE \E p \in Contexts, args \in Arguments : ApplicationNew(p, args)
    BY <2>3, ApplicationNewStep
  <2>4. CASE \E p \in Contexts : ApplicationFree(p)
    BY <2>4, ApplicationFreeStep
  <2>5. CASE \E succeeds \in BOOLEAN : RobotConnect(succeeds)
    BY <2>5, RobotConnectStep
  <2>6. CASE RobotDisconnect
    BY <2>6, RobotDisconnectStep
  <2>7. CASE UNCHANGED memoryVars
    BY <2>7, StutterMemory
  <2> QED BY <2>1, <2>2, <2>3, <2>4, <2>5, <2>6, <2>7 DEF MemoryNext
<1> QED BY <1>1, <1>2, PTL DEF MemorySpec

\* modbus_mapping_new, modbus_new_tcp, modbus_new_tcp_pi and modbus_new_rtu give back
\* what they took when they fail; main loses two blocks with every attempt of
\* robot_connect but its last.
THEOREM LosesOnlyAttempts == MemorySpec => []OnlyAttemptsLose
<1>1. MemoryInv => OnlyAttemptsLose
  BY DEF MemoryInv
<1> QED BY <1>1, MemoryInvariant, PTL

\* No block is freed while a pointer leads to it, and none is freed twice.
THEOREM EveryBlockOneOwner == MemorySpec => []OneOwner
<1>1. MemoryInv => OneOwner
  BY DEF MemoryInv
<1> QED BY <1>1, MemoryInvariant, PTL
=============================================================================
