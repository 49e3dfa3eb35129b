------------------------- MODULE MCModbusResources -------------------------
(***************************************************************************)
(* Instances of ModbusConnection and ModbusMemory for TLC: what libmodbus  *)
(* takes from the system, descriptors in one part of the behaviours and    *)
(* memory in the other.                                                    *)
(***************************************************************************)
EXTENDS ModbusConnection, ModbusMemory

VARIABLE part

MCClients == [backend : {"tcp", "tcp_pi", "rtu"}, recovery : {{}, {"link"}}]

MCInit == ConnectionInit /\ MemoryInit /\ part \in {"descriptors", "memory"}
MCNext == /\ UNCHANGED part
          /\ \/ part = "descriptors" /\ Next /\ UNCHANGED memoryVars
             \/ part = "memory" /\ MemoryNext /\ UNCHANGED vars
MCSpec == MCInit /\ [][MCNext]_<<vars, memoryVars, part>>
=============================================================================
