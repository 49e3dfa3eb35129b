-------------------------- MODULE MCModbusSession --------------------------
(* Instances of ModbusSession for TLC. *)
EXTENDS ModbusSession

\* modbus_read_registers of the READY register, and of one the server does not have.
ReadReady == <<3, 0, 32, 0, 1>>
ReadNone  == <<3, 0, 0, 0, 1>>

AllPdus  == {ReadReady, ReadNone}
AllModes == SUBSET {"link", "protocol"}
=============================================================================
