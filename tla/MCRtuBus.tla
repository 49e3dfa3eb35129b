------------------------------ MODULE MCRtuBus ------------------------------
(***************************************************************************)
(* An instance of RtuBus for TLC.  Before the first call, the messages     *)
(* whose checksums are checked: each of one byte, and those that grow from *)
(* it by bytes of a few kinds.                                             *)
(***************************************************************************)
EXTENDS RtuBus

\* modbus_read_registers of a register, of one there is none, and
\* modbus_write_register.
ReadOne  == <<3, 0, 32, 0, 1>>
ReadNone == <<3, 0, 0, 0, 1>>
WriteOne == <<6, 0, 28, 4, 86>>

AllPdus == {ReadOne, ReadNone, WriteOne}

\* None, as libmodbus starts, and all.
AllModes == {{}, {"link", "protocol"}}

CONSTANTS
  MoreBytes,  \* the bytes by which a message grows
  MaxLength   \* bound: its length

ASSUME MessageAssumption == MoreBytes \subseteq Byte /\ MaxLength \in Nat

VARIABLE message

MCInit == BusInit /\ message \in {<<>>} \union {<<b>> : b \in Byte}
Grow == /\ Len(message) \in 1 .. MaxLength - 1
        /\ \E b \in MoreBytes : message' = Append(message, b)
        /\ UNCHANGED vars
Done == Len(message) = MaxLength /\ message' = <<>> /\ UNCHANGED vars
MCNext == (message = <<>> /\ Next /\ UNCHANGED message) \/ Grow \/ Done
MCSpec == MCInit /\ [][MCNext]_<<vars, message>>

\* The two tables compute CRC-16: the high byte of crc16 is the low byte of the
\* register, which goes out first.
TablesAreCrc16 == crc16(message) = <<Crc16(message) % 256, Crc16(message) \div 256>>

\* What has been sent is accepted, and nothing that differs from it in one byte, be
\* it of the message or of its checksum.
ErrorsDetected == message # <<>> => Protected(message)
=============================================================================
