---------------------------- MODULE ModbusMemory ----------------------------
(***************************************************************************)
(* The memory libmodbus takes and gives back: the tables of a server in    *)
(* modbus_mapping_new, which any of its calls of malloc may refuse, and    *)
(* the contexts, which bad arguments refuse; and main, which connects with *)
(* a context until it succeeds.  A block that has been freed is given to   *)
(* whoever asks next.                                                      *)
(***************************************************************************)
EXTENDS Integers, FiniteSets, Functions

CONSTANTS
  Mappings,     \* the application's pointers to mappings
  Contexts,     \* its pointers to contexts, other than the driver's plc
  Blocks,       \* the numbers of the blocks of the heap
  MaxAttempts   \* bound on failed attempts of robot_connect

ASSUME MemoryAssumption ==
  /\ Blocks \subseteq Nat /\ IsFiniteSet(Blocks)
  /\ Mappings \cap (Contexts \cup {"plc"}) = {} /\ "plc" \notin Contexts
  /\ MaxAttempts \in Nat

VARIABLES
  heap,       \* the blocks in use
  mapping,    \* mapping[p]: the blocks of the tables p points to, by name; empty for NULL
  context,    \* context[p]: the blocks of the context p points to; empty for NULL
  main,       \* where main is: "connecting", "connected" or "done"
  attempts    \* how often it has returned false

memoryVars == <<heap, mapping, context, main, attempts>>

MemoryInit == /\ heap = {}
              /\ mapping = [p \in Mappings |-> <<>>]
              /\ context = [p \in Contexts \cup {"plc"} |-> <<>>]
              /\ main = "connecting" /\ attempts = 0

-----------------------------------------------------------------------------
\* What malloc has left, and free.
FreeBlocks == Blocks \ heap
Block(n) == CHOOSE b \in FreeBlocks : Cardinality({c \in FreeBlocks : c < b}) = n - 1
Freed(from, p) == from \ Range(p)

\* modbus_mapping_new, the order of its calls of malloc, and those it makes: none
\* for tables of no elements.
Order == [mb_mapping |-> 1, tab_bits |-> 2, tab_input_bits |-> 3,
          tab_registers |-> 4, tab_input_registers |-> 5]
Tables == DOMAIN Order \ {"mb_mapping"}
Wanted(nb) == {"mb_mapping"} \cup {t \in Tables : nb[t] > 0}
Before(t, names) == {u \in names : Order[u] < Order[t]}
Taken(names) == [t \in names |-> Block(Order[t])]

\* What it frees when malloc refuses the call after those for "names".
\* Mutant: the bits are forgotten when there is no memory for the registers.
FreedButBits(names) == Range(Taken(names \ {"tab_bits"}))
FreedOnFailure(names) == Range(Taken(names))

\* What it returns.
\* Mutant: the mapping, although it has just been freed.
ReturnedAnyway(names, nb) == Taken(names)
Returned(names, nb) == IF names = Wanted(nb) THEN Taken(names) ELSE <<>>

\* "names": what malloc grants, all that is wanted or all before the call it refuses.
MappingNew(p, nb, names) ==
  /\ mapping[p] = <<>> /\ \A t \in names : Order[t] <= Cardinality(FreeBlocks)
  /\ heap' = (heap \cup Range(Taken(names)))
               \ (IF names = Wanted(nb) THEN {} ELSE FreedOnFailure(names))
  /\ mapping' = [mapping EXCEPT ![p] = Returned(names, nb)]
  /\ UNCHANGED <<context, main, attempts>>

\* modbus_mapping_free; the application forgets the pointer.
MappingFree(p) ==
  /\ mapping[p] # <<>>
  /\ heap' = Freed(heap, mapping[p]) /\ mapping' = [mapping EXCEPT ![p] = <<>>]
  /\ UNCHANGED <<context, main, attempts>>

\* modbus_new_tcp, modbus_new_tcp_pi and modbus_new_rtu with the lengths of their
\* strings, which strlcpy returns, and the parity.  That malloc refuses them is left
\* out: nothing checks it, and the program ends.
Accepted(args) == /\ \A str \in DOMAIN args.strings : args.strings[str] = "fits"
                  /\ args.parity \in {"N", "E", "O"}
FreedWhenRefused(args) == IF Accepted(args) THEN {} ELSE {Block(1), Block(2)}
ContextNew(p, args) ==
  /\ Cardinality(FreeBlocks) >= 2
  /\ heap' = (heap \cup {Block(1), Block(2)}) \ FreedWhenRefused(args)
  /\ context' = [context EXCEPT ![p] =
       IF Accepted(args) THEN [ctx |-> Block(1), backend_data |-> Block(2)] ELSE <<>>]

ApplicationNew(p, args) ==
  /\ context[p] = <<>> /\ ContextNew(p, args) /\ UNCHANGED <<mapping, main, attempts>>

\* modbus_free; the application forgets the pointer.
ContextFree(p) ==
  /\ heap' = Freed(heap, context[p]) /\ context' = [context EXCEPT ![p] = <<>>]

ApplicationFree(p) ==
  /\ context[p] # <<>> /\ ContextFree(p) /\ UNCHANGED <<mapping, main, attempts>>

-----------------------------------------------------------------------------
\* robot_connect with the PLC's address, whatever plc was: a refused connection
\* returns false without modbus_free, and main calls it again.
PlcArgs == [strings |-> [ip |-> "fits"], parity |-> "N"]
RobotConnect(succeeds) ==
  /\ main = "connecting" /\ ContextNew("plc", PlcArgs)
  /\ succeeds \/ attempts < MaxAttempts
  /\ main' = IF succeeds THEN "connected" ELSE main
  /\ attempts' = IF succeeds THEN attempts ELSE attempts + 1
  /\ UNCHANGED mapping

\* robot_disconnect, with main's only context.
RobotDisconnect == /\ main = "connected" /\ ContextFree("plc")
                   /\ main' = "done"
                   /\ UNCHANGED <<mapping, attempts>>

Strings == {"empty", "fits", "long"}
Arguments == [strings : [{"ip"} -> Strings] \cup [{"node", "service"} -> Strings], parity : {"N"}]
             \cup [strings : [{"device"} -> Strings], parity : {"N", "E", "O", "other"}]

MemoryNext ==
  \/ \E p \in Mappings, nb \in [Tables -> {0, 1}] :
       \E names \in {Wanted(nb)} \cup {Before(t, Wanted(nb)) : t \in Wanted(nb)} :
         MappingNew(p, nb, names)
  \/ \E p \in Mappings : MappingFree(p)
  \/ \E p \in Contexts, args \in Arguments : ApplicationNew(p, args)
  \/ \E p \in Contexts : ApplicationFree(p)
  \/ \E succeeds \in BOOLEAN : RobotConnect(succeeds)
  \/ RobotDisconnect

MemorySpec == MemoryInit /\ [][MemoryNext]_memoryVars
-----------------------------------------------------------------------------
Pointers == Mappings \cup Contexts \cup {"plc"}
Of(p)    == IF p \in Mappings THEN mapping[p] ELSE context[p]
Reached  == UNION {Range(Of(p)) : p \in Pointers}

\* However far modbus_mapping_new gets before malloc refuses, and whatever argument
\* is bad, what was taken is given back: the only memory no pointer leads to is the
\* contexts of the failed attempts of robot_connect, two blocks each, of which plc
\* still has the last.
OnlyAttemptsLose ==
  Cardinality(heap \ Reached)
    = 2 * (attempts - IF main = "connecting" /\ context["plc"] # <<>> THEN 1 ELSE 0)

\* No pointer the application still has leads to a block that was freed, or that
\* another pointer leads to: neither a failed modbus_mapping_new nor a refused
\* context gives one out, and none is freed with the memory of another.
OneOwner ==
  \A p, q \in Pointers :
    /\ Range(Of(p)) \subseteq heap
    /\ \A i \in DOMAIN Of(p), j \in DOMAIN Of(q) : Of(p)[i] = Of(q)[j] => p = q /\ i = j

\* The inductive invariant: besides, a context is one block for itself and one for
\* its backend, and main has none before it first calls robot_connect.
MemoryInv ==
  /\ OneOwner /\ OnlyAttemptsLose
  /\ heap \subseteq Blocks
  /\ DOMAIN mapping = Mappings /\ DOMAIN context = Contexts \cup {"plc"}
  /\ \A p \in Contexts \cup {"plc"} : context[p] = <<>> \/ DOMAIN context[p] = {"ctx", "backend_data"}
  /\ main \in {"connecting", "connected", "done"} /\ attempts \in 0 .. MaxAttempts
  /\ context["plc"] = <<>> => main = "done" \/ (main = "connecting" /\ attempts = 0)
=============================================================================
