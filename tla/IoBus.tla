---------------------------------- MODULE IoBus ----------------------------------
(* io_expander.c, lcd_driver.c and i2c_bus.c: the tasks that share one I2C bus.    *)
(* The expander's pins are guarded by io_mutex, with the bus mutex inside; a       *)
(* nibble for the display takes three transfers under the bus mutex; io_input_task *)
(* and the sensors take no mutex at all.  A single transfer is serialised by the   *)
(* I2C driver and is one step; it may fail, and its byte may have arrived then.    *)
EXTENDS FiniteSets

CONSTANTS
  Tasks,    \* the tasks that use the bus
  Pins,     \* the pins of the expander
  Inputs,   \* EXPANDER_INIT_PINS_MASK
  Ops,      \* per task: which functions it calls
  None      \* no task

OpNames == {"setLevel", "getLevel", "sendByte", "poll"}

ASSUME IoBusAssumption == /\ Ops \in [Tasks -> SUBSET OpNames]
                          /\ Inputs \subseteq Pins
                          /\ None \notin Tasks

VARIABLES
  pc,      \* per task: where it is
  io,      \* holder of io_mutex
  bus,     \* holder of bus_mutex
  shadow,  \* port_shadow, as the set of high pins
  port,    \* the expander's output latch
  byte,    \* per task: what it has read of port_shadow, then what it is to write
  nibble,  \* per task: the half of the byte that it sends
  lines,   \* what the display sees of its own expander: EN and the nibble
  half,    \* the nibble the display has latched and not yet completed
  wanted,  \* history: the pins that the last call for each asked to be high
  stale,   \* history: the last write to the expander failed
  failed   \* history: some transfer to the display failed

expander == <<io, shadow, port, byte, wanted, stale>>
display == <<nibble, lines, half, failed>>
vars == <<pc, bus, expander, display>>

Nibble(t) == <<t, nibble[t]>>
Nibbles == Tasks \X {"high", "low"}
NoNibble == <<None, "low">>

HoldsIo == {"load", "store", "commit", "takeBus", "write", "giveBus", "giveIo", "read"}
HoldsBus == {"write", "giveBus", "data", "rise", "fall", "giveLcd", "abort"}
PcNames == HoldsIo \cup HoldsBus \cup {"idle", "takeIo", "askIo", "poll", "takeLcd"}

\* A mutex is held only by a task that is going to give it back.
TypeOK ==
  /\ pc \in [Tasks -> PcNames]
  /\ io \in Tasks \cup {None} /\ bus \in Tasks \cup {None}
  /\ io # None => pc[io] \in HoldsIo
  /\ bus # None => pc[bus] \in HoldsBus
  /\ shadow \in SUBSET Pins /\ port \in SUBSET Pins
  /\ byte \in [Tasks -> SUBSET Pins]
  /\ nibble \in [Tasks -> {"high", "low"}]
  /\ lines \in [en : BOOLEAN, nib : Nibbles \cup {NoNibble}]
  /\ half \in Nibbles \cup {NoNibble}
  /\ wanted \in SUBSET Pins
  /\ stale \in BOOLEAN /\ failed \in BOOLEAN

\* After io_expander_init and lcd_driver_init: all pins high, the display waits for the
\* first nibble of a byte.
Init == /\ pc = [t \in Tasks |-> "idle"]
        /\ io = None /\ bus = None
        /\ shadow = Pins /\ port = Pins
        /\ byte = [t \in Tasks |-> {}]
        /\ nibble = [t \in Tasks |-> "high"]
        /\ lines = [en |-> FALSE, nib |-> NoNibble] /\ half = NoNibble
        /\ wanted = Pins
        /\ stale = FALSE /\ failed = FALSE

Goto(t, from, to) == pc[t] = from /\ pc' = [pc EXCEPT ![t] = to]

--------------------------------------------------------------------------------
(* io_expander_set_level and commit_to_hardware.                                 *)

SetLevel(t) == /\ "setLevel" \in Ops[t]
               /\ Goto(t, "idle", "takeIo")
               /\ UNCHANGED <<bus, expander, display>>

\* xSemaphoreTake(io_mutex).  Mutant: it is not waited for.
NotLocked == TRUE
IoFree == io = None

TakeIo(t) == /\ Goto(t, "takeIo", "load")
             /\ IoFree
             /\ io' = t
             /\ UNCHANGED <<bus, shadow, port, byte, wanted, stale, display>>

\* port_shadow |= (1 << pin) is a load and a store.
Load(t) == /\ Goto(t, "load", "store")
           /\ byte' = [byte EXCEPT ![t] = shadow]
           /\ UNCHANGED <<bus, io, shadow, port, wanted, stale, display>>

Updated(pins, pin, on) == IF on THEN pins \cup {pin} ELSE pins \ {pin}

\* The pin and the level are the arguments of the call.
Store(t) == /\ Goto(t, "store", "commit")
            /\ \E pin \in Pins, on \in BOOLEAN :
                 /\ shadow' = Updated(byte[t], pin, on)
                 /\ wanted' = Updated(wanted, pin, on)
            /\ UNCHANGED <<bus, io, port, byte, stale, display>>

Commit(t) == /\ Goto(t, "commit", "takeBus")
             /\ byte' = [byte EXCEPT ![t] = shadow \cup Inputs]
             /\ UNCHANGED <<bus, io, shadow, port, wanted, stale, display>>

\* xSemaphoreTake(bus_mutex).  Mutant: it is not waited for.
BusFree == bus = None

TakeBus(t) == /\ Goto(t, "takeBus", "write")
              /\ BusFree
              /\ bus' = t
              /\ UNCHANGED <<expander, display>>

\* Mutant: only the pins that are set are written.
OnlySet(t) == port \cup byte[t]
WholePort(t) == byte[t]

Write(t) == /\ Goto(t, "write", "giveBus")
            /\ \/ port' = WholePort(t) /\ stale' = FALSE
               \/ port' \in {port, WholePort(t)} /\ stale' = TRUE
            /\ byte' = [byte EXCEPT ![t] = {}]
            /\ UNCHANGED <<bus, io, shadow, wanted, display>>

GiveBus(t) == /\ Goto(t, "giveBus", "giveIo")
              /\ bus' = None
              /\ UNCHANGED <<expander, display>>

GiveIo(t) == /\ Goto(t, "giveIo", "idle")
             /\ io' = None
             /\ UNCHANGED <<bus, shadow, port, byte, wanted, stale, display>>

--------------------------------------------------------------------------------
(* io_expander_get_level, io_input_task and the sensors: reads that do not take    *)
(* the bus mutex.                                                                  *)

GetLevel(t) == /\ "getLevel" \in Ops[t]
               /\ Goto(t, "idle", "askIo")
               /\ UNCHANGED <<bus, expander, display>>

AskIo(t) == /\ Goto(t, "askIo", "read")
            /\ IoFree
            /\ io' = t
            /\ UNCHANGED <<bus, shadow, port, byte, wanted, stale, display>>

Poll(t) == /\ "poll" \in Ops[t]
           /\ Goto(t, "idle", "poll")
           /\ UNCHANGED <<bus, expander, display>>

ReadByte(t) == /\ Goto(t, "read", "giveIo") \/ Goto(t, "poll", "idle")
               /\ UNCHANGED <<bus, expander, display>>

--------------------------------------------------------------------------------
(* lcd_driver_send_byte: two calls of lcd_driver_write_nibble, each with the bus   *)
(* mutex and three transfers: the nibble, EN up, EN down.                          *)

SendByte(t) == /\ "sendByte" \in Ops[t]
               /\ Goto(t, "idle", "takeLcd")
               /\ UNCHANGED <<bus, expander, display>>

TakeLcd(t) == /\ Goto(t, "takeLcd", "data")
              /\ BusFree
              /\ bus' = t
              /\ UNCHANGED <<expander, display>>

\* The lines of the display change.  It latches the nibble when EN falls.
Drive(en, nib) ==
  /\ lines' = [en |-> en, nib |-> nib]
  /\ IF lines.en /\ ~en
     THEN half' = IF half = NoNibble THEN nib ELSE NoNibble
     ELSE UNCHANGED half

Transfer(t, from, to, en) ==
  \/ /\ Goto(t, from, to)
     /\ Drive(en, Nibble(t))
     /\ UNCHANGED <<bus, expander, nibble, failed>>
  \/ /\ Goto(t, from, "abort")
     /\ Drive(en, Nibble(t)) \/ UNCHANGED <<lines, half>>
     /\ failed' = TRUE
     /\ UNCHANGED <<bus, expander, nibble>>

Data(t) == Transfer(t, "data", "rise", FALSE)
Rise(t) == Transfer(t, "rise", "fall", TRUE)
Fall(t) == Transfer(t, "fall", "giveLcd", FALSE)

\* i2c_bus_unlock.  Mutant: the mutex is kept when a transfer fails.
Kept(t) == IF pc[t] = "abort" THEN bus ELSE None
Given(t) == None

\* The second nibble follows only if the first one has been sent.
GiveLcd(t) == /\ \/ /\ nibble[t] = "high"
                    /\ Goto(t, "giveLcd", "takeLcd")
                    /\ nibble' = [nibble EXCEPT ![t] = "low"]
                 \/ /\ \/ nibble[t] = "low" /\ Goto(t, "giveLcd", "idle")
                       \/ Goto(t, "abort", "idle")
                    /\ nibble' = [nibble EXCEPT ![t] = "high"]
              /\ bus' = Given(t)
              /\ UNCHANGED <<expander, lines, half, failed>>

--------------------------------------------------------------------------------
Expander(t) == \/ TakeIo(t) \/ Load(t) \/ Store(t) \/ Commit(t) \/ TakeBus(t)
               \/ Write(t) \/ GiveBus(t) \/ GiveIo(t) \/ AskIo(t) \/ ReadByte(t)

Display(t) == TakeLcd(t) \/ Data(t) \/ Rise(t) \/ Fall(t) \/ GiveLcd(t)

Call(t) == SetLevel(t) \/ GetLevel(t) \/ SendByte(t) \/ Poll(t)

Next == \E t \in Tasks : Call(t) \/ Expander(t) \/ Display(t)

Spec == Init /\ [][Next]_vars

\* A transfer ends within I2C_MASTER_TIMEOUT_MS.  A mutex goes to the waiting task of
\* the highest priority, and every task sleeps between its calls, so that none waits
\* for ever for a mutex that is given back again and again.
Fairness == \A t \in Tasks : SF_vars(Expander(t) \/ Display(t))

LiveSpec == Spec /\ Fairness

--------------------------------------------------------------------------------
(* Properties.                                                                   *)

\* No call is lost: however many tasks set pins at the same time, the shadow register
\* holds for every pin what the last call for it asked.
LastCallWins == io = None => shadow = wanted

\* The outputs are what the shadow register says, unless the last write failed; the next
\* write that succeeds repairs every pin.
PortFollowsShadow == io = None /\ ~stale => port = shadow \cup Inputs

\* When a task lets EN fall, EN is up with this task's nibble on the lines: nobody has
\* touched the display between its transfers.
StrobeIntact == \A t \in Tasks : pc[t] = "fall" => lines = [en |-> TRUE, nib |-> Nibble(t)]

\* Without a failed transfer the display never loses count of nibbles: when nobody is in
\* the middle of a byte, it waits for the first half of one.
NibblesPaired == (\A t \in Tasks : pc[t] = "idle") /\ ~failed => half = NoNibble

\* No task waits for ever for one of the two mutexes, whatever transfers fail.
CallEnds == \A t \in Tasks : pc[t] # "idle" ~> pc[t] = "idle"
================================================================================
