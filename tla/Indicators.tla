------------------------------- MODULE Indicators --------------------------------
(* sys_ind.c: a signal is some blinks of the command LED and then some beeps.  The  *)
(* buzzer's timer callback and sys_ind_buzzer_sound, which any task may call,      *)
(* share the beep counter and the buzzer's state without a lock, and all timers of *)
(* the firmware share one queue of commands, to which nobody waits to send.        *)
EXTENDS Naturals, Sequences

CONSTANTS
  Callers,     \* the tasks that signal something
  MaxBeeps,    \* the longest sound
  TimerQueue   \* commands the timer queue can hold

ASSUME IndAssumption == MaxBeeps \in Nat \ {0} /\ TimerQueue \in Nat \ {0}

VARIABLES
  pc,        \* per caller: "idle", or where it is in its signal
  beeps,     \* per caller: the beeps its signal ends with
  counter,   \* buzzer_beep_counter
  state,     \* buzzer_state
  buzzer,    \* the pin of the buzzer
  commands,  \* the timer queue
  buzzing,   \* buzzer_timer is active
  lost,      \* history: the last sound could not queue the start of its timer
  dpc,       \* the timer daemon: "idle", in "drain", or where it is in a callback
  level,     \* the daemon's local copy of !buzzer_state, FALSE when it has none
  loaded,    \* the daemon's local copy of the counter, 0 when it has none
  alone,     \* history: the last sound met no other one
  wanted,    \* history: the beeps it asked for
  heard      \* history: the beeps it gave so far

callerVars == <<pc, beeps>>
soundVars == <<counter, state, buzzer, level, loaded, alone, wanted, heard>>
queueVars == <<commands, buzzing, lost>>
indVars == <<callerVars, soundVars, queueVars, dpc>>

\* Where a caller is in sys_ind_buzzer_sound, and the daemon in buzzer_callback.
SoundSteps == {"stop", "count", "on", "flag", "period", "reset"}
Toggling == {"read", "pin", "flag", "load", "store"}
Ending == {"stop", "off", "offFlag"}

Counts == 0 .. 2 * MaxBeeps - 1

IndTypeOK ==
  /\ pc \in [Callers -> {"idle", "stopLed", "blink"} \cup SoundSteps]
  /\ beeps \in [Callers -> 0 .. MaxBeeps]
  /\ counter \in Counts /\ loaded \in Counts
  /\ state \in BOOLEAN /\ level \in BOOLEAN
  /\ buzzer \in BOOLEAN
  /\ commands \in Seq({"start", "stop", "other"}) /\ Len(commands) <= TimerQueue
  /\ buzzing \in BOOLEAN /\ lost \in BOOLEAN
  /\ dpc \in {"idle", "drain"} \cup Toggling \cup Ending
  /\ alone \in BOOLEAN /\ wanted \in 0 .. MaxBeeps /\ heard \in Nat

\* sys_ind_init: the timers exist, none of them runs.
IndInit == /\ pc = [t \in Callers |-> "idle"]
           /\ beeps = [t \in Callers |-> 0]
           /\ counter = 0 /\ state = FALSE /\ level = FALSE /\ loaded = 0
           /\ buzzer = FALSE
           /\ commands = <<>> /\ buzzing = FALSE /\ lost = FALSE
           /\ dpc = "idle"
           /\ alone = FALSE /\ wanted = 0 /\ heard = 0

--------------------------------------------------------------------------------
(* A signal blinks, or beeps, or does the one after the other.                   *)

Goto(t, to) == pc' = [pc EXCEPT ![t] = to]

Signal(t, blink, n) == /\ pc[t] = "idle"
                       /\ Goto(t, IF blink THEN "stopLed" ELSE "stop")
                       /\ beeps' = [beeps EXCEPT ![t] = n]
                       /\ UNCHANGED <<soundVars, queueVars, dpc>>

\* Commands for the timers are sent with no time to wait.
Room == Len(commands) < TimerQueue
Send(c) == IF Room THEN commands' = Append(commands, c) ELSE UNCHANGED commands

\* sys_ind_led_io_execution: the caller sleeps while the LED blinks.  The pin is a matter
\* of IoBus, and the timer that is stopped here is never started.
StopLed(t) == /\ pc[t] = "stopLed"
              /\ Send("other")
              /\ Goto(t, "blink")
              /\ UNCHANGED <<beeps, soundVars, buzzing, lost, dpc>>

Blink(t) == /\ pc[t] = "blink"
            /\ Goto(t, IF beeps[t] > 0 THEN "stop" ELSE "idle")
            /\ UNCHANGED <<beeps, soundVars, queueVars, dpc>>

--------------------------------------------------------------------------------
(* sys_ind_buzzer_sound                                                          *)

Sounding == \E t \in Callers : pc[t] \in SoundSteps
BuzzerCommands == {"start", "stop"}
BuzzerAtRest == /\ ~buzzing
                /\ \A i \in 1 .. Len(commands) : commands[i] \notin BuzzerCommands
                /\ dpc \in {"idle", "drain"}

StopTimer(t) == /\ pc[t] = "stop"
                /\ Send("stop")
                /\ Goto(t, "count")
                /\ alone' = (/\ BuzzerAtRest /\ ~buzzer
                             /\ \A u \in Callers \ {t} : pc[u] \notin SoundSteps)
                /\ wanted' = IF alone' THEN beeps[t] ELSE 0
                /\ heard' = 0
                /\ UNCHANGED <<beeps, counter, state, buzzer, level, loaded,
                               buzzing, lost, dpc>>

\* Every beep is two turns of the buzzer, and the first turn is made here.
\* Mutant: it is counted with the others.
EveryTurn(n) == 2 * n
TurnsLeft(n) == 2 * n - 1

SetCounter(t) == /\ pc[t] = "count"
                 /\ counter' = TurnsLeft(beeps[t])
                 /\ Goto(t, "on")
                 /\ UNCHANGED <<beeps, state, buzzer, level, loaded, alone, wanted,
                                heard, queueVars, dpc>>

\* The pin of the buzzer, and the beep somebody hears as it comes on.
SetBuzzer(on) == /\ buzzer' = on
                 /\ heard' = IF alone /\ on /\ ~buzzer THEN heard + 1 ELSE heard

BuzzerOn(t) == /\ pc[t] = "on"
               /\ SetBuzzer(TRUE)
               /\ Goto(t, "flag")
               /\ UNCHANGED <<beeps, counter, state, level, loaded, alone, wanted,
                              queueVars, dpc>>

FlagOn(t) == /\ pc[t] = "flag"
             /\ state' = TRUE
             /\ Goto(t, "period")
             /\ UNCHANGED <<beeps, counter, buzzer, level, loaded, alone, wanted,
                            heard, queueVars, dpc>>

\* xTimerChangePeriod starts the timer as well; if it is refused xTimerReset is tried.
\* Mutant: it is not.
NoSecondTry(t) == "idle"
SecondTry(t) == IF pc[t] = "period" THEN "reset" ELSE "idle"

StartTimer(t) == /\ pc[t] \in {"period", "reset"}
                 /\ Send("start")
                 /\ Goto(t, IF Room THEN "idle" ELSE SecondTry(t))
                 /\ beeps' = [beeps EXCEPT ![t] = 0]
                 /\ lost' = (~Room /\ pc[t] = "reset")
                 /\ UNCHANGED <<soundVars, buzzing, dpc>>

--------------------------------------------------------------------------------
(* The timer daemon.  After a callback, and when a command wakes it, it carries out *)
(* commands until there is none; then it calls what has expired.                 *)

TakeCommand == /\ dpc \in {"idle", "drain"} /\ commands # <<>>
               /\ dpc' = "drain"
               /\ commands' = Tail(commands)
               /\ buzzing' = (\/ Head(commands) = "start"
                              \/ buzzing /\ Head(commands) # "stop")
               /\ UNCHANGED <<callerVars, soundVars, lost>>

Drained == /\ dpc = "drain" /\ commands = <<>>
           /\ dpc' = "idle"
           /\ UNCHANGED <<callerVars, soundVars, queueVars>>

\* buzzer_callback
BuzzerTick == /\ dpc = "idle" /\ buzzing
              /\ dpc' = IF counter > 0 THEN "read" ELSE "stop"
              /\ UNCHANGED <<callerVars, soundVars, queueVars>>

ReadState == /\ dpc = "read"
             /\ level' = ~state
             /\ dpc' = "pin"
             /\ UNCHANGED <<callerVars, counter, state, buzzer, loaded, alone, wanted, heard,
                            queueVars>>

TurnBuzzer == /\ dpc = "pin"
              /\ SetBuzzer(level)
              /\ dpc' = "flag"
              /\ UNCHANGED <<callerVars, counter, state, level, loaded, alone, wanted,
                             queueVars>>

TurnFlag == /\ dpc = "flag"
            /\ state' = level
            /\ level' = FALSE
            /\ dpc' = "load"
            /\ UNCHANGED <<callerVars, counter, buzzer, loaded, alone, wanted, heard,
                           queueVars>>

\* buzzer_beep_counter-- is a load and a store.
LoadCounter == /\ dpc = "load"
               /\ loaded' = counter
               /\ dpc' = "store"
               /\ UNCHANGED <<callerVars, counter, state, buzzer, level, alone, wanted, heard,
                              queueVars>>

StoreCounter == /\ dpc = "store"
                /\ counter' = loaded - 1 /\ loaded' = 0
                /\ dpc' = "drain"
                /\ UNCHANGED <<callerVars, state, buzzer, level, alone, wanted, heard,
                               queueVars>>

EndStop == /\ dpc = "stop"
           /\ Send("stop")
           /\ dpc' = "off"
           /\ UNCHANGED <<callerVars, soundVars, buzzing, lost>>

\* The end of a sound.  Mutant: the buzzer is left as the last turn left it.
AsItIs == buzzer
Silent == FALSE

EndOff == /\ dpc = "off"
          /\ SetBuzzer(Silent)
          /\ dpc' = "offFlag"
          /\ UNCHANGED <<callerVars, counter, state, level, loaded, alone, wanted,
                         queueVars>>

EndFlag == /\ dpc = "offFlag"
           /\ state' = FALSE
           /\ dpc' = "drain"
           /\ UNCHANGED <<callerVars, counter, buzzer, level, loaded, alone, wanted, heard,
                          queueVars>>

\* A command for another timer: sys_ind_led_eth_packet_activity sends one for every
\* packet that comes in.
OtherCommand == /\ Room
                /\ Send("other")
                /\ UNCHANGED <<callerVars, soundVars, buzzing, lost, dpc>>

--------------------------------------------------------------------------------
SignalStep(t) == \/ StopLed(t) \/ Blink(t)
                 \/ StopTimer(t) \/ SetCounter(t) \/ BuzzerOn(t) \/ FlagOn(t)
                 \/ StartTimer(t)

Callback == \/ ReadState \/ TurnBuzzer \/ TurnFlag \/ LoadCounter \/ StoreCounter
            \/ EndStop \/ EndOff \/ EndFlag

\* What goes on without any signal.
IndServices == \/ TakeCommand \/ Drained \/ BuzzerTick \/ Callback \/ OtherCommand

\* The device restarts.
IndReset == /\ pc' = [t \in Callers |-> "idle"]
            /\ beeps' = [t \in Callers |-> 0]
            /\ counter' = 0 /\ state' = FALSE /\ level' = FALSE /\ loaded' = 0
            /\ buzzer' = FALSE
            /\ commands' = <<>> /\ buzzing' = FALSE /\ lost' = FALSE
            /\ dpc' = "idle"
            /\ alone' = FALSE /\ wanted' = 0 /\ heard' = 0

IndNext == \/ \E t \in Callers :
                \/ \E blink \in BOOLEAN, n \in 0 .. MaxBeeps :
                     (blink \/ n > 0) /\ Signal(t, blink, n)
                \/ SignalStep(t)
           \/ IndServices
           \/ IndReset

IndSpec == IndInit /\ [][IndNext]_indVars

\* Every signal and every callback goes on, and the daemon neglects neither its commands
\* nor an expired timer.  Nothing is assumed of packets, nor of room in the queue.
IndFairness == /\ \A t \in Callers : WF_indVars(SignalStep(t))
               /\ WF_indVars(Callback) /\ WF_indVars(TakeCommand)
               /\ SF_indVars(Drained) /\ SF_indVars(BuzzerTick)

--------------------------------------------------------------------------------
(* Properties.                                                                   *)

\* buzzer_timer runs once the commands that wait now are carried out.
WillBuzz == \E i \in 0 .. Len(commands) :
              /\ IF i = 0 THEN buzzing ELSE commands[i] = "start"
              /\ \A j \in i + 1 .. Len(commands) : commands[j] \notin BuzzerCommands

\* The buzzer is never left on: whatever sounds and callbacks met, when none of them is
\* under way a buzzer that is on has its timer, or the timer queue refused it.
BuzzerHasTimer == buzzer /\ ~Sounding /\ dpc \notin {"off", "offFlag"} => WillBuzz \/ lost

\* sys_ind.h: "How many beeps."  A sound that began when the buzzer was at rest, and that
\* no other one joined, has been heard as often as was asked when it is over.
BeepsAsAsked == alone /\ BuzzerAtRest /\ ~Sounding /\ ~lost => heard = wanted /\ ~buzzer

\* A tone ends, unless the queue refused its timer or another sound begins.  Packets must
\* leave the daemon time to carry out all commands now and then.
ToneEnds == []<>(commands = <<>>) => (buzzer ~> ~buzzer \/ lost \/ Sounding)
================================================================================
