----------------------------- MODULE IndicatorsProofs ----------------------------
(* The indicators and the requests that use them, for any number of tasks, sounds  *)
(* of any length and any timer queue: the buzzer is never left on without a timer  *)
(* that turns it off, and every request is settled.                                *)
EXTENDS Requests, SequenceTheorems, TLAPS

\* A sound that is set up has beeps, and the callback counts down only what is there.
CountInv == /\ \A t \in Callers : pc[t] \in {"stop", "count"} => beeps[t] > 0
            /\ dpc \in {"read", "pin", "flag", "load"} => counter > 0
            /\ dpc = "store" => loaded > 0

\* With no sound being set up and none refused, the timer runs, or is about to, whenever
\* the buzzer is on, a callback will go on, or the daemon is about to call one.
TimerInv == ~Sounding /\ ~lost =>
              /\ buzzer /\ dpc # "off" => WillBuzz
              /\ dpc \in Toggling \cup {"stop"} => WillBuzz
              /\ dpc = "idle" /\ buzzing => WillBuzz

AllCommands == {"start", "stop", "other"}

--------------------------------------------------------------------------------
(* What sending and taking a command does to the queue.                          *)

\* A command that is sent finds room or is dropped: the queue keeps its bound.
LEMMA SentType ==
  ASSUME commands \in Seq(AllCommands), Len(commands) <= TimerQueue,
         NEW c \in AllCommands, Send(c)
  PROVE  commands' \in Seq(AllCommands) /\ Len(commands') <= TimerQueue
<1>1. CASE Room
  <2>1. commands' = Append(commands, c) BY <1>1 DEF Send
  <2>2. commands' \in Seq(AllCommands) /\ Len(commands') = Len(commands) + 1
    BY <2>1, AppendProperties
  <2>3. Len(commands) \in Nat BY LenProperties
  <2> QED BY <1>1, <2>2, <2>3, IndAssumption DEF Room
<1>2. CASE ~Room
  BY <1>2 DEF Send
<1> QED BY <1>1, <1>2

\* A command that is taken leaves the others.
LEMMA TakenType ==
  ASSUME commands \in Seq(AllCommands), Len(commands) <= TimerQueue, commands # <<>>
  PROVE  /\ Head(commands) \in AllCommands /\ Head(commands) = commands[1]
         /\ Tail(commands) \in Seq(AllCommands)
         /\ Len(Tail(commands)) = Len(commands) - 1
         /\ Len(Tail(commands)) <= TimerQueue
         /\ \A i \in 1 .. Len(commands) - 1 : Tail(commands)[i] = commands[i + 1]
<1>1. Len(commands) \in Nat BY LenProperties
<1>2. /\ Head(commands) \in AllCommands
      /\ Tail(commands) \in Seq(AllCommands)
      /\ Len(Tail(commands)) = Len(commands) - 1
  BY HeadTailProperties
<1>3. /\ Head(commands) = commands[1]
      /\ \A i \in 1 .. Len(commands) - 1 : Tail(commands)[i] = commands[i + 1]
  OBVIOUS
<1> QED BY <1>1, <1>2, <1>3, IndAssumption

\* A start that is queued will be the last word.
LEMMA SentStart ==
  ASSUME commands \in Seq(AllCommands), commands' = Append(commands, "start")
  PROVE  WillBuzz'
<1> DEFINE n == Len(commands) + 1
<1>1. Len(commands) \in Nat BY LenProperties
<1>2. Len(commands') = n /\ commands'[n] = "start" BY AppendProperties
<1>3. n \in 0 .. Len(commands') /\ n # 0 BY <1>1, <1>2
<1>4. \A j \in n + 1 .. Len(commands') : commands'[j] \notin BuzzerCommands
  BY <1>1, <1>2
<1> HIDE DEF n
<1> QED BY <1>2, <1>3, <1>4 DEF WillBuzz

\* A command for another timer changes nothing.
LEMMA SentOther ==
  ASSUME commands \in Seq(AllCommands), WillBuzz, Send("other"), buzzing' = buzzing
  PROVE  WillBuzz'
<1>1. CASE ~Room
  BY <1>1 DEF Send, WillBuzz
<1>2. CASE Room
  <2>1. commands' = Append(commands, "other") BY <1>2 DEF Send
  <2>2. Len(commands) \in Nat BY LenProperties
  <2>3. /\ Len(commands') = Len(commands) + 1
        /\ \A j \in 1 .. Len(commands) : commands'[j] = commands[j]
        /\ commands'[Len(commands) + 1] = "other"
    BY <2>1, AppendProperties
  <2>4. PICK i \in 0 .. Len(commands) :
          /\ IF i = 0 THEN buzzing ELSE commands[i] = "start"
          /\ \A j \in i + 1 .. Len(commands) : commands[j] \notin BuzzerCommands
    BY DEF WillBuzz
  <2>5. i \in 0 .. Len(commands') BY <2>2, <2>3
  <2>6. IF i = 0 THEN buzzing' ELSE commands'[i] = "start" BY <2>2, <2>3, <2>4
  <2>7. ASSUME NEW j \in i + 1 .. Len(commands')
        PROVE  commands'[j] \notin BuzzerCommands
    <3>1. CASE j = Len(commands) + 1 BY <2>3, <3>1 DEF BuzzerCommands
    <3>2. CASE j # Len(commands) + 1
      <4>1. j \in i + 1 .. Len(commands) /\ j \in 1 .. Len(commands)
        BY <2>2, <2>3, <2>7, <3>2
      <4> QED BY <2>3, <2>4, <4>1
    <3> QED BY <3>1, <3>2
  <2> QED BY <2>5, <2>6, <2>7 DEF WillBuzz
<1> QED BY <1>1, <1>2

\* Taking a command brings about what was announced.
LEMMA TakenBuzz ==
  ASSUME commands \in Seq(AllCommands), Len(commands) <= TimerQueue, WillBuzz, TakeCommand
  PROVE  WillBuzz'
<1>1. /\ commands # <<>> /\ commands' = Tail(commands)
      /\ buzzing' = (Head(commands) = "start" \/ (buzzing /\ Head(commands) # "stop"))
  BY DEF TakeCommand
<1>2. Len(commands) \in Nat BY LenProperties
<1>3. /\ Head(commands) = commands[1] /\ Len(commands') = Len(commands) - 1
      /\ \A i \in 1 .. Len(commands) - 1 : commands'[i] = commands[i + 1]
  BY <1>1, TakenType
<1>4. Len(commands') \in Nat
  BY <1>1, TakenType, LenProperties
<1>5. PICK i \in 0 .. Len(commands) :
        /\ IF i = 0 THEN buzzing ELSE commands[i] = "start"
        /\ \A j \in i + 1 .. Len(commands) : commands[j] \notin BuzzerCommands
  BY DEF WillBuzz
<1>6. ASSUME NEW k \in 0 .. Len(commands'), i = k + 1 \/ (i = 0 /\ k = 0)
      PROVE  \A j \in k + 1 .. Len(commands') : commands'[j] \notin BuzzerCommands
  <2> TAKE j \in k + 1 .. Len(commands')
  <2>1. j \in 1 .. Len(commands) - 1 /\ j + 1 \in i + 1 .. Len(commands)
    BY <1>2, <1>3, <1>4, <1>6
  <2>2. commands'[j] = commands[j + 1] BY <1>3, <2>1
  <2> QED BY <1>5, <2>1, <2>2
<1>7. CASE i = 0
  <2>1. 1 \in i + 1 .. Len(commands) BY <1>2, <1>3, <1>4, <1>7
  <2>2. commands[1] \notin BuzzerCommands BY <1>5, <2>1
  <2>3. buzzing' BY <1>1, <1>3, <1>5, <1>7, <2>2 DEF BuzzerCommands
  <2>4. 0 \in 0 .. Len(commands') BY <1>4
  <2> QED BY <1>6, <1>7, <2>3, <2>4 DEF WillBuzz
<1>8. CASE i = 1
  <2>0. commands[1] = "start" BY <1>5, <1>8
  <2>1. buzzing' BY <1>1, <1>3, <2>0
  <2>2. 0 \in 0 .. Len(commands') BY <1>4
  <2> QED BY <1>6, <1>8, <2>1, <2>2 DEF WillBuzz
<1>9. CASE i > 1
  <2> DEFINE k == i - 1
  <2>1. k \in 1 .. Len(commands) - 1 /\ k \in 0 .. Len(commands') /\ i = k + 1 /\ k # 0
    BY <1>2, <1>3, <1>9
  <2>2. commands'[k] = "start" BY <1>3, <1>5, <1>9, <2>1
  <2>3. \A j \in k + 1 .. Len(commands') : commands'[j] \notin BuzzerCommands
    BY <1>6, <2>1
  <2> HIDE DEF k
  <2> QED BY <2>1, <2>2, <2>3 DEF WillBuzz
<1> QED BY <1>5, <1>7, <1>8, <1>9

--------------------------------------------------------------------------------
(* The type invariant, and the counter.                                          *)

Places == {"idle", "stopLed", "blink"} \cup SoundSteps

\* What a step of a caller may change of its own variables.
LEMMA CallerMoves ==
  ASSUME IndTypeOK, NEW t \in Callers, NEW to \in Places, Goto(t, to)
  PROVE  /\ pc' \in [Callers -> Places]
         /\ pc'[t] = to
         /\ \A u \in Callers \ {t} : pc'[u] = pc[u]
  BY DEF Goto, IndTypeOK, Places

LEMMA CallerStep ==
  ASSUME IndTypeOK, CountInv, NEW t \in Callers,
         \/ \E blink \in BOOLEAN, n \in 0 .. MaxBeeps :
              (blink \/ n > 0) /\ Signal(t, blink, n)
         \/ SignalStep(t)
  PROVE  IndTypeOK' /\ CountInv'
<1> USE DEF Places, SoundSteps
<1>0. /\ commands \in Seq(AllCommands) /\ Len(commands) <= TimerQueue
      /\ beeps[t] \in 0 .. MaxBeeps /\ MaxBeeps \in Nat /\ heard \in Nat
  BY IndAssumption DEF IndTypeOK, AllCommands
<1>1. ASSUME NEW blink \in BOOLEAN, NEW n \in 0 .. MaxBeeps, blink \/ n > 0,
             Signal(t, blink, n)
      PROVE  IndTypeOK' /\ CountInv'
  <2>1. Goto(t, IF blink THEN "stopLed" ELSE "stop") BY <1>1 DEF Signal
  <2>2. /\ pc' \in [Callers -> Places]
        /\ pc'[t] = IF blink THEN "stopLed" ELSE "stop"
        /\ \A u \in Callers \ {t} : pc'[u] = pc[u]
    BY <2>1, CallerMoves
  <2>3. /\ beeps' \in [Callers -> 0 .. MaxBeeps]
        /\ beeps'[t] = n /\ \A u \in Callers \ {t} : beeps'[u] = beeps[u]
        /\ UNCHANGED <<soundVars, queueVars, dpc>>
    BY <1>1 DEF Signal, IndTypeOK
  <2>4. IndTypeOK' BY <2>2, <2>3 DEF IndTypeOK, soundVars, queueVars
  <2>5. CountInv' BY <1>1, <2>2, <2>3 DEF CountInv, soundVars
  <2> QED BY <2>4, <2>5
<1>2. CASE StopLed(t)
  <2>1. Goto(t, "blink") /\ Send("other") BY <1>2 DEF StopLed
  <2>2. commands' \in Seq(AllCommands) /\ Len(commands') <= TimerQueue
    BY <1>0, <2>1, SentType DEF AllCommands
  <2>3. /\ pc' \in [Callers -> Places] /\ pc'[t] = "blink"
        /\ \A u \in Callers \ {t} : pc'[u] = pc[u]
    BY <2>1, CallerMoves
  <2>4. UNCHANGED <<beeps, soundVars, buzzing, lost, dpc>> BY <1>2 DEF StopLed
  <2> QED BY <2>2, <2>3, <2>4 DEF IndTypeOK, CountInv, soundVars, AllCommands
<1>3. CASE Blink(t)
  <2>1. Goto(t, IF beeps[t] > 0 THEN "stop" ELSE "idle") BY <1>3 DEF Blink
  <2>2. /\ pc' \in [Callers -> Places]
        /\ pc'[t] = IF beeps[t] > 0 THEN "stop" ELSE "idle"
        /\ \A u \in Callers \ {t} : pc'[u] = pc[u]
    BY <2>1, CallerMoves
  <2>3. UNCHANGED <<beeps, soundVars, queueVars, dpc>> BY <1>3 DEF Blink
  <2> QED BY <2>2, <2>3 DEF IndTypeOK, CountInv, soundVars, queueVars
<1>4. CASE StopTimer(t)
  <2>1. Goto(t, "count") /\ Send("stop") /\ pc[t] = "stop" BY <1>4 DEF StopTimer
  <2>2. commands' \in Seq(AllCommands) /\ Len(commands') <= TimerQueue
    BY <1>0, <2>1, SentType DEF AllCommands
  <2>3. /\ pc' \in [Callers -> Places] /\ pc'[t] = "count"
        /\ \A u \in Callers \ {t} : pc'[u] = pc[u]
    BY <2>1, CallerMoves
  <2>4. UNCHANGED <<beeps, counter, state, buzzer, level, loaded, buzzing, lost, dpc>>
    BY <1>4 DEF StopTimer
  <2>5. alone' \in BOOLEAN BY <1>4 DEF StopTimer
  <2>6. wanted' \in 0 .. MaxBeeps /\ heard' = 0 BY <1>0, <1>4 DEF StopTimer
  <2>7. IndTypeOK' BY <2>2, <2>3, <2>4, <2>5, <2>6 DEF IndTypeOK, AllCommands
  <2>8. CountInv' BY <2>1, <2>3, <2>4 DEF CountInv
  <2> QED BY <2>7, <2>8
<1>5. CASE SetCounter(t)
  <2>1. Goto(t, "on") /\ pc[t] = "count" /\ counter' = 2 * beeps[t] - 1
    BY <1>5 DEF SetCounter, TurnsLeft
  <2>2. beeps[t] > 0 BY <2>1 DEF CountInv
  <2>3. counter' \in Counts /\ counter' > 0 BY <1>0, <2>1, <2>2 DEF Counts
  <2>4. /\ pc' \in [Callers -> Places] /\ pc'[t] = "on"
        /\ \A u \in Callers \ {t} : pc'[u] = pc[u]
    BY <2>1, CallerMoves
  <2>5. UNCHANGED <<beeps, state, buzzer, level, loaded, alone, wanted, heard, queueVars, dpc>>
    BY <1>5 DEF SetCounter
  <2> QED BY <2>3, <2>4, <2>5 DEF IndTypeOK, CountInv, queueVars
<1>6. CASE BuzzerOn(t)
  <2>1. Goto(t, "flag") /\ buzzer' = TRUE /\ heard' \in Nat
    BY <1>0, <1>6 DEF BuzzerOn, SetBuzzer
  <2>2. /\ pc' \in [Callers -> Places] /\ pc'[t] = "flag"
        /\ \A u \in Callers \ {t} : pc'[u] = pc[u]
    BY <2>1, CallerMoves
  <2>3. UNCHANGED <<beeps, counter, state, level, loaded, alone, wanted, queueVars, dpc>>
    BY <1>6 DEF BuzzerOn
  <2> QED BY <2>1, <2>2, <2>3 DEF IndTypeOK, CountInv, queueVars
<1>7. CASE FlagOn(t)
  <2>1. Goto(t, "period") /\ state' = TRUE BY <1>7 DEF FlagOn
  <2>2. /\ pc' \in [Callers -> Places] /\ pc'[t] = "period"
        /\ \A u \in Callers \ {t} : pc'[u] = pc[u]
    BY <2>1, CallerMoves
  <2>3. UNCHANGED <<beeps, counter, buzzer, level, loaded, alone, wanted, heard, queueVars, dpc>>
    BY <1>7 DEF FlagOn
  <2> QED BY <2>1, <2>2, <2>3 DEF IndTypeOK, CountInv, queueVars
<1>8. CASE StartTimer(t)
  <2> DEFINE to == IF Room THEN "idle" ELSE SecondTry(t)
  <2>1. to \in {"idle", "reset"} BY DEF SecondTry
  <2>2. Goto(t, to) /\ Send("start") BY <1>8 DEF StartTimer
  <2>3. commands' \in Seq(AllCommands) /\ Len(commands') <= TimerQueue
    BY <1>0, <2>2, SentType DEF AllCommands
  <2> HIDE DEF to
  <2>4. /\ pc' \in [Callers -> Places] /\ pc'[t] = to
        /\ \A u \in Callers \ {t} : pc'[u] = pc[u]
    BY <2>1, <2>2, CallerMoves
  <2>5. /\ beeps' \in [Callers -> 0 .. MaxBeeps]
        /\ \A u \in Callers \ {t} : beeps'[u] = beeps[u]
    BY <1>0, <1>8 DEF StartTimer, IndTypeOK
  <2>6. UNCHANGED <<soundVars, buzzing, dpc>> BY <1>8 DEF StartTimer
  <2>7. lost' \in BOOLEAN BY <1>8 DEF StartTimer
  <2>8. IndTypeOK' BY <2>3, <2>4, <2>5, <2>6, <2>7 DEF IndTypeOK, soundVars, AllCommands
  <2>9. CountInv' BY <2>1, <2>4, <2>5, <2>6 DEF CountInv, soundVars
  <2> QED BY <2>8, <2>9
<1> QED BY <1>1, <1>2, <1>3, <1>4, <1>5, <1>6, <1>7, <1>8 DEF SignalStep

LEMMA ServiceStep ==
  ASSUME IndTypeOK, CountInv, IndServices
  PROVE  IndTypeOK' /\ CountInv'
<1>0. /\ commands \in Seq(AllCommands) /\ Len(commands) <= TimerQueue
      /\ MaxBeeps \in Nat /\ heard \in Nat /\ counter \in Counts /\ loaded \in Counts
  BY IndAssumption DEF IndTypeOK, AllCommands
<1>1. CASE TakeCommand
  <2>1. commands' \in Seq(AllCommands) /\ Len(commands') <= TimerQueue
    BY <1>0, <1>1, TakenType DEF TakeCommand
  <2>2. buzzing' \in BOOLEAN /\ dpc' = "drain" /\ UNCHANGED <<callerVars, soundVars, lost>>
    BY <1>1 DEF TakeCommand
  <2> QED BY <2>1, <2>2 DEF IndTypeOK, CountInv, callerVars, soundVars, AllCommands
<1>2. CASE Drained
  BY <1>2 DEF Drained, IndTypeOK, CountInv, callerVars, soundVars, queueVars
<1>3. CASE BuzzerTick
  BY <1>0, <1>3 DEF BuzzerTick, IndTypeOK, CountInv, callerVars, soundVars, queueVars,
                    Toggling, Ending, Counts
<1>4. CASE ReadState
  BY <1>4 DEF ReadState, IndTypeOK, CountInv, callerVars, queueVars, Toggling
<1>5. CASE TurnBuzzer
  <2>1. buzzer' = level /\ heard' \in Nat BY <1>0, <1>5 DEF TurnBuzzer, SetBuzzer
  <2> QED BY <1>5, <2>1 DEF TurnBuzzer, IndTypeOK, CountInv, callerVars, queueVars, Toggling
<1>6. CASE TurnFlag
  BY <1>6 DEF TurnFlag, IndTypeOK, CountInv, callerVars, queueVars, Toggling
<1>7. CASE LoadCounter
  BY <1>7 DEF LoadCounter, IndTypeOK, CountInv, callerVars, queueVars, Toggling
<1>8. CASE StoreCounter
  <2>1. loaded > 0 /\ counter' = loaded - 1 /\ loaded' = 0 /\ dpc' = "drain"
    BY <1>8 DEF StoreCounter, CountInv
  <2>2. counter' \in Counts /\ loaded' \in Counts BY <1>0, <2>1 DEF Counts
  <2>3. UNCHANGED <<callerVars, state, buzzer, level, alone, wanted, heard, queueVars>>
    BY <1>8 DEF StoreCounter
  <2> QED BY <2>1, <2>2, <2>3 DEF IndTypeOK, CountInv, callerVars, queueVars
<1>9. CASE EndStop
  <2>1. commands' \in Seq(AllCommands) /\ Len(commands') <= TimerQueue
    BY <1>0, <1>9, SentType DEF EndStop, AllCommands
  <2>2. dpc' = "off" /\ UNCHANGED <<callerVars, soundVars, buzzing, lost>>
    BY <1>9 DEF EndStop
  <2> QED BY <2>1, <2>2 DEF IndTypeOK, CountInv, callerVars, soundVars, Ending, AllCommands
<1>10. CASE EndOff
  <2>1. buzzer' = FALSE /\ heard' \in Nat BY <1>0, <1>10 DEF EndOff, SetBuzzer, Silent
  <2> QED BY <1>10, <2>1 DEF EndOff, IndTypeOK, CountInv, callerVars, queueVars, Ending
<1>11. CASE EndFlag
  BY <1>11 DEF EndFlag, IndTypeOK, CountInv, callerVars, queueVars
<1>12. CASE OtherCommand
  <2>1. commands' \in Seq(AllCommands) /\ Len(commands') <= TimerQueue
    BY <1>0, <1>12, SentType DEF OtherCommand, AllCommands
  <2>2. UNCHANGED <<callerVars, soundVars, buzzing, lost, dpc>> BY <1>12 DEF OtherCommand
  <2> QED BY <2>1, <2>2 DEF IndTypeOK, CountInv, callerVars, soundVars, AllCommands
<1> QED BY <1>1, <1>2, <1>3, <1>4, <1>5, <1>6, <1>7, <1>8, <1>9, <1>10, <1>11, <1>12
        DEF IndServices, Callback

--------------------------------------------------------------------------------
(* The timer of a buzzer that is on.                                             *)

\* A caller's step outside of sys_ind_buzzer_sound.
LEMMA QuietMove ==
  ASSUME IndTypeOK, NEW t \in Callers, NEW to \in Places, Goto(t, to),
         pc[t] \notin SoundSteps
  PROVE  ~Sounding' => ~Sounding
<1>1. \A u \in Callers \ {t} : pc'[u] = pc[u] BY CallerMoves
<1> QED BY <1>1 DEF Sounding

\* A caller's step within it.
LEMMA LoudMove ==
  ASSUME IndTypeOK, NEW t \in Callers, NEW to \in SoundSteps, Goto(t, to)
  PROVE  TimerInv'
<1>1. pc'[t] = to BY CallerMoves DEF Places
<1>2. Sounding' BY <1>1 DEF Sounding
<1> QED BY <1>2 DEF TimerInv

LEMMA CallerTimer ==
  ASSUME IndTypeOK, TimerInv, NEW t \in Callers,
         \/ \E blink \in BOOLEAN, n \in 0 .. MaxBeeps :
              (blink \/ n > 0) /\ Signal(t, blink, n)
         \/ SignalStep(t)
  PROVE  TimerInv'
<1>0. commands \in Seq(AllCommands) BY DEF IndTypeOK, AllCommands
<1>1. ASSUME NEW blink \in BOOLEAN, NEW n \in 0 .. MaxBeeps, Signal(t, blink, n)
      PROVE  TimerInv'
  <2> DEFINE to == IF blink THEN "stopLed" ELSE "stop"
  <2>1. to \in Places /\ Goto(t, to) /\ pc[t] \notin SoundSteps
    BY <1>1 DEF Signal, Places, SoundSteps
  <2> HIDE DEF to
  <2>2. ~Sounding' => ~Sounding BY <2>1, QuietMove
  <2>3. UNCHANGED <<commands, buzzing, lost, buzzer, dpc>>
    BY <1>1 DEF Signal, soundVars, queueVars
  <2>4. WillBuzz => WillBuzz' BY <2>3 DEF WillBuzz
  <2> QED BY <2>2, <2>3, <2>4 DEF TimerInv
<1>2. CASE StopLed(t)
  <2>1. Goto(t, "blink") /\ Send("other") /\ pc[t] \notin SoundSteps
        /\ UNCHANGED <<buzzing, lost, buzzer, dpc>>
    BY <1>2 DEF StopLed, SoundSteps, soundVars
  <2>2. ~Sounding' => ~Sounding BY <2>1, QuietMove DEF Places
  <2>3. WillBuzz => WillBuzz' BY <1>0, <2>1, SentOther
  <2> QED BY <2>1, <2>2, <2>3 DEF TimerInv
<1>3. CASE Blink(t)
  <2> DEFINE to == IF beeps[t] > 0 THEN "stop" ELSE "idle"
  <2>1. to \in Places /\ Goto(t, to) /\ pc[t] \notin SoundSteps
    BY <1>3 DEF Blink, Places, SoundSteps
  <2> HIDE DEF to
  <2>2. ~Sounding' => ~Sounding BY <2>1, QuietMove
  <2>3. UNCHANGED <<commands, buzzing, lost, buzzer, dpc>>
    BY <1>3 DEF Blink, soundVars, queueVars
  <2>4. WillBuzz => WillBuzz' BY <2>3 DEF WillBuzz
  <2> QED BY <2>2, <2>3, <2>4 DEF TimerInv
<1>4. CASE StopTimer(t) BY <1>4, LoudMove DEF StopTimer, SoundSteps
<1>5. CASE SetCounter(t) BY <1>5, LoudMove DEF SetCounter, SoundSteps
<1>6. CASE BuzzerOn(t) BY <1>6, LoudMove DEF BuzzerOn, SoundSteps
<1>7. CASE FlagOn(t) BY <1>7, LoudMove DEF FlagOn, SoundSteps
<1>8. CASE StartTimer(t) /\ Room
  <2>1. commands' = Append(commands, "start") BY <1>8 DEF StartTimer, Send
  <2>2. WillBuzz' BY <1>0, <2>1, SentStart
  <2> QED BY <2>2 DEF TimerInv
<1>9. CASE StartTimer(t) /\ ~Room /\ pc[t] = "period"
  <2>1. Goto(t, "reset") BY <1>9 DEF StartTimer, SecondTry
  <2> QED BY <2>1, LoudMove DEF SoundSteps
<1>10. CASE StartTimer(t) /\ ~Room /\ pc[t] = "reset"
  <2>1. lost' BY <1>10 DEF StartTimer
  <2> QED BY <2>1 DEF TimerInv
<1>11. ASSUME StartTimer(t) PROVE pc[t] \in {"period", "reset"}
  BY <1>11 DEF StartTimer
<1> QED BY <1>1, <1>2, <1>3, <1>4, <1>5, <1>6, <1>7, <1>8, <1>9, <1>10, <1>11
        DEF SignalStep

LEMMA ServiceTimer ==
  ASSUME IndTypeOK, TimerInv, IndServices
  PROVE  TimerInv'
<1>0. commands \in Seq(AllCommands) /\ Len(commands) <= TimerQueue
  BY DEF IndTypeOK, AllCommands
<1> DEFINE Same == UNCHANGED <<pc, commands, buzzing, lost>>
<1>a. Same => (Sounding' <=> Sounding) /\ (WillBuzz' <=> WillBuzz) /\ lost' = lost
  BY DEF Sounding, WillBuzz
<1>1. CASE TakeCommand
  <2>1. /\ dpc \in {"idle", "drain"} /\ dpc' = "drain"
        /\ UNCHANGED <<pc, buzzer, lost>>
    BY <1>1 DEF TakeCommand, callerVars, soundVars
  <2>2. Sounding' <=> Sounding BY <2>1 DEF Sounding
  <2>3. WillBuzz => WillBuzz' BY <1>0, <1>1, TakenBuzz
  <2> QED BY <2>1, <2>2, <2>3 DEF TimerInv, Toggling
<1>2. CASE Drained
  <2>1. /\ commands = <<>> /\ dpc = "drain" /\ dpc' = "idle"
        /\ Same /\ buzzer' = buzzer
    BY <1>2 DEF Drained, callerVars, soundVars, queueVars
  <2>2. buzzing => WillBuzz
    <3>1. Len(commands) = 0 BY <2>1
    <3> QED BY <3>1 DEF WillBuzz
  <2>3. buzzing' = buzzing BY <2>1
  <2> HIDE DEF Same
  <2> QED BY <1>a, <2>1, <2>2, <2>3 DEF TimerInv, Toggling
<1>3. CASE BuzzerTick
  <2>1. /\ dpc = "idle" /\ buzzing /\ dpc' \in {"read", "stop"}
        /\ Same /\ buzzer' = buzzer
    BY <1>3 DEF BuzzerTick, callerVars, soundVars, queueVars
  <2> HIDE DEF Same
  <2> QED BY <1>a, <2>1 DEF TimerInv
<1>4. CASE ReadState \/ TurnFlag \/ LoadCounter
  <2>1. /\ dpc \in Toggling /\ dpc' \in Toggling
        /\ Same /\ buzzer' = buzzer
    BY <1>4 DEF ReadState, TurnFlag, LoadCounter, callerVars, queueVars, Toggling
  <2> HIDE DEF Same
  <2> QED BY <1>a, <2>1 DEF TimerInv, Toggling
<1>5. CASE TurnBuzzer
  <2>1. dpc = "pin" /\ dpc' = "flag" /\ Same
    BY <1>5 DEF TurnBuzzer, callerVars, queueVars
  <2> HIDE DEF Same
  <2> QED BY <1>a, <2>1 DEF TimerInv, Toggling
<1>6. CASE StoreCounter
  <2>1. dpc = "store" /\ dpc' = "drain" /\ Same /\ buzzer' = buzzer
    BY <1>6 DEF StoreCounter, callerVars, queueVars
  <2> HIDE DEF Same
  <2> QED BY <1>a, <2>1 DEF TimerInv, Toggling
<1>7. CASE EndStop
  <2>1. dpc' = "off" BY <1>7 DEF EndStop
  <2> QED BY <2>1 DEF TimerInv, Toggling
<1>8. CASE EndOff
  <2>1. dpc' = "offFlag" /\ ~buzzer' BY <1>8 DEF EndOff, SetBuzzer, Silent
  <2> QED BY <2>1 DEF TimerInv, Toggling
<1>9. CASE EndFlag
  <2>1. dpc = "offFlag" /\ dpc' = "drain" /\ Same /\ buzzer' = buzzer
    BY <1>9 DEF EndFlag, callerVars, queueVars
  <2> HIDE DEF Same
  <2> QED BY <1>a, <2>1 DEF TimerInv, Toggling
<1>10. CASE OtherCommand
  <2>1. Send("other") /\ UNCHANGED <<pc, buzzer, buzzing, lost, dpc>>
    BY <1>10 DEF OtherCommand, callerVars, soundVars
  <2>2. Sounding' <=> Sounding BY <2>1 DEF Sounding
  <2>3. WillBuzz => WillBuzz' BY <1>0, <2>1, SentOther
  <2> QED BY <2>1, <2>2, <2>3 DEF TimerInv
<1> QED BY <1>1, <1>2, <1>3, <1>4, <1>5, <1>6, <1>7, <1>8, <1>9, <1>10
        DEF IndServices, Callback

--------------------------------------------------------------------------------
(* A sound that no other one joins: first a caller sets it up while the daemon has *)
(* nothing to do with the buzzer, and then the daemon alone counts it down.        *)

\* Where a caller has begun to touch the sound.
Busy == {"count", "on", "flag", "period", "reset"}

NoStart == \A i \in 1 .. Len(commands) : commands[i] # "start"

SetUp(t) ==
  /\ \A u \in Callers \ {t} : pc[u] \notin Busy
  /\ ~buzzing /\ dpc \in {"idle", "drain"} /\ NoStart
  /\ pc[t] = "count" => wanted = beeps[t]
  /\ pc[t] # "count" => counter = 2 * wanted - 1
  /\ IF pc[t] \in {"count", "on"} THEN heard = 0 /\ ~buzzer ELSE heard = 1 /\ buzzer
  /\ pc[t] \in {"period", "reset"} => state

\* With c turns left: two for every beep that is not heard yet, and one to end the beep
\* that sounds.
Turns(c) == 2 * heard + c = 2 * wanted + (IF buzzer THEN 1 ELSE 0)

\* The buzzer is turned before the turn is counted.
Running ==
  /\ counter > 0 => WillBuzz
  /\ dpc \in Ending => counter = 0
  /\ dpc = "pin" => level = ~state
  /\ dpc = "store" => loaded = counter
  /\ IF dpc = "flag" THEN level = buzzer ELSE state = buzzer
  /\ Turns(IF dpc \in {"flag", "load", "store"} THEN counter - 1 ELSE counter)

AloneInv ==
  alone => /\ \A t \in Callers : pc[t] \in Busy => SetUp(t)
           /\ (\A t \in Callers : pc[t] \notin Busy) => lost \/ Running

\* Only a start is a start.
LEMMA NoStartSent ==
  ASSUME commands \in Seq(AllCommands), NoStart, NEW c \in AllCommands, c # "start", Send(c)
  PROVE  NoStart'
<1>1. CASE ~Room BY <1>1 DEF Send, NoStart
<1>2. CASE Room
  <2>1. commands' = Append(commands, c) BY <1>2 DEF Send
  <2>2. Len(commands) \in Nat BY LenProperties
  <2>3. /\ Len(commands') = Len(commands) + 1
        /\ \A j \in 1 .. Len(commands) : commands'[j] = commands[j]
        /\ commands'[Len(commands) + 1] = c
    BY <2>1, AppendProperties
  <2>4. ASSUME NEW i \in 1 .. Len(commands') PROVE commands'[i] # "start"
    <3>1. CASE i = Len(commands) + 1 BY <2>3, <3>1
    <3>2. CASE i # Len(commands) + 1
      <4>1. i \in 1 .. Len(commands) BY <2>2, <2>3, <2>4, <3>2
      <4> QED BY <2>3, <4>1 DEF NoStart
    <3> QED BY <3>1, <3>2
  <2> QED BY <2>4 DEF NoStart
<1> QED BY <1>1, <1>2

\* Without a start the timer is not started.
LEMMA NoStartTaken ==
  ASSUME commands \in Seq(AllCommands), Len(commands) <= TimerQueue, NoStart, ~buzzing,
         TakeCommand
  PROVE  NoStart' /\ ~buzzing'
<1>1. /\ commands # <<>> /\ commands' = Tail(commands)
      /\ buzzing' = (Head(commands) = "start" \/ (buzzing /\ Head(commands) # "stop"))
  BY DEF TakeCommand
<1>2. Len(commands) \in Nat /\ Len(commands') \in Nat
  BY <1>1, TakenType, LenProperties
<1>3. /\ Head(commands) = commands[1] /\ Len(commands') = Len(commands) - 1
      /\ \A i \in 1 .. Len(commands) - 1 : commands'[i] = commands[i + 1]
  BY <1>1, TakenType
<1>4. 1 \in 1 .. Len(commands) BY <1>2, <1>3
<1>5. Head(commands) # "start" BY <1>3, <1>4 DEF NoStart
<1>6. ASSUME NEW i \in 1 .. Len(commands') PROVE commands'[i] # "start"
  <2>1. i \in 1 .. Len(commands) - 1 /\ i + 1 \in 1 .. Len(commands)
    BY <1>2, <1>3, <1>6
  <2> QED BY <1>3, <2>1 DEF NoStart
<1> QED BY <1>1, <1>5, <1>6 DEF NoStart

\* What neither touches a sound nor starts its timer leaves it as it is.
LEMMA AloneKept ==
  ASSUME IndTypeOK, AloneInv, NEW t \in Callers,
         pc[t] \notin Busy, pc'[t] \notin Busy,
         \A u \in Callers \ {t} : pc'[u] = pc[u] /\ beeps'[u] = beeps[u],
         UNCHANGED <<soundVars, buzzing, lost, dpc>>,
         Send("other") \/ UNCHANGED commands
  PROVE  AloneInv'
<1>0. commands \in Seq(AllCommands) /\ "other" \in AllCommands
  BY DEF IndTypeOK, AllCommands
<1>1. NoStart => NoStart' BY <1>0, NoStartSent DEF NoStart
<1>2. WillBuzz => WillBuzz' BY <1>0, SentOther DEF WillBuzz
<1>3. Running => Running' BY <1>2 DEF Running, Turns, soundVars
<1>4. ASSUME NEW u \in Callers, pc'[u] \in Busy, SetUp(u) PROVE SetUp(u)'
  <2>1. u # t /\ pc'[u] = pc[u] /\ beeps'[u] = beeps[u] BY <1>4
  <2>2. \A v \in Callers \ {u} : pc'[v] \notin Busy BY <1>4 DEF SetUp
  <2> QED BY <1>1, <1>4, <2>1, <2>2 DEF SetUp, soundVars
<1>5. \A u \in Callers : pc'[u] \in Busy <=> pc[u] \in Busy OBVIOUS
<1> QED BY <1>3, <1>4, <1>5 DEF AloneInv, soundVars

\* The steps of sys_ind_buzzer_sound follow each other.
LEMMA SetUpGoesOn ==
  ASSUME IndTypeOK, AloneInv, NEW t \in Callers, NEW to \in Busy, Goto(t, to),
         pc[t] \in Busy, alone' => alone,
         SetUp(t) => SetUp(t)'
  PROVE  AloneInv'
<1>1. /\ pc'[t] = to /\ \A u \in Callers \ {t} : pc'[u] = pc[u]
  BY CallerMoves DEF Busy, Places, SoundSteps
<1> SUFFICES ASSUME alone' PROVE AloneInv'
  BY DEF AloneInv
<1>2. SetUp(t) /\ SetUp(t)' BY DEF AloneInv
<1>3. \A u \in Callers \ {t} : pc'[u] \notin Busy BY <1>1, <1>2 DEF SetUp
<1>4. \A u \in Callers : pc'[u] \in Busy => u = t BY <1>3
<1> QED BY <1>1, <1>2, <1>4 DEF AloneInv

LEMMA CallerAlone ==
  ASSUME IndTypeOK, AloneInv, NEW t \in Callers,
         \/ \E blink \in BOOLEAN, n \in 0 .. MaxBeeps :
              (blink \/ n > 0) /\ Signal(t, blink, n)
         \/ SignalStep(t)
  PROVE  AloneInv'
<1>0. /\ commands \in Seq(AllCommands) /\ {"start", "stop", "other"} \subseteq AllCommands
      /\ wanted \in Nat /\ heard \in Nat /\ counter \in Nat
      /\ buzzer \in BOOLEAN /\ state \in BOOLEAN /\ beeps[t] \in Nat
  BY IndAssumption DEF IndTypeOK, AllCommands, Counts
<1>1. ASSUME NEW blink \in BOOLEAN, NEW n \in 0 .. MaxBeeps, Signal(t, blink, n)
      PROVE  AloneInv'
  <2> DEFINE to == IF blink THEN "stopLed" ELSE "stop"
  <2>1. to \in Places /\ to \notin Busy /\ Goto(t, to) /\ pc[t] \notin Busy
    BY <1>1 DEF Signal, Places, SoundSteps, Busy
  <2> HIDE DEF to
  <2>2. pc'[t] = to /\ \A u \in Callers \ {t} : pc'[u] = pc[u] BY <2>1, CallerMoves
  <2>3. /\ \A u \in Callers \ {t} : beeps'[u] = beeps[u]
        /\ UNCHANGED <<soundVars, commands, buzzing, lost, dpc>>
    BY <1>1 DEF Signal, queueVars, IndTypeOK
  <2> QED BY <2>1, <2>2, <2>3, AloneKept
<1>2. CASE StopLed(t)
  <2>1. /\ Goto(t, "blink") /\ Send("other") /\ pc[t] \notin Busy
        /\ UNCHANGED <<beeps, soundVars, buzzing, lost, dpc>>
    BY <1>2 DEF StopLed, Busy
  <2>2. pc'[t] = "blink" /\ \A u \in Callers \ {t} : pc'[u] = pc[u]
    BY <2>1, CallerMoves DEF Places
  <2> QED BY <2>1, <2>2, AloneKept DEF Busy
<1>3. CASE Blink(t)
  <2> DEFINE to == IF beeps[t] > 0 THEN "stop" ELSE "idle"
  <2>1. to \in Places /\ to \notin Busy /\ Goto(t, to) /\ pc[t] \notin Busy
    BY <1>3 DEF Blink, Places, SoundSteps, Busy
  <2> HIDE DEF to
  <2>2. pc'[t] = to /\ \A u \in Callers \ {t} : pc'[u] = pc[u] BY <2>1, CallerMoves
  <2>3. UNCHANGED <<beeps, soundVars, commands, buzzing, lost, dpc>>
    BY <1>3 DEF Blink, queueVars
  <2> QED BY <2>1, <2>2, <2>3, AloneKept
<1>4. CASE StopTimer(t)
  <2> SUFFICES ASSUME alone' PROVE AloneInv'
    BY DEF AloneInv
  <2>1. /\ Goto(t, "count") /\ Send("stop")
        /\ UNCHANGED <<beeps, counter, state, buzzer, buzzing, dpc>>
        /\ wanted' = beeps[t] /\ heard' = 0
        /\ BuzzerAtRest /\ ~buzzer /\ \A u \in Callers \ {t} : pc[u] \notin SoundSteps
    BY <1>4 DEF StopTimer
  <2>2. pc'[t] = "count" /\ \A u \in Callers \ {t} : pc'[u] = pc[u]
    BY <2>1, CallerMoves DEF Places, SoundSteps
  <2>3. \A u \in Callers \ {t} : pc'[u] \notin Busy
    BY <2>1, <2>2 DEF Busy, SoundSteps
  <2>4. NoStart BY <2>1 DEF BuzzerAtRest, BuzzerCommands, NoStart
  <2>5. NoStart' BY <1>0, <2>1, <2>4, NoStartSent
  <2>6. SetUp(t)' BY <2>1, <2>2, <2>3, <2>5 DEF SetUp, BuzzerAtRest
  <2>7. \A u \in Callers : pc'[u] \in Busy => u = t BY <2>3
  <2>8. pc'[t] \in Busy BY <2>2 DEF Busy
  <2> QED BY <2>6, <2>7, <2>8 DEF AloneInv
<1>5. CASE SetCounter(t)
  <2>1. /\ Goto(t, "on") /\ pc[t] = "count" /\ counter' = 2 * beeps[t] - 1
        /\ UNCHANGED <<beeps, state, buzzer, alone, wanted, heard, commands, buzzing, dpc>>
    BY <1>5 DEF SetCounter, TurnsLeft, queueVars
  <2>2. pc'[t] = "on" /\ \A u \in Callers \ {t} : pc'[u] = pc[u]
    BY <2>1, CallerMoves DEF Places, SoundSteps
  <2>3. SetUp(t) => SetUp(t)' BY <2>1, <2>2 DEF SetUp, NoStart
  <2> QED BY <2>1, <2>3, SetUpGoesOn DEF Busy
<1>6. CASE BuzzerOn(t)
  <2>1. /\ Goto(t, "flag") /\ pc[t] = "on" /\ buzzer'
        /\ heard' = IF alone /\ ~buzzer THEN heard + 1 ELSE heard
        /\ UNCHANGED <<beeps, counter, state, alone, wanted, commands, buzzing, dpc>>
    BY <1>6 DEF BuzzerOn, SetBuzzer, queueVars
  <2>2. pc'[t] = "flag" /\ \A u \in Callers \ {t} : pc'[u] = pc[u]
    BY <2>1, CallerMoves DEF Places, SoundSteps
  <2>3. alone /\ SetUp(t) => SetUp(t)' BY <2>1, <2>2 DEF SetUp, NoStart
  <2>4. CASE alone BY <2>1, <2>3, <2>4, SetUpGoesOn DEF Busy
  <2>5. CASE ~alone BY <2>1, <2>5 DEF AloneInv
  <2> QED BY <2>4, <2>5
<1>7. CASE FlagOn(t)
  <2>1. /\ Goto(t, "period") /\ pc[t] = "flag" /\ state'
        /\ UNCHANGED <<beeps, counter, buzzer, alone, wanted, heard, commands, buzzing, dpc>>
    BY <1>7 DEF FlagOn, queueVars
  <2>2. pc'[t] = "period" /\ \A u \in Callers \ {t} : pc'[u] = pc[u]
    BY <2>1, CallerMoves DEF Places, SoundSteps
  <2>3. SetUp(t) => SetUp(t)' BY <2>1, <2>2 DEF SetUp, NoStart
  <2> QED BY <2>1, <2>3, SetUpGoesOn DEF Busy
<1>8. CASE StartTimer(t)
  <2>1. /\ pc[t] \in {"period", "reset"} /\ Send("start")
        /\ Goto(t, IF Room THEN "idle" ELSE SecondTry(t))
        /\ lost' = (~Room /\ pc[t] = "reset")
        /\ UNCHANGED <<soundVars, buzzing, dpc>>
    BY <1>8 DEF StartTimer
  <2>2. CASE ~Room /\ pc[t] = "period"
    <3>1. Goto(t, "reset") /\ UNCHANGED commands BY <2>1, <2>2 DEF SecondTry, Send
    <3>2. pc'[t] = "reset" /\ \A u \in Callers \ {t} : pc'[u] = pc[u]
      BY <3>1, CallerMoves DEF Places, SoundSteps
    <3>3. SetUp(t) => SetUp(t)' BY <2>1, <2>2, <3>1, <3>2 DEF SetUp, NoStart, soundVars
    <3> QED BY <2>1, <3>1, <3>3, SetUpGoesOn DEF Busy, soundVars
  <2>3. CASE Room \/ pc[t] = "reset"
    <3> SUFFICES ASSUME alone' PROVE AloneInv'
      BY DEF AloneInv
    <3>1. Goto(t, "idle") BY <2>1, <2>3 DEF SecondTry
    <3>2. pc'[t] = "idle" /\ \A u \in Callers \ {t} : pc'[u] = pc[u]
      BY <3>1, CallerMoves DEF Places
    <3>3. SetUp(t) BY <2>1 DEF AloneInv, Busy, soundVars
    <3>4. \A u \in Callers : pc'[u] \notin Busy BY <3>2, <3>3 DEF SetUp, Busy
    <3>5. CASE Room
      <4>1. commands' = Append(commands, "start") BY <2>1, <3>5 DEF Send
      <4>2. WillBuzz' BY <1>0, <4>1, SentStart
      <4>3. /\ counter = 2 * wanted - 1 /\ heard = 1 /\ buzzer /\ state
            /\ dpc \in {"idle", "drain"}
        BY <2>1, <3>3 DEF SetUp
      <4>4. Turns(counter)' BY <1>0, <2>1, <4>3 DEF Turns, soundVars
      <4>5. Running' BY <2>1, <4>2, <4>3, <4>4 DEF Running, Ending, soundVars
      <4> QED BY <3>4, <4>5 DEF AloneInv
    <3>6. CASE ~Room
      <4>1. lost' BY <2>1, <2>3, <3>6
      <4> QED BY <3>4, <4>1 DEF AloneInv
    <3> QED BY <3>5, <3>6
  <2> QED BY <2>1, <2>2, <2>3
<1> QED BY <1>1, <1>2, <1>3, <1>4, <1>5, <1>6, <1>7, <1>8 DEF SignalStep

\* A step of the daemon while nobody sets up a sound, or while somebody does.
LEMMA DaemonAlone ==
  ASSUME AloneInv, UNCHANGED <<pc, lost, alone>>,
         \A t \in Callers : alone /\ pc[t] \in Busy /\ SetUp(t) => SetUp(t)',
         alone /\ Running => Running'
  PROVE  AloneInv'
  BY DEF AloneInv

LEMMA ServiceAlone ==
  ASSUME IndTypeOK, CountInv, AloneInv, IndServices
  PROVE  AloneInv'
<1>0. /\ commands \in Seq(AllCommands) /\ Len(commands) <= TimerQueue
      /\ {"start", "stop", "other"} \subseteq AllCommands
      /\ wanted \in Nat /\ heard \in Nat /\ counter \in Nat
      /\ buzzer \in BOOLEAN /\ state \in BOOLEAN /\ level \in BOOLEAN
  BY IndAssumption DEF IndTypeOK, AllCommands, Counts
<1> DEFINE Same == UNCHANGED <<pc, beeps, commands, buzzing, lost, alone, wanted>>
<1>a. Same => (WillBuzz' <=> WillBuzz) BY DEF WillBuzz
<1>b. \A t \in Callers : dpc \in Toggling \cup Ending => ~SetUp(t)
  BY DEF SetUp, Toggling, Ending
<1>1. CASE TakeCommand
  <2>1. /\ dpc \in {"idle", "drain"} /\ dpc' = "drain"
        /\ UNCHANGED <<pc, beeps, soundVars, lost>>
    BY <1>1 DEF TakeCommand, callerVars
  <2>2. NoStart /\ ~buzzing => NoStart' /\ ~buzzing' BY <1>0, <1>1, NoStartTaken
  <2>3. WillBuzz => WillBuzz' BY <1>0, <1>1, TakenBuzz
  <2>4. \A t \in Callers : SetUp(t) => SetUp(t)' BY <2>1, <2>2 DEF SetUp, soundVars
  <2>5. Running => Running' BY <2>1, <2>3 DEF Running, Ending, Turns, soundVars
  <2> QED BY <2>1, <2>4, <2>5, DaemonAlone DEF soundVars
<1>2. CASE Drained
  <2>1. /\ dpc = "drain" /\ dpc' = "idle" /\ Same /\ UNCHANGED soundVars
    BY <1>2 DEF Drained, callerVars, soundVars, queueVars
  <2>2. \A t \in Callers : SetUp(t) => SetUp(t)' BY <2>1 DEF SetUp, NoStart, soundVars
  <2>3. Running => Running' BY <1>a, <2>1 DEF Running, Ending, Turns, soundVars
  <2> QED BY <2>1, <2>2, <2>3, DaemonAlone
<1>3. CASE BuzzerTick
  <2>1. /\ dpc = "idle" /\ buzzing /\ dpc' = IF counter > 0 THEN "read" ELSE "stop"
        /\ Same /\ UNCHANGED soundVars
    BY <1>3 DEF BuzzerTick, callerVars, soundVars, queueVars
  <2>2. \A t \in Callers : ~SetUp(t) BY <2>1 DEF SetUp
  <2>3. Running => Running'
    BY <1>0, <1>a, <2>1 DEF Running, Ending, Turns, soundVars
  <2> QED BY <2>1, <2>2, <2>3, DaemonAlone
<1>4. CASE ReadState
  <2>1. /\ dpc = "read" /\ dpc' = "pin" /\ level' = ~state /\ Same
        /\ UNCHANGED <<counter, state, buzzer, loaded, heard>>
    BY <1>4 DEF ReadState, callerVars, queueVars
  <2>2. Running => Running' BY <1>a, <2>1 DEF Running, Ending, Turns
  <2> QED BY <1>b, <2>1, <2>2, DaemonAlone DEF Toggling
<1>5. CASE TurnBuzzer
  <2>1. /\ dpc = "pin" /\ dpc' = "flag" /\ buzzer' = level /\ Same
        /\ heard' = IF alone /\ level /\ ~buzzer THEN heard + 1 ELSE heard
        /\ UNCHANGED <<counter, state, level, loaded>>
    BY <1>5 DEF TurnBuzzer, SetBuzzer, callerVars, queueVars
  <2>2. ASSUME alone, Running PROVE Running'
    <3>1. level = ~buzzer /\ Turns(counter) BY <1>0, <2>1, <2>2 DEF Running
    <3>2. Turns(counter - 1)'
      <4>1. CASE buzzer
        <5>1. ~buzzer' /\ heard' = heard BY <2>1, <3>1, <4>1
        <5> QED BY <1>0, <2>1, <3>1, <4>1, <5>1 DEF Turns
      <4>2. CASE ~buzzer
        <5>1. buzzer' /\ heard' = heard + 1 BY <2>1, <2>2, <3>1, <4>2
        <5> QED BY <1>0, <2>1, <3>1, <4>2, <5>1 DEF Turns
      <4> QED BY <4>1, <4>2
    <3> QED BY <1>a, <2>1, <2>2, <3>2 DEF Running, Ending
  <2> QED BY <1>b, <2>1, <2>2, DaemonAlone DEF Toggling
<1>6. CASE TurnFlag
  <2>1. /\ dpc = "flag" /\ dpc' = "load" /\ state' = level /\ Same
        /\ UNCHANGED <<counter, buzzer, loaded, heard>>
    BY <1>6 DEF TurnFlag, callerVars, queueVars
  <2>2. Running => Running' BY <1>a, <2>1 DEF Running, Ending, Turns
  <2> QED BY <1>b, <2>1, <2>2, DaemonAlone DEF Toggling
<1>7. CASE LoadCounter
  <2>1. /\ dpc = "load" /\ dpc' = "store" /\ loaded' = counter /\ Same
        /\ UNCHANGED <<counter, state, buzzer, level, heard>>
    BY <1>7 DEF LoadCounter, callerVars, queueVars
  <2>2. Running => Running' BY <1>a, <2>1 DEF Running, Ending, Turns
  <2> QED BY <1>b, <2>1, <2>2, DaemonAlone DEF Toggling
<1>8. CASE StoreCounter
  <2>1. /\ dpc = "store" /\ dpc' = "drain" /\ counter' = loaded - 1 /\ Same
        /\ UNCHANGED <<state, buzzer, level, heard>> /\ loaded > 0
    BY <1>8 DEF StoreCounter, callerVars, queueVars, CountInv
  <2>2. ASSUME Running PROVE Running'
    <3>1. counter > 0 /\ counter' = counter - 1 /\ WillBuzz'
      BY <1>a, <2>1, <2>2 DEF Running
    <3> QED BY <2>1, <2>2, <3>1 DEF Running, Ending, Turns
  <2> QED BY <1>b, <2>1, <2>2, DaemonAlone DEF Toggling
<1>9. CASE EndStop
  <2>1. /\ dpc = "stop" /\ dpc' = "off" /\ UNCHANGED <<pc, soundVars, lost>>
    BY <1>9 DEF EndStop, callerVars
  <2>2. Running => Running' BY <2>1 DEF Running, Ending, Turns, soundVars
  <2> QED BY <1>b, <2>1, <2>2, DaemonAlone DEF Ending, soundVars
<1>10. CASE EndOff
  <2>1. /\ dpc = "off" /\ dpc' = "offFlag" /\ buzzer' = FALSE /\ heard' = heard /\ Same
        /\ UNCHANGED <<counter, state, level, loaded>>
    BY <1>10 DEF EndOff, SetBuzzer, Silent, callerVars, queueVars
  <2>2. ASSUME Running PROVE Running'
    <3>1. counter = 0 /\ Turns(0) BY <2>1, <2>2 DEF Running, Ending
    <3>2. ~buzzer BY <1>0, <3>1 DEF Turns
    <3>3. buzzer' = buzzer BY <1>0, <2>1, <3>2
    <3> QED BY <2>1, <2>2, <3>1, <3>3 DEF Running, Ending, Turns
  <2> QED BY <1>b, <2>1, <2>2, DaemonAlone DEF Ending
<1>11. CASE EndFlag
  <2>1. /\ dpc = "offFlag" /\ dpc' = "drain" /\ state' = FALSE /\ Same
        /\ UNCHANGED <<counter, buzzer, level, loaded, heard>>
    BY <1>11 DEF EndFlag, callerVars, queueVars
  <2>2. ASSUME Running PROVE Running'
    <3>1. counter = 0 /\ Turns(0) BY <2>1, <2>2 DEF Running, Ending
    <3>2. ~buzzer BY <1>0, <3>1 DEF Turns
    <3>3. state' = buzzer' BY <1>0, <2>1, <3>2
    <3> QED BY <2>1, <2>2, <3>1, <3>3 DEF Running, Ending, Turns
  <2> QED BY <1>b, <2>1, <2>2, DaemonAlone DEF Ending
<1>12. CASE OtherCommand
  <2>1. Send("other") /\ UNCHANGED <<pc, beeps, soundVars, buzzing, lost, dpc>>
    BY <1>12 DEF OtherCommand, callerVars
  <2>2. NoStart => NoStart' BY <1>0, <2>1, NoStartSent
  <2>3. WillBuzz => WillBuzz' BY <1>0, <2>1, SentOther
  <2>4. \A t \in Callers : SetUp(t) => SetUp(t)' BY <2>1, <2>2 DEF SetUp, soundVars
  <2>5. Running => Running' BY <2>1, <2>3 DEF Running, Turns, soundVars
  <2> QED BY <2>1, <2>4, <2>5, DaemonAlone DEF soundVars
<1> QED BY <1>1, <1>2, <1>3, <1>4, <1>5, <1>6, <1>7, <1>8, <1>9, <1>10, <1>11, <1>12
        DEF IndServices, Callback

\* A sound that is over has been heard as often as was asked.
LEMMA AloneHeard ==
  ASSUME IndTypeOK, AloneInv
  PROVE  BeepsAsAsked
<1> SUFFICES ASSUME alone, BuzzerAtRest, ~Sounding, ~lost
             PROVE  heard = wanted /\ ~buzzer
  BY DEF BeepsAsAsked
<1>0. /\ commands \in Seq(AllCommands) /\ Len(commands) \in Nat
      /\ wanted \in Nat /\ heard \in Nat /\ counter \in Nat /\ buzzer \in BOOLEAN
  BY IndAssumption, LenProperties DEF IndTypeOK, AllCommands, Counts
<1>1. \A t \in Callers : pc[t] \notin Busy BY DEF Sounding, Busy, SoundSteps
<1>2. Running BY <1>1 DEF AloneInv
<1>3. ~WillBuzz
  <2> SUFFICES ASSUME WillBuzz PROVE FALSE
    OBVIOUS
  <2>1. PICK i \in 0 .. Len(commands) : IF i = 0 THEN buzzing ELSE commands[i] = "start"
    BY DEF WillBuzz
  <2>2. i # 0 BY <2>1 DEF BuzzerAtRest
  <2>3. i \in 1 .. Len(commands) /\ commands[i] = "start" BY <1>0, <2>1, <2>2
  <2> QED BY <2>3 DEF BuzzerAtRest, BuzzerCommands
<1>4. counter = 0 BY <1>0, <1>2, <1>3 DEF Running
<1>5. Turns(0) BY <1>2, <1>4 DEF Running, BuzzerAtRest
<1> QED BY <1>0, <1>5 DEF Turns

--------------------------------------------------------------------------------
(* The indicators on their own.                                                  *)

IndInv == IndTypeOK /\ CountInv /\ TimerInv /\ AloneInv

LEMMA ResetInv == IndInit => IndInv
<1> SUFFICES ASSUME IndInit PROVE IndInv
  OBVIOUS
<1>1. MaxBeeps \in Nat /\ MaxBeeps > 0 /\ TimerQueue \in Nat BY IndAssumption
<1>2. commands \in Seq(AllCommands) /\ Len(commands) = 0 BY DEF IndInit
<1>3. 0 \in Counts /\ 0 \in 0 .. MaxBeeps BY <1>1 DEF Counts
<1>4. IndTypeOK
  <2>1. /\ pc \in [Callers -> {"idle", "stopLed", "blink"} \cup SoundSteps]
        /\ beeps \in [Callers -> 0 .. MaxBeeps]
    BY <1>3 DEF IndInit
  <2>2. /\ counter \in Counts /\ loaded \in Counts /\ wanted \in 0 .. MaxBeeps
        /\ heard \in Nat
    BY <1>3 DEF IndInit
  <2>3. commands \in Seq(AllCommands) /\ Len(commands) <= TimerQueue BY <1>1, <1>2
  <2>4. /\ state \in BOOLEAN /\ level \in BOOLEAN /\ buzzer \in BOOLEAN
        /\ buzzing \in BOOLEAN /\ lost \in BOOLEAN /\ alone \in BOOLEAN
        /\ dpc \in {"idle", "drain"} \cup Toggling \cup Ending
    BY DEF IndInit
  <2> QED BY <2>1, <2>2, <2>3, <2>4 DEF IndTypeOK, AllCommands
<1>5. CountInv BY DEF IndInit, CountInv
<1>6. TimerInv BY DEF IndInit, TimerInv, Toggling
<1>7. AloneInv BY DEF IndInit, AloneInv
<1> QED BY <1>4, <1>5, <1>6, <1>7 DEF IndInv

LEMMA IndStep == IndInv /\ [IndNext]_indVars => IndInv'
<1> SUFFICES ASSUME IndInv, [IndNext]_indVars PROVE IndInv'
  OBVIOUS
<1> USE DEF IndInv
<1>1. ASSUME NEW t \in Callers,
             \/ \E blink \in BOOLEAN, n \in 0 .. MaxBeeps :
                  (blink \/ n > 0) /\ Signal(t, blink, n)
             \/ SignalStep(t)
      PROVE  IndInv'
  BY <1>1, CallerStep, CallerTimer, CallerAlone
<1>2. CASE IndServices BY <1>2, ServiceStep, ServiceTimer, ServiceAlone
<1>3. CASE IndReset
  <2>1. IndInit' BY <1>3 DEF IndReset, IndInit
  <2> QED BY <2>1, ResetInv, PTL
<1>4. CASE UNCHANGED indVars
  BY <1>4 DEF indVars, callerVars, soundVars, queueVars, IndTypeOK, CountInv, TimerInv,
              Sounding, WillBuzz, AloneInv, SetUp, Running, NoStart, Turns
<1> QED BY <1>1, <1>2, <1>3, <1>4 DEF IndNext

\* In the indicators, whatever uses them, every variable keeps its range: the counter is
\* never negative and the timer queue keeps its bound.
THEOREM IndTypeInvariant == IndSpec => []IndTypeOK
<1>1. IndInv => IndTypeOK BY DEF IndInv
<1> QED BY ResetInv, IndStep, <1>1, PTL DEF IndSpec

\* However the sounds of any number of tasks, the callbacks and the commands of other
\* timers interleave, the buzzer is never left on without its timer.
THEOREM BuzzerNotLeftOn == IndSpec => []BuzzerHasTimer
<1>1. IndInv => BuzzerHasTimer
  BY DEF IndInv, TimerInv, BuzzerHasTimer
<1> QED BY ResetInv, IndStep, <1>1, PTL DEF IndSpec

\* A sound of any length that no other one joins gives the beeps that were asked for, no
\* more and no fewer, whatever commands of other timers wait, and leaves the buzzer off.
THEOREM SoundHeard == IndSpec => []BeepsAsAsked
<1>1. IndInv => BeepsAsAsked BY AloneHeard DEF IndInv
<1> QED BY ResetInv, IndStep, <1>1, PTL DEF IndSpec

--------------------------------------------------------------------------------
(* The httpd task and the alarms use the indicators as Indicators allows.        *)

LEMMA StepSimulates == [Next]_vars => [IndNext]_indVars
<1> SUFFICES ASSUME [Next]_vars PROVE [IndNext]_indVars
  OBVIOUS
<1>0. /\ Httpd \in Callers /\ MaxBeeps \in Nat
      /\ 0 \in 0 .. MaxBeeps /\ 2 \in 0 .. MaxBeeps /\ 3 \in 0 .. MaxBeeps
  BY ReqAssumption, IndAssumption
<1>1. CASE Request \/ Command \/ Authorize \/ CreateContext \/ Handler \/ Part \/ SendEvent
             \/ Return
  BY <1>1 DEF Request, Command, Authorize, CreateContext, Handler, Part, SendEvent, Return
<1>2. CASE HandlerWithoutContext \/ Respond
  <2>1. IndReset \/ UNCHANGED indVars BY <1>2 DEF HandlerWithoutContext, Respond, Restart
  <2> QED BY <2>1 DEF IndNext
<1>3. CASE Report
  <2> DEFINE n == IF res = "ok" THEN 0 ELSE 2
  <2>1. n \in 0 .. MaxBeeps /\ Signal(Httpd, TRUE, n) BY <1>0, <1>3 DEF Report
  <2> HIDE DEF n
  <2> QED BY <1>0, <2>1 DEF IndNext
<1>4. CASE DevicePaired
  <2>1. Signal(Httpd, TRUE, 3) BY <1>4 DEF DevicePaired
  <2> QED BY <1>0, <2>1 DEF IndNext
<1>5. CASE Alarm
  <2>1. PICK t \in Callers \ {Httpd}, n \in AlarmBeeps : Signal(t, FALSE, n)
    BY <1>5 DEF Alarm
  <2>2. n \in 0 .. MaxBeeps /\ n > 0 BY <1>0, ReqAssumption
  <2> QED BY <2>1, <2>2 DEF IndNext
<1>6. CASE Indicate BY <1>6 DEF Indicate, IndNext
<1>7. CASE UNCHANGED vars BY <1>7 DEF vars
<1> QED BY <1>1, <1>2, <1>3, <1>4, <1>5, <1>6, <1>7 DEF Next, Serve

\* Requests implements Indicators: every step of the httpd task and of the alarms is a step
\* of the indicators, or leaves them alone.
THEOREM Refinement == Spec => IndSpec
<1>1. Init => IndInit BY DEF Init
<1> QED BY <1>1, StepSimulates, PTL DEF Spec, IndSpec

\* With the requests, commands and alarms of the firmware the buzzer is not left on either.
THEOREM ControlBuzzer == Spec => []BuzzerHasTimer
  BY Refinement, BuzzerNotLeftOn, PTL

\* And a sound of theirs is heard as it was asked for.
THEOREM ControlHeard == Spec => []BeepsAsAsked
  BY Refinement, SoundHeard, PTL

--------------------------------------------------------------------------------
(* Requests and commands.                                                        *)

\* A context exists and is reachable only inside of the middleware, and a JSON without a
\* context is one that found no memory.
SettleInv ==
  /\ rpc \in {"auth", "context", "handler", "respond", "return"} => asked = "request"
  /\ rpc = "part" => asked = "command"
  /\ answers = IF asked = "request" /\ rpc \in {"report", "return"} THEN 1 ELSE 0
  /\ ctx => rpc \in {"handler", "respond"}
  /\ userCtx \in {"endpoint", "context"}
  /\ userCtx = "context" => rpc = "handler" /\ ctx
  /\ json => rpc \in {"respond", "report"}
  /\ json /\ ~ctx => noMemory
  /\ rpc \in {"handler", "respond"} /\ ~ctx => noMemory

\* The projector's part is the last one, and its result the result.
SentInv ==
  /\ parts \in Scripts \cup {<<>>}
  /\ asked # "command" => unsent = {}
  /\ rpc = "idle" => asked = "nothing"
  /\ parts # <<>> => rpc = "part"
  /\ rpc = "part" => (parts # <<>> => "projector" \notin unsent)
  /\ "projector" \in unsent => res = "error"

ReqInv == SettleInv /\ SentInv

LEMMA ScriptTail ==
  ASSUME parts \in Scripts
  PROVE  /\ Head(parts) = "projector" => Tail(parts) = <<>>
         /\ Head(parts) # "projector" => Tail(parts) \in {<<>>, <<"projector">>}
<1>1. CASE parts = <<"screen">> BY <1>1
<1>2. CASE parts = <<"projector">> BY <1>2
<1>3. CASE parts = <<"screen", "projector">> BY <1>3
<1> QED BY <1>1, <1>2, <1>3 DEF Scripts

LEMMA ReqStart == Init => ReqInv
  BY DEF Init, ReqInit, ReqInv, SettleInv, SentInv

LEMMA OverInv == Over => ReqInv'
  BY DEF Over, ReqInv, SettleInv, SentInv

LEMMA SettleStep ==
  ASSUME ReqInv, [Next]_vars
  PROVE  SettleInv'
<1> USE DEF ReqInv, SettleInv
<1>1. CASE Request BY <1>1 DEF Request, requestVars
<1>2. CASE Authorize BY <1>2 DEF Authorize, Refused
<1>3. CASE CreateContext BY <1>3 DEF CreateContext
<1>4. CASE Handler BY <1>4 DEF Handler
<1>5. CASE HandlerWithoutContext
  BY <1>5, OverInv DEF HandlerWithoutContext, Restart
<1>6. CASE Respond
  <2>1. CASE Restart BY <2>1, OverInv DEF Restart
  <2>2. CASE ~Restart
    <3>1. /\ rpc = "respond" /\ rpc' = "report" /\ answers' = answers + 1
          /\ ctx' = FALSE /\ json' = (json /\ ~ctx)
          /\ UNCHANGED <<userCtx, noMemory, asked>>
      BY <1>6, <2>2 DEF Respond
    <3>2. asked = "request" /\ answers = 0 BY <3>1
    <3>3. ~ctx' /\ (json' => noMemory') BY <3>1
    <3>4. answers' = 1 BY <3>1, <3>2
    <3>5. userCtx' = "endpoint" BY <3>1
    <3> QED BY <3>1, <3>2, <3>3, <3>4, <3>5
  <2> QED BY <2>1, <2>2
<1>7. CASE Command BY <1>7 DEF Command, requestVars
<1>8. CASE Part BY <1>8 DEF Part, requestVars
<1>9. CASE SendEvent BY <1>9 DEF SendEvent, requestVars
<1>10. CASE Report \/ Return BY <1>10, OverInv DEF Report, Return
<1>11. CASE DevicePaired \/ Alarm \/ Indicate \/ UNCHANGED vars
  <2>1. UNCHANGED <<rpc, ctx, userCtx, json, answers, noMemory, asked>>
    BY <1>11 DEF DevicePaired, Alarm, Indicate, vars, reqVars, requestVars
  <2> QED BY <2>1
<1> QED BY <1>1, <1>2, <1>3, <1>4, <1>5, <1>6, <1>7, <1>8, <1>9, <1>10, <1>11
        DEF Next, Serve

LEMMA SentStep ==
  ASSUME ReqInv, [Next]_vars
  PROVE  SentInv'
<1> USE DEF ReqInv, SentInv
<1>1. CASE Request BY <1>1 DEF Request, commandVars
<1>2. CASE Authorize BY <1>2 DEF Authorize, Refused, commandVars
<1>3. CASE CreateContext BY <1>3 DEF CreateContext, commandVars
<1>4. CASE Handler BY <1>4 DEF Handler, commandVars
<1>5. CASE HandlerWithoutContext
  BY <1>5, OverInv DEF HandlerWithoutContext, Restart, commandVars
<1>6. CASE Respond
  <2>1. CASE Restart BY <2>1, OverInv DEF Restart
  <2>2. CASE ~Restart
    <3>1. rpc = "respond" /\ rpc' = "report" /\ UNCHANGED <<parts, unsent, asked>>
      BY <1>6, <2>2 DEF Respond, commandVars
    <3>2. asked = "request" /\ unsent = {} BY <3>1 DEF SettleInv
    <3> QED BY <3>1, <3>2
  <2> QED BY <2>1, <2>2
<1>7. CASE Command BY <1>7 DEF Command
<1>8. CASE Part
  <2>1. PICK written \in {"all", "fewer", "fault"} :
          /\ res' = SendResult(written)
          /\ unsent' = IF written = "all" THEN unsent ELSE unsent \cup {Head(parts)}
    BY <1>8 DEF Part
  <2>2. /\ parts' = Tail(parts) /\ parts \in Scripts
        /\ rpc = "part" /\ rpc' = "part" /\ asked' = "command"
        /\ "projector" \notin unsent
    BY <1>8 DEF Part, SettleInv
  <2>3. CASE Head(parts) = "projector"
    <3>1. parts' = <<>> BY <2>2, <2>3, ScriptTail
    <3>2. "projector" \in unsent' => res' = "error" BY <2>1, <2>2 DEF SendResult
    <3> QED BY <2>2, <3>1, <3>2
  <2>4. CASE Head(parts) # "projector"
    <3>1. parts' \in {<<>>, <<"projector">>} BY <2>2, <2>4, ScriptTail
    <3>2. "projector" \notin unsent' BY <2>1, <2>2, <2>4
    <3> QED BY <2>2, <3>1, <3>2 DEF Scripts
  <2> QED BY <2>3, <2>4
<1>9. CASE SendEvent BY <1>9 DEF SendEvent, commandVars
<1>10. CASE Report \/ Return BY <1>10, OverInv DEF Report, Return
<1>11. CASE DevicePaired \/ Alarm \/ Indicate \/ UNCHANGED vars
  <2>1. UNCHANGED <<rpc, parts, unsent, res, asked>>
    BY <1>11 DEF DevicePaired, Alarm, Indicate, vars, reqVars, commandVars
  <2> QED BY <2>1
<1> QED BY <1>1, <1>2, <1>3, <1>4, <1>5, <1>6, <1>7, <1>8, <1>9, <1>10, <1>11
        DEF Next, Serve

LEMMA ReqStep == ReqInv /\ [Next]_vars => ReqInv'
  BY SettleStep, SentStep DEF ReqInv

\* On every path through the middleware a request is answered exactly once and gives back
\* its context, and its JSON unless there was no memory for the context.
THEOREM EachRequestSettled == Spec => []RequestSettled
<1>1. ReqInv => RequestSettled
  BY DEF ReqInv, SettleInv, RequestSettled
<1> QED BY ReqStart, ReqStep, <1>1, PTL DEF Spec

\* A command reported as executed has reached the projector, if it was meant for it.
THEOREM CommandSent == Spec => []SuccessMeansSent
<1>1. ReqInv => SuccessMeansSent
  BY DEF ReqInv, SentInv, SuccessMeansSent
<1> QED BY ReqStart, ReqStep, <1>1, PTL DEF Spec
================================================================================
