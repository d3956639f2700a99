------------------------------------ MODULE Ui -----------------------------------
(* ui.c: the one LCD that pages, temporary messages, temporary errors and error    *)
(* screens share, and the FreeRTOS timer that ends a temporary screen.  Any task   *)
(* may call any function at any time and nothing is locked: every access to the    *)
(* flags, the saved lines, the cursor and the display is a step of its own.        *)
EXTENDS Naturals, Sequences, FiniteSets

CONSTANTS
  Tasks,       \* the tasks that draw, the timer daemon among them
  Daemon,      \* the FreeRTOS timer service task
  Ops,         \* which functions of ui.h a task calls
  Pages,       \* what ui_set_text can be given
  Boot,        \* the text of the saved lines at the start
  TimerQueue   \* commands the timer queue can hold

OpNames == {"page", "message", "tempError", "error", "restore"}

ASSUME UiAssumption ==
  /\ Daemon \in Tasks
  /\ Ops \in [Tasks -> SUBSET OpNames]
  /\ Boot \notin Pages
  /\ TimerQueue \in Nat \ {0}

VARIABLES
  saved,     \* saved_line_0 and saved_line_1
  isError,   \* is_error_active
  isTemp,    \* is_temp_active
  lcd,       \* what each row of the display shows
  cursor,    \* the display's cursor: the row it is in
  torn,      \* history: rows whose last text met a cursor another task had moved
  todo,      \* per task: the steps it still has to take
  text,      \* per task: what it draws or saves
  commands,  \* the timer queue
  running,   \* ui_temp_msg_timer is active
  lost       \* history: no command of the last temporary screen was queued

screenVars == <<lcd, cursor, torn>>
timerVars == <<commands, running, lost>>
vars == <<saved, isError, isTemp, screenVars, todo, text, timerVars>>

Rows == {0, 1}
Texts == Pages \cup {Boot}
Shown == Texts \cup {"temp", "error", "blank"}

--------------------------------------------------------------------------------
(* The functions of ui.c as sequences of steps.  "print" writes the task's text    *)
(* where the cursor is, "reprint" the saved line.                                  *)

At(do, row) == [do |-> do, row |-> row]
Do(do) == At(do, 0)

Draw(do, row) == <<At("cursor", row), At(do, row)>>
DrawBoth(do) == Draw(do, 0) \o Draw(do, 1)

\* ui_set_text_in_row.  Mutant: the row is drawn before it is saved.
DrawFirst(row) == <<Do("look")>> \o Draw("print", row) \o <<At("save", row)>>
SetTextInRow(row) == <<At("save", row), Do("look")>> \o Draw("reprint", row)

\* A message is drawn, then the flag is raised and the timer started.
\* Mutant: the timer is not started.
TimerForgotten(draw) == draw \o <<Do("setTemp")>>
TimerLast(draw) == draw \o <<Do("setTemp"), Do("changePeriod"), Do("start")>>

\* ui_restore_screen
Restore == <<Do("clearError")>> \o DrawBoth("reprint")

\* ui_restore_timer_callback.  Mutant: the flag does not fall.
FlagKept == Restore
Expired == <<Do("clearTemp")>> \o Restore

Script(op) ==
  CASE op = "page"      -> SetTextInRow(0) \o SetTextInRow(1)
    [] op = "message"   -> <<Do("ignoreIfError")>> \o TimerLast(DrawBoth("print"))
    [] op = "tempError" -> <<Do("setTemp"), Do("clear")>> \o DrawBoth("print")
                             \o <<Do("changePeriod"), Do("start")>>
    [] op = "error"     -> <<Do("setError"), Do("clear")>> \o DrawBoth("print")
    [] op = "restore"   -> Restore

Init == /\ saved = [r \in Rows |-> Boot]
        /\ isError = FALSE /\ isTemp = FALSE
        /\ lcd = saved /\ cursor = 0 /\ torn = {}
        /\ todo = [t \in Tasks |-> <<>>]
        /\ text = [t \in Tasks |-> Boot]
        /\ commands = <<>> /\ running = FALSE /\ lost = FALSE

--------------------------------------------------------------------------------
Idle(t) == todo[t] = <<>>

\* The page to show is one of Pages; messages and errors are told apart by their kind.
TextOf(op) == CASE op = "page" -> Pages
                [] op \in {"message", "tempError"} -> {"temp"}
                [] op = "error" -> {"error"}
                [] op = "restore" -> {Boot}

Call(t) == /\ Idle(t)
           /\ \E op \in Ops[t] :
                /\ todo' = [todo EXCEPT ![t] = Script(op)]
                /\ \E x \in TextOf(op) : text' = [text EXCEPT ![t] = x]
           /\ UNCHANGED <<saved, isError, isTemp, screenVars, timerVars>>

\* The next step of t is `do'; `Done' says that it goes on with the one after it.
Next1(t, do) == todo[t] # <<>> /\ Head(todo[t]).do = do
Row(t) == Head(todo[t]).row
Done(t) == todo' = [todo EXCEPT ![t] = Tail(@)] /\ UNCHANGED text

SaveLine(t) == /\ Next1(t, "save")
               /\ saved' = [saved EXCEPT ![Row(t)] = text[t]]
               /\ Done(t)
               /\ UNCHANGED <<isError, isTemp, screenVars, timerVars>>

\* With an error or a temporary screen up the row is not drawn.
Look(t) == /\ Next1(t, "look")
           /\ IF isError \/ isTemp
              THEN /\ todo' = [todo EXCEPT ![t] = SubSeq(@, Len(Draw("reprint", 0)) + 2,
                                                         Len(@))]
                   /\ UNCHANGED text
              ELSE Done(t)
           /\ UNCHANGED <<saved, isError, isTemp, screenVars, timerVars>>

\* A message is not shown over an error screen.
IgnoreIfError(t) == /\ Next1(t, "ignoreIfError")
                    /\ IF isError
                       THEN todo' = [todo EXCEPT ![t] = <<>>] /\ UNCHANGED text
                       ELSE Done(t)
                    /\ UNCHANGED <<saved, isError, isTemp, screenVars, timerVars>>

SetCursor(t) == /\ Next1(t, "cursor")
                /\ cursor' = Row(t)
                /\ Done(t)
                /\ UNCHANGED <<saved, isError, isTemp, lcd, torn, timerVars>>

\* lcd_driver_print writes where the cursor is, whoever moved it there.
PrintText(t) == /\ \/ Next1(t, "print") /\ lcd' = [lcd EXCEPT ![cursor] = text[t]]
                   \/ Next1(t, "reprint") /\ lcd' = [lcd EXCEPT ![cursor] = saved[Row(t)]]
                /\ torn' = IF cursor = Row(t) THEN torn \ {cursor}
                                              ELSE torn \cup {cursor, Row(t)}
                /\ Done(t)
                /\ UNCHANGED <<saved, isError, isTemp, cursor, timerVars>>

Clear(t) == /\ Next1(t, "clear")
            /\ lcd' = [r \in Rows |-> "blank"] /\ cursor' = 0
            /\ Done(t)
            /\ UNCHANGED <<saved, isError, isTemp, torn, timerVars>>

SetFlag(t) == /\ \/ Next1(t, "setTemp") /\ isTemp' = TRUE /\ UNCHANGED isError
                 \/ Next1(t, "clearTemp") /\ isTemp' = FALSE /\ UNCHANGED isError
                 \/ Next1(t, "setError") /\ isError' = TRUE /\ UNCHANGED isTemp
                 \/ Next1(t, "clearError") /\ isError' = FALSE /\ UNCHANGED isTemp
              /\ Done(t)
              /\ UNCHANGED <<saved, screenVars, timerVars>>

--------------------------------------------------------------------------------
(* The timer.  Commands are sent with no time to wait; the daemon takes them.      *)

\* The queue takes what fits.
Room == Len(commands) < TimerQueue

\* xTimerChangePeriod starts the timer as well, and so does xTimerStart.
Command(t) == /\ Next1(t, "changePeriod") \/ Next1(t, "start")
              /\ IF Room
                 THEN commands' = Append(commands, "ui") /\ lost' = FALSE
                 ELSE /\ UNCHANGED commands
                      /\ lost' = (lost \/ Next1(t, "changePeriod"))
              /\ Done(t)
              /\ UNCHANGED <<saved, isError, isTemp, screenVars, running>>

\* A command for another timer: xTimerReset for every Ethernet packet, or the buzzer.
OtherCommand == /\ Room
                /\ commands' = Append(commands, "other")
                /\ UNCHANGED <<saved, isError, isTemp, screenVars, todo, text, running,
                               lost>>

TakeCommand == /\ Idle(Daemon)
               /\ commands # <<>>
               /\ commands' = Tail(commands)
               /\ running' = (running \/ Head(commands) = "ui")
               /\ UNCHANGED <<saved, isError, isTemp, screenVars, todo, text, lost>>

Expire == /\ Idle(Daemon)
          /\ running
          /\ running' = FALSE
          /\ todo' = [todo EXCEPT ![Daemon] = Expired]
          /\ UNCHANGED <<saved, isError, isTemp, screenVars, text, commands, lost>>

--------------------------------------------------------------------------------
Step(t) == \/ SaveLine(t) \/ Look(t) \/ IgnoreIfError(t) \/ SetCursor(t) \/ PrintText(t)
           \/ Clear(t) \/ SetFlag(t) \/ Command(t)

Next == \/ \E t \in Tasks : Call(t) \/ Step(t)
        \/ OtherCommand \/ TakeCommand \/ Expire

Spec == Init /\ [][Next]_vars

\* Every task that draws gets on with it, the daemon takes its commands and calls what
\* has expired.  That nobody else fills the timer queue is not assumed.
Fairness == /\ \A t \in Tasks : WF_vars(Step(t))
            /\ WF_vars(TakeCommand) /\ SF_vars(Expire)

LiveSpec == Spec /\ Fairness

--------------------------------------------------------------------------------
(* Properties.                                                                   *)

UiPending == \E i \in 1..Len(commands) : commands[i] = "ui"

\* Nothing draws, no overlay is up, and none is on its way down.
Quiet == /\ \A t \in Tasks : Idle(t)
         /\ ~isError /\ ~isTemp /\ ~running /\ ~UiPending /\ ~lost

TypeOK == /\ saved \in [Rows -> Texts] /\ lcd \in [Rows -> Shown]
          /\ isError \in BOOLEAN /\ isTemp \in BOOLEAN
          /\ cursor \in Rows /\ torn \subseteq Rows
          /\ text \in [Tasks -> Shown]
          /\ commands \in Seq({"ui", "other"}) /\ Len(commands) <= TimerQueue
          /\ running \in BOOLEAN /\ lost \in BOOLEAN

\* No temporary message and no outdated page stays: whatever the tasks did at the same
\* time, when all is quiet a row shows the saved line (or an error screen), unless the
\* row's last text went elsewhere because another task had moved the cursor.
NothingStays == Quiet => \A r \in Rows \ torn : lcd[r] \in {saved[r], "error"}

\* A temporary screen always has its end: with nobody at work and the flag still up, the
\* timer runs or is about to, or no command could be queued.
OverlayHasTimer == isTemp /\ (\A t \in Tasks : Idle(t)) => running \/ UiPending \/ lost

\* Once its timer runs a temporary screen comes to its end, whatever else is drawn.
TimedOverlayEnds == running ~> ~isTemp
================================================================================
