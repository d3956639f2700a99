-------------------------------- MODULE UiManager --------------------------------
(* ui_manager.c: the carousel of pages.  Its timer callback runs in the timer      *)
(* daemon, the MENU button calls it from io_input_task, the main task starts it at *)
(* the end of the boot, and a blocking task suspends it to have the screen for     *)
(* itself.  None of its variables is locked.                                       *)

VARIABLES
  suspended,  \* is_suspended
  autoMode,   \* auto_mode
  created,    \* auto_scroll_timer # NULL
  carousel,   \* auto_scroll_timer is active once the queued commands are carried out
  dropped,    \* history: the last command for it met a full timer queue
  screen,     \* who has drawn last: "page" or "task", the blocking task
  dpc,        \* the daemon: "idle", or in auto_scroll_callback past its check
  ipc,        \* io_input_task: "idle", or where it is in a MENU handler
  mpc,        \* the main task: "boot", "init" in ui_manager_init, "done"
  bpc         \* the blocking task: where it is between suspend and resume

pageVars == <<dpc, ipc, mpc>>
timerVars == <<carousel, dropped>>
uiVars == <<suspended, autoMode, created, timerVars, screen, pageVars, bpc>>

UiTypeOK == /\ suspended \in BOOLEAN /\ autoMode \in BOOLEAN
            /\ created \in BOOLEAN /\ carousel \in BOOLEAN /\ dropped \in BOOLEAN
            /\ screen \in {"page", "task"}
            /\ dpc \in {"idle", "render"}
            /\ ipc \in {"idle", "toggle", "timer", "render", "reset"}
            /\ mpc \in {"boot", "init", "done"}
            /\ bpc \in {"free", "stopTimer", "exclusive", "startTimer", "render"}

UiInit == /\ suspended = FALSE /\ autoMode = TRUE
          /\ created = FALSE /\ carousel = FALSE /\ dropped = FALSE
          /\ screen = "page"
          /\ dpc = "idle" /\ ipc = "idle" /\ mpc = "boot" /\ bpc = "free"

\* Commands are sent with no time to wait and nobody looks at the result.
TimerCommand(active) == \/ carousel' = active /\ dropped' = FALSE
                        \/ UNCHANGED carousel /\ dropped' = TRUE

--------------------------------------------------------------------------------
(* auto_scroll_callback, in the daemon.                                          *)

Tick == /\ carousel /\ dpc = "idle"
        /\ dpc' = IF autoMode /\ ~suspended THEN "render" ELSE "idle"
        /\ UNCHANGED <<suspended, autoMode, created, timerVars, screen, ipc, mpc, bpc>>

\* The page is put together (reading the sensors takes a while), then drawn.
TickRender == /\ dpc = "render"
              /\ screen' = "page"
              /\ dpc' = "idle"
              /\ UNCHANGED <<suspended, autoMode, created, timerVars, ipc, mpc, bpc>>

--------------------------------------------------------------------------------
(* ui_manager_init, in the main task.                                            *)

InitTimer == /\ mpc = "boot"
             /\ created' = TRUE
             /\ TimerCommand(TRUE)
             /\ mpc' = "init"
             /\ UNCHANGED <<suspended, autoMode, screen, dpc, ipc, bpc>>

InitRender == /\ mpc = "init"
              /\ screen' = "page"
              /\ mpc' = "done"
              /\ UNCHANGED <<suspended, autoMode, created, timerVars, dpc, ipc, bpc>>

--------------------------------------------------------------------------------
(* ui_manager_switch_mode and ui_manager_manual_mode, in io_input_task.          *)

SwitchMode == /\ ipc = "idle"
              /\ ~suspended /\ created
              /\ ipc' = "toggle"
              /\ UNCHANGED <<suspended, autoMode, created, timerVars, screen, dpc, mpc, bpc>>

Toggle == /\ ipc = "toggle"
          /\ autoMode' = ~autoMode
          /\ ipc' = "timer"
          /\ UNCHANGED <<suspended, created, timerVars, screen, dpc, mpc, bpc>>

\* The message that tells the mode is drawn before the timer is started or stopped.
SwitchTimer == /\ ipc = "timer"
               /\ TimerCommand(autoMode)
               /\ ipc' = "idle"
               /\ UNCHANGED <<suspended, autoMode, created, screen, dpc, mpc, bpc>>

ManualMode == /\ ipc = "idle"
              /\ ~suspended /\ created
              /\ ipc' = "render"
              /\ UNCHANGED <<suspended, autoMode, created, timerVars, screen, dpc, mpc, bpc>>

ManualRender == /\ ipc = "render"
                /\ screen' = "page"
                /\ ipc' = "reset"
                /\ UNCHANGED <<suspended, autoMode, created, timerVars, dpc, mpc, bpc>>

ManualReset == /\ ipc = "reset"
               /\ IF autoMode THEN TimerCommand(TRUE) ELSE UNCHANGED timerVars
               /\ ipc' = "idle"
               /\ UNCHANGED <<suspended, autoMode, created, screen, dpc, mpc, bpc>>

--------------------------------------------------------------------------------
(* ui_manager_suspend and ui_manager_resume around the blocking task.            *)

Suspend == /\ bpc \in {"free", "exclusive"}
           /\ suspended' = TRUE
           /\ bpc' = "stopTimer"
           /\ UNCHANGED <<autoMode, created, timerVars, screen, pageVars>>

SuspendTimer == /\ bpc = "stopTimer"
                /\ IF created THEN TimerCommand(FALSE) ELSE UNCHANGED timerVars
                /\ bpc' = "exclusive"
                /\ UNCHANGED <<suspended, autoMode, created, screen, pageVars>>

DrawProgress == /\ bpc = "exclusive"
                /\ screen' = "task"
                /\ UNCHANGED <<suspended, autoMode, created, timerVars, pageVars, bpc>>

Resume == /\ bpc = "exclusive"
          /\ suspended' = FALSE
          /\ bpc' = "startTimer"
          /\ UNCHANGED <<autoMode, created, timerVars, screen, pageVars>>

\* Mutant: the timer stays as it is.
TimerLeftAlone == UNCHANGED timerVars
TimerStarted == IF autoMode /\ created THEN TimerCommand(TRUE) ELSE UNCHANGED timerVars

ResumeTimer == /\ bpc = "startTimer"
               /\ TimerStarted
               /\ bpc' = "render"
               /\ UNCHANGED <<suspended, autoMode, created, screen, pageVars>>

ResumeRender == /\ bpc = "render"
                /\ screen' = "page"
                /\ bpc' = "free"
                /\ UNCHANGED <<suspended, autoMode, created, timerVars, pageVars>>

--------------------------------------------------------------------------------
\* The device restarts.
UiReset == /\ suspended' = FALSE /\ autoMode' = TRUE
           /\ created' = FALSE /\ carousel' = FALSE /\ dropped' = FALSE
           /\ screen' = "page"
           /\ dpc' = "idle" /\ ipc' = "idle" /\ mpc' = "boot" /\ bpc' = "free"

Carousel == \/ Tick \/ TickRender \/ InitTimer \/ InitRender
            \/ SwitchMode \/ Toggle \/ SwitchTimer
            \/ ManualMode \/ ManualRender \/ ManualReset

UiNext == \/ Carousel
          \/ Suspend \/ SuspendTimer \/ DrawProgress
          \/ Resume \/ ResumeTimer \/ ResumeRender
          \/ UiReset

\* What the carousel promises to a blocking task, whatever that task is.
UiSpec == UiInit /\ [][UiNext]_uiVars

--------------------------------------------------------------------------------
(* Properties.                                                                   *)

\* In auto mode the pages change by themselves: once the boot is over and nobody is in
\* the middle of a change of mode or of a resume, the timer runs (or its command was lost).
CarouselRuns ==
  mpc = "done" /\ ipc = "idle" /\ bpc = "free" /\ autoMode => carousel \/ dropped
================================================================================
