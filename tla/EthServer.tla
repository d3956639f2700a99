-------------------------------- MODULE EthServer --------------------------------
(* The network side of the firmware's life cycle: the main task that waits for the *)
(* Ethernet link while it boots (eth_w5500_force_link_blocking), and the event     *)
(* loop task whose handlers start and stop the HTTPS server (https_server.c) and   *)
(* raise or clear the error mode (the callbacks of main.c).  Both tasks react to   *)
(* the same events and write the same error mode.                                  *)
EXTENDS Naturals, Sequences

CONSTANT MaxEvents   \* bound: events waiting in the default event loop

ASSUME EthAssumption == MaxEvents \in Nat \ {0}

VARIABLES
  link,        \* the PHY has a link
  events,      \* the event loop's queue
  lpc,         \* the event loop task: "idle", or the handler it is in
  server,      \* `server' holds a running server
  buffers,     \* cert_buffer or key_buffer is allocated
  fault,       \* history: what the last start failed for
  mpc,         \* the main task: where it is in the wait for the link
  grace,       \* it is in the first, silent wait
  group,       \* eth_boot_group exists
  bit,         \* BIT0 of eth_boot_group
  got,         \* the local `bits' of eth_w5500_wait_for_link
  registered,  \* eth_startup_event_handler is registered
  errorMode    \* is_error_state of sys_ind

startVars == <<server, buffers, fault>>
loopVars == <<events, lpc, startVars>>
mainVars == <<mpc, grace, group, got, registered>>
vars == <<link, loopVars, mainVars, bit, errorMode>>

EventIds == {"connected", "disconnected", "gotip"}

TypeOK == /\ link \in BOOLEAN
          /\ events \in Seq(EventIds) /\ Len(events) <= MaxEvents
          /\ lpc \in {"idle", "startup", "load", "context", "start",
                      "running", "failed", "stopped"}
          /\ server \in BOOLEAN /\ buffers \in BOOLEAN
          /\ fault \in {"none", "files", "memory", "httpd"}
          /\ mpc \in {"register", "wait", "unregister", "delete", "report", "delay",
                      "boot", "ready", "halted"}
          /\ grace \in BOOLEAN /\ group \in BOOLEAN
          /\ bit \in BOOLEAN /\ got \in BOOLEAN
          /\ registered \in BOOLEAN
          /\ errorMode \in BOOLEAN

\* esp_eth_start has returned; https_server_service_init ran at boot step 9.
Init == /\ link = FALSE /\ events = <<>>
        /\ lpc = "idle" /\ server = FALSE /\ buffers = FALSE /\ fault = "none"
        /\ mpc = "register" /\ grace = TRUE
        /\ group = FALSE /\ registered = FALSE /\ bit = FALSE /\ got = FALSE
        /\ errorMode = FALSE

--------------------------------------------------------------------------------
(* The cable.  The driver posts what the PHY reports.                            *)

\* A change of the link is posted while the queue has room for it.
Room == Len(events) < MaxEvents

LinkChange == /\ Room
              /\ link' = ~link
              /\ events' = Append(events, IF link THEN "disconnected" ELSE "connected")
              /\ UNCHANGED <<lpc, startVars, mainVars, bit, errorMode>>

--------------------------------------------------------------------------------
(* The event loop task.  It holds the loop's mutex while the handlers of one     *)
(* event run, so nothing is registered or unregistered meanwhile.                *)

Take(e) == /\ lpc = "idle"
           /\ events # <<>> /\ Head(events) = e

\* The interface comes up with the address set_static_ip gave it, and says so in an
\* event of its own, behind whatever is waiting already.
HandleConnected == /\ Take("connected")
                   /\ events' = Append(Tail(events), "gotip")
                   /\ lpc' = IF registered THEN "startup" ELSE "idle"
                   /\ UNCHANGED <<link, startVars, mainVars, bit, errorMode>>

\* eth_startup_event_handler
StartupHandler == /\ lpc = "startup"
                  /\ bit' = TRUE
                  /\ lpc' = "idle"
                  /\ UNCHANGED <<link, events, startVars, mainVars, errorMode>>

\* https_server_stop: it ends the server and frees whatever credentials are left.
\* Mutant: a start that failed returns without it.
NoStop == UNCHANGED <<server, buffers>>
Stop == server' = FALSE /\ buffers' = FALSE

HandleDisconnected == /\ Take("disconnected")
                      /\ events' = Tail(events)
                      /\ Stop
                      /\ lpc' = "stopped"
                      /\ UNCHANGED <<link, fault, mainVars, bit, errorMode>>

\* https_server_start
HandleGotIp == /\ Take("gotip")
               /\ events' = Tail(events)
               /\ lpc' = "load"
               /\ UNCHANGED <<link, startVars, mainVars, bit, errorMode>>

\* The certificate and the key are read into the heap.
LoadCredentials == /\ lpc = "load"
                   /\ buffers' = TRUE /\ fault' = "none"
                   /\ lpc' = "context"
                   /\ UNCHANGED <<link, events, server, mainVars, bit, errorMode>>

CredentialsMissing == /\ lpc = "load"
                      /\ Stop /\ fault' = "files"
                      /\ lpc' = "failed"
                      /\ UNCHANGED <<link, events, mainVars, bit, errorMode>>

\* malloc of the server context: without it the start returns at once.
AllocContext == /\ lpc = "context"
                /\ \/ lpc' = "start" /\ UNCHANGED fault
                   \/ lpc' = "failed" /\ fault' = "memory"
                /\ UNCHANGED <<link, events, server, buffers, mainVars, bit, errorMode>>

\* httpd_ssl_start, with the credentials wiped and the endpoints registered.
HttpdStarts == /\ lpc = "start"
               /\ ~server
               /\ server' = TRUE /\ buffers' = FALSE
               /\ lpc' = "running"
               /\ UNCHANGED <<link, events, fault, mainVars, bit, errorMode>>

\* It fails if a server has the port already, or for a reason of its own.
HttpdFails == /\ lpc = "start"
              /\ Stop /\ fault' = IF server THEN fault ELSE "httpd"
              /\ lpc' = "failed"
              /\ UNCHANGED <<link, events, mainVars, bit, errorMode>>

\* on_server_running clears the error mode.  Mutant: it leaves it as it is.
AlarmKept == errorMode
AlarmCleared == FALSE

\* on_server_running, on_server_error or on_server_stop ends the handler.
Callback == /\ lpc \in {"running", "failed", "stopped"}
            /\ errorMode' = IF lpc = "running" THEN AlarmCleared ELSE TRUE
            /\ lpc' = "idle"
            /\ UNCHANGED <<link, events, startVars, mainVars, bit>>

--------------------------------------------------------------------------------
(* eth_w5500_wait_for_link and eth_w5500_force_link_blocking, in the main task.  *)

Register == /\ mpc = "register" /\ lpc = "idle"
            /\ group' = TRUE /\ bit' = FALSE
            /\ registered' = TRUE
            /\ mpc' = "wait"
            /\ UNCHANGED <<link, loopVars, grace, got, errorMode>>

\* For want of memory the handler is not registered: the wait fails at once.
RegisterFails == /\ mpc = "register" /\ lpc = "idle"
                 /\ got' = FALSE
                 /\ mpc' = "report"
                 /\ UNCHANGED <<link, loopVars, grace, group, registered, bit, errorMode>>

\* What xEventGroupWaitBits returns.  Mutant: the bits are read once they are cleared.
BitsCleared == FALSE
Bits == bit

\* xEventGroupWaitBits returns as BIT0 is set, or after timeout_ms.
Wake == /\ mpc = "wait"
        /\ got' = Bits
        /\ mpc' = "unregister"
        /\ UNCHANGED <<link, loopVars, grace, group, registered, bit, errorMode>>

\* The order of the last two calls.  Mutant: the group is deleted first.
GroupFirst == IF mpc = "unregister" THEN group' = FALSE /\ UNCHANGED registered
                                    ELSE registered' = FALSE /\ UNCHANGED group
HandlerFirst == IF mpc = "unregister" THEN registered' = FALSE /\ UNCHANGED group
                                      ELSE group' = FALSE /\ UNCHANGED registered

\* esp_event_handler_instance_unregister waits for the loop's mutex.
Unregister == /\ mpc = "unregister" /\ lpc = "idle"
              /\ HandlerFirst
              /\ mpc' = "delete"
              /\ UNCHANGED <<link, loopVars, grace, got, bit, errorMode>>

DeleteGroup == /\ mpc = "delete"
               /\ HandlerFirst
               /\ mpc' = "report"
               /\ UNCHANGED <<link, loopVars, grace, got, bit, errorMode>>

\* What on_eth_boot_wait(false) does to the error mode.  Mutant: nothing.
AlarmNotRaised == errorMode
AlarmRaised == TRUE

\* wait_cb tells the outcome; only the silent first wait does not report a failure.
Report == /\ mpc = "report"
          /\ errorMode' = IF got THEN FALSE ELSE IF grace THEN errorMode ELSE AlarmRaised
          /\ mpc' = IF got THEN "boot" ELSE IF grace THEN "register" ELSE "delay"
          /\ grace' = FALSE
          /\ UNCHANGED <<link, loopVars, group, got, registered, bit>>

\* vTaskDelay between two loud waits: nothing is registered meanwhile.
Delay == /\ mpc = "delay"
         /\ mpc' = "register"
         /\ UNCHANGED <<link, loopVars, grace, group, got, registered, bit, errorMode>>

\* Boot steps 12 and 13, or CHECK_CRITICAL, whose screen never returns.
FinishBoot == /\ mpc = "boot"
              /\ \/ mpc' = "ready" /\ UNCHANGED errorMode
                 \/ mpc' = "halted" /\ errorMode' = TRUE
              /\ UNCHANGED <<link, loopVars, grace, group, got, registered, bit>>

--------------------------------------------------------------------------------
Loop == \/ HandleConnected \/ StartupHandler \/ HandleDisconnected \/ HandleGotIp
        \/ LoadCredentials \/ CredentialsMissing \/ AllocContext
        \/ HttpdStarts \/ HttpdFails \/ Callback

Main == \/ Register \/ RegisterFails \/ Wake \/ Unregister \/ DeleteGroup
        \/ Report \/ Delay \/ FinishBoot

Next == LinkChange \/ Loop \/ Main

Spec == Init /\ [][Next]_vars

\* Both tasks run: every handler returns and every wait has a timeout.  The mutex of
\* the loop is free after every event, so that a registration does not wait forever,
\* and memory does not run out forever.  Nobody has to plug the cable.
Fairness == /\ WF_vars(Loop)
            /\ WF_vars(Main)
            /\ SF_vars(Register)
            /\ SF_vars(Unregister)

LiveSpec == Spec /\ Fairness

--------------------------------------------------------------------------------
(* Properties.                                                                   *)

\* Whenever the loop may call eth_startup_event_handler, or is about to, the event
\* group it sets a bit of exists, although another task deletes it.
StartupHandlerHasGroup == registered \/ lpc = "startup" => group

\* Once the link was awaited, a server that runs is not reported as an error, whichever
\* of the two tasks wrote the error mode last.  A start that found no memory is an
\* exception: it reports an error and leaves an older server alone.
NoAlarmWhileServing ==
  mpc \in {"boot", "ready"} /\ lpc = "idle" /\ server /\ fault # "memory" => ~errorMode

\* Between two events neither the certificate nor the private key is left in the heap:
\* https_server_start or https_server_stop has freed them on every path but one, on
\* which the server context could not be allocated.
CredentialsFreed == lpc = "idle" /\ buffers => fault = "memory"

\* A link the startup handler has seen during a wait is not lost: boot goes on.
SeenLinkEndsWait == mpc = "wait" /\ bit ~> mpc \in {"ready", "halted"}

\* The wait for a cable that is not there is not silent for ever: the error mode comes
\* on, or a link does.
MissingCableAnnounced == mpc = "wait" ~> errorMode \/ link \/ mpc \in {"ready", "halted"}

\* eth_w5500.h: force_link_blocking waits "until a cable is connected", so that with a
\* link that is there for good the boot goes on.
BootWaitEnds == <>[]link => <>(mpc \in {"ready", "halted"})
================================================================================
