-------------------------------- MODULE WsClient --------------------------------
(***************************************************************************)
(* The WebSocket client of the Android application (WsClient.kt).          *)
(*                                                                         *)
(* connectWebSocket makes a flow: a producer that opens a socket, a        *)
(* channel of events, and a cleanup that runs when the flow is cancelled   *)
(* or closes its channel.  The listener of a socket runs on threads of     *)
(* okhttp and outlives its flow; it shares the field webSocket and the     *)
(* watchdog with the flows that come later.                                *)
(*                                                                         *)
(* stage is where the current flow is: none (cancelled or never started),  *)
(* open, closing (a listener has sent its last event and is about to call  *)
(* close), queued (the cleanup is posted to the main thread), done.        *)
(***************************************************************************)
EXTENDS Naturals, Sequences

CONSTANTS Sockets, NULL,
          MaxReconnect,   \* MAX_RECONNECT_ATTEMPTS
          MaxEvents,      \* capacity of the channel of a flow
          MaxLate         \* bound: cleanups of earlier flows still posted

ASSUME WsClientAssumption ==
    /\ NULL \notin Sockets
    /\ MaxReconnect \in Nat /\ MaxEvents \in Nat \ {0} /\ MaxLate \in Nat

VARIABLES webSocket,   \* the field: the socket that commands go to
          watched,     \* watchdogScope exists
          dog,         \* watchdogJob waits for its 12 seconds
          socks,       \* [phase, asked, mine] of each socket
          stage, events, attempt,
          retrying,    \* the delayed establishConnection of the flow
          late,        \* posted cleanups of earlier flows
          lost,        \* history: live sockets that another listener put out of webSocket
          tornDown     \* history: the cleanup of an earlier flow hit this one

flowVars == <<stage, events, attempt, retrying, late>>
wsVars == <<webSocket, watched, dog, socks, flowVars, lost, tornDown>>

Events == {"Connected", "Reconnecting", "Error", "Disconnected"}
Live(s) == socks[s].phase \in {"connecting", "open", "half"}
Mine(s) == socks[s].mine

\* A socket that is dead, or not made yet: nothing of it is read again.
Gone == [phase |-> "dead", asked |-> "no", mine |-> FALSE]

WsInit == /\ webSocket = NULL
          /\ watched = FALSE /\ dog = FALSE
          /\ socks = [s \in Sockets |-> Gone]
          /\ stage = "none" /\ events = <<>> /\ attempt = 0 /\ retrying = FALSE
          /\ late = 0
          /\ lost = {} /\ tornDown = FALSE

-----------------------------------------------------------------------------
(* What the flows and the listeners do to the shared fields.               *)

\* Mutant: the field is cleared before the socket is closed.
ClearedFirst(s) == socks

\* webSocket?.close(1000, ...): a socket that waits for it after the server's close frame
\* is gone at once; another one says goodbye, also when it is not open yet.
Closed(s) ==
    IF s = NULL THEN socks
    ELSE [socks EXCEPT ![s] =
            IF ~Live(s) \/ @.asked # "no" THEN @
            ELSE IF @.phase = "half" THEN Gone
            ELSE [@ EXCEPT !.asked = "close"]]

\* The listeners' flow is not the current one any more.
Orphaned(ss) == [s \in Sockets |-> [ss[s] EXCEPT !.mine = FALSE]]

\* A live socket that is put out of the field can be reached no more.
PutOut(s) == IF webSocket \notin {NULL, s} /\ Live(webSocket)
               THEN lost \union {webSocket} ELSE lost

\* resetWatchdog: without a scope nothing is launched.
ResetWatchdog == dog' = watched /\ UNCHANGED watched

StopWatchdog == dog' = FALSE /\ watched' = FALSE

\* trySend: nothing once the flow is cancelled or its channel closed.
Sends(s, e) == events' = IF Mine(s) /\ stage \in {"open", "closing"}
                           THEN Append(events, e) ELSE events

\* close() of the flow comes after the last event, in a step of its own.
BeginsClosing(s) == stage' = IF Mine(s) /\ stage = "open" THEN "closing" ELSE stage

\* A dead socket that nothing refers to stands for the next one that is made.
Fresh(s) == socks[s].phase = "dead" /\ webSocket # s

\* newWebSocket, on the fields that its caller leaves.
NewSocket(s, ss) ==
    /\ socks' = [ss EXCEPT ![s] = [phase |-> "connecting", asked |-> "no", mine |-> TRUE]]
    /\ webSocket' = s

-----------------------------------------------------------------------------
(* The listener.                                                           *)

CanSend == Len(events) < MaxEvents

OnOpen(s) ==
    /\ socks[s].phase = "connecting" /\ socks[s].asked # "cancel"
    /\ CanSend
    /\ socks' = [socks EXCEPT ![s].phase = "open"]
    /\ webSocket' = s
    /\ lost' = PutOut(s) \ {s}
    /\ attempt' = IF Mine(s) THEN 0 ELSE attempt
    /\ Sends(s, "Connected")
    /\ ResetWatchdog
    /\ UNCHANGED <<stage, retrying, late, tornDown>>

OnMessage(s) ==
    /\ socks[s].phase = "open" /\ socks[s].asked # "cancel"
    /\ ResetWatchdog
    /\ UNCHANGED <<webSocket, socks, flowVars, lost, tornDown>>

Dies(s) == /\ socks' = [socks EXCEPT ![s] = Gone]
           /\ lost' = PutOut(s) \ {s}
           /\ webSocket' = NULL
           /\ UNCHANGED <<watched, dog, late, tornDown>>

\* Mutant: Reconnecting is sent and nothing launched.
OnlySaysSo(s) == /\ attempt < MaxReconnect
                 /\ attempt' = IF Mine(s) THEN attempt + 1 ELSE attempt
                 /\ Sends(s, "Reconnecting")
                 /\ UNCHANGED <<stage, retrying>>

\* launch { delay; establishConnection() } in the flow's scope.
Retries(s) == /\ attempt < MaxReconnect
              /\ attempt' = IF Mine(s) THEN attempt + 1 ELSE attempt
              /\ retrying' = (retrying \/ (Mine(s) /\ stage = "open"))
              /\ Sends(s, "Reconnecting")
              /\ UNCHANGED stage

\* Mutant: the flow is closed without an event.
GivesUpSilently(s) == BeginsClosing(s) /\ UNCHANGED <<events, attempt, retrying>>

GivesUp(s) == /\ Sends(s, "Error")
              /\ BeginsClosing(s)
              /\ UNCHANGED <<attempt, retrying>>

\* onFailure: refused, timed out, reset, no pong, cancelled, or no goodbye within 60 s.
\* A socket that has the server's close frame can fail only by the ping 45 s later, when
\* the flow has long been closed.
OnFailure(s) == /\ Live(s) /\ CanSend
                /\ socks[s].phase = "half" => stage \notin {"closing", "queued"}
                /\ Dies(s)
                /\ Retries(s) \/ GivesUp(s)

\* onClosing: the server's close frame, its own or the answer to ours.
OnClosing(s) ==
    /\ socks[s].phase = "open" /\ socks[s].asked # "cancel"
    /\ CanSend
    /\ socks' = [socks EXCEPT ![s] = IF @.asked = "close" THEN Gone
                                      ELSE [@ EXCEPT !.phase = "half"]]
    /\ lost' = IF socks[s].asked = "close" THEN lost \ {s} ELSE lost
    /\ Sends(s, "Disconnected")
    /\ BeginsClosing(s)
    /\ UNCHANGED <<webSocket, watched, dog, attempt, retrying, late, tornDown>>

\* close(): awaitClose is resumed, which posts the cleanup.
Close == /\ stage = "closing"
         /\ stage' = "queued"
         /\ UNCHANGED <<webSocket, watched, dog, socks, events, attempt, retrying, late,
                        lost, tornDown>>

\* The watchdog's delay is over.
Bite == /\ dog
        /\ dog' = FALSE
        /\ socks' = IF webSocket = NULL \/ ~Live(webSocket) THEN socks
                      ELSE [socks EXCEPT ![webSocket].asked = "cancel"]
        /\ UNCHANGED <<webSocket, watched, flowVars, lost, tornDown>>

-----------------------------------------------------------------------------
(* The main thread.                                                        *)

\* The cleanup that close() has posted.
Cleanup == /\ stage = "queued"
           /\ stage' = "done"
           /\ StopWatchdog
           /\ socks' = Closed(webSocket)
           /\ webSocket' = NULL
           /\ UNCHANGED <<events, attempt, retrying, late, lost, tornDown>>

\* The same when another flow has begun in the meantime.
LateCleanup == /\ late > 0
               /\ late' = late - 1
               /\ StopWatchdog
               /\ socks' = Closed(webSocket)
               /\ webSocket' = NULL
               /\ tornDown' = (stage # "none")
               /\ UNCHANGED <<stage, events, attempt, retrying, lost>>

\* establishConnection after RECONNECT_DELAY_MS.
Establish(s) == /\ retrying /\ Fresh(s)
                /\ retrying' = FALSE
                /\ NewSocket(s, socks)
                /\ lost' = PutOut(s) \ {s}
                /\ UNCHANGED <<watched, dog, stage, events, attempt, late, tornDown>>

\* connectionJob.cancel(): the cleanup runs before cancel returns, unless it is posted
\* already or over.
LateAfter == IF stage = "queued" THEN late + 1 ELSE late
CleansUp == stage \in {"open", "closing"}

\* cancel(), then disconnect(): the field's socket is closed by the one or the other.
Disconnect == /\ LateAfter <= MaxLate
              /\ late' = LateAfter
              /\ socks' = Orphaned(Closed(webSocket))
              /\ webSocket' = NULL
              /\ IF CleansUp THEN StopWatchdog ELSE UNCHANGED <<watched, dog>>
              /\ stage' = "none" /\ events' = <<>> /\ attempt' = 0 /\ retrying' = FALSE
              /\ tornDown' = FALSE
              /\ UNCHANGED lost

\* Mutant: the watchdog's scope is made before the old flow is cancelled.
BeginScopeFirst(s) ==
            /\ LateAfter <= MaxLate /\ Fresh(s)
            /\ late' = LateAfter
            /\ NewSocket(s, Orphaned(Closed(webSocket)))
            /\ watched' = ~CleansUp
            /\ dog' = (dog /\ ~CleansUp)
            /\ stage' = "open" /\ events' = <<>> /\ attempt' = 0 /\ retrying' = FALSE
            /\ tornDown' = FALSE
            /\ lost' = lost \ {s}

\* cancel(), then the flow of connectWebSocket begins: disconnect(), a scope for the
\* watchdog, the first socket.
Begin(s) == /\ LateAfter <= MaxLate /\ Fresh(s)
            /\ late' = LateAfter
            /\ NewSocket(s, Orphaned(Closed(webSocket)))
            /\ watched' = TRUE
            /\ dog' = (dog /\ ~CleansUp)
            /\ stage' = "open" /\ events' = <<>> /\ attempt' = 0 /\ retrying' = FALSE
            /\ tornDown' = FALSE
            /\ lost' = lost \ {s}

\* The request cannot be built: Error, close(), and the cleanup without a suspension.
BeginFails == /\ LateAfter <= MaxLate
              /\ late' = LateAfter
              /\ socks' = Orphaned(Closed(webSocket))
              /\ webSocket' = NULL
              /\ StopWatchdog
              /\ stage' = "done" /\ events' = <<"Error">> /\ attempt' = 0
              /\ retrying' = FALSE /\ tornDown' = FALSE
              /\ UNCHANGED lost

Listener == \E s \in Sockets : OnOpen(s) \/ OnMessage(s) \/ OnFailure(s) \/ OnClosing(s)
Client == Listener \/ Close \/ Bite \/ Cleanup \/ LateCleanup
          \/ \E s \in Sockets : Establish(s)
================================================================================
