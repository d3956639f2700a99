------------------------------ MODULE AppConnection ------------------------------
(***************************************************************************)
(* The state of the application's screen and the connection behind it      *)
(* (MainViewModel.kt), on top of WsClient.                                 *)
(*                                                                         *)
(* Everything here runs on the main thread.  The collector of the current  *)
(* flow handles one event at a time; on Connected it waits for the store.  *)
(* A firmware update and a change of the password are coroutines of their  *)
(* own: no disconnection ends them, and they write the state of the screen *)
(* too.                                                                    *)
(***************************************************************************)
EXTENDS WsClient

CONSTANT MaxUpdates   \* bound: updates at work at the same time

ASSUME AppAssumption == MaxUpdates \in Nat

VARIABLES uiState, isReconnecting,
          saving,      \* the collector waits for saveLastConnected
          forgetting,  \* clearConfig is at work
          updates,     \* coroutines of startFirmwareUpdate at work
          asking,      \* a password request is under way
          overridden   \* history: one of these wrote uiState with no open connection

appVars == <<uiState, isReconnecting, saving, forgetting, updates, asking, overridden>>
vars == <<wsVars, appVars>>

States == {"Loading", "Unpaired", "Connecting", "Connected", "QrScanError",
           "Disconnected", "ConnectionFailed", "FirmwareUpdating", "FirmwareUpdateError"}

Init == /\ WsInit
        /\ uiState = "Loading"
        /\ isReconnecting = FALSE /\ saving = FALSE /\ forgetting = FALSE
        /\ updates = 0 /\ asking = FALSE
        /\ overridden = FALSE

-----------------------------------------------------------------------------
(* Connecting and disconnecting.                                           *)

\* connectInternal
Connect == /\ (\E s \in Sockets : Begin(s)) \/ BeginFails
           /\ uiState' = "Connecting"
           /\ saving' = FALSE /\ asking' = FALSE
           /\ overridden' = FALSE
           /\ UNCHANGED <<isReconnecting, forgetting, updates>>

\* The first value of savedConfig arrives.
Start == /\ uiState = "Loading"
         /\ \/ Connect
            \/ /\ uiState' = "Unpaired"
               /\ UNCHANGED <<wsVars, isReconnecting, saving, forgetting, updates, asking,
                              overridden>>

RetryConnection == uiState \in {"Disconnected", "ConnectionFailed"} /\ Connect

\* A code is read, cannot be parsed, or the camera fails.
ScanQr == /\ uiState \in {"Unpaired", "Disconnected", "QrScanError"}
          /\ \/ Connect
             \/ /\ uiState' = "QrScanError"
                /\ UNCHANGED <<wsVars, isReconnecting, saving, forgetting, updates, asking,
                               overridden>>

\* The settings' screen goes away with the request that was made on it.
ManuallyDisconnect == /\ uiState \in {"Connected", "ConnectionFailed"}
                      /\ Disconnect
                      /\ uiState' = "Disconnected"
                      /\ saving' = FALSE /\ asking' = FALSE
                      /\ UNCHANGED <<isReconnecting, forgetting, updates, overridden>>

ForgetDevice == /\ uiState \notin {"Unpaired", "FirmwareUpdating"}
                /\ Disconnect
                /\ forgetting' = TRUE
                /\ saving' = FALSE /\ asking' = FALSE
                /\ UNCHANGED <<uiState, isReconnecting, updates, overridden>>

\* clearConfig has returned.
Forgotten == /\ forgetting
             /\ forgetting' = FALSE
             /\ uiState' = "Unpaired"
             /\ UNCHANGED <<wsVars, isReconnecting, saving, updates, asking, overridden>>

-----------------------------------------------------------------------------
(* The collector of connectInternal.                                       *)

Takes(e) == /\ ~saving /\ events # <<>> /\ Head(events) = e
            /\ events' = Tail(events)
            /\ UNCHANGED <<webSocket, watched, dog, socks, stage, attempt, retrying, late,
                           lost, tornDown>>
            /\ UNCHANGED <<forgetting, updates, asking, overridden>>

\* Mutant: connected again, and the flag stays.
TakeConnectedOnly == /\ Takes("Connected")
                     /\ saving' = TRUE
                     /\ UNCHANGED <<uiState, isReconnecting>>

TakeConnected == /\ Takes("Connected")
                 /\ isReconnecting' = FALSE
                 /\ saving' = TRUE
                 /\ UNCHANGED uiState

TakeReconnecting == /\ Takes("Reconnecting")
                    /\ isReconnecting' = TRUE
                    /\ UNCHANGED <<uiState, saving>>

TakeEnd == /\ Takes("Error") \/ Takes("Disconnected")
           /\ uiState' = "ConnectionFailed"
           /\ UNCHANGED <<isReconnecting, saving>>

\* saveLastConnected has returned; GET_SYS_INFO goes to whatever webSocket is.
Saved == /\ saving
         /\ saving' = FALSE
         /\ uiState' = "Connected"
         /\ overridden' = FALSE
         /\ UNCHANGED <<wsVars, isReconnecting, forgetting, updates, asking>>

-----------------------------------------------------------------------------
(* The coroutines that do not belong to a flow.                            *)

Serving == stage = "open" /\ \E s \in Sockets : Mine(s) /\ socks[s].phase = "open"

Writes(state) == /\ uiState' = state
                 /\ overridden' = (overridden \/ ~Serving)
                 /\ UNCHANGED <<wsVars, isReconnecting, saving, forgetting>>

StartFirmwareUpdate == /\ uiState \in {"Connected", "FirmwareUpdateError"}
                       /\ updates < MaxUpdates
                       /\ updates' = updates + 1
                       /\ Writes("FirmwareUpdating")
                       /\ asking' = FALSE

\* onProgress of the download, whatever the screen shows.
UpdateProgress == /\ updates > 0
                  /\ Writes("FirmwareUpdating")
                  /\ UNCHANGED <<updates, asking>>

\* onError of the download, or of the request to the device.
UpdateFails == /\ updates > 0
               /\ updates' = updates - 1
               /\ Writes("FirmwareUpdateError")
               /\ UNCHANGED asking

\* The device has the image and restarts.
UpdateSent == /\ updates > 0
              /\ updates' = updates - 1
              /\ UNCHANGED <<wsVars, uiState, isReconnecting, saving, forgetting, asking,
                             overridden>>

CancelFirmwareUpdate == /\ uiState = "FirmwareUpdateError"
                        /\ Writes("Connected")
                        /\ asking' = FALSE
                        /\ UNCHANGED updates

\* changeDevicePassword, resetPassword: the state is checked before the request only.
AskPassword == /\ uiState = "Connected" /\ ~asking
               /\ asking' = TRUE
               /\ UNCHANGED <<wsVars, uiState, isReconnecting, saving, forgetting, updates,
                              overridden>>

PasswordDone == /\ asking
                /\ asking' = FALSE
                /\ \/ Writes("Connected") /\ UNCHANGED updates
                   \/ UNCHANGED <<wsVars, uiState, isReconnecting, saving, forgetting,
                                  updates, overridden>>

-----------------------------------------------------------------------------
User == RetryConnection \/ ScanQr \/ ManuallyDisconnect \/ ForgetDevice
        \/ StartFirmwareUpdate \/ CancelFirmwareUpdate \/ AskPassword

Collector == TakeConnected \/ TakeReconnecting \/ TakeEnd \/ Saved

Coroutines == UpdateProgress \/ UpdateFails \/ UpdateSent \/ PasswordDone

Next == \/ Client /\ UNCHANGED appVars
        \/ Start \/ Forgotten \/ Collector \/ User \/ Coroutines

Spec == Init /\ [][Next]_vars

\* The main thread handles what is posted to it, and an attempt to connect has an end:
\* it opens, or fails (okhttp's timeouts; readTimeout(0) leaves the handshake without
\* one, so a peer that accepts and then says nothing is not covered).
Fairness ==
    /\ WF_vars(Start) /\ WF_vars(Forgotten) /\ WF_vars(Collector)
    /\ WF_vars(Close /\ UNCHANGED appVars)
    /\ WF_vars((Cleanup \/ LateCleanup) /\ UNCHANGED appVars)
    /\ WF_vars((\E s \in Sockets : Establish(s)) /\ UNCHANGED appVars)
    /\ \A s \in Sockets : WF_vars(socks[s].phase = "connecting" /\ (OnOpen(s) \/ OnFailure(s))
                                  /\ UNCHANGED appVars)

LiveSpec == Spec /\ Fairness

-----------------------------------------------------------------------------
(* Properties.                                                             *)

TypeOK == /\ webSocket \in Sockets \union {NULL}
          /\ watched \in BOOLEAN /\ dog \in BOOLEAN
          /\ socks \in [Sockets -> [phase : {"dead", "connecting", "open", "half"},
                                    asked : {"no", "close", "cancel"}, mine : BOOLEAN]]
          /\ stage \in {"none", "open", "closing", "queued", "done"}
          /\ events \in Seq(Events) /\ Len(events) <= MaxEvents
          /\ attempt \in 0..MaxReconnect /\ retrying \in BOOLEAN
          /\ late \in 0..MaxLate
          /\ lost \subseteq Sockets /\ tornDown \in BOOLEAN
          /\ uiState \in States /\ isReconnecting \in BOOLEAN /\ saving \in BOOLEAN
          /\ forgetting \in BOOLEAN /\ updates \in 0..MaxUpdates /\ asking \in BOOLEAN
          /\ overridden \in BOOLEAN

\* No connection is left behind: a socket that lives is the one that the next disconnect
\* closes, or has been closed, or another socket's listener took it out of the field.
NoneLeftBehind == \A s \in Sockets : Live(s) =>
                     webSocket = s \/ socks[s].asked # "no" \/ s \in lost

\* When the screen offers the commands, with every event handled, the flow has an open
\* socket and the commands go to it, unless a coroutine that is not the flow's wrote the
\* state, another listener took the field, or an earlier flow's cleanup closed it.
CommandsReach ==
    uiState = "Connected" /\ ~isReconnecting /\ ~saving /\ ~forgetting /\ events = <<>> =>
        \/ overridden \/ tornDown
        \/ \E s \in Sockets : Mine(s) /\ socks[s].phase = "open" /\ (webSocket = s \/ s \in lost)

\* An open connection is watched: if the device falls silent, a timer is there to end it.
OpenIsWatched ==
    \A s \in Sockets :
        stage = "open" /\ webSocket = s /\ socks[s] = [phase |-> "open", asked |-> "no", mine |-> TRUE]
            => dog \/ tornDown

\* The user has to wait: the screen says "connecting", or refuses commands because the
\* client reconnects.
Waiting == \/ uiState = "Connecting"
           \/ uiState = "Connected" /\ isReconnecting /\ ~overridden

\* The flow opens a connection, or will after the delay.
Dials(s) == Mine(s) /\ socks[s].phase = "connecting"
Tries == retrying \/ \E s \in Sockets : Dials(s)

\* The user never waits for nothing: an event is yet to be handled, the store is at work, or
\* the flow tries to connect.
WaitsForSomething == Waiting => events # <<>> \/ saving \/ forgetting \/ Tries

\* Whatever fails and whatever comes late, waiting ends: connected, failed and said so, or
\* taken elsewhere by the user.
WaitingEnds == Waiting ~> ~Waiting
================================================================================
