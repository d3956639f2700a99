--------------------------- MODULE AppConnectionProofs ---------------------------
(* Theorems about AppConnection, for any number of sockets and any bounds.         *)
EXTENDS AppConnection, TLAPS

USE WsClientAssumption, AppAssumption DEF WsClientAssumption, AppAssumption

\* The fields of the client, without those of the screen.
WsTypeOK == /\ webSocket \in Sockets \union {NULL}
            /\ watched \in BOOLEAN /\ dog \in BOOLEAN
            /\ socks \in [Sockets -> [phase : {"dead", "connecting", "open", "half"},
                                      asked : {"no", "close", "cancel"}, mine : BOOLEAN]]
            /\ stage \in {"none", "open", "closing", "queued", "done"}
            /\ events \in Seq(Events) /\ Len(events) <= MaxEvents
            /\ attempt \in 0..MaxReconnect /\ retrying \in BOOLEAN
            /\ late \in 0..MaxLate
            /\ lost \subseteq Sockets /\ tornDown \in BOOLEAN

\* What trySend leaves in the channel: at most one event more, and room was checked.
LEMMA SendsType ==
    ASSUME NEW s \in Sockets, NEW e \in Events, WsTypeOK, CanSend, Sends(s, e)
    PROVE  events' \in Seq(Events) /\ Len(events') <= MaxEvents
  <1>1. CASE events' = events
    BY <1>1 DEF WsTypeOK
  <1>2. CASE events' = Append(events, e)
    <2>1. Append(events, e) \in Seq(Events) /\ Len(Append(events, e)) = Len(events) + 1
      BY DEF WsTypeOK
    <2> QED BY <1>2, <2>1 DEF WsTypeOK, CanSend
  <1> QED BY <1>1, <1>2 DEF Sends

\* Closing a socket keeps the sockets what they are.
LEMMA ClosedType ==
    ASSUME WsTypeOK
    PROVE  /\ Closed(webSocket) \in [Sockets -> [phase : {"dead", "connecting", "open", "half"},
                                     asked : {"no", "close", "cancel"}, mine : BOOLEAN]]
           /\ \A t \in Sockets : t # webSocket => Closed(webSocket)[t] = socks[t]
           /\ \A t \in Sockets : Closed(webSocket)[t].mine => socks[t].mine
           /\ webSocket \in Sockets =>
                \/ Closed(webSocket)[webSocket].phase = "dead"
                \/ Closed(webSocket)[webSocket].asked # "no"
  BY DEF Closed, Gone, Live, WsTypeOK

\* Orphaned changes the owner alone.
LEMMA OrphanedType ==
    ASSUME NEW ss \in [Sockets -> [phase : {"dead", "connecting", "open", "half"},
                                   asked : {"no", "close", "cancel"}, mine : BOOLEAN]]
    PROVE  /\ Orphaned(ss) \in [Sockets -> [phase : {"dead", "connecting", "open", "half"},
                                            asked : {"no", "close", "cancel"}, mine : BOOLEAN]]
           /\ \A t \in Sockets : /\ Orphaned(ss)[t].phase = ss[t].phase
                                 /\ Orphaned(ss)[t].asked = ss[t].asked
                                 /\ Orphaned(ss)[t].mine = FALSE
  BY DEF Orphaned

-----------------------------------------------------------------------------
\* Every step of the client keeps the ranges of its fields.
LEMMA ClientType == WsTypeOK /\ Client => WsTypeOK'
  <1> SUFFICES ASSUME WsTypeOK, Client PROVE WsTypeOK'
    OBVIOUS
  <1>1. ASSUME NEW s \in Sockets, OnOpen(s) PROVE WsTypeOK'
    <2>1. events' \in Seq(Events) /\ Len(events') <= MaxEvents
      BY <1>1, SendsType DEF OnOpen, Events
    <2> QED BY <1>1, <2>1 DEF OnOpen, PutOut, ResetWatchdog, WsTypeOK, Mine
  <1>2. ASSUME NEW s \in Sockets, OnMessage(s) PROVE WsTypeOK'
    BY <1>2 DEF OnMessage, ResetWatchdog, WsTypeOK, flowVars
  <1>3. ASSUME NEW s \in Sockets, OnFailure(s) PROVE WsTypeOK'
    <2>1. CASE Retries(s)
      <3>1. events' \in Seq(Events) /\ Len(events') <= MaxEvents
        BY <1>3, <2>1, SendsType DEF OnFailure, Retries, Events
      <3>2. retrying' \in BOOLEAN
        BY <2>1 DEF Retries
      <3>3. attempt' \in 0..MaxReconnect
        BY <2>1 DEF Retries, WsTypeOK
      <3> QED BY <1>3, <2>1, <3>1, <3>2, <3>3 DEF OnFailure, Gone, Retries, Dies, PutOut, WsTypeOK
    <2>2. CASE GivesUp(s)
      <3>1. events' \in Seq(Events) /\ Len(events') <= MaxEvents
        BY <1>3, <2>2, SendsType DEF OnFailure, GivesUp, Events
      <3> QED BY <1>3, <2>2, <3>1 DEF OnFailure, GivesUp, BeginsClosing, Gone, Dies, PutOut, WsTypeOK
    <2> QED BY <1>3, <2>1, <2>2 DEF OnFailure
  <1>4. ASSUME NEW s \in Sockets, OnClosing(s) PROVE WsTypeOK'
    <2>1. events' \in Seq(Events) /\ Len(events') <= MaxEvents
      BY <1>4, SendsType DEF OnClosing, Events
    <2> QED BY <1>4, <2>1 DEF OnClosing, Gone, BeginsClosing, WsTypeOK
  <1>5. CASE Close
    BY <1>5 DEF Close, WsTypeOK
  <1>6. CASE Bite
    BY <1>6 DEF Bite, WsTypeOK, flowVars
  <1>7. CASE Cleanup
    BY <1>7, ClosedType DEF Cleanup, StopWatchdog, WsTypeOK
  <1>8. CASE LateCleanup
    <2>1. tornDown' \in BOOLEAN
      BY <1>8 DEF LateCleanup
    <2>2. late' \in 0..MaxLate
      BY <1>8 DEF LateCleanup, WsTypeOK
    <2> QED BY <1>8, <2>1, <2>2, ClosedType DEF LateCleanup, StopWatchdog, WsTypeOK
  <1>9. ASSUME NEW s \in Sockets, Establish(s) PROVE WsTypeOK'
    BY <1>9 DEF Establish, NewSocket, PutOut, WsTypeOK
  <1> QED BY <1>1, <1>2, <1>3, <1>4, <1>5, <1>6, <1>7, <1>8, <1>9 DEF Client, Listener

\* So do the three ways in which the main thread replaces or ends a flow.
LEMMA ReplaceType ==
    ASSUME WsTypeOK, (\E s \in Sockets : Begin(s)) \/ BeginFails \/ Disconnect
    PROVE  WsTypeOK'
  <1> DEFINE C == Closed(webSocket)
  <1>1. Orphaned(C) \in [Sockets -> [phase : {"dead", "connecting", "open", "half"},
                                     asked : {"no", "close", "cancel"}, mine : BOOLEAN]]
    BY ClosedType, OrphanedType
  <1>2. LateAfter <= MaxLate => LateAfter \in 0..MaxLate
    BY DEF LateAfter, WsTypeOK
  <1>3. <<>> \in Seq(Events) /\ Len(<<>>) = 0 /\ <<"Error">> \in Seq(Events) /\ Len(<<"Error">>) = 1
    BY DEF Events
  <1>4. ASSUME NEW s \in Sockets, Begin(s) PROVE WsTypeOK'
    <2>1. dog' \in BOOLEAN
      BY <1>4 DEF Begin
    <2>2. late' \in 0..MaxLate
      BY <1>2, <1>4 DEF Begin
    <2>3. socks' \in [Sockets -> [phase : {"dead", "connecting", "open", "half"},
                                  asked : {"no", "close", "cancel"}, mine : BOOLEAN]]
      BY <1>1, <1>4 DEF Begin, NewSocket
    <2>4. /\ webSocket' \in Sockets \union {NULL} /\ lost' \subseteq Sockets
          /\ stage' \in {"none", "open", "closing", "queued", "done"}
      BY <1>4 DEF Begin, NewSocket, WsTypeOK
    <2>5. watched' \in BOOLEAN /\ retrying' \in BOOLEAN /\ tornDown' \in BOOLEAN
      BY <1>4 DEF Begin
    <2>6. attempt' \in 0..MaxReconnect /\ events' \in Seq(Events) /\ Len(events') <= MaxEvents
      BY <1>3, <1>4 DEF Begin
    <2> QED BY <2>1, <2>2, <2>3, <2>4, <2>5, <2>6 DEF WsTypeOK
  <1>5. CASE BeginFails
    <2>1. late' \in 0..MaxLate
      BY <1>2, <1>5 DEF BeginFails
    <2>2. socks' \in [Sockets -> [phase : {"dead", "connecting", "open", "half"},
                                  asked : {"no", "close", "cancel"}, mine : BOOLEAN]]
      BY <1>1, <1>5 DEF BeginFails
    <2>3. /\ webSocket' \in Sockets \union {NULL} /\ lost' \subseteq Sockets
          /\ stage' \in {"none", "open", "closing", "queued", "done"}
      BY <1>5 DEF BeginFails, WsTypeOK
    <2>4. /\ watched' \in BOOLEAN /\ dog' \in BOOLEAN
          /\ retrying' \in BOOLEAN /\ tornDown' \in BOOLEAN
      BY <1>5 DEF BeginFails, StopWatchdog, WsTypeOK
    <2>5. attempt' \in 0..MaxReconnect /\ events' \in Seq(Events) /\ Len(events') <= MaxEvents
      BY <1>3, <1>5 DEF BeginFails
    <2> QED BY <2>1, <2>2, <2>3, <2>4, <2>5 DEF WsTypeOK
  <1>6. CASE Disconnect
    <2>1. late' \in 0..MaxLate
      BY <1>2, <1>6 DEF Disconnect
    <2>2. socks' \in [Sockets -> [phase : {"dead", "connecting", "open", "half"},
                                  asked : {"no", "close", "cancel"}, mine : BOOLEAN]]
      BY <1>1, <1>6 DEF Disconnect
    <2>3. /\ webSocket' \in Sockets \union {NULL} /\ lost' \subseteq Sockets
          /\ stage' \in {"none", "open", "closing", "queued", "done"}
      BY <1>6 DEF Disconnect, WsTypeOK
    <2>4. /\ watched' \in BOOLEAN /\ dog' \in BOOLEAN
          /\ retrying' \in BOOLEAN /\ tornDown' \in BOOLEAN
      BY <1>6 DEF Disconnect, StopWatchdog, WsTypeOK
    <2>5. attempt' \in 0..MaxReconnect /\ events' \in Seq(Events) /\ Len(events') <= MaxEvents
      BY <1>3, <1>6 DEF Disconnect
    <2> QED BY <2>1, <2>2, <2>3, <2>4, <2>5 DEF WsTypeOK
  <1> QED BY <1>4, <1>5, <1>6

-----------------------------------------------------------------------------
\* The fields of the screen.
AppTypeOK == /\ uiState \in States /\ isReconnecting \in BOOLEAN /\ saving \in BOOLEAN
             /\ forgetting \in BOOLEAN /\ updates \in 0..MaxUpdates /\ asking \in BOOLEAN
             /\ overridden \in BOOLEAN

\* What a step is to the client: a step of its own, a new flow, the end of one, an event
\* that is taken, or nothing.
Replaces == (\E s \in Sockets : Begin(s)) \/ BeginFails \/ Disconnect

TakesOne == /\ events # <<>> /\ events' = Tail(events)
            /\ UNCHANGED <<webSocket, watched, dog, socks, stage, attempt, retrying, late,
                           lost, tornDown>>

LEMMA StepOfClient ==
    ASSUME [Next]_vars
    PROVE  Client \/ Replaces \/ TakesOne \/ UNCHANGED wsVars
  <1>1. CASE Client /\ UNCHANGED appVars
    BY <1>1
  <1>2. CASE Start
    BY <1>2 DEF Start, Connect, Replaces
  <1>3. CASE Forgotten
    BY <1>3 DEF Forgotten
  <1>4. CASE Collector
    BY <1>4 DEF Collector, TakeConnected, TakeReconnecting, TakeEnd, Saved, Takes, TakesOne
  <1>5. CASE User
    BY <1>5 DEF User, RetryConnection, ScanQr, ManuallyDisconnect, ForgetDevice,
                StartFirmwareUpdate, CancelFirmwareUpdate, AskPassword, Writes, Connect,
                Replaces
  <1>6. CASE Coroutines
    BY <1>6 DEF Coroutines, UpdateProgress, UpdateFails, UpdateSent, PasswordDone, Writes
  <1>7. CASE UNCHANGED vars
    BY <1>7 DEF vars
  <1> QED BY <1>1, <1>2, <1>3, <1>4, <1>5, <1>6, <1>7 DEF Next

\* The screen's variables keep their ranges.
LEMMA AppType == AppTypeOK /\ [Next]_vars => AppTypeOK'
  <1> SUFFICES ASSUME AppTypeOK, [Next]_vars PROVE AppTypeOK'
    OBVIOUS
  <1>1. CASE Client /\ UNCHANGED appVars
    BY <1>1 DEF appVars, AppTypeOK
  <1>2. ASSUME Connect PROVE AppTypeOK'
    BY <1>2 DEF Connect, AppTypeOK, States
  <1>3. CASE Start
    BY <1>2, <1>3 DEF Start, AppTypeOK, States
  <1>4. CASE Forgotten
    BY <1>4 DEF Forgotten, AppTypeOK, States
  <1>5. CASE Collector
    BY <1>5 DEF Collector, TakeConnected, TakeReconnecting, TakeEnd, Saved, Takes,
                AppTypeOK, States
  <1>6. ASSUME NEW state \in States, Writes(state)
        PROVE  /\ uiState' \in States /\ overridden' \in BOOLEAN
               /\ UNCHANGED <<isReconnecting, saving, forgetting>>
    BY <1>6 DEF Writes
  <1>7. CASE User
    <2>1. CASE RetryConnection \/ ScanQr
      BY <1>2, <2>1 DEF RetryConnection, ScanQr, AppTypeOK, States
    <2>2. CASE ManuallyDisconnect \/ ForgetDevice \/ AskPassword
      BY <2>2 DEF ManuallyDisconnect, ForgetDevice, AskPassword, AppTypeOK, States
    <2>3. CASE StartFirmwareUpdate
      <3>1. updates' \in 0..MaxUpdates
        BY <2>3 DEF StartFirmwareUpdate, AppTypeOK
      <3>2. Writes("FirmwareUpdating") /\ asking' = FALSE
        BY <2>3 DEF StartFirmwareUpdate
      <3> QED BY <1>6, <3>1, <3>2 DEF AppTypeOK, States
    <2>4. CASE CancelFirmwareUpdate
      BY <1>6, <2>4 DEF CancelFirmwareUpdate, AppTypeOK, States
    <2> QED BY <1>7, <2>1, <2>2, <2>3, <2>4 DEF User
  <1>8. CASE Coroutines
    <2>1. CASE UpdateProgress
      BY <1>6, <2>1 DEF UpdateProgress, AppTypeOK, States
    <2>2. CASE UpdateFails
      <3>1. updates' \in 0..MaxUpdates
        BY <2>2 DEF UpdateFails, AppTypeOK
      <3>2. Writes("FirmwareUpdateError") /\ asking' = asking
        BY <2>2 DEF UpdateFails
      <3> QED BY <1>6, <3>1, <3>2 DEF AppTypeOK, States
    <2>3. CASE UpdateSent
      <3>1. updates' \in 0..MaxUpdates
        BY <2>3 DEF UpdateSent, AppTypeOK
      <3> QED BY <2>3, <3>1 DEF UpdateSent, AppTypeOK
    <2>4. CASE PasswordDone
      BY <1>6, <2>4 DEF PasswordDone, AppTypeOK, States
    <2> QED BY <1>8, <2>1, <2>2, <2>3, <2>4 DEF Coroutines
  <1>9. CASE UNCHANGED vars
    BY <1>9 DEF vars, appVars, AppTypeOK
  <1> QED BY <1>1, <1>3, <1>4, <1>5, <1>7, <1>8, <1>9 DEF Next

LEMMA InitType == Init => TypeOK
  <1> SUFFICES ASSUME Init PROVE TypeOK
    OBVIOUS
  <1>1. events \in Seq(Events) /\ Len(events) <= MaxEvents
    BY DEF Init, WsInit
  <1>2. attempt \in 0..MaxReconnect /\ late \in 0..MaxLate /\ updates \in 0..MaxUpdates
    BY DEF Init, WsInit
  <1>3. socks \in [Sockets -> [phase : {"dead", "connecting", "open", "half"},
                               asked : {"no", "close", "cancel"}, mine : BOOLEAN]]
    BY DEF Init, Gone, WsInit
  <1>4. /\ watched \in BOOLEAN /\ dog \in BOOLEAN /\ retrying \in BOOLEAN
        /\ tornDown \in BOOLEAN /\ isReconnecting \in BOOLEAN /\ saving \in BOOLEAN
        /\ forgetting \in BOOLEAN /\ asking \in BOOLEAN /\ overridden \in BOOLEAN
    BY DEF Init, WsInit
  <1> QED BY <1>1, <1>2, <1>3, <1>4 DEF Init, WsInit, TypeOK, States

LEMMA NextType == TypeOK /\ [Next]_vars => TypeOK'
  <1> SUFFICES ASSUME TypeOK, [Next]_vars PROVE TypeOK'
    OBVIOUS
  <1>1. WsTypeOK /\ AppTypeOK
    BY DEF TypeOK, WsTypeOK, AppTypeOK
  <1>2. CASE TakesOne
    <2>1. events' \in Seq(Events) /\ Len(events') <= MaxEvents
      BY <1>1, <1>2 DEF TakesOne, WsTypeOK
    <2> QED BY <1>1, <1>2, <2>1, AppType DEF TakesOne, WsTypeOK, AppTypeOK, TypeOK
  <1>3. CASE UNCHANGED wsVars
    BY <1>1, <1>3, AppType DEF wsVars, flowVars, WsTypeOK, AppTypeOK, TypeOK
  <1>4. ASSUME WsTypeOK', AppTypeOK' PROVE TypeOK'
    BY <1>4 DEF TypeOK, WsTypeOK, AppTypeOK
  <1>5. CASE Client \/ Replaces
    BY <1>1, <1>4, <1>5, ClientType, ReplaceType, AppType DEF Replaces
  <1> QED BY <1>2, <1>3, <1>5, StepOfClient

\* Every variable keeps its range: the channel never overflows, the attempts stay within
\* the limit, whatever sockets, listeners and users do.
THEOREM TypeInvariant == Spec => []TypeOK
  BY InitType, NextType, PTL DEF Spec

-----------------------------------------------------------------------------
(* NoneLeftBehind is inductive with the types.                             *)

LEMMA NoneLeftNext == TypeOK /\ NoneLeftBehind /\ [Next]_vars => NoneLeftBehind'
  <1> SUFFICES ASSUME TypeOK, NoneLeftBehind, [Next]_vars, NEW t \in Sockets, Live(t)'
               PROVE  webSocket' = t \/ socks'[t].asked # "no" \/ t \in lost'
    BY DEF NoneLeftBehind
  <1>1. WsTypeOK /\ (Live(t) => webSocket = t \/ socks[t].asked # "no" \/ t \in lost)
    BY DEF TypeOK, WsTypeOK, NoneLeftBehind
  <1>2. ASSUME NEW s \in Sockets, OnOpen(s) \/ OnFailure(s) \/ OnClosing(s) \/ OnMessage(s)
        PROVE  webSocket' = t \/ socks'[t].asked # "no" \/ t \in lost'
    BY <1>1, <1>2 DEF OnOpen, OnFailure, OnClosing, OnMessage, Gone, Dies, PutOut, Live, WsTypeOK
  <1>3. CASE Close \/ Bite
    BY <1>1, <1>3 DEF Close, Bite, Live, WsTypeOK
  <1>4. CASE Cleanup \/ LateCleanup
    BY <1>1, <1>4, ClosedType DEF Cleanup, LateCleanup, Live, WsTypeOK
  <1>5. ASSUME NEW s \in Sockets, Establish(s)
        PROVE  webSocket' = t \/ socks'[t].asked # "no" \/ t \in lost'
    BY <1>1, <1>5 DEF Establish, NewSocket, PutOut, Live, WsTypeOK
  <1>6. CASE Replaces
    <2>1. /\ Closed(webSocket) \in [Sockets -> [phase : {"dead", "connecting", "open", "half"},
                                    asked : {"no", "close", "cancel"}, mine : BOOLEAN]]
          /\ Orphaned(Closed(webSocket))[t].phase = Closed(webSocket)[t].phase
          /\ Orphaned(Closed(webSocket))[t].asked = Closed(webSocket)[t].asked
      BY <1>1, ClosedType, OrphanedType
    <2>2. ASSUME NEW s \in Sockets, Begin(s)
          PROVE  webSocket' = t \/ socks'[t].asked # "no" \/ t \in lost'
      BY <1>1, <2>1, <2>2, ClosedType, OrphanedType DEF Begin, NewSocket, Live, WsTypeOK
    <2>3. CASE BeginFails \/ Disconnect
      BY <1>1, <2>1, <2>3, ClosedType DEF BeginFails, Disconnect, Live, WsTypeOK
    <2> QED BY <1>6, <2>2, <2>3 DEF Replaces
  <1>7. CASE TakesOne \/ UNCHANGED wsVars
    BY <1>1, <1>7 DEF TakesOne, wsVars, Live
  <1> QED BY <1>2, <1>3, <1>4, <1>5, <1>6, <1>7, StepOfClient DEF Client, Listener

\* No connection to the device is left behind by reconnects, disconnects and new flows,
\* unless the listener of another socket took it out of the field.
THEOREM NoConnectionLeft == Spec => []NoneLeftBehind
  <1>1. Init => NoneLeftBehind
    BY DEF Init, Gone, WsInit, NoneLeftBehind, Live
  <1> QED BY <1>1, NoneLeftNext, TypeInvariant, PTL DEF Spec

-----------------------------------------------------------------------------
(* While a flow is open its scope exists, and then every callback of an     *)
(* open socket leaves the watchdog armed.                                  *)

WatchInv == /\ stage \in {"open", "closing", "queued"} => watched \/ tornDown
            /\ OpenIsWatched

LEMMA WatchNext == TypeOK /\ WatchInv /\ [Next]_vars => WatchInv'
  <1> SUFFICES ASSUME TypeOK, WatchInv, [Next]_vars PROVE WatchInv'
    OBVIOUS
  <1> DEFINE Open == [phase |-> "open", asked |-> "no", mine |-> TRUE]
             Watched(t) == stage = "open" /\ webSocket = t /\ socks[t] = Open
                             => dog \/ tornDown
  <1>1. WsTypeOK /\ (\A t \in Sockets : Watched(t))
        /\ (stage \in {"open", "closing", "queued"} => watched \/ tornDown)
    BY DEF TypeOK, WsTypeOK, WatchInv, OpenIsWatched
  <1>2. ASSUME stage' \in {"open", "closing", "queued"} => watched' \/ tornDown',
               \A t \in Sockets : Watched(t)'
        PROVE  WatchInv'
    BY <1>2 DEF WatchInv, OpenIsWatched
  <1> HIDE DEF Open
  <1>3. ASSUME NEW s \in Sockets, OnOpen(s) \/ OnMessage(s) PROVE WatchInv'
    BY <1>1, <1>2, <1>3 DEF OnOpen, OnMessage, ResetWatchdog, flowVars
  <1>4. ASSUME NEW s \in Sockets, OnFailure(s) PROVE WatchInv'
    <2>1. webSocket' = NULL /\ UNCHANGED <<watched, dog, tornDown>>
      BY <1>4 DEF OnFailure, Dies
    <2>2. stage' \in {"open", "closing", "queued"} => stage \in {"open", "closing", "queued"}
      BY <1>4 DEF OnFailure, Retries, GivesUp, BeginsClosing
    <2> QED BY <1>1, <1>2, <2>1, <2>2
  <1>5. ASSUME NEW s \in Sockets, OnClosing(s) PROVE WatchInv'
    <2>1. UNCHANGED <<webSocket, watched, dog, tornDown>>
      BY <1>5 DEF OnClosing
    <2>2. /\ stage' = "open" => stage = "open"
          /\ stage' \in {"open", "closing", "queued"} => stage \in {"open", "closing", "queued"}
      BY <1>5 DEF OnClosing, BeginsClosing
    <2>3. socks'[s] # Open /\ \A t \in Sockets \ {s} : socks'[t] = socks[t]
      BY <1>1, <1>5 DEF OnClosing, Gone, WsTypeOK, Open
    <2> QED BY <1>1, <1>2, <2>1, <2>2, <2>3
  <1>6. CASE Close
    BY <1>1, <1>2, <1>6 DEF Close
  <1>7. CASE Bite
    <2>1. \A t \in Sockets : webSocket = t /\ socks'[t] = Open => FALSE
      BY <1>1, <1>7 DEF Bite, Live, WsTypeOK, Open
    <2> QED BY <1>1, <1>2, <1>7, <2>1 DEF Bite, flowVars
  <1>8. CASE Cleanup \/ LateCleanup
    BY <1>1, <1>2, <1>8 DEF Cleanup, LateCleanup, StopWatchdog, WsTypeOK
  <1>9. ASSUME NEW s \in Sockets, Establish(s) PROVE WatchInv'
    <2>1. webSocket' = s /\ socks'[s] # Open
      BY <1>1, <1>9 DEF Establish, NewSocket, WsTypeOK, Open
    <2> QED BY <1>1, <1>2, <1>9, <2>1 DEF Establish
  <1>10. CASE Replaces
    <2>1. ASSUME NEW s \in Sockets, Begin(s) PROVE WatchInv'
      <3>1. Orphaned(Closed(webSocket)) \in [Sockets -> [phase : {"dead", "connecting", "open", "half"},
                                    asked : {"no", "close", "cancel"}, mine : BOOLEAN]]
        BY <1>1, ClosedType, OrphanedType
      <3>2. webSocket' = s /\ socks'[s] # Open
        BY <2>1, <3>1 DEF Begin, NewSocket, Open
      <3> QED BY <1>2, <2>1, <3>2 DEF Begin
    <2>2. CASE BeginFails \/ Disconnect
      BY <1>2, <2>2 DEF BeginFails, Disconnect
    <2> QED BY <1>10, <2>1, <2>2 DEF Replaces
  <1>11. CASE TakesOne \/ UNCHANGED wsVars
    BY <1>1, <1>2, <1>11 DEF TakesOne, wsVars, flowVars
  <1> QED BY <1>3, <1>4, <1>5, <1>6, <1>7, <1>8, <1>9, <1>10, <1>11, StepOfClient
          DEF Client, Listener

\* If the device falls silent while connected, a timer is running that ends the
\* connection, unless the cleanup of an earlier flow has stopped it.
THEOREM SilenceNoticed == Spec => []OpenIsWatched
  <1>1. Init => WatchInv
    BY DEF Init, WsInit, WatchInv, OpenIsWatched
  <1>2. WatchInv => OpenIsWatched
    BY DEF WatchInv
  <1> QED BY <1>1, <1>2, WatchNext, TypeInvariant, PTL DEF Spec

-----------------------------------------------------------------------------
(* A flow has one connection at a time, its listener says what becomes of   *)
(* it, and the last thing said is what the screen will show.                *)

\* A connection of the present flow that is open, is to be, or waits to be closed.
Connection(s) == Mine(s) /\ socks[s].phase = "open"
Runs(s) == Mine(s) /\ socks[s].phase \in {"connecting", "open"}
Half(s) == Mine(s) /\ socks[s].phase = "half"

\* A flow that is open connects, is connected, or waits to connect again.
FlowInv ==
    /\ \A s \in Sockets : Runs(s) => stage = "open" /\ ~retrying
    /\ \A s, t \in Sockets : Runs(s) /\ Runs(t) => s = t
    /\ \A s \in Sockets : Half(s) => stage # "open"
    /\ retrying => stage = "open"

FieldInv == \A s \in Sockets : Connection(s) => webSocket = s \/ s \in lost \/ tornDown

\* What the screen shows when no event is left for it.
Settled == /\ ~saving
           /\ uiState # "Connected" \/ isReconnecting \/ overridden \/ forgetting

LastEvent == events[Len(events)]

\* Without a connection nothing says that there is one: not the screen, and not the last
\* event that waits for it.
ToldInv == (\A s \in Sockets : ~Connection(s)) =>
              IF events = <<>> THEN Settled ELSE LastEvent # "Connected"

\* Closing the socket of the field makes no socket run.
LEMMA ClosedPhase ==
    ASSUME WsTypeOK
    PROVE  \A t \in Sockets : Closed(webSocket)[t].phase \in {socks[t].phase, "dead"}
  BY DEF Closed, Gone, Live, WsTypeOK

\* Nor does it end one at once that is open, or is to be: the peer has to answer.
LEMMA ClosedOpen ==
    ASSUME WsTypeOK
    PROVE  \A t \in Sockets : socks[t].phase \in {"connecting", "open"} =>
             /\ Closed(webSocket)[t].phase = socks[t].phase
             /\ Closed(webSocket)[t].mine = socks[t].mine
  BY DEF Closed, Gone, Live, WsTypeOK

\* A step that makes no socket run and keeps the stage.
LEMMA FlowKept ==
    ASSUME FlowInv, UNCHANGED <<stage, retrying>>,
           \A t \in Sockets : Runs(t)' => Runs(t),
           \A t \in Sockets : Half(t)' => Half(t)
    PROVE  FlowInv'
  BY DEF FlowInv

\* The one socket that ran is gone or half closed, and the flow with it.
LEMMA FlowEnds ==
    ASSUME FlowInv, NEW s \in Sockets, Runs(s), stage' # "open", UNCHANGED retrying,
           ~Runs(s)', \A t \in Sockets \ {s} : Runs(t)' => Runs(t)
    PROVE  FlowInv'
  BY DEF FlowInv

LEMMA FlowClient == WsTypeOK /\ FlowInv /\ Client => FlowInv'
  <1> SUFFICES ASSUME WsTypeOK, FlowInv, Client PROVE FlowInv'
    OBVIOUS
  <1>1. ASSUME NEW s \in Sockets, OnOpen(s) PROVE FlowInv'
    <2>1. /\ socks[s].phase = "connecting" /\ UNCHANGED <<stage, retrying>>
          /\ socks' = [socks EXCEPT ![s].phase = "open"]
      BY <1>1 DEF OnOpen
    <2>2. \A t \in Sockets : Runs(t)' => Runs(t)
      BY <2>1 DEF Runs, Mine, WsTypeOK
    <2>3. \A t \in Sockets : Half(t)' => Half(t)
      BY <2>1 DEF Half, Mine, WsTypeOK
    <2> QED BY <2>1, <2>2, <2>3, FlowKept
  <1>2. ASSUME NEW s \in Sockets, OnMessage(s) PROVE FlowInv'
    BY <1>2, FlowKept DEF OnMessage, flowVars, Runs, Half, Mine
  <1>3. ASSUME NEW s \in Sockets, OnFailure(s) PROVE FlowInv'
    <2>1. /\ Live(s) /\ socks' = [socks EXCEPT ![s] = Gone]
          /\ Retries(s) \/ GivesUp(s)
      BY <1>3 DEF OnFailure, Dies
    <2>2. /\ ~Runs(s)' /\ \A t \in Sockets : Runs(t)' => Runs(t)
          /\ \A t \in Sockets : Half(t)' => Half(t)
      BY <2>1 DEF Gone, Runs, Half, Mine, WsTypeOK
    <2>3. CASE Retries(s) /\ Mine(s) /\ stage = "open"
      <3>1. Runs(s)
        BY <2>1, <2>3 DEF Runs, Live, Half, FlowInv
      <3>2. \A t \in Sockets : ~Runs(t)'
        BY <2>2, <3>1 DEF FlowInv
      <3>3. stage' = "open"
        BY <2>3 DEF Retries
      <3> QED BY <2>2, <2>3, <3>2, <3>3 DEF FlowInv
    <2>4. CASE Retries(s) /\ ~(Mine(s) /\ stage = "open")
      <3>1. UNCHANGED stage /\ (retrying' <=> retrying)
        BY <2>4 DEF Retries
      <3> QED BY <2>2, <3>1 DEF FlowInv
    <2>5. CASE GivesUp(s) /\ Mine(s) /\ stage = "open"
      <3>1. Runs(s)
        BY <2>1, <2>5 DEF Runs, Live, Half, FlowInv
      <3>2. stage' = "closing" /\ UNCHANGED retrying
        BY <2>5 DEF GivesUp, BeginsClosing
      <3> QED BY <2>2, <3>1, <3>2, FlowEnds
    <2>6. CASE GivesUp(s) /\ ~(Mine(s) /\ stage = "open")
      <3>1. UNCHANGED <<stage, retrying>>
        BY <2>6 DEF GivesUp, BeginsClosing
      <3> QED BY <2>2, <3>1, FlowKept
    <2> QED BY <2>1, <2>3, <2>4, <2>5, <2>6
  <1>4. ASSUME NEW s \in Sockets, OnClosing(s) PROVE FlowInv'
    <2>1. /\ socks[s].phase = "open" /\ BeginsClosing(s) /\ UNCHANGED retrying
          /\ socks' = [socks EXCEPT ![s] = IF @.asked = "close" THEN Gone
                                            ELSE [@ EXCEPT !.phase = "half"]]
      BY <1>4 DEF OnClosing
    <2>2. /\ ~Runs(s)' /\ \A t \in Sockets : Runs(t)' => Runs(t)
          /\ \A t \in Sockets \ {s} : Half(t)' => Half(t)
          /\ Half(s)' => Mine(s)
      BY <2>1 DEF Gone, Runs, Half, Mine, WsTypeOK
    <2>3. CASE Mine(s)
      <3>1. Runs(s)
        BY <2>1, <2>3 DEF Runs
      <3>2. stage' = "closing"
        BY <2>1, <2>3, <3>1 DEF BeginsClosing, FlowInv
      <3> QED BY <2>1, <2>2, <3>1, <3>2, FlowEnds
    <2>4. CASE ~Mine(s)
      <3>1. UNCHANGED stage
        BY <2>1, <2>4 DEF BeginsClosing
      <3> QED BY <2>1, <2>2, <2>4, <3>1, FlowKept
    <2> QED BY <2>3, <2>4
  <1>5. CASE Close
    BY <1>5 DEF Close, FlowInv, Runs, Half, Mine
  <1>6. CASE Bite
    <2>1. \A t \in Sockets : socks'[t].phase = socks[t].phase /\ socks'[t].mine = socks[t].mine
      BY <1>6 DEF Bite, WsTypeOK
    <2> QED BY <1>6, <2>1, FlowKept DEF Bite, flowVars, Runs, Half, Mine
  <1>7. CASE Cleanup \/ LateCleanup
    <2>1. socks' = Closed(webSocket) /\ UNCHANGED retrying
      BY <1>7 DEF Cleanup, LateCleanup
    <2>2. /\ \A t \in Sockets : Runs(t)' => Runs(t)
          /\ \A t \in Sockets : Half(t)' => Half(t)
      BY <2>1, ClosedType, ClosedPhase DEF Runs, Half, Mine
    <2>3. UNCHANGED stage \/ (stage = "queued" /\ stage' = "done")
      BY <1>7 DEF Cleanup, LateCleanup
    <2> QED BY <2>1, <2>2, <2>3 DEF FlowInv
  <1>8. ASSUME NEW s \in Sockets, Establish(s) PROVE FlowInv'
    <2>1. /\ retrying /\ retrying' = FALSE /\ UNCHANGED stage
          /\ socks' = [socks EXCEPT ![s] =
                         [phase |-> "connecting", asked |-> "no", mine |-> TRUE]]
      BY <1>8 DEF Establish, NewSocket
    <2>2. /\ \A t \in Sockets \ {s} : (Runs(t)' => Runs(t)) /\ (Half(t)' => Half(t))
          /\ ~Half(s)'
      BY <2>1 DEF Runs, Half, Mine, WsTypeOK
    <2>3. stage = "open" /\ \A t \in Sockets : ~Runs(t)
      BY <2>1 DEF FlowInv
    <2> QED BY <2>1, <2>2, <2>3 DEF FlowInv
  <1> QED BY <1>1, <1>2, <1>3, <1>4, <1>5, <1>6, <1>7, <1>8 DEF Client, Listener

\* Afterwards only the socket that a new flow makes is one of the flow's.
LEMMA ReplacedSockets ==
    ASSUME WsTypeOK
    PROVE  /\ \A s \in Sockets : Begin(s) =>
                /\ socks'[s] = [phase |-> "connecting", asked |-> "no", mine |-> TRUE]
                /\ \A t \in Sockets \ {s} : ~Mine(t)'
           /\ BeginFails \/ Disconnect => \A t \in Sockets : ~Mine(t)'
  <1>1. /\ Orphaned(Closed(webSocket)) \in [Sockets -> [phase : {"dead", "connecting", "open", "half"},
                                  asked : {"no", "close", "cancel"}, mine : BOOLEAN]]
        /\ \A t \in Sockets : Orphaned(Closed(webSocket))[t].mine = FALSE
    BY ClosedType, OrphanedType
  <1> QED BY <1>1 DEF Begin, BeginFails, Disconnect, NewSocket, Mine

LEMMA FlowNext == WsTypeOK /\ FlowInv /\ [Next]_vars => FlowInv'
  <1> SUFFICES ASSUME WsTypeOK, FlowInv, [Next]_vars PROVE FlowInv'
    OBVIOUS
  <1>1. ASSUME NEW s \in Sockets, Begin(s) PROVE FlowInv'
    <2>1. /\ socks'[s] = [phase |-> "connecting", asked |-> "no", mine |-> TRUE]
          /\ \A t \in Sockets \ {s} : ~Mine(t)'
      BY <1>1, ReplacedSockets
    <2>2. stage' = "open" /\ retrying' = FALSE
      BY <1>1 DEF Begin
    <2> QED BY <2>1, <2>2 DEF FlowInv, Runs, Half
  <1>2. CASE BeginFails \/ Disconnect
    <2>1. retrying' = FALSE
      BY <1>2 DEF BeginFails, Disconnect
    <2> QED BY <1>2, <2>1, ReplacedSockets DEF FlowInv, Runs, Half
  <1>3. CASE TakesOne \/ UNCHANGED wsVars
    BY <1>3, FlowKept DEF TakesOne, wsVars, flowVars, Runs, Half, Mine
  <1> QED BY <1>1, <1>2, <1>3, FlowClient, StepOfClient DEF Replaces

-----------------------------------------------------------------------------
(* Where the connection of the flow is to be found.                        *)

LEMMA FieldNext == WsTypeOK /\ FlowInv /\ FieldInv /\ [Next]_vars => FieldInv'
  <1> SUFFICES ASSUME WsTypeOK, FlowInv, FieldInv, [Next]_vars,
                      NEW t \in Sockets, Connection(t)'
               PROVE  webSocket' = t \/ t \in lost' \/ tornDown'
    BY DEF FieldInv
  <1>1. /\ Connection(t) => webSocket = t \/ t \in lost \/ tornDown
        /\ Connection(t) => Live(t) /\ stage = "open"
    BY DEF FieldInv, FlowInv, Connection, Runs, Live
  <1>2. ASSUME NEW s \in Sockets, OnOpen(s)
        PROVE  webSocket' = t \/ t \in lost' \/ tornDown'
    <2>1. /\ webSocket' = s /\ lost' = PutOut(s) \ {s} /\ tornDown' = tornDown
          /\ s # t => Connection(t)
      BY <1>2 DEF OnOpen, Connection, Mine, WsTypeOK
    <2> QED BY <1>1, <2>1 DEF PutOut, WsTypeOK
  <1>3. ASSUME NEW s \in Sockets, OnFailure(s)
        PROVE  webSocket' = t \/ t \in lost' \/ tornDown'
    <2>1. /\ lost' = PutOut(s) \ {s} /\ tornDown' = tornDown
          /\ s # t /\ Connection(t)
      BY <1>3 DEF OnFailure, Dies, Gone, Connection, Mine, WsTypeOK
    <2> QED BY <1>1, <2>1 DEF PutOut, WsTypeOK
  <1>4. ASSUME NEW s \in Sockets, OnMessage(s) \/ OnClosing(s)
        PROVE  webSocket' = t \/ t \in lost' \/ tornDown'
    <2>1. /\ UNCHANGED <<webSocket, tornDown>> /\ lost \ {s} \subseteq lost'
          /\ Connection(t)
          /\ s = t => lost' = lost
      BY <1>4 DEF OnMessage, OnClosing, Gone, Connection, Mine, WsTypeOK, flowVars
    <2> QED BY <1>1, <2>1
  <1>5. CASE Close \/ Bite
    BY <1>1, <1>5 DEF Close, Bite, Connection, Mine, WsTypeOK
  <1>6. CASE Cleanup \/ LateCleanup
    <2>1. Connection(t)
      BY <1>6, ClosedType, ClosedPhase DEF Cleanup, LateCleanup, Connection, Mine
    <2> QED BY <1>1, <1>6, <2>1 DEF Cleanup, LateCleanup
  <1>7. ASSUME NEW s \in Sockets, Establish(s)
        PROVE  webSocket' = t \/ t \in lost' \/ tornDown'
    <2>1. /\ lost' = PutOut(s) \ {s} /\ tornDown' = tornDown
          /\ s # t /\ Connection(t)
      BY <1>7 DEF Establish, NewSocket, Connection, Mine, WsTypeOK
    <2> QED BY <1>1, <2>1 DEF PutOut, WsTypeOK
  <1>8. CASE Replaces
    BY <1>8, ReplacedSockets DEF Replaces, Connection, Mine
  <1>9. CASE TakesOne \/ UNCHANGED wsVars
    BY <1>1, <1>9 DEF TakesOne, wsVars, Connection, Mine
  <1> QED BY <1>2, <1>3, <1>4, <1>5, <1>6, <1>7, <1>8, <1>9, StepOfClient
          DEF Client, Listener

-----------------------------------------------------------------------------
(* What is said of it.                                                     *)

\* The last event after one more is sent, and after the first one is taken.
LEMMA SentLast ==
    ASSUME events \in Seq(Events), NEW e, events' = Append(events, e), e \in Events
    PROVE  events' # <<>> /\ LastEvent' = e
  BY DEF LastEvent

LEMMA TakenLast ==
    ASSUME events \in Seq(Events), events # <<>>, events' = Tail(events)
    PROVE  /\ events' = <<>> => LastEvent = Head(events)
           /\ events' # <<>> => LastEvent' = LastEvent
  <1>1. Len(events) \in Nat /\ Len(events) > 0 /\ Len(Tail(events)) = Len(events) - 1
    OBVIOUS
  <1>2. CASE Len(events) = 1
    <2>1. Head(events) = events[1] /\ Tail(events) = <<>>
      BY <1>1, <1>2
    <2> QED BY <1>2, <2>1 DEF LastEvent
  <1>3. CASE Len(events) > 1
    <2>1. Tail(events) # <<>>
      BY <1>1, <1>3
    <2>2. Len(events) - 1 \in 1 .. Len(Tail(events))
      BY <1>1, <1>3
    <2>3. Tail(events)[Len(events) - 1] = events[Len(events) - 1 + 1]
      BY <1>1, <2>2
    <2> QED BY <1>1, <2>1, <2>3 DEF LastEvent
  <1> QED BY <1>1, <1>2, <1>3

\* A step that takes away no connection, says nothing, and leaves the screen.
LEMMA ToldKept ==
    ASSUME ToldInv, UNCHANGED <<events, appVars>>,
           \A s \in Sockets : Connection(s) => Connection(s)'
    PROVE  ToldInv'
  BY DEF ToldInv, Settled, LastEvent, appVars

LEMMA ToldClient ==
    ASSUME WsTypeOK, FlowInv, ToldInv, Client, UNCHANGED appVars
    PROVE  ToldInv'
  <1>1. ASSUME NEW s \in Sockets, OnOpen(s) PROVE ToldInv'
    <2>1. /\ socks[s].phase = "connecting" /\ Sends(s, "Connected")
          /\ socks' = [socks EXCEPT ![s].phase = "open"]
      BY <1>1 DEF OnOpen
    <2>2. CASE Mine(s)
      <3>1. Connection(s)'
        BY <2>1, <2>2 DEF Connection, Mine, WsTypeOK
      <3> QED BY <3>1 DEF ToldInv
    <2>3. CASE ~Mine(s)
      <3>1. events' = events
        BY <2>1, <2>3 DEF Sends
      <3>2. \A t \in Sockets : Connection(t) => Connection(t)'
        BY <2>1 DEF Connection, Mine, WsTypeOK
      <3> QED BY <3>1, <3>2, ToldKept
    <2> QED BY <2>2, <2>3
  <1>2. ASSUME NEW s \in Sockets, OnMessage(s) PROVE ToldInv'
    BY <1>2, ToldKept DEF OnMessage, flowVars, Connection, Mine
  <1>3. ASSUME NEW s \in Sockets, NEW e \in Events, e # "Connected", Sends(s, e),
               \A t \in Sockets \ {s} : Connection(t) => Connection(t)'
        PROVE  ToldInv'
    <2>1. CASE events' = Append(events, e)
      <3>1. events' # <<>> /\ LastEvent' = e
        BY <2>1, SentLast DEF WsTypeOK
      <3> QED BY <1>3, <3>1 DEF ToldInv
    <2>2. CASE events' # Append(events, e)
      <3>1. events' = events /\ ~(Mine(s) /\ stage \in {"open", "closing"})
        BY <1>3, <2>2 DEF Sends
      <3>2. ~Connection(s)
        BY <3>1 DEF FlowInv, Connection, Runs
      <3> QED BY <1>3, <3>1, <3>2, ToldKept
    <2> QED BY <2>1, <2>2
  <1>4. ASSUME NEW s \in Sockets, OnFailure(s) PROVE ToldInv'
    <2>1. \A t \in Sockets \ {s} : Connection(t) => Connection(t)'
      BY <1>4 DEF OnFailure, Dies, Connection, Mine, WsTypeOK
    <2>2. Sends(s, "Reconnecting") \/ Sends(s, "Error")
      BY <1>4 DEF OnFailure, Retries, GivesUp
    <2> QED BY <1>3, <2>1, <2>2 DEF Events
  <1>5. ASSUME NEW s \in Sockets, OnClosing(s) PROVE ToldInv'
    <2>1. \A t \in Sockets \ {s} : Connection(t) => Connection(t)'
      BY <1>5 DEF OnClosing, Connection, Mine, WsTypeOK
    <2>2. Sends(s, "Disconnected")
      BY <1>5 DEF OnClosing
    <2> QED BY <1>3, <2>1, <2>2 DEF Events
  <1>6. CASE Close
    BY <1>6, ToldKept DEF Close, Connection, Mine
  <1>7. CASE Bite
    <2>1. \A t \in Sockets : socks'[t].phase = socks[t].phase /\ socks'[t].mine = socks[t].mine
      BY <1>7 DEF Bite, WsTypeOK
    <2> QED BY <1>7, <2>1, ToldKept DEF Bite, flowVars, Connection, Mine
  <1>8. CASE Cleanup \/ LateCleanup
    <2>1. \A t \in Sockets : Connection(t) => Connection(t)'
      BY <1>8, ClosedOpen DEF Cleanup, LateCleanup, Connection, Mine
    <2> QED BY <1>8, <2>1, ToldKept DEF Cleanup, LateCleanup
  <1>9. ASSUME NEW s \in Sockets, Establish(s) PROVE ToldInv'
    <2>1. \A t \in Sockets : Connection(t) => Connection(t)'
      BY <1>9 DEF Establish, Fresh, NewSocket, Connection, Mine, WsTypeOK
    <2> QED BY <1>9, <2>1, ToldKept DEF Establish
  <1> QED BY <1>1, <1>2, <1>4, <1>5, <1>6, <1>7, <1>8, <1>9 DEF Client, Listener

\* A write of a coroutine is remembered, unless the flow has a connection.
LEMMA ToldWrites ==
    ASSUME ToldInv, NEW state, Writes(state)
    PROVE  ToldInv'
  <1>1. CASE \E s \in Sockets : Connection(s)
    <2>1. \E s \in Sockets : Connection(s)'
      BY <1>1 DEF Writes, wsVars, Connection, Mine
    <2> QED BY <2>1 DEF ToldInv
  <1>2. CASE ~\E s \in Sockets : Connection(s)
    <2>1. ~Serving
      BY <1>2 DEF Serving, Connection
    <2> QED BY <1>2, <2>1 DEF Writes, wsVars, flowVars, ToldInv, Settled, LastEvent
  <1> QED BY <1>1, <1>2

\* The screen changes without the client, and does not come to offer the commands.
LEMMA ToldStays ==
    ASSUME ToldInv, UNCHANGED <<wsVars, overridden, isReconnecting>>,
           saving' => saving,
           uiState' = "Connected" => uiState = "Connected" /\ (forgetting => forgetting')
    PROVE  ToldInv'
  BY DEF ToldInv, Settled, LastEvent, Connection, Mine, wsVars, flowVars

LEMMA ToldNext ==
    ASSUME TypeOK, FlowInv, ToldInv, [Next]_vars
    PROVE  ToldInv'
  <1>0. WsTypeOK
    BY DEF TypeOK, WsTypeOK
  <1>1. CASE Client /\ UNCHANGED appVars
    BY <1>0, <1>1, ToldClient
  <1>2. ASSUME Connect PROVE ToldInv'
    <2>1. uiState' = "Connecting" /\ saving' = FALSE
      BY <1>2 DEF Connect
    <2>2. events' = <<>> \/ events' = <<"Error">>
      BY <1>2 DEF Connect, Begin, BeginFails
    <2>3. events' = <<"Error">> => LastEvent' # "Connected"
      BY DEF LastEvent
    <2> QED BY <2>1, <2>2, <2>3 DEF ToldInv, Settled
  <1>3. CASE Start
    BY <1>2, <1>3, ToldStays DEF Start
  <1>4. CASE Forgotten
    BY <1>4, ToldStays DEF Forgotten
  <1>5. CASE Collector
    <2>1. ASSUME NEW e \in Events, Takes(e),
                 events' = <<>> /\ e # "Connected" => Settled'
          PROVE  ToldInv'
      <3>1. /\ events \in Seq(Events) /\ events # <<>> /\ Head(events) = e
            /\ events' = Tail(events) /\ socks' = socks
        BY <1>0, <2>1 DEF Takes, WsTypeOK
      <3>2. /\ events' = <<>> => LastEvent = e
            /\ events' # <<>> => LastEvent' = LastEvent
        BY <3>1, TakenLast
      <3> QED BY <2>1, <3>1, <3>2 DEF ToldInv, Connection, Mine
    <2>2. CASE TakeConnected
      BY <2>1, <2>2 DEF TakeConnected, Events
    <2>3. CASE TakeReconnecting
      <3>1. Takes("Reconnecting") /\ isReconnecting' /\ ~saving'
        BY <2>3 DEF TakeReconnecting, Takes
      <3> QED BY <2>1, <3>1 DEF Settled, Events
    <2>4. CASE TakeEnd
      <3>1. uiState' = "ConnectionFailed" /\ ~saving'
        BY <2>4 DEF TakeEnd, Takes
      <3>2. Takes("Error") \/ Takes("Disconnected")
        BY <2>4 DEF TakeEnd
      <3> QED BY <2>1, <3>1, <3>2 DEF Settled, Events
    <2>5. CASE Saved
      BY <2>5 DEF Saved, ToldInv, Settled, LastEvent, Connection, Mine, wsVars, flowVars
    <2> QED BY <1>5, <2>2, <2>3, <2>4, <2>5 DEF Collector
  <1>6. CASE User
    <2>1. CASE RetryConnection \/ ScanQr
      BY <1>2, <2>1, ToldStays DEF RetryConnection, ScanQr
    <2>2. CASE ManuallyDisconnect
      BY <2>2 DEF ManuallyDisconnect, Disconnect, ToldInv, Settled
    <2>3. CASE ForgetDevice
      BY <2>3 DEF ForgetDevice, Disconnect, ToldInv, Settled
    <2>4. CASE StartFirmwareUpdate \/ CancelFirmwareUpdate
      BY <2>4, ToldWrites DEF StartFirmwareUpdate, CancelFirmwareUpdate
    <2>5. CASE AskPassword
      BY <2>5, ToldStays DEF AskPassword
    <2> QED BY <1>6, <2>1, <2>2, <2>3, <2>4, <2>5 DEF User
  <1>7. CASE Coroutines
    <2>1. CASE UpdateProgress \/ UpdateFails
      BY <2>1, ToldWrites DEF UpdateProgress, UpdateFails
    <2>2. CASE UpdateSent
      BY <2>2, ToldStays DEF UpdateSent
    <2>3. CASE PasswordDone
      BY <2>3, ToldWrites, ToldStays DEF PasswordDone
    <2> QED BY <1>7, <2>1, <2>2, <2>3 DEF Coroutines
  <1>8. CASE UNCHANGED vars
    BY <1>8, ToldKept DEF vars, wsVars, flowVars, Connection, Mine
  <1> QED BY <1>1, <1>3, <1>4, <1>5, <1>6, <1>7, <1>8 DEF Next

ReachInv == FlowInv /\ FieldInv /\ ToldInv

\* However sockets open, fail and come late, and whatever the coroutines write: a screen
\* that offers the commands, with every event handled, has an open connection for them.
THEOREM CommandsArrive == Spec => []CommandsReach
  <1>1. Init => ReachInv
    <2> SUFFICES ASSUME Init PROVE ReachInv
      OBVIOUS
    <2>1. \A t \in Sockets : ~Mine(t)
      BY DEF Init, WsInit, Gone, Mine
    <2>2. ~retrying /\ events = <<>> /\ Settled
      BY DEF Init, WsInit, Settled
    <2> QED BY <2>1, <2>2 DEF ReachInv, FlowInv, FieldInv, ToldInv, Runs, Half, Connection
  <1>2. TypeOK /\ ReachInv /\ [Next]_vars => ReachInv'
    <2>1. TypeOK => WsTypeOK
      BY DEF TypeOK, WsTypeOK
    <2> QED BY <2>1, FlowNext, FieldNext, ToldNext DEF ReachInv
  <1>3. ReachInv => CommandsReach
    BY DEF ReachInv, FieldInv, ToldInv, Settled, Connection, CommandsReach
  <1> QED BY <1>1, <1>2, <1>3, TypeInvariant, PTL DEF Spec

-----------------------------------------------------------------------------
(* What the user waits for.                                                *)

\* A flow that says it reconnects does, one that is connected says nothing else, and the
\* screen's flag follows what it says.
WaitInv ==
    /\ saving => ~isReconnecting
    /\ events # <<>> /\ LastEvent = "Reconnecting" => Tries
    /\ \A s \in Sockets : Connection(s) =>
         IF events = <<>> THEN ~isReconnecting ELSE LastEvent = "Connected"
    /\ WaitsForSomething

\* A step that says nothing, ends no attempt and makes no connection.
LEMMA WaitKept ==
    ASSUME WaitInv, UNCHANGED <<events, appVars>>, Tries => Tries',
           \A s \in Sockets : Connection(s)' => Connection(s)
    PROVE  WaitInv'
  BY DEF WaitInv, WaitsForSomething, Waiting, LastEvent, appVars

\* The listener reports the end of the one connection or attempt.
LEMMA WaitSent ==
    ASSUME WsTypeOK, WaitInv, NEW e \in Events, events' = Append(events, e),
           UNCHANGED appVars, e = "Reconnecting" => Tries',
           \A s \in Sockets : Connection(s)' => e = "Connected"
    PROVE  WaitInv'
  <1>1. events' # <<>> /\ LastEvent' = e
    BY SentLast DEF WsTypeOK
  <1> QED BY <1>1 DEF WaitInv, WaitsForSomething, appVars

LEMMA WaitClient ==
    ASSUME WsTypeOK, FlowInv, WaitInv, Client, UNCHANGED appVars
    PROVE  WaitInv'
  <1>1. ASSUME NEW s \in Sockets, OnOpen(s) PROVE WaitInv'
    <2>1. /\ socks[s].phase = "connecting" /\ Sends(s, "Connected")
          /\ socks' = [socks EXCEPT ![s].phase = "open"] /\ UNCHANGED retrying
      BY <1>1 DEF OnOpen
    <2>2. CASE Mine(s)
      <3>1. stage = "open"
        BY <2>1, <2>2 DEF FlowInv, Runs
      <3>2. events' = Append(events, "Connected")
        BY <2>1, <2>2, <3>1 DEF Sends
      <3> QED BY <3>2, WaitSent DEF Events
    <2>3. CASE ~Mine(s)
      <3>1. events' = events
        BY <2>1, <2>3 DEF Sends
      <3>2. \A t \in Sockets : (Connection(t)' => Connection(t)) /\ (Dials(t) => Dials(t)')
        BY <2>1, <2>3 DEF Connection, Dials, Mine, WsTypeOK
      <3> QED BY <2>1, <3>1, <3>2, WaitKept DEF Tries
    <2> QED BY <2>2, <2>3
  <1>2. ASSUME NEW s \in Sockets, OnMessage(s) PROVE WaitInv'
    BY <1>2, WaitKept DEF OnMessage, flowVars, Connection, Tries, Dials, Mine
  <1>3. ASSUME NEW s \in Sockets, OnFailure(s) PROVE WaitInv'
    <2>1. /\ Live(s) /\ socks' = [socks EXCEPT ![s] = Gone]
          /\ socks[s].phase = "half" => stage \notin {"closing", "queued"}
          /\ Retries(s) \/ GivesUp(s)
      BY <1>3 DEF OnFailure, Dies
    <2>2. /\ ~Connection(s)'
          /\ \A t \in Sockets : Connection(t)' => Connection(t)
          /\ \A t \in Sockets \ {s} : Dials(t) => Dials(t)'
      BY <2>1 DEF Gone, Connection, Dials, Mine, WsTypeOK
    <2>3. CASE Runs(s)
      <3>1. stage = "open" /\ Mine(s) /\ \A t \in Sockets : ~Connection(t)'
        BY <2>2, <2>3 DEF FlowInv, Runs, Connection
      <3>2. CASE Retries(s)
        <4>1. retrying' /\ events' = Append(events, "Reconnecting")
          BY <3>1, <3>2 DEF Retries, Sends
        <4> QED BY <3>1, <4>1, WaitSent DEF Events, Tries
      <3>3. CASE GivesUp(s)
        <4>1. events' = Append(events, "Error")
          BY <3>1, <3>3 DEF GivesUp, Sends
        <4> QED BY <3>1, <4>1, WaitSent DEF Events
      <3> QED BY <2>1, <3>2, <3>3
    <2>4. CASE ~Runs(s)
      <3>1. ~(Mine(s) /\ stage \in {"open", "closing"})
        BY <2>1, <2>4 DEF Runs, Live, Half, FlowInv
      <3>2. UNCHANGED events /\ (retrying => retrying')
        <4>1. Retries(s) /\ retrying => retrying'
          BY DEF Retries
        <4>2. GivesUp(s) /\ retrying => retrying'
          BY DEF GivesUp
        <4>3. events' = events
          BY <2>1, <3>1 DEF Retries, GivesUp, Sends
        <4> QED BY <2>1, <4>1, <4>2, <4>3
      <3>3. ~Dials(s)
        BY <2>4 DEF Runs, Dials
      <3>4. Tries => Tries'
        BY <2>2, <3>2, <3>3 DEF Tries
      <3> QED BY <2>2, <3>2, <3>4, WaitKept
    <2> QED BY <2>3, <2>4
  <1>4. ASSUME NEW s \in Sockets, OnClosing(s) PROVE WaitInv'
    <2>1. /\ socks[s].phase = "open" /\ Sends(s, "Disconnected") /\ UNCHANGED retrying
          /\ socks' = [socks EXCEPT ![s] = IF @.asked = "close" THEN Gone
                                            ELSE [@ EXCEPT !.phase = "half"]]
      BY <1>4 DEF OnClosing
    <2>2. /\ ~Connection(s)'
          /\ \A t \in Sockets : Connection(t)' => Connection(t)
          /\ \A t \in Sockets : Dials(t) => Dials(t)'
      BY <2>1 DEF Gone, Connection, Dials, Mine, WsTypeOK
    <2>3. CASE Mine(s)
      <3>1. stage = "open" /\ \A t \in Sockets : ~Connection(t)'
        BY <2>1, <2>2, <2>3 DEF FlowInv, Runs, Connection
      <3>2. events' = Append(events, "Disconnected")
        BY <2>1, <2>3, <3>1 DEF Sends
      <3> QED BY <3>1, <3>2, WaitSent DEF Events
    <2>4. CASE ~Mine(s)
      <3>1. UNCHANGED events
        BY <2>1, <2>4 DEF Sends
      <3> QED BY <2>1, <2>2, <3>1, WaitKept DEF Tries
    <2> QED BY <2>3, <2>4
  <1>5. CASE Close
    BY <1>5, WaitKept DEF Close, Connection, Tries, Dials, Mine
  <1>6. CASE Bite
    <2>1. \A t \in Sockets : socks'[t].phase = socks[t].phase /\ socks'[t].mine = socks[t].mine
      BY <1>6 DEF Bite, WsTypeOK
    <2> QED BY <1>6, <2>1, WaitKept DEF Bite, flowVars, Connection, Tries, Dials, Mine
  <1>7. CASE Cleanup \/ LateCleanup
    <2>1. /\ socks' = Closed(webSocket)
          /\ UNCHANGED <<events, retrying>>
      BY <1>7 DEF Cleanup, LateCleanup
    <2>2. \A t \in Sockets : Connection(t)' => Connection(t)
      BY <2>1, ClosedType, ClosedPhase DEF Connection, Mine
    <2>3. \A t \in Sockets : Dials(t) => Dials(t)'
      BY <2>1, ClosedOpen DEF Dials, Mine
    <2> QED BY <2>1, <2>2, <2>3, WaitKept DEF Tries
  <1>8. ASSUME NEW s \in Sockets, Establish(s) PROVE WaitInv'
    <2>1. /\ UNCHANGED events
          /\ socks' = [socks EXCEPT ![s] =
                         [phase |-> "connecting", asked |-> "no", mine |-> TRUE]]
      BY <1>8 DEF Establish, NewSocket
    <2>2. Dials(s)' /\ \A t \in Sockets : Connection(t)' => Connection(t)
      BY <2>1 DEF Dials, Connection, Mine, WsTypeOK
    <2> QED BY <2>1, <2>2, WaitKept DEF Tries
  <1> QED BY <1>1, <1>2, <1>3, <1>4, <1>5, <1>6, <1>7, <1>8 DEF Client, Listener

\* The screen changes without the client, and nobody begins to wait.
LEMMA WaitStays ==
    ASSUME WaitInv, UNCHANGED <<wsVars, isReconnecting, saving>>,
           Waiting' => Waiting /\ forgetting = forgetting'
    PROVE  WaitInv'
  BY DEF WaitInv, WaitsForSomething, LastEvent, Connection, Tries, Dials, Mine, wsVars, flowVars

\* A coroutine that writes "Connected" over a flow that has no connection makes nobody wait.
LEMMA WaitWrites ==
    ASSUME WaitInv, NEW state, Writes(state), state # "Connecting"
    PROVE  WaitInv'
  <1>1. CASE events # <<>>
    BY <1>1 DEF Writes, WaitInv, WaitsForSomething, LastEvent, Connection, Tries, Dials, Mine,
                wsVars, flowVars
  <1>2. CASE events = <<>>
    <2>1. Waiting' => isReconnecting /\ ~overridden'
      BY DEF Writes, Waiting
    <2>2. Serving => ~isReconnecting
      BY <1>2 DEF WaitInv, Serving, Connection
    <2>3. ~Waiting'
      BY <2>1, <2>2 DEF Writes
    <2> QED BY <2>3, WaitStays DEF Writes
  <1> QED BY <1>1, <1>2

LEMMA WaitNext ==
    ASSUME TypeOK, FlowInv, WaitInv, [Next]_vars
    PROVE  WaitInv'
  <1>0. WsTypeOK
    BY DEF TypeOK, WsTypeOK
  <1>1. CASE Client /\ UNCHANGED appVars
    BY <1>0, <1>1, WaitClient
  <1>2. ASSUME Connect PROVE WaitInv'
    <2>1. saving' = FALSE
      BY <1>2 DEF Connect
    <2>2. ASSUME NEW s \in Sockets, Begin(s) PROVE WaitInv'
      <3>1. events' = <<>>
        BY <2>2 DEF Begin
      <3>2. Dials(s)' /\ \A t \in Sockets : ~Connection(t)'
        BY <1>0, <2>2, ReplacedSockets DEF Dials, Connection, Mine
      <3> QED BY <2>1, <3>1, <3>2 DEF WaitInv, WaitsForSomething, Tries
    <2>3. CASE BeginFails
      <3>1. events' = <<"Error">>
        BY <2>3 DEF BeginFails
      <3>2. events' # <<>> /\ LastEvent' = "Error"
        BY <3>1 DEF LastEvent
      <3>3. \A t \in Sockets : ~Connection(t)'
        BY <1>0, <2>3, ReplacedSockets DEF Connection
      <3> QED BY <2>1, <3>2, <3>3 DEF WaitInv, WaitsForSomething
    <2> QED BY <1>2, <2>2, <2>3 DEF Connect
  <1>3. CASE Start
    BY <1>2, <1>3, WaitStays DEF Start, Waiting
  <1>4. CASE Forgotten
    BY <1>4, WaitStays DEF Forgotten, Waiting
  <1>5. CASE Collector
    <2>1. ASSUME NEW e \in Events, Takes(e),
                 saving' => ~isReconnecting',
                 events' = <<>> => /\ Waiting' => saving' \/ Tries
                                   /\ e = "Connected" => ~isReconnecting'
          PROVE  WaitInv'
      <3>1. /\ events \in Seq(Events) /\ events # <<>> /\ Head(events) = e
            /\ events' = Tail(events) /\ UNCHANGED <<socks, retrying>>
        BY <1>0, <2>1 DEF Takes, WsTypeOK
      <3>2. /\ events' = <<>> => LastEvent = e
            /\ events' # <<>> => LastEvent' = LastEvent
        BY <3>1, TakenLast
      <3>3. Tries' <=> Tries
        BY <3>1 DEF Tries, Dials, Mine
      <3>4. \A s \in Sockets : Connection(s)' <=> Connection(s)
        BY <3>1 DEF Connection, Mine
      <3> QED BY <2>1, <3>1, <3>2, <3>3, <3>4 DEF WaitInv, WaitsForSomething
    <2>2. CASE TakeConnected
      BY <2>1, <2>2 DEF TakeConnected, Events
    <2>3. CASE TakeReconnecting
      <3>1. Takes("Reconnecting") /\ ~saving'
        BY <2>3 DEF TakeReconnecting, Takes
      <3>2. events' = <<>> => Tries
        <4>1. events \in Seq(Events) /\ events # <<>> /\ events' = Tail(events)
              /\ Head(events) = "Reconnecting"
          BY <1>0, <3>1 DEF Takes, WsTypeOK
        <4>2. events' = <<>> => LastEvent = "Reconnecting"
          BY <4>1, TakenLast
        <4> QED BY <4>1, <4>2 DEF WaitInv
      <3> QED BY <2>1, <3>1, <3>2 DEF Events
    <2>4. CASE TakeEnd
      <3>1. ~Waiting' /\ ~saving'
        BY <2>4 DEF TakeEnd, Takes, Waiting
      <3>2. Takes("Error") \/ Takes("Disconnected")
        BY <2>4 DEF TakeEnd
      <3> QED BY <2>1, <3>1, <3>2 DEF Events
    <2>5. CASE Saved
      <3>1. saving /\ ~saving' /\ uiState' = "Connected"
            /\ UNCHANGED <<wsVars, isReconnecting, forgetting>>
        BY <2>5 DEF Saved
      <3>2. ~Waiting'
        BY <3>1 DEF WaitInv, Waiting
      <3> QED BY <3>1, <3>2 DEF WaitInv, WaitsForSomething, LastEvent, Connection, Tries, Dials,
                                Mine, wsVars, flowVars
    <2> QED BY <1>5, <2>2, <2>3, <2>4, <2>5 DEF Collector
  <1>6. CASE User
    <2>1. CASE RetryConnection \/ ScanQr
      BY <1>2, <2>1, WaitStays DEF RetryConnection, ScanQr, Waiting
    <2>2. CASE ManuallyDisconnect \/ ForgetDevice
      <3>1. Disconnect /\ ~saving'
        BY <2>2 DEF ManuallyDisconnect, ForgetDevice
      <3>2. events' = <<>> /\ \A t \in Sockets : ~Connection(t)'
        BY <1>0, <3>1, ReplacedSockets DEF Disconnect, Connection
      <3>3. Waiting' => forgetting'
        BY <2>2 DEF ManuallyDisconnect, ForgetDevice, Waiting
      <3> QED BY <3>1, <3>2, <3>3 DEF WaitInv, WaitsForSomething
    <2>3. CASE StartFirmwareUpdate \/ CancelFirmwareUpdate
      BY <2>3, WaitWrites DEF StartFirmwareUpdate, CancelFirmwareUpdate
    <2>4. CASE AskPassword
      BY <2>4, WaitStays DEF AskPassword, Waiting
    <2> QED BY <1>6, <2>1, <2>2, <2>3, <2>4 DEF User
  <1>7. CASE Coroutines
    <2>1. CASE UpdateProgress \/ UpdateFails
      BY <2>1, WaitWrites DEF UpdateProgress, UpdateFails
    <2>2. CASE UpdateSent
      BY <2>2, WaitStays DEF UpdateSent, Waiting
    <2>3. CASE PasswordDone
      BY <2>3, WaitWrites, WaitStays DEF PasswordDone, Waiting
    <2> QED BY <1>7, <2>1, <2>2, <2>3 DEF Coroutines
  <1>8. CASE UNCHANGED vars
    BY <1>8, WaitKept DEF vars, wsVars, flowVars, Connection, Tries, Dials, Mine
  <1> QED BY <1>1, <1>3, <1>4, <1>5, <1>6, <1>7, <1>8 DEF Next

\* Nobody waits for nothing: while the screen says "connecting", or refuses commands because
\* the client reconnects, something is under way that will change it.
THEOREM WaitHasReason == Spec => []WaitsForSomething
  <1>1. Init => FlowInv /\ WaitInv
    <2> SUFFICES ASSUME Init PROVE FlowInv /\ WaitInv
      OBVIOUS
    <2>1. \A t \in Sockets : ~Mine(t)
      BY DEF Init, WsInit, Gone, Mine
    <2>2. ~retrying /\ ~saving /\ events = <<>> /\ ~Waiting
      BY DEF Init, WsInit, Waiting
    <2> QED BY <2>1, <2>2 DEF FlowInv, WaitInv, WaitsForSomething, Runs, Half, Connection
  <1>2. TypeOK /\ FlowInv /\ WaitInv /\ [Next]_vars => FlowInv' /\ WaitInv'
    <2>1. TypeOK => WsTypeOK
      BY DEF TypeOK, WsTypeOK
    <2> QED BY <2>1, FlowNext, WaitNext
  <1>3. WaitInv => WaitsForSomething
    BY DEF WaitInv
  <1> QED BY <1>1, <1>2, <1>3, TypeInvariant, PTL DEF Spec
================================================================================
