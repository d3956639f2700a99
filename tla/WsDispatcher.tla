------------------------------ MODULE WsDispatcher ------------------------------
(* The WebSocket event path of the firmware: ws_queue (a FreeRTOS queue of heap  *)
(* payloads), the ws_dispatcher task that empties it, the app_api_ws handler in  *)
(* the httpd task that registers and removes the one client, and the server that *)
(* the event loop starts and stops under them.                                   *)
(*                                                                               *)
(* s_active_socket and s_server_handle are plain variables that two tasks read   *)
(* and write without a lock, so every access of one of them is a step of its own.*)
EXTENDS Naturals, Sequences, FiniteSets

CONSTANTS EnvTask,    \* env_task, which queues a reading every few seconds
          HttpdTask,  \* the httpd task, which queues the replies to commands
          Blocks,     \* heap blocks strdup can return
          Sockets,    \* file descriptors of the server's sessions
          Handles,    \* addresses httpd_ssl_start can return
          QueueSize,  \* WS_QUEUE_SIZE
          NoBlock, NoSocket, NULL,
          Unread      \* an argument of send_ws_json not evaluated yet

ASSUME WsAssumption == /\ EnvTask # HttpdTask
                       /\ QueueSize \in Nat \ {0}
                       /\ NoBlock \notin Blocks
                       /\ NoSocket \notin Sockets
                       /\ NULL \notin Handles
                       /\ Unread \notin Sockets \cup {NoSocket} \cup Handles \cup {NULL}

Producers == {EnvTask, HttpdTask}

VARIABLES
  queue,         \* s_ws_queue
  heap,          \* allocated payloads
  held,          \* held[p]: the payload p has allocated and not queued yet
  activeSocket,  \* s_active_socket, NoSocket for -1
  serverHandle,  \* s_server_handle
  dpc, dMsg,     \* the dispatcher task: where it is, and its local msg
  dSock, dHandle,\* the arguments of its call of send_ws_json
  dSent,         \* history: the message was accepted by the socket
  hpc, hSock,    \* the httpd task: where it is, and the socket of its request
  server,        \* the static `server` of https_server.c
  sess,          \* httpd's sessions: "none", "http" or "ws"
  closing,       \* sockets with a queued httpd_sess_trigger_close
  orphans,       \* history: sessions the dispatcher unregistered that live on
  stale          \* history: frames sent to another socket than the registered
                 \* one since the httpd task last changed the registration

dispVars == <<dpc, dMsg, dSock, dHandle, dSent>>
httpdVars == <<hpc, hSock, sess, closing>>
vars == <<queue, heap, held, activeSocket, serverHandle, dispVars, httpdVars,
          server, orphans, stale>>

TypeOK == /\ queue \in Seq(Blocks)
          /\ heap \subseteq Blocks
          /\ held \in [Producers -> Blocks \cup {NoBlock}]
          /\ activeSocket \in Sockets \cup {NoSocket}
          /\ serverHandle \in Handles \cup {NULL}
          /\ dpc \in {"receive", "check", "args", "send", "forget", "free"}
          /\ dMsg \in Blocks \cup {NoBlock}
          /\ dSock \in Sockets \cup {NoSocket, Unread}
          /\ dHandle \in Handles \cup {NULL, Unread}
          /\ dSent \in BOOLEAN
          /\ hpc \in {"idle", "addCheck", "addKick", "addSocket", "addHandle",
                      "command", "close"}
          /\ hSock \in Sockets \cup {NoSocket}
          /\ server \in Handles \cup {NULL}
          /\ sess \in [Sockets -> {"none", "http", "ws"}]
          /\ closing \subseteq Sockets
          /\ orphans \subseteq Sockets
          /\ stale \in Nat

Init == /\ queue = <<>>
        /\ heap = {}
        /\ held = [p \in Producers |-> NoBlock]
        /\ activeSocket = NoSocket
        /\ serverHandle = NULL
        /\ dpc = "receive" /\ dMsg = NoBlock
        /\ dSock = Unread /\ dHandle = Unread /\ dSent = FALSE
        /\ hpc = "idle" /\ hSock = NoSocket
        /\ server = NULL
        /\ sess = [s \in Sockets |-> "none"]
        /\ closing = {}
        /\ orphans = {}
        /\ stale = 0

--------------------------------------------------------------------------------
(* ws_queue_send, by env_task at any time and by the httpd task in a command.    *)

\* The httpd task's command handler returns after its one call of ws_queue_send.
Return(p) == IF p = HttpdTask THEN hpc' = "idle" /\ hSock' = NoSocket
                              ELSE UNCHANGED <<hpc, hSock>>

\* msg.payload = strdup(json_data)
Strdup(p) == /\ p = HttpdTask => hpc = "command"
             /\ held[p] = NoBlock
             /\ \E b \in Blocks \ heap :
                  /\ heap' = heap \cup {b}
                  /\ held' = [held EXCEPT ![p] = b]
             /\ UNCHANGED <<queue, activeSocket, serverHandle, dispVars,
                            httpdVars, server, orphans, stale>>

\* The check of strdup's result.
HasPayload(p) == held[p] # NoBlock

\* xQueueSend puts a message at the back.  Mutant: xQueueSendToFront.
AtFront(q, b) == <<b>> \o q
AtBack(q, b) == Append(q, b)

\* free(msg.payload) of a message that was not queued.  Mutant: it is left out.
NotReleased(p) == heap
Released(p) == heap \ {held[p]}

\* xQueueSend(s_ws_queue, &msg, 0) with room: the queue owns the payload.
Enqueue(p) == /\ HasPayload(p)
              /\ Len(queue) < QueueSize
              /\ queue' = AtBack(queue, held[p])
              /\ held' = [held EXCEPT ![p] = NoBlock]
              /\ Return(p)
              /\ UNCHANGED <<heap, activeSocket, serverHandle, dispVars, sess,
                             closing, server, orphans, stale>>

\* xQueueSend does not wait: on a full queue the event is dropped and freed.
QueueFull(p) == /\ HasPayload(p)
                /\ Len(queue) = QueueSize
                /\ heap' = Released(p)
                /\ held' = [held EXCEPT ![p] = NoBlock]
                /\ Return(p)
                /\ UNCHANGED <<queue, activeSocket, serverHandle, dispVars, sess,
                               closing, server, orphans, stale>>

\* A command that queues nothing: not JSON, unknown, silent, or out of memory.
CommandDone == /\ hpc = "command"
               /\ held[HttpdTask] = NoBlock
               /\ Return(HttpdTask)
               /\ UNCHANGED <<queue, heap, held, activeSocket, serverHandle,
                              dispVars, sess, closing, server, orphans, stale>>

--------------------------------------------------------------------------------
(* ws_task_entry and send_ws_json, in the dispatcher task.                       *)

Receive == /\ dpc = "receive"
           /\ queue # <<>>
           /\ dMsg' = Head(queue)
           /\ queue' = Tail(queue)
           /\ dpc' = "check"
           /\ UNCHANGED <<heap, held, activeSocket, serverHandle, dSock, dHandle,
                          dSent, httpdVars, server, orphans, stale>>

\* Mutant: with nobody registered the loop continues before free(msg.payload).
ContinueEarly == "receive"
Unsent == "free"

Check == /\ dpc = "check"
         /\ dpc' = IF activeSocket # NoSocket /\ serverHandle # NULL
                   THEN "args" ELSE Unsent
         /\ UNCHANGED <<queue, heap, held, activeSocket, serverHandle, dMsg, dSock,
                        dHandle, dSent, httpdVars, server, orphans, stale>>

\* The two arguments are read again, in either order.
ReadSocket == /\ dpc = "args"
              /\ dSock = Unread
              /\ dSock' = activeSocket
              /\ UNCHANGED <<queue, heap, held, activeSocket, serverHandle, dpc,
                             dMsg, dHandle, dSent, httpdVars, server, orphans, stale>>

ReadHandle == /\ dpc = "args"
              /\ dHandle = Unread
              /\ dHandle' = serverHandle
              /\ UNCHANGED <<queue, heap, held, activeSocket, serverHandle, dpc,
                             dMsg, dSock, dSent, httpdVars, server, orphans, stale>>

\* httpd_ws_get_fd_info: a handle that was freed can answer anything.
FdInfo(h, s) == IF h # server THEN {"ws", "other"}
                ELSE IF s # NoSocket /\ sess[s] = "ws" THEN {"ws"} ELSE {"other"}

\* A socket that is no WebSocket is forgotten.  Mutant: send_ws_json only returns.
DeadIgnored == "free"
DeadSocket == "forget"

AskFdInfo == /\ dpc = "args"
             /\ dSock # Unread /\ dHandle # Unread
             /\ \E info \in FdInfo(dHandle, dSock) :
                  dpc' = IF info = "ws" THEN "send" ELSE DeadSocket
             /\ UNCHANGED <<queue, heap, held, activeSocket, serverHandle, dMsg,
                            dSock, dHandle, dSent, httpdVars, server, orphans, stale>>

NoBuffer == /\ dpc = "send"
            /\ dpc' = "free"
            /\ UNCHANGED <<queue, heap, held, activeSocket, serverHandle, dMsg,
                           dSock, dHandle, dSent, httpdVars, server, orphans, stale>>

\* httpd_ws_send_frame_async accepts the frame.  A dead handle may report success,
\* but nothing reaches a client.
SendOk == /\ dpc = "send"
          /\ dHandle = server => dSock # NoSocket /\ sess[dSock] # "none"
          /\ dSent' = (dHandle = server)
          /\ stale' = IF dHandle = server /\ dSock # activeSocket THEN stale + 1
                                                                  ELSE stale
          /\ dpc' = "free"
          /\ UNCHANGED <<queue, heap, held, activeSocket, serverHandle, dMsg,
                         dSock, dHandle, httpdVars, server, orphans>>

SendFails == /\ dpc = "send"
             /\ dpc' = "forget"
             /\ UNCHANGED <<queue, heap, held, activeSocket, serverHandle, dMsg,
                            dSock, dHandle, dSent, httpdVars, server, orphans, stale>>

\* s_active_socket = -1, whatever it holds by now.
Forget == /\ dpc = "forget"
          /\ activeSocket' = NoSocket
          /\ orphans' = orphans \cup {s \in {activeSocket} \ {NoSocket} : sess[s] = "ws"}
          /\ dpc' = "free"
          /\ UNCHANGED <<queue, heap, held, serverHandle, dMsg, dSock, dHandle,
                         dSent, httpdVars, server, stale>>

\* The next message evaluates the client anew.  Mutant: it is read once and kept.
ClientCached == UNCHANGED <<dSock, dHandle>>
ClientReadAnew == dSock' = Unread /\ dHandle' = Unread

\* free(msg.payload) and back to the queue.
Free == /\ dpc = "free"
        /\ heap' = heap \ {dMsg}
        /\ dMsg' = NoBlock
        /\ ClientReadAnew /\ dSent' = FALSE
        /\ dpc' = "receive"
        /\ UNCHANGED <<queue, held, activeSocket, serverHandle, httpdVars, server,
                       orphans, stale>>

--------------------------------------------------------------------------------
(* app_api_ws and ws_dispatcher_add_client / _remove_client, in the httpd task.  *)

\* A client opens a TLS session.
Connect(s) == /\ server # NULL /\ hpc = "idle"
              /\ sess[s] = "none"
              /\ sess' = [sess EXCEPT ![s] = "http"]
              /\ UNCHANGED <<queue, heap, held, activeSocket, serverHandle, dispVars,
                             hpc, hSock, closing, server, orphans, stale>>

\* GET /ws/control passed ws_auth_callback and the handshake is answered.
Upgrade(s) == /\ server # NULL /\ hpc = "idle"
              /\ sess[s] = "http"
              /\ sess' = [sess EXCEPT ![s] = "ws"]
              /\ hpc' = "addCheck" /\ hSock' = s
              /\ UNCHANGED <<queue, heap, held, activeSocket, serverHandle, dispVars,
                             closing, server, orphans, stale>>

AddCheck == /\ hpc = "addCheck"
            /\ hpc' = IF activeSocket # NoSocket /\ activeSocket # hSock
                      THEN "addKick" ELSE "addSocket"
            /\ UNCHANGED <<queue, heap, held, activeSocket, serverHandle, dispVars,
                           hSock, sess, closing, server, orphans, stale>>

\* Whom add_client kicks.  Mutant: the client it has just accepted.
KicksTheNew == {hSock}
Kicked == {activeSocket} \ {NoSocket}

\* httpd_sess_trigger_close(server_handle, s_active_socket) only queues the close.
AddKick == /\ hpc = "addKick"
           /\ closing' = closing \cup {s \in Kicked : sess[s] # "none"}
           /\ hpc' = "addSocket"
           /\ UNCHANGED <<queue, heap, held, activeSocket, serverHandle, dispVars,
                          hSock, sess, server, orphans, stale>>

AddSocket == /\ hpc = "addSocket"
             /\ activeSocket' = hSock
             /\ orphans' = orphans \ {hSock}
             /\ stale' = 0
             /\ hpc' = "addHandle"
             /\ UNCHANGED <<queue, heap, held, serverHandle, dispVars, hSock, sess,
                            closing, server>>

AddHandle == /\ hpc = "addHandle"
             /\ serverHandle' = server
             /\ hpc' = "idle" /\ hSock' = NoSocket
             /\ UNCHANGED <<queue, heap, held, activeSocket, dispVars, sess,
                            closing, server, orphans, stale>>

\* A TEXT frame goes to ws_cmd_handle.
TextFrame(s) == /\ server # NULL /\ hpc = "idle"
                /\ sess[s] = "ws"
                /\ hpc' = "command" /\ hSock' = s
                /\ UNCHANGED <<queue, heap, held, activeSocket, serverHandle,
                               dispVars, sess, closing, server, orphans, stale>>

\* A CLOSE frame: ws_dispatcher_remove_client, then httpd closes the session.
CloseFrame(s) == /\ server # NULL /\ hpc = "idle"
                 /\ sess[s] = "ws"
                 /\ activeSocket' = IF activeSocket = s THEN NoSocket ELSE activeSocket
                 /\ stale' = IF activeSocket = s THEN 0 ELSE stale
                 /\ hpc' = "close" /\ hSock' = s
                 /\ UNCHANGED <<queue, heap, held, serverHandle, dispVars, sess,
                                closing, server, orphans>>

\* The frame cannot be read: the handler returns the error without removing the client.
FrameError(s) == /\ server # NULL /\ hpc = "idle"
                 /\ sess[s] = "ws"
                 /\ hpc' = "close" /\ hSock' = s
                 /\ UNCHANGED <<queue, heap, held, activeSocket, serverHandle,
                                dispVars, sess, closing, server, orphans, stale>>

\* httpd deletes the session of the request it has just given up.
CloseSession == /\ hpc = "close"
                /\ sess' = [sess EXCEPT ![hSock] = "none"]
                /\ orphans' = orphans \ {hSock}
                /\ hpc' = "idle" /\ hSock' = NoSocket
                /\ UNCHANGED <<queue, heap, held, activeSocket, serverHandle,
                               dispVars, closing, server, stale>>

\* httpd drops a session of its own accord: the peer is gone, or lru_purge_enable
\* makes room for another one.
DropSession(s) == /\ server # NULL /\ hpc = "idle"
                  /\ sess[s] # "none"
                  /\ sess' = [sess EXCEPT ![s] = "none"]
                  /\ orphans' = orphans \ {s}
                  /\ UNCHANGED <<queue, heap, held, activeSocket, serverHandle,
                                 dispVars, hpc, hSock, closing, server, stale>>

\* The close queued by httpd_sess_trigger_close runs between two requests.
RunClose(s) == /\ server # NULL /\ hpc = "idle"
               /\ s \in closing
               /\ closing' = closing \ {s}
               /\ sess' = [sess EXCEPT ![s] = "none"]
               /\ orphans' = orphans \ {s}
               /\ UNCHANGED <<queue, heap, held, activeSocket, serverHandle,
                              dispVars, hpc, hSock, server, stale>>

--------------------------------------------------------------------------------
(* https_server_start and https_server_stop, in the event loop task.             *)

ServerStart(h) == /\ server = NULL
                  /\ server' = h
                  /\ UNCHANGED <<queue, heap, held, activeSocket, serverHandle,
                                 dispVars, httpdVars, orphans, stale>>

\* httpd_ssl_stop waits for the handler that is running, closes every session and
\* frees the handle.  The dispatcher is not told.
ServerStop == /\ server # NULL
              /\ hpc = "idle"
              /\ server' = NULL
              /\ sess' = [s \in Sockets |-> "none"]
              /\ closing' = {}
              /\ orphans' = {}
              /\ UNCHANGED <<queue, heap, held, activeSocket, serverHandle,
                             dispVars, hpc, hSock, stale>>

--------------------------------------------------------------------------------
Produce(p) == Strdup(p) \/ Enqueue(p) \/ QueueFull(p)

Dispatch == \/ Receive \/ Check \/ ReadSocket \/ ReadHandle \/ AskFdInfo
            \/ NoBuffer \/ SendOk \/ SendFails \/ Forget \/ Free

\* Steps the httpd task takes on its own once a request is being handled.
Handler == \/ CommandDone \/ AddCheck \/ AddKick \/ AddSocket \/ AddHandle
           \/ CloseSession

\* What clients and the network make the httpd task do.
Client(s) == \/ Connect(s) \/ Upgrade(s) \/ TextFrame(s) \/ CloseFrame(s)
             \/ FrameError(s) \/ DropSession(s) \/ RunClose(s)

Next == \/ \E p \in Producers : Produce(p)
        \/ Dispatch
        \/ Handler
        \/ \E s \in Sockets : Client(s)
        \/ \E h \in Handles : ServerStart(h)
        \/ ServerStop

Spec == Init /\ [][Next]_vars

\* FreeRTOS runs the dispatcher, env_task and the httpd task at the same priority,
\* and every call they make returns (send_wait_timeout bounds the send).  Clients,
\* the network and the event loop are under no obligation.
Fairness == /\ WF_vars(Dispatch)
            /\ WF_vars(Produce(EnvTask))
            /\ WF_vars(Handler \/ Produce(HttpdTask))

LiveSpec == Spec /\ Fairness

--------------------------------------------------------------------------------
(* Properties.                                                                   *)

Holders == {held[p] : p \in Producers} \ {NoBlock}
Queued == {queue[i] : i \in 1..Len(queue)}

\* Every allocated payload has exactly one owner: the producer that is about to
\* queue it, one slot of the queue, or the dispatcher; nothing else is allocated.
\* So ws_queue_send and ws_task_entry neither leak a payload nor free it twice.
PayloadOwned ==
  /\ heap = Holders \cup Queued \cup ({dMsg} \ {NoBlock})
  /\ \A i, j \in 1..Len(queue) : queue[i] = queue[j] => i = j
  /\ \A p, q \in Producers : held[p] = held[q] /\ held[p] # NoBlock => p = q
  /\ dMsg \notin Holders \cup Queued
  /\ Holders \cap Queued = {}
  /\ dMsg = NoBlock <=> dpc = "receive"

\* However a kick, a close or a dispatch interleave: after a change of the
\* registration at most one more event reaches the client that had it before,
\* because the dispatcher evaluates s_active_socket anew for every message.
AtMostOneStale == stale <= 1

\* add_client kicks the client it replaces: between two requests a WebSocket
\* session is the registered one, is about to be closed, or is one whose
\* registration the dispatcher itself gave up.
KickedOrOrphaned ==
  hpc = "idle" => \A s \in Sockets :
    sess[s] = "ws" => s = activeSocket \/ s \in closing \/ s \in orphans

\* The queue and the dispatcher implement the bounded lossy FIFO of WsEventChannel.
Channel == INSTANCE WsEventChannel WITH
  Payloads <- Blocks,
  Capacity <- QueueSize + 1,
  NoPayload <- NoBlock,
  pending <- IF dMsg # NoBlock /\ dpc # "free" THEN <<dMsg>> \o queue ELSE queue,
  out <- IF dSent THEN dMsg ELSE NoBlock

\* Events reach the client in the order of xQueueSend, none twice, none invented.
LossyFifo == Channel!ChannelSpec

\* Every payload strdup returns is eventually freed, on every path of the dispatcher
\* and of ws_queue_send.
PayloadFreed == \A b \in Blocks : b \in heap ~> b \notin heap

\* No handler tells the dispatcher that a session ended without a CLOSE frame, but as
\* env_task keeps queueing, the dispatcher finds out by itself and forgets the socket
\* (unless the descriptor is in use again, or the server was restarted meanwhile).
DeadClientForgotten ==
  \A s \in Sockets :
    activeSocket = s /\ sess[s] = "none" /\ server # NULL /\ serverHandle = server
      ~> activeSocket # s \/ sess[s] # "none" \/ serverHandle # server

\* ws_dispatcher.h: add_client adds the socket "so they receive broadcasts".  The
\* dispatcher may therefore drop a registration only for a socket it failed to reach.
ForgetsOnlyTheFailedClient ==
  [][dpc = "forget" /\ dpc' = "free" => activeSocket \in {dSock, NoSocket}]_vars
================================================================================
