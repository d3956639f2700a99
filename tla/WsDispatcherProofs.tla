--------------------------- MODULE WsDispatcherProofs ---------------------------
(* Proofs about WsDispatcher for every queue size and every set of sockets, heap  *)
(* blocks and server addresses: who owns a payload, and whom an event reaches     *)
(* after a change of the registration.                                            *)
EXTENDS WsDispatcher, SequenceTheorems, TLAPS

\* Every variable keeps its range.
LEMMA TypeInvariant == Spec => []TypeOK
<1> USE WsAssumption DEF TypeOK, Producers
<1>1. Init => TypeOK
  <2> SUFFICES ASSUME Init PROVE TypeOK
    OBVIOUS
  <2>1. queue \in Seq(Blocks)
    BY DEF Init
  <2>2. held \in [Producers -> Blocks \cup {NoBlock}]
    BY DEF Init
  <2>3. sess \in [Sockets -> {"none", "http", "ws"}]
    BY DEF Init
  <2> QED BY <2>1, <2>2, <2>3 DEF Init
<1>2. TypeOK /\ [Next]_vars => TypeOK'
  <2> SUFFICES ASSUME TypeOK, [Next]_vars PROVE TypeOK'
    OBVIOUS
  <2>1. ASSUME NEW p \in Producers, Strdup(p) PROVE TypeOK'
    BY <2>1 DEF Strdup, dispVars, httpdVars
  <2>2. ASSUME NEW p \in Producers, Enqueue(p) PROVE TypeOK'
    BY <2>2 DEF Enqueue, HasPayload, AtBack, Return, dispVars
  <2>3. ASSUME NEW p \in Producers, QueueFull(p) PROVE TypeOK'
    BY <2>3 DEF QueueFull, HasPayload, Released, Return, dispVars
  <2>4. CASE Dispatch
    <3>1. CASE Receive
      <4>1. Head(queue) \in Blocks /\ Tail(queue) \in Seq(Blocks)
        BY <3>1 DEF Receive
      <4> QED BY <3>1, <4>1 DEF Receive, httpdVars
    <3>2. CASE Check \/ ReadSocket \/ ReadHandle
      BY <3>2 DEF Check, Unsent, ReadSocket, ReadHandle, httpdVars
    <3>3. CASE AskFdInfo
      BY <3>3 DEF AskFdInfo, DeadSocket, httpdVars
    <3>4. CASE NoBuffer \/ SendFails
      BY <3>4 DEF NoBuffer, SendFails, httpdVars
    <3>6. CASE SendOk
      <4>1. stale' \in Nat /\ dSent' \in BOOLEAN
        BY <3>6 DEF SendOk
      <4> QED BY <3>6, <4>1 DEF SendOk, httpdVars
    <3>5. CASE Forget \/ Free
      BY <3>5 DEF Forget, Free, ClientReadAnew, httpdVars
    <3> QED BY <2>4, <3>1, <3>2, <3>3, <3>4, <3>5, <3>6 DEF Dispatch
  <2>5. CASE Handler
    BY <2>5 DEF Handler, CommandDone, Return, AddCheck, AddKick, Kicked, AddSocket,
                AddHandle, CloseSession, dispVars
  <2>6. ASSUME NEW s \in Sockets, Client(s) PROVE TypeOK'
    BY <2>6 DEF Client, Connect, Upgrade, TextFrame, CloseFrame, FrameError,
                DropSession, RunClose, dispVars
  <2>7. ASSUME NEW h \in Handles, ServerStart(h) PROVE TypeOK'
    BY <2>7 DEF ServerStart, dispVars, httpdVars
  <2>8. CASE ServerStop
    BY <2>8 DEF ServerStop, dispVars
  <2>9. CASE UNCHANGED vars
    BY <2>9 DEF vars, dispVars, httpdVars
  <2> QED BY <2>1, <2>2, <2>3, <2>4, <2>5, <2>6, <2>7, <2>8, <2>9 DEF Next, Produce
<1> QED BY <1>1, <1>2, PTL DEF Spec
--------------------------------------------------------------------------------
(* Who owns a payload.                                                           *)

\* What a queue contains, and that it contains nothing twice.
Elems(q) == {q[i] : i \in 1..Len(q)}
Distinct(q) == \A i, j \in 1..Len(q) : q[i] = q[j] => i = j

\* A queue that receives a message at its back gains that message and no other, and
\* holds nothing twice if the message was not in it.
LEMMA QueueAppend ==
  ASSUME NEW q \in Seq(Blocks), NEW b \in Blocks, Distinct(q), b \notin Elems(q)
  PROVE  Elems(Append(q, b)) = Elems(q) \cup {b} /\ Distinct(Append(q, b))
<1> DEFINE r == Append(q, b)
<1>1. Len(r) = Len(q) + 1 /\ r[Len(q) + 1] = b
      /\ \A i \in 1..Len(q) : r[i] = q[i]
  OBVIOUS
<1>2. Len(q) \in Nat /\ 1..Len(r) = 1..Len(q) \cup {Len(q) + 1}
  BY <1>1
<1> HIDE DEF r
<1>3. Distinct(r)
  BY <1>1, <1>2 DEF Distinct, Elems
<1>4. Elems(r) = Elems(q) \cup {b}
  BY <1>1, <1>2 DEF Elems
<1> QED BY <1>3, <1>4 DEF r

\* A queue that loses its front loses that message and, if it held nothing twice,
\* no longer contains it.
LEMMA QueueTail ==
  ASSUME NEW q \in Seq(Blocks), q # <<>>, Distinct(q)
  PROVE  /\ Elems(Tail(q)) = Elems(q) \ {Head(q)}
         /\ Distinct(Tail(q))
         /\ Head(q) \in Elems(q)
<1> DEFINE r == Tail(q)
<1>1. Len(q) \in Nat \ {0} /\ Len(r) = Len(q) - 1 /\ Head(q) = q[1]
      /\ \A i \in 1..Len(r) : r[i] = q[i + 1]
  OBVIOUS
<1> HIDE DEF r
<1>2. Distinct(r)
  BY <1>1 DEF Distinct
<1>3. Elems(r) \subseteq Elems(q) \ {Head(q)}
  BY <1>1 DEF Elems, Distinct
<1>4. ASSUME NEW x \in Elems(q) \ {Head(q)} PROVE x \in Elems(r)
  <2>1. PICK i \in 1..Len(q) : x = q[i]
    BY DEF Elems
  <2>2. i # 1 /\ i - 1 \in 1..Len(r) /\ r[i - 1] = x
    BY <1>1, <2>1
  <2> QED BY <2>2 DEF Elems
<1>5. Head(q) \in Elems(q)
  BY <1>1 DEF Elems
<1> QED BY <1>2, <1>3, <1>4, <1>5 DEF r

\* No step leaks a payload, frees it twice, or gives it two owners.
LEMMA OwnershipStep ==
  ASSUME TypeOK, PayloadOwned, [Next]_vars
  PROVE  PayloadOwned'
<1> USE WsAssumption DEF TypeOK, Producers
<1>1. ASSUME NEW p \in Producers, Strdup(p) PROVE PayloadOwned'
  <2>1. PICK b \in Blocks \ heap : /\ heap' = heap \cup {b}
                                   /\ held' = [held EXCEPT ![p] = b]
    BY <1>1 DEF Strdup
  <2>2. held[p] = NoBlock /\ UNCHANGED <<queue, dMsg, dpc>>
    BY <1>1 DEF Strdup, dispVars
  <2>3. Holders' = Holders \cup {b} /\ b \notin Holders \cup Queued \cup {dMsg}
    BY <2>1, <2>2 DEF Holders, PayloadOwned
  <2>4. \A p1, p2 \in Producers : held'[p1] = held'[p2] /\ held'[p1] # NoBlock => p1 = p2
    BY <2>1, <2>2, <2>3 DEF Holders, PayloadOwned
  <2> QED BY <2>1, <2>2, <2>3, <2>4 DEF PayloadOwned, Queued
<1>2. ASSUME NEW p \in Producers, Enqueue(p) PROVE PayloadOwned'
  <2>1. /\ held[p] \in Blocks
        /\ queue' = Append(queue, held[p])
        /\ held' = [held EXCEPT ![p] = NoBlock]
        /\ UNCHANGED <<heap, dMsg, dpc>>
    BY <1>2 DEF Enqueue, HasPayload, AtBack, dispVars
  <2>2. held[p] \in Holders /\ held[p] \notin Queued \cup {dMsg}
    BY <2>1 DEF Holders, PayloadOwned
  <2>3. /\ Queued' = Queued \cup {held[p]}
        /\ \A i, j \in 1..Len(queue') : queue'[i] = queue'[j] => i = j
    <3>1. Distinct(queue)
      BY DEF PayloadOwned, Distinct
    <3>2. Queued = Elems(queue) /\ Queued' = Elems(queue')
      BY DEF Queued, Elems
    <3> QED BY <2>1, <2>2, <3>1, <3>2, QueueAppend DEF Distinct
  <2>4. /\ Holders' = Holders \ {held[p]}
        /\ \A p1, p2 \in Producers : held'[p1] = held'[p2] /\ held'[p1] # NoBlock => p1 = p2
    BY <2>1 DEF Holders, PayloadOwned
  <2> QED BY <2>1, <2>2, <2>3, <2>4 DEF PayloadOwned
<1>3. ASSUME NEW p \in Producers, QueueFull(p) PROVE PayloadOwned'
  <2>1. /\ held[p] \in Blocks
        /\ heap' = heap \ {held[p]}
        /\ held' = [held EXCEPT ![p] = NoBlock]
        /\ UNCHANGED <<queue, dMsg, dpc>>
    BY <1>3 DEF QueueFull, HasPayload, Released, dispVars
  <2>2. held[p] \notin Queued \cup {dMsg}
    BY <2>1 DEF Holders, PayloadOwned
  <2>3. /\ Holders' = Holders \ {held[p]}
        /\ \A p1, p2 \in Producers : held'[p1] = held'[p2] /\ held'[p1] # NoBlock => p1 = p2
    BY <2>1 DEF Holders, PayloadOwned
  <2> QED BY <2>1, <2>2, <2>3 DEF PayloadOwned, Queued
<1>4. CASE Receive
  <2>1. /\ dMsg = NoBlock /\ dMsg' = Head(queue)
        /\ queue # <<>> /\ queue' = Tail(queue)
        /\ dpc' = "check"
        /\ UNCHANGED <<heap, held>>
    BY <1>4 DEF Receive, PayloadOwned
  <2>2. /\ Queued' = Queued \ {dMsg'}
        /\ dMsg' \in Queued /\ dMsg' \in Blocks
        /\ \A i, j \in 1..Len(queue') : queue'[i] = queue'[j] => i = j
    <3>1. Distinct(queue)
      BY DEF PayloadOwned, Distinct
    <3>2. Queued = Elems(queue) /\ Queued' = Elems(queue')
      BY DEF Queued, Elems
    <3>3. queue \in Seq(Blocks) /\ Head(queue) \in Blocks
      BY <2>1
    <3> QED BY <2>1, <3>1, <3>2, <3>3, QueueTail DEF Distinct
  <2>3. Holders' = Holders
    BY <2>1 DEF Holders
  <2> QED BY <2>1, <2>2, <2>3 DEF PayloadOwned
<1>5. CASE Free
  <2>1. /\ dpc = "free" /\ dpc' = "receive"
        /\ heap' = heap \ {dMsg} /\ dMsg' = NoBlock
        /\ UNCHANGED <<queue, held>>
    BY <1>5 DEF Free
  <2>2. Holders' = Holders /\ Queued' = Queued
    BY <2>1 DEF Holders, Queued
  <2> QED BY <2>1, <2>2 DEF PayloadOwned
<1>6. CASE Dispatch /\ ~Receive /\ ~Free
  <2>1. /\ UNCHANGED <<queue, heap, held, dMsg>>
        /\ dpc # "receive" /\ dpc' # "receive"
    BY <1>6 DEF Dispatch, Check, Unsent, ReadSocket, ReadHandle, AskFdInfo, DeadSocket,
                NoBuffer, SendOk, SendFails, Forget
  <2>2. Holders' = Holders /\ Queued' = Queued
    BY <2>1 DEF Holders, Queued
  <2> QED BY <2>1, <2>2 DEF PayloadOwned
<1>7. CASE UNCHANGED <<queue, heap, held, dMsg, dpc>>
  <2>1. Holders' = Holders /\ Queued' = Queued
    BY <1>7 DEF Holders, Queued
  <2> QED BY <1>7, <2>1 DEF PayloadOwned
<1>8. CASE Handler
  BY <1>7, <1>8 DEF Handler, CommandDone, AddCheck, AddKick, AddSocket, AddHandle,
                    CloseSession, dispVars
<1>9. ASSUME NEW s \in Sockets, Client(s) PROVE PayloadOwned'
  BY <1>7, <1>9 DEF Client, Connect, Upgrade, TextFrame, CloseFrame, FrameError,
                    DropSession, RunClose, dispVars
<1>10. ASSUME NEW h \in Handles, ServerStart(h) PROVE PayloadOwned'
  BY <1>7, <1>10 DEF ServerStart, dispVars
<1>11. CASE ServerStop \/ UNCHANGED vars
  BY <1>7, <1>11 DEF ServerStop, vars, dispVars
<1> QED BY <1>1, <1>2, <1>3, <1>4, <1>5, <1>6, <1>8, <1>9, <1>10, <1>11 DEF Next, Produce

\* Every payload ws_queue_send allocates has exactly one owner until it is freed:
\* no path of ws_queue_send and ws_task_entry leaks it or frees it twice.
THEOREM PayloadOwnership == Spec => []PayloadOwned
<1>1. Init => PayloadOwned
  BY WsAssumption DEF Init, PayloadOwned, Holders, Queued, Producers
<1>2. TypeOK /\ PayloadOwned /\ [Next]_vars => PayloadOwned'
  BY OwnershipStep
<1> QED BY <1>1, <1>2, TypeInvariant, PTL DEF Spec
--------------------------------------------------------------------------------
(* Whom an event reaches after a change of the registration.                     *)

\* The inductive strengthening of AtMostOneStale.  Once one event went to another
\* socket than the registered one, the socket the dispatcher has read for the next
\* event is the registered one, or none: only the httpd task registers another one,
\* and it starts the count afresh.
StaleInv ==
  /\ stale <= 1
  /\ dpc \in {"receive", "check"} => dSock = Unread
  /\ dpc \in {"send", "forget"} => dSock # Unread
  /\ stale = 1 /\ dpc \in {"check", "args", "send"}
       => dSock \in {activeSocket, NoSocket, Unread}

\* Every step keeps the strengthened invariant.
LEMMA StaleStep ==
  ASSUME TypeOK, StaleInv, [Next]_vars
  PROVE  StaleInv'
<1> USE WsAssumption DEF StaleInv
<1>1. stale \in Nat /\ activeSocket \in Sockets \cup {NoSocket}
  BY DEF TypeOK
<1>2. CASE UNCHANGED <<stale, dpc, dSock, activeSocket>>
  BY <1>2
<1>3. ASSUME NEW p \in Producers, Produce(p) PROVE StaleInv'
  BY <1>2, <1>3 DEF Produce, Strdup, Enqueue, QueueFull, dispVars
<1>4. CASE Dispatch
  <2>1. CASE Receive \/ Check \/ ReadHandle \/ NoBuffer \/ SendFails
    BY <2>1 DEF Receive, Check, Unsent, ReadHandle, NoBuffer, SendFails
  <2>2. CASE ReadSocket
    BY <2>2, <1>1 DEF ReadSocket
  <2>3. CASE AskFdInfo
    BY <2>3 DEF AskFdInfo, DeadSocket
  <2>4. CASE SendOk
    <3>1. stale' <= 1
      BY <2>4, <1>1 DEF SendOk
    <3> QED BY <2>4, <3>1 DEF SendOk
  <2>5. CASE Forget \/ Free
    BY <2>5 DEF Forget, Free, ClientReadAnew
  <2> QED BY <1>4, <2>1, <2>2, <2>3, <2>4, <2>5 DEF Dispatch
<1>5. CASE Handler
  <2>1. CASE AddSocket
    BY <2>1 DEF AddSocket, dispVars
  <2>2. CASE CommandDone \/ AddCheck \/ AddKick \/ AddHandle \/ CloseSession
    BY <2>2, <1>2 DEF CommandDone, AddCheck, AddKick, AddHandle, CloseSession, dispVars
  <2> QED BY <1>5, <2>1, <2>2 DEF Handler
<1>6. ASSUME NEW s \in Sockets, Client(s) PROVE StaleInv'
  <2>1. CASE CloseFrame(s)
    BY <2>1, <1>1 DEF CloseFrame, dispVars
  <2>2. CASE ~CloseFrame(s)
    BY <2>2, <1>6, <1>2 DEF Client, Connect, Upgrade, TextFrame, FrameError,
                            DropSession, RunClose, dispVars
  <2> QED BY <2>1, <2>2
<1>7. CASE (\E h \in Handles : ServerStart(h)) \/ ServerStop \/ UNCHANGED vars
  BY <1>7, <1>2 DEF ServerStart, ServerStop, vars, dispVars
<1> QED BY <1>3, <1>4, <1>5, <1>6, <1>7 DEF Next

\* After a change of the registration at most one more event reaches the client that
\* had it before, for any number of sockets and any interleaving.
THEOREM StaleDelivery == Spec => []AtMostOneStale
<1>1. Init => StaleInv
  BY DEF Init, StaleInv
<1>2. TypeOK /\ StaleInv /\ [Next]_vars => StaleInv'
  BY StaleStep
<1>3. StaleInv => AtMostOneStale
  BY DEF StaleInv, AtMostOneStale
<1> QED BY <1>1, <1>2, <1>3, TypeInvariant, PTL DEF Spec
--------------------------------------------------------------------------------
(* Which WebSocket sessions can be open.                                         *)

\* A session whose future is settled whatever add_client does next.
Settled(s) == s \in closing \/ s \in orphans

\* The inductive strengthening of KickedOrOrphaned: it says where the httpd task is
\* when a session is none of the three, and that add_client overwrites s_active_socket
\* only when the client it replaces is already settled.
KickInv ==
  /\ held[HttpdTask] # NoBlock => hpc = "command"
  /\ \A s \in Sockets : sess[s] = "ws" =>
       \/ s = activeSocket
       \/ Settled(s)
       \/ hpc \in {"addCheck", "addKick", "addSocket", "close"} /\ s = hSock
  /\ hpc = "addSocket" => \A s \in Sockets : sess[s] = "ws" => s = hSock \/ Settled(s)

\* Every step keeps the strengthened invariant.
LEMMA KickStep ==
  ASSUME TypeOK, KickInv, [Next]_vars
  PROVE  KickInv'
<1> USE WsAssumption DEF KickInv, Settled
<1>1. /\ held \in [Producers -> Blocks \cup {NoBlock}]
      /\ sess \in [Sockets -> {"none", "http", "ws"}]
      /\ HttpdTask \in Producers /\ EnvTask \in Producers
  BY DEF TypeOK, Producers
<1>2. CASE UNCHANGED <<held, activeSocket, httpdVars, orphans>>
  BY <1>2 DEF httpdVars
<1>3. ASSUME NEW p \in Producers, Strdup(p) PROVE KickInv'
  BY <1>1, <1>3 DEF Strdup, httpdVars
<1>4. ASSUME NEW p \in Producers, Enqueue(p) \/ QueueFull(p) PROVE KickInv'
  <2>1. /\ held[p] # NoBlock /\ held' = [held EXCEPT ![p] = NoBlock]
        /\ Return(p)
        /\ UNCHANGED <<activeSocket, sess, closing, orphans>>
    BY <1>4 DEF Enqueue, QueueFull, HasPayload
  <2>2. CASE p = HttpdTask
    BY <1>1, <2>1, <2>2 DEF Return
  <2>3. CASE p # HttpdTask
    BY <1>1, <2>1, <2>3 DEF Return
  <2> QED BY <2>2, <2>3
<1>5. CASE Dispatch
  <2>1. CASE Forget
    BY <1>1, <2>1 DEF Forget, httpdVars
  <2>2. CASE ~Forget
    BY <1>2, <1>5, <2>2 DEF Dispatch, Receive, Check, ReadSocket, ReadHandle, AskFdInfo,
                            NoBuffer, SendOk, SendFails, Free
  <2> QED BY <2>1, <2>2
<1>6. CASE Handler
  <2>1. CASE CommandDone
    BY <1>1, <2>1 DEF CommandDone, Return
  <2>2. CASE AddCheck
    BY <1>1, <2>2 DEF AddCheck
  <2>3. CASE AddKick
    BY <1>1, <2>3 DEF AddKick, Kicked
  <2>4. CASE AddSocket
    BY <1>1, <2>4 DEF AddSocket
  <2>5. CASE AddHandle
    BY <1>1, <2>5 DEF AddHandle
  <2>6. CASE CloseSession
    BY <1>1, <2>6 DEF CloseSession
  <2> QED BY <1>6, <2>1, <2>2, <2>3, <2>4, <2>5, <2>6 DEF Handler
<1>7. ASSUME NEW s \in Sockets, Client(s) PROVE KickInv'
  <2>1. CASE Connect(s) \/ Upgrade(s)
    BY <1>1, <2>1 DEF Connect, Upgrade
  <2>2. CASE TextFrame(s) \/ FrameError(s)
    BY <1>1, <2>2 DEF TextFrame, FrameError
  <2>3. CASE CloseFrame(s)
    BY <1>1, <2>3 DEF CloseFrame
  <2>4. CASE DropSession(s) \/ RunClose(s)
    BY <1>1, <2>4 DEF DropSession, RunClose
  <2> QED BY <1>7, <2>1, <2>2, <2>3, <2>4 DEF Client
<1>8. ASSUME NEW h \in Handles, ServerStart(h) PROVE KickInv'
  BY <1>2, <1>8 DEF ServerStart
<1>9. CASE ServerStop
  BY <1>1, <1>9 DEF ServerStop
<1>10. CASE UNCHANGED vars
  BY <1>2, <1>10 DEF vars
<1> QED BY <1>3, <1>4, <1>5, <1>6, <1>7, <1>8, <1>9, <1>10 DEF Next, Produce

\* Between two requests every WebSocket session is the registered one, is about to be
\* closed, or was unregistered by the dispatcher: add_client always kicks the client
\* it replaces.
THEOREM ClientKicked == Spec => []KickedOrOrphaned
<1>1. Init => KickInv
  BY WsAssumption DEF Init, KickInv, Producers
<1>2. TypeOK /\ KickInv /\ [Next]_vars => KickInv'
  BY KickStep
<1>3. KickInv => KickedOrOrphaned
  BY DEF KickInv, KickedOrOrphaned, Settled
<1> QED BY <1>1, <1>2, <1>3, TypeInvariant, PTL DEF Spec
--------------------------------------------------------------------------------
(* The implementation of WsEventChannel.                                         *)

\* What the refinement needs besides ownership: the queue never overflows, and only a
\* message that is about to be freed counts as sent.
FifoInv == /\ Len(queue) <= QueueSize
           /\ dSent => dpc = "free"

\* Every step keeps it.
LEMMA FifoInvStep ==
  ASSUME TypeOK, PayloadOwned, FifoInv, [Next]_vars
  PROVE  FifoInv'
<1> USE WsAssumption DEF FifoInv
<1>1. queue \in Seq(Blocks) /\ Len(queue) \in Nat /\ dSent \in BOOLEAN
  BY DEF TypeOK
<1>2. CASE UNCHANGED <<queue, dispVars>>
  BY <1>2 DEF dispVars
<1>3. ASSUME NEW p \in Producers, Enqueue(p) PROVE FifoInv'
  <2>1. held[p] \in Blocks
    BY <1>3 DEF TypeOK, Enqueue, HasPayload
  <2>2. Len(queue') = Len(queue) + 1 /\ Len(queue) < QueueSize
    BY <1>1, <1>3, <2>1 DEF Enqueue, AtBack
  <2> QED BY <1>1, <1>3, <2>2 DEF Enqueue, dispVars
<1>4. CASE Dispatch
  <2>1. CASE Receive
    BY <1>1, <2>1 DEF Receive
  <2>2. CASE ~Receive
    BY <1>4, <2>2 DEF Dispatch, Check, Unsent, ReadSocket, ReadHandle, AskFdInfo,
                      DeadSocket, NoBuffer, SendOk, SendFails, Forget, Free
  <2> QED BY <2>1, <2>2
<1>5. ASSUME NEW p \in Producers, Strdup(p) \/ QueueFull(p) PROVE FifoInv'
  BY <1>2, <1>5 DEF Strdup, QueueFull
<1>6. CASE Handler
  BY <1>2, <1>6 DEF Handler, CommandDone, AddCheck, AddKick, AddSocket, AddHandle,
                    CloseSession
<1>7. ASSUME NEW s \in Sockets, Client(s) PROVE FifoInv'
  BY <1>2, <1>7 DEF Client, Connect, Upgrade, TextFrame, CloseFrame, FrameError,
                    DropSession, RunClose
<1>8. CASE (\E h \in Handles : ServerStart(h)) \/ ServerStop \/ UNCHANGED vars
  BY <1>2, <1>8 DEF ServerStart, ServerStop, vars
<1> QED BY <1>3, <1>4, <1>5, <1>6, <1>7, <1>8 DEF Next, Produce

\* A sequence with one message put in front of it.
LEMMA InFront ==
  ASSUME NEW q \in Seq(Blocks), NEW m \in Blocks
  PROVE  /\ <<m>> \o q \in Seq(Blocks)
         /\ Len(<<m>> \o q) = Len(q) + 1
         /\ Head(<<m>> \o q) = m
         /\ Tail(<<m>> \o q) = q
         /\ \A b \in Blocks : <<m>> \o Append(q, b) = Append(<<m>> \o q, b)
         /\ q # <<>> => <<Head(q)>> \o Tail(q) = q
         /\ \A i \in 1..Len(q) : (<<m>> \o q)[i + 1] = q[i]
         /\ (<<m>> \o q)[1] = m
  OBVIOUS

\* The refinement mapping.
Pending == IF dMsg # NoBlock /\ dpc # "free" THEN <<dMsg>> \o queue ELSE queue
Out == IF dSent THEN dMsg ELSE NoBlock

\* Every step of the code accepts, delivers, loses or releases an event, or changes
\* nothing the channel shows.
LEMMA ChannelStep ==
  ASSUME TypeOK, PayloadOwned, FifoInv, [Next]_vars
  PROVE  [Channel!ChannelNext]_<<Pending, Out>>
<1> USE WsAssumption
<1>1. /\ queue \in Seq(Blocks) /\ dMsg \in Blocks \cup {NoBlock}
      /\ dSent \in BOOLEAN /\ (dSent => dpc = "free")
      /\ (dMsg = NoBlock <=> dpc = "receive")
      /\ Len(queue) \in Nat /\ Len(queue) <= QueueSize
  BY DEF TypeOK, PayloadOwned, FifoInv
<1>2. CASE UNCHANGED <<queue, dispVars>>
  BY <1>2 DEF Pending, Out, dispVars
<1>3. ASSUME NEW p \in Producers, Enqueue(p)
      PROVE  [Channel!ChannelNext]_<<Pending, Out>>
  <2>1. /\ held[p] \in Blocks /\ Len(queue) < QueueSize
        /\ queue' = Append(queue, held[p])
        /\ UNCHANGED <<dMsg, dpc, dSent>>
    BY <1>3 DEF TypeOK, Enqueue, HasPayload, AtBack, dispVars
  <2>2. held[p] # dMsg /\ \A i \in 1..Len(queue) : queue[i] # held[p]
    BY <2>1 DEF PayloadOwned, Holders, Queued
  <2>3. Pending' = Append(Pending, held[p]) /\ Len(Pending) < QueueSize + 1
    BY <1>1, <2>1, InFront DEF Pending
  <2>4. \A i \in 1..Len(Pending) : Pending[i] # held[p]
    <3>1. CASE Pending = queue
      BY <2>2, <3>1
    <3>2. CASE dMsg \in Blocks /\ Pending = <<dMsg>> \o queue
      <4>1. \A i \in 1..(Len(queue) + 1) :
              i = 1 \/ (i - 1 \in 1..Len(queue) /\ i = (i - 1) + 1)
        BY <1>1
      <4>2. ASSUME NEW i \in 1..Len(Pending) PROVE Pending[i] # held[p]
        <5>1. CASE i = 1
          BY <1>1, <2>2, <3>2, <5>1, InFront
        <5>2. CASE i - 1 \in 1..Len(queue)
          BY <1>1, <2>2, <3>2, <5>2, InFront
        <5> QED BY <1>1, <3>2, <4>1, <5>1, <5>2, InFront
      <4> QED BY <4>2
    <3> QED BY <1>1, <3>1, <3>2 DEF Pending
  <2>5. held[p] # Out /\ Out' = Out
    BY <2>1, <2>2 DEF Out
  <2>6. Channel!Accept(held[p])
    BY <2>3, <2>4, <2>5 DEF Channel!Accept, Pending, Out
  <2> QED BY <2>1, <2>6 DEF Channel!ChannelNext
<1>4. CASE Receive
  <2>1. /\ dMsg = NoBlock /\ queue # <<>> /\ dMsg' = Head(queue)
        /\ queue' = Tail(queue) /\ dpc' = "check" /\ ~dSent /\ ~dSent'
    BY <1>1, <1>4 DEF Receive
  <2>2. Head(queue) \in Blocks
    BY <1>1, <2>1
  <2>3. Pending = queue /\ Pending' = <<Head(queue)>> \o Tail(queue)
    BY <2>1, <2>2 DEF Pending
  <2>4. Pending' = Pending
    BY <1>1, <2>1, <2>2, <2>3, InFront
  <2> QED BY <2>1, <2>4 DEF Out
<1>5. ASSUME dMsg # NoBlock, dpc # "free", dpc' = "free", UNCHANGED <<queue, dMsg>>,
             dSent' \in BOOLEAN
      PROVE  [Channel!ChannelNext]_<<Pending, Out>>
  <2>1. Pending = <<dMsg>> \o queue /\ Pending' = queue /\ Out = NoBlock
    BY <1>1, <1>5 DEF Pending, Out
  <2>2. Pending # <<>> /\ Head(Pending) = dMsg /\ Pending' = Tail(Pending)
    BY <1>1, <1>5, <2>1, InFront
  <2>3. CASE dSent'
    <3>1. Channel!Deliver
      BY <1>5, <2>1, <2>2, <2>3 DEF Channel!Deliver, Pending, Out
    <3> QED BY <3>1 DEF Channel!ChannelNext
  <2>4. CASE ~dSent'
    <3>1. Channel!Lose
      BY <1>5, <2>1, <2>2, <2>4 DEF Channel!Lose, Pending, Out
    <3> QED BY <3>1 DEF Channel!ChannelNext
  <2> QED BY <1>5, <2>3, <2>4
<1>6. ASSUME dpc # "free", dpc' # "free", UNCHANGED <<queue, dMsg, dSent>>
      PROVE  [Channel!ChannelNext]_<<Pending, Out>>
  BY <1>6 DEF Pending, Out
<1>7. CASE Free
  <2>1. /\ dpc = "free" /\ dMsg \in Blocks /\ dMsg' = NoBlock
        /\ ~dSent' /\ queue' = queue
    BY <1>1, <1>7 DEF Free
  <2>2. Pending' = Pending
    BY <2>1 DEF Pending
  <2>3. CASE dSent
    <3>1. Channel!Release
      BY <2>1, <2>2, <2>3 DEF Channel!Release, Pending, Out
    <3> QED BY <3>1 DEF Channel!ChannelNext
  <2>4. CASE ~dSent
    BY <2>1, <2>2, <2>4 DEF Out
  <2> QED BY <2>3, <2>4
<1>8. CASE Dispatch /\ ~Receive /\ ~Free
  <2>1. dMsg # NoBlock /\ dpc # "free" /\ UNCHANGED <<queue, dMsg>>
    BY <1>1, <1>8 DEF Dispatch, Check, ReadSocket, ReadHandle, AskFdInfo, NoBuffer,
                      SendOk, SendFails, Forget
  <2>2. dSent' \in BOOLEAN /\ (dpc' # "free" => dSent' = dSent)
    BY <1>1, <1>8 DEF Dispatch, Check, ReadSocket, ReadHandle, AskFdInfo, NoBuffer,
                      SendOk, SendFails, Forget
  <2> QED BY <1>5, <1>6, <2>1, <2>2
<1>9. ASSUME NEW p \in Producers, Strdup(p) \/ QueueFull(p)
      PROVE  [Channel!ChannelNext]_<<Pending, Out>>
  BY <1>2, <1>9 DEF Strdup, QueueFull
<1>10. CASE Handler
  BY <1>2, <1>10 DEF Handler, CommandDone, AddCheck, AddKick, AddSocket, AddHandle,
                     CloseSession
<1>11. ASSUME NEW s \in Sockets, Client(s)
       PROVE  [Channel!ChannelNext]_<<Pending, Out>>
  BY <1>2, <1>11 DEF Client, Connect, Upgrade, TextFrame, CloseFrame, FrameError,
                     DropSession, RunClose
<1>12. CASE (\E h \in Handles : ServerStart(h)) \/ ServerStop \/ UNCHANGED vars
  BY <1>2, <1>12 DEF ServerStart, ServerStop, vars
<1> QED BY <1>3, <1>4, <1>7, <1>8, <1>9, <1>10, <1>11, <1>12 DEF Next, Produce

\* The queue and the dispatcher implement a bounded lossy FIFO: events reach the client
\* in the order in which xQueueSend accepted them, none twice, none invented.
THEOREM Refinement == Spec => LossyFifo
<1>1. Init => FifoInv /\ Channel!ChannelInit
  BY WsAssumption DEF Init, FifoInv, Channel!ChannelInit
<1>2. TypeOK /\ PayloadOwned /\ FifoInv /\ [Next]_vars => FifoInv'
  BY FifoInvStep
<1>3. TypeOK /\ PayloadOwned /\ FifoInv /\ [Next]_vars
        => [Channel!ChannelNext]_(Channel!chanVars)
  BY ChannelStep DEF Channel!chanVars, Pending, Out
<1> QED BY <1>1, <1>2, <1>3, TypeInvariant, PayloadOwnership, PTL
        DEF Spec, LossyFifo, Channel!ChannelSpec
================================================================================
