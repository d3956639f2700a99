----------------------------- MODULE WsEventChannel -----------------------------
(* What the WebSocket event path promises a task that calls ws_queue_send: the   *)
(* channel to the registered client is bounded and lossy, but it never reorders, *)
(* duplicates or invents an event.  WsDispatcher implements this specification.  *)
EXTENDS Naturals, Sequences

CONSTANTS Payloads,   \* the JSON payloads that can be in flight
          Capacity,   \* how many events the channel holds
          NoPayload   \* nothing is being delivered

VARIABLES pending,    \* accepted events in the order of acceptance
          out         \* the event just handed to a client, or NoPayload

chanVars == <<pending, out>>

ChannelInit == /\ pending = <<>>
               /\ out = NoPayload

\* A payload in the channel is not accepted a second time.
Accept(m) == /\ Len(pending) < Capacity
             /\ m # out
             /\ \A i \in 1..Len(pending) : pending[i] # m
             /\ pending' = Append(pending, m)
             /\ UNCHANGED out

\* The oldest event is handed over ...
Deliver == /\ pending # <<>>
           /\ out = NoPayload
           /\ out' = Head(pending)
           /\ pending' = Tail(pending)

\* ... or lost: nobody is registered, the socket is dead, memory is short.
Lose == /\ pending # <<>>
        /\ out = NoPayload
        /\ pending' = Tail(pending)
        /\ UNCHANGED out

Release == /\ out # NoPayload
           /\ out' = NoPayload
           /\ UNCHANGED pending

ChannelNext == (\E m \in Payloads : Accept(m)) \/ Deliver \/ Lose \/ Release

ChannelSpec == ChannelInit /\ [][ChannelNext]_chanVars
================================================================================
