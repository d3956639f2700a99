----------------------------- MODULE EthServerProofs -----------------------------
(* Proofs about EthServer, for an event queue of any length.                       *)
EXTENDS EthServer, SequenceTheorems, TLAPS

\* The two halves of TypeOK: what the cable and the loop write, and what the main task
\* writes; both write the last two variables.
LoopTypes == /\ link \in BOOLEAN
             /\ events \in Seq(EventIds) /\ Len(events) <= MaxEvents
             /\ lpc \in {"idle", "startup", "load", "context", "start",
                         "running", "failed", "stopped"}
             /\ server \in BOOLEAN /\ buffers \in BOOLEAN
             /\ fault \in {"none", "files", "memory", "httpd"}

MainTypes == /\ mpc \in {"register", "wait", "unregister", "delete", "report", "delay",
                         "boot", "ready", "halted"}
             /\ grace \in BOOLEAN /\ group \in BOOLEAN
             /\ got \in BOOLEAN /\ registered \in BOOLEAN

SharedTypes == bit \in BOOLEAN /\ errorMode \in BOOLEAN

LEMMA Halves == /\ TypeOK <=> LoopTypes /\ MainTypes /\ SharedTypes
                /\ TypeOK' <=> LoopTypes' /\ MainTypes' /\ SharedTypes'
BY DEF TypeOK, LoopTypes, MainTypes, SharedTypes

\* A handler that takes an event shortens the queue.
LEMMA Taken ==
  ASSUME LoopTypes, events # <<>>
  PROVE  /\ Tail(events) \in Seq(EventIds)
         /\ Len(Tail(events)) = Len(events) - 1
         /\ Len(Tail(events)) <= MaxEvents
<1>1. events \in Seq(EventIds) /\ Len(events) <= MaxEvents
  BY DEF LoopTypes
<1>2. Tail(events) \in Seq(EventIds) /\ Len(Tail(events)) = Len(events) - 1
  BY <1>1, HeadTailProperties
<1>3. Len(events) \in Nat
  BY <1>1, LenProperties
<1> QED  BY <1>1, <1>2, <1>3, EthAssumption

LEMMA LoopStep ==
  ASSUME LoopTypes, SharedTypes, Loop
  PROVE  LoopTypes' /\ SharedTypes'
<1> USE DEF LoopTypes, SharedTypes
<1>1. CASE HandleConnected
  <2>1. /\ Tail(events) \in Seq(EventIds)
        /\ Len(Tail(events)) = Len(events) - 1
    BY <1>1, Taken DEF HandleConnected, Take
  <2>2. /\ events' \in Seq(EventIds)
        /\ Len(events') = Len(Tail(events)) + 1
    BY <1>1, <2>1, AppendProperties DEF HandleConnected, EventIds
  <2>3. Len(events) \in Nat
    BY LenProperties
  <2>4. Len(events') <= MaxEvents
    BY <2>1, <2>2, <2>3
  <2>5. lpc' \in {"idle", "startup"}
    BY <1>1 DEF HandleConnected
  <2> QED  BY <1>1, <2>2, <2>4, <2>5 DEF HandleConnected, startVars
<1>2. CASE StartupHandler
  BY <1>2 DEF StartupHandler, startVars
<1>3. CASE HandleDisconnected
  <2>1. events' \in Seq(EventIds) /\ Len(events') <= MaxEvents
    BY <1>3, Taken DEF HandleDisconnected, Take
  <2> QED  BY <1>3, <2>1 DEF HandleDisconnected, Stop
<1>4. CASE HandleGotIp
  <2>1. events' \in Seq(EventIds) /\ Len(events') <= MaxEvents
    BY <1>4, Taken DEF HandleGotIp, Take
  <2> QED  BY <1>4, <2>1 DEF HandleGotIp, startVars
<1>5. CASE LoadCredentials
  BY <1>5 DEF LoadCredentials
<1>6. CASE CredentialsMissing
  BY <1>6 DEF CredentialsMissing, Stop
<1>7. CASE AllocContext
  <2>1. lpc' \in {"start", "failed"} /\ fault' \in {fault, "memory"}
    BY <1>7 DEF AllocContext
  <2> QED  BY <1>7, <2>1 DEF AllocContext
<1>8. CASE HttpdStarts
  BY <1>8 DEF HttpdStarts
<1>9. CASE HttpdFails
  <2>1. lpc' = "failed" /\ fault' \in {fault, "httpd"}
    BY <1>9 DEF HttpdFails
  <2> QED  BY <1>9, <2>1 DEF HttpdFails, Stop
<1>10. CASE Callback
  <2>1. errorMode' \in BOOLEAN
    BY <1>10 DEF Callback, AlarmCleared
  <2> QED  BY <1>10, <2>1 DEF Callback, startVars
<1> QED  BY <1>1, <1>2, <1>3, <1>4, <1>5, <1>6, <1>7, <1>8, <1>9, <1>10 DEF Loop

LEMMA MainStep ==
  ASSUME MainTypes, SharedTypes, Main
  PROVE  MainTypes' /\ SharedTypes'
<1> USE DEF MainTypes, SharedTypes
<1>1. CASE Register
  BY <1>1 DEF Register
<1>2. CASE RegisterFails
  BY <1>2 DEF RegisterFails
<1>3. CASE Wake
  BY <1>3 DEF Wake, Bits
<1>4. CASE Unregister
  BY <1>4 DEF Unregister, HandlerFirst
<1>5. CASE DeleteGroup
  <2>1. mpc' = "report" /\ group' = FALSE /\ UNCHANGED registered
    BY <1>5 DEF DeleteGroup, HandlerFirst
  <2>2. UNCHANGED <<grace, got, bit, errorMode>>
    BY <1>5 DEF DeleteGroup
  <2> QED  BY <2>1, <2>2
<1>6. CASE Report
  <2>1. mpc' \in {"boot", "register", "delay"}
    BY <1>6 DEF Report
  <2>2. errorMode' \in BOOLEAN
    BY <1>6 DEF Report, AlarmRaised
  <2>3. grace' = FALSE /\ UNCHANGED <<group, got, registered, bit>>
    BY <1>6 DEF Report
  <2> QED  BY <2>1, <2>2, <2>3
<1>7. CASE Delay
  BY <1>7 DEF Delay
<1>8. CASE FinishBoot
  <2>1. mpc' \in {"ready", "halted"} /\ errorMode' \in BOOLEAN
    BY <1>8 DEF FinishBoot
  <2> QED  BY <1>8, <2>1 DEF FinishBoot
<1> QED  BY <1>1, <1>2, <1>3, <1>4, <1>5, <1>6, <1>7, <1>8 DEF Main

\* Neither task writes what is the other's own.
LEMMA OwnVariables == /\ Loop => UNCHANGED <<link, mainVars>>
                      /\ Main => UNCHANGED <<link, loopVars>>
<1>1. Loop => UNCHANGED <<link, mainVars>>
  BY DEF Loop, HandleConnected, StartupHandler, HandleDisconnected, HandleGotIp,
         LoadCredentials, CredentialsMissing, AllocContext, HttpdStarts, HttpdFails,
         Callback
<1>2. Main => UNCHANGED <<link, loopVars>>
  BY DEF Main, Register, RegisterFails, Wake, Unregister, DeleteGroup, Report, Delay,
         FinishBoot
<1> QED  BY <1>1, <1>2

\* The type invariant of the boot wait and the server: the queue of events never
\* outgrows its bound, and both tasks are always at one of their program points.
THEOREM TypeInvariant == Spec => []TypeOK
<1>1. Init => TypeOK
  <2> SUFFICES ASSUME Init PROVE TypeOK
    OBVIOUS
  <2>1. events \in Seq(EventIds) /\ Len(events) <= MaxEvents
    BY EmptySeq, EthAssumption DEF Init
  <2> QED  BY <2>1 DEF Init, TypeOK
<1>2. TypeOK /\ [Next]_vars => TypeOK'
  <2> SUFFICES ASSUME LoopTypes, MainTypes, SharedTypes, [Next]_vars
               PROVE  LoopTypes' /\ MainTypes' /\ SharedTypes'
    BY Halves
  <2>1. CASE LinkChange
    <3>1. events' \in Seq(EventIds) /\ Len(events') = Len(events) + 1
      BY <2>1, AppendProperties DEF LinkChange, EventIds, LoopTypes
    <3>2. Len(events') <= MaxEvents
      BY <2>1, <3>1, EthAssumption, LenProperties DEF LinkChange, Room, LoopTypes
    <3>3. LoopTypes'
      BY <2>1, <3>1, <3>2 DEF LinkChange, LoopTypes, startVars
    <3>4. MainTypes' /\ SharedTypes'
      BY <2>1 DEF LinkChange, MainTypes, SharedTypes, mainVars
    <3> QED  BY <3>3, <3>4
  <2>2. CASE Loop
    <3>1. MainTypes'
      BY <2>2, OwnVariables DEF MainTypes, mainVars
    <3> QED  BY <2>2, <3>1, LoopStep
  <2>3. CASE Main
    <3>1. LoopTypes'
      BY <2>3, OwnVariables DEF LoopTypes, loopVars, startVars
    <3> QED  BY <2>3, <3>1, MainStep
  <2>4. CASE UNCHANGED vars
    BY <2>4 DEF vars, loopVars, startVars, mainVars, LoopTypes, MainTypes, SharedTypes
  <2> QED  BY <2>1, <2>2, <2>3, <2>4 DEF Next
<1> QED  BY <1>1, <1>2, PTL DEF Spec

--------------------------------------------------------------------------------
\* A handler that runs is still registered, because Unregister waits for the loop's
\* mutex; and a registered one has its group, which DeleteGroup deletes afterwards.
GroupInv == /\ lpc = "startup" => registered
            /\ registered => group /\ mpc \in {"wait", "unregister"}

\* The loop never calls the startup handler without the event group it uses.
THEOREM GroupAlive == Spec => []StartupHandlerHasGroup
<1>1. Init => GroupInv
  BY DEF Init, GroupInv
<1>2. TypeOK /\ GroupInv /\ [Next]_vars => GroupInv'
  <2> SUFFICES ASSUME TypeOK, GroupInv, [Next]_vars PROVE GroupInv'
    OBVIOUS
  <2> USE DEF GroupInv
  <2>1. CASE LinkChange
    BY <2>1 DEF LinkChange, mainVars
  <2>2. CASE Loop
    <3>1. UNCHANGED <<registered, group, mpc>>
      BY <2>2 DEF Loop, HandleConnected, StartupHandler, HandleDisconnected,
                  HandleGotIp, LoadCredentials, CredentialsMissing, AllocContext,
                  HttpdStarts, HttpdFails, Callback, mainVars
    <3>2. lpc' = "startup" => registered
      BY <2>2 DEF Loop, HandleConnected, StartupHandler, HandleDisconnected,
                  HandleGotIp, LoadCredentials, CredentialsMissing, AllocContext,
                  HttpdStarts, HttpdFails, Callback
    <3> QED  BY <3>1, <3>2
  <2>3. CASE Register \/ RegisterFails
    BY <2>3 DEF Register, RegisterFails, loopVars
  <2>4. CASE Wake
    BY <2>4 DEF Wake, loopVars
  <2>5. CASE Unregister \/ DeleteGroup
    <3>1. CASE Unregister
      BY <3>1 DEF Unregister, HandlerFirst, loopVars
    <3>2. CASE DeleteGroup
      <4>1. ~registered
        BY <3>2 DEF DeleteGroup
      <4> QED  BY <3>2, <4>1 DEF DeleteGroup, HandlerFirst, loopVars
    <3> QED  BY <2>5, <3>1, <3>2
  <2>6. CASE Report \/ Delay \/ FinishBoot
    <3>1. ~registered
      BY <2>6 DEF Report, Delay, FinishBoot
    <3>2. UNCHANGED <<lpc, registered>>
      BY <2>6 DEF Report, Delay, FinishBoot, loopVars
    <3> QED  BY <3>1, <3>2
  <2>7. CASE UNCHANGED vars
    BY <2>7 DEF vars, loopVars, mainVars
  <2> QED  BY <2>1, <2>2, <2>3, <2>4, <2>5, <2>6, <2>7 DEF Next, Main
<1>3. GroupInv => StartupHandlerHasGroup
  BY DEF GroupInv, StartupHandlerHasGroup
<1> QED  BY <1>1, <1>2, <1>3, TypeInvariant, PTL DEF Spec

--------------------------------------------------------------------------------
\* Where the loop is not between LoadCredentials and httpd_ssl_start, credentials in
\* the heap are those of a start that found no memory for its context.
CredInv == lpc \notin {"context", "start"} /\ buffers => fault = "memory"

\* No path but that of the failed malloc leaves the private key in the heap.
THEOREM CredentialsInv == Spec => []CredentialsFreed
<1>1. Init => CredInv
  BY DEF Init, CredInv
<1>2. CredInv /\ [Next]_vars => CredInv'
  <2> SUFFICES ASSUME CredInv, [Next]_vars PROVE CredInv'
    OBVIOUS
  <2> USE DEF CredInv
  <2>1. CASE LinkChange
    BY <2>1 DEF LinkChange, startVars
  <2>2. CASE HandleConnected \/ StartupHandler \/ HandleGotIp \/ Callback
    BY <2>2 DEF HandleConnected, StartupHandler, HandleGotIp, Callback, Take, startVars
  <2>3. CASE HandleDisconnected \/ CredentialsMissing \/ HttpdFails
    BY <2>3 DEF HandleDisconnected, CredentialsMissing, HttpdFails, Stop
  <2>4. CASE LoadCredentials \/ AllocContext \/ HttpdStarts
    BY <2>4 DEF LoadCredentials, AllocContext, HttpdStarts
  <2>5. CASE Main
    BY <2>5 DEF Main, Register, RegisterFails, Wake, Unregister, DeleteGroup, Report,
                Delay, FinishBoot, loopVars, startVars
  <2>6. CASE UNCHANGED vars
    BY <2>6 DEF vars, loopVars, startVars
  <2> QED  BY <2>1, <2>2, <2>3, <2>4, <2>5, <2>6 DEF Next, Loop
<1>3. CredInv => CredentialsFreed
  BY DEF CredInv, CredentialsFreed
<1> QED  BY <1>1, <1>2, <1>3, PTL DEF Spec

--------------------------------------------------------------------------------
\* After the wait the alarm is off while a server runs, up to the moment a second start
\* is attempted; what a start that fails leaves running, it leaves for want of memory.
AlarmInv ==
  /\ /\ lpc \in {"idle", "startup", "load"} /\ mpc \in {"boot", "ready"}
     /\ server /\ fault # "memory"
     => ~errorMode
  /\ lpc = "failed" /\ server => fault = "memory"
  /\ lpc = "stopped" => ~server

\* Once the boot wait is over, a running server is not reported as an error, however
\* the callbacks of the two tasks were ordered.
THEOREM NoFalseAlarm == Spec => []NoAlarmWhileServing
<1>1. Init => AlarmInv
  BY DEF Init, AlarmInv
<1>2. AlarmInv /\ [Next]_vars => AlarmInv'
  <2> SUFFICES ASSUME AlarmInv, [Next]_vars PROVE AlarmInv'
    OBVIOUS
  <2> USE DEF AlarmInv
  <2>1. CASE LinkChange
    BY <2>1 DEF LinkChange, startVars, mainVars
  <2>2. CASE HandleConnected \/ StartupHandler \/ HandleGotIp
    BY <2>2 DEF HandleConnected, StartupHandler, HandleGotIp, Take, startVars, mainVars
  <2>3. CASE HandleDisconnected \/ CredentialsMissing \/ HttpdFails
    BY <2>3 DEF HandleDisconnected, CredentialsMissing, HttpdFails, Stop, mainVars
  <2>4. CASE LoadCredentials \/ AllocContext \/ HttpdStarts
    BY <2>4 DEF LoadCredentials, AllocContext, HttpdStarts, mainVars
  <2>5. CASE Callback
    BY <2>5 DEF Callback, AlarmCleared, startVars, mainVars
  <2>6. CASE Report
    BY <2>6 DEF Report, loopVars, startVars
  <2>7. CASE FinishBoot
    BY <2>7 DEF FinishBoot, loopVars, startVars
  <2>8. CASE Register \/ RegisterFails \/ Wake \/ Unregister \/ DeleteGroup \/ Delay
    BY <2>8 DEF Register, RegisterFails, Wake, Unregister, DeleteGroup, Delay,
                loopVars, startVars
  <2>9. CASE UNCHANGED vars
    BY <2>9 DEF vars, loopVars, startVars, mainVars
  <2> QED  BY <2>1, <2>2, <2>3, <2>4, <2>5, <2>6, <2>7, <2>8, <2>9
           DEF Next, Loop, Main
<1>3. AlarmInv => NoAlarmWhileServing
  BY DEF AlarmInv, NoAlarmWhileServing
<1> QED  BY <1>1, <1>2, <1>3, PTL DEF Spec
================================================================================
