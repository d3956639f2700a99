------------------------------- MODULE IoBusProofs -------------------------------
(* Proofs about IoBus, for any set of tasks and pins.                              *)
EXTENDS IoBus, FiniteSetTheorems, TLAPS

\* One step of one task, by what it may touch: the pins with io_mutex and the bus, or the
\* display.
LEMMA StepCases ==
  ASSUME [Next]_vars
  PROVE  \/ UNCHANGED vars
         \/ \E t \in Tasks :
              \/ SetLevel(t) \/ TakeIo(t) \/ Load(t) \/ Store(t) \/ Commit(t) \/ TakeBus(t)
              \/ Write(t) \/ GiveBus(t) \/ GiveIo(t)
              \/ GetLevel(t) \/ AskIo(t) \/ ReadByte(t) \/ Poll(t)
              \/ SendByte(t) \/ TakeLcd(t) \/ Data(t) \/ Rise(t) \/ Fall(t) \/ GiveLcd(t)
BY DEF Next, Call, Expander, Display

\* What a transfer to the display does to its lines.
LEMMA DriveType ==
  ASSUME TypeOK, NEW t \in Tasks, NEW en \in BOOLEAN, Drive(en, Nibble(t))
  PROVE  /\ lines' \in [en : BOOLEAN, nib : Nibbles \cup {NoNibble}]
         /\ half' \in Nibbles \cup {NoNibble}
<1>1. Nibble(t) \in Nibbles
  BY DEF TypeOK, Nibble, Nibbles
<1>2. lines' \in [en : BOOLEAN, nib : Nibbles \cup {NoNibble}]
  BY <1>1 DEF Drive
<1>3. half' \in Nibbles \cup {NoNibble}
  BY <1>1 DEF Drive, TypeOK
<1> QED  BY <1>2, <1>3

LEMMA TransferType ==
  ASSUME TypeOK, NEW t \in Tasks, NEW from \in {"data", "rise", "fall"},
         NEW to \in {"rise", "fall", "giveLcd"},
         NEW en \in BOOLEAN, Transfer(t, from, to, en)
  PROVE  TypeOK'
<1> USE DEF TypeOK
<1>1. /\ lines' \in [en : BOOLEAN, nib : Nibbles \cup {NoNibble}]
      /\ half' \in Nibbles \cup {NoNibble}
  <2>1. CASE Drive(en, Nibble(t))
    BY <2>1, DriveType
  <2>2. CASE UNCHANGED <<lines, half>>
    BY <2>2
  <2> QED  BY <2>1, <2>2 DEF Transfer
<1>2. /\ \/ pc' = [pc EXCEPT ![t] = to]
         \/ pc' = [pc EXCEPT ![t] = "abort"]
      /\ pc[t] = from
      /\ UNCHANGED <<bus, expander, nibble>>
      /\ failed' \in BOOLEAN
  BY DEF Transfer, Goto
<1>3. pc' \in [Tasks -> PcNames]
  BY <1>2 DEF HoldsBus, PcNames
<1>4. bus # None => pc'[bus] \in HoldsBus
  BY <1>2 DEF HoldsBus
<1>5. io # None => pc'[io] \in HoldsIo
  BY <1>2 DEF HoldsIo
<1> QED  BY <1>1, <1>2, <1>3, <1>4, <1>5 DEF expander

\* The type invariant: every variable keeps its range, and a mutex is held only inside of
\* the section that gives it back.
THEOREM TypeInvariant == Spec => []TypeOK
<1>1. Init => TypeOK
  <2> SUFFICES ASSUME Init PROVE TypeOK
    OBVIOUS
  <2>1. lines \in [en : BOOLEAN, nib : Nibbles \cup {NoNibble}]
    BY DEF Init
  <2>2. /\ pc \in [Tasks -> PcNames] /\ byte \in [Tasks -> SUBSET Pins]
        /\ nibble \in [Tasks -> {"high", "low"}]
    BY DEF Init, PcNames
  <2> QED  BY <2>1, <2>2 DEF Init, TypeOK
<1>2. TypeOK /\ [Next]_vars => TypeOK'
  <2> SUFFICES ASSUME TypeOK, [Next]_vars PROVE TypeOK'
    OBVIOUS
  <2>1. CASE UNCHANGED vars
    BY <2>1 DEF TypeOK, vars, expander, display
  <2>2. ASSUME NEW t \in Tasks
        PROVE  /\ SetLevel(t) \/ TakeIo(t) \/ Load(t) \/ Store(t) \/ Commit(t) => TypeOK'
               /\ TakeBus(t) \/ Write(t) \/ GiveBus(t) \/ GiveIo(t) => TypeOK'
               /\ GetLevel(t) \/ AskIo(t) \/ ReadByte(t) \/ Poll(t) => TypeOK'
               /\ SendByte(t) \/ TakeLcd(t) \/ GiveLcd(t) => TypeOK'
               /\ Data(t) \/ Rise(t) \/ Fall(t) => TypeOK'
    <3> USE DEF TypeOK, Goto, HoldsIo, HoldsBus, PcNames, expander, display
    <3>1. ASSUME SetLevel(t) PROVE TypeOK'
      BY <3>1 DEF SetLevel
    <3>2. ASSUME TakeIo(t) PROVE TypeOK'
      BY <3>2 DEF TakeIo
    <3>3. ASSUME Load(t) PROVE TypeOK'
      BY <3>3 DEF Load
    <3>4. ASSUME Store(t) PROVE TypeOK'
      BY <3>4 DEF Store, Updated
    <3>5. ASSUME Commit(t) PROVE TypeOK'
      BY <3>5, IoBusAssumption DEF Commit
    <3>6. ASSUME TakeBus(t) PROVE TypeOK'
      BY <3>6 DEF TakeBus
    <3>7. ASSUME Write(t) PROVE TypeOK'
      BY <3>7 DEF Write, WholePort
    <3>8. ASSUME GiveBus(t) PROVE TypeOK'
      BY <3>8 DEF GiveBus
    <3>9. ASSUME GiveIo(t) PROVE TypeOK'
      BY <3>9 DEF GiveIo
    <3>10. ASSUME GetLevel(t) \/ AskIo(t) PROVE TypeOK'
      BY <3>10 DEF GetLevel, AskIo
    <3>11. ASSUME ReadByte(t) PROVE TypeOK'
      BY <3>11 DEF ReadByte
    <3>12. ASSUME Poll(t) \/ SendByte(t) PROVE TypeOK'
      BY <3>12 DEF Poll, SendByte
    <3>13. ASSUME TakeLcd(t) PROVE TypeOK'
      BY <3>13 DEF TakeLcd
    <3>14. ASSUME GiveLcd(t) PROVE TypeOK'
      BY <3>14 DEF GiveLcd, Given
    <3>15. ASSUME Data(t) \/ Rise(t) \/ Fall(t) PROVE TypeOK'
      BY <3>15, TransferType DEF Data, Rise, Fall
    <3> QED  BY <3>1, <3>2, <3>3, <3>4, <3>5, <3>6, <3>7, <3>8, <3>9, <3>10, <3>11,
                <3>12, <3>13, <3>14, <3>15
  <2> QED  BY <2>1, <2>2, StepCases
<1> QED  BY <1>1, <1>2, PTL DEF Spec

\* A transfer to the display moves its task and touches neither mutex nor the expander.
LEMMA TransferMoves ==
  ASSUME NEW t \in Tasks, Data(t) \/ Rise(t) \/ Fall(t)
  PROVE  /\ pc[t] \in {"data", "rise", "fall"}
         /\ \E to \in {"rise", "fall", "giveLcd", "abort"} : pc' = [pc EXCEPT ![t] = to]
         /\ UNCHANGED <<bus, expander>>
<1>1. ASSUME NEW from \in {"data", "rise", "fall"},
             NEW to \in {"rise", "fall", "giveLcd"},
             NEW en, Transfer(t, from, to, en)
      PROVE  /\ pc[t] = from
             /\ pc' = [pc EXCEPT ![t] = to] \/ pc' = [pc EXCEPT ![t] = "abort"]
             /\ UNCHANGED <<bus, expander>>
  BY <1>1 DEF Transfer, Goto
<1> QED  BY <1>1 DEF Data, Rise, Fall

--------------------------------------------------------------------------------
(* Mutual exclusion: who is in a section holds its mutex.                         *)

MutexInv == \A t \in Tasks : /\ pc[t] \in HoldsIo => io = t
                             /\ pc[t] \in HoldsBus => bus = t

LEMMA MutexStep ==
  ASSUME TypeOK, MutexInv, [Next]_vars
  PROVE  MutexInv'
<1> USE DEF TypeOK, MutexInv
<1>1. CASE UNCHANGED vars
  BY <1>1 DEF vars, expander
<1>2. ASSUME NEW t \in Tasks
      PROVE  /\ SetLevel(t) \/ TakeIo(t) \/ Load(t) \/ Store(t) \/ Commit(t) => MutexInv'
             /\ TakeBus(t) \/ Write(t) \/ GiveBus(t) \/ GiveIo(t) => MutexInv'
             /\ GetLevel(t) \/ AskIo(t) \/ ReadByte(t) \/ Poll(t) => MutexInv'
             /\ SendByte(t) \/ TakeLcd(t) \/ GiveLcd(t) => MutexInv'
             /\ Data(t) \/ Rise(t) \/ Fall(t) => MutexInv'
  <2> USE DEF Goto, HoldsIo, HoldsBus, expander, display
  <2>1. ASSUME SetLevel(t) \/ Poll(t) \/ SendByte(t) \/ GetLevel(t) PROVE MutexInv'
    BY <2>1 DEF SetLevel, Poll, SendByte, GetLevel
  <2>2. ASSUME TakeIo(t) \/ AskIo(t) PROVE MutexInv'
    BY <2>2, IoBusAssumption DEF TakeIo, AskIo, IoFree
  <2>3. ASSUME Load(t) \/ Store(t) \/ Commit(t) \/ Write(t) PROVE MutexInv'
    BY <2>3 DEF Load, Store, Commit, Write
  <2>4. ASSUME TakeBus(t) \/ TakeLcd(t) PROVE MutexInv'
    BY <2>4, IoBusAssumption DEF TakeBus, TakeLcd, BusFree
  <2>5. ASSUME GiveBus(t) \/ GiveLcd(t) PROVE MutexInv'
    BY <2>5 DEF GiveBus, GiveLcd, Given
  <2>6. ASSUME GiveIo(t) \/ ReadByte(t) PROVE MutexInv'
    BY <2>6 DEF GiveIo, ReadByte
  <2>7. ASSUME Data(t) \/ Rise(t) \/ Fall(t) PROVE MutexInv'
    BY <2>7, TransferMoves
  <2> QED  BY <2>1, <2>2, <2>3, <2>4, <2>5, <2>6, <2>7
<1> QED  BY <1>1, <1>2, StepCases

\* What holds between the steps of io_expander_set_level.  Load and Store together are
\* one update of the shadow register because io_mutex is held from the one to the other;
\* a task past Commit has in `byte' what the port is to become.
PinInv == /\ shadow = wanted
          /\ \A t \in Tasks : /\ pc[t] = "store" => byte[t] = shadow
                              /\ pc[t] \in {"takeBus", "write"} => byte[t] = shadow \cup Inputs
          /\ \/ stale
             \/ port = shadow \cup Inputs
             \/ \E t \in Tasks : pc[t] \in {"commit", "takeBus", "write"}

LEMMA PinStep ==
  ASSUME TypeOK, MutexInv, PinInv, [Next]_vars
  PROVE  PinInv'
<1> USE DEF TypeOK, MutexInv, PinInv
<1>1. CASE UNCHANGED vars
  BY <1>1 DEF vars, expander
<1>2. ASSUME NEW t \in Tasks
      PROVE  /\ SetLevel(t) \/ TakeIo(t) \/ Load(t) \/ Store(t) \/ Commit(t) => PinInv'
             /\ TakeBus(t) \/ Write(t) \/ GiveBus(t) \/ GiveIo(t) => PinInv'
             /\ GetLevel(t) \/ AskIo(t) \/ ReadByte(t) \/ Poll(t) => PinInv'
             /\ SendByte(t) \/ TakeLcd(t) \/ GiveLcd(t) => PinInv'
             /\ Data(t) \/ Rise(t) \/ Fall(t) => PinInv'
  <2> USE DEF Goto, HoldsIo, expander, display
  <2>1. ASSUME SetLevel(t) \/ Poll(t) \/ SendByte(t) \/ GetLevel(t) PROVE PinInv'
    BY <2>1 DEF SetLevel, Poll, SendByte, GetLevel
  <2>2. ASSUME TakeIo(t) \/ AskIo(t) PROVE PinInv'
    BY <2>2 DEF TakeIo, AskIo
  <2>3. ASSUME Load(t) PROVE PinInv'
    BY <2>3 DEF Load
  <2>4. ASSUME Store(t) PROVE PinInv'
    <3>1. shadow' = wanted'
      BY <2>4 DEF Store
    <3>2. \A u \in Tasks : pc'[u] \notin {"store", "takeBus", "write"}
      BY <2>4 DEF Store
    <3>3. pc'[t] = "commit"
      BY <2>4 DEF Store
    <3> QED  BY <3>1, <3>2, <3>3
  <2>5. ASSUME Commit(t) PROVE PinInv'
    BY <2>5 DEF Commit
  <2>6. ASSUME TakeBus(t) PROVE PinInv'
    BY <2>6 DEF TakeBus
  <2>7. ASSUME Write(t) PROVE PinInv'
    <3>1. \A u \in Tasks : pc'[u] \notin {"store", "takeBus", "write"}
      BY <2>7 DEF Write
    <3>2. stale' \/ port' = shadow' \cup Inputs
      BY <2>7 DEF Write, WholePort
    <3> QED  BY <2>7, <3>1, <3>2 DEF Write
  <2>8. ASSUME GiveBus(t) \/ TakeLcd(t) \/ GiveLcd(t) PROVE PinInv'
    BY <2>8 DEF GiveBus, TakeLcd, GiveLcd
  <2>9. ASSUME GiveIo(t) \/ ReadByte(t) PROVE PinInv'
    BY <2>9 DEF GiveIo, ReadByte
  <2>10. ASSUME Data(t) \/ Rise(t) \/ Fall(t) PROVE PinInv'
    BY <2>10, TransferMoves
  <2> QED  BY <2>1, <2>2, <2>3, <2>4, <2>5, <2>6, <2>7, <2>8, <2>9, <2>10
<1> QED  BY <1>1, <1>2, StepCases

\* Only the holder of the bus mutex moves the display's lines, so EN is still up, with the
\* nibble of the task that raised it, when that task comes to lower it.
LEMMA StrobeStep ==
  ASSUME TypeOK, MutexInv, StrobeIntact, [Next]_vars
  PROVE  StrobeIntact'
<1> USE DEF TypeOK, MutexInv, StrobeIntact, Nibble
<1>1. CASE UNCHANGED vars
  BY <1>1 DEF vars, display
<1>2. ASSUME NEW t \in Tasks
      PROVE  /\ SetLevel(t) \/ TakeIo(t) \/ Load(t) \/ Store(t) \/ Commit(t) => StrobeIntact'
             /\ TakeBus(t) \/ Write(t) \/ GiveBus(t) \/ GiveIo(t) => StrobeIntact'
             /\ GetLevel(t) \/ AskIo(t) \/ ReadByte(t) \/ Poll(t) => StrobeIntact'
             /\ SendByte(t) \/ TakeLcd(t) \/ GiveLcd(t) => StrobeIntact'
             /\ Data(t) \/ Rise(t) \/ Fall(t) => StrobeIntact'
  <2> USE DEF Goto, HoldsBus, display
  <2>1. ASSUME SetLevel(t) \/ TakeIo(t) \/ Load(t) \/ Store(t) \/ Commit(t) \/ TakeBus(t)
        PROVE  StrobeIntact'
    BY <2>1 DEF SetLevel, TakeIo, Load, Store, Commit, TakeBus
  <2>2. ASSUME \/ Write(t) \/ GiveBus(t) \/ GiveIo(t)
               \/ GetLevel(t) \/ AskIo(t) \/ ReadByte(t) \/ Poll(t)
        PROVE  StrobeIntact'
    BY <2>2 DEF Write, GiveBus, GiveIo, GetLevel, AskIo, ReadByte, Poll
  <2>3. ASSUME SendByte(t) \/ TakeLcd(t) PROVE StrobeIntact'
    BY <2>3 DEF SendByte, TakeLcd
  <2>4. ASSUME GiveLcd(t) PROVE StrobeIntact'
    BY <2>4 DEF GiveLcd
  <2>5. ASSUME Data(t) \/ Fall(t) PROVE StrobeIntact'
    BY <2>5 DEF Data, Fall, Transfer
  <2>6. ASSUME Rise(t) PROVE StrobeIntact'
    <3>1. \A u \in Tasks \ {t} : pc'[u] # "fall"
      BY <2>6 DEF Rise, Transfer
    <3>2. pc'[t] = "fall" => lines' = [en |-> TRUE, nib |-> Nibble(t)]
      BY <2>6 DEF Rise, Transfer, Drive
    <3> QED  BY <2>6, <3>1, <3>2 DEF Rise, Transfer
  <2> QED  BY <2>1, <2>2, <2>3, <2>4, <2>5, <2>6
<1> QED  BY <1>1, <1>2, StepCases

LEMMA InvInit == Init => MutexInv /\ PinInv /\ StrobeIntact
BY IoBusAssumption DEF Init, MutexInv, PinInv, StrobeIntact, HoldsIo, HoldsBus

\* No call of io_expander_set_level is lost: while nobody holds io_mutex the shadow
\* register is what the calls so far, in the order of their updates, have asked for.
THEOREM NoLostCall == Spec => []LastCallWins
<1>1. TypeOK /\ MutexInv /\ PinInv /\ [Next]_vars => MutexInv' /\ PinInv'
  BY MutexStep, PinStep
<1>2. PinInv => LastCallWins
  BY DEF PinInv, LastCallWins
<1> QED  BY <1>1, <1>2, InvInit, TypeInvariant, PTL DEF Spec

\* After a write that succeeded the outputs are the shadow register, whatever writes
\* failed before and whatever other tasks do on the bus.
THEOREM PortIsShadow == Spec => []PortFollowsShadow
<1>1. TypeOK /\ MutexInv /\ PinInv /\ [Next]_vars => MutexInv' /\ PinInv'
  BY MutexStep, PinStep
<1>2. TypeOK /\ MutexInv /\ PinInv => PortFollowsShadow
  BY IoBusAssumption DEF MutexInv, PinInv, PortFollowsShadow, HoldsIo
<1> QED  BY <1>1, <1>2, InvInit, TypeInvariant, PTL DEF Spec

\* The three transfers of a nibble are never taken apart by another task's, even though a
\* transfer may fail anywhere.
THEOREM NibbleUndisturbed == Spec => []StrobeIntact
<1>1. TypeOK /\ MutexInv /\ StrobeIntact /\ [Next]_vars => MutexInv' /\ StrobeIntact'
  BY MutexStep, StrobeStep
<1> QED  BY <1>1, InvInit, TypeInvariant, PTL DEF Spec

--------------------------------------------------------------------------------
(* The two mutexes, for any number of tasks.                                       *)

\* A task waits for a mutex that is held.
Blocked(t) == \/ pc[t] \in {"takeIo", "askIo"} /\ io # None
              \/ pc[t] \in {"takeBus", "takeLcd"} /\ bus # None

SomebodyGoesOn ==
  (\E t \in Tasks : pc[t] # "idle") => \E t \in Tasks : pc[t] # "idle" /\ ~Blocked(t)

\* Tasks never wait for each other in a circle: whoever holds io_mutex waits at most for
\* the bus mutex, and whoever holds that one waits for nobody, on the error paths too.
THEOREM NoDeadlock == Spec => []SomebodyGoesOn
<1>1. TypeOK => SomebodyGoesOn
  <2> SUFFICES ASSUME TypeOK, NEW t \in Tasks, pc[t] # "idle"
               PROVE  \E u \in Tasks : pc[u] # "idle" /\ ~Blocked(u)
    BY DEF SomebodyGoesOn
  <2>1. CASE bus # None
    <3>1. bus \in Tasks /\ pc[bus] \in HoldsBus BY <2>1 DEF TypeOK
    <3> QED BY <3>1 DEF HoldsBus, Blocked
  <2>2. CASE bus = None /\ io # None
    <3>1. io \in Tasks /\ pc[io] \in HoldsIo BY <2>2 DEF TypeOK
    <3> QED BY <2>2, <3>1 DEF HoldsIo, Blocked
  <2>3. CASE bus = None /\ io = None BY <2>3 DEF Blocked
  <2> QED BY <2>1, <2>2, <2>3
<1> QED BY <1>1, TypeInvariant, PTL

--------------------------------------------------------------------------------
(* The nibbles.  Another task's nibble may fall between the two of a byte, so the    *)
(* display waits for a second half whenever an odd number of bytes is half sent.     *)

\* The tasks whose byte the display has one nibble of.
HalfSent == {t \in Tasks : \/ nibble[t] = "high" /\ pc[t] = "giveLcd"
                           \/ nibble[t] = "low" /\ pc[t] \in {"takeLcd", "data", "rise", "fall"}}

Sending == {"takeLcd", "data", "rise", "fall", "giveLcd", "abort"}

Even(n) == n % 2 = 0

\* While no transfer has failed, EN is up only between a task's raising and lowering it.
PairInv ==
  /\ IsFiniteSet(HalfSent)
  /\ \A t \in Tasks : /\ pc[t] = "abort" => failed
                      /\ pc[t] \notin Sending => nibble[t] = "high"
  /\ ~failed => /\ lines.en => \E t \in Tasks : pc[t] = "fall"
                /\ (half = NoNibble <=> Even(Cardinality(HalfSent)))

LEMMA OneMore ==
  ASSUME NEW S, IsFiniteSet(S), NEW x
  PROVE  /\ IsFiniteSet(S \cup {x}) /\ IsFiniteSet(S \ {x})
         /\ x \notin S => (Even(Cardinality(S \cup {x})) <=> ~Even(Cardinality(S)))
         /\ x \in S => (Even(Cardinality(S \ {x})) <=> ~Even(Cardinality(S)))
<1>1. Cardinality(S) \in Nat /\ Cardinality(S \ {x}) \in Nat
  BY FS_RemoveElement, FS_CardinalityType
<1>2. \A n \in Nat : Even(n + 1) <=> ~Even(n) BY DEF Even
<1>3. x \notin S => Cardinality(S \cup {x}) = Cardinality(S) + 1 BY FS_AddElement
<1>4. x \in S => Cardinality(S) = Cardinality(S \ {x}) + 1
  BY <1>1, FS_RemoveElement
<1>5. IsFiniteSet(S \cup {x}) /\ IsFiniteSet(S \ {x}) BY FS_AddElement, FS_RemoveElement
<1> QED BY <1>1, <1>2, <1>3, <1>4, <1>5

\* A step of task t adds it to the half sent bytes, takes it away, or leaves them as they
\* are.
LEMMA HalfSentMoves ==
  ASSUME NEW t \in Tasks, PairInv,
         \A u \in Tasks \ {t} : pc'[u] = pc[u] /\ nibble'[u] = nibble[u]
  PROVE  /\ IsFiniteSet(HalfSent')
         /\ (t \in HalfSent' <=> t \in HalfSent) => HalfSent' = HalfSent
         /\ (t \in HalfSent' <=> t \notin HalfSent) =>
              (Even(Cardinality(HalfSent')) <=> ~Even(Cardinality(HalfSent)))
<1>1. \A u \in Tasks \ {t} : u \in HalfSent' <=> u \in HalfSent BY DEF HalfSent
<1>2. HalfSent \subseteq Tasks /\ HalfSent' \subseteq Tasks BY DEF HalfSent
<1>3. IsFiniteSet(HalfSent) BY DEF PairInv
<1>4. CASE t \in HalfSent' <=> t \in HalfSent
  <2>1. HalfSent' = HalfSent BY <1>1, <1>2, <1>4
  <2> QED BY <1>3, <1>4, <2>1
<1>5. CASE t \in HalfSent' /\ t \notin HalfSent
  <2>1. HalfSent' = HalfSent \cup {t} BY <1>1, <1>2, <1>5
  <2> QED BY <1>3, <1>5, <2>1, OneMore
<1>6. CASE t \notin HalfSent' /\ t \in HalfSent
  <2>1. HalfSent' = HalfSent \ {t} BY <1>1, <1>2, <1>6
  <2> QED BY <1>3, <1>6, <2>1, OneMore
<1> QED BY <1>4, <1>5, <1>6

\* A step that leaves the display and the half sent bytes alone.
LEMMA PairKept ==
  ASSUME TypeOK, PairInv, NEW t \in Tasks, NEW to \in PcNames \ {"fall", "abort"},
         pc' = [pc EXCEPT ![t] = to], pc[t] # "fall",
         \A u \in Tasks \ {t} : nibble'[u] = nibble[u],
         UNCHANGED <<lines, half, failed>>,
         t \in HalfSent' <=> t \in HalfSent,
         to \notin Sending => nibble'[t] = "high"
  PROVE  PairInv'
<1>1. \A u \in Tasks \ {t} : pc'[u] = pc[u] BY DEF TypeOK
<1>2. pc'[t] = to BY DEF TypeOK
<1>3. IsFiniteSet(HalfSent') /\ HalfSent' = HalfSent BY <1>1, HalfSentMoves
<1>4. \A u \in Tasks : pc[u] = "fall" => pc'[u] = "fall" BY <1>1
<1> QED BY <1>1, <1>2, <1>3, <1>4 DEF PairInv, NoNibble

\* A transfer: it fails, or it leaves EN as the next one expects it, and the fall of EN
\* latches the nibble.
LEMMA PairTransfer ==
  ASSUME TypeOK, MutexInv, StrobeIntact, PairInv, NEW t \in Tasks,
         Data(t) \/ Rise(t) \/ Fall(t)
  PROVE  PairInv'
<1>1. PICK from \in {"data", "rise", "fall"}, to \in {"rise", "fall", "giveLcd"},
           en \in BOOLEAN :
        /\ <<from, to, en>> \in {<<"data", "rise", FALSE>>, <<"rise", "fall", TRUE>>,
                                 <<"fall", "giveLcd", FALSE>>}
        /\ Transfer(t, from, to, en)
  BY DEF Data, Rise, Fall
<1>2. /\ pc[t] = from /\ UNCHANGED nibble
      /\ \A u \in Tasks \ {t} : pc'[u] = pc[u] /\ nibble'[u] = nibble[u]
      /\ \/ pc'[t] = to /\ Drive(en, Nibble(t)) /\ UNCHANGED failed
         \/ pc'[t] = "abort" /\ failed'
  BY <1>1 DEF Transfer, Goto, TypeOK
<1>3. /\ IsFiniteSet(HalfSent')
      /\ (t \in HalfSent' <=> t \in HalfSent) => HalfSent' = HalfSent
      /\ (t \in HalfSent' <=> t \notin HalfSent) =>
           (Even(Cardinality(HalfSent')) <=> ~Even(Cardinality(HalfSent)))
  BY <1>2, HalfSentMoves
<1>4. \A u \in Tasks : /\ pc'[u] = "abort" => failed'
                       /\ pc'[u] \notin Sending => nibble'[u] = "high"
  BY <1>1, <1>2 DEF PairInv, Sending, Transfer
<1>5. CASE failed' BY <1>3, <1>4, <1>5 DEF PairInv
<1>6. CASE ~failed'
  <2>1. pc'[t] = to /\ Drive(en, Nibble(t)) /\ ~failed BY <1>2, <1>6
  <2>2. lines' = [en |-> en, nib |-> Nibble(t)] BY <2>1 DEF Drive
  <2>3. CASE from = "fall"
    <3>1. lines.en BY <1>2, <2>3 DEF StrobeIntact
    <3>2. half' = (IF half = NoNibble THEN Nibble(t) ELSE NoNibble) /\ ~lines'.en
      BY <1>1, <2>1, <2>2, <2>3, <3>1 DEF Drive
    <3>3. Nibble(t) # NoNibble BY IoBusAssumption DEF Nibble, NoNibble
    <3>4. half' = NoNibble <=> half # NoNibble BY <3>2, <3>3
    <3>5. t \in HalfSent' <=> t \notin HalfSent
      BY <1>1, <1>2, <2>1, <2>3 DEF HalfSent, TypeOK
    <3> QED BY <1>3, <1>4, <2>1, <3>2, <3>4, <3>5 DEF PairInv, NoNibble
  <2>4. CASE from # "fall"
    <3>1. \A u \in Tasks : pc[u] # "fall"
      BY <1>1, <1>2, <2>4 DEF MutexInv, HoldsBus
    <3>2. ~lines.en BY <2>1, <3>1 DEF PairInv
    <3>3. UNCHANGED half BY <2>1, <3>2 DEF Drive
    <3>4. t \in HalfSent' <=> t \in HalfSent
      BY <1>1, <1>2, <2>1, <2>4 DEF HalfSent, TypeOK
    <3>5. lines'.en => pc'[t] = "fall" BY <1>1, <2>1, <2>2, <2>4
    <3> QED BY <1>3, <1>4, <2>1, <3>3, <3>4, <3>5 DEF PairInv, NoNibble
  <2> QED BY <2>3, <2>4
<1> QED BY <1>5, <1>6

LEMMA PairStep ==
  ASSUME TypeOK, MutexInv, StrobeIntact, PairInv, [Next]_vars
  PROVE  PairInv'
<1>1. CASE UNCHANGED vars
  BY <1>1 DEF vars, display, PairInv, HalfSent, NoNibble
<1>2. ASSUME NEW t \in Tasks
      PROVE  /\ SetLevel(t) \/ TakeIo(t) \/ Load(t) \/ Store(t) \/ Commit(t) => PairInv'
             /\ TakeBus(t) \/ Write(t) \/ GiveBus(t) \/ GiveIo(t) => PairInv'
             /\ GetLevel(t) \/ AskIo(t) \/ ReadByte(t) \/ Poll(t) => PairInv'
             /\ SendByte(t) \/ TakeLcd(t) \/ GiveLcd(t) => PairInv'
             /\ Data(t) \/ Rise(t) \/ Fall(t) => PairInv'
  <2>1. ASSUME NEW from \in {"idle", "poll", "takeIo", "askIo"} \cup HoldsIo,
               NEW to \in {"idle", "poll", "takeIo", "askIo"} \cup HoldsIo,
               Goto(t, from, to), UNCHANGED display
        PROVE  PairInv'
    <3>1. /\ pc[t] = from /\ pc' = [pc EXCEPT ![t] = to] /\ pc'[t] = to
          /\ UNCHANGED <<nibble, lines, half, failed>>
      BY <2>1 DEF Goto, display, TypeOK
    <3>2. /\ from \notin Sending /\ to \notin Sending /\ to \in PcNames \ {"fall", "abort"}
      BY <2>1 DEF HoldsIo, Sending, PcNames
    <3>3. t \notin HalfSent /\ t \notin HalfSent' BY <3>1, <3>2 DEF HalfSent, Sending
    <3>4. nibble'[t] = "high" /\ from # "fall" BY <3>1, <3>2 DEF PairInv, Sending
    <3> QED BY <3>1, <3>2, <3>3, <3>4, PairKept
  <2>2. ASSUME SetLevel(t) \/ TakeIo(t) \/ Load(t) \/ Store(t) \/ Commit(t) PROVE PairInv'
    BY <2>1, <2>2 DEF SetLevel, TakeIo, Load, Store, Commit, HoldsIo
  <2>3. ASSUME TakeBus(t) \/ Write(t) \/ GiveBus(t) \/ GiveIo(t) PROVE PairInv'
    BY <2>1, <2>3 DEF TakeBus, Write, GiveBus, GiveIo, HoldsIo
  <2>4. ASSUME GetLevel(t) \/ AskIo(t) \/ ReadByte(t) \/ Poll(t) PROVE PairInv'
    BY <2>1, <2>4 DEF GetLevel, AskIo, ReadByte, Poll, HoldsIo
  <2>5. ASSUME SendByte(t) \/ TakeLcd(t) PROVE PairInv'
    <3>1. PICK to \in {"takeLcd", "data"} :
            /\ Goto(t, IF to = "data" THEN "takeLcd" ELSE "idle", to)
            /\ UNCHANGED display
      BY <2>5 DEF SendByte, TakeLcd
    <3>2. /\ pc[t] = IF to = "data" THEN "takeLcd" ELSE "idle"
          /\ pc' = [pc EXCEPT ![t] = to] /\ pc'[t] = to
          /\ UNCHANGED <<nibble, lines, half, failed>>
      BY <3>1 DEF Goto, display, TypeOK
    <3>3. t \in HalfSent' <=> t \in HalfSent
      BY <3>2 DEF PairInv, HalfSent, Sending
    <3>4. to \in PcNames \ {"fall", "abort"} /\ to \in Sending /\ pc[t] # "fall"
      BY <3>2 DEF PcNames, HoldsBus, Sending
    <3> QED BY <3>2, <3>3, <3>4, PairKept
  <2>6. ASSUME GiveLcd(t) PROVE PairInv'
    <3>1. PICK to \in {"takeLcd", "idle"} :
            /\ pc[t] \in {"giveLcd", "abort"} /\ pc' = [pc EXCEPT ![t] = to]
            /\ nibble' = [nibble EXCEPT ![t] = IF to = "takeLcd" THEN "low" ELSE "high"]
            /\ pc[t] = "giveLcd" => (nibble[t] = "high" <=> to = "takeLcd")
            /\ pc[t] = "abort" => to = "idle"
            /\ UNCHANGED <<lines, half, failed>>
      BY <2>6 DEF GiveLcd, Goto
    <3>2. /\ pc'[t] = to /\ nibble'[t] = IF to = "takeLcd" THEN "low" ELSE "high"
          /\ \A u \in Tasks \ {t} : nibble'[u] = nibble[u]
      BY <3>1 DEF TypeOK
    <3>3. t \in HalfSent' <=> t \in HalfSent
      BY <3>1, <3>2 DEF HalfSent, TypeOK
    <3>4. to \in PcNames \ {"fall", "abort"} /\ pc[t] # "fall"
      BY <3>1 DEF PcNames, HoldsBus
    <3>5. to \notin Sending => nibble'[t] = "high" BY <3>2 DEF Sending
    <3> QED BY <3>1, <3>2, <3>3, <3>4, <3>5, PairKept
  <2> QED BY <2>2, <2>3, <2>4, <2>5, <2>6, PairTransfer
<1> QED BY <1>1, <1>2, StepCases

\* While no transfer fails the display does not lose count of the nibbles, for any number
\* of tasks that send bytes at the same time: with nobody at work it waits for the first
\* half of a byte.
THEOREM CountKept == Spec => []NibblesPaired
<1>1. Init => PairInv
  <2> SUFFICES ASSUME Init PROVE PairInv OBVIOUS
  <2>1. HalfSent = {} BY DEF Init, HalfSent
  <2>2. IsFiniteSet(HalfSent) /\ Even(Cardinality(HalfSent)) BY <2>1, FS_EmptySet DEF Even
  <2> QED BY <2>2 DEF Init, PairInv
<1>2. PairInv => NibblesPaired
  <2> SUFFICES ASSUME PairInv, \A t \in Tasks : pc[t] = "idle", ~failed
               PROVE  half = NoNibble
    BY DEF NibblesPaired
  <2>1. HalfSent = {} BY DEF HalfSent
  <2>2. Even(Cardinality(HalfSent)) BY <2>1, FS_EmptySet DEF Even
  <2> QED BY <2>2 DEF PairInv
<1>3. /\ TypeOK /\ MutexInv /\ StrobeIntact /\ PairInv /\ [Next]_vars
           => MutexInv' /\ StrobeIntact' /\ PairInv'
  BY MutexStep, StrobeStep, PairStep
<1> QED BY <1>1, <1>2, <1>3, InvInit, TypeInvariant, PTL DEF Spec
================================================================================
