------------------------------ MODULE FirmwareProofs -----------------------------
(* The carousel keeps its promise for every blocking task that follows the order    *)
(* of ui_manager_suspend and ui_manager_resume; an update is such a task, leaves an *)
(* image to start at every moment, and undoes what it began when it fails.         *)
(* And the application's search for the firmware it uploads: the cached release     *)
(* belongs to the ETag.  The two share no variable and are proved side by side.     *)
EXTENDS OtaUpdate, ReleaseCheck, TLAPS

--------------------------------------------------------------------------------
(* The carousel, whatever the blocking task is.                                  *)

\* Until somebody who has changed the mode, or is about to resume, has sent the command,
\* the timer may be still; nobody else leaves it so in auto mode.
CarouselInv ==
  /\ created <=> mpc # "boot"
  /\ ipc # "idle" => created
  /\ created /\ autoMode /\ ipc # "timer" /\ bpc \in {"free", "render"}
       => carousel \/ dropped

UiInv == UiTypeOK /\ CarouselInv

LEMMA UiInvInit == UiInit => UiInv
BY DEF UiInit, UiInv, UiTypeOK, CarouselInv

LEMMA UiInvNext == UiInv /\ [UiNext]_uiVars => UiInv'
<1> SUFFICES ASSUME UiTypeOK, CarouselInv, [UiNext]_uiVars
             PROVE  UiTypeOK' /\ CarouselInv'
    BY DEF UiInv
<1> USE DEF UiTypeOK, CarouselInv, pageVars, timerVars
<1>1. CASE Tick
    BY <1>1 DEF Tick
<1>2. CASE TickRender
    BY <1>2 DEF TickRender
<1>3. CASE InitTimer
    BY <1>3 DEF InitTimer, TimerCommand
<1>4. CASE InitRender
    BY <1>4 DEF InitRender
<1>5. CASE SwitchMode
    BY <1>5 DEF SwitchMode
<1>6. CASE Toggle
    BY <1>6 DEF Toggle
<1>7. CASE SwitchTimer
    BY <1>7 DEF SwitchTimer, TimerCommand
<1>8. CASE ManualMode
    BY <1>8 DEF ManualMode
<1>9. CASE ManualRender
    BY <1>9 DEF ManualRender
<1>10. CASE ManualReset
    BY <1>10 DEF ManualReset, TimerCommand
<1>11. CASE Suspend
    BY <1>11 DEF Suspend
<1>12. CASE SuspendTimer
    BY <1>12 DEF SuspendTimer, TimerCommand
<1>13. CASE DrawProgress
    BY <1>13 DEF DrawProgress
<1>14. CASE Resume
    BY <1>14 DEF Resume
<1>15. CASE ResumeTimer
    BY <1>15 DEF ResumeTimer, TimerStarted, TimerCommand
<1>16. CASE ResumeRender
    BY <1>16 DEF ResumeRender
<1>17. CASE UiReset
    BY <1>17 DEF UiReset
<1>18. CASE UNCHANGED uiVars
    BY <1>18 DEF uiVars
<1>19. QED
    BY <1>1, <1>2, <1>3, <1>4, <1>5, <1>6, <1>7, <1>8, <1>9, <1>10, <1>11, <1>12, <1>13,
       <1>14, <1>15, <1>16, <1>17, <1>18 DEF UiNext, Carousel

LEMMA UiInvariant == UiSpec => []UiInv
BY UiInvInit, UiInvNext, PTL DEF UiSpec

\* ui_manager.c: with any blocking task, in auto mode the pages change by themselves when
\* nobody is in the middle of a change of mode or of a resume.
THEOREM CarouselGoesOn == UiSpec => []CarouselRuns
<1>1. UiInv => CarouselRuns
    BY DEF UiInv, UiTypeOK, CarouselInv, CarouselRuns
<1>2. QED
    BY <1>1, UiInvariant, PTL

--------------------------------------------------------------------------------
(* An update is a blocking task.                                                 *)

LEMMA UploadStep == Upload => UiNext \/ UNCHANGED uiVars
<1> SUFFICES ASSUME Upload PROVE UiNext \/ UNCHANGED uiVars
    OBVIOUS
<1> USE DEF UiNext
<1>1. CASE Begin \/ FinishSuspend
    BY <1>1 DEF Begin, FinishSuspend
<1>2. CASE Refuse \/ LastChunk \/ ReceiveFails \/ WriteFails \/ OtaEnd
    BY <1>2 DEF Refuse, LastChunk, ReceiveFails, WriteFails, OtaEnd
<1>3. CASE OtaBegin \/ Chunk \/ CreateTask
    BY <1>3 DEF OtaBegin, Chunk, CreateTask
<1>4. CASE SetBootPartition \/ CloseHandle
    BY <1>4 DEF SetBootPartition, CloseHandle
<1>5. CASE Fail \/ FinishResume
    BY <1>5 DEF Fail, ResumeFirst, FinishResume
<1>6. QED
    BY <1>1, <1>2, <1>3, <1>4, <1>5 DEF Upload

\* app_api_ota_update suspends and resumes the carousel in the order UiManager asks of a
\* blocking task, on every path.
THEOREM Refinement == Spec => UsesUiManager
<1>1. Init => UiInit
    BY DEF Init
<1>2. [Next]_vars => [UiNext]_uiVars
  <2> SUFFICES ASSUME [Next]_vars PROVE UiNext \/ UNCHANGED uiVars
      OBVIOUS
  <2>1. CASE Carousel /\ UNCHANGED otaVars
      BY <2>1 DEF UiNext
  <2>2. CASE Reboot \/ PowerFailure
      BY <2>2 DEF Reboot, PowerFailure, Restart, UiNext
  <2>3. CASE UNCHANGED vars
      BY <2>3 DEF vars
  <2>4. QED
      BY <2>1, <2>2, <2>3, UploadStep DEF Next
<1>3. QED
    BY <1>1, <1>2, PTL DEF Spec, UsesUiManager, UiSpec

\* Uploads, their failures and the mode button leave no carousel that stands still.
THEOREM CarouselWithUpdates == Spec => []CarouselRuns
BY CarouselGoesOn, Refinement, PTL DEF UsesUiManager

--------------------------------------------------------------------------------
(* What an update leaves behind.                                                 *)

LEMMA OtherSlot == ASSUME running \in Slots
                   PROVE  /\ UpdateSlot \in Slots
                          /\ UpdateSlot # running
BY DEF UpdateSlot, Slots

LEMMA BootsComplete == ASSUME NEW s \in Slots, image[s], selected \in Slots
                       PROVE  BootFrom \in Slots /\ image[BootFrom]
<1> DEFINE chosen == CHOOSE r \in Slots : image[r]
<1>1. chosen \in Slots /\ image[chosen]
    OBVIOUS
<1>2. QED
    BY <1>1 DEF BootFrom

\* The handler and the carousel go together: where the handler is in an update, the
\* blocking task has suspended or resumed accordingly, and only there a handle is open.
OrderInv ==
  /\ hpc = "idle" => bpc \in {"free", "exclusive"}
  /\ hpc = "close" => bpc = "free"
  /\ hpc = "check" => bpc \in {"stopTimer", "exclusive"}
  /\ hpc \in {"receive", "end", "select", "task"} => bpc = "exclusive"
  /\ hpc \in {"fail", "failOpen"} => bpc \in {"exclusive", "startTimer", "render"}
  /\ bpc \in {"free", "startTimer", "render"} => ~suspended
  /\ handle => hpc \in {"receive", "end", "failOpen", "close"}
  /\ ResumedAfterFailure

\* An image that is about to be selected has been checked, and the slot that is written
\* is the selected one only when `again` tells so.
ImagesInv == /\ RunningImageComplete
             /\ SelectedImageComplete
             /\ hpc = "select" => image[UpdateSlot]

IInv == UiInv /\ TypeOK /\ OrderInv /\ ImagesInv

LEMMA InvInit == Init => IInv
<1> SUFFICES ASSUME Init PROVE IInv
    OBVIOUS
<1>1. UiInv
    BY UiInvInit DEF Init
<1>2. TypeOK
    BY <1>1 DEF Init, TypeOK, UiInv, UiInit, Slots
<1>3. OrderInv /\ ImagesInv
    BY DEF Init, UiInit, OrderInv, ImagesInv, Slots, ResumedAfterFailure,
           RunningImageComplete, SelectedImageComplete
<1>4. QED
    BY <1>1, <1>2, <1>3 DEF IInv

LEMMA UiInvKept == IInv /\ [Next]_vars => UiInv'
<1> SUFFICES ASSUME IInv, [Next]_vars PROVE UiInv'
    OBVIOUS
<1>1. [UiNext]_uiVars
    BY UploadStep DEF Next, UiNext, Reboot, PowerFailure, Restart, vars
<1>2. QED
    BY <1>1, UiInvNext DEF IInv

LEMMA InvNext == IInv /\ [Next]_vars => IInv'
<1> SUFFICES ASSUME IInv, [Next]_vars PROVE IInv'
    OBVIOUS
<1>1. UiInv'
    BY UiInvKept
<1>2. UiTypeOK /\ TypeOK /\ OrderInv /\ ImagesInv
    BY DEF IInv, UiInv
<1>3. UiTypeOK'
    BY <1>1 DEF UiInv
<1> SUFFICES TypeOK' /\ OrderInv' /\ ImagesInv'
    BY <1>1 DEF IInv
<1> USE <1>2, <1>3, OtherSlot
    DEF TypeOK, UiTypeOK, OrderInv, ImagesInv, ResumedAfterFailure, RunningImageComplete,
        SelectedImageComplete, flashVars
<1>4. CASE Begin
    BY <1>4 DEF Begin, Suspend, UpdateSlot
<1>5. CASE FinishSuspend
    BY <1>5 DEF FinishSuspend, SuspendTimer, otaVars, UpdateSlot
<1>6. CASE Refuse \/ LastChunk \/ ReceiveFails \/ WriteFails
  <2>1. UNCHANGED <<bpc, suspended, rebooting, noTask, flashVars, again>>
      BY <1>6 DEF Refuse, LastChunk, ReceiveFails, WriteFails, uiVars
  <2>2. CASE Refuse
      BY <2>1, <2>2 DEF Refuse, UpdateSlot
  <2>3. CASE LastChunk
      BY <2>1, <2>3 DEF LastChunk, UpdateSlot
  <2>4. CASE ReceiveFails
      BY <2>1, <2>4 DEF ReceiveFails, UpdateSlot
  <2>5. CASE WriteFails
    <3>1. hpc' = "fail" /\ handle' = FALSE /\ hpc = "receive"
        BY <2>5 DEF WriteFails, Closed
    <3>2. QED
        BY <2>1, <3>1 DEF UpdateSlot
  <2>6. QED
      BY <1>6, <2>2, <2>3, <2>4, <2>5
<1>7. CASE OtaBegin
  <2>1. UNCHANGED <<running, selected, suspended, bpc>> /\ handle' /\ hpc' = "receive"
        /\ bpc = "exclusive"
      BY <1>7 DEF OtaBegin, DrawProgress
  <2>2. TypeOK' /\ OrderInv'
      BY <1>7, <2>1 DEF OtaBegin
  <2>3. ImagesInv'
      BY <1>7, <2>1 DEF OtaBegin, Slots
  <2>4. QED
      BY <2>2, <2>3
<1>8. CASE Chunk
    BY <1>8 DEF Chunk, DrawProgress, otaVars, UpdateSlot
<1>9. CASE OtaEnd
    BY <1>9 DEF OtaEnd, Rejected, uiVars, UpdateSlot
<1>10. CASE SetBootPartition
    BY <1>10 DEF SetBootPartition, uiVars, UpdateSlot
<1>11. CASE CreateTask
    BY <1>11 DEF CreateTask, DrawProgress, UpdateSlot
<1>12. CASE Fail
    BY <1>12 DEF Fail, ResumeFirst, Resume, UpdateSlot
<1>13. CASE FinishResume
    BY <1>13 DEF FinishResume, AfterResume, ResumeTimer, ResumeRender, UpdateSlot
<1>14. CASE CloseHandle
    BY <1>14 DEF CloseHandle, uiVars, UpdateSlot
<1>15. CASE Carousel /\ UNCHANGED otaVars
  <2>1. UNCHANGED <<bpc, suspended>>
      BY <1>15 DEF Carousel, Tick, TickRender, InitTimer, InitRender, SwitchMode, Toggle,
                   SwitchTimer, ManualMode, ManualRender, ManualReset
  <2>2. QED
      BY <1>15, <2>1 DEF otaVars, UpdateSlot
<1>16. CASE Reboot \/ PowerFailure
  <2>1. BootFrom \in Slots /\ image[BootFrom]
      BY BootsComplete
  <2>2. QED
      BY <1>16, <2>1 DEF Reboot, PowerFailure, Restart, UiReset
<1>17. CASE UNCHANGED vars
    BY <1>17 DEF vars, uiVars, otaVars, UpdateSlot
<1>18. QED
    BY <1>4, <1>5, <1>6, <1>7, <1>8, <1>9, <1>10, <1>11, <1>12, <1>13, <1>14, <1>15,
       <1>16, <1>17 DEF Next, Upload

LEMMA Invariant == Spec => []IInv
BY InvInit, InvNext, PTL DEF Spec

\* Every variable of an upload keeps its range, and the carousel runs freely only while
\* no upload is under way.
THEOREM TypeInvariant == Spec => []TypeOK
BY Invariant, PTL DEF IInv

\* esp_ota_begin never erases the partition the firmware runs from.
THEOREM RunsFromComplete == Spec => []RunningImageComplete
BY Invariant, PTL DEF IInv, ImagesInv

\* Whenever the power fails, the selected partition can be started, unless another upload
\* is erasing it.
THEOREM BootsFromComplete == Spec => []SelectedImageComplete
BY Invariant, PTL DEF IInv, ImagesInv

\* No error path of app_api_ota_update forgets ui_manager_resume.
THEOREM Resumes == Spec => []ResumedAfterFailure
BY Invariant, PTL DEF IInv, OrderInv

\* No path of app_api_ota_update keeps the update handle.
THEOREM ClosesHandle == Spec => []HandleClosed
<1>1. IInv => HandleClosed
    BY DEF IInv, OrderInv, HandleClosed
<1>2. QED
    BY <1>1, Invariant, PTL

--------------------------------------------------------------------------------
(* The release check, for any number of releases and of manual checks at the same  *)
(* time: the cached release belongs to the ETag, unless answers overlapped or one  *)
(* was not parsed.                                                               *)

\* Without an overlap the one answer that is being parsed is what the ETag stands for.
ParseInv ==
  ~broken => \A j \in Jobs : stage[j] = "parse" =>
               /\ found[j] = lastETag
               /\ \A k \in Jobs \ {j} : stage[k] # "parse"

\* Whoever was given a release has one.
GotInv == \A j \in Threads : stage[j] \in {"fresh", "parse", "got"} => found[j] # None

Inv == RelTypeOK /\ ParseInv /\ GotInv /\ CacheBelongsToTag

\* A thread goes on, and the others stay where they are.
LEMMA Going ==
  ASSUME RelTypeOK, NEW j \in Threads, NEW to \in Stages, NEW release \in Maybe,
         Goes(j, to, release)
  PROVE  /\ stage' \in [Threads -> Stages] /\ found' \in [Threads -> Maybe]
         /\ stage'[j] = to /\ found'[j] = release
         /\ \A k \in Threads \ {j} : stage'[k] = stage[k] /\ found'[k] = found[k]
  BY DEF Goes, RelTypeOK

\* What a step needs that neither starts nor ends the parsing of an answer.
LEMMA NoParse ==
  ASSUME Inv, NEW j \in Threads, NEW to \in Stages \ {"parse"}, NEW release \in Maybe,
         Goes(j, to, release), stage[j] # "parse",
         to \in {"fresh", "got"} => release # None,
         UNCHANGED cacheVars
  PROVE  /\ stage' \in [Threads -> Stages] /\ found' \in [Threads -> Maybe]
         /\ ParseInv' /\ GotInv' /\ CacheBelongsToTag'
<1>0. RelTypeOK BY DEF Inv
<1>1. /\ stage' \in [Threads -> Stages] /\ found' \in [Threads -> Maybe]
      /\ stage'[j] = to /\ found'[j] = release
      /\ \A k \in Threads \ {j} : stage'[k] = stage[k] /\ found'[k] = found[k]
  BY <1>0, Going
<1>2. \A k \in Jobs : /\ stage'[k] = "parse" <=> stage[k] = "parse"
                      /\ stage'[k] = "parse" => found'[k] = found[k]
  BY <1>1 DEF Threads
<1>3. UNCHANGED <<lastETag, cachedRelease, broken>> BY DEF cacheVars
<1>4. ParseInv' BY <1>2, <1>3 DEF Inv, ParseInv
<1>5. CacheBelongsToTag' BY <1>2, <1>3 DEF Inv, CacheBelongsToTag
<1>6. GotInv' BY <1>1 DEF Inv, GotInv
<1> QED BY <1>1, <1>4, <1>5, <1>6

\* The threads stay where they are.
LEMMA NoMove ==
  ASSUME Inv, UNCHANGED <<stage, found, cacheVars>>
  PROVE  /\ stage' \in [Threads -> Stages] /\ found' \in [Threads -> Maybe]
         /\ ParseInv' /\ GotInv' /\ CacheBelongsToTag'
  BY DEF Inv, RelTypeOK, cacheVars, ParseInv, GotInv, CacheBelongsToTag

LEMMA InitInv == RelInit => Inv
<1> SUFFICES ASSUME RelInit PROVE Inv
  OBVIOUS
<1>1. None \in Maybe BY ReleaseAssumption DEF None, Maybe
<1>2. RelTypeOK BY <1>1 DEF RelInit, RelTypeOK, Stages
<1>3. ParseInv /\ GotInv /\ CacheBelongsToTag
  BY DEF RelInit, ParseInv, GotInv, CacheBelongsToTag, Threads
<1> QED BY <1>2, <1>3 DEF Inv

LEMMA FetchInv ==
  ASSUME Inv, NEW j \in Threads, Fetch(j)
  PROVE  Inv'
<1>0. /\ RelTypeOK /\ j \in Jobs /\ found[j] \in Maybe /\ None \in Maybe
      /\ published \in Maybe /\ published # None
      /\ cachedRelease \in Maybe /\ AfterException(j) \in {"check", "idle"}
  BY ReleaseAssumption
     DEF Inv, RelTypeOK, Fetch, None, Maybe, Versions, AfterException, Threads
<1>1. CASE Answer(j)
  <2>1. PICK to \in {"same", "fresh", "check", "idle"}, r \in Maybe :
          Goes(j, to, r) /\ (to = "fresh" => r # None)
    BY <1>0, <1>1 DEF Answer
  <2>2. /\ stage[j] = "sent" /\ UNCHANGED <<gitVars, cacheVars, latest, shownVars>>
    BY <1>1 DEF Answer
  <2>3. /\ stage' \in [Threads -> Stages] /\ found' \in [Threads -> Maybe]
        /\ ParseInv' /\ GotInv' /\ CacheBelongsToTag'
    BY <2>1, <2>2, NoParse DEF Stages
  <2> QED BY <1>0, <2>2, <2>3 DEF Inv, RelTypeOK, gitVars, cacheVars, shownVars
<1>2. CASE NotModified(j)
  <2>1. PICK to \in {"got", "check", "idle"}, r \in Maybe :
          Goes(j, to, r) /\ (to = "got" => r # None)
    BY <1>0, <1>2 DEF NotModified, FromCache
  <2>2. /\ stage[j] = "same" /\ UNCHANGED <<gitVars, cacheVars, latest, shownVars>>
    BY <1>2 DEF NotModified
  <2>3. /\ stage' \in [Threads -> Stages] /\ found' \in [Threads -> Maybe]
        /\ ParseInv' /\ GotInv' /\ CacheBelongsToTag'
    BY <2>1, <2>2, NoParse DEF Stages
  <2> QED BY <1>0, <2>2, <2>3 DEF Inv, RelTypeOK, gitVars, cacheVars, shownVars
<1>3. CASE Modified(j)
  <2>1. /\ Goes(j, "parse", found[j]) /\ lastETag' = found[j]
        /\ broken' = \E k \in Jobs \ {j} : stage[k] = "parse"
        /\ UNCHANGED <<gitVars, cachedRelease, latest, shownVars>>
    BY <1>3 DEF Modified
  <2>2. /\ stage' \in [Threads -> Stages] /\ found' \in [Threads -> Maybe]
        /\ stage'[j] = "parse" /\ found'[j] = found[j]
        /\ \A k \in Threads \ {j} : stage'[k] = stage[k] /\ found'[k] = found[k]
    BY <1>0, <2>1, Going DEF Stages
  <2>3. broken' \in BOOLEAN BY <2>1
  <2>4. RelTypeOK'
    BY <1>0, <2>1, <2>2, <2>3 DEF RelTypeOK, gitVars, shownVars
  <2>5. ~broken' => \A k \in Jobs \ {j} : stage'[k] # "parse"
    BY <2>1, <2>2 DEF Threads
  <2>6. ParseInv' BY <2>1, <2>2, <2>5 DEF ParseInv
  <2>7. CacheBelongsToTag' BY <1>0, <2>2 DEF CacheBelongsToTag
  <2>8. GotInv' BY <1>3, <2>2 DEF Modified, Inv, GotInv
  <2> QED BY <2>4, <2>6, <2>7, <2>8 DEF Inv
<1>4. CASE Parse(j)
  <2>0. found[j] # None BY <1>4 DEF Parse, Inv, GotInv
  <2>1. PICK to \in {"got", "check", "idle"}, r \in Maybe :
          Goes(j, to, r) /\ (to = "got" => r # None)
    BY <1>0, <1>4, <2>0 DEF Parse
  <2>2. /\ stage[j] = "parse" /\ UNCHANGED <<gitVars, lastETag, latest, shownVars>>
        /\ \/ cachedRelease' = found[j] /\ UNCHANGED broken
           \/ broken' = TRUE /\ UNCHANGED cachedRelease
    BY <1>4 DEF Parse, ParsedRelease
  <2>3. /\ stage' \in [Threads -> Stages] /\ found' \in [Threads -> Maybe]
        /\ stage'[j] = to /\ to # "parse" /\ found'[j] = r
        /\ \A k \in Threads \ {j} : stage'[k] = stage[k] /\ found'[k] = found[k]
    BY <1>0, <2>1, Going DEF Stages
  <2>4. RelTypeOK' BY <1>0, <2>2, <2>3 DEF RelTypeOK, gitVars, shownVars
  <2>a. GotInv' BY <2>1, <2>3 DEF Inv, GotInv
  <2>5. CASE broken'
    BY <2>4, <2>5, <2>a DEF Inv, ParseInv, CacheBelongsToTag
  <2>6. CASE ~broken'
    <3>1. cachedRelease' = found[j] /\ ~broken BY <2>2, <2>6
    <3>2. found[j] = lastETag /\ \A k \in Jobs \ {j} : stage[k] # "parse"
      BY <1>0, <2>2, <3>1 DEF Inv, ParseInv
    <3>3. \A k \in Jobs : stage'[k] # "parse" BY <2>3, <3>2 DEF Threads
    <3>4. cachedRelease' = lastETag' BY <2>2, <3>1, <3>2
    <3> QED BY <2>4, <2>a, <3>3, <3>4 DEF Inv, ParseInv, CacheBelongsToTag
  <2> QED BY <2>5, <2>6
<1> QED BY <1>1, <1>2, <1>3, <1>4 DEF Fetch

LEMMA CheckInv ==
  ASSUME Inv, NEW j \in Threads, Latest(j) \/ Compare(j) \/ Offer(j)
  PROVE  Inv'
<1>0. /\ RelTypeOK /\ found[j] \in Maybe /\ None \in Maybe /\ latest \in Maybe
      /\ HigherOrNull \in Maybe
  BY ReleaseAssumption DEF Inv, RelTypeOK, None, Maybe, HigherOrNull
<1>1. CASE Latest(j)
  <2>1. /\ Goes(j, "check", None) /\ stage[j] = "got" /\ latest' = found[j]
        /\ UNCHANGED <<gitVars, cacheVars, shownVars>>
    BY <1>1 DEF Latest
  <2>2. /\ stage' \in [Threads -> Stages] /\ found' \in [Threads -> Maybe]
        /\ ParseInv' /\ GotInv' /\ CacheBelongsToTag'
    BY <1>0, <2>1, NoParse DEF Stages
  <2> QED BY <1>0, <2>1, <2>2 DEF Inv, RelTypeOK, gitVars, cacheVars, shownVars
<1>2. CASE Compare(j)
  <2>1. PICK to \in {"idle", "write"}, r \in Maybe : Goes(j, to, r)
    BY <1>0, <1>2 DEF Compare
  <2>2. stage[j] = "check" /\ UNCHANGED <<gitVars, cacheVars, latest, shownVars>>
    BY <1>2 DEF Compare
  <2>3. /\ stage' \in [Threads -> Stages] /\ found' \in [Threads -> Maybe]
        /\ ParseInv' /\ GotInv' /\ CacheBelongsToTag'
    BY <2>1, <2>2, NoParse DEF Stages
  <2> QED BY <1>0, <2>2, <2>3 DEF Inv, RelTypeOK, gitVars, cacheVars, shownVars
<1>3. CASE Offer(j)
  <2>1. /\ Goes(j, "idle", None) /\ stage[j] = "write" /\ banner' = found[j]
        /\ UNCHANGED <<gitVars, cacheVars, latest, deviceVersion, isPaused>>
    BY <1>3 DEF Offer
  <2>2. /\ stage' \in [Threads -> Stages] /\ found' \in [Threads -> Maybe]
        /\ ParseInv' /\ GotInv' /\ CacheBelongsToTag'
    BY <1>0, <2>1, NoParse DEF Stages
  <2> QED BY <1>0, <2>1, <2>2 DEF Inv, RelTypeOK, gitVars, cacheVars
<1> QED BY <1>1, <1>2, <1>3

LEMMA MainInv ==
  ASSUME Inv, PeriodicCheck \/ EndUpdate \/ Main \/ Publish
  PROVE  Inv'
<1>0. /\ RelTypeOK /\ None \in Maybe /\ lastETag \in Maybe
      /\ MaxVersion \in Nat /\ installed \in Maybe
  BY ReleaseAssumption DEF Inv, RelTypeOK, None, Maybe, Versions
<1>1. ASSUME NEW j \in Jobs, stage[j] = "idle", Send(j)
      PROVE  /\ stage' \in [Threads -> Stages] /\ found' \in [Threads -> Maybe]
             /\ ParseInv' /\ GotInv' /\ CacheBelongsToTag'
             /\ UNCHANGED <<gitVars, cacheVars, latest>>
  <2>1. Goes(j, "sent", lastETag) /\ UNCHANGED <<gitVars, cacheVars, latest>>
    BY <1>1 DEF Send
  <2> QED BY <1>0, <1>1, <2>1, NoParse DEF Stages, Threads
<1>2. CASE PeriodicCheck
  <2>1. stage["periodic"] = "idle" /\ Send("periodic") /\ UNCHANGED shownVars
    BY <1>2 DEF PeriodicCheck
  <2> QED BY <1>0, <1>1, <2>1
          DEF Inv, RelTypeOK, gitVars, cacheVars, shownVars, Jobs, Checks
<1>3. CASE ManualCheck
  <2>1. PICK j \in Manual : stage[j] = "idle" /\ Send(j) BY <1>3 DEF ManualCheck
  <2>2. isPaused' = FALSE /\ UNCHANGED <<deviceVersion, banner>> BY <1>3 DEF ManualCheck
  <2> QED BY <1>0, <1>1, <2>1, <2>2 DEF Inv, RelTypeOK, gitVars, cacheVars, Jobs, Checks
<1>4. CASE StartUpdate
  <2>1. /\ stage["download"] = "idle" /\ Send("download")
        /\ banner' = None /\ isPaused' = TRUE /\ UNCHANGED deviceVersion
    BY <1>4 DEF StartUpdate
  <2> QED BY <1>0, <1>1, <2>1 DEF Inv, RelTypeOK, gitVars, cacheVars, Jobs
<1>5. CASE EndUpdate
  <2>1. /\ stage["download"] = "got" /\ Goes("download", "idle", None)
        /\ installed' \in {installed, found["download"]}
        /\ UNCHANGED <<published, cacheVars, latest, shownVars>>
    BY <1>5 DEF EndUpdate
  <2>2. /\ stage' \in [Threads -> Stages] /\ found' \in [Threads -> Maybe]
        /\ ParseInv' /\ GotInv' /\ CacheBelongsToTag'
    BY <1>0, <2>1, NoParse DEF Stages, Threads, Jobs
  <2>3. installed' \in Versions
    BY <1>0, <2>1 DEF Inv, RelTypeOK, GotInv, Threads, Jobs, Maybe, Versions, None
  <2> QED BY <1>0, <2>1, <2>2, <2>3 DEF Inv, RelTypeOK, cacheVars, shownVars
<1>6. CASE DeviceVersion
  <2>1. /\ stage["main"] = "idle" /\ Goes("main", "check", None)
        /\ deviceVersion' = installed
        /\ UNCHANGED <<gitVars, cacheVars, latest, isPaused, banner>>
    BY <1>6 DEF DeviceVersion
  <2>2. /\ stage' \in [Threads -> Stages] /\ found' \in [Threads -> Maybe]
        /\ ParseInv' /\ GotInv' /\ CacheBelongsToTag'
    BY <1>0, <2>1, NoParse DEF Stages, Threads
  <2> QED BY <1>0, <2>1, <2>2 DEF Inv, RelTypeOK, gitVars, cacheVars
<1>7. CASE HideBanner \/ ResumeChecks
  <2>1. /\ banner' \in {banner, None} /\ isPaused' \in {isPaused, FALSE}
        /\ UNCHANGED <<gitVars, cacheVars, latest, deviceVersion, stage, found>>
    BY <1>7 DEF HideBanner, ResumeChecks
  <2>2. ParseInv' /\ GotInv' /\ CacheBelongsToTag' BY <2>1, NoMove
  <2> QED BY <1>0, <2>1, <2>2 DEF Inv, RelTypeOK, gitVars, cacheVars
<1>8. CASE Publish
  <2>1. /\ published < MaxVersion /\ published' = published + 1
        /\ UNCHANGED <<installed, cacheVars, latest, shownVars, stage, found>>
    BY <1>8 DEF Publish
  <2>2. published' \in Versions BY <1>0, <2>1 DEF RelTypeOK, Versions
  <2>3. ParseInv' /\ GotInv' /\ CacheBelongsToTag' BY <2>1, NoMove
  <2> QED BY <1>0, <2>1, <2>2, <2>3 DEF Inv, RelTypeOK, cacheVars, shownVars
<1> QED BY <1>2, <1>3, <1>4, <1>5, <1>6, <1>7, <1>8 DEF Main

LEMMA StepInv == Inv /\ [RelNext]_relVars => Inv'
<1> SUFFICES ASSUME Inv, [RelNext]_relVars PROVE Inv'
  OBVIOUS
<1>1. ASSUME NEW j \in Threads, Step(j) PROVE Inv'
  BY <1>1, FetchInv, CheckInv DEF Step
<1>2. CASE PeriodicCheck \/ EndUpdate \/ Main \/ Publish BY <1>2, MainInv
<1>3. CASE UNCHANGED relVars
  <2>1. ParseInv' /\ GotInv' /\ CacheBelongsToTag' BY <1>3, NoMove DEF relVars
  <2> QED BY <1>3, <2>1 DEF relVars, gitVars, cacheVars, shownVars, Inv, RelTypeOK
<1> QED BY <1>1, <1>2, <1>3 DEF RelNext

\* No version the application shows or compares was never published, for any number of
\* releases and of checks.
THEOREM RelTypeInvariant == RelSpec => []RelTypeOK
<1>1. Inv => RelTypeOK BY DEF Inv
<1> QED BY InitInv, StepInv, <1>1, PTL DEF RelSpec

\* While no answer is being parsed the cached release is the one the ETag stands for,
\* however many fetches run at the same time, unless two answers overlapped or one was
\* not parsed.
THEOREM CacheOfTag == RelSpec => []CacheBelongsToTag
<1>1. Inv => CacheBelongsToTag BY DEF Inv
<1> QED BY InitInv, StepInv, <1>1, PTL DEF RelSpec
================================================================================
