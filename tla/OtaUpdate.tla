-------------------------------- MODULE OtaUpdate --------------------------------
(* app_api_ota_update.c: the upload of a firmware image.  The httpd task writes it *)
(* to the partition that is not running while the carousel is suspended (the       *)
(* blocking task of UiManager), selects it for the next boot, and leaves the       *)
(* restart to a task of its own.  The power may fail at any moment.                *)
EXTENDS UiManager

VARIABLES
  hpc,       \* the httpd task in app_api_ota_update
  handle,    \* update_handle is open
  image,     \* per partition: is it complete?
  running,   \* the partition the firmware runs from
  selected,  \* the partition selected for the next boot
  rebooting, \* ota_reboot_task exists
  noTask,    \* history: xTaskCreate failed for the last update
  again      \* history: an upload began after the one that was selected

flashVars == <<image, running, selected>>
otaVars == <<hpc, handle, flashVars, rebooting, noTask, again>>
vars == <<uiVars, otaVars>>

Slots == {"ota_0", "ota_1"}

\* esp_ota_get_next_update_partition: the one that is not running.  Mutant: the running one.
RunningSlot == running
UpdateSlot == CHOOSE s \in Slots : s # running

TypeOK == /\ UiTypeOK
          /\ hpc \in {"idle", "check", "receive", "close", "end", "select", "task",
                      "fail", "failOpen"}
          /\ handle \in BOOLEAN
          /\ image \in [Slots -> BOOLEAN]
          /\ running \in Slots /\ selected \in Slots
          /\ rebooting \in BOOLEAN /\ noTask \in BOOLEAN /\ again \in BOOLEAN
          /\ bpc = "free" => hpc \in {"idle", "close"}

Init == /\ UiInit
        /\ hpc = "idle" /\ handle = FALSE
        /\ image = [s \in Slots |-> s = "ota_0"]
        /\ running = "ota_0" /\ selected = "ota_0"
        /\ rebooting = FALSE /\ noTask = FALSE /\ again = FALSE

--------------------------------------------------------------------------------
(* app_api_ota_update, in the httpd task.                                        *)

\* A request comes in: ui_manager_suspend.
Begin == /\ hpc = "idle"
         /\ Suspend
         /\ hpc' = "check"
         /\ UNCHANGED <<handle, flashVars, rebooting, noTask, again>>

FinishSuspend == SuspendTimer /\ UNCHANGED otaVars

\* The content type, the partition or esp_ota_begin is no good.
Refuse == /\ hpc = "check" /\ bpc = "exclusive"
          /\ hpc' = "fail"
          /\ UNCHANGED <<uiVars, handle, flashVars, rebooting, noTask, again>>

\* esp_ota_begin erases the partition.
OtaBegin == /\ hpc = "check" /\ bpc = "exclusive"
            /\ handle' = TRUE
            /\ image' = [image EXCEPT ![UpdateSlot] = FALSE]
            /\ again' = (selected = UpdateSlot)
            /\ hpc' = "receive"
            /\ DrawProgress
            /\ UNCHANGED <<running, selected, rebooting, noTask>>

\* httpd_req_recv times out and is tried again, or a chunk is written; now and then the
\* progress is drawn.
Chunk == /\ hpc = "receive"
         /\ DrawProgress
         /\ UNCHANGED otaVars

LastChunk == /\ hpc = "receive"
             /\ hpc' = "end"
             /\ UNCHANGED <<uiVars, handle, flashVars, rebooting, noTask, again>>

\* The peer is gone: the carousel is resumed before the handle is closed.
ReceiveFails == /\ hpc = "receive"
                /\ hpc' = "failOpen"
                /\ UNCHANGED <<uiVars, handle, flashVars, rebooting, noTask, again>>

\* esp_ota_write fails.  Mutant: the handle is not closed.
LeftOpen == handle
Closed == FALSE

WriteFails == /\ hpc = "receive"
              /\ handle' = Closed
              /\ hpc' = "fail"
              /\ UNCHANGED <<uiVars, flashVars, rebooting, noTask, again>>

\* An image that is not valid ends the update.  Mutant: it is selected all the same.
Ignored == hpc' = "select"
Rejected == hpc' = "fail"

\* esp_ota_end checks the image, and closes the handle whatever it finds.
OtaEnd == /\ hpc = "end"
          /\ handle' = FALSE
          /\ \/ image' = [image EXCEPT ![UpdateSlot] = TRUE] /\ hpc' = "select"
             \/ UNCHANGED image /\ Rejected
          /\ UNCHANGED <<uiVars, running, selected, rebooting, noTask, again>>

\* esp_ota_set_boot_partition
SetBootPartition == /\ hpc = "select"
                    /\ \/ selected' = UpdateSlot /\ again' = FALSE /\ hpc' = "task"
                       \/ UNCHANGED <<selected, again>> /\ hpc' = "fail"
                    /\ UNCHANGED <<uiVars, handle, image, running, rebooting, noTask>>

\* xTaskCreate(ota_reboot_task), whose result nobody looks at.
CreateTask == /\ hpc = "task"
              /\ \/ rebooting' = TRUE /\ noTask' = FALSE
                 \/ UNCHANGED rebooting /\ noTask' = TRUE
              /\ hpc' = "idle"
              /\ DrawProgress
              /\ UNCHANGED <<handle, flashVars, again>>

\* An error path ends with ui_manager_resume and the error response.
\* Mutant: it only answers.
NoResume == hpc' = "idle" /\ UNCHANGED uiVars
ResumeFirst == Resume /\ UNCHANGED hpc

Fail == /\ hpc \in {"fail", "failOpen"}
        /\ ResumeFirst
        /\ UNCHANGED <<handle, flashVars, rebooting, noTask, again>>

\* With the handle still open it is closed after the resume.
AfterResume == IF hpc = "fail" THEN "idle" ELSE "close"

FinishResume == /\ hpc \in {"fail", "failOpen"}
                /\ \/ ResumeTimer /\ UNCHANGED hpc
                   \/ ResumeRender /\ hpc' = AfterResume
                /\ UNCHANGED <<handle, flashVars, rebooting, noTask, again>>

CloseHandle == /\ hpc = "close"
               /\ handle' = FALSE
               /\ hpc' = "idle"
               /\ UNCHANGED <<uiVars, flashVars, rebooting, noTask, again>>

--------------------------------------------------------------------------------
(* The restart: ota_reboot_task two seconds later, or a power failure.           *)

\* The bootloader takes the selected partition if its image is complete.
BootFrom == IF image[selected] THEN selected
            ELSE CHOOSE s \in Slots : image[s]

Restart == /\ running' = BootFrom
           /\ UiReset
           /\ hpc' = "idle" /\ handle' = FALSE
           /\ rebooting' = FALSE /\ noTask' = FALSE
           /\ UNCHANGED <<image, selected, again>>

Reboot == rebooting /\ Restart
PowerFailure == Restart

--------------------------------------------------------------------------------
Upload == \/ Begin \/ FinishSuspend \/ Refuse \/ OtaBegin \/ Chunk \/ LastChunk
          \/ ReceiveFails \/ WriteFails \/ OtaEnd \/ SetBootPartition \/ CreateTask
          \/ Fail \/ FinishResume \/ CloseHandle

Next == \/ Upload
        \/ Carousel /\ UNCHANGED otaVars
        \/ Reboot \/ PowerFailure

Spec == Init /\ [][Next]_vars

--------------------------------------------------------------------------------
(* Properties.                                                                   *)

\* The firmware never overwrites the partition it runs from, so that whenever the power
\* fails there is a complete image to start.
RunningImageComplete == image[running]

\* The partition selected for the next boot holds a complete image at every moment at
\* which the power may fail, unless another upload has begun since.
SelectedImageComplete == image[selected] \/ again

\* However an upload ends, the carousel is suspended afterwards only if the device is
\* about to restart (or the restart task could not be created).
ResumedAfterFailure == hpc = "idle" /\ suspended => rebooting \/ noTask

\* Every path of the handler gives the update handle back.
HandleClosed == hpc = "idle" => ~handle

\* An update is a blocking task as UiManager expects it: it resumes what it suspended,
\* in the order of ui_manager_suspend and ui_manager_resume.
UsesUiManager == UiSpec
================================================================================
