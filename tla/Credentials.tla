------------------------------ MODULE Credentials ------------------------------
(***************************************************************************)
(* The password of the device: its two NVS keys, the boot that writes      *)
(* them, the two HTTPS handlers and the button that overwrite the one in   *)
(* use, and the copy that the Android application keeps.                   *)
(*                                                                         *)
(* Every NVS call is one step and may fail.  The power may go at any time, *)
(* and the application may lose an answer.  A password that the user types *)
(* reaches the handlers as Form[p]: the application encodes form fields,   *)
(* and httpd_query_key_value does not decode them.                         *)
(***************************************************************************)
CONSTANTS Passwords,     \* what a user can type; Default is on the label
          Stored,        \* what can be in NVS
          Default,
          Form,          \* the text of a password in a form body
          None,          \* a key that does not exist, an empty buffer
          httpd, input   \* the tasks that change the password

Tasks == {httpd, input}
Requests == [op: {"change"}, head: Stored, old: Passwords, new: Passwords]
            \union [op: {"reset"}, head: Stored, old: {Default}, new: {Default}]

ASSUME PasswordsAssumption ==
    /\ Passwords \subseteq Stored /\ Default \in Passwords
    /\ Form \in [Passwords -> Stored]
    /\ None \notin Stored /\ None \notin Requests
    /\ httpd # input

VARIABLES nvs,      \* AUTH_NVS_KEY and AUTH_NVS_DEFAULT_KEY
          boot,     \* app_main up to the step that saves the passwords
          pc, buf,  \* of the two tasks: next NVS call, password loaded
          job,      \* the request that the httpd task serves
          known,    \* the password the application has saved
          asked, link, reply,  \* the application's request and its answer
          changed,  \* history: a new password was stored since boot or reset
          excuse    \* history: why application and device may differ

device == <<nvs, boot, pc, buf, job, changed>>
client == <<known, asked, link, reply>>
vars == <<device, client, excuse>>

NoReply == [ok |-> FALSE, pass |-> None]
Quiet == boot = "up" /\ pc = [t \in Tasks |-> "idle"] /\ link \in {"idle", "sent"}

Init == /\ nvs = [pass |-> None, default |-> None]
        /\ boot = "config"
        /\ pc = [t \in Tasks |-> "idle"]
        /\ buf = [t \in Tasks |-> None]
        /\ job = None
        /\ known = Default
        /\ asked = None
        /\ link = "idle"
        /\ reply = NoReply
        /\ changed = FALSE
        /\ excuse = {}

-----------------------------------------------------------------------------
(* nvs_manager_save_strings_batch at boot; any error halts app_main.       *)

\* Mutant: an error is logged and the boot goes on.
BootGoesOn == /\ boot \in {"config", "default", "commit"}
              /\ boot' = "up"
              /\ UNCHANGED <<nvs, pc, buf, job, changed, client, excuse>>

BootFails == /\ boot \in {"config", "default", "commit"}
             /\ boot' = "halted"
             /\ UNCHANGED <<nvs, pc, buf, job, changed, client, excuse>>

BootSets(key, next) ==
    /\ nvs' = [nvs EXCEPT ![key] = Default]
    /\ boot' = next
    /\ changed' = (changed /\ key # "pass")
    /\ UNCHANGED <<pc, buf, job, client, excuse>>

BootCommits == /\ boot = "commit"
               /\ boot' = "up"
               /\ UNCHANGED <<nvs, pc, buf, job, changed, client, excuse>>

Boot == \/ boot = "config" /\ BootSets("pass", "default")
        \/ boot = "default" /\ BootSets("default", "commit")
        \/ BootCommits
        \/ BootFails

\* Power cycle or OTA restart.  nvs_manager_init may have to erase the flash.
Restart == /\ boot' = "config"
           /\ nvs' \in {nvs, [pass |-> None, default |-> None]}
           /\ pc' = [t \in Tasks |-> "idle"]
           /\ buf' = [t \in Tasks |-> None]
           /\ job' = None
           /\ excuse' = excuse \union {"restart"}
           /\ UNCHANGED <<changed, client>>

-----------------------------------------------------------------------------
(* The end of a handler: the button's callback returns, the middleware     *)
(* answers the request, if the application still waits.                    *)

Answer(ok, pass) ==
    IF link = "served"
      THEN link' = "answered" /\ reply' = [ok |-> ok, pass |-> pass]
      ELSE UNCHANGED <<link, reply>>

Return(t, ok) ==
    /\ pc' = [pc EXCEPT ![t] = "idle"]
    /\ buf' = [buf EXCEPT ![t] = None]
    /\ IF t = httpd THEN Answer(ok, buf[t]) /\ job' = None
                    ELSE UNCHANGED <<link, reply, job>>
    /\ UNCHANGED <<boot, known, asked>>

Goto(t, label) == /\ pc' = [pc EXCEPT ![t] = label]
                  /\ UNCHANGED <<boot, job, client>>

\* nvs_manager_load_str, nvs_open or nvs_set_str reports an error: nothing was written.
Fails(t) == /\ pc[t] \in {"auth", "verify", "load", "set"}
            /\ Return(t, FALSE)
            /\ UNCHANGED <<nvs, changed, excuse>>

\* app_api_check_auth: the password in the header against the one in NVS.
CheckAuth == /\ pc[httpd] = "auth"
             /\ \/ /\ job.head = nvs.pass
                   /\ Goto(httpd, IF job.op = "change" THEN "verify" ELSE "load")
                   /\ UNCHANGED buf
                \/ job.head # nvs.pass /\ Return(httpd, FALSE)
             /\ UNCHANGED <<nvs, changed, excuse>>

\* app_api_auth_change_password compares the old password, and has the new one.
Verify == /\ pc[httpd] = "verify"
          /\ \/ /\ Form[job.old] = nvs.pass
                /\ buf' = [buf EXCEPT ![httpd] = Form[job.new]]
                /\ Goto(httpd, "set")
             \/ Form[job.old] # nvs.pass /\ Return(httpd, FALSE)
          /\ UNCHANGED <<nvs, changed, excuse>>

\* Mutant: the password in use is loaded in the place of the default one.
LoadInUse(t) == /\ pc[t] = "load"
                /\ buf' = [buf EXCEPT ![t] = nvs.pass]
                /\ Goto(t, "set")
                /\ UNCHANGED <<nvs, changed, excuse>>

\* app_api_auth_reset_password and on_reset_btn_click load the default password.
LoadDefault(t) == /\ pc[t] = "load"
                  /\ buf' = [buf EXCEPT ![t] = nvs.default]
                  /\ Goto(t, "set")
                  /\ UNCHANGED <<nvs, changed, excuse>>

\* nvs_set_str of nvs_manager_save_str.
Changes(t) == t = httpd /\ job.op = "change"

Set(t) == /\ pc[t] = "set"
          /\ nvs' = [nvs EXCEPT !.pass = buf[t]]
          /\ changed' = Changes(t)
          /\ excuse' = excuse \union (IF t = input THEN {"button"} ELSE {})
                              \union (IF Changes(t) /\ Form[job.new] # job.new THEN {"form"} ELSE {})
          /\ Goto(t, "commit")
          /\ UNCHANGED buf

BuildsAnswer(t) == t = httpd /\ job.op = "reset"

\* nvs_commit and nvs_close.  A reset by request still has to build its answer.
Commit(t) == /\ pc[t] = "commit"
             /\ \/ BuildsAnswer(t) /\ Goto(t, "json") /\ UNCHANGED buf
                \/ ~BuildsAnswer(t) /\ Return(t, TRUE)
             /\ UNCHANGED <<nvs, changed, excuse>>

\* The password is in NVS already, and the request ends with an error.
EndsBadly(t) == /\ pc[t] \in {"commit", "json"}
                /\ Return(t, FALSE)
                /\ excuse' = excuse \union {"save"}
                /\ UNCHANGED <<nvs, changed>>

Json == /\ pc[httpd] = "json"
        /\ Return(httpd, TRUE)
        /\ UNCHANGED <<nvs, changed, excuse>>

-----------------------------------------------------------------------------
(* What starts a task's work, and the application.                         *)

\* The RESET button is held for two seconds.
HoldReset == /\ boot = "up" /\ pc[input] = "idle"
             /\ pc' = [pc EXCEPT ![input] = "load"]
             /\ UNCHANGED <<nvs, boot, buf, job, changed, client, excuse>>

Accept == /\ boot = "up" /\ pc[httpd] = "idle" /\ link = "sent"
          /\ pc' = [pc EXCEPT ![httpd] = "auth"]
          /\ job' = asked
          /\ link' = "served"
          /\ UNCHANGED <<nvs, boot, buf, changed, known, asked, reply, excuse>>

\* changeDevicePassword and resetPassword send the password the application has.
Ask(r) == /\ link = "idle"
          /\ r.head = known
          /\ asked' = r
          /\ link' = "sent"
          /\ UNCHANGED <<device, known, reply, excuse>>

Done == link' = "idle" /\ reply' = NoReply /\ asked' = None

\* Mutant: the new password is saved whatever the answer.
SaveAlways == /\ link = "answered"
              /\ known' = IF asked.op = "change" THEN asked.new ELSE known
              /\ Done
              /\ UNCHANGED <<device, excuse>>

\* onSuccess saves the password, onError shows a message.
TakeAnswer == /\ link = "answered"
              /\ known' = IF ~reply.ok THEN known
                          ELSE IF asked.op = "change" THEN asked.new ELSE reply.pass
              /\ Done
              /\ UNCHANGED <<device, excuse>>

\* A timeout, a lost connection, or the user leaves the screen.
GiveUp == /\ link # "idle"
          /\ Done
          /\ excuse' = IF link = "sent" THEN excuse ELSE excuse \union {"lost"}
          /\ UNCHANGED <<device, known>>

-----------------------------------------------------------------------------
Task(t) == Fails(t) \/ LoadDefault(t) \/ Set(t) \/ Commit(t) \/ EndsBadly(t)
Next == \/ Boot \/ Restart
        \/ CheckAuth \/ Verify \/ Json
        \/ \E t \in Tasks: Task(t)
        \/ HoldReset \/ Accept
        \/ \E r \in Requests: Ask(r)
        \/ TakeAnswer \/ GiveUp

Spec == Init /\ [][Next]_vars

-----------------------------------------------------------------------------
(* Types: a task has a buffer, and httpd a request, only while it works,   *)
(* and no task works before the boot has written the passwords.            *)
TypeOK == /\ nvs \in [pass: Stored \union {None}, default: {Default, None}]
          /\ boot \in {"config", "default", "commit", "up", "halted"}
          /\ pc \in [Tasks -> {"idle", "auth", "verify", "load", "set", "commit", "json"}]
          /\ buf \in [Tasks -> Stored \union {None}]
          /\ job \in Requests \union {None}
          /\ known \in Stored
          /\ asked \in Requests \union {None}
          /\ link \in {"idle", "sent", "served", "answered"}
          /\ reply \in [ok: BOOLEAN, pass: Stored \union {None}]
          /\ changed \in BOOLEAN
          /\ excuse \subseteq {"restart", "button", "form", "save", "lost"}
          /\ pc[input] \in {"idle", "load", "set", "commit"}
          /\ job = None <=> pc[httpd] = "idle"
          /\ asked = None <=> link = "idle"
          /\ boot # "up" => \A t \in Tasks: pc[t] = "idle"

\* While the device serves, both keys exist and the default password is the
\* one on the label: whoever loads it finds it (main.c:134-139).
KeysPresent == boot = "up" => nvs.pass # None /\ nvs.default = Default

\* The password on the label opens the device until a new one is stored, and
\* again after every reset by button, by request or by restart, whatever
\* fails in between (app_api_auth.c:62-68, io_button_handlers.c:19-24).
LabelWorks == boot = "up" /\ ~changed => nvs.pass = Default

\* Device and application have the same password whenever nothing is under
\* way, unless the device was restarted or reset by its button, an answer
\* was lost, a write ended half done, or the form changed the password
\* (MainViewModel.kt:277-317, app_api_auth.c:20-78).
PasswordsAgree == Quiet /\ excuse = {} => known = nvs.pass
=============================================================================
