--------------------------- MODULE CredentialsProofs ---------------------------
(***************************************************************************)
(* The passwords in NVS, for any set of passwords and any encoding of      *)
(* them in a form: both keys are there while the device serves, and the    *)
(* password on the label opens it until a new one is stored.               *)
(***************************************************************************)
EXTENDS Credentials, TLAPS

\* What the boot has written so far.
BootInv == /\ boot \in {"default", "commit"} => nvs.pass = Default /\ ~changed
           /\ boot = "commit" => nvs.default = Default

\* A task that is about to write has a password, and a reset the default one;
\* only a change compares the old password.
BufInv == \A t \in Tasks:
             /\ pc[t] \in {"set", "commit", "json"} => buf[t] # None
             /\ pc[t] = "set" /\ ~Changes(t) => buf[t] = Default
             /\ pc[t] = "verify" => Changes(t)

\* A positive answer carries the password that the handler has stored.
ReplyInv == reply.ok => reply.pass # None

IInv == TypeOK /\ KeysPresent /\ LabelWorks /\ BootInv /\ BufInv /\ ReplyInv

-----------------------------------------------------------------------------
\* Init establishes the invariant.
LEMMA InitInv == Init => IInv
<1> SUFFICES ASSUME Init PROVE IInv
  OBVIOUS
<1> USE PasswordsAssumption DEF Init, NoReply, Tasks
<1>1. TypeOK
  <2>1. known \in Stored BY DEF Init
  <2> QED BY <2>1 DEF TypeOK
<1>2. KeysPresent /\ LabelWorks /\ BootInv BY DEF KeysPresent, LabelWorks, BootInv
<1>3. BufInv /\ ReplyInv BY DEF BufInv, ReplyInv
<1> QED BY <1>1, <1>2, <1>3 DEF IInv

\* A handler that ends with an error, or with the password it has stored.
LEMMA ReturnInv ==
  ASSUME IInv, NEW t \in Tasks, NEW ok \in BOOLEAN, Return(t, ok), pc[t] # "idle",
         nvs' = nvs, changed' = changed,
         excuse' \subseteq {"restart", "button", "form", "save", "lost"},
         ok => pc[t] \in {"commit", "json"}
  PROVE  IInv'
<1> USE PasswordsAssumption DEF IInv, Tasks
<1>1. CASE t = httpd
  <2>1. /\ job' = None /\ pc' = [pc EXCEPT ![httpd] = "idle"]
        /\ buf' = [buf EXCEPT ![httpd] = None]
        /\ UNCHANGED <<boot, known, asked>>
    BY <1>1 DEF Return
  <2>2. /\ link' \in {"idle", "sent", "served", "answered"}
        /\ link' = "idle" <=> link = "idle"
        /\ reply' \in [ok: BOOLEAN, pass: Stored \union {None}]
        /\ ReplyInv'
    <3>1. CASE link = "served"
      BY <1>1, <3>1 DEF Return, Answer, TypeOK, BufInv, ReplyInv
    <3>2. CASE link # "served"
      BY <1>1, <3>2 DEF Return, Answer, TypeOK, ReplyInv
    <3> QED BY <3>1, <3>2
  <2>3. TypeOK' BY <2>1, <2>2 DEF TypeOK
  <2>4. KeysPresent' /\ LabelWorks' /\ BootInv' BY <2>1 DEF KeysPresent, LabelWorks, BootInv
  <2>5. BufInv' BY <2>1 DEF TypeOK, BufInv, Changes
  <2> QED BY <2>2, <2>3, <2>4, <2>5
<1>2. CASE t = input
  <2>1. /\ pc' = [pc EXCEPT ![input] = "idle"]
        /\ buf' = [buf EXCEPT ![input] = None]
        /\ UNCHANGED <<boot, known, asked, job, link, reply>>
    BY <1>2 DEF Return
  <2>2. TypeOK' BY <2>1 DEF TypeOK
  <2>3. KeysPresent' /\ LabelWorks' /\ BootInv' BY <2>1 DEF KeysPresent, LabelWorks, BootInv
  <2>4. BufInv' /\ ReplyInv' BY <2>1 DEF TypeOK, BufInv, Changes, ReplyInv
  <2> QED BY <2>2, <2>3, <2>4
<1> QED BY <1>1, <1>2

\* The boot and the restart.
LEMMA BootStep == ASSUME IInv, Boot \/ Restart PROVE IInv'
<1> USE PasswordsAssumption DEF IInv, Tasks, device, client
<1>1. CASE boot = "config" /\ BootSets("pass", "default")
  BY <1>1 DEF BootSets, TypeOK, KeysPresent, LabelWorks, BootInv, BufInv, ReplyInv, Changes
<1>2. CASE boot = "default" /\ BootSets("default", "commit")
  BY <1>2 DEF BootSets, TypeOK, KeysPresent, LabelWorks, BootInv, BufInv, ReplyInv, Changes
<1>3. CASE BootCommits
  BY <1>3 DEF BootCommits, TypeOK, KeysPresent, LabelWorks, BootInv, BufInv, ReplyInv, Changes
<1>4. CASE BootFails
  BY <1>4 DEF BootFails, TypeOK, KeysPresent, LabelWorks, BootInv, BufInv, ReplyInv, Changes
<1>5. CASE Restart
  BY <1>5 DEF Restart, TypeOK, KeysPresent, LabelWorks, BootInv, BufInv, ReplyInv, Changes
<1> QED BY <1>1, <1>2, <1>3, <1>4, <1>5 DEF Boot

\* The steps of the two tasks that work on the password.
LEMMA TaskStep ==
  ASSUME IInv, CheckAuth \/ Verify \/ Json \/ \E t \in Tasks: Task(t)
  PROVE  IInv'
<1> USE PasswordsAssumption DEF IInv
<1>0. excuse \subseteq {"restart", "button", "form", "save", "lost"}
  BY DEF TypeOK
<1>1. CASE CheckAuth
  <2>1. CASE job.head = nvs.pass
    BY <1>1, <2>1 DEF CheckAuth, Goto, Tasks, client, TypeOK, KeysPresent, LabelWorks,
                      BootInv, BufInv, ReplyInv, Changes
  <2>2. CASE job.head # nvs.pass
    BY <1>0, <1>1, <2>2, ReturnInv DEF CheckAuth, Tasks
  <2> QED BY <2>1, <2>2
<1>2. CASE Verify
  <2>1. CASE Form[job.old] = nvs.pass
    <3>1. job \in Requests BY <1>2 DEF Verify, TypeOK
    <3>2. Form[job.new] \in Stored BY <3>1 DEF Requests
    <3>3. UNCHANGED <<nvs, boot, job, known, asked, link, reply, changed, excuse>>
      BY <1>2, <2>1 DEF Verify, Goto, Return, Tasks, client
    <3>4. /\ pc' = [pc EXCEPT ![httpd] = "set"]
          /\ buf' = [buf EXCEPT ![httpd] = Form[job.new]]
      BY <1>2, <2>1 DEF Verify, Goto
    <3>5. boot = "up" BY <1>2 DEF Verify, TypeOK, Tasks
    <3>6. TypeOK' BY <1>2, <3>2, <3>3, <3>4, <3>5 DEF Verify, TypeOK, Tasks
    <3>7. KeysPresent' /\ LabelWorks' /\ BootInv' /\ ReplyInv'
      BY <3>3 DEF KeysPresent, LabelWorks, BootInv, ReplyInv
    <3>8. Changes(httpd)' BY <1>2, <3>3 DEF Verify, BufInv, Changes, Tasks
    <3>9. BufInv' BY <3>2, <3>3, <3>4, <3>8 DEF TypeOK, BufInv, Changes, Tasks
    <3> QED BY <3>6, <3>7, <3>9
  <2>2. CASE Form[job.old] # nvs.pass
    BY <1>0, <1>2, <2>2, ReturnInv DEF Verify, Tasks
  <2> QED BY <2>1, <2>2
<1>3. CASE Json
  BY <1>0, <1>3, ReturnInv DEF Json, Tasks
<1>4. ASSUME NEW t \in Tasks, Task(t) PROVE IInv'
  <2>1. CASE Fails(t)
    BY <1>0, <2>1, ReturnInv DEF Fails
  <2>2. CASE LoadDefault(t)
    <3>1. boot = "up" /\ nvs.default = Default
      BY <2>2 DEF LoadDefault, TypeOK, KeysPresent
    <3>2. /\ pc' = [pc EXCEPT ![t] = "set"]
          /\ buf' = [buf EXCEPT ![t] = Default]
          /\ UNCHANGED <<nvs, boot, job, known, asked, link, reply, changed, excuse>>
      BY <2>2, <3>1 DEF LoadDefault, Goto, client
    <3>3. TypeOK' BY <2>2, <3>1, <3>2 DEF LoadDefault, TypeOK, Tasks
    <3>4. KeysPresent' /\ LabelWorks' /\ BootInv' /\ ReplyInv'
      BY <3>2 DEF KeysPresent, LabelWorks, BootInv, ReplyInv
    <3>5. BufInv' BY <3>2 DEF TypeOK, BufInv, Changes, Tasks
    <3> QED BY <3>3, <3>4, <3>5
  <2>3. CASE Set(t)
    <3>1. /\ nvs' = [nvs EXCEPT !.pass = buf[t]]
          /\ changed' = Changes(t)
          /\ pc' = [pc EXCEPT ![t] = "commit"]
          /\ UNCHANGED <<boot, job, known, asked, link, reply, buf>>
      BY <2>3 DEF Set, Goto, client
    <3>2. boot = "up" /\ buf[t] # None /\ buf[t] \in Stored \union {None}
      BY <2>3 DEF Set, TypeOK, BufInv
    <3>3. ~Changes(t) => buf[t] = Default BY <2>3 DEF Set, BufInv
    <3>4. excuse' \subseteq {"restart", "button", "form", "save", "lost"}
      BY <1>0, <2>3 DEF Set
    <3>5. changed' \in BOOLEAN BY <3>1 DEF Changes
    <3>6. TypeOK' BY <2>3, <3>1, <3>2, <3>4, <3>5 DEF Set, TypeOK, Tasks
    <3>7. KeysPresent' BY <3>1, <3>2 DEF TypeOK, KeysPresent
    <3>8. LabelWorks' BY <3>1, <3>3 DEF TypeOK, LabelWorks
    <3>9. BootInv' /\ ReplyInv' BY <3>1, <3>2 DEF BootInv, ReplyInv
    <3>10. BufInv' BY <2>3, <3>1 DEF Set, TypeOK, BufInv, Changes, Tasks
    <3> QED BY <3>6, <3>7, <3>8, <3>9, <3>10
  <2>4. CASE Commit(t)
    <3>1. CASE BuildsAnswer(t)
      BY <2>4, <3>1 DEF Commit, Goto, BuildsAnswer, Tasks, client, TypeOK, KeysPresent,
                        LabelWorks, BootInv, BufInv, ReplyInv, Changes
    <3>2. CASE ~BuildsAnswer(t)
      BY <1>0, <2>4, <3>2, ReturnInv DEF Commit
    <3> QED BY <3>1, <3>2
  <2>5. CASE EndsBadly(t)
    BY <1>0, <2>5, ReturnInv DEF EndsBadly
  <2> QED BY <1>4, <2>1, <2>2, <2>3, <2>4, <2>5 DEF Task
<1> QED BY <1>1, <1>2, <1>3, <1>4

\* The button, the request and the application.
LEMMA ClientStep ==
  ASSUME IInv, \/ HoldReset \/ Accept \/ TakeAnswer \/ GiveUp
               \/ \E r \in Requests: Ask(r)
  PROVE  IInv'
<1> USE PasswordsAssumption DEF IInv, Tasks, device, client
<1>1. CASE HoldReset
  BY <1>1 DEF HoldReset, TypeOK, KeysPresent, LabelWorks, BootInv, BufInv, ReplyInv, Changes
<1>2. CASE Accept
  BY <1>2 DEF Accept, TypeOK, KeysPresent, LabelWorks, BootInv, BufInv, ReplyInv, Changes
<1>3. CASE TakeAnswer
  <2>1. known' \in Stored
    <3>1. asked \in Requests BY <1>3 DEF TakeAnswer, TypeOK
    <3>2. asked.new \in Stored BY <3>1 DEF Requests
    <3>3. reply.ok => reply.pass \in Stored BY DEF TypeOK, ReplyInv
    <3> QED BY <1>3, <3>2, <3>3 DEF TakeAnswer, TypeOK
  <2> QED BY <1>3, <2>1 DEF TakeAnswer, Done, NoReply, TypeOK, KeysPresent, LabelWorks,
                            BootInv, BufInv, ReplyInv, Changes
<1>4. CASE GiveUp
  BY <1>4 DEF GiveUp, Done, NoReply, TypeOK, KeysPresent, LabelWorks, BootInv, BufInv,
              ReplyInv, Changes
<1>5. ASSUME NEW r \in Requests, Ask(r) PROVE IInv'
  <2>1. r # None OBVIOUS
  <2> QED BY <1>5, <2>1 DEF Ask, TypeOK, KeysPresent, LabelWorks, BootInv, BufInv, ReplyInv,
                            Changes
<1> QED BY <1>1, <1>2, <1>3, <1>4, <1>5

\* Every step keeps the invariant.
LEMMA StepInv == IInv /\ [Next]_vars => IInv'
<1> SUFFICES ASSUME IInv, [Next]_vars PROVE IInv'
  OBVIOUS
<1>1. CASE UNCHANGED vars
  BY <1>1 DEF vars, device, client, IInv, TypeOK, KeysPresent, LabelWorks, BootInv, BufInv,
              ReplyInv, Changes
<1>2. CASE Next
  BY <1>2, BootStep, TaskStep, ClientStep DEF Next
<1> QED BY <1>1, <1>2

\* The invariant holds in every reachable state.
LEMMA Invariance == Spec => []IInv
  BY InitInv, StepInv, PTL DEF Spec

\* Tasks have buffers and requests only while they work, and they work only
\* after the boot (main.c:134-143).
THEOREM TypeInvariant == Spec => []TypeOK
  BY Invariance, PTL DEF IInv

\* No reset can find its key missing while the device serves, whatever write
\* failed before (main.c:134-139, app_api_auth.c:62-66).
THEOREM BothKeys == Spec => []KeysPresent
  BY Invariance, PTL DEF IInv

\* After every boot, and after every reset by button or request, the label's
\* password is the device's until a new one is stored.
THEOREM LabelOpens == Spec => []LabelWorks
  BY Invariance, PTL DEF IInv

-----------------------------------------------------------------------------
(* The application's copy.                                                 *)

\* With no excuse, the application's password is the device's from the end of the boot to
\* the moment a handler stores another one; from then on the answer says which.
AgreeInv ==
  excuse = {} =>
    /\ boot # "up" => known = Default /\ link \in {"idle", "sent"}
    /\ (pc[httpd] # "idle") <=> (link = "served")
    /\ link = "served" => job = asked
    /\ boot = "up" /\ pc[httpd] \notin {"commit", "json"} /\ link # "answered"
         => known = nvs.pass
    /\ pc[httpd] = "load" => ~Changes(httpd)
    /\ pc[httpd] = "set" /\ Changes(httpd) => buf[httpd] = Form[job.new]
    /\ pc[httpd] \in {"commit", "json"} =>
         nvs.pass = buf[httpd] /\ (Changes(httpd) => buf[httpd] = job.new)
    /\ link = "answered" =>
         nvs.pass = IF ~reply.ok THEN known
                    ELSE IF asked.op = "change" THEN asked.new ELSE reply.pass

\* The steps that leave the application and httpd alone.
LEMMA AgreeKept ==
  ASSUME AgreeInv, excuse \subseteq excuse',
         UNCHANGED <<nvs, job, known, asked, link, reply>>,
         pc'[httpd] = pc[httpd], buf'[httpd] = buf[httpd],
         boot' = boot \/ (boot' # "up" /\ boot # "up")
  PROVE  AgreeInv'
BY DEF AgreeInv, Changes

\* The handler ends: nothing has been stored, or what the answer says, or an excuse.
LEMMA AgreeReturn ==
  ASSUME IInv, AgreeInv, NEW ok \in BOOLEAN, Return(httpd, ok), pc[httpd] # "idle",
         UNCHANGED nvs, excuse \subseteq excuse',
         excuse' # {} \/ (IF pc[httpd] \in {"commit", "json"} THEN ok ELSE ~ok),
         ok => pc[httpd] \in {"commit", "json"}
  PROVE  AgreeInv'
<1> SUFFICES ASSUME excuse' = {} PROVE AgreeInv' BY DEF AgreeInv
<1>1. /\ excuse = {} /\ link = "served" /\ job = asked /\ boot = "up"
      /\ pc \in [Tasks -> {"idle", "auth", "verify", "load", "set", "commit", "json"}]
  BY DEF AgreeInv, IInv, TypeOK, Tasks
<1>2. /\ link' = "answered" /\ reply' = [ok |-> ok, pass |-> buf[httpd]]
      /\ pc'[httpd] = "idle"
      /\ UNCHANGED <<boot, known, asked>>
  BY <1>1 DEF Return, Answer, Tasks
<1>3. nvs.pass = IF ~ok THEN known
                 ELSE IF asked.op = "change" THEN asked.new ELSE buf[httpd]
  BY <1>1 DEF AgreeInv, Changes
<1>4. nvs'.pass = IF ~reply'.ok THEN known'
                  ELSE IF asked'.op = "change" THEN asked'.new ELSE reply'.pass
  BY <1>2, <1>3
<1> QED BY <1>1, <1>2, <1>4 DEF AgreeInv

LEMMA AgreeStep == IInv /\ AgreeInv /\ [Next]_vars => AgreeInv'
<1> SUFFICES ASSUME IInv, AgreeInv, [Next]_vars PROVE AgreeInv' OBVIOUS
<1>0. /\ pc \in [Tasks -> {"idle", "auth", "verify", "load", "set", "commit", "json"}]
      /\ buf \in [Tasks -> Stored \union {None}]
      /\ nvs \in [pass: Stored \union {None}, default: {Default, None}]
      /\ httpd \in Tasks /\ input \in Tasks /\ httpd # input
      /\ boot # "up" => \A t \in Tasks : pc[t] = "idle"
      /\ excuse \subseteq {"restart", "button", "form", "save", "lost"}
  BY PasswordsAssumption DEF IInv, TypeOK, Tasks
<1>1. CASE Boot
  <2>1. UNCHANGED <<pc, buf, job, known, asked, link, reply, excuse>> /\ boot # "up"
    BY <1>1 DEF Boot, BootSets, BootCommits, BootFails, client
  <2>2. CASE BootCommits
    <3>1. nvs'.pass = Default BY <2>2 DEF BootCommits, IInv, BootInv
    <3> QED BY <1>0, <2>1, <3>1 DEF AgreeInv
  <2>3. CASE ~BootCommits
    <3>1. boot' # "up" BY <1>1, <2>3 DEF Boot, BootSets, BootFails
    <3> QED BY <1>0, <2>1, <3>1 DEF AgreeInv
  <2> QED BY <2>2, <2>3
<1>2. CASE Restart
  BY <1>2 DEF Restart, AgreeInv
<1>3. CASE CheckAuth
  <2>1. CASE job.head = nvs.pass
    <3>1. /\ pc[httpd] = "auth" /\ pc'[httpd] \in {"verify", "load"}
          /\ pc'[httpd] = "load" => job.op # "change"
          /\ UNCHANGED <<nvs, boot, job, known, asked, link, reply, excuse>>
      BY <1>0, <1>3, <2>1 DEF CheckAuth, Goto, Return, client
    <3> QED BY <3>1 DEF AgreeInv, Changes
  <2>2. CASE job.head # nvs.pass
    BY <1>3, <2>2, AgreeReturn DEF CheckAuth
  <2> QED BY <2>1, <2>2
<1>4. CASE Verify
  <2>1. CASE Form[job.old] = nvs.pass
    <3>1. /\ pc[httpd] = "verify" /\ pc'[httpd] = "set" /\ buf'[httpd] = Form[job.new]
          /\ UNCHANGED <<nvs, boot, job, known, asked, link, reply, excuse>>
      BY <1>0, <1>4, <2>1 DEF Verify, Goto, Return, client
    <3> QED BY <3>1 DEF AgreeInv, Changes
  <2>2. CASE Form[job.old] # nvs.pass
    BY <1>4, <2>2, AgreeReturn DEF Verify
  <2> QED BY <2>1, <2>2
<1>5. CASE Json
  BY <1>5, AgreeReturn DEF Json
<1>6. ASSUME Task(httpd) PROVE AgreeInv'
  <2>1. CASE Fails(httpd)
    BY <2>1, AgreeReturn DEF Fails
  <2>2. CASE LoadDefault(httpd)
    <3>1. /\ pc[httpd] = "load" /\ pc'[httpd] = "set"
          /\ UNCHANGED <<nvs, boot, job, known, asked, link, reply, excuse>>
      BY <1>0, <2>2 DEF LoadDefault, Goto, client
    <3>2. buf'[httpd] = Default /\ boot = "up"
      BY <1>0, <2>2 DEF LoadDefault, IInv, KeysPresent
    <3> QED BY <3>1, <3>2 DEF AgreeInv, Changes
  <2>3. CASE Set(httpd)
    <3>1. /\ pc[httpd] = "set" /\ pc'[httpd] = "commit" /\ nvs'.pass = buf[httpd]
          /\ UNCHANGED <<boot, job, known, asked, link, reply, buf>>
          /\ excuse \subseteq excuse'
          /\ excuse' = {} => (Changes(httpd) => Form[job.new] = job.new)
      BY <1>0, <2>3 DEF Set, Goto, client
    <3> QED BY <3>1 DEF AgreeInv, Changes
  <2>4. CASE Commit(httpd)
    <3>1. CASE BuildsAnswer(httpd)
      <4>1. /\ pc[httpd] = "commit" /\ pc'[httpd] = "json"
            /\ UNCHANGED <<nvs, boot, job, known, asked, link, reply, buf, excuse>>
        BY <1>0, <2>4, <3>1 DEF Commit, Goto, client
      <4> QED BY <4>1 DEF AgreeInv, Changes
    <3>2. CASE ~BuildsAnswer(httpd)
      BY <2>4, <3>2, AgreeReturn DEF Commit
    <3> QED BY <3>1, <3>2
  <2>5. CASE EndsBadly(httpd)
    <3>1. excuse' # {} /\ excuse \subseteq excuse' BY <2>5 DEF EndsBadly
    <3> QED BY <3>1 DEF AgreeInv
  <2> QED BY <1>6, <2>1, <2>2, <2>3, <2>4, <2>5 DEF Task
<1>7. ASSUME Task(input) PROVE AgreeInv'
  <2>1. CASE Set(input)
    <3>1. excuse' # {} BY <2>1 DEF Set
    <3> QED BY <3>1 DEF AgreeInv
  <2>2. CASE EndsBadly(input)
    <3>1. excuse' # {} BY <2>2 DEF EndsBadly
    <3> QED BY <3>1 DEF AgreeInv
  <2>3. CASE Fails(input) \/ LoadDefault(input) \/ Commit(input)
    <3>1. /\ UNCHANGED <<nvs, boot, job, known, asked, link, reply, excuse>>
          /\ pc'[httpd] = pc[httpd] /\ buf'[httpd] = buf[httpd]
      BY <1>0, <2>3 DEF Fails, LoadDefault, Commit, BuildsAnswer, Goto, Return, client
    <3> QED BY <3>1, AgreeKept
  <2> QED BY <1>7, <2>1, <2>2, <2>3 DEF Task
<1>8. CASE HoldReset
  <2>1. /\ UNCHANGED <<nvs, boot, job, known, asked, link, reply, excuse>>
        /\ pc'[httpd] = pc[httpd] /\ buf'[httpd] = buf[httpd]
    BY <1>0, <1>8 DEF HoldReset, client
  <2> QED BY <2>1, AgreeKept
<1>9. CASE Accept
  <2>1. /\ boot = "up" /\ pc[httpd] = "idle" /\ link = "sent" /\ pc'[httpd] = "auth"
        /\ job' = asked /\ link' = "served"
        /\ UNCHANGED <<nvs, boot, buf, known, asked, reply, excuse>>
    BY <1>0, <1>9 DEF Accept
  <2> QED BY <2>1 DEF AgreeInv, Changes
<1>10. ASSUME NEW r \in Requests, Ask(r) PROVE AgreeInv'
  BY <1>10 DEF Ask, device, AgreeInv, Changes
<1>11. CASE TakeAnswer
  <2>1. /\ link = "answered" /\ link' = "idle"
        /\ known' = IF ~reply.ok THEN known
                    ELSE IF asked.op = "change" THEN asked.new ELSE reply.pass
        /\ UNCHANGED <<nvs, boot, pc, buf, job, excuse>>
    BY <1>11 DEF TakeAnswer, Done, device
  <2> QED BY <2>1 DEF AgreeInv, Changes
<1>12. CASE GiveUp
  <2>1. CASE link = "sent"
    BY <1>12, <2>1 DEF GiveUp, Done, device, AgreeInv, Changes
  <2>2. CASE link # "sent"
    <3>1. excuse' # {} BY <1>12, <2>2 DEF GiveUp
    <3> QED BY <3>1 DEF AgreeInv
  <2> QED BY <2>1, <2>2
<1>13. CASE UNCHANGED vars
  BY <1>13 DEF vars, device, client, AgreeInv, Changes
<1> QED BY <1>1, <1>2, <1>3, <1>4, <1>5, <1>6, <1>7, <1>8, <1>9, <1>10, <1>11, <1>12, <1>13
        DEF Next, Tasks

\* The application and the device do not part: whatever requests are sent, refused or fail
\* halfway, when nothing is under way both have the same password, but for the named
\* excuses (MainViewModel.kt:277-317, app_api_auth.c:20-78).
THEOREM SamePassword == Spec => []PasswordsAgree
<1>1. Init => AgreeInv
  BY DEF Init, AgreeInv, Tasks
<1>2. IInv /\ AgreeInv => PasswordsAgree
  <2> SUFFICES ASSUME AgreeInv, Quiet, excuse = {} PROVE known = nvs.pass
    BY DEF PasswordsAgree
  <2>1. pc[httpd] = "idle" BY DEF Quiet, Tasks
  <2> QED BY <2>1 DEF AgreeInv, Quiet
<1> QED BY <1>1, <1>2, AgreeStep, Invariance, PTL DEF Spec
=============================================================================
