-------------------------------- MODULE UiProofs ---------------------------------
(* Proofs about Ui, for any number of tasks, any calls they make, any pages and    *)
(* any timer queue: a temporary screen has its timer, and no message and no        *)
(* outdated page stays.  Every task is at some place in the code of one function   *)
(* of ui.c, and what it still has to do from there is what the invariants rest on. *)
EXTENDS Ui, SequenceTheorems, TLAPS

StepNames == {"save", "look", "ignoreIfError", "cursor", "print", "reprint", "clear",
              "setTemp", "clearTemp", "setError", "clearError", "changePeriod", "start"}
Steps == [do : StepNames, row : Rows]

--------------------------------------------------------------------------------
(* The code of each function, step by step.                                      *)

LEMMA AtStep ==
  ASSUME NEW do \in StepNames, NEW row \in Rows
  PROVE  At(do, row) \in Steps /\ At(do, row).do = do /\ At(do, row).row = row
BY DEF At, Steps

LEMMA DrawCode ==
  ASSUME NEW do \in {"print", "reprint"}, NEW row \in Rows
  PROVE  /\ Draw(do, row) \in Seq(Steps) /\ Len(Draw(do, row)) = 2
         /\ Draw(do, row)[1] = At("cursor", row) /\ Draw(do, row)[2] = At(do, row)
<1>1. At("cursor", row) \in Steps /\ At(do, row) \in Steps
  BY AtStep DEF StepNames
<1> QED BY <1>1 DEF Draw

LEMMA DrawBothCode ==
  ASSUME NEW do \in {"print", "reprint"}
  PROVE  /\ DrawBoth(do) \in Seq(Steps) /\ Len(DrawBoth(do)) = 4
         /\ DrawBoth(do)[1] = At("cursor", 0) /\ DrawBoth(do)[2] = At(do, 0)
         /\ DrawBoth(do)[3] = At("cursor", 1) /\ DrawBoth(do)[4] = At(do, 1)
<1>1. 0 \in Rows /\ 1 \in Rows BY DEF Rows
<1> DEFINE a == Draw(do, 0)
           b == Draw(do, 1)
<1>2. /\ a \in Seq(Steps) /\ Len(a) = 2 /\ a[1] = At("cursor", 0) /\ a[2] = At(do, 0)
      /\ b \in Seq(Steps) /\ Len(b) = 2 /\ b[1] = At("cursor", 1) /\ b[2] = At(do, 1)
  BY <1>1, DrawCode
<1>3. DrawBoth(do) = a \o b BY DEF DrawBoth
<1> HIDE DEF a, b
<1>4. /\ a \o b \in Seq(Steps) /\ Len(a \o b) = Len(a) + Len(b)
      /\ \A i \in 1 .. Len(a) + Len(b) :
           (a \o b)[i] = IF i <= Len(a) THEN a[i] ELSE b[i - Len(a)]
  BY <1>2, ConcatProperties
<1>4a. /\ Len(a \o b) = 4
      /\ \A i \in 1 .. 4 :
           (a \o b)[i] = IF i <= 2 THEN a[i] ELSE b[i - 2]
  BY <1>2, <1>4
<1> QED BY <1>2, <1>3, <1>4, <1>4a

LEMMA SetTextCode ==
  ASSUME NEW r \in Rows
  PROVE  /\ SetTextInRow(r) \in Seq(Steps) /\ Len(SetTextInRow(r)) = 4
         /\ SetTextInRow(r)[1] = At("save", r) /\ SetTextInRow(r)[2] = At("look", 0)
         /\ SetTextInRow(r)[3] = At("cursor", r) /\ SetTextInRow(r)[4] = At("reprint", r)
<1> DEFINE s == <<At("save", r), Do("look")>>
<1>1. 0 \in Rows BY DEF Rows
<1>2. At("save", r) \in Steps /\ Do("look") \in Steps BY <1>1, AtStep DEF Do, StepNames
<1>3. s \in Seq(Steps) /\ Len(s) = 2 /\ s[1] = At("save", r) /\ s[2] = At("look", 0)
  BY <1>2 DEF Do
<1> HIDE DEF s
<1> DEFINE d == Draw("reprint", r)
<1>4. SetTextInRow(r) = s \o d BY DEF SetTextInRow, s
<1>5. /\ d \in Seq(Steps) /\ Len(d) = 2
      /\ d[1] = At("cursor", r) /\ d[2] = At("reprint", r)
  BY DrawCode
<1> HIDE DEF d
<1>6. /\ s \o d \in Seq(Steps) /\ Len(s \o d) = Len(s) + Len(d)
      /\ \A i \in 1 .. Len(s) + Len(d) :
           (s \o d)[i] = IF i <= Len(s) THEN s[i] ELSE d[i - Len(s)]
  BY <1>3, <1>5, ConcatProperties
<1>6a. /\ Len(s \o d) = 4
      /\ \A i \in 1 .. 4 :
           (s \o d)[i] = IF i <= 2 THEN s[i] ELSE d[i - 2]
  BY <1>3, <1>5, <1>6
<1> QED BY <1>3, <1>4, <1>5, <1>6, <1>6a

\* ui_set_text.
LEMMA PageCode ==
  LET c == Script("page")
  IN  /\ c \in Seq(Steps) /\ Len(c) = 8 /\ c[1] = At("save", 0) /\ c[2] = At("look", 0)
      /\ c[3] = At("cursor", 0) /\ c[4] = At("reprint", 0) /\ c[5] = At("save", 1)
      /\ c[6] = At("look", 0) /\ c[7] = At("cursor", 1) /\ c[8] = At("reprint", 1)
<1> DEFINE a == SetTextInRow(0)
           b == SetTextInRow(1)
<1>1. 0 \in Rows /\ 1 \in Rows BY DEF Rows
<1>2. Script("page") = a \o b BY DEF Script
<1>3. /\ a \in Seq(Steps) /\ Len(a) = 4 /\ a[1] = At("save", 0) /\ a[2] = At("look", 0)
      /\ a[3] = At("cursor", 0) /\ a[4] = At("reprint", 0)
  BY <1>1, SetTextCode
<1>4. /\ b \in Seq(Steps) /\ Len(b) = 4 /\ b[1] = At("save", 1) /\ b[2] = At("look", 0)
      /\ b[3] = At("cursor", 1) /\ b[4] = At("reprint", 1)
  BY <1>1, SetTextCode
<1> HIDE DEF a, b
<1>5. /\ a \o b \in Seq(Steps) /\ Len(a \o b) = Len(a) + Len(b)
      /\ \A i \in 1 .. Len(a) + Len(b) :
           (a \o b)[i] = IF i <= Len(a) THEN a[i] ELSE b[i - Len(a)]
  BY <1>3, <1>4, ConcatProperties
<1>6. /\ Len(a \o b) = 8
      /\ \A i \in 1 .. 8 :
           (a \o b)[i] = IF i <= 4 THEN a[i] ELSE b[i - 4]
  BY <1>3, <1>4, <1>5
<1>7. /\ a \o b \in Seq(Steps) /\ Len(a \o b) = 8 /\ (a \o b)[1] = At("save", 0)
      /\ (a \o b)[2] = At("look", 0) /\ (a \o b)[3] = At("cursor", 0)
      /\ (a \o b)[4] = At("reprint", 0) /\ (a \o b)[5] = At("save", 1)
      /\ (a \o b)[6] = At("look", 0) /\ (a \o b)[7] = At("cursor", 1)
      /\ (a \o b)[8] = At("reprint", 1)
  BY <1>3, <1>4, <1>5, <1>6
<1> QED BY <1>2, <1>7

\* A message: the flag and the timer come after the text.
LEMMA MessageCode ==
  LET c == Script("message")
  IN  /\ c \in Seq(Steps) /\ Len(c) = 8 /\ c[1] = At("ignoreIfError", 0)
      /\ c[2] = At("cursor", 0) /\ c[3] = At("print", 0) /\ c[4] = At("cursor", 1)
      /\ c[5] = At("print", 1) /\ c[6] = At("setTemp", 0)
      /\ c[7] = At("changePeriod", 0) /\ c[8] = At("start", 0)
<1> DEFINE a == <<Do("ignoreIfError")>>
           b == DrawBoth("print")
           d == <<Do("setTemp"), Do("changePeriod"), Do("start")>>
<1>1. 0 \in Rows /\ 1 \in Rows BY DEF Rows
<1>2. Script("message") = a \o (b \o d) BY DEF Script, TimerLast
<1>3. /\ At("ignoreIfError", 0) \in Steps
  BY <1>1, AtStep DEF StepNames
<1>4. /\ a \in Seq(Steps) /\ Len(a) = 1 /\ a[1] = At("ignoreIfError", 0)
  BY <1>3 DEF Do
<1>5. /\ b \in Seq(Steps) /\ Len(b) = 4 /\ b[1] = At("cursor", 0)
      /\ b[2] = At("print", 0) /\ b[3] = At("cursor", 1) /\ b[4] = At("print", 1)
  BY <1>1, DrawBothCode
<1>6. /\ At("setTemp", 0) \in Steps /\ At("changePeriod", 0) \in Steps
      /\ At("start", 0) \in Steps
  BY <1>1, AtStep DEF StepNames
<1>7. /\ d \in Seq(Steps) /\ Len(d) = 3 /\ d[1] = At("setTemp", 0)
      /\ d[2] = At("changePeriod", 0) /\ d[3] = At("start", 0)
  BY <1>6 DEF Do
<1> HIDE DEF a, b, d
<1> DEFINE bd == b \o d
<1>8. /\ b \o d \in Seq(Steps) /\ Len(b \o d) = Len(b) + Len(d)
      /\ \A i \in 1 .. Len(b) + Len(d) :
           (b \o d)[i] = IF i <= Len(b) THEN b[i] ELSE d[i - Len(b)]
  BY <1>5, <1>7, ConcatProperties
<1>9. /\ Len(b \o d) = 7
      /\ \A i \in 1 .. 7 :
           (b \o d)[i] = IF i <= 4 THEN b[i] ELSE d[i - 4]
  BY <1>5, <1>7, <1>8
<1>10. /\ bd \in Seq(Steps) /\ Len(bd) = 7 /\ bd[1] = At("cursor", 0)
       /\ bd[2] = At("print", 0) /\ bd[3] = At("cursor", 1) /\ bd[4] = At("print", 1)
       /\ bd[5] = At("setTemp", 0) /\ bd[6] = At("changePeriod", 0)
       /\ bd[7] = At("start", 0)
  BY <1>5, <1>7, <1>8, <1>9
<1> HIDE DEF bd
<1>11. /\ a \o bd \in Seq(Steps) /\ Len(a \o bd) = Len(a) + Len(bd)
      /\ \A i \in 1 .. Len(a) + Len(bd) :
           (a \o bd)[i] = IF i <= Len(a) THEN a[i] ELSE bd[i - Len(a)]
  BY <1>4, <1>10, ConcatProperties
<1>12. /\ Len(a \o bd) = 8
      /\ \A i \in 1 .. 8 :
           (a \o bd)[i] = IF i <= 1 THEN a[i] ELSE bd[i - 1]
  BY <1>4, <1>10, <1>11
<1>13. /\ a \o bd \in Seq(Steps) /\ Len(a \o bd) = 8
       /\ (a \o bd)[1] = At("ignoreIfError", 0) /\ (a \o bd)[2] = At("cursor", 0)
       /\ (a \o bd)[3] = At("print", 0) /\ (a \o bd)[4] = At("cursor", 1)
       /\ (a \o bd)[5] = At("print", 1) /\ (a \o bd)[6] = At("setTemp", 0)
       /\ (a \o bd)[7] = At("changePeriod", 0) /\ (a \o bd)[8] = At("start", 0)
  BY <1>4, <1>10, <1>11, <1>12
<1> QED BY <1>2, <1>13 DEF bd

\* A temporary error: the flag comes first.
LEMMA TempErrorCode ==
  LET c == Script("tempError")
  IN  /\ c \in Seq(Steps) /\ Len(c) = 8 /\ c[1] = At("setTemp", 0)
      /\ c[2] = At("clear", 0) /\ c[3] = At("cursor", 0) /\ c[4] = At("print", 0)
      /\ c[5] = At("cursor", 1) /\ c[6] = At("print", 1) /\ c[7] = At("changePeriod", 0)
      /\ c[8] = At("start", 0)
<1> DEFINE a == <<Do("setTemp"), Do("clear")>>
           b == DrawBoth("print")
           d == <<Do("changePeriod"), Do("start")>>
<1>1. 0 \in Rows /\ 1 \in Rows BY DEF Rows
<1>2. Script("tempError") = (a \o b) \o d BY DEF Script
<1>3. /\ At("setTemp", 0) \in Steps /\ At("clear", 0) \in Steps
  BY <1>1, AtStep DEF StepNames
<1>4. /\ a \in Seq(Steps) /\ Len(a) = 2 /\ a[1] = At("setTemp", 0)
      /\ a[2] = At("clear", 0)
  BY <1>3 DEF Do
<1>5. /\ b \in Seq(Steps) /\ Len(b) = 4 /\ b[1] = At("cursor", 0)
      /\ b[2] = At("print", 0) /\ b[3] = At("cursor", 1) /\ b[4] = At("print", 1)
  BY <1>1, DrawBothCode
<1>6. /\ At("changePeriod", 0) \in Steps /\ At("start", 0) \in Steps
  BY <1>1, AtStep DEF StepNames
<1>7. /\ d \in Seq(Steps) /\ Len(d) = 2 /\ d[1] = At("changePeriod", 0)
      /\ d[2] = At("start", 0)
  BY <1>6 DEF Do
<1> HIDE DEF a, b, d
<1> DEFINE ab == a \o b
<1>8. /\ a \o b \in Seq(Steps) /\ Len(a \o b) = Len(a) + Len(b)
      /\ \A i \in 1 .. Len(a) + Len(b) :
           (a \o b)[i] = IF i <= Len(a) THEN a[i] ELSE b[i - Len(a)]
  BY <1>4, <1>5, ConcatProperties
<1>9. /\ Len(a \o b) = 6
      /\ \A i \in 1 .. 6 :
           (a \o b)[i] = IF i <= 2 THEN a[i] ELSE b[i - 2]
  BY <1>4, <1>5, <1>8
<1>10. /\ ab \in Seq(Steps) /\ Len(ab) = 6 /\ ab[1] = At("setTemp", 0)
       /\ ab[2] = At("clear", 0) /\ ab[3] = At("cursor", 0) /\ ab[4] = At("print", 0)
       /\ ab[5] = At("cursor", 1) /\ ab[6] = At("print", 1)
  BY <1>4, <1>5, <1>8, <1>9
<1> HIDE DEF ab
<1>11. /\ ab \o d \in Seq(Steps) /\ Len(ab \o d) = Len(ab) + Len(d)
      /\ \A i \in 1 .. Len(ab) + Len(d) :
           (ab \o d)[i] = IF i <= Len(ab) THEN ab[i] ELSE d[i - Len(ab)]
  BY <1>10, <1>7, ConcatProperties
<1>12. /\ Len(ab \o d) = 8
      /\ \A i \in 1 .. 8 :
           (ab \o d)[i] = IF i <= 6 THEN ab[i] ELSE d[i - 6]
  BY <1>10, <1>7, <1>11
<1>13. /\ ab \o d \in Seq(Steps) /\ Len(ab \o d) = 8 /\ (ab \o d)[1] = At("setTemp", 0)
       /\ (ab \o d)[2] = At("clear", 0) /\ (ab \o d)[3] = At("cursor", 0)
       /\ (ab \o d)[4] = At("print", 0) /\ (ab \o d)[5] = At("cursor", 1)
       /\ (ab \o d)[6] = At("print", 1) /\ (ab \o d)[7] = At("changePeriod", 0)
       /\ (ab \o d)[8] = At("start", 0)
  BY <1>10, <1>7, <1>11, <1>12
<1> QED BY <1>2, <1>13 DEF ab

\* An error screen.
LEMMA ErrorCode ==
  LET c == Script("error")
  IN  /\ c \in Seq(Steps) /\ Len(c) = 6 /\ c[1] = At("setError", 0)
      /\ c[2] = At("clear", 0) /\ c[3] = At("cursor", 0) /\ c[4] = At("print", 0)
      /\ c[5] = At("cursor", 1) /\ c[6] = At("print", 1)
<1> DEFINE a == <<Do("setError"), Do("clear")>>
           b == DrawBoth("print")
<1>1. 0 \in Rows /\ 1 \in Rows BY DEF Rows
<1>2. Script("error") = a \o b BY DEF Script
<1>3. /\ At("setError", 0) \in Steps /\ At("clear", 0) \in Steps
  BY <1>1, AtStep DEF StepNames
<1>4. /\ a \in Seq(Steps) /\ Len(a) = 2 /\ a[1] = At("setError", 0)
      /\ a[2] = At("clear", 0)
  BY <1>3 DEF Do
<1>5. /\ b \in Seq(Steps) /\ Len(b) = 4 /\ b[1] = At("cursor", 0)
      /\ b[2] = At("print", 0) /\ b[3] = At("cursor", 1) /\ b[4] = At("print", 1)
  BY <1>1, DrawBothCode
<1> HIDE DEF a, b
<1>6. /\ a \o b \in Seq(Steps) /\ Len(a \o b) = Len(a) + Len(b)
      /\ \A i \in 1 .. Len(a) + Len(b) :
           (a \o b)[i] = IF i <= Len(a) THEN a[i] ELSE b[i - Len(a)]
  BY <1>4, <1>5, ConcatProperties
<1>7. /\ Len(a \o b) = 6
      /\ \A i \in 1 .. 6 :
           (a \o b)[i] = IF i <= 2 THEN a[i] ELSE b[i - 2]
  BY <1>4, <1>5, <1>6
<1>8. /\ a \o b \in Seq(Steps) /\ Len(a \o b) = 6 /\ (a \o b)[1] = At("setError", 0)
      /\ (a \o b)[2] = At("clear", 0) /\ (a \o b)[3] = At("cursor", 0)
      /\ (a \o b)[4] = At("print", 0) /\ (a \o b)[5] = At("cursor", 1)
      /\ (a \o b)[6] = At("print", 1)
  BY <1>4, <1>5, <1>6, <1>7
<1> QED BY <1>2, <1>8

\* ui_restore_screen.
LEMMA RestoreCode ==
  LET c == Restore
  IN  /\ c \in Seq(Steps) /\ Len(c) = 5 /\ c[1] = At("clearError", 0)
      /\ c[2] = At("cursor", 0) /\ c[3] = At("reprint", 0) /\ c[4] = At("cursor", 1)
      /\ c[5] = At("reprint", 1)
<1> DEFINE a == <<Do("clearError")>>
           b == DrawBoth("reprint")
<1>1. 0 \in Rows /\ 1 \in Rows BY DEF Rows
<1>2. Restore = a \o b BY DEF Restore
<1>3. /\ At("clearError", 0) \in Steps
  BY <1>1, AtStep DEF StepNames
<1>4. /\ a \in Seq(Steps) /\ Len(a) = 1 /\ a[1] = At("clearError", 0)
  BY <1>3 DEF Do
<1>5. /\ b \in Seq(Steps) /\ Len(b) = 4 /\ b[1] = At("cursor", 0)
      /\ b[2] = At("reprint", 0) /\ b[3] = At("cursor", 1) /\ b[4] = At("reprint", 1)
  BY <1>1, DrawBothCode
<1> HIDE DEF a, b
<1>6. /\ a \o b \in Seq(Steps) /\ Len(a \o b) = Len(a) + Len(b)
      /\ \A i \in 1 .. Len(a) + Len(b) :
           (a \o b)[i] = IF i <= Len(a) THEN a[i] ELSE b[i - Len(a)]
  BY <1>4, <1>5, ConcatProperties
<1>7. /\ Len(a \o b) = 5
      /\ \A i \in 1 .. 5 :
           (a \o b)[i] = IF i <= 1 THEN a[i] ELSE b[i - 1]
  BY <1>4, <1>5, <1>6
<1>8. /\ a \o b \in Seq(Steps) /\ Len(a \o b) = 5 /\ (a \o b)[1] = At("clearError", 0)
      /\ (a \o b)[2] = At("cursor", 0) /\ (a \o b)[3] = At("reprint", 0)
      /\ (a \o b)[4] = At("cursor", 1) /\ (a \o b)[5] = At("reprint", 1)
  BY <1>4, <1>5, <1>6, <1>7
<1> QED BY <1>2, <1>8

\* ui_restore_timer_callback.
LEMMA ExpiredCode ==
  LET c == Expired
  IN  /\ c \in Seq(Steps) /\ Len(c) = 6 /\ c[1] = At("clearTemp", 0)
      /\ c[2] = At("clearError", 0) /\ c[3] = At("cursor", 0) /\ c[4] = At("reprint", 0)
      /\ c[5] = At("cursor", 1) /\ c[6] = At("reprint", 1)
<1> DEFINE a == <<Do("clearTemp")>>
           b == Restore
<1>1. 0 \in Rows /\ 1 \in Rows BY DEF Rows
<1>2. Expired = a \o b BY DEF Expired
<1>3. /\ At("clearTemp", 0) \in Steps
  BY <1>1, AtStep DEF StepNames
<1>4. /\ a \in Seq(Steps) /\ Len(a) = 1 /\ a[1] = At("clearTemp", 0)
  BY <1>3 DEF Do
<1>5. /\ b \in Seq(Steps) /\ Len(b) = 5 /\ b[1] = At("clearError", 0)
      /\ b[2] = At("cursor", 0) /\ b[3] = At("reprint", 0) /\ b[4] = At("cursor", 1)
      /\ b[5] = At("reprint", 1)
  BY <1>1, RestoreCode
<1> HIDE DEF a, b
<1>6. /\ a \o b \in Seq(Steps) /\ Len(a \o b) = Len(a) + Len(b)
      /\ \A i \in 1 .. Len(a) + Len(b) :
           (a \o b)[i] = IF i <= Len(a) THEN a[i] ELSE b[i - Len(a)]
  BY <1>4, <1>5, ConcatProperties
<1>7. /\ Len(a \o b) = 6
      /\ \A i \in 1 .. 6 :
           (a \o b)[i] = IF i <= 1 THEN a[i] ELSE b[i - 1]
  BY <1>4, <1>5, <1>6
<1>8. /\ a \o b \in Seq(Steps) /\ Len(a \o b) = 6 /\ (a \o b)[1] = At("clearTemp", 0)
      /\ (a \o b)[2] = At("clearError", 0) /\ (a \o b)[3] = At("cursor", 0)
      /\ (a \o b)[4] = At("reprint", 0) /\ (a \o b)[5] = At("cursor", 1)
      /\ (a \o b)[6] = At("reprint", 1)
  BY <1>4, <1>5, <1>6, <1>7
<1> QED BY <1>2, <1>8

--------------------------------------------------------------------------------
(* Where a task is.                                                              *)

Kinds == OpNames \cup {"expired"}
Code(k) == IF k = "expired" THEN Expired ELSE Script(k)
Places(k) == 1 .. Len(Code(k)) + 1
Rest(k, i) == SubSeq(Code(k), i, Len(Code(k)))

\* Task t has the steps of k from the i-th on before it, and what k draws.
Stands(t, k, i) == /\ todo[t] = Rest(k, i)
                   /\ k # "expired" => text[t] \in TextOf(k)

PlaceInv == /\ todo \in [Tasks -> Seq(Steps)]
            /\ \A t \in Tasks : \E k \in Kinds : \E i \in Places(k) : Stands(t, k, i)

\* From these places a task is sure to start the timer (a message that is past its look at
\* the error screen), or is the callback that is about to drop the flag.
Ends(k, i) == \/ k = "message" /\ i \in 2 .. 7
              \/ k = "tempError" /\ i \in 1 .. 7
              \/ k = "expired" /\ i = 1

\* From these it is sure to draw row r, unless it sees an overlay first.
Draws(k, i, r) == \/ k = "page" /\ i \in (IF r = 0 THEN 2 .. 4 ELSE 6 .. 8)
                  \/ k = "restore" /\ i \in 1 .. (IF r = 0 THEN 3 ELSE 5)
                  \/ k \in {"error", "expired"} /\ i \in 1 .. (IF r = 0 THEN 4 ELSE 6)

\* The timer of a temporary screen runs or is about to, or was refused.
Timed == running \/ UiPending \/ lost

Ending == \E t \in Tasks, k \in Kinds : \E i \in Places(k) : Stands(t, k, i) /\ Ends(k, i)
Drawing(r) == \E t \in Tasks, k \in Kinds : \E i \in Places(k) :
                Stands(t, k, i) /\ Draws(k, i, r)

\* An overlay with its end, a flag that falls only before both rows are drawn again, or a
\* task that draws the row.
Covered(r) == isTemp \/ isError \/ Timed \/ Ending \/ Drawing(r)

TempInv == isTemp => Timed \/ Ending
RowInv == \A r \in Rows \ torn : lcd[r] \in {saved[r], "error"} \/ Covered(r)

IInv == TypeOK /\ PlaceInv /\ TempInv /\ RowInv

\* What the step at a place of the code is.
Is(k, i, do) == Code(k)[i].do = do

LEMMA CodeOf ==
  /\ Code("page") = Script("page") /\ Code("message") = Script("message")
  /\ Code("tempError") = Script("tempError") /\ Code("error") = Script("error")
  /\ Code("restore") = Restore /\ Code("expired") = Expired
<1>1. Script("restore") = Restore BY DEF Script
<1> QED BY <1>1 DEF Code

LEMMA Lengths ==
  /\ Len(Code("page")) = 8 /\ Len(Code("message")) = 8 /\ Len(Code("tempError")) = 8
  /\ Len(Code("error")) = 6 /\ Len(Code("restore")) = 5 /\ Len(Code("expired")) = 6
BY CodeOf, PageCode, MessageCode, TempErrorCode, ErrorCode, RestoreCode, ExpiredCode

LEMMA CodeType ==
  ASSUME NEW k \in Kinds
  PROVE  Code(k) \in Seq(Steps) /\ Len(Code(k)) \in 5 .. 8
BY CodeOf, PageCode, MessageCode, TempErrorCode, ErrorCode, RestoreCode, ExpiredCode
   DEF Kinds, OpNames

\* The rows of the steps that draw or save.
RowAt(k, i) == Code(k)[i].row

LEMMA PageSteps ==
  /\ Is("page", 1, "save") /\ RowAt("page", 1) = 0 /\ Is("page", 2, "look")
  /\ Is("page", 3, "cursor") /\ Is("page", 4, "reprint") /\ RowAt("page", 4) = 0
  /\ Is("page", 5, "save") /\ RowAt("page", 5) = 1 /\ Is("page", 6, "look")
  /\ Is("page", 7, "cursor") /\ Is("page", 8, "reprint") /\ RowAt("page", 8) = 1
BY CodeOf, PageCode DEF Is, RowAt, At

LEMMA MessageSteps ==
  /\ Is("message", 1, "ignoreIfError") /\ Is("message", 2, "cursor")
  /\ Is("message", 3, "print") /\ Is("message", 4, "cursor") /\ Is("message", 5, "print")
  /\ Is("message", 6, "setTemp") /\ Is("message", 7, "changePeriod")
  /\ Is("message", 8, "start")
BY CodeOf, MessageCode DEF Is, At

LEMMA TempErrorSteps ==
  /\ Is("tempError", 1, "setTemp") /\ Is("tempError", 2, "clear")
  /\ Is("tempError", 3, "cursor") /\ Is("tempError", 4, "print")
  /\ Is("tempError", 5, "cursor") /\ Is("tempError", 6, "print")
  /\ Is("tempError", 7, "changePeriod") /\ Is("tempError", 8, "start")
BY CodeOf, TempErrorCode DEF Is, At

LEMMA ErrorSteps ==
  /\ Is("error", 1, "setError") /\ Is("error", 2, "clear") /\ Is("error", 3, "cursor")
  /\ Is("error", 4, "print") /\ RowAt("error", 4) = 0 /\ Is("error", 5, "cursor")
  /\ Is("error", 6, "print") /\ RowAt("error", 6) = 1
BY CodeOf, ErrorCode DEF Is, RowAt, At

LEMMA RestoreSteps ==
  /\ Is("restore", 1, "clearError") /\ Is("restore", 2, "cursor")
  /\ Is("restore", 3, "reprint") /\ RowAt("restore", 3) = 0
  /\ Is("restore", 4, "cursor")
  /\ Is("restore", 5, "reprint") /\ RowAt("restore", 5) = 1
BY CodeOf, RestoreCode DEF Is, RowAt, At

LEMMA ExpiredSteps ==
  /\ Is("expired", 1, "clearTemp") /\ Is("expired", 2, "clearError")
  /\ Is("expired", 3, "cursor")
  /\ Is("expired", 4, "reprint") /\ RowAt("expired", 4) = 0
  /\ Is("expired", 5, "cursor")
  /\ Is("expired", 6, "reprint") /\ RowAt("expired", 6) = 1
BY CodeOf, ExpiredCode DEF Is, RowAt, At

\* Which function a step belongs to.
LEMMA WhereIs ==
  ASSUME NEW k \in Kinds, NEW i \in 1 .. Len(Code(k))
  PROVE  /\ Is(k, i, "save") => k = "page" /\ i \in {1, 5}
         /\ Is(k, i, "look") => k = "page" /\ i \in {2, 6}
         /\ Is(k, i, "ignoreIfError") => k = "message" /\ i = 1
         /\ Is(k, i, "print") => \/ k = "message" /\ i \in {3, 5}
                                 \/ k \in {"tempError", "error"} /\ i \in {4, 6}
         /\ Is(k, i, "clear") => k \in {"tempError", "error"} /\ i = 2
         /\ Is(k, i, "setTemp") => <<k, i>> \in {<<"message", 6>>, <<"tempError", 1>>}
         /\ Is(k, i, "clearTemp") => k = "expired" /\ i = 1
         /\ Is(k, i, "clearError") => <<k, i>> \in {<<"restore", 1>>, <<"expired", 2>>}
<1>1. CASE k = "page"
  <2>1. i \in 1 .. 8 BY <1>1, Lengths
  <2> QED BY <1>1, <2>1, PageSteps DEF Is
<1>2. CASE k = "message"
  <2>1. i \in 1 .. 8 BY <1>2, Lengths
  <2> QED BY <1>2, <2>1, MessageSteps DEF Is
<1>3. CASE k = "tempError"
  <2>1. i \in 1 .. 8 BY <1>3, Lengths
  <2> QED BY <1>3, <2>1, TempErrorSteps DEF Is
<1>4. CASE k = "error"
  <2>1. i \in 1 .. 6 BY <1>4, Lengths
  <2> QED BY <1>4, <2>1, ErrorSteps DEF Is
<1>5. CASE k = "restore"
  <2>1. i \in 1 .. 5 BY <1>5, Lengths
  <2> QED BY <1>5, <2>1, RestoreSteps DEF Is
<1>6. CASE k = "expired"
  <2>1. i \in 1 .. 6 BY <1>6, Lengths
  <2> QED BY <1>6, <2>1, ExpiredSteps DEF Is
<1> QED BY <1>1, <1>2, <1>3, <1>4, <1>5, <1>6 DEF Kinds, OpNames

\* A step leaves a task among the places that end or draw, unless it does so.
LEMMA NextPlace ==
  ASSUME NEW k \in Kinds, NEW i \in 1 .. Len(Code(k))
  PROVE  /\ Ends(k, i) => \/ Ends(k, i + 1)
                          \/ Is(k, i, "changePeriod") \/ Is(k, i, "clearTemp")
         /\ \A r \in Rows : Draws(k, i, r) =>
              \/ Draws(k, i + 1, r)
              \/ RowAt(k, i) = r /\ (Is(k, i, "print") \/ Is(k, i, "reprint"))
<1> USE DEF Ends, Draws, Rows
<1>1. CASE k = "page"
  <2>1. i \in 1 .. 8 BY <1>1, Lengths
  <2> QED BY <1>1, <2>1, PageSteps
<1>2. CASE k = "message"
  <2>1. i \in 1 .. 8 BY <1>2, Lengths
  <2> QED BY <1>2, <2>1, MessageSteps
<1>3. CASE k = "tempError"
  <2>1. i \in 1 .. 8 BY <1>3, Lengths
  <2> QED BY <1>3, <2>1, TempErrorSteps
<1>4. CASE k = "error"
  <2>1. i \in 1 .. 6 BY <1>4, Lengths
  <2> QED BY <1>4, <2>1, ErrorSteps
<1>5. CASE k = "restore"
  <2>1. i \in 1 .. 5 BY <1>5, Lengths
  <2> QED BY <1>5, <2>1, RestoreSteps
<1>6. CASE k = "expired"
  <2>1. i \in 1 .. 6 BY <1>6, Lengths
  <2> QED BY <1>6, <2>1, ExpiredSteps
<1> QED BY <1>1, <1>2, <1>3, <1>4, <1>5, <1>6 DEF Kinds, OpNames

\* The rest of a code is empty at its end only, and a step leaves the rest from the next
\* place on.
LEMMA RestSteps ==
  ASSUME NEW k \in Kinds, NEW i \in Places(k)
  PROVE  /\ Rest(k, i) \in Seq(Steps)
         /\ Rest(k, i) # <<>> <=> i <= Len(Code(k))
         /\ i <= Len(Code(k)) => /\ Head(Rest(k, i)) = Code(k)[i]
                                 /\ Tail(Rest(k, i)) = Rest(k, i + 1)
                                 /\ i + 1 \in Places(k)
<1> DEFINE c == Code(k)
           n == Len(c)
           s == Rest(k, i)
<1>1. c \in Seq(Steps) /\ n \in Nat BY CodeType
<1>2. i \in 1 .. n + 1 BY DEF Places
<1>3. \A j \in i .. n : c[j] \in Steps BY <1>1, <1>2, ElementOfSeq
<1> HIDE DEF c, n
<1>4. /\ s = SubSeq(c, i, n) /\ Places(k) = 1 .. n + 1
  BY DEF Rest, Places, c, n
<1>5. /\ s \in Seq(Steps) /\ Len(s) = IF i <= n THEN n - i + 1 ELSE 0
      /\ \A j \in 1 .. n - i + 1 : s[j] = c[i + j - 1]
  BY <1>1, <1>2, <1>3, <1>4, SubSeqProperties
<1>6. s # <<>> <=> i <= n
  <2>1. s = <<>> => Len(s) = 0 BY EmptySeq
  <2>2. s # <<>> => Len(s) \in Nat \ {0} BY <1>5, EmptySeq
  <2> QED BY <1>1, <1>2, <1>5, <2>1, <2>2
<1>7. ASSUME i <= n PROVE Head(s) = c[i] /\ Tail(s) = Rest(k, i + 1)
  <2>1. Head(s) = c[i]
    BY <1>1, <1>2, <1>5, <1>7
  <2>2. Tail(s) = SubSeq(c, i + 1, n)
    BY <1>1, <1>2, <1>4, <1>7, HeadTailOfSubSeq
  <2> QED BY <2>1, <2>2 DEF Rest, c, n
<1> QED BY <1>1, <1>2, <1>4, <1>5, <1>6, <1>7 DEF c, n

--------------------------------------------------------------------------------
(* What a step of one task does to the places of all.                            *)

\* A task is put at a place, and the others stay where they are.
LEMMA Moved ==
  ASSUME PlaceInv, text \in [Tasks -> Shown],
         NEW t \in Tasks, NEW k \in Kinds, NEW i \in Places(k), NEW x \in Shown,
         todo' = [todo EXCEPT ![t] = Rest(k, i)], text' = [text EXCEPT ![t] = x],
         k # "expired" => x \in TextOf(k)
  PROVE  /\ PlaceInv' /\ Stands(t, k, i)' /\ text' \in [Tasks -> Shown]
         /\ \A u \in Tasks \ {t}, k2 \in Kinds : \A i2 \in Places(k2) :
              Stands(u, k2, i2)' <=> Stands(u, k2, i2)
<1>1. Rest(k, i) \in Seq(Steps) BY RestSteps
<1>2. todo' \in [Tasks -> Seq(Steps)] /\ text' \in [Tasks -> Shown]
  BY <1>1 DEF PlaceInv
<1>3. Stands(t, k, i)' BY DEF PlaceInv, Stands
<1>4. \A u \in Tasks \ {t}, k2 \in Kinds : \A i2 \in Places(k2) :
        Stands(u, k2, i2)' <=> Stands(u, k2, i2)
  BY DEF PlaceInv, Stands
<1>5. \A u \in Tasks : \E k2 \in Kinds : \E i2 \in Places(k2) : Stands(u, k2, i2)'
  BY <1>3, <1>4 DEF PlaceInv
<1> QED BY <1>2, <1>3, <1>4, <1>5 DEF PlaceInv

\* A task that has steps before it is at a place of some code, at that step.
LEMMA Here ==
  ASSUME PlaceInv, NEW t \in Tasks, todo[t] # <<>>, NEW k \in Kinds, NEW i \in Places(k),
         Stands(t, k, i)
  PROVE  /\ i \in 1 .. Len(Code(k)) /\ i + 1 \in Places(k)
         /\ Head(todo[t]) = Code(k)[i] /\ Tail(todo[t]) = Rest(k, i + 1)
<1>1. Len(Code(k)) \in Nat BY CodeType
<1> QED BY <1>1, RestSteps DEF Stands, Places

\* A task that takes its next step goes on to the next place, wherever it may be said to
\* stand.
LEMMA DoneStep ==
  ASSUME PlaceInv, text \in [Tasks -> Shown], NEW t \in Tasks, todo[t] # <<>>, Done(t)
  PROVE  /\ PlaceInv' /\ text' = text
         /\ \A u \in Tasks \ {t}, k \in Kinds : \A i \in Places(k) :
              Stands(u, k, i)' <=> Stands(u, k, i)
         /\ \A k \in Kinds : \A i \in Places(k) : Stands(t, k, i) =>
              /\ i \in 1 .. Len(Code(k)) /\ Head(todo[t]) = Code(k)[i]
              /\ i + 1 \in Places(k) /\ Stands(t, k, i + 1)'
<1>1. text' = text /\ text[t] \in Shown /\ text' = [text EXCEPT ![t] = text[t]]
  BY DEF Done
<1>2. ASSUME NEW k \in Kinds, NEW i \in Places(k), Stands(t, k, i)
      PROVE  /\ i \in 1 .. Len(Code(k)) /\ Head(todo[t]) = Code(k)[i]
             /\ i + 1 \in Places(k) /\ Stands(t, k, i + 1)'
             /\ PlaceInv'
             /\ \A u \in Tasks \ {t}, k2 \in Kinds : \A i2 \in Places(k2) :
                  Stands(u, k2, i2)' <=> Stands(u, k2, i2)
  <2>1. /\ i \in 1 .. Len(Code(k)) /\ i + 1 \in Places(k)
        /\ Head(todo[t]) = Code(k)[i] /\ Tail(todo[t]) = Rest(k, i + 1)
    BY <1>2, Here
  <2>2. todo' = [todo EXCEPT ![t] = Rest(k, i + 1)]
    BY <2>1 DEF Done, PlaceInv
  <2>3. k # "expired" => text[t] \in TextOf(k) BY <1>2 DEF Stands
  <2> QED BY <1>1, <2>1, <2>2, <2>3, Moved
<1> QED BY <1>1, <1>2 DEF PlaceInv

\* Where the task is that takes a step `do'.
LEMMA StepPlace ==
  ASSUME PlaceInv, text \in [Tasks -> Shown], NEW t \in Tasks, NEW do, Next1(t, do)
  PROVE  /\ todo[t] # <<>>
         /\ \E k \in Kinds : \E i \in Places(k) :
              /\ Stands(t, k, i) /\ Is(k, i, do) /\ RowAt(k, i) = Row(t)
              /\ i \in 1 .. Len(Code(k)) /\ i + 1 \in Places(k)
              /\ Row(t) \in Rows /\ do \in StepNames
              /\ k # "expired" => text[t] \in TextOf(k)
<1>1. todo[t] # <<>> /\ Head(todo[t]).do = do BY DEF Next1
<1>2. PICK k \in Kinds : \E i \in Places(k) : Stands(t, k, i) BY DEF PlaceInv
<1>3. PICK i \in Places(k) : Stands(t, k, i) BY <1>2
<1>4. i \in 1 .. Len(Code(k)) /\ i + 1 \in Places(k) /\ Head(todo[t]) = Code(k)[i]
  BY <1>1, <1>3, Here
<1>5. Code(k)[i] \in Steps BY <1>4, CodeType, ElementOfSeq
<1> QED BY <1>1, <1>3, <1>4, <1>5 DEF Is, RowAt, Row, Stands, Steps

\* What was going to end an overlay or to draw a row still is, unless it has just done so.
LEMMA GoesOn ==
  ASSUME PlaceInv, text \in [Tasks -> Shown], NEW t \in Tasks, todo[t] # <<>>, Done(t)
  PROVE  /\ Ending => Ending' \/ Next1(t, "changePeriod") \/ Next1(t, "clearTemp")
         /\ \A r \in Rows : Drawing(r) =>
              Drawing(r)' \/ (Row(t) = r /\ (Next1(t, "print") \/ Next1(t, "reprint")))
<1>0. /\ \A u \in Tasks \ {t}, k \in Kinds : \A i \in Places(k) :
            Stands(u, k, i)' <=> Stands(u, k, i)
      /\ \A k \in Kinds : \A i \in Places(k) : Stands(t, k, i) =>
            /\ i \in 1 .. Len(Code(k)) /\ Head(todo[t]) = Code(k)[i]
            /\ i + 1 \in Places(k) /\ Stands(t, k, i + 1)'
  BY DoneStep
<1>1. ASSUME Ending PROVE Ending' \/ Next1(t, "changePeriod") \/ Next1(t, "clearTemp")
  <2>1. PICK u \in Tasks, k \in Kinds : \E i \in Places(k) : Stands(u, k, i) /\ Ends(k, i)
    BY <1>1 DEF Ending
  <2>2. PICK i \in Places(k) : Stands(u, k, i) /\ Ends(k, i) BY <2>1
  <2>3. CASE u # t
    <3>1. Stands(u, k, i)' BY <1>0, <2>2, <2>3
    <3> QED BY <2>2, <3>1 DEF Ending
  <2>4. CASE u = t
    <3>1. /\ i \in 1 .. Len(Code(k)) /\ Head(todo[t]) = Code(k)[i]
          /\ i + 1 \in Places(k) /\ Stands(t, k, i + 1)'
      BY <1>0, <2>2, <2>4
    <3>2. \/ Ends(k, i + 1) \/ Is(k, i, "changePeriod") \/ Is(k, i, "clearTemp")
      BY <2>2, <3>1, NextPlace
    <3>3. CASE Ends(k, i + 1)
      BY <3>1, <3>3 DEF Ending
    <3> QED BY <3>1, <3>2, <3>3 DEF Is, Next1
  <2> QED BY <2>3, <2>4
<1>2. ASSUME NEW r \in Rows, Drawing(r)
      PROVE  Drawing(r)' \/ (Row(t) = r /\ (Next1(t, "print") \/ Next1(t, "reprint")))
  <2>1. PICK u \in Tasks, k \in Kinds : \E i \in Places(k) : Stands(u, k, i) /\ Draws(k, i, r)
    BY <1>2 DEF Drawing
  <2>2. PICK i \in Places(k) : Stands(u, k, i) /\ Draws(k, i, r) BY <2>1
  <2>3. CASE u # t
    <3>1. Stands(u, k, i)' BY <1>0, <2>2, <2>3
    <3> QED BY <2>2, <3>1 DEF Drawing
  <2>4. CASE u = t
    <3>1. /\ i \in 1 .. Len(Code(k)) /\ Head(todo[t]) = Code(k)[i]
          /\ i + 1 \in Places(k) /\ Stands(t, k, i + 1)'
      BY <1>0, <2>2, <2>4
    <3>2. \/ Draws(k, i + 1, r)
          \/ RowAt(k, i) = r /\ (Is(k, i, "print") \/ Is(k, i, "reprint"))
      BY <2>2, <3>1, NextPlace
    <3>3. CASE Draws(k, i + 1, r)
      BY <3>1, <3>3 DEF Drawing
    <3> QED BY <3>1, <3>2, <3>3 DEF Is, RowAt, Row, Next1
  <2> QED BY <2>3, <2>4
<1> QED BY <1>1, <1>2

\* A look that finds an overlay goes to the next row, or to the end.
LEMMA SkipRow ==
  ASSUME NEW i \in {2, 6}
  PROVE  /\ SubSeq(Rest("page", i), Len(Draw("reprint", 0)) + 2, Len(Rest("page", i)))
              = Rest("page", i + 3)
         /\ i + 3 \in Places("page")
<1> DEFINE c == Code("page")
           s == Rest("page", i)
<1>1. c \in Seq(Steps) /\ Len(c) = 8 BY CodeType, Lengths DEF Kinds, OpNames
<1>2. Len(Draw("reprint", 0)) = 2 BY DrawCode DEF Rows
<1>3. \A j \in i .. 8 : c[j] \in Steps BY <1>1, ElementOfSeq
<1>4. s = SubSeq(c, i, 8) /\ Rest("page", i + 3) = SubSeq(c, i + 3, 8)
  BY <1>1 DEF Rest
<1> HIDE DEF c, s
<1>5. s \in Seq(Steps) /\ Len(s) = 8 - i + 1
  BY <1>3, <1>4, SubSeqProperties
<1>6. SubSeq(s, 4, Len(s)) = SubSeq(c, i + 3, 8)
  <2>1. CASE i = 2
    <3>1. SubSeq(SubSeq(c, 2, 8), 4, 7) = SubSeq(c, 2 + 4 - 1, 2 + 7 - 1)
      BY <1>1, SubSeqOfSubSeq
    <3> QED BY <1>4, <1>5, <2>1, <3>1
  <2>2. CASE i = 6
    <3>1. SubSeq(s, 4, 3) = <<>> BY SubSeqEmpty
    <3>2. SubSeq(c, 9, 8) = <<>> BY SubSeqEmpty
    <3> QED BY <1>5, <2>2, <3>1, <3>2
  <2> QED BY <2>1, <2>2
<1>7. i + 3 \in Places("page")
  <2>1. \A n : n = 8 => i + 3 \in 1 .. n + 1 OBVIOUS
  <2> QED BY <2>1, Lengths DEF Places
<1>8. Len(Draw("reprint", 0)) + 2 = 4
  <2>1. \A n : n = 2 => n + 2 = 4 OBVIOUS
  <2> QED BY <1>2, <2>1
<1> QED BY <1>4, <1>6, <1>7, <1>8 DEF s

--------------------------------------------------------------------------------
(* The inductive step, action by action.                                         *)

\* A step that leaves the flags and the timer alone keeps the end of the overlay, and
\* every row covered but one it draws itself.
LEMMA CoverKept ==
  ASSUME PlaceInv, TempInv, text \in [Tasks -> Shown], NEW t \in Tasks, todo[t] # <<>>,
         Done(t), UNCHANGED <<isTemp, isError, timerVars>>,
         ~Next1(t, "changePeriod"), ~Next1(t, "clearTemp")
  PROVE  /\ PlaceInv' /\ TempInv'
         /\ \A r \in Rows : Covered(r) =>
              Covered(r)' \/ (Row(t) = r /\ (Next1(t, "print") \/ Next1(t, "reprint")))
<1>1. PlaceInv' BY DoneStep
<1>2. Timed' <=> Timed BY DEF Timed, UiPending, timerVars
<1>3. Ending => Ending' BY GoesOn
<1>4. \A r \in Rows : Drawing(r) =>
        Drawing(r)' \/ (Row(t) = r /\ (Next1(t, "print") \/ Next1(t, "reprint")))
  BY GoesOn
<1>5. TempInv' BY <1>2, <1>3 DEF TempInv
<1>6. ASSUME NEW r \in Rows, Covered(r)
      PROVE  Covered(r)' \/ (Row(t) = r /\ (Next1(t, "print") \/ Next1(t, "reprint")))
  BY <1>2, <1>3, <1>4, <1>6 DEF Covered
<1> QED BY <1>1, <1>5, <1>6

\* A task that has arrived where it ends the overlay covers both rows, and one that has
\* arrived where it draws a row covers that.
LEMMA Arrived ==
  ASSUME NEW t \in Tasks, NEW k \in Kinds, NEW i \in Places(k), Stands(t, k, i)'
  PROVE  /\ Ends(k, i) => TempInv' /\ \A r \in Rows : Covered(r)'
         /\ \A r \in Rows : Draws(k, i, r) => Covered(r)'
<1>1. ASSUME Ends(k, i) PROVE Ending'
  BY <1>1 DEF Ending
<1>2. ASSUME NEW r \in Rows, Draws(k, i, r) PROVE Drawing(r)'
  BY <1>2 DEF Drawing
<1>3. Ends(k, i) => TempInv' BY <1>1 DEF TempInv
<1>4. ASSUME NEW r \in Rows PROVE Ends(k, i) \/ Draws(k, i, r) => Covered(r)'
  BY <1>1, <1>2 DEF Covered
<1> QED BY <1>3, <1>4

LEMMA SaveLineKeeps ==
  ASSUME IInv, NEW t \in Tasks, SaveLine(t)
  PROVE  IInv'
<1>0. PlaceInv /\ TempInv /\ RowInv /\ TypeOK /\ text \in [Tasks -> Shown]
  BY DEF IInv, TypeOK
<1>1. todo[t] # <<>> /\ Next1(t, "save") /\ Done(t) BY DEF SaveLine, Next1
<1>2. PICK k \in Kinds : \E i \in Places(k) :
        /\ Stands(t, k, i) /\ Is(k, i, "save") /\ RowAt(k, i) = Row(t)
        /\ i \in 1 .. Len(Code(k)) /\ Row(t) \in Rows
        /\ k # "expired" => text[t] \in TextOf(k)
  BY <1>0, <1>1, StepPlace
<1>3. PICK i \in Places(k) :
        /\ Stands(t, k, i) /\ Is(k, i, "save") /\ RowAt(k, i) = Row(t)
        /\ i \in 1 .. Len(Code(k)) /\ Row(t) \in Rows
        /\ k # "expired" => text[t] \in TextOf(k)
  BY <1>2
<1>4. k = "page" /\ i \in {1, 5} BY <1>3, WhereIs
<1>5. i + 1 \in Places(k) /\ Stands(t, k, i + 1)' BY <1>0, <1>1, <1>3, DoneStep
<1>5a. PICK q \in Rows : q = Row(t) BY <1>3
<1>6. Covered(q)'
  <2>1. Draws(k, i + 1, q) BY <1>3, <1>4, <1>5a, PageSteps DEF Draws
  <2> QED BY <1>5, <2>1, Arrived
<1>7. ~Next1(t, "changePeriod") /\ ~Next1(t, "clearTemp") /\ ~Next1(t, "print")
      /\ ~Next1(t, "reprint")
  BY <1>1 DEF Next1
<1>8. UNCHANGED <<isTemp, isError, screenVars, timerVars>> BY DEF SaveLine
<1>9. PlaceInv' /\ TempInv' /\ \A r \in Rows : Covered(r) => Covered(r)'
  BY <1>0, <1>1, <1>7, <1>8, CoverKept
<1>10. saved' = [saved EXCEPT ![q] = text[t]] /\ text[t] \in Pages
  BY <1>3, <1>5a, <1>4 DEF SaveLine, TextOf
<1>11. RowInv'
  <2>1. ASSUME NEW r \in Rows \ torn
        PROVE  lcd[r] \in {saved'[r], "error"} \/ Covered(r)'
    BY <1>0, <1>6, <1>9, <1>10, <2>1 DEF RowInv, TypeOK
  <2> QED BY <1>8, <2>1 DEF RowInv, screenVars
<1>12. TypeOK'
  BY <1>0, <1>1, <1>3, <1>8, <1>10 DEF TypeOK, Texts, Done, screenVars, timerVars
<1> QED BY <1>9, <1>11, <1>12 DEF IInv

\* A step that goes on and changes nothing else.
LEMMA OnlyOn ==
  ASSUME IInv, NEW t \in Tasks, todo[t] # <<>>, Done(t),
         UNCHANGED <<saved, isError, isTemp, screenVars, timerVars>>,
         ~Next1(t, "changePeriod"), ~Next1(t, "clearTemp"), ~Next1(t, "print"),
         ~Next1(t, "reprint")
  PROVE  IInv'
<1>0. PlaceInv /\ TempInv /\ RowInv /\ TypeOK /\ text \in [Tasks -> Shown]
  BY DEF IInv, TypeOK
<1>1. PlaceInv' /\ TempInv' /\ \A r \in Rows : Covered(r) => Covered(r)'
  BY <1>0, CoverKept
<1>2. RowInv' BY <1>0, <1>1 DEF RowInv, screenVars
<1>3. TypeOK' BY <1>0 DEF TypeOK, Done, screenVars, timerVars
<1> QED BY <1>1, <1>2, <1>3 DEF IInv

\* A task that is sent further ahead, from a place that neither ends nor draws.
LEMMA SkipKeeps ==
  ASSUME IInv, NEW t \in Tasks, NEW k \in Kinds, NEW i \in Places(k), isTemp \/ isError,
         todo' = [todo EXCEPT ![t] = Rest(k, i)], UNCHANGED text,
         k # "expired" => text[t] \in TextOf(k),
         \A k2 \in Kinds : \A i2 \in Places(k2) : Stands(t, k2, i2) => ~Ends(k2, i2),
         UNCHANGED <<saved, isError, isTemp, screenVars, timerVars>>
  PROVE  IInv'
<1>0. PlaceInv /\ TempInv /\ RowInv /\ TypeOK /\ text \in [Tasks -> Shown]
  BY DEF IInv, TypeOK
<1>1. text[t] \in Shown /\ text' = [text EXCEPT ![t] = text[t]] BY <1>0
<1>2. /\ PlaceInv'
      /\ \A u \in Tasks \ {t}, k2 \in Kinds : \A i2 \in Places(k2) :
           Stands(u, k2, i2)' <=> Stands(u, k2, i2)
  BY <1>0, <1>1, Moved
<1>3. Ending => Ending' BY <1>2 DEF Ending
<1>4. Timed' <=> Timed BY DEF Timed, UiPending, timerVars
<1>5. TempInv' BY <1>0, <1>3, <1>4 DEF TempInv
<1>6. \A r \in Rows : Covered(r)' BY DEF Covered
<1>7. RowInv' BY <1>6 DEF RowInv
<1>8. TypeOK' BY <1>0 DEF TypeOK, screenVars, timerVars
<1> QED BY <1>2, <1>5, <1>7, <1>8 DEF IInv

LEMMA LookKeeps ==
  ASSUME IInv, NEW t \in Tasks, Look(t)
  PROVE  IInv'
<1>0. PlaceInv /\ text \in [Tasks -> Shown] BY DEF IInv, TypeOK
<1>1. todo[t] # <<>> /\ Next1(t, "look") BY DEF Look, Next1
<1>2. UNCHANGED <<saved, isError, isTemp, screenVars, timerVars>> BY DEF Look
<1>3. CASE Done(t)
  BY <1>1, <1>2, <1>3, OnlyOn DEF Next1
<1>4. CASE ~Done(t)
  <2>1. /\ isTemp \/ isError
        /\ todo' = [todo EXCEPT ![t] = SubSeq(todo[t], Len(Draw("reprint", 0)) + 2,
                                              Len(todo[t]))]
        /\ UNCHANGED text
    BY <1>0, <1>4 DEF Look, PlaceInv
  <2>2. PICK k \in Kinds : \E i \in Places(k) :
          /\ Stands(t, k, i) /\ Is(k, i, "look") /\ i \in 1 .. Len(Code(k))
          /\ k # "expired" => text[t] \in TextOf(k)
    BY <1>0, <1>1, StepPlace
  <2>3. PICK i \in Places(k) :
          /\ Stands(t, k, i) /\ Is(k, i, "look") /\ i \in 1 .. Len(Code(k))
          /\ k # "expired" => text[t] \in TextOf(k)
    BY <2>2
  <2>4. k = "page" /\ i \in {2, 6} BY <2>3, WhereIs
  <2>5. todo[t] = Rest("page", i) BY <2>3, <2>4 DEF Stands
  <2>6. i + 3 \in Places(k) /\ todo' = [todo EXCEPT ![t] = Rest(k, i + 3)]
    BY <2>1, <2>4, <2>5, SkipRow
  <2>7. ASSUME NEW k2 \in Kinds, NEW i2 \in Places(k2), Stands(t, k2, i2)
        PROVE  ~Ends(k2, i2)
    <3>1. i2 \in 1 .. Len(Code(k2)) /\ Head(todo[t]) = Code(k2)[i2]
      BY <1>0, <1>1, <2>7, Here
    <3>2. Is(k2, i2, "look") BY <1>1, <3>1 DEF Is, Next1
    <3>3. k2 = "page" BY <3>1, <3>2, WhereIs
    <3> QED BY <3>3 DEF Ends
  <2> QED BY <1>2, <2>1, <2>3, <2>6, <2>7, SkipKeeps
<1> QED BY <1>3, <1>4

LEMMA IgnoreKeeps ==
  ASSUME IInv, NEW t \in Tasks, IgnoreIfError(t)
  PROVE  IInv'
<1>0. PlaceInv /\ text \in [Tasks -> Shown] BY DEF IInv, TypeOK
<1>1. todo[t] # <<>> /\ Next1(t, "ignoreIfError") BY DEF IgnoreIfError, Next1
<1>2. UNCHANGED <<saved, isError, isTemp, screenVars, timerVars>> BY DEF IgnoreIfError
<1>3. CASE Done(t)
  BY <1>1, <1>2, <1>3, OnlyOn DEF Next1
<1>4. CASE ~Done(t)
  <2>1. isError /\ todo' = [todo EXCEPT ![t] = <<>>] /\ UNCHANGED text
    BY <1>4 DEF IgnoreIfError
  <2>2. PICK k \in Kinds : \E i \in Places(k) :
          /\ Stands(t, k, i) /\ Is(k, i, "ignoreIfError") /\ i \in 1 .. Len(Code(k))
          /\ k # "expired" => text[t] \in TextOf(k)
    BY <1>0, <1>1, StepPlace
  <2>3. k = "message" /\ text[t] \in TextOf(k) BY <2>2, WhereIs
  <2>4. 9 \in Places(k) /\ Rest(k, 9) = <<>>
    <3>1. Len(Code(k)) = 8 BY <2>3, Lengths
    <3>2. SubSeq(Code(k), 9, 8) = <<>> BY SubSeqEmpty
    <3> QED BY <3>1, <3>2 DEF Places, Rest
  <2>5. todo' = [todo EXCEPT ![t] = Rest(k, 9)] BY <2>1, <2>4
  <2>6. ASSUME NEW k2 \in Kinds, NEW i2 \in Places(k2), Stands(t, k2, i2)
        PROVE  ~Ends(k2, i2)
    <3>1. i2 \in 1 .. Len(Code(k2)) /\ Head(todo[t]) = Code(k2)[i2]
      BY <1>0, <1>1, <2>6, Here
    <3>2. Is(k2, i2, "ignoreIfError") BY <1>1, <3>1 DEF Is, Next1
    <3>3. k2 = "message" /\ i2 = 1 BY <3>1, <3>2, WhereIs
    <3> QED BY <3>3 DEF Ends
  <2> QED BY <1>2, <2>1, <2>3, <2>4, <2>5, <2>6, SkipKeeps
<1> QED BY <1>3, <1>4

\* The place of a step, and the one after it.
LEMMA Goes ==
  ASSUME PlaceInv, text \in [Tasks -> Shown], NEW t \in Tasks, NEW do, Next1(t, do), Done(t)
  PROVE  /\ todo[t] # <<>>
         /\ \E k \in Kinds, i \in Nat, q \in Rows :
              /\ i \in 1 .. Len(Code(k)) /\ i + 1 \in Places(k)
              /\ Is(k, i, do) /\ RowAt(k, i) = q /\ q = Row(t)
              /\ Stands(t, k, i + 1)'
              /\ k # "expired" => text[t] \in TextOf(k)
<1>1. todo[t] # <<>> BY DEF Next1
<1>2. PICK k \in Kinds : \E i \in Places(k) :
        /\ Stands(t, k, i) /\ Is(k, i, do) /\ RowAt(k, i) = Row(t)
        /\ i \in 1 .. Len(Code(k)) /\ i + 1 \in Places(k) /\ Row(t) \in Rows
        /\ k # "expired" => text[t] \in TextOf(k)
  BY StepPlace
<1>3. PICK i \in Places(k) :
        /\ Stands(t, k, i) /\ Is(k, i, do) /\ RowAt(k, i) = Row(t)
        /\ i \in 1 .. Len(Code(k)) /\ i + 1 \in Places(k) /\ Row(t) \in Rows
        /\ k # "expired" => text[t] \in TextOf(k)
  BY <1>2
<1>4. Stands(t, k, i + 1)' BY <1>1, <1>3, DoneStep
<1>5. i \in Nat BY <1>3
<1>6. PICK q \in Rows : q = Row(t) BY <1>3
<1> QED BY <1>1, <1>3, <1>4, <1>5, <1>6

LEMMA SetCursorKeeps ==
  ASSUME IInv, NEW t \in Tasks, SetCursor(t)
  PROVE  IInv'
<1>0. PlaceInv /\ TempInv /\ RowInv /\ TypeOK /\ text \in [Tasks -> Shown]
  BY DEF IInv, TypeOK
<1>1. Next1(t, "cursor") /\ Done(t) /\ cursor' = Row(t) BY DEF SetCursor
<1>2. todo[t] # <<>> /\ Row(t) \in Rows BY <1>0, <1>1, StepPlace
<1>3. UNCHANGED <<saved, isError, isTemp, lcd, torn, timerVars>> BY DEF SetCursor
<1>4. PlaceInv' /\ TempInv' /\ \A r \in Rows : Covered(r) => Covered(r)'
  BY <1>0, <1>1, <1>2, <1>3, CoverKept DEF Next1
<1>5. RowInv' BY <1>0, <1>3, <1>4 DEF RowInv
<1>6. TypeOK' BY <1>0, <1>1, <1>2, <1>3 DEF TypeOK, Done, timerVars
<1> QED BY <1>4, <1>5, <1>6 DEF IInv

\* What is printed for a message or a temporary error is on its way out; an error screen
\* may stay; and what a page or a restore prints is the saved line.
LEMMA PrintKeeps ==
  ASSUME IInv, NEW t \in Tasks, PrintText(t)
  PROVE  IInv'
<1>0. PlaceInv /\ TempInv /\ RowInv /\ TypeOK /\ text \in [Tasks -> Shown]
  BY DEF IInv, TypeOK
<1>1. PICK do \in {"print", "reprint"} :
        /\ Next1(t, do)
        /\ do = "print" => lcd' = [lcd EXCEPT ![cursor] = text[t]]
        /\ do = "reprint" => lcd' = [lcd EXCEPT ![cursor] = saved[Row(t)]]
  BY DEF PrintText
<1>2. /\ torn' = IF cursor = Row(t) THEN torn \ {cursor} ELSE torn \cup {cursor, Row(t)}
      /\ Done(t)
      /\ UNCHANGED <<saved, isError, isTemp, cursor, timerVars>>
  BY DEF PrintText
<1>3. todo[t] # <<>> BY <1>0, <1>1, <1>2, Goes
<1>4. PICK k \in Kinds, i \in Nat, q \in Rows :
        /\ i \in 1 .. Len(Code(k)) /\ i + 1 \in Places(k)
        /\ Is(k, i, do) /\ RowAt(k, i) = q /\ q = Row(t)
        /\ Stands(t, k, i + 1)'
        /\ k # "expired" => text[t] \in TextOf(k)
  BY <1>0, <1>1, <1>2, Goes
<1>5. /\ PlaceInv' /\ TempInv'
      /\ \A r \in Rows \ {q} : Covered(r) => Covered(r)'
  BY <1>0, <1>1, <1>2, <1>3, <1>4, CoverKept DEF Next1
<1>6. \A r \in Rows \ torn' : r # q => r \notin torn /\ lcd'[r] = lcd[r]
  BY <1>0, <1>1, <1>2, <1>4 DEF TypeOK
<1>7. ASSUME q \notin torn'
      PROVE  lcd'[q] \in {saved[q], "error"} \/ Covered(q)'
  <2>1. cursor = q BY <1>2, <1>4, <1>7
  <2>2. CASE do = "reprint" BY <1>0, <1>1, <1>4, <2>1, <2>2 DEF TypeOK
  <2>3. CASE do = "print"
    <3>1. lcd'[q] = text[t] BY <1>0, <1>1, <2>1, <2>3 DEF TypeOK
    <3>2. \/ k = "message" /\ i \in {3, 5}
          \/ k \in {"tempError", "error"} /\ i \in {4, 6}
      BY <1>4, <2>3, WhereIs
    <3>3. CASE k = "error" BY <1>4, <3>1, <3>3 DEF TextOf
    <3>4. CASE k # "error"
      <4>1. Ends(k, i + 1) BY <3>2, <3>4 DEF Ends
      <4> QED BY <1>4, <4>1, Arrived
    <3> QED BY <3>3, <3>4
  <2> QED BY <2>2, <2>3
<1>8. RowInv'
  <2>1. ASSUME NEW r \in Rows \ torn'
        PROVE  lcd'[r] \in {saved'[r], "error"} \/ Covered(r)'
    <3>1. CASE r = q BY <1>2, <1>7, <2>1, <3>1
    <3>2. CASE r # q BY <1>0, <1>2, <1>5, <1>6, <2>1, <3>2 DEF RowInv
    <3> QED BY <3>1, <3>2
  <2> QED BY <2>1 DEF RowInv
<1>9. TypeOK'
  <2>1. lcd' \in [Rows -> Shown] BY <1>0, <1>1, <1>4 DEF TypeOK, Shown
  <2>2. torn' \subseteq Rows BY <1>0, <1>2, <1>4 DEF TypeOK
  <2> QED BY <1>0, <1>2, <2>1, <2>2 DEF TypeOK, Done, timerVars
<1> QED BY <1>5, <1>8, <1>9 DEF IInv

LEMMA ClearKeeps ==
  ASSUME IInv, NEW t \in Tasks, Clear(t)
  PROVE  IInv'
<1>0. PlaceInv /\ TempInv /\ RowInv /\ TypeOK /\ text \in [Tasks -> Shown]
  BY DEF IInv, TypeOK
<1>1. /\ Next1(t, "clear") /\ Done(t) /\ lcd' = [r \in Rows |-> "blank"] /\ cursor' = 0
      /\ UNCHANGED <<saved, isError, isTemp, torn, timerVars>>
  BY DEF Clear
<1>2. todo[t] # <<>> BY <1>0, <1>1, Goes
<1>3. PICK k \in Kinds, i \in Nat, q \in Rows :
        /\ i \in 1 .. Len(Code(k)) /\ i + 1 \in Places(k)
        /\ Is(k, i, "clear") /\ Stands(t, k, i + 1)'
  BY <1>0, <1>1, Goes
<1>4. PlaceInv' /\ TempInv' BY <1>0, <1>1, <1>2, CoverKept DEF Next1
<1>5. k \in {"tempError", "error"} /\ i = 2 BY <1>3, WhereIs
<1>6. \/ Ends(k, i + 1) \/ \A r \in Rows : Draws(k, i + 1, r)
  BY <1>5 DEF Ends, Draws, Rows
<1>7. \A r \in Rows : Covered(r)' BY <1>3, <1>6, Arrived
<1>8. RowInv' BY <1>7 DEF RowInv
<1>9. TypeOK' BY <1>0, <1>1 DEF TypeOK, Done, timerVars, Shown, Rows
<1> QED BY <1>4, <1>8, <1>9 DEF IInv

\* A flag falls only before both rows are drawn again.
LEMMA SetFlagKeeps ==
  ASSUME IInv, NEW t \in Tasks, SetFlag(t)
  PROVE  IInv'
<1>0. PlaceInv /\ TempInv /\ RowInv /\ TypeOK /\ text \in [Tasks -> Shown]
  BY DEF IInv, TypeOK
<1>1. PICK do \in {"setTemp", "clearTemp", "setError", "clearError"} :
        /\ Next1(t, do)
        /\ isTemp' = IF do = "setTemp" THEN TRUE
                     ELSE IF do = "clearTemp" THEN FALSE ELSE isTemp
        /\ isError' = IF do = "setError" THEN TRUE
                      ELSE IF do = "clearError" THEN FALSE ELSE isError
  BY DEF SetFlag
<1>2. Done(t) /\ UNCHANGED <<saved, screenVars, timerVars>> BY DEF SetFlag
<1>3. todo[t] # <<>> BY <1>0, <1>1, <1>2, Goes
<1>4. PICK k \in Kinds, i \in Nat, q \in Rows :
        /\ i \in 1 .. Len(Code(k)) /\ i + 1 \in Places(k)
        /\ Is(k, i, do) /\ Stands(t, k, i + 1)'
  BY <1>0, <1>1, <1>2, Goes
<1>5. PlaceInv' BY <1>0, <1>2, <1>3, DoneStep
<1>6. Timed' <=> Timed BY <1>2 DEF Timed, UiPending, timerVars
<1>7. Ending => Ending' \/ do = "clearTemp"
  BY <1>0, <1>1, <1>2, <1>3, GoesOn DEF Next1
<1>8. TempInv'
  <2>1. CASE do = "setTemp"
    <3>1. <<k, i>> \in {<<"message", 6>>, <<"tempError", 1>>} BY <1>4, <2>1, WhereIs
    <3>2. Ends(k, i + 1) BY <3>1 DEF Ends
    <3> QED BY <1>4, <3>2, Arrived
  <2>2. CASE do = "clearTemp" BY <1>1, <2>2 DEF TempInv
  <2>3. CASE do \in {"setError", "clearError"}
    BY <1>0, <1>1, <1>6, <1>7, <2>3 DEF TempInv
  <2> QED BY <2>1, <2>2, <2>3
<1>9. \A r \in Rows : Covered(r)'
  <2>1. CASE do = "setTemp" BY <1>1, <2>1 DEF Covered
  <2>2. CASE do = "setError" BY <1>1, <2>2 DEF Covered
  <2>3. CASE do = "clearTemp"
    <3>1. k = "expired" /\ i = 1 BY <1>4, <2>3, WhereIs
    <3>2. \A r \in Rows : Draws(k, i + 1, r) BY <3>1 DEF Draws, Rows
    <3> QED BY <1>4, <3>2, Arrived
  <2>4. CASE do = "clearError"
    <3>1. <<k, i>> \in {<<"restore", 1>>, <<"expired", 2>>} BY <1>4, <2>4, WhereIs
    <3>2. \A r \in Rows : Draws(k, i + 1, r) BY <3>1 DEF Draws, Rows
    <3> QED BY <1>4, <3>2, Arrived
  <2> QED BY <2>1, <2>2, <2>3, <2>4
<1>10. RowInv' BY <1>9 DEF RowInv
<1>11. TypeOK' BY <1>0, <1>1, <1>2 DEF TypeOK, Done, screenVars, timerVars
<1> QED BY <1>5, <1>8, <1>10, <1>11 DEF IInv

\* A command that is queued leaves the timer pending.
LEMMA Queued ==
  ASSUME commands \in Seq({"ui", "other"}), NEW c \in {"ui", "other"},
         commands' = Append(commands, c)
  PROVE  /\ commands' \in Seq({"ui", "other"}) /\ Len(commands') = Len(commands) + 1
         /\ c = "ui" \/ UiPending => UiPending'
<1>1. /\ commands' \in Seq({"ui", "other"}) /\ Len(commands') = Len(commands) + 1
      /\ \A i \in 1 .. Len(commands) : commands'[i] = commands[i]
      /\ commands'[Len(commands) + 1] = c
  BY AppendProperties
<1>2. Len(commands) \in Nat BY LenProperties
<1>3. Len(commands) + 1 \in 1 .. Len(commands') BY <1>1, <1>2
<1>4. c = "ui" => UiPending' BY <1>1, <1>3 DEF UiPending
<1>5. ASSUME UiPending PROVE UiPending'
  <2>1. PICK i \in 1 .. Len(commands) : commands[i] = "ui" BY <1>5 DEF UiPending
  <2>2. i \in 1 .. Len(commands') /\ commands'[i] = "ui" BY <1>1, <1>2, <2>1
  <2> QED BY <2>2 DEF UiPending
<1> QED BY <1>1, <1>4, <1>5

LEMMA CommandKeeps ==
  ASSUME IInv, NEW t \in Tasks, Command(t)
  PROVE  IInv'
<1>0. PlaceInv /\ TempInv /\ RowInv /\ TypeOK /\ text \in [Tasks -> Shown]
  BY DEF IInv, TypeOK
<1>1. /\ Next1(t, "changePeriod") \/ Next1(t, "start")
      /\ Done(t) /\ UNCHANGED <<saved, isError, isTemp, screenVars, running>>
  BY DEF Command
<1>2. todo[t] # <<>> BY <1>1 DEF Next1
<1>3. PlaceInv' BY <1>0, <1>1, <1>2, DoneStep
<1>4. CASE Room
  <2>1. commands' = Append(commands, "ui") /\ lost' = FALSE BY <1>4 DEF Command
  <2>2. /\ commands' \in Seq({"ui", "other"}) /\ Len(commands') = Len(commands) + 1
        /\ UiPending'
    BY <1>0, <2>1, Queued DEF TypeOK
  <2>3. Timed' BY <2>2 DEF Timed
  <2>4. TempInv' /\ RowInv' BY <2>3 DEF TempInv, RowInv, Covered
  <2>5. Len(commands') <= TimerQueue
    <3>1. Len(commands) \in Nat BY <1>0, LenProperties DEF TypeOK
    <3> QED BY <1>4, <2>2, <3>1, UiAssumption DEF Room
  <2>6. TypeOK' BY <1>0, <1>1, <2>1, <2>2, <2>5 DEF TypeOK, Done, screenVars
  <2> QED BY <1>3, <2>4, <2>6 DEF IInv
<1>5. CASE ~Room /\ Next1(t, "changePeriod")
  <2>1. UNCHANGED commands /\ lost' BY <1>5 DEF Command
  <2>2. Timed' BY <2>1 DEF Timed
  <2>3. TempInv' /\ RowInv' BY <2>2 DEF TempInv, RowInv, Covered
  <2>4. lost' \in BOOLEAN BY <1>0, <1>5 DEF Command, TypeOK
  <2>5. TypeOK' BY <1>0, <1>1, <2>1, <2>4 DEF TypeOK, Done, screenVars
  <2> QED BY <1>3, <2>3, <2>5 DEF IInv
<1>6. CASE ~Room /\ ~Next1(t, "changePeriod")
  <2>1. UNCHANGED timerVars BY <1>0, <1>1, <1>6 DEF Command, TypeOK, timerVars
  <2> QED BY <1>1, <1>2, <1>6, <2>1, OnlyOn DEF Next1
<1> QED BY <1>4, <1>5, <1>6

\* The places and what they end or draw hold as long as the tasks stand.
LEMMA NobodyMoves ==
  ASSUME UNCHANGED <<todo, text>>
  PROVE  /\ PlaceInv <=> PlaceInv'
         /\ Ending <=> Ending'
         /\ \A r \in Rows : Drawing(r) <=> Drawing(r)'
<1>1. \A t, k, i : Stands(t, k, i)' <=> Stands(t, k, i) BY DEF Stands
<1> QED BY <1>1 DEF PlaceInv, Ending, Drawing

LEMMA QueueKeeps ==
  ASSUME IInv, OtherCommand \/ TakeCommand
  PROVE  IInv'
<1>0. PlaceInv /\ TempInv /\ RowInv /\ TypeOK BY DEF IInv
<1>1. UNCHANGED <<saved, isError, isTemp, screenVars, todo, text, lost>>
  BY DEF OtherCommand, TakeCommand
<1>2. Len(commands) \in Nat BY <1>0, LenProperties DEF TypeOK
<1>3. /\ commands' \in Seq({"ui", "other"}) /\ Len(commands') <= TimerQueue
      /\ running' \in BOOLEAN /\ (Timed => Timed')
  <2>1. CASE OtherCommand
    <3>1. /\ commands' \in Seq({"ui", "other"}) /\ Len(commands') = Len(commands) + 1
          /\ (UiPending => UiPending')
      BY <1>0, <2>1, Queued DEF TypeOK, OtherCommand
    <3>2. Len(commands') <= TimerQueue
      BY <1>2, <2>1, <3>1, UiAssumption DEF OtherCommand, Room
    <3> QED BY <1>0, <2>1, <3>1, <3>2 DEF Timed, OtherCommand, TypeOK
  <2>2. CASE TakeCommand
    <3>1. /\ commands' = Tail(commands) /\ commands # <<>>
          /\ running' = (running \/ Head(commands) = "ui") /\ lost' = lost
      BY <2>2 DEF TakeCommand
    <3>2. /\ commands' \in Seq({"ui", "other"}) /\ Len(commands') = Len(commands) - 1
          /\ \A i \in 1 .. Len(commands') : commands'[i] = commands[i + 1]
      BY <1>0, <3>1, HeadTailProperties DEF TypeOK
    <3>3. ASSUME UiPending PROVE running' \/ UiPending'
      <4>1. PICK i \in 1 .. Len(commands) : commands[i] = "ui" BY <3>3 DEF UiPending
      <4>2. CASE i = 1
        <5>1. Head(commands) = "ui" BY <1>0, <4>1, <4>2 DEF TypeOK
        <5> QED BY <3>1, <5>1
      <4>3. CASE i # 1
        <5>1. i - 1 \in 1 .. Len(commands') /\ commands'[i - 1] = "ui"
          BY <1>2, <3>2, <4>1, <4>3
        <5> QED BY <5>1 DEF UiPending
      <4> QED BY <4>2, <4>3
    <3>4. running' \in BOOLEAN BY <1>0, <3>1 DEF TypeOK
    <3>5. Timed => Timed' BY <3>1, <3>3 DEF Timed
    <3>6. Len(commands') <= TimerQueue
      BY <1>0, <1>2, <3>2, UiAssumption DEF TypeOK
    <3> QED BY <3>2, <3>4, <3>5, <3>6
  <2> QED BY <2>1, <2>2
<1>4. /\ (PlaceInv <=> PlaceInv') /\ (Ending <=> Ending')
      /\ \A r \in Rows : Drawing(r) <=> Drawing(r)'
  BY <1>1, NobodyMoves
<1>5. TempInv' BY <1>0, <1>1, <1>3, <1>4 DEF TempInv
<1>6. RowInv' BY <1>0, <1>1, <1>3, <1>4 DEF RowInv, Covered, screenVars
<1>7. TypeOK' BY <1>0, <1>1, <1>3 DEF TypeOK, screenVars
<1> QED BY <1>0, <1>4, <1>5, <1>6, <1>7 DEF IInv

\* A task with nothing to do stands at the end of a code, where nothing is left to end or
\* to draw.
LEMMA IdleIsDone ==
  ASSUME NEW t \in Tasks, Idle(t), NEW k \in Kinds, NEW i \in Places(k), Stands(t, k, i)
  PROVE  ~Ends(k, i) /\ \A r \in Rows : ~Draws(k, i, r)
<1>1. ~(i <= Len(Code(k))) BY RestSteps DEF Idle, Stands
<1>2. i = Len(Code(k)) + 1 BY <1>1, CodeType DEF Places
<1>4. CASE k \in {"page", "message", "tempError"}
  <2>1. Len(Code(k)) = 8 BY <1>4, Lengths
  <2>2. i = 9 BY <1>2, <2>1
  <2> QED BY <1>4, <2>2 DEF Ends, Draws
<1>5. CASE k \in {"error", "expired"}
  <2>1. Len(Code(k)) = 6 BY <1>5, Lengths
  <2>2. i = 7 BY <1>2, <2>1
  <2> QED BY <1>5, <2>2 DEF Ends, Draws
<1>6. CASE k = "restore"
  <2>1. Len(Code(k)) = 5 BY <1>6, Lengths
  <2>2. i = 6 BY <1>2, <2>1
  <2> QED BY <1>6, <2>2 DEF Ends, Draws
<1> QED BY <1>4, <1>5, <1>6 DEF Kinds, OpNames

\* An idle task is given a function to run.
LEMMA BeginKeeps ==
  ASSUME IInv, NEW t \in Tasks, Idle(t), NEW k \in Kinds, NEW x \in Shown,
         todo' = [todo EXCEPT ![t] = Code(k)], text' = [text EXCEPT ![t] = x],
         k # "expired" => x \in TextOf(k),
         UNCHANGED <<saved, isError, isTemp, screenVars, commands, lost>>,
         running' = running \/ (running' = FALSE /\ k = "expired")
  PROVE  IInv'
<1>0. PlaceInv /\ TempInv /\ RowInv /\ TypeOK /\ text \in [Tasks -> Shown]
  BY DEF IInv, TypeOK
<1>1. 1 \in Places(k) /\ Rest(k, 1) = Code(k)
  <2>1. Code(k) \in Seq(Steps) /\ Len(Code(k)) \in 5 .. 8 BY CodeType
  <2> QED BY <2>1, SubSeqFull DEF Places, Rest
<1>2. /\ PlaceInv' /\ Stands(t, k, 1)' /\ text' \in [Tasks -> Shown]
      /\ \A u \in Tasks \ {t}, k2 \in Kinds : \A i2 \in Places(k2) :
           Stands(u, k2, i2)' <=> Stands(u, k2, i2)
  BY <1>0, <1>1, Moved
<1>3. Ending => Ending' BY <1>2, IdleIsDone DEF Ending
<1>4. \A r \in Rows : Drawing(r) => Drawing(r)' BY <1>2, IdleIsDone DEF Drawing
<1>5. TypeOK' BY <1>0, <1>2 DEF TypeOK, screenVars
<1>6. CASE k = "expired"
  <2>1. Ends(k, 1) BY <1>6 DEF Ends
  <2>2. TempInv' /\ \A r \in Rows : Covered(r)' BY <1>1, <1>2, <2>1, Arrived
  <2>3. RowInv' BY <2>2 DEF RowInv
  <2> QED BY <1>2, <1>5, <2>2, <2>3 DEF IInv
<1>7. CASE k # "expired"
  <2>1. Timed' <=> Timed BY <1>7 DEF Timed, UiPending
  <2>2. TempInv' BY <1>0, <1>3, <2>1 DEF TempInv
  <2>3. RowInv' BY <1>0, <1>3, <1>4, <2>1 DEF RowInv, Covered, screenVars
  <2> QED BY <1>2, <1>5, <2>2, <2>3 DEF IInv
<1> QED BY <1>6, <1>7

--------------------------------------------------------------------------------
(* The invariants.                                                               *)

LEMMA InitInv == Init => IInv
<1> SUFFICES ASSUME Init PROVE IInv OBVIOUS
<1>1. TypeOK
  <2>1. <<>> \in Seq({"ui", "other"}) /\ Len(<<>>) = 0 BY EmptySeq
  <2> QED BY <2>1, UiAssumption DEF Init, TypeOK, Texts, Shown, Rows
<1>2. PlaceInv
  <2>1. 6 \in Places("restore") /\ Rest("restore", 6) = <<>>
    <3>1. Len(Code("restore")) = 5 BY Lengths
    <3>2. SubSeq(Code("restore"), 6, 5) = <<>> BY SubSeqEmpty
    <3>3. \A n : n = 5 => 6 \in 1 .. n + 1 OBVIOUS
    <3> QED BY <3>1, <3>2, <3>3 DEF Places, Rest
  <2>2. ASSUME NEW t \in Tasks PROVE Stands(t, "restore", 6)
    BY <2>1 DEF Stands, Init, TextOf
  <2>3. <<>> \in Seq(Steps) BY EmptySeq
  <2>4. todo \in [Tasks -> Seq(Steps)] BY <2>3 DEF Init
  <2> QED BY <2>1, <2>2, <2>4 DEF PlaceInv, Kinds, OpNames
<1>3. TempInv BY DEF TempInv, Init
<1>4. RowInv BY DEF RowInv, Init
<1> QED BY <1>1, <1>2, <1>3, <1>4 DEF IInv

LEMMA StepKeeps == IInv /\ [Next]_vars => IInv'
<1> SUFFICES ASSUME IInv, [Next]_vars PROVE IInv' OBVIOUS
<1>1. ASSUME NEW t \in Tasks, Call(t) PROVE IInv'
  <2>0. PICK op \in Ops[t] :
          /\ todo' = [todo EXCEPT ![t] = Script(op)]
          /\ \E x \in TextOf(op) : text' = [text EXCEPT ![t] = x]
    BY <1>1 DEF Call
  <2>1. PICK x \in TextOf(op) : text' = [text EXCEPT ![t] = x] BY <2>0
  <2>2. op \in OpNames BY UiAssumption
  <2>3. /\ op \in Kinds /\ op # "expired" /\ Code(op) = Script(op)
    BY <2>2 DEF Kinds, OpNames, Code
  <2>4. x \in Shown BY <2>2 DEF TextOf, Shown, Texts, OpNames
  <2>5. UNCHANGED <<saved, isError, isTemp, screenVars, commands, lost, running>>
    BY <1>1 DEF Call, timerVars
  <2> QED BY <1>1, <2>0, <2>1, <2>3, <2>4, <2>5, BeginKeeps DEF Call
<1>2. ASSUME NEW t \in Tasks, Step(t) PROVE IInv'
  BY <1>2, SaveLineKeeps, LookKeeps, IgnoreKeeps, SetCursorKeeps, PrintKeeps, ClearKeeps,
     SetFlagKeeps, CommandKeeps DEF Step
<1>3. ASSUME Expire PROVE IInv'
  <2>1. /\ Idle(Daemon) /\ todo' = [todo EXCEPT ![Daemon] = Expired] /\ running' = FALSE
        /\ UNCHANGED <<saved, isError, isTemp, screenVars, text, commands, lost>>
    BY <1>3 DEF Expire
  <2>2. Daemon \in Tasks BY UiAssumption
  <2>3. text[Daemon] \in Shown /\ text' = [text EXCEPT ![Daemon] = text[Daemon]]
    BY <2>1, <2>2 DEF IInv, TypeOK
  <2>4. "expired" \in Kinds /\ Code("expired") = Expired BY DEF Kinds, Code
  <2> QED BY <2>1, <2>2, <2>3, <2>4, BeginKeeps
<1>4. ASSUME UNCHANGED vars PROVE IInv'
  <2>1. /\ UNCHANGED <<saved, isError, isTemp, screenVars, todo, text, timerVars>>
    BY <1>4 DEF vars
  <2>2. /\ (PlaceInv <=> PlaceInv') /\ (Ending <=> Ending')
        /\ \A r \in Rows : Drawing(r) <=> Drawing(r)'
    BY <2>1, NobodyMoves
  <2>3. Timed' <=> Timed BY <2>1 DEF Timed, UiPending, timerVars
  <2>4. TempInv' BY <2>1, <2>2, <2>3 DEF IInv, TempInv
  <2>5. RowInv' BY <2>1, <2>2, <2>3 DEF IInv, RowInv, Covered, screenVars
  <2>6. TypeOK' BY <2>1 DEF IInv, TypeOK, screenVars, timerVars
  <2> QED BY <2>2, <2>4, <2>5, <2>6 DEF IInv
<1> QED BY <1>1, <1>2, <1>3, <1>4, QueueKeeps DEF Next

LEMMA Invariance == Spec => []IInv
<1> QED BY InitInv, StepKeeps, PTL DEF Spec

\* Types: the saved lines hold pages only, and the timer queue holds what fits.
THEOREM TypeInvariant == Spec => []TypeOK
<1>1. IInv => TypeOK BY DEF IInv
<1> QED BY <1>1, Invariance, PTL

\* A temporary screen always has its end: with nobody at work and the flag up, the timer
\* runs, or its command waits, or was refused (ui.c, ui_temp_msg_timer).
THEOREM TemporaryScreenEnds == Spec => []OverlayHasTimer
<1>1. ASSUME IInv, isTemp, \A t \in Tasks : Idle(t)
      PROVE  running \/ UiPending \/ lost
  <2>1. ~Ending BY <1>1, IdleIsDone DEF Ending
  <2> QED BY <1>1, <2>1 DEF IInv, TempInv, Timed
<1>2. IInv => OverlayHasTimer BY <1>1 DEF OverlayHasTimer
<1> QED BY <1>2, Invariance, PTL

\* When all is quiet a row shows the saved line or an error screen, however the tasks'
\* steps fell between each other, unless the row's last text went elsewhere.
THEOREM NoMessageStays == Spec => []NothingStays
<1>1. ASSUME IInv, Quiet, NEW r \in Rows \ torn
      PROVE  lcd[r] \in {saved[r], "error"}
  <2>1. ~Ending /\ ~Drawing(r) BY <1>1, IdleIsDone DEF Ending, Drawing, Quiet
  <2>2. ~Covered(r) BY <1>1, <2>1 DEF Covered, Timed, Quiet
  <2> QED BY <1>1, <2>2 DEF IInv, RowInv
<1>2. IInv => NothingStays BY <1>1 DEF NothingStays
<1> QED BY <1>2, Invariance, PTL
================================================================================
