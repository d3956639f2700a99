----------------------------------- MODULE UiMC ----------------------------------
(* Ui for TLC: the tasks of the firmware that draw, and what each of them calls.   *)
EXTENDS Ui, TLC

CONSTANTS loop, httpd, daemon

\* The carousel runs in the daemon, the event loop reports the state of the server, and
\* the httpd task shows messages: what three tasks can do to one another.
ScreenOps == daemon :> {"page"} @@ loop :> {"error", "restore"} @@ httpd :> {"message"}

\* Commands and their errors come from the httpd task.
CommandOps == daemon :> {"page"} @@ httpd :> {"message", "tempError"}
================================================================================
