--------------------------------- MODULE IoBusMC ---------------------------------
(* IoBus for TLC: which tasks of the firmware use the bus, and how.                *)
EXTENDS IoBus, TLC

CONSTANTS httpd, loop, input

\* Two tasks draw and switch pins, and io_input_task polls the buttons meanwhile.
AllOps == httpd :> {"sendByte", "setLevel"} @@ loop :> {"sendByte", "setLevel", "getLevel"}
            @@ input :> {"poll"}
================================================================================
