-------------------------------- MODULE Requests ---------------------------------
(* The httpd task: it takes REST requests through http_middleware and the context  *)
(* of app_api.c, and WebSocket commands through ws_cmd_router.c to the two UARTs.  *)
(* Either way it ends by telling the outcome with the indicators, which the event  *)
(* loop and the main task use at the same time for their alarms.                   *)
EXTENDS Indicators

CONSTANTS
  Httpd,       \* the httpd task
  AlarmBeeps   \* how often the alarms of the other tasks beep

ASSUME ReqAssumption == /\ Httpd \in Callers
                        /\ MaxBeeps >= 3
                        /\ AlarmBeeps \subseteq 1 .. MaxBeeps

VARIABLES
  rpc,      \* the httpd task: "idle", or where it is in a request or a command
  ctx,      \* the context of the request is allocated
  userCtx,  \* what req->user_ctx points at: "endpoint" or "context"
  json,     \* a cJSON object of the request is allocated
  code,     \* error_code of the context: "ok" or "error"
  answers,  \* history: responses sent to the present request
  asked,    \* history: what is asked: "nothing", "request" or "command"
  noMemory, \* history: there was no memory for the context of the request
  parts,    \* the UARTs the command still has to write to
  res,      \* the result of the command or of the request
  unsent    \* history: UARTs to which the command was not written completely

requestVars == <<ctx, userCtx, json, code, answers, noMemory>>
commandVars == <<parts, unsent>>
reqVars == <<rpc, requestVars, asked, commandVars, res>>
vars == <<indVars, reqVars>>

\* Which UARTs a command writes to, in this order: rs485 has the screen, rs232 the
\* projector.  The two macros write to both.
Scripts == {<<"screen">>, <<"projector">>, <<"screen", "projector">>}

ReqInit == /\ rpc = "idle" /\ asked = "nothing"
           /\ ctx = FALSE /\ userCtx = "endpoint" /\ json = FALSE /\ code = "ok"
           /\ answers = 0 /\ noMemory = FALSE
           /\ parts = <<>> /\ unsent = {} /\ res = "ok"

Init == IndInit /\ ReqInit

\* Nothing of it is kept between two requests.
Over == /\ rpc' = "idle" /\ asked' = "nothing"
        /\ ctx' = FALSE /\ userCtx' = "endpoint" /\ json' = FALSE /\ code' = "ok"
        /\ answers' = 0 /\ noMemory' = FALSE
        /\ parts' = <<>> /\ unsent' = {} /\ res' = "ok"

\* The processor panics and the device starts again.
Restart == IndReset /\ Over

--------------------------------------------------------------------------------
(* http_middleware                                                               *)

Request == /\ rpc = "idle" /\ pc[Httpd] = "idle"
           /\ rpc' = "auth" /\ asked' = "request"
           /\ UNCHANGED <<indVars, requestVars, commandVars, res>>

\* Mutant: the refused request goes on to its handler.
GoesOn == "context"
Refused == "return"

Authorize == /\ rpc = "auth"
             /\ \/ rpc' = "context" /\ UNCHANGED answers
                \/ rpc' = Refused /\ answers' = answers + 1
             /\ UNCHANGED <<indVars, ctx, userCtx, json, code, noMemory, asked, commandVars,
                            res>>

\* app_api_create_ctx.  Without memory user_ctx goes on pointing at the endpoint table.
CreateContext == /\ rpc = "context"
                 /\ \/ ctx' = TRUE /\ userCtx' = "context" /\ UNCHANGED noMemory
                    \/ noMemory' = TRUE /\ UNCHANGED <<ctx, userCtx>>
                 /\ code' = "ok"
                 /\ rpc' = "handler"
                 /\ UNCHANGED <<indVars, json, answers, asked, commandVars, res>>

\* The handlers end with APP_API_RETURN_ERR, app_api_return_ok or app_api_return_json,
\* which write to the context and return ESP_OK.
Handler == /\ rpc = "handler"
           /\ userCtx = "context"
           /\ \/ code' = "error" /\ UNCHANGED json
              \/ code' = "ok" /\ json' \in BOOLEAN
           /\ userCtx' = "endpoint"
           /\ rpc' = "respond"
           /\ UNCHANGED <<indVars, ctx, answers, noMemory, asked, commandVars, res>>

\* They write to whatever user_ctx is.  The endpoint table is in flash: the store is lost
\* (and with it the JSON), or it is a fault of the processor.
HandlerWithoutContext == /\ rpc = "handler" /\ userCtx = "endpoint"
                         /\ \/ /\ json' \in BOOLEAN
                               /\ rpc' = "respond"
                               /\ UNCHANGED <<indVars, ctx, userCtx, code, answers,
                                              noMemory, asked, commandVars, res>>
                            \/ Restart

\* app_api_handle_response.  A JSON text that cannot be printed is NULL to strlen.
Respond == /\ rpc = "respond"
           /\ \/ /\ answers' = answers + 1
                 /\ res' = IF ctx THEN code ELSE "error"
                 /\ ctx' = FALSE /\ code' = "ok" /\ json' = (json /\ ~ctx)
                 /\ rpc' = "report"
                 /\ UNCHANGED <<indVars, userCtx, noMemory, asked, commandVars>>
              \/ ctx /\ (json \/ code = "error") /\ Restart

--------------------------------------------------------------------------------
(* ws_cmd_handle: a text that is no command, or is none of s_commands, is dropped  *)
(* at once.                                                                      *)

Command == /\ rpc = "idle" /\ pc[Httpd] = "idle"
           /\ parts' \in Scripts
           /\ rpc' = "part" /\ asked' = "command"
           /\ UNCHANGED <<indVars, requestVars, unsent, res>>

\* uart_bus_rs485_send, uart_bus_rs232_send: bytes_written is all, fewer, or negative.
\* Mutant: fewer bytes than asked for are a success.
ShortIsFine(written) == IF written = "fault" THEN "error" ELSE "ok"
SendResult(written) == IF written = "all" THEN "ok" ELSE "error"

\* The result of a macro is that of its last part.
Part == /\ rpc = "part" /\ parts # <<>>
        /\ \E written \in {"all", "fewer", "fault"} :
             /\ res' = SendResult(written)
             /\ unsent' = IF written = "all" THEN unsent ELSE unsent \cup {Head(parts)}
        /\ parts' = Tail(parts)
        /\ UNCHANGED <<indVars, rpc, requestVars, asked>>

\* The event with the result is queued (see WsDispatcher).
SendEvent == /\ rpc = "part" /\ parts = <<>>
             /\ rpc' = "report"
             /\ UNCHANGED <<indVars, requestVars, asked, commandVars, res>>

\* on_command_action and on_command_error; the message on the LCD follows (see Ui).
Report == /\ rpc = "report"
          /\ Signal(Httpd, TRUE, IF res = "ok" THEN 0 ELSE 2)
          /\ Over

\* The middleware returns from a request it refused, and reports nothing.
Return == /\ rpc = "return"
          /\ Over
          /\ UNCHANGED indVars

\* ws_cmd_device_paired, which reports nothing.
DevicePaired == /\ rpc = "idle"
                /\ Signal(Httpd, TRUE, 3)
                /\ UNCHANGED reqVars

\* The event loop and the main task: on_server_stop, on_server_error, on_eth_boot_wait,
\* CHECK_CRITICAL, and the end of the boot.
Alarm == /\ \E t \in Callers \ {Httpd} : \E n \in AlarmBeeps : Signal(t, FALSE, n)
         /\ UNCHANGED reqVars

--------------------------------------------------------------------------------
Serve == \/ Authorize \/ CreateContext \/ Handler \/ HandlerWithoutContext \/ Respond
         \/ Part \/ SendEvent \/ Report \/ Return

Indicate == /\ IndServices \/ \E t \in Callers : SignalStep(t)
            /\ UNCHANGED reqVars

Next == Request \/ Command \/ DevicePaired \/ Serve \/ Alarm \/ Indicate

Spec == Init /\ [][Next]_vars

LiveSpec == Spec /\ IndFairness

--------------------------------------------------------------------------------
(* Properties.                                                                   *)

\* Every request is answered exactly once and leaves no context and no JSON behind, on
\* every path through the middleware; only one that found no memory may lose its JSON.
RequestSettled ==
  asked = "request" /\ rpc \in {"report", "return"} =>
    /\ answers = 1
    /\ ~ctx /\ userCtx = "endpoint"
    /\ json => noMemory

\* A command that is reported as executed has reached its devices, up to the screen's part
\* of a macro, whose failure the result of the projector's part covers up.
SuccessMeansSent ==
  asked = "command" /\ rpc = "report" /\ res = "ok" => "projector" \notin unsent
================================================================================
