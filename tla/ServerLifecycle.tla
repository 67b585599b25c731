--------------------------- MODULE ServerLifecycle ---------------------------
(***************************************************************************)
(* The life of the HTTP server (internal/server/http.go, serveHTTP, under  *)
(* the signal context of cmd/presto-mcp/main.go): it starts or fails to,   *)
(* serves until a signal or until its accept loop fails, drains within a   *)
(* grace period, and the process ends.                                     *)
(*                                                                         *)
(* net/http is external, modelled as serveHTTP uses it: Shutdown closes    *)
(* the listener at once, which makes Serve return ErrServerClosed, and     *)
(* then waits for open requests or for the end of its context.  "exited"   *)
(* is serveHTTP's return, with which main ends the process.                *)
(***************************************************************************)
EXTENDS FiniteSets

CONSTANTS Requests,  \* MCP requests that clients may send
          Streams    \* those held open by the client, which no answer ends

ASSUME StreamAssumption == Streams \subseteq Requests

VARIABLES server,     \* start, serving, draining or exited
          signalled,  \* the signal context is done
          listener,   \* closed, open or broken
          accepting,  \* serve goroutine: idle, running, sending or ended
          serveErr,   \* the channel: empty, closed (ErrServerClosed) or failed
          grace,      \* whether the shutdown context still runs
          exit,       \* none, clean or error
          request     \* state of every request

serverVars == <<server, signalled, listener, accepting, serveErr, grace, exit>>
vars == <<serverVars, request>>

TypeOK == /\ server \in {"start", "serving", "draining", "exited"}
          /\ signalled \in BOOLEAN
          /\ listener \in {"closed", "open", "broken"}
          /\ accepting \in {"idle", "running", "sending", "ended"}
          /\ serveErr \in {"empty", "closed", "failed"}
          /\ grace \in BOOLEAN
          /\ exit \in {"none", "clean", "error"}
          /\ request \in [Requests -> {"away", "accepted", "active", "answered", "left", "cut"}]

Open == {r \in Requests : request[r] \in {"accepted", "active"}}

Init == /\ server = "start"
        /\ signalled = FALSE
        /\ listener = "open"
        /\ accepting = "idle"
        /\ serveErr = "empty"
        /\ grace = FALSE
        /\ exit = "none"
        /\ request = [r \in Requests |-> "away"]

(* The process ends, and with it whatever it was serving. *)
Exit(result) == /\ server' = "exited"
                /\ exit' = result
                /\ request' = [r \in Requests |-> IF r \in Open THEN "cut" ELSE request[r]]

-----------------------------------------------------------------------------
(* serveHTTP *)

(* The handler or the TLS configuration cannot be built. *)
StartFails == /\ server = "start"
              /\ Exit("error")
              /\ UNCHANGED <<signalled, listener, accepting, serveErr, grace>>

StartServing == /\ server = "start"
                /\ server' = "serving"
                /\ accepting' = "running"
                /\ UNCHANGED <<signalled, listener, serveErr, grace, exit, request>>

(* Shutdown begins: the listener closes and the grace period starts. *)
TakeSignal == /\ server = "serving"
              /\ signalled
              /\ server' = "draining"
              /\ listener' = IF listener = "open" THEN "closed" ELSE listener
              /\ grace' = TRUE
              /\ UNCHANGED <<signalled, accepting, serveErr, exit, request>>

(* Mutants (here and below): plausible bugs that the properties must find. *)
ServeErrUnmapped == /\ server = "serving"
                    /\ serveErr # "empty"
                    /\ serveErr' = "empty"
                    /\ Exit(serveErr)
                    /\ UNCHANGED <<signalled, listener, accepting, grace>>

ServeErrAnytime == /\ server \in {"serving", "draining"}
                   /\ serveErr # "empty"
                   /\ serveErr' = "empty"
                   /\ Exit(IF serveErr = "closed" THEN "clean" ELSE "error")
                   /\ UNCHANGED <<signalled, listener, accepting, grace>>

(* select chooses freely when the signal and an error are both there. *)
TakeServeErr == /\ server = "serving"
                /\ serveErr # "empty"
                /\ serveErr' = "empty"
                /\ Exit(IF serveErr = "closed" THEN "clean" ELSE "error")
                /\ UNCHANGED <<signalled, listener, accepting, grace>>

Drained == /\ server = "draining"
           /\ Open = {}
           /\ Exit("clean")
           /\ UNCHANGED <<signalled, listener, accepting, serveErr, grace>>

ShutdownOnSignalContext == /\ server = "draining"
                           /\ Exit("error")
                           /\ UNCHANGED <<signalled, listener, accepting, serveErr, grace>>

ShutdownWithoutTimeout == FALSE /\ UNCHANGED vars

DrainTimesOut == /\ server = "draining"
                 /\ ~ grace
                 /\ Exit("error")
                 /\ UNCHANGED <<signalled, listener, accepting, serveErr, grace>>

(* The serve goroutine: Serve returns, then its result goes into the       *)
(* channel, which has room for one.                                        *)
ServeReturns == /\ accepting = "running"
                /\ listener # "open"
                /\ accepting' = "sending"
                /\ UNCHANGED <<server, signalled, listener, serveErr, grace, exit, request>>

SendUnbuffered == /\ accepting = "sending"
                  /\ server = "serving"
                  /\ accepting' = "ended"
                  /\ serveErr' = IF listener = "broken" THEN "failed" ELSE "closed"
                  /\ UNCHANGED <<server, signalled, listener, grace, exit, request>>

SendServeErr == /\ accepting = "sending"
                /\ serveErr = "empty"
                /\ accepting' = "ended"
                /\ serveErr' = IF listener = "broken" THEN "failed" ELSE "closed"
                /\ UNCHANGED <<server, signalled, listener, grace, exit, request>>

-----------------------------------------------------------------------------
(* The operating system, the clock and the clients (external). *)

Signal == /\ server # "exited"
          /\ ~ signalled
          /\ signalled' = TRUE
          /\ UNCHANGED <<server, listener, accepting, serveErr, grace, exit, request>>

AcceptBreaks == /\ accepting = "running"
                /\ listener = "open"
                /\ listener' = "broken"
                /\ UNCHANGED <<server, signalled, accepting, serveErr, grace, exit, request>>

GraceEnds == /\ server = "draining"
             /\ grace
             /\ grace' = FALSE
             /\ UNCHANGED <<server, signalled, listener, accepting, serveErr, exit, request>>

Step(r, from, to) == /\ request[r] = from
                     /\ request' = [request EXCEPT ![r] = to]
                     /\ UNCHANGED serverVars

Connect(r) == /\ accepting = "running"
              /\ listener = "open"
              /\ server # "exited"
              /\ Step(r, "away", "accepted")

(* A connection that was accepted before the listener closed is served.    *)
Begin(r) == /\ server # "exited"
            /\ Step(r, "accepted", "active")

Answer(r) == /\ server # "exited"
             /\ r \notin Streams
             /\ Step(r, "active", "answered")

Leave(r) == /\ server # "exited"
            /\ \/ Step(r, "active", "left")
               \/ Step(r, "accepted", "left")

-----------------------------------------------------------------------------
Main == StartFails \/ StartServing \/ TakeSignal \/ TakeServeErr \/ Drained \/ DrainTimesOut

Serve == ServeReturns \/ SendServeErr

World == \/ Signal \/ AcceptBreaks \/ GraceEnds
         \/ \E r \in Requests : Connect(r) \/ Begin(r) \/ Answer(r) \/ Leave(r)

Next == Main \/ Serve \/ World

Spec == Init /\ [][Next]_vars

(* Goroutines that can run do run, and the shutdown context times out.     *)
(* Clients and requests owe nothing: a stream may stay open for ever.      *)
FairSpec == Spec /\ WF_vars(Main) /\ WF_vars(Serve) /\ WF_vars(GraceEnds)

-----------------------------------------------------------------------------
(* An exit without an error cut no request, although Serve returns as soon *)
(* as the drain begins (http.go:82-92).                                    *)
CleanExitCutsNothing == exit = "clean" => \A r \in Requests : request[r] # "cut"

(* A request is cut only after it had the whole grace period to drain or   *)
(* when the accept loop failed or never started (http.go:83-91).           *)
CutHadGrace ==
    \A r \in Requests : request[r] = "cut" =>
        /\ exit = "error"
        /\ (signalled /\ ~ grace) \/ listener = "broken"

(* A signal stops the process, whatever requests and streams do            *)
(* (http.go:83-86).                                                        *)
SignalStops == signalled ~> (server = "exited")

(* The serve goroutine never stays blocked on its channel, whichever       *)
(* branch serveHTTP took (http.go:73).                                     *)
ServeNeverStuck == (accepting = "sending") ~> (accepting = "ended")

=============================================================================
