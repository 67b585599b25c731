---------------------------- MODULE ServingProcess ----------------------------
(***************************************************************************)
(* The serving process with one tool call in it: ServerLifecycle composed  *)
(* with StatementClient.  The call runs in the handler of request Call,    *)
(* for as long as the process lives.  A caller that disconnects ends the   *)
(* HTTP request, which is all that Shutdown waits for; the handler goes    *)
(* on, with or without its context.                                        *)
(***************************************************************************)
EXTENDS Integers, Sequences

CONSTANTS Requests, Streams, Call
CONSTANTS AskedRows, DefaultMaxRows, MaxResultRows, PageSizes, RowBound, TokenSpan

(* The requests beside the call are streams: calls share nothing, and a    *)
(* stream is what keeps a drain from ending.                               *)
ASSUME CallAssumption == Requests = Streams \cup {Call} /\ Call \notin Streams

ASSUME StatementAssumption == /\ AskedRows \subseteq Int
                              /\ {DefaultMaxRows, MaxResultRows} \subseteq Nat \ {0}
                              /\ DefaultMaxRows <= MaxResultRows
                              /\ PageSizes \subseteq Nat
                              /\ {RowBound, TokenSpan} \subseteq Nat
                              /\ TokenSpan >= 2

VARIABLES server, signalled, listener, accepting, serveErr, grace, exit, request
VARIABLES pc, cap, expired, req, rows, cols, outcome, onWire, reply, stmt, page

Server == INSTANCE ServerLifecycle
Statement == INSTANCE StatementClient

serverVars == <<server, signalled, listener, accepting, serveErr, grace, exit, request>>
callVars == <<pc, cap, expired, req, rows, cols, outcome, onWire, reply, stmt, page>>
vars == <<serverVars, callVars>>

Init == Server!Init /\ Statement!Init

(* The handler of the call is running. *)
Handling == /\ server # "exited"
            /\ \/ request[Call] = "active"
               \/ request[Call] = "left" /\ pc # "idle"

HandlerStep == /\ Handling
               /\ Statement!Client
               /\ UNCHANGED serverVars

ContextEnds == /\ Handling
               /\ Statement!Expire
               /\ UNCHANGED serverVars

EngineStep == /\ Statement!Engine
              /\ UNCHANGED serverVars

(* The answer is written when the handler has returned. *)
AnswerCall == /\ pc = "done"
              /\ Server!Answer(Call)
              /\ UNCHANGED callVars

Arrive == /\ \E r \in Requests : Server!Connect(r) \/ Server!Begin(r) \/ Server!Leave(r)
          /\ UNCHANGED callVars

ServerStep == /\ \/ Server!Main
                 \/ Server!Serve
                 \/ Server!Signal
                 \/ Server!AcceptBreaks
                 \/ Server!GraceEnds
              /\ UNCHANGED callVars

Next == \/ HandlerStep \/ ContextEnds \/ EngineStep
        \/ AnswerCall
        \/ Arrive \/ ServerStep

Spec == Init /\ [][Next]_vars

(* StatementClient's fairness while the handler lives, and the answer is   *)
(* written.                                                                *)
Fairness == /\ WF_vars(Handling /\ Statement!Handle /\ UNCHANGED serverVars)
            /\ WF_vars(Handling /\ Statement!RequestFails /\ UNCHANGED serverVars)
            /\ WF_vars(Handling /\ Statement!CancelReturns /\ UNCHANGED serverVars)
            /\ WF_vars(cap > 0 /\ ContextEnds)
            /\ WF_vars(AnswerCall)
            /\ WF_vars(Server!Main /\ UNCHANGED callVars)
            /\ WF_vars(Server!Serve /\ UNCHANGED callVars)
            /\ WF_vars(Server!GraceEnds /\ UNCHANGED callVars)

FairSpec == Spec /\ Fairness

-----------------------------------------------------------------------------
(* When the process is gone, a statement still runs without a DELETE only  *)
(* if the exit was an error, the caller had left before the handler was    *)
(* done, or the call had no way to free it (http.go:82-92, client.go:151,  *)
(* readquery.go:281-284).                                                  *)
StrandedOnlyByForce ==
    server = "exited" /\ stmt = "running" /\ "DELETE" \notin onWire =>
        \/ exit = "error"
        \/ request[Call] = "left"
        \/ outcome = "error" /\ (req.method = "POST" \/ reply.kind = "garbage")
        \/ reply.kind = "dead"

(* A query that was begun is settled: it is answered, its caller leaves or *)
(* the process is stopped; it never hangs, also through a drain            *)
(* (tools.go:350, http.go:82-92).                                          *)
BegunQuerySettles ==
    (request[Call] = "active" /\ cap > 0) ~> (request[Call] \in {"answered", "left", "cut"})

=============================================================================
