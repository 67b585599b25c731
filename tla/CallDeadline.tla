----------------------------- MODULE CallDeadline -----------------------------
(***************************************************************************)
(* How long a tool call may take: run_query's overall deadline             *)
(* (internal/tools/tools.go), the 30 second timeout of every request and   *)
(* the 5 second timeout of the DELETE (internal/presto).  Time advances in *)
(* ticks, and never past a timer that is due.  StatementClient says what   *)
(* a call answers; here only the clock matters, and the coordinator        *)
(* answers when it likes.                                                  *)
(*                                                                         *)
(* A time.Duration is a two's complement integer that spans -Half ..       *)
(* Half - 1 ticks, and the product of an int and a duration wraps.         *)
(***************************************************************************)
EXTENDS Integers

CONSTANTS AskedSeconds,    \* values of timeout_seconds
          Second,          \* ticks in a second
          Half,            \* half the span of a duration
          DefaultTimeout,  \* deadline of a call that asks for none
          MaxTimeout,      \* the latest deadline
          RequestTimeout,  \* http.Client's timeout, each request
          CancelTimeout,   \* the timeout of the DELETE
          SpentBound       \* bound: time spent is not counted further

ASSUME TimeoutAssumption ==
    /\ AskedSeconds \subseteq Int
    /\ {Second, Half, DefaultTimeout, MaxTimeout, RequestTimeout, CancelTimeout, SpentBound}
          \subseteq Nat \ {0}
    /\ DefaultTimeout <= MaxTimeout
    /\ MaxTimeout < Half
    /\ MaxTimeout + CancelTimeout < SpentBound
    /\ RequestTimeout + CancelTimeout <= SpentBound

VARIABLES phase,    \* idle, request, cancel or done
          asked,    \* timeout_seconds of a run_query call
          bounded,  \* whether the call has a deadline: run_query has
          left,     \* ticks until that deadline, 0 when it has passed
          method,   \* the request under way
          wait,     \* ticks until that request's own timeout
          quiet,    \* ticks since the coordinator last answered
          spent,    \* ticks since the call began
          end       \* how the statement ended: answer, error, deadline, silence

vars == <<phase, asked, bounded, left, method, wait, quiet, spent, end>>

-----------------------------------------------------------------------------
Wrap(x) == ((x + Half) % (2 * Half)) - Half

(* Mutants (here and below): plausible bugs that the properties must find. *)
QueryTimeoutUncapped(sec) == IF sec <= 0 THEN DefaultTimeout ELSE Wrap(sec * Second)

QueryTimeoutBelowMax(sec) == IF sec <= 0 THEN DefaultTimeout
                            ELSE IF sec * Second < MaxTimeout THEN sec * Second
                            ELSE MaxTimeout - Second

QueryTimeout(sec) == IF sec <= 0 THEN DefaultTimeout
                     ELSE LET d == Wrap(sec * Second)
                          IN  IF d < MaxTimeout THEN d ELSE MaxTimeout

(* What the README says timeout_seconds means. *)
Meant(sec) == IF sec <= 0 THEN DefaultTimeout
              ELSE IF sec * Second < MaxTimeout THEN sec * Second ELSE MaxTimeout

(* A context made with a timeout that is not positive has expired. *)
Remaining(d) == IF d > 0 THEN d ELSE 0

TypeOK == /\ phase \in {"idle", "request", "cancel", "done"}
          /\ asked \in Int
          /\ bounded \in BOOLEAN
          /\ left \in 0 .. MaxTimeout
          /\ method \in {"POST", "GET"}
          /\ wait \in Nat
          /\ quiet \in 0 .. SpentBound
          /\ spent \in 0 .. SpentBound
          /\ end \in {"none", "answer", "error", "deadline", "silence"}

Init == /\ phase = "idle"
        /\ asked = 0
        /\ bounded = FALSE
        /\ left = 0
        /\ method = "POST"
        /\ wait = 0
        /\ quiet = 0
        /\ spent = 0
        /\ end = "none"

Expired == bounded /\ left = 0

Due == \/ wait = 0
       \/ phase = "request" /\ Expired

SendOnOneTimer(m) == /\ phase' = "request"
                     /\ method' = m
                     /\ wait' = IF m = "POST" THEN RequestTimeout ELSE wait

Send(m) == /\ phase' = "request"
           /\ method' = m
           /\ wait' = RequestTimeout

StartQuery(sec) == /\ phase = "idle"
                   /\ asked' = sec
                   /\ bounded' = TRUE
                   /\ left' = Remaining(QueryTimeout(sec))
                   /\ Send("POST")
                   /\ UNCHANGED <<quiet, spent, end>>

StartMetadata == /\ phase = "idle"
                 /\ Send("POST")
                 /\ UNCHANGED <<asked, bounded, left, quiet, spent, end>>

(* A page with a nextUri. *)
Follow == /\ phase = "request"
          /\ Send("GET")
          /\ quiet' = 0
          /\ UNCHANGED <<asked, bounded, left, spent, end>>

Return == phase' = "done" /\ UNCHANGED wait

CancelUntimed == phase' = "cancel" /\ wait' = RequestTimeout

Cancel == phase' = "cancel" /\ wait' = CancelTimeout

(* The last page, an engine error, or a page past the cap. *)
Answered == /\ phase = "request"
            /\ end' = "answer"
            /\ quiet' = 0
            /\ Return \/ (bounded /\ Cancel)
            /\ UNCHANGED <<asked, bounded, left, method, spent>>

FailWith(reason) == /\ end' = reason
                    /\ IF method = "GET" THEN Cancel ELSE Return
                    /\ UNCHANGED <<asked, bounded, left, method, quiet, spent>>

(* A transport error, a status that is not 2xx. *)
RequestFails == /\ phase = "request"
                /\ FailWith("error")

RequestTimesOut == /\ phase = "request"
                   /\ Due
                   /\ FailWith(IF Expired THEN "deadline" ELSE "silence")

CancelReturns == /\ phase = "cancel"
                 /\ Return
                 /\ UNCHANGED <<asked, bounded, left, method, quiet, spent, end>>

Upto(n) == IF n < SpentBound THEN n + 1 ELSE n

Tick == /\ phase \in {"request", "cancel"}
        /\ ~ Due
        /\ wait' = wait - 1
        /\ left' = Remaining(left - 1)
        /\ quiet' = Upto(quiet)
        /\ spent' = Upto(spent)
        /\ UNCHANGED <<phase, asked, bounded, method, end>>

Next == \/ \E sec \in AskedSeconds : StartQuery(sec)
        \/ StartMetadata
        \/ Follow
        \/ Answered
        \/ RequestFails
        \/ RequestTimesOut
        \/ CancelReturns
        \/ Tick

Spec == Init /\ [][Next]_vars

-----------------------------------------------------------------------------
(* timeout_seconds bounds the whole multi-page statement, and the DELETE   *)
(* adds at most its own timeout, whatever number is asked for              *)
(* (tools.go:324-351, readquery.go:279).                                   *)
WithinLimit == bounded => spent <= Meant(asked) + CancelTimeout

(* A query fails on its deadline no earlier than the timeout it was given: *)
(* README "timeout_seconds bounds the whole query (default 60, max 300)".  *)
FullTimeGiven == end = "deadline" => spent >= Meant(asked)

(* A coordinator that falls silent is given up on by every call, also one  *)
(* without a deadline (client.go:52, readquery.go:279).                    *)
SilenceNoticed == quiet <= RequestTimeout + CancelTimeout

(* A call gives up before its deadline only on a request that failed or    *)
(* that one whole request timeout brought no answer to (client.go:151).    *)
NoEarlySurrender == end = "silence" => quiet >= RequestTimeout

(* The timeouts whose product with a second does not wrap. *)
InRange(sec) == sec * Second < Half

(* A query whose timeout does not wrap has all of it (tools.go:331-339).   *)
FullTimeUnwrapped == end = "deadline" /\ InRange(asked) => spent >= Meant(asked)

(* The inductive invariant behind the properties: what is left of the      *)
(* timers in force completes what was spent.                               *)
DeadlineInv ==
    /\ TypeOK
    /\ phase = "idle" => spent = 0 /\ quiet = 0 /\ end = "none" /\ ~ bounded
    /\ phase = "request" => /\ wait + quiet = RequestTimeout
                            /\ bounded => spent + left <= Meant(asked)
                            /\ bounded /\ InRange(asked) => spent + left = Meant(asked)
    /\ phase = "cancel" => /\ quiet + wait <= RequestTimeout + CancelTimeout
                           /\ bounded => spent + wait <= Meant(asked) + CancelTimeout
    /\ phase = "done" => /\ quiet <= RequestTimeout + CancelTimeout
                         /\ bounded => spent <= Meant(asked) + CancelTimeout
    /\ end # "none" => phase \in {"cancel", "done"}
    /\ end = "silence" => quiet >= RequestTimeout
    /\ end = "deadline" /\ InRange(asked) => spent >= Meant(asked)

=============================================================================
