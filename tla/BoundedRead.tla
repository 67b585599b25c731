----------------------------- MODULE BoundedRead -----------------------------
(***************************************************************************)
(* What a statement promises its caller (RunReadQuery and runStatement),   *)
(* without the protocol that keeps the promise.  The engine makes rows in  *)
(* an order of its own and may declare them complete; the caller gets one  *)
(* answer, which is an error, every row of a complete result, or the first *)
(* cap rows of a result that is larger than the cap.                       *)
(***************************************************************************)
EXTENDS Integers, Sequences

CONSTANT MaxResultRows

VARIABLES phase,     \* idle, open or answered
          cap,       \* the row cap, 0 for none
          made,      \* rows the engine has made
          complete,  \* the engine will make no more
          answer     \* what the caller got

vars == <<phase, cap, made, complete, answer>>

FirstRows(n) == [i \in 1 .. n |-> i]

Init == /\ phase = "idle"
        /\ cap = 0
        /\ made = 0
        /\ complete = FALSE
        /\ answer = [kind |-> "none", rows |-> <<>>]

Ask == /\ phase = "idle"
       /\ phase' = "open"
       /\ cap' \in 0 .. MaxResultRows
       /\ UNCHANGED <<made, complete, answer>>

(* The engine works at its own pace, also after the answer. *)
MakeRows(n) == /\ phase # "idle"
               /\ ~ complete
               /\ n >= made
               /\ made' = n
               /\ complete' \in BOOLEAN
               /\ UNCHANGED <<phase, cap, answer>>

Make == /\ made' \in Nat
        /\ MakeRows(made')

Answer(kind, result) == /\ phase' = "answered"
                        /\ answer' = [kind |-> kind, rows |-> result]
                        /\ UNCHANGED <<cap, made, complete>>

AnswerError == /\ phase \in {"idle", "open"}
               /\ Answer("error", <<>>)

AnswerAll == /\ phase = "open"
             /\ complete
             /\ cap > 0 => made <= cap
             /\ Answer("all", FirstRows(made))

AnswerTruncated == /\ phase = "open"
                   /\ cap > 0
                   /\ made > cap
                   /\ Answer("truncated", FirstRows(cap))

Next == Ask \/ Make \/ AnswerError \/ AnswerAll \/ AnswerTruncated

Spec == Init /\ [][Next]_vars

=============================================================================
