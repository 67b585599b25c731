-------------------------------- MODULE SqlNames --------------------------------
(***************************************************************************)
(* How the names a caller gives enter the fixed statements of the metadata *)
(* tools (quoteIdent, fqTable in internal/presto/client.go) and a query's  *)
(* id enters a URL (GetQueryRaw), and how an engine reads them.  A name is *)
(* a sequence of characters.                                               *)
(***************************************************************************)
EXTENDS Integers, Sequences

Quote == "quote"
Dot == "dot"

(* Mutants (here and below): plausible bugs that the properties must find. *)
EscapeNothing(char) == <<char>>

Escape(char) == IF char = Quote THEN <<Quote, Quote>> ELSE <<char>>

QuoteIdent(name) ==
    LET text[n \in 0 .. Len(name)] ==
            IF n = 0 THEN <<Quote>> ELSE text[n - 1] \o Escape(name[n])
    IN  text[Len(name)] \o <<Quote>>

(* A dot goes before every name but the first. *)
Part(names, n) == IF n = 1 THEN QuoteIdent(names[n]) ELSE <<Dot>> \o QuoteIdent(names[n])

(* fqTable, and the shorter forms of ListSchemas and ListTables. *)
Qualified(names) ==
    LET text[n \in 0 .. Len(names)] ==
            IF n = 0 THEN <<>> ELSE text[n - 1] \o Part(names, n)
    IN  text[Len(names)]

-----------------------------------------------------------------------------
(* External: the engine reads a qualified name from left to right.  A      *)
(* quote ends an identifier unless another follows.                        *)

Reading(state, name, names) == [state |-> state, name |-> name, names |-> names]

ReadChar(r, char) ==
    CASE r.state = "between" /\ char = Quote -> Reading("inside", <<>>, r.names)
      [] r.state = "inside" /\ char = Quote  -> [r EXCEPT !.state = "ended"]
      [] r.state = "inside" /\ char # Quote  -> [r EXCEPT !.name = Append(@, char)]
      [] r.state = "ended" /\ char = Quote   -> Reading("inside", Append(r.name, Quote), r.names)
      [] r.state = "ended" /\ char = Dot     -> Reading("between", <<>>, Append(r.names, r.name))
      [] OTHER                               -> [r EXCEPT !.state = "error"]

NothingRead == Reading("between", <<>>, <<>>)

(* The names in a text, or <<>> if it is not a qualified name. *)
NamesRead(text) ==
    LET after[n \in 0 .. Len(text)] ==
            IF n = 0 THEN NothingRead ELSE ReadChar(after[n - 1], text[n])
        end == after[Len(text)]
    IN  IF end.state = "ended" THEN Append(end.names, end.name) ELSE <<>>

-----------------------------------------------------------------------------
(* The URL of a query: its id is put in as it is. *)

QueryPath == "/v1/query/"

PathOf(id) == <<QueryPath>> \o id

(* External: a coordinator takes for the id what follows up to a mark that *)
(* ends the segment.  A further segment, one of dots or an escape makes it *)
(* another resource or another id; every other character is read as it is. *)
PathEnds == {"?", "#", ";"}

PathBreaks == {"/", "%"}

Dots == {<<>>, <<".">>, <<".", ".">>}

(* How much of what follows the path comes before such a mark. *)
IdLength(tail) == CHOOSE n \in 0 .. Len(tail) :
                     /\ \A i \in 1 .. n : tail[i] \notin PathEnds
                     /\ n < Len(tail) => tail[n + 1] \in PathEnds

(* The id in a query's URL, <<>> if the URL is not a query's. *)
IdRead(path) ==
    LET id == SubSeq(Tail(path), 1, IdLength(Tail(path)))
    IN  IF id \in Dots \/ \E i \in DOMAIN id : id[i] \in PathBreaks THEN <<>> ELSE id

(* Ids as coordinators make them have none of these characters. *)
IsPlain(id) == /\ \A i \in DOMAIN id : id[i] \notin PathEnds \cup PathBreaks
               /\ id \notin Dots

=============================================================================
