----------------------------- MODULE ReadOnlyGuard -----------------------------
(***************************************************************************)
(* ValidateReadOnly (internal/presto/readquery.go) against a lexer that    *)
(* reads a statement once from left to right.                              *)
(*                                                                         *)
(* A text is a sequence of symbols.  A symbol is a whole word (a read-only *)
(* keyword, EXPLAIN, an option word ANALYZE or VERBOSE, any other word), a *)
(* white space ("nl" is a line feed, "cr" a carriage return alone, "sp" a  *)
(* space or tab), or a mark.  The texts are those in which two words do    *)
(* not touch and "*/" does not stand in code, where it is two operators.   *)
(*                                                                         *)
(* A scanner is at i when i symbols are behind it, as in the code.         *)
(***************************************************************************)
EXTENDS Integers, Sequences

Words == {"READ", "EXPLAIN", "OPTION", "WORD"}
Spaces == {"nl", "cr", "sp"}
Marks == {"'", "dq", "--", "/*", "*/", "sep", "(", ")"}
Symbols == Words \cup Spaces \cup Marks

CONSTANTS MaxLength,  \* bound: symbols in a text
          Typed       \* the symbols that are typed

ASSUME LengthAssumption == MaxLength \in Nat
ASSUME TypedAssumption == Typed \subseteq Symbols

VARIABLES text,    \* what was typed so far
          lexer,   \* the reference: how far it understands the text
          astray   \* history: where the code takes the text otherwise

vars == <<text, lexer, astray>>

-----------------------------------------------------------------------------
(* The code. *)

Indices(s) == 0 .. Len(s)

(* One of the symbols is next. *)
Ahead(s, i, symbols) == i < Len(s) /\ s[i + 1] \in symbols

(* A for loop: the index moves until a step leaves it where it is. *)
Loop(step, start) ==
    LET loop[i \in DOMAIN step] == IF step[i] = i THEN i ELSE loop[step[i]]
    IN  loop[start]

(* The index of the first of the symbol from i on, or of the end. *)
Find(s, i, symbol) ==
    LET at == {j \in i .. Len(s) - 1 : s[j + 1] = symbol}
    IN  IF at = {} THEN Len(s) ELSE CHOOSE j \in at : \A k \in at : j <= k

Past(s, i) == IF i < Len(s) THEN i + 1 ELSE i

(* The line break itself is left, as white space. *)
SkipLineComment(s, i) == Find(s, i, "nl")

SkipBlockComment(s, i) == Past(s, Find(s, i + 1, "*/"))

(* From an opening quote to behind the closing one; a quote that follows   *)
(* at once opens again.                                                    *)
SkipQuoted(s, i, q) ==
    Loop([j \in Indices(s) |-> IF Ahead(s, j, {q}) THEN Past(s, Find(s, j + 1, q)) ELSE j], i)

(* Mutants (here and below): plausible bugs that the properties must find. *)
StringQuotes == {"'"}

Quotes == {"'", "dq"}

(* The index of the first separator, or the end. *)
TopLevelSemicolon(s) ==
    Loop([i \in Indices(s) |->
             CASE Ahead(s, i, Quotes)  -> SkipQuoted(s, i, s[i + 1])
               [] Ahead(s, i, {"--"})  -> SkipLineComment(s, i)
               [] Ahead(s, i, {"/*"})  -> SkipBlockComment(s, i)
               [] Ahead(s, i, {"sep"}) -> i
               [] OTHER                -> Past(s, i)],
         0)

StripLeadingTrivia(s, start) ==
    Loop([i \in Indices(s) |->
             CASE Ahead(s, i, Spaces) -> i + 1
               [] Ahead(s, i, {"--"}) -> SkipLineComment(s, i)
               [] Ahead(s, i, {"/*"}) -> SkipBlockComment(s, i)
               [] OTHER               -> i],
         start)

(* The index and the open groups; the last ")" is left for SkipParenGroup. *)
ParenLoop(s, start) ==
    Loop([at \in Indices(s) \X Int |->
             LET i    == at[1]
                 open == at[2]
             IN  CASE Ahead(s, i, {"'"})             -> <<SkipQuoted(s, i, "'"), open>>
                   [] Ahead(s, i, {"("})             -> <<i + 1, open + 1>>
                   [] Ahead(s, i, {")"}) /\ open = 1 -> at
                   [] Ahead(s, i, {")"}) /\ open # 1 -> <<i + 1, open - 1>>
                   [] OTHER                          -> <<Past(s, i), open>>],
         <<start, 0>>)

SkipParenGroup(s, i) == Past(s, ParenLoop(s, i)[1])

StripExplainOptions(s, start) ==
    Loop([i \in Indices(s) |->
             LET j == StripLeadingTrivia(s, i)
             IN  CASE Ahead(s, j, {"("})      -> SkipParenGroup(s, j)
                   [] Ahead(s, j, {"OPTION"}) -> j + 1
                   [] OTHER                   -> j],
         start)

(* Mutant: the inner statement of EXPLAIN goes unchecked. *)
CheckOuterStatement(s) == Ahead(s, StripLeadingTrivia(s, 0), {"READ", "EXPLAIN"})

(* checkStatement at depth 1, and at depth 0. *)
CheckInnerStatement(s, i) == Ahead(s, StripLeadingTrivia(s, i), {"READ"})

CheckStatement(s) ==
    LET i == StripLeadingTrivia(s, 0)
    IN  \/ Ahead(s, i, {"READ"})
        \/ Ahead(s, i, {"EXPLAIN"}) /\ CheckInnerStatement(s, StripExplainOptions(s, i + 1))

ValidateReadOnly(s) ==
    LET i == TopLevelSemicolon(s)
    IN  /\ i < Len(s) => StripLeadingTrivia(s, i + 1) = Len(s)
        /\ CheckStatement(SubSeq(s, 1, i))

-----------------------------------------------------------------------------
(* The reference: one symbol at a time. *)

Stages == {"start", "explain", "options", "query", "bad"}

(* The engine closes a line comment at a carriage return, too. *)
Closers == [string |-> {"'"}, ident |-> {"dq"}, line |-> {"nl", "cr"}, block |-> {"*/"}]
Openers == [string |-> "'", ident |-> "dq", line |-> "--", block |-> "/*"]

Lexers == [mode   : {"code"} \cup DOMAIN Closers,  \* what the lexer is in
           stage  : Stages,                       \* how much of a statement was read
           depth  : Nat,                          \* open parentheses of an option group
           closed : BOOLEAN,                      \* a separator was passed
           extra  : BOOLEAN]                      \* something but trivia follows it

Start == [mode |-> "code", stage |-> "start", depth |-> 0, closed |-> FALSE, extra |-> FALSE]

NextMode(l, x) == IF l.mode # "code" THEN IF x \in Closers[l.mode] THEN "code" ELSE l.mode
                  ELSE IF \E m \in DOMAIN Openers : x = Openers[m]
                       THEN CHOOSE m \in DOMAIN Openers : x = Openers[m]
                       ELSE "code"

Significant(l, x) == l.mode = "code" /\ x \notin Spaces \cup {"--", "/*"}

NextDepth(l, x) == CASE x = "(" /\ l.stage \in {"explain", "options"} -> l.depth + 1
                     [] x = ")" /\ l.stage = "options"                -> l.depth - 1
                     [] OTHER                                         -> l.depth

NextStage(l, x) ==
    CASE l.stage = "start"   -> CASE x = "READ"    -> "query"
                                  [] x = "EXPLAIN" -> "explain"
                                  [] OTHER         -> "bad"
      [] l.stage = "explain" -> CASE x = "READ"    -> "query"
                                  [] x = "OPTION"  -> "explain"
                                  [] x = "("       -> "options"
                                  [] OTHER         -> "bad"
      [] l.stage = "options" -> IF NextDepth(l, x) = 0 THEN "explain" ELSE "options"
      [] OTHER               -> l.stage

Read(l, x) ==
    LET seen == [l EXCEPT !.mode = NextMode(l, x)]
    IN  CASE ~ Significant(l, x) -> seen
          [] Significant(l, x) /\ l.closed -> [seen EXCEPT !.extra = TRUE]
          [] Significant(l, x) /\ ~ l.closed /\ x = "sep" -> [seen EXCEPT !.closed = TRUE]
          [] Significant(l, x) /\ ~ l.closed /\ x # "sep" ->
                [seen EXCEPT !.stage = NextStage(l, x), !.depth = NextDepth(l, x)]

(* Where the code takes the next symbol otherwise: SkipLineComment goes on *)
(* behind a carriage return, and ParenLoop, which knows strings only,      *)
(* counts in comments and quoted identifiers.                              *)
Strays(l, x) ==
    {place \in {"line", "group"} :
        \/ place = "line" /\ l.mode = "line" /\ x = "cr"
        \/ /\ place = "group" /\ l.stage = "options"
           /\ l.mode \in {"ident", "line", "block"} /\ x \in {"'", "(", ")"}}

Init == text = <<>> /\ lexer = Start /\ astray = {}

Type(x) == /\ Len(text) < MaxLength
           /\ x \in Words /\ text # <<>> => text[Len(text)] \notin Words
           /\ x = "*/" => lexer.mode # "code"
           /\ text' = Append(text, x)
           /\ lexer' = Read(lexer, x)
           /\ astray' = astray \cup Strays(lexer, x)

Next == \E x \in Typed : Type(x)

Spec == Init /\ [][Next]_vars

ReadOnly(l) == l.stage = "query" /\ ~ l.extra

-----------------------------------------------------------------------------
(* No second statement gets through (readquery.go:60-64), whatever the     *)
(* options of EXPLAIN hold; a carriage return must not end a comment.      *)
OneStatement == "line" \notin astray /\ ValidateReadOnly(text) => ~ lexer.extra

(* Nothing but one statement with a read-only leading keyword, after       *)
(* EXPLAIN too, gets through (readquery.go:54-90), unless a carriage       *)
(* return ends a comment or a comment or quoted identifier among the       *)
(* options of EXPLAIN holds a quote or parenthesis (readquery.go:233-238,  *)
(* 253-273): there the code does let writes through, but no second         *)
(* statement on account of the options.                                    *)
NoWriteAccepted == /\ OneStatement
                   /\ astray = {} /\ ValidateReadOnly(text) => ReadOnly(lexer)

(* One read-only statement is not refused for its comments, strings,       *)
(* identifiers, options or trailing separator (readquery.go:54-90), with   *)
(* the same exceptions: there the code does refuse reads.                  *)
NoReadRefused == astray = {} /\ ReadOnly(lexer) => ValidateReadOnly(text)

(* What the comment of checkStatement says (readquery.go:72-74): what gets *)
(* through has no write, EXPLAIN or none.  Options with comments refute it *)
(* (readquery.go:253-273).                                                 *)
InnerRechecked == ValidateReadOnly(text) => lexer.stage # "bad"

=============================================================================
