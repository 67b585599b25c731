-------------------------- MODULE ReadOnlyGuardProofs --------------------------
(***************************************************************************)
(* The guard agrees with the lexer on texts of every length in which no    *)
(* scanner of the code goes astray: wherever a scanner stops, the lexer is *)
(* in the state that the code takes it to be in.  The induction is that of *)
(* OperatorProofs.                                                         *)
(***************************************************************************)
EXTENDS ReadOnlyGuard, OperatorProofs

-----------------------------------------------------------------------------
(* Loops. *)

(* Every step but the last gets nearer to the end.                         *)
Ends(step, D, size, bound) ==
    /\ step \in [D -> D] /\ size \in [D -> Nat]
    /\ bound \in Nat /\ \A x \in D : size[x] <= bound
    /\ \A x \in D : step[x] = x \/ size[step[x]] < size[x]

(* A loop of the code does what its step says, and goes on from there.     *)
LEMMA LoopUnfolds ==
    ASSUME NEW D, NEW step, NEW size, NEW bound, Ends(step, D, size, bound)
    PROVE  \A x \in D : Loop(step, x) = IF step[x] = x THEN x ELSE Loop(step, step[x])
<1> DEFINE Rest(g, x) == IF step[x] = x THEN x ELSE g[step[x]]
           UpTo(k) == \E g \in [D -> D] : \A x \in D : size[x] < k => g[x] = Rest(g, x)
           Good == {k \in Nat : UpTo(k)}
           Body(g) == [x \in DOMAIN step |-> Rest(g, x)]
           loop == CHOOSE g : g = Body(g)
<1>1. step \in [D -> D] /\ size \in [D -> Nat] /\ bound \in Nat /\ \A x \in D : size[x] <= bound
  BY DEF Ends
<1>2. \A x \in D : step[x] \in D /\ size[x] \in Nat
                   /\ (step[x] = x \/ size[step[x]] < size[x])
  BY DEF Ends
<1>3. UpTo(0)
  <2>1. [x \in D |-> x] \in [D -> D] /\ \A x \in D : ~ size[x] < 0
    BY <1>2
  <2> QED
    BY <2>1
<1>4. ASSUME NEW k \in Nat, UpTo(k) PROVE UpTo(k + 1)
  <2>1. PICK g \in [D -> D] : \A x \in D : size[x] < k => g[x] = Rest(g, x)
    BY <1>4
  <2> DEFINE h == [x \in D |-> Rest(g, x)]
  <2>2. h \in [D -> D] /\ \A x \in D : h[x] = Rest(g, x)
    BY <1>2
  <2> HIDE DEF h
  <2>3. ASSUME NEW x \in D, size[x] < k + 1 PROVE h[x] = Rest(h, x)
    <3>1. CASE step[x] = x
      BY <2>2, <3>1
    <3>2. CASE step[x] # x
      <4>1. step[x] \in D /\ size[step[x]] < k
        <5>1. size[x] \in Nat /\ size[step[x]] \in Nat /\ size[step[x]] < size[x] /\ step[x] \in D
          BY <1>2, <3>2
        <5> QED
          BY <2>3, <5>1
      <4>2. h[step[x]] = g[step[x]]
        <5> HIDE DEF Rest
        <5> QED
          BY <2>1, <2>2, <4>1
      <4> QED
        BY <2>2, <3>2, <4>2
    <3> QED
      BY <3>1, <3>2
  <2> HIDE DEF Rest
  <2> QED
    BY <2>2, <2>3
<1>5. bound + 1 \in Good
  <2> HIDE DEF UpTo
  <2>1. 0 \in Good /\ \A k \in Nat : k \in Good => k + 1 \in Good
    BY <1>3, <1>4
  <2> HIDE DEF Good
  <2> QED
    BY <1>1, <2>1, SetInduction
<1>6. PICK g \in [D -> D] : \A x \in D : size[x] < bound + 1 => g[x] = Rest(g, x)
  BY <1>5
<1>7. g = Body(g)
  <2>1. \A x \in D : g[x] = Rest(g, x)
    <3>1. \A x \in D : size[x] < bound + 1
      BY <1>1, <1>2
    <3> HIDE DEF Rest
    <3> QED
      BY <1>6, <3>1
  <2>2. DOMAIN step = D /\ g = [x \in D |-> g[x]]
    BY <1>1
  <2> HIDE DEF Rest
  <2> QED
    BY <2>1, <2>2
<1>8. loop = Body(loop)
  <2> HIDE DEF Body
  <2> QED
    BY <1>7
<1>9. \A x : Loop(step, x) = loop[x]
  BY DEF Loop
<1> HIDE DEF loop
<1>10. \A x \in D : loop[x] = Rest(loop, x)
  <2>1. DOMAIN step = D
    BY <1>1
  <2> QED
    BY <1>8, <2>1
<1> QED
  BY <1>9, <1>10

(* What every step keeps holds where a loop ends. *)
LEMMA LoopEnds ==
    ASSUME NEW D, NEW step, NEW size, NEW bound, Ends(step, D, size, bound),
           NEW I \in SUBSET D, \A x \in I : step[x] \in I, NEW start \in I
    PROVE  Loop(step, start) \in I /\ step[Loop(step, start)] = Loop(step, start)
<1> DEFINE Right(x) == Loop(step, x) \in I /\ step[Loop(step, x)] = Loop(step, x)
           Good == {k \in Nat : \A x \in I : size[x] < k => Right(x)}
<1>1. \A x \in I : x \in D /\ step[x] \in I /\ size[x] \in Nat /\ size[step[x]] \in Nat
                   /\ (step[x] = x \/ size[step[x]] < size[x])
  <2>1. \A x \in D : size[x] \in Nat /\ (step[x] = x \/ size[step[x]] < size[x])
    BY DEF Ends
  <2> QED
    BY <2>1
<1>2. \A x \in I : Loop(step, x) = IF step[x] = x THEN x ELSE Loop(step, step[x])
  BY <1>1, LoopUnfolds
<1>3. 0 \in Good
  BY <1>1
<1>4. ASSUME NEW k \in Nat, k \in Good PROVE k + 1 \in Good
  <2> SUFFICES ASSUME NEW x \in I, size[x] < k + 1 PROVE Right(x)
    OBVIOUS
  <2>1. CASE step[x] = x
    BY <1>2, <2>1
  <2>2. CASE step[x] # x
    <3>1. step[x] \in I /\ size[step[x]] < k
      BY <1>1, <2>2
    <3>2. Right(step[x])
      BY <1>4, <3>1
    <3>3. Loop(step, x) = Loop(step, step[x])
      BY <1>2, <2>2
    <3> QED
      BY <3>2, <3>3
  <2> QED
    BY <2>1, <2>2
<1>5. \A k \in Nat : k \in Good
  <2> HIDE DEF Good
  <2> QED
    BY <1>3, <1>4, SetInduction
<1>6. size[start] + 1 \in Nat /\ size[start] < size[start] + 1
  BY <1>1
<1> HIDE DEF Right
<1> QED
  BY <1>5, <1>6 DEF Right

(* A loop over the indices of a text. *)
LEMMA IndexLoop ==
    ASSUME NEW n \in Nat, NEW step \in [0 .. n -> 0 .. n], \A i \in 0 .. n : i <= step[i],
           NEW I \in SUBSET (0 .. n), \A i \in I : step[i] \in I, NEW start \in I
    PROVE  /\ Loop(step, start) \in I /\ step[Loop(step, start)] = Loop(step, start)
           /\ step[start] = start => Loop(step, start) = start
<1> DEFINE D == 0 .. n
           size == [i \in D |-> n - i]
<1>1. Ends(step, D, size, n)
  <2>1. size \in [D -> Nat] /\ \A i \in D : size[i] <= n
    OBVIOUS
  <2>2. ASSUME NEW i \in D PROVE step[i] = i \/ size[step[i]] < size[i]
    <3>1. step[i] \in D /\ i <= step[i]
      OBVIOUS
    <3> QED
      BY <3>1
  <2> HIDE DEF size, D
  <2> QED
    BY <2>1, <2>2 DEF Ends, D
<1> HIDE DEF D, size
<1>2. I \in SUBSET D /\ start \in D
  BY DEF D
<1>3. Loop(step, start) \in I /\ step[Loop(step, start)] = Loop(step, start)
  BY <1>1, <1>2, LoopEnds
<1>4. step[start] = start => Loop(step, start) = start
  BY <1>1, <1>2, LoopUnfolds
<1> QED
  BY <1>3, <1>4

-----------------------------------------------------------------------------
(* The lexer. *)

(* What is nothing to the parser. *)
Trivial == {"nl", "cr", "sp", "--", "/*"}

LEMMA TrivialSays == /\ Spaces = {"nl", "cr", "sp"}
                     /\ \A l, x : Significant(l, x) <=> l.mode = "code" /\ x \notin Trivial
BY DEF Significant, Spaces, Trivial

(* Nothing that the parser reads has come. *)
Same(l, k) == /\ l.stage = k.stage /\ l.depth = k.depth
              /\ l.closed = k.closed /\ l.extra = k.extra

Sound(l) == /\ l \in Lexers
            /\ l.stage = "options" <=> l.depth > 0
            /\ l.extra => l.closed

LEMMA Modes == /\ DOMAIN Closers = {"string", "ident", "line", "block"}
               /\ DOMAIN Openers = {"string", "ident", "line", "block"}
               /\ Closers["string"] = {"'"} /\ Closers["ident"] = {"dq"}
               /\ Closers["line"] = {"nl", "cr"} /\ Closers["block"] = {"*/"}
               /\ Openers["string"] = "'" /\ Openers["ident"] = "dq"
               /\ Openers["line"] = "--" /\ Openers["block"] = "/*"
BY DEF Closers, Openers

(* What the next symbol makes of a string, identifier, comment or code.    *)
LEMMA ModeAfter ==
    ASSUME NEW l, NEW x
    PROVE  LET m == NextMode(l, x)
           IN  /\ l.mode # "code" /\ x \in Closers[l.mode] => m = "code"
               /\ l.mode # "code" /\ x \notin Closers[l.mode] => m = l.mode
               /\ l.mode = "code" /\ x = "'" => m = "string"
               /\ l.mode = "code" /\ x = "dq" => m = "ident"
               /\ l.mode = "code" /\ x = "--" => m = "line"
               /\ l.mode = "code" /\ x = "/*" => m = "block"
               /\ l.mode = "code" /\ x \notin {"'", "dq", "--", "/*"} => m = "code"
<1>1. CASE l.mode # "code"
  BY <1>1 DEF NextMode
<1>2. CASE l.mode = "code"
  <2> DEFINE opened == CHOOSE m \in DOMAIN Openers : x = Openers[m]
  <2>1. NextMode(l, x) = IF \E m \in DOMAIN Openers : x = Openers[m] THEN opened ELSE "code"
    BY <1>2 DEF NextMode
  <2>2. (\E m \in DOMAIN Openers : x = Openers[m]) => opened \in DOMAIN Openers /\ x = Openers[opened]
    OBVIOUS
  <2> HIDE DEF opened
  <2> QED
    BY <1>2, <2>1, <2>2, Modes
<1> QED
  BY <1>1, <1>2

(* What a symbol changes. *)
LEMMA ReadSays ==
    ASSUME NEW l \in Lexers, NEW x
    PROVE  LET r == Read(l, x)
           IN  /\ r.mode = NextMode(l, x)
               /\ ~ Significant(l, x) => Same(r, l)
               /\ Significant(l, x) /\ l.closed =>
                     r.stage = l.stage /\ r.depth = l.depth /\ r.closed = TRUE /\ r.extra = TRUE
               /\ Significant(l, x) /\ ~ l.closed /\ x = "sep" =>
                     r.stage = l.stage /\ r.depth = l.depth /\ r.closed = TRUE /\ r.extra = l.extra
               /\ Significant(l, x) /\ ~ l.closed /\ x # "sep" =>
                     /\ r.stage = NextStage(l, x) /\ r.depth = NextDepth(l, x)
                     /\ r.closed = l.closed /\ r.extra = l.extra
               /\ r = [mode |-> r.mode, stage |-> r.stage, depth |-> r.depth, closed |-> r.closed, extra |-> r.extra]
<1>1. CASE ~ Significant(l, x)
  BY <1>1 DEF Read, Lexers, Same
<1>2. CASE Significant(l, x) /\ l.closed
  BY <1>2 DEF Read, Lexers
<1>3. CASE Significant(l, x) /\ ~ l.closed /\ x = "sep"
  BY <1>3 DEF Read, Lexers
<1>4. CASE Significant(l, x) /\ ~ l.closed /\ x # "sep"
  BY <1>4 DEF Read, Lexers
<1> QED
  BY <1>1, <1>2, <1>3, <1>4

(* How far a statement is after a symbol that the parser reads. *)
LEMMA StageSays ==
    ASSUME NEW l, Sound(l), NEW x
    PROVE  LET stage == NextStage(l, x)
               depth == NextDepth(l, x)
           IN  /\ stage \in Stages /\ depth \in Nat /\ (stage = "options" <=> depth > 0)
               /\ l.stage \in {"query", "bad"} => stage = l.stage /\ depth = l.depth
               /\ x \in {"'", "dq"} /\ l.stage \in {"start", "explain"} => stage = "bad" /\ depth = l.depth
               /\ x \notin {"(", ")"} /\ l.stage = "options" => stage = "options" /\ depth = l.depth
               /\ l.stage = "options" /\ x = "(" => stage = "options" /\ depth = l.depth + 1
               /\ l.stage = "options" /\ x = ")" /\ l.depth # 1 => stage = "options" /\ depth = l.depth - 1
               /\ l.stage = "options" /\ x = ")" /\ l.depth = 1 => stage = "explain" /\ depth = 0
               /\ l.stage = "start" => stage = CASE x = "READ" -> "query" [] x = "EXPLAIN" -> "explain" [] OTHER -> "bad"
               /\ l.stage = "explain" => stage = CASE x = "READ" -> "query" [] x = "OPTION" -> "explain"
                                                  [] x = "(" -> "options" [] OTHER -> "bad"
               /\ l.stage = "explain" /\ x = "(" => depth = 1
<1>1. l.stage \in Stages /\ l.depth \in Nat /\ (l.stage = "options" <=> l.depth > 0)
  BY DEF Sound, Lexers
<1>2. CASE l.stage = "start"
  BY <1>1, <1>2 DEF NextStage, NextDepth, Stages
<1>3. CASE l.stage = "explain"
  BY <1>1, <1>3 DEF NextStage, NextDepth, Stages
<1>4. CASE l.stage = "options"
  BY <1>1, <1>4 DEF NextStage, NextDepth, Stages
<1>5. CASE l.stage \in {"query", "bad"}
  BY <1>1, <1>5 DEF NextStage, NextDepth, Stages
<1> QED
  BY <1>1, <1>2, <1>3, <1>4, <1>5 DEF Stages

(* The lexer stays consistent.                                             *)
LEMMA SoundStays == ASSUME NEW l, Sound(l), NEW x PROVE Sound(Read(l, x))
<1> DEFINE r == Read(l, x)
<1>1. l \in Lexers /\ (l.stage = "options" <=> l.depth > 0) /\ (l.extra => l.closed)
      /\ l.stage \in Stages /\ l.depth \in Nat /\ l.closed \in BOOLEAN /\ l.extra \in BOOLEAN
      /\ l.mode \in {"code"} \cup DOMAIN Closers
  BY DEF Sound, Lexers
<1>2. r.mode \in {"code"} \cup DOMAIN Closers
  <2>1. r.mode = NextMode(l, x)
    BY <1>1, ReadSays
  <2> HIDE DEF r
  <2>2. CASE l.mode # "code"
    BY <1>1, <2>1, <2>2, ModeAfter
  <2>3. CASE l.mode = "code"
    BY <2>1, <2>3, ModeAfter, Modes
  <2> QED
    BY <2>2, <2>3
<1>3. /\ r.stage \in Stages /\ r.depth \in Nat /\ (r.stage = "options" <=> r.depth > 0)
      /\ r.closed \in BOOLEAN /\ r.extra \in BOOLEAN /\ (r.extra => r.closed)
  <2>1. CASE ~ Significant(l, x)
    BY <1>1, <2>1, ReadSays DEF Same
  <2>2. CASE Significant(l, x) /\ l.closed
    BY <1>1, <2>2, ReadSays
  <2>3. CASE Significant(l, x) /\ ~ l.closed /\ x = "sep"
    BY <1>1, <2>3, ReadSays
  <2>4. CASE Significant(l, x) /\ ~ l.closed /\ x # "sep"
    <3>1. LET stage == NextStage(l, x)
              depth == NextDepth(l, x)
          IN  stage \in Stages /\ depth \in Nat /\ (stage = "options" <=> depth > 0)
      BY StageSays
    <3>2. /\ r.stage = NextStage(l, x) /\ r.depth = NextDepth(l, x)
          /\ r.closed = l.closed /\ r.extra = l.extra
      BY <1>1, <2>4, ReadSays
    <3> HIDE DEF r
    <3> QED
      BY <1>1, <3>1, <3>2
  <2> QED
    BY <2>1, <2>2, <2>3, <2>4
<1>4. r = [mode |-> r.mode, stage |-> r.stage, depth |-> r.depth, closed |-> r.closed, extra |-> r.extra]
  BY <1>1, ReadSays
<1> HIDE DEF r
<1> QED
  BY <1>2, <1>3, <1>4 DEF Sound, Lexers, r

-----------------------------------------------------------------------------
(* A text as the lexer reads it: h[i] is the lexer when i symbols are read. *)

(* A carriage return does not end a comment. *)
Fits(l, x) == "line" \notin Strays(l, x)

IsRead(s, h) == /\ s \in Seq(Symbols)
                /\ h[0] = Start
                /\ \A i \in 1 .. Len(s) : Fits(h[i - 1], s[i]) /\ h[i] = Read(h[i - 1], s[i])

(* The lexer at every index of a text that is read.                        *)
LEMMA ReadNext ==
    ASSUME NEW s, NEW h, IsRead(s, h)
    PROVE  /\ Len(s) \in Nat
           /\ \A i \in 0 .. Len(s) : Sound(h[i])
           /\ \A i \in 0 .. Len(s) - 1 : /\ i + 1 \in 0 .. Len(s) /\ s[i + 1] \in Symbols
                                        /\ Fits(h[i], s[i + 1]) /\ h[i + 1] = Read(h[i], s[i + 1])
<1> DEFINE n == Len(s)
           Good == {i \in Nat : i <= n => Sound(h[i])}
<1>1. n \in Nat /\ \A i \in 1 .. n : s[i] \in Symbols
  BY LenProperties, ElementOfSeq DEF IsRead
<1> HIDE DEF n
<1>2. \A i \in 0 .. n - 1 : /\ i + 1 \in 0 .. n /\ s[i + 1] \in Symbols
                            /\ Fits(h[i], s[i + 1]) /\ h[i + 1] = Read(h[i], s[i + 1])
  <2> SUFFICES ASSUME NEW i \in 0 .. n - 1
               PROVE  /\ i + 1 \in 0 .. n /\ s[i + 1] \in Symbols
                      /\ Fits(h[i], s[i + 1]) /\ h[i + 1] = Read(h[i], s[i + 1])
    OBVIOUS
  <2> DEFINE k == i + 1
  <2>1. k \in 1 .. n /\ k - 1 = i /\ k \in 0 .. n
    BY <1>1
  <2> HIDE DEF k
  <2>2. Fits(h[k - 1], s[k]) /\ h[k] = Read(h[k - 1], s[k])
    BY <2>1 DEF IsRead, n
  <2> QED
    BY <1>1, <2>1, <2>2 DEF k
<1>3. Sound(h[0])
  BY DEF IsRead, Start, Sound, Lexers, Stages
<1>4. ASSUME NEW i \in Nat, i \in Good PROVE i + 1 \in Good
  <2> SUFFICES ASSUME i + 1 <= n PROVE Sound(h[i + 1])
    OBVIOUS
  <2>1. i \in 0 .. n - 1 /\ Sound(h[i])
    BY <1>1, <1>4
  <2> QED
    BY <1>2, <2>1, SoundStays
<1>5. \A i \in Nat : i \in Good
  <2>1. 0 \in Good
    BY <1>3
  <2> HIDE DEF Good
  <2> QED
    BY <1>4, <2>1, SetInduction
<1> QED
  BY <1>1, <1>2, <1>5 DEF n

(* What every symbol keeps is kept. *)
LEMMA Kept ==
    ASSUME NEW h, NEW i \in Nat, NEW j \in Nat, NEW Q, h[i] \in Q,
           \A k \in i .. j - 1 : h[k] \in Q => h[k + 1] \in Q
    PROVE  \A k \in i .. j : h[k] \in Q
<1> DEFINE Good == {m \in Nat : i + m <= j => h[i + m] \in Q}
<1>1. 0 \in Good
  OBVIOUS
<1>2. ASSUME NEW m \in Nat, m \in Good PROVE m + 1 \in Good
  <2> SUFFICES ASSUME i + (m + 1) <= j PROVE h[i + (m + 1)] \in Q
    OBVIOUS
  <2> DEFINE k == i + m
  <2>1. k \in i .. j - 1 /\ k <= j /\ k + 1 = i + (m + 1)
    OBVIOUS
  <2>2. h[k] \in Q
    BY <1>2, <2>1
  <2> HIDE DEF k
  <2> QED
    BY <2>1, <2>2
<1>3. \A m \in Nat : m \in Good
  <2> HIDE DEF Good
  <2> QED
    BY <1>1, <1>2, SetInduction
<1>4. ASSUME NEW k \in i .. j PROVE h[k] \in Q
  <2> DEFINE m == k - i
  <2>1. m \in Nat /\ i + m = k /\ k <= j
    OBVIOUS
  <2>2. m \in Good
    BY <1>3, <2>1
  <2> QED
    BY <2>1, <2>2
<1> QED
  BY <1>4

(* The first of a symbol, or the end. *)
LEMMA Found ==
    ASSUME NEW s, Len(s) \in Nat, NEW i \in 0 .. Len(s), NEW x
    PROVE  /\ Find(s, i, x) \in i .. Len(s)
           /\ \A k \in i .. Find(s, i, x) - 1 : s[k + 1] # x
           /\ Find(s, i, x) < Len(s) => s[Find(s, i, x) + 1] = x
<1> DEFINE n == Len(s)
           at == {j \in i .. n - 1 : s[j + 1] = x}
           found == Find(s, i, x)
<1>1. CASE at = {}
  <2>1. found = n
    BY <1>1 DEF Find
  <2>2. \A k \in i .. n - 1 : s[k + 1] # x
    BY <1>1
  <2>3. n \in i .. n /\ ~ n < n
    OBVIOUS
  <2> HIDE DEF at, found, n
  <2>4. found \in i .. n /\ (\A k \in i .. found - 1 : s[k + 1] # x) /\ ~ found < n
    BY <2>1, <2>2, <2>3
  <2> QED
    BY <2>4 DEF found, n
<1>2. CASE at # {}
  <2>1. found = CHOOSE j \in at : \A k \in at : j <= k
    BY <1>2 DEF Find
  <2>2. \E j \in at : \A k \in at : j <= k
    <3>1. at \subseteq Nat
      OBVIOUS
    <3> HIDE DEF at
    <3> QED
      BY <1>2, <3>1, Smallest
  <2>3. found \in at /\ \A k \in at : found <= k
    <3> HIDE DEF at, found
    <3> QED
      BY <2>1, <2>2
  <2> HIDE DEF found
  <2>4. found \in i .. n - 1 /\ s[found + 1] = x
    BY <2>3
  <2>5. ASSUME NEW k \in i .. found - 1 PROVE s[k + 1] # x
    <3>1. k \in i .. n - 1 /\ ~ found <= k
      BY <2>4
    <3> QED
      BY <2>3, <3>1
  <2>6. found \in i .. n /\ (found < n => s[found + 1] = x)
    BY <2>4
  <2> QED
    BY <2>5, <2>6 DEF found
<1> QED
  BY <1>1, <1>2

(* Up to what closes it, the lexer stays in a string, identifier or        *)
(* comment.                                                                *)
LEMMA Inside ==
    ASSUME NEW s, NEW h, IsRead(s, h), NEW i \in 0 .. Len(s), h[i].mode # "code",
           NEW j \in i .. Len(s), \A k \in i .. j - 1 : s[k + 1] \notin Closers[h[i].mode]
    PROVE  /\ h[j].mode = h[i].mode /\ Same(h[j], h[i])
           /\ j < Len(s) /\ s[j + 1] \in Closers[h[i].mode] =>
                 h[j + 1].mode = "code" /\ Same(h[j + 1], h[i])
<1> DEFINE n == Len(s)
           m == h[i].mode
           Q == {l \in Lexers : l.mode = m /\ Same(l, h[i])}
<1>1. n \in Nat /\ \A k \in 0 .. n : h[k] \in Lexers
  BY ReadNext DEF Sound
<1>2. \A k \in 0 .. n - 1 : k + 1 \in 0 .. n /\ h[k + 1] = Read(h[k], s[k + 1])
  BY ReadNext
<1> HIDE DEF n
<1>3. ASSUME NEW k \in 0 .. n - 1, h[k] \in Q
      PROVE  /\ h[k + 1] \in Lexers /\ Same(h[k + 1], h[i])
             /\ h[k + 1].mode = IF s[k + 1] \in Closers[m] THEN "code" ELSE m
  <2>1. h[k] \in Lexers /\ h[k].mode = m /\ m # "code" /\ Same(h[k], h[i])
    BY <1>3
  <2>2. ~ Significant(h[k], s[k + 1])
    BY <2>1 DEF Significant
  <2>3. Same(h[k + 1], h[k]) /\ h[k + 1].mode = NextMode(h[k], s[k + 1])
    <3> DEFINE l == h[k]
               x == s[k + 1]
    <3>1. l \in Lexers /\ ~ Significant(l, x)
      BY <2>1, <2>2
    <3> HIDE DEF l, x
    <3>2. Same(Read(l, x), l) /\ Read(l, x).mode = NextMode(l, x)
      BY <3>1, ReadSays
    <3> QED
      BY <1>2, <3>2 DEF l, x
  <2>4. h[k + 1].mode = IF s[k + 1] \in Closers[m] THEN "code" ELSE m
    BY <2>1, <2>3, ModeAfter
  <2> QED
    BY <1>1, <1>2, <2>1, <2>3, <2>4 DEF Same
<1>4. \A k \in i .. j : h[k] \in Q
  <2>1. h[i] \in Q
    BY <1>1 DEF Same, n
  <2>2. \A k \in i .. j - 1 : h[k] \in Q => h[k + 1] \in Q
    <3> SUFFICES ASSUME NEW k \in i .. j - 1, h[k] \in Q PROVE h[k + 1] \in Q
      OBVIOUS
    <3>1. k \in 0 .. n - 1 /\ s[k + 1] \notin Closers[m]
      BY <1>1 DEF n
    <3> HIDE DEF m
    <3> QED
      BY <1>3, <3>1
  <2>3. i \in Nat /\ j \in Nat
    BY <1>1 DEF n
  <2> HIDE DEF Q
  <2> QED
    BY <2>1, <2>2, <2>3, Kept
<1>5. h[j] \in Q
  BY <1>1, <1>4 DEF n
<1>6. j < n => j \in 0 .. n - 1
  BY <1>1 DEF n
<1>7. j < n /\ s[j + 1] \in Closers[m] => h[j + 1].mode = "code" /\ Same(h[j + 1], h[i])
  <2> HIDE DEF Q, m
  <2> QED
    BY <1>3, <1>5, <1>6
<1> QED
  BY <1>5, <1>7 DEF n

-----------------------------------------------------------------------------
(* The scanners. *)

(* Where a scanner may stop: in code, at the end, or at the line break     *)
(* that closes a comment.                                                  *)
Free(s, h, i) == \/ h[i].mode = "code"
                 \/ i = Len(s)
                 \/ h[i].mode = "line" /\ s[i + 1] = "nl"

(* One symbol further, as far as there is one.                             *)
LEMMA PastSays ==
    ASSUME NEW s, Len(s) \in Nat, NEW i \in 0 .. Len(s)
    PROVE  /\ Past(s, i) \in i .. Len(s)
           /\ i < Len(s) => Past(s, i) = i + 1
           /\ i = Len(s) => Past(s, i) = i
BY DEF Past

(* What opens a comment is nothing to the parser.                          *)
LEMMA CommentOpens ==
    ASSUME NEW l \in Lexers, l.mode = "code"
    PROVE  /\ Read(l, "--").mode = "line" /\ Same(Read(l, "--"), l)
           /\ Read(l, "/*").mode = "block" /\ Same(Read(l, "/*"), l)
<1>1. ~ Significant(l, "--") /\ ~ Significant(l, "/*")
  BY DEF Significant
<1>2. NextMode(l, "--") = "line" /\ NextMode(l, "/*") = "block"
  BY ModeAfter
<1>3. Read(l, "--").mode = NextMode(l, "--") /\ Same(Read(l, "--"), l)
  BY <1>1, ReadSays
<1>4. Read(l, "/*").mode = NextMode(l, "/*") /\ Same(Read(l, "/*"), l)
  BY <1>1, ReadSays
<1> QED
  BY <1>2, <1>3, <1>4

(* A line comment is skipped, and nothing that the parser reads with it.   *)
LEMMA LineSkipped ==
    ASSUME NEW s, NEW h, IsRead(s, h), NEW i \in 0 .. Len(s) - 1,
           h[i].mode = "code", s[i + 1] = "--"
    PROVE  LET j == SkipLineComment(s, i)
           IN  j \in i + 1 .. Len(s) /\ Same(h[j], h[i]) /\ Free(s, h, j)
<1> DEFINE n == Len(s)
           j == Find(s, i, "nl")
<1>1. n \in Nat /\ i \in 0 .. n /\ i + 1 \in 0 .. n /\ h[i] \in Lexers /\ h[i + 1] = Read(h[i], "--")
  <2>1. n \in Nat
    BY ReadNext
  <2>2. i \in 0 .. n
    BY <2>1
  <2>3. i + 1 \in 0 .. n /\ h[i + 1] = Read(h[i], "--")
    BY ReadNext
  <2>4. h[i] \in Lexers
    BY <2>2, ReadNext DEF Sound
  <2> QED
    BY <2>1, <2>2, <2>3, <2>4
<1>2. j \in i .. n /\ (\A k \in i .. j - 1 : s[k + 1] # "nl") /\ (j < n => s[j + 1] = "nl")
  <2>1. Len(s) \in Nat /\ i \in 0 .. Len(s)
    BY <1>1
  <2>2. j \in i .. n /\ (j < n => s[j + 1] = "nl")
    BY <2>1, Found
  <2>3. ASSUME NEW k \in i .. j - 1 PROVE s[k + 1] # "nl"
    BY <2>1, Found
  <2> HIDE DEF j, n
  <2> QED
    BY <2>2, <2>3
<1> HIDE DEF n, j
<1>3. j \in i + 1 .. n
  <2>1. j # i
    BY <1>1, <1>2 DEF n
  <2> QED
    BY <1>1, <1>2, <2>1
<1>4. h[i + 1].mode = "line" /\ Same(h[i + 1], h[i])
  BY <1>1, CommentOpens
<1>5. h[j].mode = "line" /\ Same(h[j], h[i + 1])
  <2>1. Closers[h[i + 1].mode] = {"nl", "cr"} /\ h[i + 1].mode # "code"
    BY <1>4, Modes
  <2> DEFINE f == Find(s, i + 1, "cr")
  <2>2. f \in i + 1 .. n /\ (\A k \in i + 1 .. f - 1 : s[k + 1] # "cr") /\ (f < n => s[f + 1] = "cr")
    <3>1. Len(s) \in Nat /\ i + 1 \in 0 .. Len(s)
      BY <1>1 DEF n
    <3> HIDE DEF f
    <3>2. f \in i + 1 .. Len(s) /\ (f < Len(s) => s[f + 1] = "cr")
      BY <3>1, Found DEF f
    <3>3. ASSUME NEW k \in i + 1 .. f - 1 PROVE s[k + 1] # "cr"
      BY <3>1, Found DEF f
    <3> QED
      BY <3>2, <3>3 DEF n
  <2> HIDE DEF f
  <2>3. ~ f < j
    <3> SUFFICES ASSUME f < j PROVE FALSE
      OBVIOUS
    <3>1. f \in 0 .. n - 1 /\ s[f + 1] = "cr"
      BY <1>1, <1>3, <2>2
    <3>2. \A k \in i + 1 .. f - 1 : s[k + 1] \notin Closers[h[i + 1].mode]
      BY <1>1, <1>2, <1>3, <2>1, <2>2
    <3>3. h[f].mode = "line"
      <4> DEFINE m == i + 1
      <4>1. m \in 0 .. Len(s) /\ f \in m .. Len(s)
        BY <1>1, <2>2 DEF n
      <4>2. h[m].mode = "line" /\ h[m].mode # "code" /\ \A k \in m .. f - 1 : s[k + 1] \notin Closers[h[m].mode]
        BY <1>4, <2>1, <3>2
      <4> HIDE DEF m
      <4> QED
        BY <4>1, <4>2, Inside
    <3>4. Fits(h[f], s[f + 1])
      BY <3>1, ReadNext DEF n
    <3> QED
      BY <3>1, <3>3, <3>4 DEF Fits, Strays
  <2>4. \A k \in i + 1 .. j - 1 : s[k + 1] \notin Closers[h[i + 1].mode]
    <3>1. \A k \in i + 1 .. j - 1 : s[k + 1] # "nl" /\ s[k + 1] # "cr"
      BY <1>1, <1>2, <1>3, <2>2, <2>3
    <3> QED
      BY <2>1, <3>1
  <2> QED
    BY <1>1, <1>3, <1>4, <2>1, <2>4, Inside DEF n
<1>6. Same(h[j], h[i])
  BY <1>4, <1>5 DEF Same
<1>7. Free(s, h, j)
  BY <1>1, <1>2, <1>5 DEF Free, n
<1> QED
  BY <1>3, <1>6, <1>7 DEF SkipLineComment, j, n

(* A block comment that is not closed ends with the text.                  *)
LEMMA BlockSkipped ==
    ASSUME NEW s, NEW h, IsRead(s, h), NEW i \in 0 .. Len(s) - 1,
           h[i].mode = "code", s[i + 1] = "/*"
    PROVE  LET j == SkipBlockComment(s, i)
           IN  j \in i + 1 .. Len(s) /\ Same(h[j], h[i]) /\ (h[j].mode = "code" \/ j = Len(s))
<1> DEFINE n == Len(s)
           k == Find(s, i + 1, "*/")
           j == Past(s, k)
<1>1. n \in Nat /\ i \in 0 .. n /\ i + 1 \in 0 .. n /\ h[i] \in Lexers /\ h[i + 1] = Read(h[i], "/*")
  <2>1. n \in Nat
    BY ReadNext
  <2>2. i \in 0 .. n
    BY <2>1
  <2>3. i + 1 \in 0 .. n /\ h[i + 1] = Read(h[i], "/*")
    BY ReadNext
  <2>4. h[i] \in Lexers
    BY <2>2, ReadNext DEF Sound
  <2> QED
    BY <2>1, <2>2, <2>3, <2>4
<1>2. k \in i + 1 .. n /\ (\A m \in i + 1 .. k - 1 : s[m + 1] # "*/") /\ (k < n => s[k + 1] = "*/")
  BY <1>1, Found
<1> HIDE DEF k
<1>3. k \in 0 .. n /\ j \in k .. n /\ (k < n => j = k + 1) /\ (k = n => j = n)
  <2>1. k \in 0 .. n
    BY <1>1, <1>2
  <2> QED
    BY <1>1, <2>1, PastSays
<1> HIDE DEF n, j
<1>4. h[i + 1].mode = "block" /\ Same(h[i + 1], h[i])
  BY <1>1, CommentOpens
<1>5. /\ Same(h[k], h[i + 1])
      /\ k < n => h[k + 1].mode = "code" /\ Same(h[k + 1], h[i + 1])
  <2>1. Closers[h[i + 1].mode] = {"*/"} /\ h[i + 1].mode # "code"
    BY <1>4, Modes
  <2> QED
    <3>1. i + 1 \in 0 .. Len(s) /\ k \in i + 1 .. Len(s)
      BY <1>1, <1>2 DEF n
    <3>2. /\ Same(h[k], h[i + 1])
          /\ k < Len(s) /\ s[k + 1] \in Closers[h[i + 1].mode] =>
                h[k + 1].mode = "code" /\ Same(h[k + 1], h[i + 1])
      BY <1>2, <2>1, <3>1, Inside
    <3> QED
      BY <1>2, <2>1, <3>2 DEF n
<1>6. j \in i + 1 .. n /\ Same(h[j], h[i + 1]) /\ (h[j].mode = "code" \/ j = n)
  <2>1. CASE k < n
    BY <1>1, <1>2, <1>3, <1>5, <2>1
  <2>2. CASE k = n
    BY <1>1, <1>2, <1>3, <1>5, <2>2
  <2> QED
    BY <1>1, <1>3, <2>1, <2>2
<1>7. Same(h[j], h[i])
  BY <1>4, <1>6 DEF Same
<1> QED
  BY <1>6, <1>7 DEF SkipBlockComment, j, k, n

(* A quote is of no more consequence for the parser than the first one.    *)
Quoted(l) == \/ l.closed /\ l.extra
             \/ ~ l.closed /\ l.stage \in {"query", "bad", "options"}

LEMMA QuoteOpens ==
    ASSUME NEW l, Sound(l), l.mode = "code", NEW q \in Quotes
    PROVE  LET r == Read(l, q)
           IN  /\ r.mode # "code" /\ Closers[r.mode] = {q}
               /\ Quoted(r)
               /\ Quoted(l) => Same(r, l)
<1> DEFINE r == Read(l, q)
<1>1. q \in {"'", "dq"} /\ l \in Lexers
  BY DEF Quotes, Sound
<1>2. l.stage \in Stages /\ l.closed \in BOOLEAN /\ l.extra \in BOOLEAN /\ Significant(l, q)
  BY <1>1 DEF Lexers, Significant, Spaces
<1>3. r.mode # "code" /\ Closers[r.mode] = {q}
  <2>1. r.mode = NextMode(l, q)
    BY <1>1, ReadSays
  <2> HIDE DEF r
  <2> QED
    BY <1>1, <2>1, ModeAfter, Modes
<1>4. CASE l.closed
  <2>1. r.stage = l.stage /\ r.depth = l.depth /\ r.closed = TRUE /\ r.extra = TRUE
    BY <1>1, <1>2, <1>4, ReadSays
  <2> HIDE DEF r
  <2> QED
    BY <1>2, <1>3, <1>4, <2>1 DEF Quoted, Same, r
<1>5. CASE ~ l.closed
  <2>1. r.stage = NextStage(l, q) /\ r.depth = NextDepth(l, q) /\ r.closed = l.closed /\ r.extra = l.extra
    BY <1>1, <1>2, <1>5, ReadSays
  <2>2. /\ l.stage \in {"query", "bad"} => NextStage(l, q) = l.stage /\ NextDepth(l, q) = l.depth
        /\ l.stage \in {"start", "explain"} => NextStage(l, q) = "bad"
        /\ l.stage = "options" => NextStage(l, q) = "options" /\ NextDepth(l, q) = l.depth
    BY <1>1, StageSays
  <2> HIDE DEF r
  <2> QED
    BY <1>2, <1>3, <1>5, <2>1, <2>2 DEF Quoted, Same, r, Stages
<1> QED
  BY <1>4, <1>5

(* From a quote to the quote that closes it, or to the end.                *)
LEMMA OneQuoted ==
    ASSUME NEW s, NEW h, IsRead(s, h), NEW i \in 0 .. Len(s) - 1,
           h[i].mode = "code", NEW q \in Quotes, s[i + 1] = q
    PROVE  LET j == Past(s, Find(s, i + 1, q))
           IN  j \in i + 1 .. Len(s) /\ Same(h[j], h[i + 1]) /\ (h[j].mode = "code" \/ j = Len(s))
<1> DEFINE n == Len(s)
           k == Find(s, i + 1, q)
           j == Past(s, k)
<1>1. n \in Nat /\ i \in 0 .. n /\ i + 1 \in 0 .. n /\ Sound(h[i]) /\ h[i + 1] = Read(h[i], q)
  BY ReadNext
<1>2. k \in i + 1 .. n /\ (\A m \in i + 1 .. k - 1 : s[m + 1] # q) /\ (k < n => s[k + 1] = q)
  BY <1>1, Found
<1> HIDE DEF k
<1>3. k \in 0 .. n /\ j \in k .. n /\ (k < n => j = k + 1) /\ (k = n => j = n)
  <2>1. k \in 0 .. n
    BY <1>1, <1>2
  <2> QED
    BY <1>1, <2>1, PastSays
<1> HIDE DEF n, j
<1>4. h[i + 1].mode # "code" /\ Closers[h[i + 1].mode] = {q}
  BY <1>1, QuoteOpens
<1>5. /\ Same(h[k], h[i + 1])
      /\ k < n => h[k + 1].mode = "code" /\ Same(h[k + 1], h[i + 1])
  BY <1>1, <1>2, <1>4, Inside DEF n
<1>6. j \in i + 1 .. n /\ Same(h[j], h[i + 1]) /\ (h[j].mode = "code" \/ j = n)
  <2>1. CASE k < n
    BY <1>1, <1>2, <1>3, <1>5, <2>1
  <2>2. CASE k = n
    BY <1>1, <1>2, <1>3, <1>5, <2>2
  <2> QED
    BY <1>1, <1>3, <2>1, <2>2
<1> QED
  BY <1>6 DEF j, k, n

(* A string is skipped with all its doubled quotes (skipQuoted); of it     *)
(* the parser has read what it read of the first quote.                    *)
LEMMA QuoteSkipped ==
    ASSUME NEW s, NEW h, IsRead(s, h), NEW i \in 0 .. Len(s) - 1,
           h[i].mode = "code", NEW q \in Quotes, s[i + 1] = q
    PROVE  LET j == SkipQuoted(s, i, q)
           IN  j \in i + 1 .. Len(s) /\ Same(h[j], h[i + 1]) /\ (h[j].mode = "code" \/ j = Len(s))
<1> DEFINE n == Len(s)
           one(j) == Past(s, Find(s, j + 1, q))
           step == [j \in 0 .. n |-> IF Ahead(s, j, {q}) THEN one(j) ELSE j]
           Back(k) == Same(h[k], h[i + 1]) /\ (h[k].mode = "code" \/ k = n)
           I == {i} \cup {k \in i + 1 .. n : Back(k)}
           j == Loop(step, i)
<1>1. n \in Nat /\ i \in 0 .. n - 1 /\ i \in 0 .. n
  BY ReadNext
<1>2. SkipQuoted(s, i, q) = j
  BY DEF SkipQuoted, Indices
<1>3. ASSUME NEW k \in 0 .. n PROVE one(k) \in 0 .. n /\ (Ahead(s, k, {q}) => k <= one(k))
  <2>1. CASE k < n
    <3>1. k + 1 \in 0 .. n
      BY <1>1, <2>1
    <3> DEFINE f == Find(s, k + 1, q)
    <3>2. f \in k + 1 .. n
      BY <1>1, <3>1, Found
    <3> HIDE DEF f
    <3>3. Past(s, f) \in f .. n
      BY <1>1, <3>1, <3>2, PastSays
    <3> HIDE DEF n
    <3>4. Past(s, f) \in 0 .. n /\ k <= Past(s, f)
      BY <1>1, <3>1, <3>2, <3>3
    <3> QED
      BY <3>4 DEF f
  <2>2. CASE k = n
    <3>1. ~ Ahead(s, k, {q})
      BY <1>1, <2>2 DEF Ahead
    <3>2. Find(s, k + 1, q) = n
      <4>1. {m \in k + 1 .. n - 1 : s[m + 1] = q} = {}
        BY <1>1, <2>2
      <4> QED
        BY <4>1 DEF Find
    <3>3. Past(s, n) = n
      BY <1>1 DEF Past
    <3> QED
      BY <1>1, <3>1, <3>2, <3>3
  <2> QED
    BY <1>1, <2>1, <2>2
<1>4. ASSUME NEW k \in 0 .. n - 1, h[k].mode = "code", s[k + 1] = q
      PROVE  one(k) \in k + 1 .. n /\ Same(h[one(k)], h[k + 1]) /\ (h[one(k)].mode = "code" \/ one(k) = n)
  BY <1>4, OneQuoted
<1> HIDE DEF one, n
<1>5. step \in [0 .. n -> 0 .. n] /\ \A k \in 0 .. n : k <= step[k]
  <2>1. ASSUME NEW k \in 0 .. n PROVE step[k] \in 0 .. n /\ k <= step[k]
    <3>1. CASE Ahead(s, k, {q})
      BY <1>1, <1>3, <3>1
    <3>2. CASE ~ Ahead(s, k, {q})
      BY <1>1, <3>2
    <3> QED
      BY <3>1, <3>2
  <2>2. step = [k \in 0 .. n |-> step[k]]
    OBVIOUS
  <2> HIDE DEF step
  <2> QED
    BY <2>1, <2>2
<1>6. ASSUME NEW k \in I PROVE step[k] \in I
  <2>1. CASE k = i
    <3>1. one(i) \in i + 1 .. n /\ Back(one(i))
      BY <1>1, <1>4
    <3>2. step[k] = one(i)
      BY <1>1, <2>1 DEF Ahead, n
    <3> HIDE DEF Back
    <3> QED
      BY <3>1, <3>2
  <2>2. CASE k \in i + 1 .. n /\ Back(k) /\ ~ Ahead(s, k, {q})
    BY <1>1, <2>2
  <2>3. CASE k \in i + 1 .. n /\ Back(k) /\ Ahead(s, k, {q})
    <3>1. k \in 0 .. n - 1 /\ h[k].mode = "code" /\ s[k + 1] = q /\ k \in 0 .. n
      BY <1>1, <2>3 DEF Ahead, n
    <3>2. one(k) \in k + 1 .. n /\ Same(h[one(k)], h[k + 1]) /\ (h[one(k)].mode = "code" \/ one(k) = n)
      BY <1>4, <3>1
    <3>3. Sound(h[k]) /\ h[k + 1] = Read(h[k], q) /\ Sound(h[i]) /\ h[i + 1] = Read(h[i], q)
      BY <1>1, <3>1, ReadNext DEF n
    <3>4. Quoted(h[i + 1])
      BY <3>3, QuoteOpens
    <3>5. Same(h[k], h[i + 1])
      BY <2>3
    <3>6. Quoted(h[k])
      BY <3>4, <3>5 DEF Quoted, Same
    <3>7. Same(h[k + 1], h[k])
      BY <3>1, <3>3, <3>6, QuoteOpens
    <3>8. Same(h[one(k)], h[i + 1])
      BY <3>2, <3>5, <3>7 DEF Same
    <3>9. one(k) \in i + 1 .. n
      BY <1>1, <2>3, <3>2
    <3>10. step[k] = one(k)
      BY <2>3, <3>1
    <3> QED
      BY <3>2, <3>8, <3>9, <3>10
  <2> HIDE DEF Back, step
  <2> QED
    BY <2>1, <2>2, <2>3
<1>7. I \in SUBSET (0 .. n) /\ i \in I
  <2> HIDE DEF Back
  <2> QED
    BY <1>1
<1>8. j \in I /\ step[j] = j
  <2> HIDE DEF I, step
  <2> QED
    BY SMTT(30), <1>1, <1>5, <1>6, <1>7, IndexLoop
<1>9. step[i] # i
  <2>1. step[i] = one(i) /\ one(i) \in i + 1 .. n
    BY <1>1, <1>4 DEF Ahead, n
  <2> HIDE DEF step
  <2> QED
    BY <1>1, <2>1
<1>10. j \in i + 1 .. n /\ Back(j)
  <2> HIDE DEF j, step, Back
  <2> QED
    BY <1>8, <1>9
<1> QED
  BY <1>2, <1>10 DEF n

(* However a scanner is used, it moves on within the text.                 *)
LEMMA PastFound ==
    ASSUME NEW s, Len(s) \in Nat, NEW i \in 0 .. Len(s) - 1, NEW x
    PROVE  Past(s, Find(s, i + 1, x)) \in i + 1 .. Len(s)
<1> DEFINE n == Len(s)
           f == Find(s, i + 1, x)
<1>1. i + 1 \in 0 .. n
  OBVIOUS
<1>2. f \in i + 1 .. n
  BY <1>1, Found
<1> HIDE DEF f
<1>3. f \in 0 .. n
  BY <1>1, <1>2
<1>4. Past(s, f) \in f .. n
  BY <1>3, PastSays
<1> HIDE DEF n
<1>5. Past(s, f) \in i + 1 .. n
  BY <1>1, <1>2, <1>3, <1>4
<1> QED
  BY <1>5 DEF f, n

LEMMA Ranges ==
    ASSUME NEW s, Len(s) \in Nat, NEW i \in 0 .. Len(s)
    PROVE  /\ SkipLineComment(s, i) \in i .. Len(s)
           /\ i < Len(s) => SkipBlockComment(s, i) \in i + 1 .. Len(s)
           /\ \A q : SkipQuoted(s, i, q) \in i .. Len(s)
<1> DEFINE n == Len(s)
<1>1. SkipLineComment(s, i) \in i .. n
  BY Found DEF SkipLineComment
<1>2. i < n => SkipBlockComment(s, i) \in i + 1 .. n
  <2>1. i < n => i \in 0 .. n - 1
    OBVIOUS
  <2> QED
    BY <2>1, PastFound DEF SkipBlockComment
<1>3. ASSUME NEW q PROVE SkipQuoted(s, i, q) \in i .. n
  <2> DEFINE one(j) == Past(s, Find(s, j + 1, q))
             step == [j \in 0 .. n |-> IF Ahead(s, j, {q}) THEN one(j) ELSE j]
             I == i .. n
  <2>1. ASSUME NEW k \in 0 .. n PROVE step[k] \in 0 .. n /\ k <= step[k]
    <3>1. CASE Ahead(s, k, {q})
      <4>1. k \in 0 .. n - 1
        BY <3>1 DEF Ahead
      <4>2. one(k) \in k + 1 .. n
        BY <4>1, PastFound
      <4>3. step[k] = one(k)
        BY <3>1
      <4> HIDE DEF step, one, n
      <4> QED
        BY <4>1, <4>2, <4>3
    <3>2. CASE ~ Ahead(s, k, {q})
      BY <3>2
    <3> QED
      BY <3>1, <3>2
  <2>2. step \in [0 .. n -> 0 .. n]
    <3>1. step = [k \in 0 .. n |-> step[k]]
      OBVIOUS
    <3> HIDE DEF step
    <3> QED
      BY <2>1, <3>1
  <2>3. SkipQuoted(s, i, q) = Loop(step, i)
    BY DEF SkipQuoted, Indices
  <2>4. n \in Nat /\ I \in SUBSET (0 .. n) /\ i \in I
    OBVIOUS
  <2> HIDE DEF step, n
  <2>5. \A k \in I : step[k] \in I
    BY <2>1, <2>4
  <2> HIDE DEF I
  <2>6. Loop(step, i) \in I
    BY <2>1, <2>2, <2>4, <2>5, IndexLoop
  <2> QED
    BY <2>3, <2>6 DEF I, n
<1> QED
  BY <1>1, <1>2, <1>3

(* What stays as it is once it is so. *)
LEMMA OneLasts ==
    ASSUME NEW l, Sound(l), NEW x
    PROVE  LET r == Read(l, x)
           IN  /\ l.closed => r.closed = TRUE /\ r.stage = l.stage
               /\ l.extra => r.extra = TRUE
               /\ l.stage \in {"query", "bad"} => r.stage = l.stage
<1> DEFINE r == Read(l, x)
<1>1. l \in Lexers /\ l.closed \in BOOLEAN /\ l.extra \in BOOLEAN /\ (l.extra => l.closed)
  BY DEF Sound, Lexers
<1>2. CASE ~ Significant(l, x)
  <2>1. Same(r, l)
    BY <1>1, <1>2, ReadSays
  <2> HIDE DEF r
  <2> QED
    BY <1>1, <2>1 DEF Same, r
<1>3. CASE Significant(l, x) /\ l.closed
  <2>1. r.stage = l.stage /\ r.closed = TRUE /\ r.extra = TRUE
    BY <1>1, <1>3, ReadSays
  <2> QED
    BY <2>1
<1>4. CASE Significant(l, x) /\ ~ l.closed /\ x = "sep"
  <2>1. r.stage = l.stage /\ r.closed = TRUE /\ r.extra = l.extra
    BY <1>1, <1>4, ReadSays
  <2> HIDE DEF r
  <2> QED
    BY <1>1, <1>4, <2>1 DEF r
<1>5. CASE Significant(l, x) /\ ~ l.closed /\ x # "sep"
  <2>1. r.stage = NextStage(l, x) /\ r.extra = l.extra
    BY <1>1, <1>5, ReadSays
  <2>2. l.stage \in {"query", "bad"} => NextStage(l, x) = l.stage
    BY StageSays
  <2> HIDE DEF r
  <2> QED
    BY <1>1, <1>5, <2>1, <2>2 DEF r
<1> QED
  BY <1>2, <1>3, <1>4, <1>5

(* What a reading has settled is settled.                                  *)
LEMMA Lasts ==
    ASSUME NEW s, NEW h, IsRead(s, h), NEW i \in 0 .. Len(s), NEW j \in i .. Len(s)
    PROVE  /\ h[i].closed => h[j].closed /\ h[j].stage = h[i].stage
           /\ h[i].extra => h[j].extra
           /\ h[i].stage \in {"query", "bad"} => h[j].stage = h[i].stage
<1> DEFINE n == Len(s)
           Q == {l \in Lexers :
                    /\ h[i].closed => l.closed /\ l.stage = h[i].stage
                    /\ h[i].extra => l.extra
                    /\ h[i].stage \in {"query", "bad"} => l.stage = h[i].stage}
<1>1. n \in Nat /\ \A k \in 0 .. n : h[k] \in Lexers /\ Sound(h[k])
  BY ReadNext DEF Sound
<1>2. i \in Nat /\ j \in Nat /\ h[i] \in Q
  BY <1>1
<1>3. ASSUME NEW k \in i .. j - 1, h[k] \in Q PROVE h[k + 1] \in Q
  <2>1. k \in 0 .. n - 1 /\ k \in 0 .. n
    BY <1>1
  <2> HIDE DEF n
  <2>2. h[k + 1] = Read(h[k], s[k + 1]) /\ k + 1 \in 0 .. n
    BY <2>1, ReadNext DEF n
  <2>3. Sound(h[k]) /\ h[k + 1] \in Lexers
    BY <1>1, <2>1, <2>2
  <2>4. /\ h[k].closed => h[k + 1].closed /\ h[k + 1].stage = h[k].stage
        /\ h[k].extra => h[k + 1].extra
        /\ h[k].stage \in {"query", "bad"} => h[k + 1].stage = h[k].stage
    <3> DEFINE l == h[k]
               x == s[k + 1]
    <3>1. Sound(l)
      BY <2>3
    <3> HIDE DEF l, x
    <3>2. /\ l.closed => Read(l, x).closed = TRUE /\ Read(l, x).stage = l.stage
          /\ l.extra => Read(l, x).extra = TRUE
          /\ l.stage \in {"query", "bad"} => Read(l, x).stage = l.stage
      BY <3>1, OneLasts
    <3> QED
      BY <2>2, <3>2 DEF l, x
  <2> QED
    BY <1>3, <2>3, <2>4
<1>4. h[j] \in Q
  <2> HIDE DEF Q
  <2>1. \A k \in i .. j : h[k] \in Q
    BY <1>2, <1>3, Kept
  <2> QED
    BY <1>1, <2>1 DEF n
<1> QED
  BY <1>4

(* The step of stripLeadingTrivia.                                         *)
TriviaStep(s) ==
    [k \in Indices(s) |->
        CASE Ahead(s, k, Spaces) -> k + 1
          [] Ahead(s, k, {"--"}) -> SkipLineComment(s, k)
          [] Ahead(s, k, {"/*"}) -> SkipBlockComment(s, k)
          [] OTHER               -> k]

LEMMA TriviaSays ==
    ASSUME NEW s, NEW k \in 0 .. Len(s)
    PROVE  LET n    == Len(s)
               step == TriviaStep(s)
           IN  /\ Ahead(s, k, Spaces) => k < n /\ s[k + 1] \in Spaces /\ step[k] = k + 1
               /\ Ahead(s, k, {"--"}) => k < n /\ s[k + 1] = "--" /\ step[k] = SkipLineComment(s, k)
               /\ Ahead(s, k, {"/*"}) => k < n /\ s[k + 1] = "/*" /\ step[k] = SkipBlockComment(s, k)
               /\ ~ Ahead(s, k, Trivial) => step[k] = k
               /\ Ahead(s, k, Trivial) <=>
                     Ahead(s, k, Spaces) \/ Ahead(s, k, {"--"}) \/ Ahead(s, k, {"/*"})
BY DEF TriviaStep, Indices, Ahead, Trivial, Spaces

LEMMA TriviaMoves ==
    ASSUME NEW s, Len(s) \in Nat
    PROVE  /\ TriviaStep(s) \in [0 .. Len(s) -> 0 .. Len(s)]
           /\ \A k \in 0 .. Len(s) : k <= TriviaStep(s)[k]
<1> DEFINE n == Len(s)
           step == TriviaStep(s)
<1>1. ASSUME NEW k \in 0 .. n PROVE step[k] \in 0 .. n /\ k <= step[k]
  <2>1. SkipLineComment(s, k) \in k .. n /\ (k < n => SkipBlockComment(s, k) \in k + 1 .. n)
    BY Ranges
  <2> HIDE DEF step
  <2> QED
    BY <2>1, TriviaSays DEF step
<1>2. step = [k \in 0 .. n |-> step[k]]
  BY DEF TriviaStep, Indices
<1> HIDE DEF step
<1>3. step \in [0 .. n -> 0 .. n] /\ \A k \in 0 .. n : k <= step[k]
  BY <1>1, <1>2
<1> QED
  BY <1>3 DEF step

(* Skipping trivia never goes back.                                        *)
LEMMA TriviaRange ==
    ASSUME NEW s, Len(s) \in Nat, NEW i \in 0 .. Len(s)
    PROVE  StripLeadingTrivia(s, i) \in i .. Len(s)
<1> DEFINE n == Len(s)
           step == TriviaStep(s)
           I == i .. n
<1>1. StripLeadingTrivia(s, i) = Loop(step, i)
  BY DEF StripLeadingTrivia, TriviaStep, Indices
<1>2. n \in Nat /\ step \in [0 .. n -> 0 .. n] /\ \A k \in 0 .. n : k <= step[k]
  BY TriviaMoves
<1>3. I \in SUBSET (0 .. n) /\ i \in I
  OBVIOUS
<1> HIDE DEF step, n
<1>4. \A k \in I : step[k] \in I
  BY <1>2, <1>3
<1> HIDE DEF I
<1>5. Loop(step, i) \in I
  BY <1>2, <1>3, <1>4, IndexLoop
<1> QED
  BY <1>1, <1>5 DEF I, n

(* Trivia are skipped up to the end or to a symbol that the parser reads.  *)
LEMMA Trivia ==
    ASSUME NEW s, NEW h, IsRead(s, h), NEW i \in 0 .. Len(s), Free(s, h, i)
    PROVE  LET j == StripLeadingTrivia(s, i)
           IN  /\ j \in i .. Len(s) /\ Same(h[j], h[i])
               /\ j < Len(s) => h[j].mode = "code" /\ Significant(h[j], s[j + 1])
<1> DEFINE n == Len(s)
           step == TriviaStep(s)
           I == {k \in i .. n : Free(s, h, k) /\ Same(h[k], h[i])}
           j == Loop(step, i)
<1>1. n \in Nat /\ i \in 0 .. n
  BY ReadNext
<1>2. StripLeadingTrivia(s, i) = j
  BY DEF StripLeadingTrivia, TriviaStep, Indices
<1>3. ASSUME NEW k \in 0 .. n
      PROVE  /\ Ahead(s, k, Spaces) => k < n /\ s[k + 1] \in Spaces /\ step[k] = k + 1
             /\ Ahead(s, k, {"--"}) => k < n /\ s[k + 1] = "--" /\ step[k] = SkipLineComment(s, k)
             /\ Ahead(s, k, {"/*"}) => k < n /\ s[k + 1] = "/*" /\ step[k] = SkipBlockComment(s, k)
             /\ ~ Ahead(s, k, Trivial) => step[k] = k
             /\ Ahead(s, k, Trivial) <=>
                   Ahead(s, k, Spaces) \/ Ahead(s, k, {"--"}) \/ Ahead(s, k, {"/*"})
  BY TriviaSays
<1>4. step \in [0 .. n -> 0 .. n] /\ \A k \in 0 .. n : step[k] \in 0 .. n /\ k <= step[k]
  <2>1. step \in [0 .. n -> 0 .. n] /\ \A k \in 0 .. n : k <= step[k]
    BY <1>1, TriviaMoves
  <2> HIDE DEF step, n
  <2> QED
    BY <2>1
<1> HIDE DEF step, n
<1>6. ASSUME NEW k \in 0 .. n, Free(s, h, k)
      PROVE  /\ Free(s, h, step[k]) /\ Same(h[step[k]], h[k])
             /\ Ahead(s, k, Trivial) => k < step[k]
  <2>1. CASE Ahead(s, k, Spaces)
    <3> DEFINE l == h[k]
               x == s[k + 1]
    <3>1. k \in 0 .. n - 1 /\ x \in Spaces /\ step[k] = k + 1
      BY <1>1, <1>3, <2>1
    <3>2. Sound(l) /\ h[k + 1] = Read(l, x) /\ (l.mode = "code" \/ (l.mode = "line" /\ x = "nl"))
      <4>1. Sound(l) /\ h[k + 1] = Read(l, x)
        BY <3>1, ReadNext DEF n
      <4>2. l.mode = "code" \/ (l.mode = "line" /\ x = "nl")
        BY <1>1, <1>6, <3>1 DEF Free, n
      <4> QED
        BY <4>1, <4>2
    <3> HIDE DEF l, x
    <3>3. ~ Significant(l, x) /\ l \in Lexers
      BY <3>1, <3>2 DEF Significant, Sound
    <3>4. Same(h[k + 1], l) /\ h[k + 1].mode = NextMode(l, x)
      BY <3>2, <3>3, ReadSays
    <3>5. NextMode(l, x) = "code"
      BY <3>1, <3>2, ModeAfter, Modes DEF Spaces
    <3> QED
      BY <1>1, <1>3, <2>1, <3>1, <3>4, <3>5 DEF Free, l
  <2>2. CASE Ahead(s, k, {"--"})
    <3>1. k \in 0 .. n - 1 /\ s[k + 1] = "--" /\ step[k] = SkipLineComment(s, k) /\ h[k].mode = "code"
      BY <1>1, <1>3, <1>6, <2>2 DEF Free, n
    <3>2. step[k] \in k + 1 .. n /\ Same(h[step[k]], h[k]) /\ Free(s, h, step[k])
      BY <3>1, LineSkipped DEF n
    <3> QED
      BY <1>1, <3>2
  <2>3. CASE Ahead(s, k, {"/*"})
    <3>1. k \in 0 .. n - 1 /\ s[k + 1] = "/*" /\ step[k] = SkipBlockComment(s, k) /\ h[k].mode = "code"
      BY <1>1, <1>3, <1>6, <2>3 DEF Free, n
    <3>2. step[k] \in k + 1 .. n /\ Same(h[step[k]], h[k]) /\ (h[step[k]].mode = "code" \/ step[k] = n)
      BY <3>1, BlockSkipped DEF n
    <3> QED
      BY <1>1, <3>2 DEF Free, n
  <2>4. CASE ~ Ahead(s, k, Trivial)
    BY <1>3, <1>6, <2>4 DEF Same
  <2> QED
    BY <1>3, <2>1, <2>2, <2>3, <2>4
<1>7. ASSUME NEW k \in I PROVE step[k] \in I
  <2>1. k \in 0 .. n /\ k \in i .. n
    BY <1>1
  <2>2. step[k] \in i .. n
    BY <1>1, <1>4, <2>1
  <2>3. Free(s, h, step[k]) /\ Same(h[step[k]], h[k])
    BY <1>6, <2>1
  <2>4. Same(h[step[k]], h[i])
    <3>1. Same(h[k], h[i])
      OBVIOUS
    <3> HIDE DEF step, I
    <3> QED
      BY <2>3, <3>1 DEF Same
  <2> QED
    BY <2>2, <2>3, <2>4
<1>8. I \in SUBSET (0 .. n) /\ i \in I
  BY <1>1 DEF Same
<1>9. j \in I /\ step[j] = j
  <2> HIDE DEF I
  <2>1. n \in Nat /\ step \in [0 .. n -> 0 .. n] /\ \A k \in 0 .. n : k <= step[k]
    BY <1>1, <1>4
  <2>2. \A k \in I : step[k] \in I
    BY <1>7
  <2> QED
    BY SMTT(30), <2>1, <2>2, <1>8, IndexLoop
<1> HIDE DEF j
<1>10. j \in i .. n /\ Same(h[j], h[i]) /\ Free(s, h, j) /\ j \in 0 .. n
  BY <1>8, <1>9
<1>11. ~ Ahead(s, j, Trivial)
  BY <1>1, <1>6, <1>9, <1>10
<1>12. j < n => h[j].mode = "code" /\ Significant(h[j], s[j + 1])
  BY <1>1, <1>10, <1>11 DEF Free, Ahead, Significant, Trivial, Spaces, n
<1> QED
  BY <1>2, <1>10, <1>12 DEF n

(* What the lexer makes of the next symbol of a text, in code.             *)
LEMMA SymbolRead ==
    ASSUME NEW s, NEW h, IsRead(s, h), NEW k \in 0 .. Len(s) - 1, h[k].mode = "code"
    PROVE  LET l == h[k]
               x == s[k + 1]
               r == h[k + 1]
           IN  /\ x \notin {"'", "dq", "--", "/*"} => r.mode = "code"
               /\ x = "dq" => r.mode = "ident"
               /\ x = "--" => r.mode = "line"
               /\ x = "/*" => r.mode = "block"
               /\ x \in Trivial => Same(r, l)
               /\ x \notin Trivial /\ l.closed => r.extra
               /\ x = "sep" /\ ~ l.closed => r.closed /\ r.stage = l.stage /\ r.extra = l.extra
               /\ x # "sep" /\ ~ l.closed => ~ r.closed
               /\ x \notin Trivial \cup {"sep"} /\ ~ l.closed =>
                     r.stage = NextStage(l, x) /\ r.depth = NextDepth(l, x)
<1> DEFINE l == h[k]
           x == s[k + 1]
           r == Read(l, x)
<1>1. k \in 0 .. Len(s) /\ Sound(l) /\ h[k + 1] = r
  BY ReadNext
<1>2. l \in Lexers /\ l.mode = "code" /\ l.closed \in BOOLEAN
  BY <1>1 DEF Sound, Lexers
<1> HIDE DEF l, x
<1>3. Significant(l, x) <=> x \notin Trivial
  BY <1>2, TrivialSays
<1>4. r.mode = NextMode(l, x)
  BY <1>2, ReadSays
<1>5. /\ ~ Significant(l, x) => Same(r, l)
      /\ Significant(l, x) /\ l.closed => r.extra = TRUE
      /\ Significant(l, x) /\ ~ l.closed /\ x = "sep" => r.stage = l.stage /\ r.closed = TRUE /\ r.extra = l.extra
      /\ Significant(l, x) /\ ~ l.closed /\ x # "sep" =>
            r.stage = NextStage(l, x) /\ r.depth = NextDepth(l, x) /\ r.closed = l.closed
  BY <1>2, ReadSays
<1> HIDE DEF r
<1>6. /\ x \notin {"'", "dq", "--", "/*"} => r.mode = "code"
      /\ x = "dq" => r.mode = "ident"
      /\ x = "--" => r.mode = "line"
      /\ x = "/*" => r.mode = "block"
  BY <1>2, <1>4, ModeAfter
<1>7. x # "sep" /\ ~ l.closed => ~ r.closed
  BY <1>2, <1>3, <1>5 DEF Same
<1>8. /\ x \in Trivial => Same(r, l)
      /\ x \notin Trivial /\ l.closed => r.extra
      /\ x = "sep" /\ ~ l.closed => r.closed /\ r.stage = l.stage /\ r.extra = l.extra
      /\ x \notin Trivial \cup {"sep"} /\ ~ l.closed =>
            r.stage = NextStage(l, x) /\ r.depth = NextDepth(l, x)
  BY <1>2, <1>3, <1>5 DEF Trivial
<1> QED
  BY <1>1, <1>6, <1>7, <1>8 DEF l, x

(* The text up to the first separator.                                     *)
LEMMA Separator ==
    ASSUME NEW s, NEW h, IsRead(s, h)
    PROVE  LET i == TopLevelSemicolon(s)
           IN  /\ i \in 0 .. Len(s) /\ ~ h[i].closed
               /\ i < Len(s) => h[i].mode = "code" /\ s[i + 1] = "sep"
<1> DEFINE n == Len(s)
           To(k) == CASE Ahead(s, k, Quotes) -> SkipQuoted(s, k, s[k + 1])
                      [] Ahead(s, k, {"--"}) -> SkipLineComment(s, k)
                      [] Ahead(s, k, {"/*"}) -> SkipBlockComment(s, k)
                      [] Ahead(s, k, {"sep"})  -> k
                      [] OTHER               -> Past(s, k)
           step == [k \in 0 .. n |-> To(k)]
           I == {k \in 0 .. n : Free(s, h, k) /\ ~ h[k].closed}
           i == Loop(step, 0)
<1>1. n \in Nat /\ 0 \in 0 .. n
  BY ReadNext
<1>2. TopLevelSemicolon(s) = i
  BY DEF TopLevelSemicolon, Indices
<1>3. ASSUME NEW k \in 0 .. n
      PROVE  /\ k < n /\ s[k + 1] \in Quotes => step[k] = SkipQuoted(s, k, s[k + 1])
             /\ k < n /\ s[k + 1] = "--" => step[k] = SkipLineComment(s, k)
             /\ k < n /\ s[k + 1] = "/*" => step[k] = SkipBlockComment(s, k)
             /\ k < n /\ s[k + 1] = "sep" => step[k] = k
             /\ k = n \/ s[k + 1] \notin {"'", "dq", "--", "/*", "sep"} => step[k] = Past(s, k)
  <2>1. step[k] = To(k)
    <3> HIDE DEF To
    <3> QED
      OBVIOUS
  <2>2. /\ k < n /\ s[k + 1] \in Quotes => To(k) = SkipQuoted(s, k, s[k + 1])
        /\ k < n /\ s[k + 1] = "--" => To(k) = SkipLineComment(s, k)
        /\ k < n /\ s[k + 1] = "/*" => To(k) = SkipBlockComment(s, k)
        /\ k < n /\ s[k + 1] = "sep" => To(k) = k
        /\ k = n \/ s[k + 1] \notin {"'", "dq", "--", "/*", "sep"} => To(k) = Past(s, k)
    BY DEF Ahead, Quotes
  <2> HIDE DEF To, step
  <2> QED
    BY <2>1, <2>2
<1>4. ASSUME NEW k \in 0 .. n
      PROVE  /\ \A q : SkipQuoted(s, k, q) \in k .. n
             /\ SkipLineComment(s, k) \in k .. n /\ (k < n => SkipBlockComment(s, k) \in k + 1 .. n)
             /\ Past(s, k) \in k .. n /\ (k < n => Past(s, k) = k + 1) /\ (k = n => Past(s, k) = k)
  BY <1>1, Ranges, PastSays
<1> HIDE DEF step, n, To
<1>5. ASSUME NEW k \in 0 .. n PROVE step[k] \in 0 .. n /\ k <= step[k]
  <2>1. step[k] \in k .. n
    <3>1. CASE k = n
      BY <1>1, <1>3, <1>4, <3>1
    <3>2. CASE k < n
      <4>1. CASE s[k + 1] \in Quotes
        BY <1>3, <1>4, <3>2, <4>1
      <4>2. CASE s[k + 1] \in {"--", "/*", "sep"}
        BY <1>1, <1>3, <1>4, <3>2, <4>2
      <4>3. CASE s[k + 1] \notin {"'", "dq", "--", "/*", "sep"}
        BY <1>3, <1>4, <4>3
      <4> QED
        BY <4>1, <4>2, <4>3 DEF Quotes
    <3> QED
      BY <1>1, <3>1, <3>2
  <2> QED
    BY <1>1, <2>1
<1>6. step \in [0 .. n -> 0 .. n]
  <2>1. step = [k \in 0 .. n |-> step[k]]
    BY DEF step
  <2> QED
    BY <1>5, <2>1
<1>7. ASSUME NEW k \in 0 .. n, Free(s, h, k), ~ h[k].closed, k < n, s[k + 1] # "sep"
      PROVE  Free(s, h, step[k]) /\ ~ h[step[k]].closed /\ k < step[k]
  <2>0. k < n /\ s[k + 1] # "sep"
    BY <1>7
  <2>1. k \in 0 .. n - 1 /\ k + 1 \in 0 .. n
    BY <1>1, <2>0
  <2>2. CASE h[k].mode = "code"
    <3>1. ~ h[k + 1].closed
      BY <1>7, <2>1, <2>2, SymbolRead DEF n
    <3>2. CASE s[k + 1] \in Quotes
      <4> DEFINE q == s[k + 1]
                 j == SkipQuoted(s, k, q)
      <4>1. j \in k + 1 .. n /\ Same(h[j], h[k + 1]) /\ (h[j].mode = "code" \/ j = n)
        BY <2>1, <2>2, <3>2, QuoteSkipped DEF n
      <4>2. step[k] = j
        BY <1>3, <1>7, <3>2
      <4> HIDE DEF j
      <4> QED
        BY <1>1, <3>1, <4>1, <4>2 DEF Free, Same, n
    <3>3. CASE s[k + 1] = "--"
      <4>1. step[k] \in k + 1 .. n /\ Same(h[step[k]], h[k]) /\ Free(s, h, step[k])
        BY <1>3, <1>7, <2>1, <2>2, <3>3, LineSkipped DEF n
      <4> QED
        BY <1>1, <1>7, <4>1 DEF Same
    <3>4. CASE s[k + 1] = "/*"
      <4>1. step[k] \in k + 1 .. n /\ Same(h[step[k]], h[k]) /\ (h[step[k]].mode = "code" \/ step[k] = n)
        BY <1>3, <1>7, <2>1, <2>2, <3>4, BlockSkipped DEF n
      <4> QED
        BY <1>1, <1>7, <4>1 DEF Same, Free, n
    <3>5. CASE s[k + 1] \notin {"'", "dq", "--", "/*"}
      <4>1. step[k] = k + 1
        BY <1>3, <1>4, <1>7, <3>5
      <4>2. h[k + 1].mode = "code"
        BY <2>1, <2>2, <3>5, SymbolRead DEF n
      <4> QED
        BY <3>1, <4>1, <4>2 DEF Free
    <3> QED
      BY <3>2, <3>3, <3>4, <3>5 DEF Quotes
  <2>3. CASE h[k].mode # "code"
    <3>1. h[k].mode = "line" /\ s[k + 1] = "nl"
      BY <1>7, <2>3 DEF Free, n
    <3>2. "nl" \in Closers["line"]
      BY Modes
    <3>3. \A m \in k .. k - 1 : s[m + 1] \notin Closers[h[k].mode]
      BY <1>1
    <3>4. h[k + 1].mode = "code" /\ Same(h[k + 1], h[k])
      <4>1. k \in k .. n
        BY <1>1
      <4>2. s[k + 1] \in Closers[h[k].mode]
        BY <3>1, <3>2
      <4> QED
        BY <1>7, <2>3, <3>3, <4>1, <4>2, Inside DEF n
    <3>5. step[k] = k + 1
      BY <1>3, <1>4, <1>7, <3>1
    <3> QED
      BY <1>7, <3>4, <3>5 DEF Free, Same
  <2> QED
    BY <2>2, <2>3
<1>8. ASSUME NEW k \in I PROVE step[k] \in I
  <2>1. CASE k < n /\ s[k + 1] # "sep"
    BY <1>5, <1>7, <2>1
  <2>2. CASE k = n \/ (k < n /\ s[k + 1] = "sep")
    BY <1>3, <1>4, <2>2
  <2> QED
    BY <1>1, <2>1, <2>2
<1>9. I \in SUBSET (0 .. n) /\ 0 \in I
  <2>1. h[0] = Start
    BY DEF IsRead
  <2>2. h[0].mode = "code" /\ ~ h[0].closed
    BY <2>1 DEF Start
  <2> QED
    BY <1>1, <2>2 DEF Free
<1>10. i \in I /\ step[i] = i
  <2> HIDE DEF I
  <2> QED
    BY <1>1, <1>5, <1>6, <1>8, <1>9, IndexLoop
<1> HIDE DEF i
<1>11. i \in 0 .. n /\ Free(s, h, i) /\ ~ h[i].closed
  BY <1>10
<1>12. i < n => s[i + 1] = "sep"
  BY <1>1, <1>7, <1>10, <1>11
<1>13. i < n => h[i].mode = "code"
  BY <1>1, <1>11, <1>12 DEF Free, n
<1> QED
  BY <1>2, <1>11, <1>12, <1>13 DEF n

(* A text with no separator: none of its symbols is one to the lexer.      *)
LEMMA NeverClosed ==
    ASSUME NEW s, NEW h, IsRead(s, h), ~ h[Len(s)].closed
    PROVE  \A k \in 0 .. Len(s) : ~ h[k].closed
<1> SUFFICES ASSUME NEW k \in 0 .. Len(s) PROVE ~ h[k].closed
  OBVIOUS
<1>1. Len(s) \in Nat
  BY ReadNext
<1>2. Len(s) \in k .. Len(s)
  BY <1>1
<1> QED
  BY <1>2, Lasts

(* A comment or quoted identifier of an option group holds no quote or     *)
(* parenthesis.                                                            *)
GroupsFit(s, h) == \A i \in 1 .. Len(s) : "group" \notin Strays(h[i - 1], s[i])

(* What ParenLoop, which knows strings only, may be in.                    *)
Loose == {"code", "ident", "line", "block"}

(* A symbol of an option group.                                            *)
LEMMA InGroup ==
    ASSUME NEW s, NEW h, IsRead(s, h), GroupsFit(s, h), ~ h[Len(s)].closed,
           NEW k \in 0 .. Len(s) - 1, h[k].mode \in Loose, h[k].stage = "options"
    PROVE  LET x == s[k + 1]
               d == h[k].depth
               r == h[k + 1]
               j == SkipQuoted(s, k, "'")
           IN  /\ x = "'" => /\ j \in k + 1 .. Len(s) /\ (h[j].mode = "code" \/ j = Len(s))
                             /\ h[j].stage = "options" /\ h[j].depth = d
               /\ x = "(" => r.mode = "code" /\ r.stage = "options" /\ r.depth = d + 1
               /\ x = ")" /\ d = 1 => r.mode = "code" /\ r.stage = "explain"
               /\ x = ")" /\ d # 1 => r.mode = "code" /\ r.stage = "options" /\ r.depth = d - 1
               /\ x \notin {"'", "(", ")"} => r.mode \in Loose /\ r.stage = "options" /\ r.depth = d
<1> DEFINE l == h[k]
           x == s[k + 1]
           d == h[k].depth
           r == h[k + 1]
           j == SkipQuoted(s, k, "'")
<1>1. k \in 0 .. Len(s) /\ k + 1 \in 0 .. Len(s) /\ Sound(l) /\ r = Read(l, x)
  BY ReadNext
<1>2. ~ l.closed /\ ~ r.closed
  BY <1>1, NeverClosed
<1>3. "group" \notin Strays(l, x)
  <2> DEFINE m == k + 1
  <2>1. m \in 1 .. Len(s) /\ m - 1 = k
    BY <1>1
  <2> HIDE DEF m
  <2>2. "group" \notin Strays(h[m - 1], s[m])
    BY <2>1 DEF GroupsFit
  <2> QED
    BY <2>1, <2>2 DEF m
<1>4. l.mode = "code" => /\ x \notin {"'", "dq", "--", "/*"} => r.mode = "code"
                         /\ x = "dq" => r.mode = "ident"
                         /\ x = "--" => r.mode = "line"
                         /\ x = "/*" => r.mode = "block"
                         /\ x \in Trivial => Same(r, l)
                         /\ x # "sep"
                         /\ x \notin Trivial \cup {"sep"} =>
                               r.stage = NextStage(l, x) /\ r.depth = NextDepth(l, x)
  BY <1>2, SymbolRead
<1>5. l.mode = "code" /\ x = "'" =>
         j \in k + 1 .. Len(s) /\ Same(h[j], r) /\ (h[j].mode = "code" \/ j = Len(s))
  BY QuoteSkipped DEF Quotes
<1>6. d = l.depth /\ l.stage = "options" /\ l.mode \in Loose
  OBVIOUS
<1> HIDE DEF l, x, d, r, j
<1>7. /\ x \notin {"(", ")"} => NextStage(l, x) = "options" /\ NextDepth(l, x) = d
      /\ x = "(" => NextStage(l, x) = "options" /\ NextDepth(l, x) = d + 1
      /\ x = ")" /\ d # 1 => NextStage(l, x) = "options" /\ NextDepth(l, x) = d - 1
      /\ x = ")" /\ d = 1 => NextStage(l, x) = "explain"
  BY <1>1, <1>6, StageSays
<1>8. CASE l.mode = "code"
  <2>1. x = "'" => /\ j \in k + 1 .. Len(s) /\ (h[j].mode = "code" \/ j = Len(s))
                   /\ h[j].stage = "options" /\ h[j].depth = d
    BY <1>4, <1>5, <1>7, <1>8 DEF Same, Trivial
  <2>2. /\ x = "(" => r.mode = "code" /\ r.stage = "options" /\ r.depth = d + 1
        /\ x = ")" /\ d = 1 => r.mode = "code" /\ r.stage = "explain"
        /\ x = ")" /\ d # 1 => r.mode = "code" /\ r.stage = "options" /\ r.depth = d - 1
    BY <1>4, <1>7, <1>8 DEF Trivial
  <2>3. x \notin {"'", "(", ")"} => r.mode \in Loose /\ r.stage = "options" /\ r.depth = d
    BY <1>4, <1>6, <1>7, <1>8 DEF Same, Loose, Trivial
  <2> QED
    BY <2>1, <2>2, <2>3 DEF x, d, r, j
<1>9. CASE l.mode # "code"
  <2>1. l.mode \in {"ident", "line", "block"} /\ x \notin {"'", "(", ")"}
    BY <1>3, <1>6, <1>9 DEF Strays, Loose
  <2>2. l \in Lexers /\ ~ Significant(l, x)
    BY <1>1, <1>9 DEF Sound, Significant
  <2>3. Same(r, l) /\ r.mode = NextMode(l, x)
    BY <1>1, <2>2, ReadSays
  <2>4. r.mode \in {"code", l.mode}
    BY <1>9, <2>3, ModeAfter
  <2>5. r.mode \in Loose /\ r.stage = "options" /\ r.depth = d
    BY <1>6, <2>1, <2>3, <2>4 DEF Same, Loose
  <2> QED
    BY <2>1, <2>5 DEF x, d, r, j
<1> QED
  BY <1>8, <1>9

(* The step of skipParenGroup on an index and the open groups.             *)
ParenStep(s) ==
    [at \in Indices(s) \X Int |->
        LET k    == at[1]
            open == at[2]
        IN  CASE Ahead(s, k, {"'"})             -> <<SkipQuoted(s, k, "'"), open>>
              [] Ahead(s, k, {"("})             -> <<k + 1, open + 1>>
              [] Ahead(s, k, {")"}) /\ open = 1 -> at
              [] Ahead(s, k, {")"}) /\ open # 1 -> <<k + 1, open - 1>>
              [] OTHER                          -> <<Past(s, k), open>>]

LEMMA ParenSays ==
    ASSUME NEW s, NEW k \in 0 .. Len(s), NEW open \in Int
    PROVE  LET at   == <<k, open>>
               step == ParenStep(s)
           IN  /\ k < Len(s) /\ s[k + 1] = "'" => step[at] = <<SkipQuoted(s, k, "'"), open>>
               /\ k < Len(s) /\ s[k + 1] = "(" => step[at] = <<k + 1, open + 1>>
               /\ k < Len(s) /\ s[k + 1] = ")" /\ open = 1 => step[at] = at
               /\ k < Len(s) /\ s[k + 1] = ")" /\ open # 1 => step[at] = <<k + 1, open - 1>>
               /\ k = Len(s) \/ s[k + 1] \notin {"'", "(", ")"} => step[at] = <<Past(s, k), open>>
<1> DEFINE n == Len(s)
           D == (0 .. n) \X Int
           To(at) == LET i    == at[1]
                         o == at[2]
                     IN  CASE Ahead(s, i, {"'"})          -> <<SkipQuoted(s, i, "'"), o>>
                           [] Ahead(s, i, {"("})          -> <<i + 1, o + 1>>
                           [] Ahead(s, i, {")"}) /\ o = 1 -> at
                           [] Ahead(s, i, {")"}) /\ o # 1 -> <<i + 1, o - 1>>
                           [] OTHER                       -> <<Past(s, i), o>>
           at == <<k, open>>
           step == ParenStep(s)
<1>1. at[1] = k /\ at[2] = open /\ at \in D
  OBVIOUS
<1>2. step = [x \in D |-> To(x)]
  BY DEF ParenStep, Indices
<1>3. step[at] = To(at)
  <2> HIDE DEF at, To, step, D
  <2> QED
    BY <1>1, <1>2
<1> HIDE DEF at, step
<1>4. /\ k < n /\ s[k + 1] = "'" => To(at) = <<SkipQuoted(s, k, "'"), open>>
      /\ k < n /\ s[k + 1] = "(" => To(at) = <<k + 1, open + 1>>
      /\ k < n /\ s[k + 1] = ")" /\ open = 1 => To(at) = at
      /\ k < n /\ s[k + 1] = ")" /\ open # 1 => To(at) = <<k + 1, open - 1>>
      /\ k = n \/ s[k + 1] \notin {"'", "(", ")"} => To(at) = <<Past(s, k), open>>
  BY <1>1 DEF Ahead
<1> HIDE DEF To
<1> QED
  BY <1>3, <1>4 DEF at, step

LEMMA ParenPasses ==
    ASSUME NEW s, NEW k \in 0 .. Len(s), NEW open \in Int,
           k = Len(s) \/ s[k + 1] \notin {"'", "(", ")"}
    PROVE  ParenStep(s)[<<k, open>>] = <<Past(s, k), open>>
BY ParenSays

(* Every step moves on within the text, or stays where it is.              *)
LEMMA ParenMoves ==
    ASSUME NEW s, Len(s) \in Nat, NEW k \in 0 .. Len(s), NEW open \in Int
    PROVE  \E m \in k .. Len(s), o \in Int :
              ParenStep(s)[<<k, open>>] = <<m, o>> /\ (m = k => o = open)
<1> DEFINE n == Len(s)
           to == ParenStep(s)[<<k, open>>]
<1>1. SkipQuoted(s, k, "'") \in k .. n /\ Past(s, k) \in k .. n
  BY Ranges, PastSays
<1>2. to = <<k, open>> \/ \E m \in k .. n : to = <<m, open>> \/ (m > k /\ \E o \in Int : to = <<m, o>>)
  <2>1. /\ k < n /\ s[k + 1] = "'" => to = <<SkipQuoted(s, k, "'"), open>>
        /\ k < n /\ s[k + 1] = "(" => to = <<k + 1, open + 1>>
        /\ k < n /\ s[k + 1] = ")" /\ open = 1 => to = <<k, open>>
        /\ k < n /\ s[k + 1] = ")" /\ open # 1 => to = <<k + 1, open - 1>>
        /\ k = n \/ s[k + 1] \notin {"'", "(", ")"} => to = <<Past(s, k), open>>
    BY ParenSays
  <2>2. k < n => k + 1 \in k .. n /\ k + 1 > k
    OBVIOUS
  <2>3. open + 1 \in Int /\ open - 1 \in Int
    OBVIOUS
  <2>4. k = n \/ k < n
    OBVIOUS
  <2> HIDE DEF to, n
  <2> QED
    BY <1>1, <2>1, <2>2, <2>3, <2>4
<1> HIDE DEF to
<1>3. k \in k .. n
  OBVIOUS
<1>4. CASE to = <<k, open>>
  BY <1>3, <1>4 DEF to
<1>5. ASSUME NEW m \in k .. n, to = <<m, open>>
      PROVE  \E i \in k .. n, o \in Int : to = <<i, o>> /\ (i = k => o = open)
  BY <1>5
<1>6. ASSUME NEW m \in k .. n, m > k, NEW o \in Int, to = <<m, o>>
      PROVE  \E i \in k .. n, p \in Int : to = <<i, p>> /\ (i = k => p = open)
  BY <1>6
<1> QED
  BY <1>2, <1>4, <1>5, <1>6 DEF to

(* The loop over a group ends.                                             *)
LEMMA ParenEnds ==
    ASSUME NEW s, Len(s) \in Nat
    PROVE  LET D == (0 .. Len(s)) \X Int
           IN  Ends(ParenStep(s), D, [at \in D |-> Len(s) - at[1]], Len(s))
<1> DEFINE n == Len(s)
           D == (0 .. n) \X Int
           step == ParenStep(s)
           size == [at \in D |-> n - at[1]]
<1>2. ASSUME NEW k \in 0 .. n, NEW open \in Int
      PROVE  LET at == <<k, open>>
             IN  step[at] \in D /\ (step[at] = at \/ size[step[at]] < size[at]) /\ size[at] = n - k
  <2> DEFINE at == <<k, open>>
  <2>1. PICK m \in k .. n, o \in Int : step[at] = <<m, o>> /\ (m = k => o = open)
    <3> DEFINE to == ParenStep(s)[<<k, open>>]
    <3>1. \E m \in k .. Len(s), o \in Int : to = <<m, o>> /\ (m = k => o = open)
      <4> HIDE DEF D, step, size
      <4> QED
        BY ParenMoves
    <3>2. step[at] = to
      OBVIOUS
    <3> HIDE DEF to, step, at
    <3> QED
      BY <3>1, <3>2
  <2>2. m \in 0 .. n
    OBVIOUS
  <2>3. <<m, o>> \in D /\ size[<<m, o>>] = n - m /\ size[at] = n - k
    BY <2>2
  <2> HIDE DEF D, step, size
  <2> QED
    BY <2>1, <2>2, <2>3
<1>3. ASSUME NEW at \in D
      PROVE  /\ step[at] \in D /\ size[at] \in Nat /\ size[at] <= n
             /\ step[at] = at \/ size[step[at]] < size[at]
  <2>1. PICK k \in 0 .. n, open \in Int : at = <<k, open>>
    OBVIOUS
  <2> HIDE DEF step, size
  <2>2. step[at] \in D /\ (step[at] = at \/ size[step[at]] < size[at]) /\ size[at] = n - k
    BY <1>2, <2>1
  <2> HIDE DEF n, D
  <2>3. n \in Nat
    BY DEF n
  <2> QED
    BY <2>2, <2>3
<1>4. Ends(step, D, size, n)
  <2>1. step = [at \in D |-> step[at]] /\ size = [at \in D |-> size[at]]
    BY DEF ParenStep, Indices
  <2> HIDE DEF D, step, size
  <2>2. step \in [D -> D] /\ size \in [D -> Nat]
    BY <1>3, <2>1
  <2> QED
    BY <1>3, <2>2 DEF Ends
<1> QED
  BY <1>4

(* Skipping a group never goes back.                                       *)
LEMMA GroupRange ==
    ASSUME NEW s, Len(s) \in Nat, NEW i \in 0 .. Len(s)
    PROVE  SkipParenGroup(s, i) \in i .. Len(s)
<1> DEFINE n == Len(s)
           D == (0 .. n) \X Int
           step == ParenStep(s)
           size == [at \in D |-> n - at[1]]
           I == (i .. n) \X Int
           end == Loop(step, <<i, 0>>)
<1>1. SkipParenGroup(s, i) = Past(s, end[1])
  BY DEF SkipParenGroup, ParenLoop, ParenStep, Indices
<1>2. Ends(step, D, size, n)
  BY ParenEnds
<1>3. I \in SUBSET D /\ <<i, 0>> \in I
  OBVIOUS
<1>4. ASSUME NEW x \in I PROVE step[x] \in I
  <2>1. PICK k \in i .. n, open \in Int : x = <<k, open>>
    OBVIOUS
  <2>2. k \in 0 .. Len(s)
    OBVIOUS
  <2> DEFINE to == ParenStep(s)[<<k, open>>]
  <2>3. step[x] = to
    BY <2>1
  <2> HIDE DEF step, I, D, size
  <2>4. \E m \in k .. Len(s), o \in Int : to = <<m, o>> /\ (m = k => o = open)
    BY <2>2, ParenMoves
  <2> HIDE DEF to
  <2>5. PICK m \in k .. n, o \in Int : to = <<m, o>>
    BY <2>4
  <2>6. m \in i .. n
    OBVIOUS
  <2> QED
    BY <2>3, <2>5, <2>6 DEF I
<1>5. end \in I
  <2> HIDE DEF D, step, size, I, n
  <2> QED
    BY <1>2, <1>3, <1>4, LoopEnds
<1> HIDE DEF end
<1>6. end[1] \in i .. n /\ end[1] \in 0 .. n
  BY <1>5
<1>7. Past(s, end[1]) \in end[1] .. n
  BY <1>6, PastSays
<1> DEFINE e == end[1]
<1> HIDE DEF e
<1>8. e \in i .. n /\ Past(s, e) \in e .. n
  BY <1>6, <1>7 DEF e
<1> HIDE DEF n
<1>9. n \in Nat
  BY DEF n
<1>10. Past(s, e) \in i .. n
  BY <1>8, <1>9
<1> QED
  BY <1>1, <1>10 DEF e, n

(* An option group is skipped, up to the end when it is not closed.        *)
LEMMA Group ==
    ASSUME NEW s, NEW h, IsRead(s, h), GroupsFit(s, h), ~ h[Len(s)].closed, NEW i \in 0 .. Len(s) - 1,
           h[i].mode = "code", h[i].stage = "explain", s[i + 1] = "("
    PROVE  LET j == SkipParenGroup(s, i)
           IN  /\ j \in i + 1 .. Len(s)
               /\ \/ h[j].mode = "code" /\ h[j].stage = "explain"
                  \/ j = Len(s) /\ h[j].stage = "options"
<1> DEFINE n == Len(s)
           D == (0 .. n) \X Int
           step == ParenStep(s)
           size == [at \in D |-> n - at[1]]
           Open(k) == h[k].stage = "options" /\ (h[k].mode \in Loose \/ k = n)
           I == {<<i, 0>>} \cup {<<k, h[k].depth>> : k \in {m \in i + 1 .. n : Open(m)}}
           end == Loop(step, <<i, 0>>)
<1>1. n \in Nat /\ i \in 0 .. n /\ i + 1 \in 0 .. n /\ \A k \in 0 .. n : Sound(h[k]) /\ h[k].depth \in Int
  BY ReadNext DEF Sound, Lexers
<1>2. SkipParenGroup(s, i) = Past(s, end[1])
  BY DEF SkipParenGroup, ParenLoop, ParenStep, Indices
<1>3. Ends(step, D, size, n)
  BY <1>1, ParenEnds
<1> HIDE DEF step, size
<1>7. step[<<i, 0>>] = <<i + 1, h[i + 1].depth>> /\ Open(i + 1)
  <2>1. ~ h[i].closed
    BY <1>1, NeverClosed
  <2>2. h[i + 1].mode = "code" /\ h[i + 1].stage = NextStage(h[i], "(") /\ h[i + 1].depth = NextDepth(h[i], "(")
    BY <2>1, SymbolRead DEF Trivial
  <2>3. NextStage(h[i], "(") = "options" /\ NextDepth(h[i], "(") = 1
    <3>1. Sound(h[i]) /\ h[i].stage = "explain"
      BY <1>1
    <3> QED
      BY <3>1, StageSays
  <2>4. step[<<i, 0>>] = <<i + 1, 1>>
    <3> DEFINE z == 0
    <3>1. z \in Int /\ i < n /\ z + 1 = 1
      BY <1>1
    <3> HIDE DEF z
    <3>2. step[<<i, z>>] = <<i + 1, z + 1>>
      BY <1>1, ParenSays, <3>1 DEF step
    <3> QED
      BY <3>1, <3>2 DEF z
  <2> QED
    BY <2>2, <2>3, <2>4 DEF Loose
<1>8. ASSUME NEW k \in i + 1 .. n, Open(k)
      PROVE  LET x == <<k, h[k].depth>>
             IN  \/ \E m \in i + 1 .. n : Open(m) /\ step[x] = <<m, h[m].depth>> /\ m # k
                 \/ k = n /\ step[x] = x
                 \/ /\ k < n /\ s[k + 1] = ")" /\ step[x] = x
                    /\ h[k + 1].mode = "code" /\ h[k + 1].stage = "explain"
  <2> DEFINE d == h[k].depth
             x == <<k, d>>
  <2>1. k \in 0 .. n /\ d \in Int
    BY <1>1
  <2>2. CASE k = n
    <3>1. step[x] = <<Past(s, k), d>> /\ Past(s, k) = k
      <4>1. step[x] = <<Past(s, k), d>>
        <5>1. ParenStep(s)[<<k, d>>] = <<Past(s, k), d>>
          <6> HIDE DEF d
          <6> QED
            BY ParenPasses, <2>1, <2>2
        <5> QED
          BY <5>1 DEF step
      <4>2. Past(s, k) = k
        BY <1>1, <2>1, <2>2, PastSays
      <4> QED
        BY <4>1, <4>2
    <3> QED
      BY <2>2, <3>1
  <2>3. CASE k < n
    <3>1. k \in 0 .. n - 1 /\ h[k].mode \in Loose /\ "code" \in Loose /\ h[k].stage = "options" /\ k + 1 \in i + 1 .. n
      BY <1>1, <1>8, <2>1, <2>3 DEF Loose
    <3>2. CASE s[k + 1] = "'"
      <4> DEFINE j == SkipQuoted(s, k, "'")
      <4>1. j \in k + 1 .. n /\ (h[j].mode = "code" \/ j = n) /\ h[j].stage = "options" /\ h[j].depth = d
        BY <3>1, <3>2, InGroup
      <4>2. step[x] = <<j, d>>
        BY ParenSays, <2>1, <2>3, <3>2 DEF step
      <4> HIDE DEF j, n, x, d
      <4>3. j \in i + 1 .. n /\ j # k
        BY <1>1, <3>1, <4>1
      <4> QED
        BY <4>1, <4>2, <4>3 DEF x, d, Loose
    <3>3. CASE s[k + 1] = "("
      <4>1. h[k + 1].mode = "code" /\ h[k + 1].stage = "options" /\ h[k + 1].depth = d + 1
        BY <3>1, <3>3, InGroup
      <4>2. step[x] = <<k + 1, d + 1>>
        BY ParenSays, <2>1, <2>3, <3>3 DEF step
      <4> QED
        BY <1>1, <3>1, <4>1, <4>2
    <3>4. CASE s[k + 1] = ")" /\ d = 1
      <4>1. h[k + 1].mode = "code" /\ h[k + 1].stage = "explain"
        BY <3>1, <3>4, InGroup
      <4>2. step[x] = x
        BY ParenSays, <2>1, <2>3, <3>4 DEF step
      <4> QED
        BY <2>3, <3>4, <4>1, <4>2
    <3>5. CASE s[k + 1] = ")" /\ d # 1
      <4>1. h[k + 1].mode = "code" /\ h[k + 1].stage = "options" /\ h[k + 1].depth = d - 1
        BY <3>1, <3>5, InGroup
      <4>2. step[x] = <<k + 1, d - 1>>
        BY ParenSays, <2>1, <2>3, <3>5 DEF step
      <4> QED
        BY <1>1, <3>1, <4>1, <4>2
    <3>6. CASE s[k + 1] \notin {"'", "(", ")"}
      <4>1. h[k + 1].mode \in Loose /\ h[k + 1].stage = "options" /\ h[k + 1].depth = d
        BY <3>1, <3>6, InGroup
      <4>2. step[x] = <<Past(s, k), d>> /\ Past(s, k) = k + 1
        <5>1. step[x] = <<Past(s, k), d>>
          <6>1. ParenStep(s)[<<k, d>>] = <<Past(s, k), d>>
            <7> HIDE DEF d
            <7> QED
              BY ParenPasses, <2>1, <3>6
          <6> QED
            BY <6>1 DEF step
        <5>2. Past(s, k) = k + 1
          BY <1>1, <2>1, <2>3, PastSays
        <5> QED
          BY <5>1, <5>2
      <4> QED
        BY <1>1, <3>1, <4>1, <4>2
    <3> QED
      BY <3>2, <3>3, <3>4, <3>5, <3>6
  <2>4. k = n \/ k < n
    BY <1>1, <2>1
  <2> HIDE DEF n, Open
  <2> QED
    BY <2>2, <2>3, <2>4
<1>9. I \in SUBSET D /\ <<i, 0>> \in I
  <2>1. \A k \in i + 1 .. n : <<k, h[k].depth>> \in D
    BY <1>1
  <2>2. <<i, 0>> \in D
    BY <1>1
  <2> HIDE DEF D, Open, n
  <2> QED
    BY <2>1, <2>2
<1>10. ASSUME NEW x \in I PROVE step[x] \in I
  <2>1. CASE x = <<i, 0>>
    <3>1. i + 1 \in i + 1 .. n
      BY <1>1
    <3> HIDE DEF Open, n
    <3> QED
      BY <1>7, <2>1, <3>1
  <2>2. CASE x # <<i, 0>>
    <3> HIDE DEF Open, n
    <3>1. PICK k \in i + 1 .. n : Open(k) /\ x = <<k, h[k].depth>>
      BY <2>2
    <3>2. step[x] = x \/ \E m \in i + 1 .. n : Open(m) /\ step[x] = <<m, h[m].depth>>
      BY <1>8, <3>1
    <3> QED
      BY <3>2
  <2> QED
    BY <2>1, <2>2
<1>11. end \in I /\ step[end] = end
  <2> HIDE DEF I, D, n
  <2> QED
    BY <1>3, <1>9, <1>10, LoopEnds
<1> HIDE DEF end
<1>12. PICK k \in i + 1 .. n : Open(k) /\ end = <<k, h[k].depth>>
  <2>1. end # <<i, 0>>
    BY <1>1, <1>7, <1>11
  <2> HIDE DEF Open, n
  <2> QED
    BY <1>11, <2>1
<1>13. \/ k = n
       \/ k < n /\ h[k + 1].mode = "code" /\ h[k + 1].stage = "explain"
  <2>1. \A m \in i + 1 .. n : step[end] = <<m, h[m].depth>> => m = k
    BY <1>11, <1>12
  <2> HIDE DEF Open, n
  <2> QED
    BY <1>8, <1>12, <2>1
<1>14. end[1] = k /\ k \in 0 .. n /\ Past(s, k) = IF k < n THEN k + 1 ELSE k
  BY <1>1, <1>12 DEF Past
<1> QED
  BY <1>1, <1>2, <1>12, <1>13, <1>14

(* The options of EXPLAIN are skipped, up to what it explains.             *)
LEMMA Options ==
    ASSUME NEW s, NEW h, IsRead(s, h), GroupsFit(s, h), ~ h[Len(s)].closed, NEW i \in 0 .. Len(s),
           h[i].mode = "code", h[i].stage = "explain"
    PROVE  LET j == StripExplainOptions(s, i)
           IN  /\ j \in i .. Len(s)
               /\ StripLeadingTrivia(s, j) = j
               /\ h[j].stage = "explain" \/ (j = Len(s) /\ h[j].stage = "options")
               /\ j < Len(s) => /\ h[j].mode = "code" /\ Significant(h[j], s[j + 1])
                                /\ s[j + 1] \notin {"(", "OPTION"}
<1> DEFINE n == Len(s)
           To(k) == LET j == StripLeadingTrivia(s, k)
                    IN  CASE Ahead(s, j, {"("})      -> SkipParenGroup(s, j)
                          [] Ahead(s, j, {"OPTION"}) -> j + 1
                          [] OTHER                   -> j
           step == [k \in 0 .. n |-> To(k)]
           Good(k) == Free(s, h, k) /\ (h[k].stage = "explain" \/ (k = n /\ h[k].stage = "options"))
           I == {k \in i .. n : Good(k)}
           end == Loop(step, i)
<1>1. n \in Nat /\ i \in 0 .. n /\ Good(i)
  BY ReadNext DEF Free
<1>2. StripExplainOptions(s, i) = end
  BY DEF StripExplainOptions, Indices
<1>3. ASSUME NEW k \in 0 .. n
      PROVE  LET j == StripLeadingTrivia(s, k)
             IN  /\ j \in k .. n
                 /\ j < n /\ s[j + 1] = "(" => step[k] = SkipParenGroup(s, j)
                 /\ j < n /\ s[j + 1] = "OPTION" => step[k] = j + 1
                 /\ j = n \/ s[j + 1] \notin {"(", "OPTION"} => step[k] = j
  <2> DEFINE j == StripLeadingTrivia(s, k)
  <2>1. j \in k .. n
    BY <1>1, TriviaRange
  <2>2. step[k] = To(k)
    <3> HIDE DEF To
    <3> QED
      OBVIOUS
  <2> HIDE DEF step
  <2>3. step[k] = CASE Ahead(s, j, {"("})      -> SkipParenGroup(s, j)
                    [] Ahead(s, j, {"OPTION"}) -> j + 1
                    [] OTHER                   -> j
    BY <2>2
  <2> HIDE DEF To, j
  <2>4. /\ j < n /\ s[j + 1] = "(" => step[k] = SkipParenGroup(s, j)
        /\ j < n /\ s[j + 1] = "OPTION" => step[k] = j + 1
        /\ j = n \/ s[j + 1] \notin {"(", "OPTION"} => step[k] = j
    BY <1>1, <2>1, <2>3 DEF Ahead
  <2> QED
    BY <2>1, <2>4 DEF j
<1> HIDE DEF To, step
<1>4. ASSUME NEW k \in 0 .. n PROVE step[k] \in 0 .. n /\ k <= step[k]
  <2> DEFINE j == StripLeadingTrivia(s, k)
  <2>1. /\ j \in k .. n
        /\ j < n /\ s[j + 1] = "(" => step[k] = SkipParenGroup(s, j)
        /\ j < n /\ s[j + 1] = "OPTION" => step[k] = j + 1
        /\ j = n \/ s[j + 1] \notin {"(", "OPTION"} => step[k] = j
    BY <1>3
  <2> HIDE DEF j
  <2>2. j \in 0 .. n
    BY <1>1, <2>1
  <2>3. SkipParenGroup(s, j) \in j .. n
    BY <1>1, <2>2, GroupRange
  <2> HIDE DEF n
  <2> QED
    BY <1>1, <2>1, <2>2, <2>3
<1>5. step \in [0 .. n -> 0 .. n]
  <2>1. step = [k \in 0 .. n |-> step[k]]
    BY DEF step
  <2> HIDE DEF n
  <2> QED
    BY <1>4, <2>1
<1>6. ASSUME NEW k \in i .. n, Good(k)
      PROVE  LET j == StripLeadingTrivia(s, k)
             IN  /\ step[k] \in i .. n /\ Good(step[k])
                 /\ step[k] = k => /\ j = k
                                   /\ j < n => /\ h[j].mode = "code" /\ Significant(h[j], s[j + 1])
                                               /\ s[j + 1] \notin {"(", "OPTION"}
  <2> DEFINE j == StripLeadingTrivia(s, k)
  <2>1. k \in 0 .. n
    BY <1>1
  <2>2. j \in k .. n /\ Same(h[j], h[k]) /\ (j < n => h[j].mode = "code" /\ Significant(h[j], s[j + 1]))
    BY <1>6, <2>1, Trivia
  <2>3. /\ j < n /\ s[j + 1] = "(" => step[k] = SkipParenGroup(s, j)
        /\ j < n /\ s[j + 1] = "OPTION" => step[k] = j + 1
        /\ j = n \/ s[j + 1] \notin {"(", "OPTION"} => step[k] = j
    BY <1>3, <2>1
  <2> DEFINE Goal == /\ step[k] \in i .. n /\ Good(step[k])
                     /\ step[k] = k => /\ j = k
                                       /\ j < n => /\ h[j].mode = "code" /\ Significant(h[j], s[j + 1])
                                                   /\ s[j + 1] \notin {"(", "OPTION"}
  <2> SUFFICES Goal
    OBVIOUS
  <2> HIDE DEF j
  <2>4. j \in 0 .. n /\ j \in i .. n
    BY <1>1, <2>1, <2>2
  <2>5. CASE j = n
    BY <1>6, <2>2, <2>3, <2>4, <2>5 DEF Free, Same
  <2>6. CASE j < n
    <3>1. j \in 0 .. n - 1 /\ j + 1 \in i .. n /\ k # n /\ j + 1 # k
      BY <1>1, <2>2, <2>4, <2>6
    <3>2. h[j].mode = "code" /\ h[j].stage = "explain" /\ Significant(h[j], s[j + 1])
      BY <1>6, <2>2, <2>6, <3>1 DEF Same
    <3>3. CASE s[j + 1] = "("
      <4> DEFINE m == SkipParenGroup(s, j)
      <4>1. /\ m \in j + 1 .. n
            /\ (h[m].mode = "code" /\ h[m].stage = "explain") \/ (m = n /\ h[m].stage = "options")
        BY <3>1, <3>2, <3>3, Group
      <4>2. step[k] = m
        BY <2>3, <2>6, <3>3
      <4> HIDE DEF m
      <4>3. m \in i .. n /\ m # k /\ Good(m)
        BY <1>1, <2>2, <2>4, <4>1 DEF Free
      <4> HIDE DEF Good
      <4> QED
        BY <4>2, <4>3
    <3>4. CASE s[j + 1] = "OPTION"
      <4>1. ~ h[j].closed /\ Sound(h[j])
        BY <2>4, NeverClosed, ReadNext
      <4>2. h[j + 1].mode = "code" /\ h[j + 1].stage = NextStage(h[j], "OPTION")
        BY <3>1, <3>2, <3>4, <4>1, SymbolRead DEF Trivial
      <4>3. NextStage(h[j], "OPTION") = "explain"
        BY <3>2, <4>1, StageSays
      <4>4. step[k] = j + 1
        BY <2>3, <2>6, <3>4
      <4> QED
        BY <3>1, <4>2, <4>3, <4>4 DEF Free
    <3>5. CASE s[j + 1] \notin {"(", "OPTION"}
      <4>1. step[k] = j
        BY <2>3, <3>5
      <4> QED
        BY <2>4, <3>2, <3>5, <4>1 DEF Free
    <3> QED
      BY <3>3, <3>4, <3>5
  <2> QED
    BY <1>1, <2>4, <2>5, <2>6
<1>7. \A k \in I : step[k] \in I
  <2>1. ASSUME NEW k \in I PROVE step[k] \in I
    <3> HIDE DEF Good
    <3>1. k \in i .. n /\ Good(k)
      OBVIOUS
    <3>2. step[k] \in i .. n /\ Good(step[k])
      BY <1>6, <3>1
    <3> QED
      BY <3>2
  <2> QED
    BY <2>1
<1>8. I \in SUBSET (0 .. n) /\ i \in I
  <2> HIDE DEF Good
  <2> QED
    BY <1>1
<1>9. end \in I /\ step[end] = end
  <2> HIDE DEF I, n
  <2> QED
    BY <1>1, <1>4, <1>5, <1>7, <1>8, IndexLoop
<1> HIDE DEF end
<1>10. end \in i .. n /\ Good(end)
  <2> HIDE DEF Good, n
  <2> QED
    BY <1>9
<1>11. /\ StripLeadingTrivia(s, end) = end
       /\ end < n => /\ h[end].mode = "code" /\ Significant(h[end], s[end + 1])
                     /\ s[end + 1] \notin {"(", "OPTION"}
  <2> HIDE DEF Good, n
  <2> QED
    BY <1>6, <1>9, <1>10
<1> QED
  BY <1>2, <1>10, <1>11

-----------------------------------------------------------------------------
(* The guard. *)

(* A statement without a separator is read-only or it is not.              *)
LEMMA CheckMeans ==
    ASSUME NEW s, NEW h, IsRead(s, h), GroupsFit(s, h), ~ h[Len(s)].closed
    PROVE  CheckStatement(s) <=> h[Len(s)].stage = "query"
<1> DEFINE n == Len(s)
           i == StripLeadingTrivia(s, 0)
           x == s[i + 1]
<1>1. n \in Nat /\ 0 \in 0 .. n /\ h[0].stage = "start" /\ Free(s, h, 0)
  <2>1. h[0] = Start
    BY DEF IsRead
  <2> QED
    BY <2>1, ReadNext DEF Start, Free
<1>2. i \in 0 .. n /\ Same(h[i], h[0]) /\ (i < n => h[i].mode = "code" /\ Significant(h[i], x))
  BY <1>1, Trivia
<1>3. \A k \in 0 .. n - 1 : h[k].mode = "code" /\ Significant(h[k], s[k + 1]) =>
         /\ Sound(h[k]) /\ h[k + 1].stage = NextStage(h[k], s[k + 1]) /\ k + 1 \in 0 .. n
         /\ s[k + 1] \in {"READ", "EXPLAIN"} => h[k + 1].mode = "code"
  <2> SUFFICES ASSUME NEW k \in 0 .. n - 1, h[k].mode = "code", Significant(h[k], s[k + 1])
               PROVE  /\ Sound(h[k]) /\ h[k + 1].stage = NextStage(h[k], s[k + 1]) /\ k + 1 \in 0 .. n
                      /\ s[k + 1] \in {"READ", "EXPLAIN"} => h[k + 1].mode = "code"
    OBVIOUS
  <2>1. k \in 0 .. n /\ k + 1 \in 0 .. n /\ Sound(h[k])
    BY <1>1, ReadNext
  <2>2. ~ h[k].closed /\ ~ h[k + 1].closed
    BY <2>1, NeverClosed
  <2>3. s[k + 1] \notin Trivial
    BY TrivialSays
  <2>4. /\ s[k + 1] # "sep"
        /\ s[k + 1] \notin Trivial \cup {"sep"} => h[k + 1].stage = NextStage(h[k], s[k + 1])
        /\ s[k + 1] \notin {"'", "dq", "--", "/*"} => h[k + 1].mode = "code"
    BY <2>2, SymbolRead
  <2> QED
    BY <2>1, <2>3, <2>4
<1> HIDE DEF i, n
<1>4. CASE i = n
  <2>1. \A X : ~ Ahead(s, i, X)
    BY <1>1, <1>4 DEF Ahead, n
  <2>2. ~ CheckStatement(s)
    BY <2>1 DEF CheckStatement, i
  <2>3. h[n].stage = "start"
    BY <1>1, <1>2, <1>4 DEF Same
  <2> QED
    BY <2>2, <2>3 DEF n
<1>5. CASE i < n
  <2>1. i \in 0 .. n - 1 /\ n \in i + 1 .. n
    BY <1>1, <1>2, <1>5
  <2>2. h[i].mode = "code" /\ Significant(h[i], x) /\ h[i].stage = "start"
    BY <1>1, <1>2, <1>5 DEF Same
  <2>3. /\ Sound(h[i]) /\ h[i + 1].stage = NextStage(h[i], x) /\ i + 1 \in 0 .. n
        /\ x \in {"READ", "EXPLAIN"} => h[i + 1].mode = "code"
    BY <1>3, <2>1, <2>2
  <2>4. NextStage(h[i], x) = CASE x = "READ" -> "query" [] x = "EXPLAIN" -> "explain" [] OTHER -> "bad"
    BY <2>2, <2>3, StageSays
  <2>5. \A X : Ahead(s, i, X) <=> x \in X
    BY <1>5 DEF Ahead, n
  <2>6. h[i + 1].stage \in {"query", "bad"} => h[n].stage = h[i + 1].stage
    BY <2>1, <2>3, Lasts DEF n
  <2> HIDE DEF x
  <2>7. CASE x = "READ"
    <3>1. h[n].stage = "query"
      BY <2>3, <2>4, <2>6, <2>7
    <3>2. CheckStatement(s)
      BY <2>5, <2>7 DEF CheckStatement, i
    <3> QED
      BY <3>1, <3>2 DEF n
  <2>8. CASE x = "EXPLAIN"
    <3> DEFINE j == StripExplainOptions(s, i + 1)
    <3>1. h[i + 1].mode = "code" /\ h[i + 1].stage = "explain"
      BY <2>3, <2>4, <2>8
    <3>2. /\ j \in i + 1 .. n
          /\ StripLeadingTrivia(s, j) = j
          /\ h[j].stage = "explain" \/ (j = n /\ h[j].stage = "options")
          /\ j < n => /\ h[j].mode = "code" /\ Significant(h[j], s[j + 1])
                      /\ s[j + 1] \notin {"(", "OPTION"}
      BY <2>3, <3>1, Options DEF n
    <3>3. CheckStatement(s) <=> CheckInnerStatement(s, j)
      <4>1. CheckStatement(s) <=>
               (Ahead(s, i, {"READ"}) \/ (Ahead(s, i, {"EXPLAIN"}) /\ CheckInnerStatement(s, j)))
        BY DEF CheckStatement, i
      <4>2. ~ Ahead(s, i, {"READ"}) /\ Ahead(s, i, {"EXPLAIN"})
        BY <2>5, <2>8
      <4> QED
        BY <4>1, <4>2
    <3>4. CheckInnerStatement(s, j) <=> Ahead(s, j, {"READ"})
      BY <3>2 DEF CheckInnerStatement
    <3> HIDE DEF j
    <3>5. CASE j = n
      <4>1. ~ Ahead(s, j, {"READ"})
        BY <1>1, <3>5 DEF Ahead, n
      <4> QED
        BY <3>2, <3>3, <3>4, <3>5, <4>1 DEF n
    <3>6. CASE j < n
      <4>1. j \in 0 .. n - 1 /\ n \in j + 1 .. n
        BY <1>1, <1>2, <3>2, <3>6
      <4>2. h[j].mode = "code" /\ h[j].stage = "explain" /\ Significant(h[j], s[j + 1])
            /\ s[j + 1] \notin {"(", "OPTION"}
        BY <1>1, <3>2, <3>6
      <4>3. Sound(h[j]) /\ h[j + 1].stage = NextStage(h[j], s[j + 1]) /\ j + 1 \in 0 .. n
        BY <1>3, <4>1, <4>2
      <4>4. NextStage(h[j], s[j + 1]) = IF s[j + 1] = "READ" THEN "query" ELSE "bad"
        <5> DEFINE l == h[j]
                   y == s[j + 1]
        <5>1. Sound(l) /\ l.stage = "explain" /\ y \notin {"(", "OPTION"}
          BY <4>2, <4>3
        <5> HIDE DEF l, y
        <5>2. NextStage(l, y) = CASE y = "READ" -> "query" [] y = "OPTION" -> "explain"
                                  [] y = "(" -> "options" [] OTHER -> "bad"
          BY <5>1, StageSays
        <5>3. NextStage(l, y) = IF y = "READ" THEN "query" ELSE "bad"
          BY <5>1, <5>2
        <5> QED
          BY <5>3 DEF l, y
      <4>5. h[j + 1].stage \in {"query", "bad"} => h[n].stage = h[j + 1].stage
        BY <4>1, <4>3, Lasts DEF n
      <4>6. Ahead(s, j, {"READ"}) <=> s[j + 1] = "READ"
        BY <3>6 DEF Ahead, n
      <4> QED
        BY <3>3, <3>4, <4>3, <4>4, <4>5, <4>6 DEF n
    <3> QED
      BY <1>1, <3>2, <3>5, <3>6
  <2>9. CASE x \notin {"READ", "EXPLAIN"}
    <3>1. h[n].stage = "bad"
      BY <2>3, <2>4, <2>6, <2>9
    <3>2. ~ Ahead(s, i, {"READ"}) /\ ~ Ahead(s, i, {"EXPLAIN"})
      BY <2>5, <2>9
    <3>3. ~ CheckStatement(s)
      BY <3>2 DEF CheckStatement, i
    <3> QED
      BY <3>1, <3>3 DEF n
  <2> QED
    BY <2>7, <2>8, <2>9
<1> QED
  BY <1>1, <1>2, <1>4, <1>5

(* The text before an index is read like the whole.                        *)
LEMMA PrefixRead ==
    ASSUME NEW s, NEW h, IsRead(s, h), NEW i \in 0 .. Len(s)
    PROVE  /\ IsRead(SubSeq(s, 1, i), h) /\ Len(SubSeq(s, 1, i)) = i
           /\ GroupsFit(s, h) => GroupsFit(SubSeq(s, 1, i), h)
<1> DEFINE p == SubSeq(s, 1, i)
           n == Len(s)
<1>1. n \in Nat /\ i \in Nat /\ i <= n
  BY ReadNext
<1>2. \A k \in 1 .. n : s[k] \in Symbols
  BY ElementOfSeq DEF IsRead
<1> HIDE DEF n
<1>3. 1 \in Int /\ i \in Int /\ \A k \in 1 .. i : s[k] \in Symbols
  BY <1>1, <1>2
<1>4. /\ p \in Seq(Symbols)
      /\ Len(p) = IF 1 <= i THEN i - 1 + 1 ELSE 0
      /\ \A k \in 1 .. i - 1 + 1 : p[k] = s[1 + k - 1]
  BY <1>3, SubSeqProperties
<1> HIDE DEF p
<1>5. Len(p) = i /\ \A k \in 1 .. i : p[k] = s[k] /\ k \in 1 .. n
  BY <1>1, <1>4
<1>6. h[0] = Start /\ \A k \in 1 .. n : Fits(h[k - 1], s[k]) /\ h[k] = Read(h[k - 1], s[k])
  BY DEF IsRead, n
<1>7. IsRead(p, h)
  BY <1>4, <1>5, <1>6 DEF IsRead
<1>8. GroupsFit(s, h) => GroupsFit(p, h)
  BY <1>5 DEF GroupsFit, n
<1> QED
  BY <1>5, <1>7, <1>8 DEF p

(* What follows the separator is looked at in the code as by the lexer.    *)
LEMMA Trailing ==
    ASSUME NEW s, NEW h, IsRead(s, h)
    PROVE  LET i == TopLevelSemicolon(s)
           IN  /\ (i < Len(s) => StripLeadingTrivia(s, i + 1) = Len(s)) <=> ~ h[Len(s)].extra
               /\ h[Len(s)].stage = h[i].stage
<1> DEFINE n == Len(s)
           i == TopLevelSemicolon(s)
<1>1. n \in Nat /\ \A k \in 0 .. n : Sound(h[k])
  BY ReadNext
<1>2. i \in 0 .. n /\ ~ h[i].closed /\ (i < n => h[i].mode = "code" /\ s[i + 1] = "sep")
  BY Separator
<1> HIDE DEF i
<1>3. CASE i = n
  <2>1. ~ h[n].extra
    BY <1>1, <1>2, <1>3 DEF Sound
  <2> QED
    BY <1>1, <1>3, <2>1 DEF i
<1>4. CASE i < n
  <2>1. i \in 0 .. n - 1 /\ i + 1 \in 0 .. n /\ n \in i + 1 .. n
    BY <1>1, <1>2, <1>4
  <2>2. ~ h[i].extra
    BY <1>1, <1>2 DEF Sound
  <2>3. h[i + 1].mode = "code" /\ h[i + 1].closed /\ h[i + 1].stage = h[i].stage /\ h[i + 1].extra = h[i].extra
    BY <1>2, <1>4, <2>1, SymbolRead
  <2>4. h[n].stage = h[i].stage
    BY <2>1, <2>3, Lasts
  <2> DEFINE t == StripLeadingTrivia(s, i + 1)
  <2>5. t \in i + 1 .. n /\ Same(h[t], h[i + 1]) /\ (t < n => h[t].mode = "code" /\ Significant(h[t], s[t + 1]))
    BY <2>1, <2>3, Trivia DEF Free
  <2> HIDE DEF t
  <2>6. h[t].closed /\ ~ h[t].extra
    BY <2>2, <2>3, <2>5 DEF Same
  <2>7. t = n <=> ~ h[n].extra
    <3>1. CASE t = n
      BY <2>6, <3>1
    <3>2. CASE t < n
      <4>1. t \in 0 .. n - 1 /\ t + 1 \in 0 .. n /\ n \in t + 1 .. n
        BY <1>1, <1>2, <2>5, <3>2
      <4>2. h[t + 1].extra
        <5>1. h[t].mode = "code" /\ s[t + 1] \notin Trivial
          BY <2>5, <3>2, TrivialSays
        <5> QED
          BY <2>6, <4>1, <5>1, SymbolRead
      <4>3. h[n].extra
        BY <4>1, <4>2, Lasts
      <4> QED
        BY <1>1, <3>2, <4>3
    <3> QED
      BY <1>1, <1>2, <2>5, <3>1, <3>2
  <2> QED
    BY <1>4, <2>4, <2>7 DEF t, i
<1> QED
  BY <1>1, <1>2, <1>3, <1>4

(* The verdict on a text is that of the lexer.                             *)
LEMMA Verdict ==
    ASSUME NEW s, NEW h, IsRead(s, h)
    PROVE  /\ ValidateReadOnly(s) => ~ h[Len(s)].extra
           /\ GroupsFit(s, h) => (ValidateReadOnly(s) <=> ReadOnly(h[Len(s)]))
<1> DEFINE n == Len(s)
           i == TopLevelSemicolon(s)
           p == SubSeq(s, 1, i)
<1>1. i \in 0 .. n /\ ~ h[i].closed
  BY Separator
<1>2. ValidateReadOnly(s) <=> (i < n => StripLeadingTrivia(s, i + 1) = n) /\ CheckStatement(p)
  BY DEF ValidateReadOnly
<1>3. ((i < n => StripLeadingTrivia(s, i + 1) = n) <=> ~ h[n].extra) /\ h[n].stage = h[i].stage
  BY Trailing
<1> HIDE DEF i, p
<1>4. ASSUME GroupsFit(s, h) PROVE CheckStatement(p) <=> h[i].stage = "query"
  <2>1. IsRead(p, h) /\ Len(p) = i /\ GroupsFit(p, h)
    BY <1>1, <1>4, PrefixRead DEF p
  <2> QED
    BY <1>1, <2>1, CheckMeans
<1> QED
  BY <1>2, <1>3, <1>4 DEF ReadOnly

-----------------------------------------------------------------------------
(* The texts that are typed. *)

(* The lexer is as far as the text goes.                                   *)
ReadWhole(h) == /\ IsRead(text, h) /\ h[Len(text)] = lexer
                /\ "group" \notin astray => GroupsFit(text, h)

ReadSoFar == /\ text \in Seq(Symbols)
             /\ "line" \notin astray => \E h : ReadWhole(h)

LEMMA LexerReadsText == Spec => []ReadSoFar
<1>1. Init => ReadSoFar
  <2> SUFFICES ASSUME Init PROVE ReadSoFar
    OBVIOUS
  <2> DEFINE h == [k \in {0} |-> Start]
  <2>1. text = <<>> /\ lexer = Start /\ Len(<<>>) = 0
    BY DEF Init
  <2>2. h[0] = Start
    OBVIOUS
  <2> HIDE DEF h
  <2>3. <<>> \in Seq(Symbols)
    OBVIOUS
  <2>4. ReadWhole(h)
    BY <2>1, <2>2, <2>3 DEF ReadWhole, IsRead, GroupsFit
  <2> QED
    BY <2>1, <2>3, <2>4 DEF ReadSoFar
<1>2. ReadSoFar /\ [Next]_vars => ReadSoFar'
  <2> SUFFICES ASSUME ReadSoFar, [Next]_vars PROVE ReadSoFar'
    OBVIOUS
  <2>1. CASE UNCHANGED vars
    BY <2>1 DEF ReadSoFar, ReadWhole, vars
  <2>2. ASSUME NEW x \in Symbols, Type(x) PROVE ReadSoFar'
    <3> DEFINE n == Len(text)
    <3>1. /\ text \in Seq(Symbols) /\ n \in Nat /\ text' = Append(text, x)
          /\ lexer' = Read(lexer, x) /\ astray' = astray \cup Strays(lexer, x)
      BY <2>2, LenProperties DEF Type, ReadSoFar
    <3>2. /\ text' \in Seq(Symbols) /\ Len(text') = n + 1 /\ text'[n + 1] = x
          /\ \A k \in 1 .. n : text'[k] = text[k]
      BY <3>1, AppendProperties
    <3>3. ASSUME "line" \notin astray'
          PROVE  \E g : ReadWhole(g)'
      <4>1. "line" \notin astray /\ Fits(lexer, x)
            /\ ("group" \notin astray' => "group" \notin astray /\ "group" \notin Strays(lexer, x))
        BY <3>1, <3>3 DEF Fits
      <4>2. PICK h : ReadWhole(h)
        BY <4>1 DEF ReadSoFar
      <4> DEFINE g == [k \in 0 .. n + 1 |-> IF k = n + 1 THEN lexer' ELSE h[k]]
      <4>3. (\A k \in 0 .. n : g[k] = h[k]) /\ g[n + 1] = lexer'
        BY <3>1
      <4>4. h[0] = Start /\ \A k \in 1 .. n : Fits(h[k - 1], text[k]) /\ h[k] = Read(h[k - 1], text[k])
        BY <4>2 DEF ReadWhole, IsRead
      <4>5. "group" \notin astray => \A k \in 1 .. n : "group" \notin Strays(h[k - 1], text[k])
        BY <4>2 DEF ReadWhole, GroupsFit
      <4>0. h[n] = lexer
        BY <4>2 DEF ReadWhole
      <4> HIDE DEF g, n
      <4>6. ASSUME NEW k \in 1 .. n + 1
            PROVE  /\ Fits(g[k - 1], text'[k]) /\ g[k] = Read(g[k - 1], text'[k])
                   /\ "group" \notin astray' => "group" \notin Strays(g[k - 1], text'[k])
        <5>1. CASE k = n + 1
          <6>1. k - 1 = n /\ n \in 0 .. n
            BY <3>1, <5>1
          <6> QED
            BY <3>1, <3>2, <4>0, <4>1, <4>3, <5>1, <6>1
        <5>2. CASE k # n + 1
          <6>1. k \in 1 .. n /\ k \in 0 .. n /\ k - 1 \in 0 .. n
            BY <3>1, <5>2
          <6> QED
            BY <3>2, <4>1, <4>3, <4>4, <4>5, <6>1
        <5> QED
          BY <5>1, <5>2
      <4>7. g[0] = Start
        BY <3>1, <4>3, <4>4
      <4>8. IsRead(text', g) /\ g[Len(text')] = lexer'
        BY <3>2, <4>3, <4>6, <4>7 DEF IsRead
      <4>9. "group" \notin astray' => GroupsFit(text', g)
        BY <3>2, <4>6 DEF GroupsFit
      <4> QED
        BY <4>8, <4>9 DEF ReadWhole
    <3> QED
      BY <3>2, <3>3 DEF ReadSoFar
  <2> QED
    BY <2>1, <2>2, TypedAssumption DEF Next
<1> QED
  BY <1>1, <1>2, PTL DEF Spec

LEMMA VerdictNow ==
    ASSUME ReadSoFar, "line" \notin astray
    PROVE  /\ ValidateReadOnly(text) => ~ lexer.extra
           /\ "group" \notin astray => (ValidateReadOnly(text) <=> ReadOnly(lexer))
<1>1. PICK h : ReadWhole(h)
  BY DEF ReadSoFar
<1> QED
  BY <1>1, Verdict DEF ReadWhole

LEMMA OneStatementNow == ReadSoFar => OneStatement
BY VerdictNow DEF OneStatement

(* readquery.go:60-64: a text of any length that gets through is not two   *)
(* statements, whatever the options of EXPLAIN hold, unless a carriage     *)
(* return ends a comment.                                                  *)
THEOREM SecondStatementStops == Spec => []OneStatement
BY OneStatementNow, LexerReadsText, PTL

(* readquery.go:54-90: of the texts of every length in which no carriage   *)
(* return ends a comment and no comment or quoted identifier among the     *)
(* options of EXPLAIN holds a quote or parenthesis, those that get through *)
(* are one read-only statement each.                                       *)
THEOREM NoWriteGetsThrough == Spec => []NoWriteAccepted
<1>1. ReadSoFar => NoWriteAccepted
  BY VerdictNow, OneStatementNow DEF NoWriteAccepted
<1> QED
  BY <1>1, LexerReadsText, PTL

(* readquery.go:54-90: of the same texts, no read-only statement is        *)
(* refused.                                                                *)
THEOREM EveryReadGetsThrough == Spec => []NoReadRefused
<1>1. ReadSoFar => NoReadRefused
  BY VerdictNow DEF NoReadRefused
<1> QED
  BY <1>1, LexerReadsText, PTL

=============================================================================
