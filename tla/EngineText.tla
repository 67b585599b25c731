------------------------------ MODULE EngineText ------------------------------
(***************************************************************************)
(* What an engine writes as text or as a JSON value, and what the client   *)
(* reads: durations and data sizes (internal/presto/parse.go), times       *)
(* (internal/normalize/querylist.go) and the cells of a statement          *)
(* (internal/presto/client.go).                                            *)
(*                                                                         *)
(* A text is a record of the parts that the readers tell apart, and an     *)
(* optional value is a sequence of at most one element.  The writers are   *)
(* the engine's and external.                                              *)
(***************************************************************************)
EXTENDS Integers, Sequences, FiniteSets

CONSTANTS Kilo,        \* 1000 in the code
          Kibi,        \* 1024
          Minute,      \* seconds in a minute, and minutes in an hour: 60
          Day,         \* hours in a day: 24
          ExactInt,    \* integers up to here have a float64 each: 2^53
          MaxInt64     \* the largest int64

ASSUME UnitAssumption == {Kilo, Kibi, Minute, Day} \subseteq Nat \ {0, 1}
ASSUME WidthAssumption == ExactInt \in Nat /\ MaxInt64 \in Nat /\ ExactInt % 4 = 0

None == <<>>
Some(x) == <<x>>

-----------------------------------------------------------------------------
(* Quantities.  A number has two decimals, so texts count in hundredths:   *)
(* what is before the trailing letters is a number or is not (None).       *)

SizeUnits == LET mega == Kibi * Kibi
                 tera == mega * mega
             IN  [B |-> 1, kB |-> Kibi, MB |-> mega, GB |-> Kibi * mega, TB |-> tera,
                  PB |-> Kibi * tera]

DurationUnits == LET second == Kilo * Kilo * Kilo
                     hour   == Minute * Minute * second
                 IN  [ns |-> 1, us |-> Kilo, ms |-> Kilo * Kilo, s |-> second,
                      m |-> Minute * second, h |-> hour, d |-> Day * hour]

AbsentText == [number |-> None, unit |-> ""]

(* A text without trailing letters has no unit and reads as an error, like *)
(* one whose unit is in no table: the caller then takes 0.                 *)
Quantity(text, units) == IF text.unit \in DOMAIN units /\ text.number # None
                         THEN text.number[1] * units[text.unit] ELSE 0

(* ParseDurationMillis, in hundredths of a nanosecond. *)
Millis(text) == Quantity(text, DurationUnits)

(* ParseDataSizeBytes: int64() drops the fraction of a byte. *)
BytesOf(text) == Quantity(text, SizeUnits) \div 100

(* External: the engine writes an amount with two decimals in the largest  *)
(* unit that fits (airlift's succinct form), leaves it out, or uses a unit *)
(* or a form the client does not know.                                     *)
Write(amount, units, form) ==
    LET fitting == {u \in DOMAIN units : units[u] <= amount \/ units[u] = 1}
        unit    == CHOOSE u \in fitting : \A v \in fitting : units[v] <= units[u]
        number  == Some((100 * amount + units[unit] \div 2) \div units[unit])
    IN  CASE form = "succinct" -> [number |-> number, unit |-> unit]
          [] form = "foreign"  -> [number |-> number, unit |-> "EB"]
          [] form = "bare"     -> [number |-> number, unit |-> ""]
          [] form = "odd"      -> [number |-> None, unit |-> unit]
          [] OTHER             -> AbsentText

(* The unit in which an amount is written bounds how far rounding moves it.*)
Precision(amount, units) ==
    LET fitting == {units[u] : u \in {v \in DOMAIN units : units[v] <= amount}} \cup {1}
    IN  CHOOSE f \in fitting : \A g \in fitting : g <= f

-----------------------------------------------------------------------------
(* Times.  A text is a wall clock with an offset from UTC, a wall clock    *)
(* without one, nothing, or something else.                                *)

TimeForms == {"zoned", "plain", "absent", "odd"}

TimeTexts == [form : TimeForms, wall : Int, offset : Int]

TimeText(form, wall, offset) == [form |-> form, wall |-> wall, offset |-> offset]

(* Mutants (here and below): plausible bugs that the properties must find. *)
WallClock(text) == CASE text.form \in {"zoned", "plain"} -> Some(text.wall)
                     [] OTHER                            -> None

(* The layouts of RFC 3339 read an offset; the two without a zone are read *)
(* as UTC.                                                                 *)
ParseEngineTime(text) == CASE text.form = "zoned" -> Some(text.wall - text.offset)
                           [] text.form = "plain" -> Some(text.wall)
                           [] OTHER               -> None

(* External: engines that leave the zone out write UTC. *)
WriteTime(instant, form, offset) ==
    TimeText(form, IF form = "zoned" THEN instant + offset ELSE instant,
             IF form = "zoned" THEN offset ELSE 0)

-----------------------------------------------------------------------------
(* Cells.  A JSON number becomes a float64, and "NaN" or "Infinity" come   *)
(* as strings that read as numbers.                                        *)

Cell(kind, word, number) == [kind |-> kind, word |-> word, number |-> number]

Cells == {c \in [kind : {"null", "string", "number"}, word : STRING, number : Int] :
             c.kind = "number" => c.word = ""}

NullCell == Cell("null", "", 0)
Word(w) == Cell("string", w, 0)
Number(n) == Cell("number", "", n)
NotFinite == Cell("string", "NaN", 0)

(* Integers beyond ExactInt, here up to twice as far, are two apart; a tie *)
(* goes to the even neighbour.                                             *)
Float64(n) == IF n \in (0 - ExactInt) .. ExactInt \/ n % 2 = 0 THEN n
              ELSE IF (n + 1) % 4 = 0 THEN n + 1 ELSE n - 1

Decoded(cell) == IF cell.kind = "number" THEN Number(Float64(cell.number)) ELSE cell

(* cellString renders a decoded cell: nothing for null, the digits of a    *)
(* number.  cellAt yields "" beyond the row's end or for no column (0).    *)
CellString(cell) == IF cell.kind = "null" THEN Word("") ELSE cell

CellAt(row, i) == IF i \in DOMAIN row THEN CellString(row[i]) ELSE Word("")

Readable(text) == text.kind = "number" \/ text = NotFinite

ParseIntZero(text, odd) ==
    IF Readable(text) /\ text.kind = "number" THEN Some(text.number) ELSE Some(0)

(* int64() of a float that has none is what the processor makes of it.     *)
ParseIntPtr(text, odd) ==
    IF ~ Readable(text) THEN None
    ELSE IF text.kind = "number" /\ text.number \in (0 - MaxInt64 - 1) .. MaxInt64
         THEN Some(text.number) ELSE Some(odd)

ParseFloatPtr(text) == IF Readable(text) THEN Some(text) ELSE None

(* External: what a processor may make of such a float.                    *)
OddInts == {0, MaxInt64, 0 - MaxInt64 - 1}

=============================================================================
