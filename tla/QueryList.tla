------------------------------- MODULE QueryList -------------------------------
(***************************************************************************)
(* The list of queries: the filter a caller gives (internal/tools,         *)
(* buildFilter), the coordinator's records (internal/presto/queryinfo.go)  *)
(* and QueryListFromLive (internal/normalize/querylist.go).                *)
(*                                                                         *)
(* A coordinator's query has a state, a user and a create time; which      *)
(* fields of a record carry them, and how, is the engine's choice.  A      *)
(* state is a word and the case it is written in.                          *)
(***************************************************************************)
EXTENDS EngineText, Selection

State(word, upper) == [word |-> word, upper |-> upper]

(* External: the queries, and the record of one. *)
Queries == [id : STRING, state : [word : STRING, upper : BOOLEAN], user : STRING,
            userIn : {"sessionUser", "session", "both", "nowhere"}, created : Int,
            timeForm : TimeForms, offset : Int, elapsed : Nat]

BasicInfo(q) ==
    [queryId     |-> q.id,
     state       |-> q.state,
     sessionUser |-> IF q.userIn \in {"sessionUser", "both"} THEN q.user ELSE "",
     session     |-> IF q.userIn \in {"session", "both"} THEN Some(q.user) ELSE None,
     createTime  |-> WriteTime(q.created, q.timeForm, q.offset),
     elapsed     |-> Write(q.elapsed, DurationUnits, "succinct")]

User(b) == CASE b.sessionUser # ""                      -> b.sessionUser
             [] b.sessionUser = "" /\ b.session # None -> b.session[1]
             [] OTHER                                  -> ""

-----------------------------------------------------------------------------
(* The filter.  A bound of a call is absent, RFC 3339 or not a time; a     *)
(* time without a zone is none.                                            *)

QueryFilters == [state : [word : STRING, upper : BOOLEAN], user : STRING,
                 since : TimeTexts, until : TimeTexts]

NoTime == TimeText("absent", 0, 0)

BadBound(text) == text.form \notin {"absent", "zoned"}

ValidFilter(in) == ~ BadBound(in.since) /\ ~ BadBound(in.until)

BuildFilter(in) == [state |-> in.state, user |-> in.user,
                    since |-> ParseEngineTime(in.since),
                    until |-> ParseEngineTime(in.until)]

EqualFold(s, t) == s.word = t.word

(* Both bounds belong to the range. *)
Within(t, f) == /\ f.since # None => f.since[1] <= t
                /\ f.until # None => t <= f.until[1]

(* A record that cannot be placed in time is not excluded. *)
TimeMatches(f, text) ==
    ParseEngineTime(text) # None => Within(ParseEngineTime(text)[1], f)

Matches(f, b) == /\ f.state.word # "" => EqualFold(f.state, b.state)
                 /\ f.user # "" => f.user = User(b)
                 /\ TimeMatches(f, b.createTime)

Item(b) == [queryId |-> b.queryId, state |-> b.state, user |-> User(b),
            createTime |-> b.createTime, elapsed |-> Millis(b.elapsed)]

QueryListFromLive(records, f) ==
    LET chosen == Selected(records, {i \in DOMAIN records : Matches(f, records[i])})
    IN  [i \in DOMAIN chosen |-> Item(chosen[i])]

-----------------------------------------------------------------------------
(* The reference: what a caller who knows the queries themselves means.    *)

Instant(bound) == bound.wall - bound.offset

InRange(q, in) == /\ in.since.form = "zoned" => Instant(in.since) <= q.created
                  /\ in.until.form = "zoned" => q.created <= Instant(in.until)

KnownUser(q) == IF q.userIn = "nowhere" THEN "" ELSE q.user

Wanted(q, in) == /\ in.state.word \in {"", q.state.word}
                 /\ in.user \in {"", KnownUser(q)}
                 /\ q.timeForm \in {"zoned", "plain"} => InRange(q, in)

=============================================================================
