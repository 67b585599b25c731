---------------------------- MODULE CallerIdentity ----------------------------
(***************************************************************************)
(* As whom the server speaks to its engines: requests of several callers   *)
(* pass the edge (internal/server: origin guard, bearer verification), get *)
(* their caller into the context (internal/tools, callerMiddleware), and   *)
(* every request of their statement carries the headers made from the      *)
(* credential that was resolved once for it (internal/credential,          *)
(* internal/presto).  The server is the one that Startup built.            *)
(*                                                                         *)
(* A call is one statement: a POST, then any number of GETs, perhaps a     *)
(* DELETE.  Time passes and secrets are rotated between any two steps.     *)
(***************************************************************************)
EXTENDS Startup

CONSTANTS Callers,  \* clients of the server, each makes one call
          Headers,  \* the Authorization headers they may send
          MaxTime   \* bound: the clock stops here

(* A header that is a token names a subject and an expiry, 0 for none. *)
ASSUME HeadersAssumption == \A h \in Headers : h.expires \in Nat

VARIABLES now,  \* the clock
          call  \* every caller's call

vars == <<bootVars, now, call>>

None == [value |-> "", bearer |-> FALSE, signed |-> FALSE, subject |-> "", expires |-> 0]

NoCall == [at |-> "away", header |-> None, user |-> "", engine |-> 0, cred |-> [kind |-> "none"],
           sent |-> {}]

CallInit == /\ Init
            /\ now = 1
            /\ call = [c \in Callers |-> NoCall]

-----------------------------------------------------------------------------
(* The edge. *)

HTTP == cfg.transport = "http"

EdgeAuth == HTTP /\ cfg.http.edge = "jwt_rs256"

(* originGuard: no allowlist, no Origin, or one of the list. *)
OriginAllowed(origin) == HTTP /\ cfg.http.origins # {} => origin \in cfg.http.origins \cup {""}

VerifiedUnsigned(h) == /\ h.bearer
                       /\ h.expires # 0 => now <= h.expires

(* The bearer scheme and the refusal of bad tokens are the SDK's wrapper;  *)
(* signature and expiry are verifyRS256.                                   *)
VerifyRS256(h) == /\ h.bearer
                  /\ h.signed
                  /\ h.expires # 0 => now <= h.expires

Admitted(h, origin) == /\ OriginAllowed(origin)
                       /\ EdgeAuth => VerifyRS256(h)

(* callerMiddleware: only a verified token names a user. *)
VerifiedUser(h) == IF EdgeAuth THEN h.subject ELSE ""

(* stdio has no headers, so the context carries no caller. *)
Admit(c, h, origin) ==
    /\ boot = "serving"
    /\ call[c].at = "away"
    /\ Admitted(h, origin)
    /\ call' = [call EXCEPT ![c].at = "admitted",
                           ![c].header = IF HTTP THEN h ELSE @,
                           ![c].user = IF HTTP THEN VerifiedUser(h) ELSE @]
    /\ UNCHANGED <<bootVars, now>>

(* The SDK's wrapper may refuse more than the verifier does, for example a *)
(* token without an expiry or a session that is another user's.            *)
Refuse(c, h, origin) ==
    /\ boot = "serving"
    /\ call[c].at = "away"
    /\ EdgeAuth \/ ~ Admitted(h, origin)
    /\ call' = [call EXCEPT ![c].at = "refused"]
    /\ UNCHANGED <<bootVars, now>>

-----------------------------------------------------------------------------
(* Credentials and headers. *)

(* Passthrough forwards the caller's header, and the user that the edge    *)
(* verified or else the configured one.                                    *)
ResolveUnchecked(p, c) ==
    IF p.kind = "static" THEN p
    ELSE [kind |-> "caller", user |-> Or(call[c].user, p.user), header |-> call[c].header.value]

Resolve(p, c) ==
    CASE p.kind = "static" -> p
      [] p.kind # "static" /\ call[c].header.value = "" -> [kind |-> "none"]
      [] p.kind # "static" /\ call[c].header.value # "" ->
            [kind |-> "caller", user |-> Or(call[c].user, p.user),
             header |-> call[c].header.value]

Authorization(cred) ==
    IF cred.kind = "caller" THEN <<"caller", cred.header>>
    ELSE CASE cred.password # ""                     -> <<"basic", cred.user, cred.password>>
           [] cred.password = "" /\ cred.token # "" -> <<"bearer", cred.token>>
           [] OTHER                                 -> <<"none">>

ApplyExceptCancel(method, cred) ==
    [method |-> method, user |-> cred.user,
     auth |-> IF method = "DELETE" THEN <<"none">> ELSE Authorization(cred)]

Apply(method, cred) == [method |-> method, user |-> cred.user, auth |-> Authorization(cred)]

Update(c, fields) == call' = [call EXCEPT ![c] = fields]

(* The handler runs collect, which resolves before it sends. *)
Submit(c, i) ==
    /\ call[c].at = "admitted"
    /\ LET cred == Resolve(built[i].provider, c)
       IN  Update(c, IF cred.kind = "none" THEN [call[c] EXCEPT !.at = "failed", !.engine = i]
                     ELSE [call[c] EXCEPT !.at = "polling", !.engine = i, !.cred = cred,
                                          !.sent = {Apply("POST", cred)}])
    /\ UNCHANGED <<bootVars, now>>

Poll(c) == /\ call[c].at = "polling"
           /\ Update(c, [call[c] EXCEPT !.sent = @ \cup {Apply("GET", call[c].cred)}])
           /\ UNCHANGED <<bootVars, now>>

CancelStatement(c) ==
    /\ call[c].at = "polling"
    /\ Update(c, [call[c] EXCEPT !.at = "done", !.sent = @ \cup {Apply("DELETE", call[c].cred)}])
    /\ UNCHANGED <<bootVars, now>>

Return(c) == /\ call[c].at = "polling"
             /\ Update(c, [call[c] EXCEPT !.at = "done"])
             /\ UNCHANGED <<bootVars, now>>

-----------------------------------------------------------------------------
(* Time, and the owner of the secrets (external). *)

Tick == /\ boot = "serving"
        /\ now < MaxTime
        /\ now' = now + 1
        /\ UNCHANGED <<bootVars, call>>

Rotate(ref) == /\ boot = "serving"
               /\ \E content \in Contents : secret' = [secret EXCEPT ![ref] = content]
               /\ UNCHANGED <<boot, cfg, built, failure, now, call>>

Start == Next /\ UNCHANGED <<now, call>>

Origins == {"", "https://a", "https://b"}

Step(c) == \/ \E h \in Headers \cup {None}, origin \in Origins : Admit(c, h, origin) \/ Refuse(c, h, origin)
           \/ \E i \in DOMAIN built : Submit(c, i)
           \/ Poll(c)
           \/ CancelStatement(c)
           \/ Return(c)

CallNext == \/ Start
            \/ \E c \in Callers : Step(c)
            \/ Tick
            \/ \E ref \in Refs : Rotate(ref)

CallSpec == CallInit /\ [][CallNext]_vars

-----------------------------------------------------------------------------
(* Properties. *)

Calls == {call[c] : c \in Callers}

Provider(k) == built[k.engine].provider

(* A passthrough engine hears the caller itself, on every request of the   *)
(* statement and never without a credential; a static engine never hears a *)
(* caller's credential (credential.go:176-186, dialect.go:51-58).          *)
EngineHearsTheCaller ==
    \A k \in Calls : \A m \in k.sent :
        IF Provider(k).kind = "passthrough"
        THEN k.header.value # "" /\ m.auth = <<"caller", k.header.value>>
        ELSE m.auth[1] # "caller"

(* A user name that reaches an engine is the one configured for it or the  *)
(* subject of a token of this caller that the edge verified                *)
(* (tools.go:86-91, edgeauth.go:76-121).                                   *)
UserIsProven ==
    \A k \in Calls : \A m \in k.sent :
        m.user \in {"", Provider(k).user}
            \cup (IF EdgeAuth /\ k.header.signed THEN {k.header.subject} ELSE {})

(* The engine sees one identity per statement: POST, GETs and the DELETE   *)
(* carry the same, whatever expires or is rotated meanwhile                *)
(* (client.go:139-149, 186, readquery.go:286).                             *)
OneIdentityPerStatement ==
    \A k \in Calls : \A m, n \in k.sent : m.user = n.user /\ m.auth = n.auth

ConfiguredRef(k) == built[k.engine].config.credentialRef

(* credential.go:4, config.go:5, README.md:36 and 127: credentials are     *)
(* "resolved at connection time".                                          *)
ResolvedAtConnectionTime ==
    [][\A c \in Callers :
          LET k == call'[c]
          IN  (call[c].at = "admitted" /\ k.at = "polling")
                 => (k.cred.kind = "static" /\ k.cred.token # ""
                        => k.cred.token = secret[ConfiguredRef(k)])]_vars

=============================================================================
