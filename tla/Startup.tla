------------------------------- MODULE Startup -------------------------------
(***************************************************************************)
(* From the parsed configuration to the serving process: applyDefaults and *)
(* Validate (internal/config), the registry with one client per engine     *)
(* (internal/registry, internal/credential), and the transport             *)
(* (internal/server).                                                      *)
(*                                                                         *)
(* A configuration is a record; "" is a field that is not set.  Of an      *)
(* endpoint only its scheme counts ("other": no URL of the two schemes     *)
(* with a host), of a reference what it resolves to.                       *)
(***************************************************************************)
EXTENDS Integers, Sequences

CONSTANTS RawConfigs,  \* the documents that may be parsed
          Refs,        \* references to secrets
          Contents     \* what a reference may resolve to, "absent" for an error

ASSUME ContentsAssumption == "absent" \in Contents /\ "" \notin Refs

OptionalRefs == Refs \cup {""}

(* Any text, and among them the ones that applyDefaults fills in. *)
Texts == STRING \cup {"local", "enterprise", "stdio", "http", "static", "passthrough",
                      "presto", "bearer", "presto-mcp"}

EngineConfig == [id : Texts, endpoint : Texts, dialect : Texts, mode : Texts, scheme : Texts,
                 user : Texts, credentialRef : OptionalRefs, passwordRef : OptionalRefs,
                 history : {"off", "unnamed", "named"}]

HTTPConfig == [set : BOOLEAN, port : Int, cert : OptionalRefs, key : OptionalRefs, edge : Texts,
               publicKey : OptionalRefs, origins : SUBSET STRING]

Config == [mode : Texts, transport : Texts, http : HTTPConfig, engines : Seq(EngineConfig)]

(* What the decoder can yield, before anything was validated. *)
ASSUME RawConfigsAssumption == \A c \in RawConfigs : c \in Config

VARIABLES boot,     \* parsed, defaulted, building, serving or failed
          cfg,      \* the configuration
          secret,   \* external: the environment and the files
          built,    \* the registry, in configuration order
          failure   \* why the process did not start

bootVars == <<boot, cfg, secret, built, failure>>

Init == /\ boot = "parsed"
        /\ cfg \in RawConfigs
        /\ secret \in [Refs -> Contents]
        /\ built = <<>>
        /\ failure = ""

Fail(why) == /\ boot' = "failed"
             /\ failure' = why
             /\ UNCHANGED <<cfg, secret, built>>

-----------------------------------------------------------------------------
(* Defaults. *)

Or(value, default) == IF value = "" THEN default ELSE value

(* Mutants (here and below): plausible bugs that the properties must find. *)
DefaultEngineAnyMode(e, auth) ==
    [e EXCEPT !.dialect = Or(@, "presto"),
              !.mode = Or(@, auth),
              !.scheme = Or(@, "bearer"),
              !.user = IF e.mode = "static" /\ e.scheme # "basic"
                       THEN Or(@, "presto-mcp") ELSE @]

(* The account name of the basic scheme is never made up. *)
DefaultEngine(e, auth) ==
    LET f == [e EXCEPT !.dialect = Or(@, "presto"),
                       !.mode = Or(@, auth),
                       !.scheme = Or(@, "bearer")]
    IN  IF f.mode = "static" /\ f.scheme # "basic"
        THEN [f EXCEPT !.user = Or(@, "presto-mcp")] ELSE f

Defaulted(c) ==
    LET enterprise == c.mode = "enterprise"
        auth == IF enterprise THEN "passthrough" ELSE "static"
    IN  [c EXCEPT !.mode = Or(@, "local"),
                  !.transport = Or(@, IF enterprise THEN "http" ELSE "stdio"),
                  !.engines = [i \in DOMAIN @ |-> DefaultEngine(@[i], auth)]]

ApplyDefaults == /\ boot = "parsed"
                 /\ boot' = "defaulted"
                 /\ cfg' = Defaulted(cfg)
                 /\ UNCHANGED <<secret, built, failure>>

-----------------------------------------------------------------------------
(* Validation. *)

ValidHTTP(h) == /\ h.set
                /\ h.port # 0
                /\ (h.cert = "") = (h.key = "")
                /\ h.edge # "none" => h.edge = "jwt_rs256" /\ h.publicKey # ""

BasicWithoutHTTPS(e) == e.user # "" /\ e.passwordRef # ""

ValidBasic(e) == /\ e.user # ""
                 /\ e.passwordRef # ""
                 /\ e.endpoint = "https"

ValidEngine(e) == /\ e.id # ""
                  /\ e.endpoint \in {"http", "https"}
                  /\ e.dialect \in {"presto", "trino", "wxd"}
                  /\ e.mode \in {"static", "passthrough"}
                  /\ e.scheme \in {"bearer", "basic", ""}
                  /\ e.scheme = "basic" => ValidBasic(e)
                  /\ e.history # "unnamed"

DuplicatesAllowed(engines) == engines # <<>>

UniqueIds(engines) == /\ engines # <<>>
                      /\ \A i, j \in DOMAIN engines :
                            engines[i].id = engines[j].id => i = j

Valid(c) == /\ c.mode \in {"local", "enterprise"}
            /\ c.transport \in {"stdio", "http"}
            /\ c.transport = "http" => ValidHTTP(c.http)
            /\ UniqueIds(c.engines)
            /\ \A i \in DOMAIN c.engines : ValidEngine(c.engines[i])

Validate == /\ boot = "defaulted"
            /\ Valid(cfg)
            /\ boot' = "building"
            /\ UNCHANGED <<cfg, secret, built, failure>>

RefuseConfig == /\ boot = "defaulted"
                /\ ~ Valid(cfg)
                /\ Fail("config")

-----------------------------------------------------------------------------
(* The registry: a credential provider and a client for every engine. *)

Provides(kind, user, token, password) ==
    [kind |-> kind, user |-> user, token |-> token, password |-> password, error |-> ""]

Cannot(why) == [kind |-> "none", user |-> "", token |-> "", password |-> "", error |-> why]

(* References are resolved here, once. *)
Resolving(ref, credential) ==
    IF secret[ref] = "absent" THEN Cannot("reference") ELSE credential

NewStatic(user, ref) ==
    CASE user = ""              -> Cannot("user")
      [] user # "" /\ ref = "" -> Provides("static", user, "", "")
      [] user # "" /\ ref # "" -> Resolving(ref, Provides("static", user, secret[ref], ""))

NewBasic(user, ref) ==
    CASE user = ""              -> Cannot("user")
      [] user # "" /\ ref = "" -> Cannot("password")
      [] user # "" /\ ref # "" -> Resolving(ref, Provides("static", user, "", secret[ref]))

DefaultCredentialFactory(e) ==
    CASE e.mode = "static" /\ e.scheme = "basic"          -> NewBasic(e.user, e.passwordRef)
      [] e.mode = "static" /\ e.scheme \in {"bearer", ""} -> NewStatic(e.user, e.credentialRef)
      [] e.mode = "passthrough" -> Provides("passthrough", e.user, "", "")
      [] OTHER                  -> Cannot("auth")

DialectError(e) == CASE e.dialect \in {"presto", "trino"} -> ""
                     [] e.dialect = "wxd"                 -> "wxd"
                     [] OTHER                             -> "dialect"

NoHistory(e) == IF e.history = "off" THEN "" ELSE "history"

BuildError(e) == Or(DefaultCredentialFactory(e).error, Or(DialectError(e), NoHistory(e)))

NextEngine == cfg.engines[Len(built) + 1]

More == Len(built) < Len(cfg.engines)

BuildEngine == /\ boot = "building"
               /\ More
               /\ BuildError(NextEngine) = ""
               /\ built' = Append(built, [config |-> NextEngine,
                                          provider |-> DefaultCredentialFactory(NextEngine)])
               /\ UNCHANGED <<boot, cfg, secret, failure>>

RefuseEngine == /\ boot = "building"
                /\ More
                /\ BuildError(NextEngine) # ""
                /\ Fail(BuildError(NextEngine))

(* The index of the engine an id names: a later one replaces an earlier.   *)
Named(id) == {i \in DOMAIN built : /\ built[i].config.id = id
                                   /\ \A j \in DOMAIN built : j > i => built[j].config.id # id}

-----------------------------------------------------------------------------
(* The transport. *)

Serve(ready) == /\ boot = "building"
                /\ ~ More
                /\ ready
                /\ boot' = "serving"
                /\ UNCHANGED <<cfg, secret, built, failure>>

ServeStdio == Serve(cfg.transport = "stdio")

Readable(ref) == ref = "" \/ secret[ref] # "absent"

HTTPReady(h) == /\ h.set
                /\ h.edge # "none" => h.edge = "jwt_rs256" /\ Readable(h.publicKey)
                /\ h.cert # "" => Readable(h.cert) /\ Readable(h.key)

ServeHTTP == Serve(cfg.transport = "http" /\ HTTPReady(cfg.http))

(* The address is taken, or the key material is missing or is not usable   *)
(* (external: net.Listen, x509, tls).                                      *)
RefuseTransport ==
    /\ boot = "building"
    /\ ~ More
    /\ CASE cfg.transport = "stdio" -> FALSE
         [] cfg.transport = "http"  ->
              IF ~ cfg.http.set THEN Fail("http")
              ELSE \/ Fail("listen")
                   \/ cfg.http.edge = "jwt_rs256" /\ Fail("edge")
                   \/ cfg.http.edge \notin {"none", "jwt_rs256"} /\ Fail("scheme")
                   \/ cfg.http.cert # "" /\ Fail("tls")
         [] OTHER -> Fail("transport")

Next == \/ ApplyDefaults
        \/ Validate \/ RefuseConfig
        \/ BuildEngine \/ RefuseEngine
        \/ ServeStdio \/ ServeHTTP \/ RefuseTransport

Spec == Init /\ [][Next]_bootVars

-----------------------------------------------------------------------------
(* Properties. *)

TypeOK == /\ boot \in {"parsed", "defaulted", "building", "serving", "failed"}
          /\ secret \in [Refs -> Contents]
          /\ Len(built) <= Len(cfg.engines)
          /\ failure = "" <=> boot # "failed"

(* What Validate accepts can be built: the process then fails to start     *)
(* only for what validation cannot see (a reference, key material or the   *)
(* address) or for what it knowingly lets through (wxd, a history sink),   *)
(* never in an "unknown ..." or "requires a user" branch of the registry,  *)
(* the credentials or the transport (config.go:181-314, registry.go:89).   *)
AcceptedConfigBuilds ==
    failure \in {"", "config", "reference", "wxd", "history", "listen", "edge", "tls"}

(* A client that will send a user name and a password talks https          *)
(* (config.go:301-303, registry.go:93).                                    *)
PasswordsOverTLS ==
    \A i \in DOMAIN built : built[i].provider.password # "" =>
        built[i].config.endpoint = "https"

(* When the process serves, every configured engine is reachable by its id *)
(* and has the client built for it (registry.go:37-68, config.go:237-247). *)
EveryEngineReachable ==
    boot = "serving" =>
        \A i \in DOMAIN cfg.engines :
            /\ Named(cfg.engines[i].id) = {i}
            /\ built[i].config = cfg.engines[i]

=============================================================================
