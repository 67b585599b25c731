------------------------------ MODULE MCStartup ------------------------------
(* Configurations for TLC: every engine under a few servers, every server  *)
(* with a plain engine, and pairs of engines.                              *)
EXTENDS Startup

NoHTTP == [set |-> FALSE, port |-> 0, cert |-> "", key |-> "", edge |-> "none", publicKey |-> "",
           origins |-> {}]

PlainHTTP == [NoHTTP EXCEPT !.set = TRUE, !.port = 8080]

EngineConfigs == [id : {"", "a"}, endpoint : {"", "other", "http", "https"},
                  dialect : {"", "trino", "wxd", "druid"},
                  mode : {"", "static", "passthrough", "kerberos"},
                  scheme : {"", "bearer", "basic", "digest"}, user : {"", "ana"},
                  credentialRef : {"", "r1"}, passwordRef : {"", "r2"},
                  history : {"off", "unnamed", "named"}]

PlainEngine == [id |-> "a", endpoint |-> "https", dialect |-> "", mode |-> "", scheme |-> "",
                user |-> "", credentialRef |-> "", passwordRef |-> "", history |-> "off"]

Modes == {"", "local", "enterprise", "hybrid"}

Servers == [mode : Modes, transport : {"", "stdio", "http", "sse"},
            http : {NoHTTP} \cup [set : {TRUE}, port : {0, 8080}, cert : {"", "r1"},
                                  key : {"", "r2"}, edge : {"none", "", "jwt_rs256"},
                                  publicKey : {"", "r1"}, origins : {{}}]]

ConfigOf(server, engines) == [mode |-> server.mode, transport |-> server.transport,
                            http |-> server.http, engines |-> engines]

OneEngine == {ConfigOf([mode |-> mode, transport |-> "", http |-> PlainHTTP], <<e>>) :
                 mode \in {"local", "enterprise"}, e \in EngineConfigs}

OneServer == {ConfigOf(server, <<PlainEngine>>) : server \in Servers}

Pairs == {ConfigOf([mode |-> "local", transport |-> "", http |-> NoHTTP], engines) :
             engines \in {<<>>} \cup
                 [1 .. 2 -> {[PlainEngine EXCEPT !.id = id, !.credentialRef = ref] :
                                id \in {"a", "b"}, ref \in {"", "r1"}}]}

MCRawConfigs == OneEngine \cup OneServer \cup Pairs

=============================================================================
