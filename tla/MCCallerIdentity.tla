--------------------------- MODULE MCCallerIdentity ---------------------------
(* A server over every transport and edge, engines of every strategy, and  *)
(* callers with tokens that verify, expire, name nobody or do not verify.  *)
EXTENDS CallerIdentity

Engine(id, mode, scheme, user) ==
    [id |-> id, endpoint |-> "https", dialect |-> "trino", mode |-> mode, scheme |-> scheme,
     user |-> user, credentialRef |-> "r1", passwordRef |-> "r1", history |-> "off"]

NoHTTP == [set |-> FALSE, port |-> 0, cert |-> "", key |-> "", edge |-> "none",
           publicKey |-> "", origins |-> {}]

HTTPServer == [NoHTTP EXCEPT !.set = TRUE, !.port = 8080]

MCRawConfigs ==
    [mode : {"enterprise"}, transport : {"http"},
     http : {HTTPServer, [HTTPServer EXCEPT !.edge = "jwt_rs256", !.publicKey = "r1",
                                            !.origins = {"https://a"}]},
     engines : {<<Engine("p", "passthrough", "", ""), Engine("s", "static", "bearer", "")>>,
                <<Engine("q", "passthrough", "", "svc"), Engine("b", "static", "basic", "svc")>>}]
    \cup
    [mode : {"local"}, transport : {"stdio"}, http : {NoHTTP},
     engines : {<<Engine("p", "passthrough", "", ""), Engine("b", "static", "basic", "svc")>>}]

Token(value, signed, subject, expires) ==
    [value |-> value, bearer |-> TRUE, signed |-> signed, subject |-> subject, expires |-> expires]

MCHeaders == {Token("t1", TRUE, "alice", 1), Token("t2", TRUE, "bob", 0),
              Token("t3", TRUE, "", 2), Token("t4", FALSE, "alice", 0),
              [None EXCEPT !.value = "b1"]}

=============================================================================
