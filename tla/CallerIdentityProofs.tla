-------------------------- MODULE CallerIdentityProofs --------------------------
(***************************************************************************)
(* What validation settles for every configuration: what it accepts can be *)
(* built, and what is built is what was configured.  Then as whom the      *)
(* server speaks to its engines, for any callers, headers, secrets and     *)
(* configurations.                                                         *)
(***************************************************************************)
EXTENDS CallerIdentity, SequenceTheorems, TLAPS

-----------------------------------------------------------------------------
(* Startup. *)

(* The account name that applyDefaults leaves in a static engine. *)
HasAccount(e) == e.mode = "static" /\ e.scheme # "basic" => e.user # ""

Stages == /\ boot \in {"parsed", "defaulted", "building", "serving", "failed"}
          /\ cfg \in Config
          /\ secret \in [Refs -> Contents]
          /\ boot # "parsed" => \A i \in DOMAIN cfg.engines : HasAccount(cfg.engines[i])
          /\ boot \in {"building", "serving"} \/ built # <<>> => Valid(cfg)
          /\ boot \in {"parsed", "defaulted"} => built = <<>>
          /\ boot = "serving" => Len(built) = Len(cfg.engines)

Providers == [kind : {"static", "passthrough"}, user : Texts, token : Contents \cup {""},
              password : Contents \cup {""}, error : {""}]

BuiltEngine == [config : EngineConfig, provider : Providers]

(* A built engine has its own configuration, and a password comes from the *)
(* basic scheme only.                                                      *)
BuiltInOrder == /\ built \in Seq(BuiltEngine)
                /\ Len(built) <= Len(cfg.engines)
                /\ \A i \in 1 .. Len(built) :
                      /\ built[i].config = cfg.engines[i]
                      /\ built[i].provider.password # "" => cfg.engines[i].scheme = "basic"

StartupInv == Stages /\ BuiltInOrder /\ AcceptedConfigBuilds

-----------------------------------------------------------------------------
(* Defaults. *)

(* The texts that the defaults fill in. *)
LEMMA DefaultTexts ==
    /\ {"local", "enterprise", "stdio", "http", "static", "passthrough", "presto", "bearer",
        "presto-mcp"} \subseteq Texts
    /\ \A value, default \in Texts : Or(value, default) \in Texts
BY DEF Texts, Or

(* The defaults keep an engine one, and leave a bearer account a name.     *)
LEMMA DefaultEngineType ==
    ASSUME NEW e \in EngineConfig, NEW auth \in Texts
    PROVE  DefaultEngine(e, auth) \in EngineConfig /\ HasAccount(DefaultEngine(e, auth))
<1> DEFINE f == [e EXCEPT !.dialect = Or(@, "presto"),
                          !.mode = Or(@, auth),
                          !.scheme = Or(@, "bearer")]
           g == [f EXCEPT !.user = Or(@, "presto-mcp")]
<1>1. f \in EngineConfig
  <2>1. /\ Or(e.dialect, "presto") \in Texts
        /\ Or(e.mode, auth) \in Texts
        /\ Or(e.scheme, "bearer") \in Texts
    BY DefaultTexts DEF EngineConfig
  <2> QED
    BY <2>1 DEF EngineConfig
<1> HIDE DEF f
<1>2. g \in EngineConfig /\ g.user # ""
  <2>1. Or(f.user, "presto-mcp") \in Texts /\ Or(f.user, "presto-mcp") # ""
    BY <1>1, DefaultTexts DEF EngineConfig, Or
  <2>2. g.user = Or(f.user, "presto-mcp")
    BY <1>1 DEF EngineConfig
  <2> QED
    BY <1>1, <2>1, <2>2 DEF EngineConfig
<1> HIDE DEF g
<1>3. DefaultEngine(e, auth) = IF f.mode = "static" /\ f.scheme # "basic" THEN g ELSE f
  BY DEF DefaultEngine, f, g
<1> QED
  BY <1>1, <1>2, <1>3 DEF HasAccount

(* The same of a whole configuration. *)
LEMMA DefaultedType ==
    ASSUME NEW c \in Config
    PROVE  /\ Defaulted(c) \in Config
           /\ \A i \in DOMAIN Defaulted(c).engines : HasAccount(Defaulted(c).engines[i])
<1> DEFINE enterprise == c.mode = "enterprise"
           auth == IF enterprise THEN "passthrough" ELSE "static"
           mode == Or(c.mode, "local")
           transport == Or(c.transport, IF enterprise THEN "http" ELSE "stdio")
           engines == [i \in DOMAIN c.engines |-> DefaultEngine(c.engines[i], auth)]
<1>1. c.engines \in Seq(EngineConfig) /\ c.mode \in Texts /\ c.transport \in Texts
  BY DEF Config
<1>2. auth \in Texts /\ mode \in Texts /\ transport \in Texts
  BY <1>1, DefaultTexts
<1>3. Defaulted(c) = [c EXCEPT !.mode = mode, !.transport = transport, !.engines = engines]
  BY DEF Defaulted
<1> HIDE DEF auth, mode, transport
<1>4. \A i \in DOMAIN c.engines : DefaultEngine(c.engines[i], auth) \in EngineConfig
                                  /\ HasAccount(DefaultEngine(c.engines[i], auth))
  <2>1. \A i \in DOMAIN c.engines : c.engines[i] \in EngineConfig
    BY <1>1
  <2> QED
    BY <1>2, <2>1, DefaultEngineType
<1>5. engines \in Seq(EngineConfig)
  <2>1. engines \in [1 .. Len(c.engines) -> EngineConfig]
    BY <1>1, <1>4, LenProperties
  <2> QED
    BY <1>1, <2>1, SeqDef, LenProperties
<1>6. \A i \in DOMAIN engines : HasAccount(engines[i])
  BY <1>4
<1> HIDE DEF engines
<1> QED
  BY <1>2, <1>3, <1>5, <1>6 DEF Config

(* The process starts with a parsed configuration and nothing built.       *)
LEMMA StartupInit == Init => StartupInv
<1> SUFFICES ASSUME Init PROVE StartupInv
  OBVIOUS
<1>1. cfg \in Config
  BY RawConfigsAssumption DEF Init
<1>2. built \in Seq(BuiltEngine) /\ Len(built) = 0 /\ Len(cfg.engines) \in Nat
  <2>1. cfg.engines \in Seq(EngineConfig) /\ <<>> \in Seq(BuiltEngine)
    BY <1>1 DEF Config
  <2> QED
    BY <2>1, EmptySeq, LenProperties DEF Init
<1>3. \A i \in 1 .. Len(built) : FALSE
  BY <1>2
<1>4. Stages
  BY <1>1 DEF Init, Stages
<1>5. BuiltInOrder
  BY <1>2, <1>3 DEF BuiltInOrder
<1>6. AcceptedConfigBuilds
  BY DEF Init, AcceptedConfigBuilds
<1> QED
  BY <1>4, <1>5, <1>6 DEF StartupInv

-----------------------------------------------------------------------------
(* The registry. *)

(* Of a validated engine the credential factory can only miss a reference, *)
(* and what it returns otherwise is a credential of the engine's scheme.   *)
CredentialFor(p, e) == \/ p.error = "reference"
                       \/ /\ p \in Providers
                          /\ p.error = ""
                          /\ p.password # "" => e.scheme = "basic"

LEMMA ProvidesGives ==
    ASSUME NEW kind \in {"static", "passthrough"}, NEW user \in Texts, NEW e,
           NEW token \in Contents \cup {""}, NEW password \in Contents \cup {""},
           password = "" \/ e.scheme = "basic"
    PROVE  CredentialFor(Provides(kind, user, token, password), e)
<1> DEFINE p == Provides(kind, user, token, password)
<1>1. p \in Providers
  BY DEF Provides, Providers
<1>2. p.error = "" /\ p.password = password
  BY DEF Provides
<1>3. p.password # "" => e.scheme = "basic"
  BY <1>2
<1> QED
  BY <1>1, <1>2, <1>3 DEF CredentialFor

LEMMA ResolvingGives ==
    ASSUME secret \in [Refs -> Contents], NEW ref \in Refs, NEW e, NEW p,
           secret[ref] \in Contents => CredentialFor(p, e)
    PROVE  CredentialFor(Resolving(ref, p), e)
<1>1. CASE secret[ref] = "absent"
  <2>1. Resolving(ref, p).error = "reference"
    BY <1>1 DEF Resolving, Cannot
  <2> QED
    BY <2>1 DEF CredentialFor
<1>2. CASE secret[ref] # "absent"
  BY <1>2 DEF Resolving
<1> QED
  BY <1>1, <1>2

LEMMA FactoryOfValid ==
    ASSUME secret \in [Refs -> Contents], NEW e \in EngineConfig, ValidEngine(e), HasAccount(e)
    PROVE  CredentialFor(DefaultCredentialFactory(e), e)
<1>0. e.user \in Texts /\ e.passwordRef \in Refs \cup {""} /\ e.credentialRef \in Refs \cup {""}
  BY DEF EngineConfig, OptionalRefs
<1>1. CASE e.mode = "static" /\ e.scheme = "basic"
  <2> DEFINE ref == e.passwordRef
             p == Provides("static", e.user, "", secret[ref])
  <2>1. e.user # "" /\ ref \in Refs
    BY <1>0, <1>1 DEF ValidEngine, ValidBasic
  <2>2. DefaultCredentialFactory(e) = Resolving(ref, p)
    BY <1>1, <2>1, ContentsAssumption DEF DefaultCredentialFactory, NewBasic
  <2>3. secret[ref] \in Contents => CredentialFor(p, e)
    BY <1>0, <1>1, ProvidesGives
  <2> QED
    BY <2>1, <2>2, <2>3, ResolvingGives
<1>2. CASE e.mode = "static" /\ e.scheme # "basic"
  <2> DEFINE ref == e.credentialRef
             p == Provides("static", e.user, secret[ref], "")
  <2>1. DefaultCredentialFactory(e) = NewStatic(e.user, ref) /\ e.user # ""
    BY <1>2 DEF DefaultCredentialFactory, ValidEngine, HasAccount
  <2>2. CASE ref = ""
    <3>1. DefaultCredentialFactory(e) = Provides("static", e.user, "", "")
      BY <2>1, <2>2 DEF NewStatic
    <3> QED
      BY <1>0, <3>1, ProvidesGives
  <2>3. CASE ref # ""
    <3>1. DefaultCredentialFactory(e) = Resolving(ref, p)
      BY <2>1, <2>3 DEF NewStatic
    <3>2. secret[ref] \in Contents => CredentialFor(p, e)
      BY <1>0, ProvidesGives
    <3> QED
      BY <1>0, <2>3, <3>1, <3>2, ResolvingGives
  <2> QED
    BY <2>2, <2>3
<1>3. CASE e.mode = "passthrough"
  <2>1. DefaultCredentialFactory(e) = Provides("passthrough", e.user, "", "")
    BY <1>3 DEF DefaultCredentialFactory
  <2> QED
    BY <1>0, <2>1, ProvidesGives
<1> QED
  BY <1>1, <1>2, <1>3 DEF ValidEngine

(* The next engine of a configuration that is being built is a valid one.  *)
LEMMA NextEngineValid ==
    ASSUME StartupInv, boot = "building", More
    PROVE  /\ NextEngine \in EngineConfig
           /\ ValidEngine(NextEngine) /\ HasAccount(NextEngine)
           /\ Len(built) + 1 \in 1 .. Len(cfg.engines)
<1>1. cfg.engines \in Seq(EngineConfig) /\ built \in Seq(BuiltEngine)
  BY DEF StartupInv, Stages, BuiltInOrder, Config
<1>2. Len(built) \in Nat /\ Len(cfg.engines) \in Nat /\ Len(built) + 1 \in 1 .. Len(cfg.engines)
  BY <1>1 DEF More
<1>3. Len(built) + 1 \in DOMAIN cfg.engines
  BY <1>1, <1>2, LenProperties
<1> QED
  BY <1>1, <1>2, <1>3 DEF StartupInv, Stages, Valid, NextEngine

(* What is left to go wrong with a validated engine. *)
LEMMA BuildErrors ==
    ASSUME StartupInv, boot = "building", More
    PROVE  BuildError(NextEngine) \in {"", "reference", "wxd", "history"}
<1> DEFINE e == NextEngine
<1>1. e \in EngineConfig /\ ValidEngine(e) /\ HasAccount(e)
  BY NextEngineValid
<1>2. DefaultCredentialFactory(e).error \in {"", "reference"}
  BY <1>1, FactoryOfValid DEF CredentialFor, StartupInv, Stages
<1>3. DialectError(e) \in {"", "wxd"}
  BY <1>1 DEF ValidEngine, DialectError
<1>4. NoHistory(e) \in {"", "history"}
  BY DEF NoHistory
<1> QED
  BY <1>2, <1>3, <1>4 DEF BuildError, Or

-----------------------------------------------------------------------------
(* One lemma for every kind of step. *)

LEMMA DefaultsInv == ASSUME StartupInv, ApplyDefaults PROVE StartupInv'
<1> USE DEF StartupInv, ApplyDefaults
<1>1. cfg' \in Config /\ \A i \in DOMAIN cfg'.engines : HasAccount(cfg'.engines[i])
  BY DefaultedType DEF Stages
<1>2. built' = <<>> /\ UNCHANGED <<secret, failure>> /\ boot' = "defaulted"
  BY DEF Stages
<1>3. Len(built') = 0 /\ Len(cfg'.engines) \in Nat /\ built' \in Seq(BuiltEngine)
  <2>1. cfg'.engines \in Seq(EngineConfig) /\ <<>> \in Seq(BuiltEngine)
    BY <1>1 DEF Config
  <2> QED
    BY <1>2, <2>1, EmptySeq, LenProperties
<1>4. BuiltInOrder'
  <2>1. \A i \in 1 .. Len(built') : FALSE
    BY <1>3
  <2> QED
    BY <1>3, <2>1 DEF BuiltInOrder
<1>5. AcceptedConfigBuilds'
  BY <1>2 DEF AcceptedConfigBuilds
<1> QED
  BY <1>1, <1>2, <1>4, <1>5 DEF Stages

LEMMA ValidationInv == ASSUME StartupInv, Validate \/ RefuseConfig PROVE StartupInv'
BY DEF StartupInv, Validate, RefuseConfig, Fail, Stages, BuiltInOrder, AcceptedConfigBuilds

LEMMA BuildEngineInv == ASSUME StartupInv, BuildEngine PROVE StartupInv'
<1> USE DEF StartupInv
<1> DEFINE e == NextEngine
           b == [config |-> e, provider |-> DefaultCredentialFactory(e)]
<1>1. /\ e \in EngineConfig /\ ValidEngine(e) /\ HasAccount(e)
      /\ Len(built) + 1 \in 1 .. Len(cfg.engines)
  BY NextEngineValid DEF BuildEngine
<1>2. DefaultCredentialFactory(e).error = ""
  BY DEF BuildEngine, BuildError, Or
<1>3. b \in BuiltEngine /\ (b.provider.password # "" => e.scheme = "basic")
  <2>1. CredentialFor(DefaultCredentialFactory(e), e)
    BY <1>1, FactoryOfValid DEF Stages
  <2> QED
    BY <1>1, <1>2, <2>1 DEF CredentialFor, BuiltEngine
<1> HIDE DEF b
<1>4. /\ built' = Append(built, b)
      /\ UNCHANGED <<boot, cfg, secret, failure>>
  BY DEF BuildEngine, b
<1>5. built \in Seq(BuiltEngine)
  BY DEF BuiltInOrder
<1>6. /\ built' \in Seq(BuiltEngine)
      /\ Len(built') = Len(built) + 1
      /\ built'[Len(built) + 1] = b
      /\ \A i \in 1 .. Len(built) : built'[i] = built[i]
  <2>1. b \in BuiltEngine
    BY <1>3
  <2>2. /\ Append(built, b) \in Seq(BuiltEngine)
        /\ Len(Append(built, b)) = Len(built) + 1
        /\ \A i \in 1 .. Len(built) : Append(built, b)[i] = built[i]
        /\ Append(built, b)[Len(built) + 1] = b
    BY <1>5, <2>1, AppendProperties
  <2> QED
    BY <1>4, <2>2
<1>7. b.config = cfg.engines[Len(built) + 1]
  <2>1. b.config = e
    <3> HIDE DEF e
    <3> QED
      BY DEF b
  <2> QED
    BY <2>1 DEF NextEngine
<1>8. BuiltInOrder'
  <2>1. Len(built) \in Nat
    BY <1>5
  <2>2. Len(built') <= Len(cfg.engines)
    BY <1>1, <1>6, <2>1
  <2>3. ASSUME NEW i \in 1 .. Len(built')
        PROVE  /\ built'[i].config = cfg.engines[i]
               /\ built'[i].provider.password # "" => cfg.engines[i].scheme = "basic"
    <3>1. CASE i \in 1 .. Len(built)
      BY <1>6, <3>1 DEF BuiltInOrder
    <3>2. CASE i = Len(built) + 1
      BY <1>3, <1>6, <1>7, <3>2 DEF NextEngine
    <3>3. i \in 1 .. Len(built) \/ i = Len(built) + 1
      BY <1>6, <2>1
    <3> QED
      BY <3>1, <3>2, <3>3
  <2> QED
    BY <1>4, <1>6, <2>2, <2>3 DEF BuiltInOrder
<1>9. Stages' /\ AcceptedConfigBuilds'
  BY <1>4 DEF BuildEngine, Stages, AcceptedConfigBuilds
<1> QED
  BY <1>8, <1>9

LEMMA RefuseEngineInv == ASSUME StartupInv, RefuseEngine PROVE StartupInv'
<1>1. BuildError(NextEngine) \in {"reference", "wxd", "history"}
  BY BuildErrors DEF RefuseEngine
<1> QED
  BY <1>1 DEF StartupInv, RefuseEngine, Fail, Stages, BuiltInOrder, AcceptedConfigBuilds

LEMMA ServeInv == ASSUME StartupInv, ServeStdio \/ ServeHTTP PROVE StartupInv'
<1>1. Len(built) = Len(cfg.engines)
  <2>1. cfg.engines \in Seq(EngineConfig) /\ built \in Seq(BuiltEngine)
    BY DEF StartupInv, Stages, BuiltInOrder, Config
  <2>2. Len(built) \in Nat /\ Len(cfg.engines) \in Nat
    BY <2>1, LenProperties
  <2>3. Len(built) <= Len(cfg.engines) /\ ~ More
    BY DEF StartupInv, BuiltInOrder, ServeStdio, ServeHTTP, Serve
  <2> QED
    BY <2>2, <2>3 DEF More
<1> QED
  BY <1>1 DEF StartupInv, ServeStdio, ServeHTTP, Serve, Stages, BuiltInOrder, AcceptedConfigBuilds

(* Validation has seen the transport, its port and its edge. *)
LEMMA RefuseTransportInv == ASSUME StartupInv, RefuseTransport PROVE StartupInv'
<1>1. /\ boot' = "failed" /\ UNCHANGED <<cfg, secret, built>>
      /\ failure' \in {"listen", "edge", "tls"}
  BY DEF StartupInv, Stages, RefuseTransport, Fail, Valid, ValidHTTP
<1> QED
  BY <1>1 DEF StartupInv, Stages, RefuseTransport, BuiltInOrder, AcceptedConfigBuilds

LEMMA StartupStep == ASSUME StartupInv, [Next]_bootVars PROVE StartupInv'
<1>1. CASE UNCHANGED bootVars
  BY <1>1 DEF bootVars, StartupInv, Stages, BuiltInOrder, AcceptedConfigBuilds
<1> QED
  BY <1>1, DefaultsInv, ValidationInv, BuildEngineInv, RefuseEngineInv, ServeInv,
     RefuseTransportInv DEF Next

-----------------------------------------------------------------------------
(* The inductive invariant of starting up: validation accepts what the     *)
(* defaults made, and engines are built from it in order.                  *)
THEOREM StartupInvariant == Spec => []StartupInv
BY StartupInit, StartupStep, PTL DEF Spec

(* After validation a start fails for a reference, key material or the     *)
(* address, or for wxd or a history sink (config.go:181-314).              *)
THEOREM AcceptedBuilds == Spec => []AcceptedConfigBuilds
<1>1. StartupInv => AcceptedConfigBuilds
  BY DEF StartupInv
<1> QED
  BY <1>1, StartupInvariant, PTL

(* Every engine built has its place in the configuration. *)
LEMMA Places ==
    ASSUME StartupInv
    PROVE  /\ DOMAIN built = 1 .. Len(built) /\ Len(built) \in Nat
           /\ DOMAIN cfg.engines = 1 .. Len(cfg.engines) /\ Len(cfg.engines) \in Nat
           /\ DOMAIN built \subseteq DOMAIN cfg.engines
           /\ built = <<>> => DOMAIN built = {}
<1>1. built \in Seq(BuiltEngine) /\ cfg.engines \in Seq(EngineConfig)
  BY DEF StartupInv, BuiltInOrder, Stages, Config
<1>2. Len(built) <= Len(cfg.engines)
  BY DEF StartupInv, BuiltInOrder
<1>3. /\ DOMAIN built = 1 .. Len(built) /\ Len(built) \in Nat
      /\ DOMAIN cfg.engines = 1 .. Len(cfg.engines) /\ Len(cfg.engines) \in Nat
  BY <1>1, LenProperties
<1>4. 1 .. Len(built) \subseteq 1 .. Len(cfg.engines)
  BY <1>2, <1>3
<1>5. built = <<>> => Len(built) = 0
  BY <1>1, EmptySeq
<1>6. Len(built) = 0 => 1 .. Len(built) = {}
  OBVIOUS
<1> QED
  BY <1>3, <1>4, <1>5, <1>6

LEMMA PasswordsFromInv == StartupInv => PasswordsOverTLS
<1> SUFFICES ASSUME StartupInv, NEW i \in DOMAIN built, built[i].provider.password # ""
             PROVE  built[i].config.endpoint = "https"
  BY DEF PasswordsOverTLS
<1>1. i \in 1 .. Len(built) /\ i \in DOMAIN cfg.engines /\ built # <<>>
  BY Places
<1>2. cfg.engines[i].scheme = "basic" /\ built[i].config = cfg.engines[i]
  BY <1>1 DEF StartupInv, BuiltInOrder
<1>3. ValidEngine(cfg.engines[i])
  BY <1>1 DEF StartupInv, Stages, Valid
<1> QED
  BY <1>2, <1>3 DEF ValidEngine, ValidBasic

(* A password is only ever held for an https engine (config.go:301-303).   *)
THEOREM PasswordsNeedTLS == Spec => []PasswordsOverTLS
BY PasswordsFromInv, StartupInvariant, PTL

LEMMA ReachableFromInv == StartupInv => EveryEngineReachable
<1> SUFFICES ASSUME StartupInv, boot = "serving", NEW i \in DOMAIN cfg.engines
             PROVE  Named(cfg.engines[i].id) = {i} /\ built[i].config = cfg.engines[i]
  BY DEF EveryEngineReachable
<1>1. built \in Seq(BuiltEngine) /\ cfg.engines \in Seq(EngineConfig)
  BY DEF StartupInv, BuiltInOrder, Stages, Config
<1>2. DOMAIN built = DOMAIN cfg.engines /\ DOMAIN built = 1 .. Len(built) /\ Len(built) \in Nat
  BY <1>1, LenProperties DEF StartupInv, Stages
<1>3. \A j \in DOMAIN built : built[j].config = cfg.engines[j]
  BY <1>2 DEF StartupInv, BuiltInOrder
<1>4. \A j \in DOMAIN cfg.engines : cfg.engines[j].id = cfg.engines[i].id => j = i
  BY DEF StartupInv, Stages, Valid, UniqueIds
<1>5. \A j \in DOMAIN built : built[j].config.id = cfg.engines[i].id <=> j = i
  BY <1>2, <1>3, <1>4
<1> QED
  BY <1>2, <1>3, <1>5 DEF Named

(* Ids are unique, so a lookup by id finds the engine it was built for.    *)
THEOREM EnginesReachable == Spec => []EveryEngineReachable
BY ReachableFromInv, StartupInvariant, PTL

-----------------------------------------------------------------------------
(* Callers. *)

Fields == {"at", "header", "user", "engine", "cred", "sent"}

UserKnown(k) == k.user # "" => /\ EdgeAuth
                               /\ k.header.signed
                               /\ k.user = k.header.subject

(* The credential of a statement is the engine's own or made from the      *)
(* caller's header.                                                        *)
CredentialKnown(k) ==
    /\ k.engine \in DOMAIN built
    /\ Provider(k).kind \in {"static", "passthrough"}
    /\ Provider(k).kind = "static" => k.cred = Provider(k)
    /\ Provider(k).kind = "passthrough" =>
          /\ k.header.value # ""
          /\ k.cred = [kind |-> "caller", user |-> Or(k.user, Provider(k).user),
                       header |-> k.header.value]

SentWith(k) == \A m \in k.sent : m.user = k.cred.user /\ m.auth = Authorization(k.cred)

CallGood(k) == /\ DOMAIN k = Fields
               /\ k.at # "away" => boot = "serving"
               /\ k.at = "away" => k.user = ""
               /\ k.at \in {"away", "admitted"} => k.sent = {}
               /\ UserKnown(k)
               /\ k.at = "polling" \/ k.sent # {} => CredentialKnown(k)
               /\ SentWith(k)

CallsGood == /\ call = [c \in Callers |-> call[c]]
             /\ \A c \in Callers : CallGood(call[c])

IdentityInv == StartupInv /\ CallsGood

-----------------------------------------------------------------------------
(* Nobody has called before the server started. *)
LEMMA IdentityInit == CallInit => IdentityInv
<1> SUFFICES ASSUME CallInit PROVE IdentityInv
  OBVIOUS
<1>1. StartupInv
  BY StartupInit DEF CallInit
<1>2. call = [c \in Callers |-> NoCall]
  BY DEF CallInit
<1>3. CallGood(NoCall)
  BY DEF NoCall, CallGood, Fields, UserKnown, SentWith
<1> QED
  BY <1>1, <1>2, <1>3 DEF IdentityInv, CallsGood

(* A server that serves has finished starting. *)
LEMMA StartedOnce == Next => boot # "serving"
BY DEF Next, ApplyDefaults, Validate, RefuseConfig, BuildEngine, RefuseEngine, ServeStdio,
       ServeHTTP, Serve, RefuseTransport

(* Starting happens before the first call. *)
LEMMA StartInv == ASSUME IdentityInv, Start PROVE IdentityInv'
<1>1. StartupInv'
  BY StartupStep DEF IdentityInv, Start
<1>2. ASSUME NEW c \in Callers PROVE CallGood(call[c])'
  <2>1. call[c].at = "away" /\ CallGood(call[c]) /\ call' = call
    BY StartedOnce DEF Start, IdentityInv, CallsGood, CallGood
  <2> QED
    BY <2>1 DEF CallGood, UserKnown, SentWith
<1> QED
  BY <1>1, <1>2 DEF IdentityInv, CallsGood, Start

(* Neither time nor the owner of the secrets touches what was built or the *)
(* credential that a statement holds.                                      *)
LEMMA WorldInv ==
    ASSUME IdentityInv, Tick \/ (\E ref \in Refs : Rotate(ref)) \/ UNCHANGED vars
    PROVE  IdentityInv'
<1>1. /\ UNCHANGED <<boot, cfg, built, failure, call>>
      /\ secret' \in [Refs -> Contents]
  BY DEF Tick, Rotate, vars, bootVars, IdentityInv, StartupInv, Stages
<1>2. StartupInv'
  BY <1>1 DEF IdentityInv, StartupInv, Stages, BuiltInOrder, AcceptedConfigBuilds
<1>3. ASSUME NEW c \in Callers PROVE CallGood(call[c])'
  <2>1. CallGood(call[c])
    BY DEF IdentityInv, CallsGood
  <2> QED
    BY <1>1, <2>1 DEF CallGood, UserKnown, CredentialKnown, SentWith, Provider, EdgeAuth, HTTP
<1> QED
  BY <1>1, <1>2, <1>3 DEF IdentityInv, CallsGood

-----------------------------------------------------------------------------
(* A caller's step changes that caller's call only, so it is enough that   *)
(* the new call is good.                                                   *)
LEMMA OneCallInv ==
    ASSUME IdentityInv, NEW c \in Callers, NEW k, UNCHANGED bootVars,
           call' = [call EXCEPT ![c] = k], CallGood(k)
    PROVE  IdentityInv'
<1>1. StartupInv'
  BY StartupStep DEF IdentityInv
<1>2. call' = [d \in Callers |-> IF d = c THEN k ELSE call[d]]
  BY DEF IdentityInv, CallsGood
<1>3. ASSUME NEW d \in Callers, NEW j, CallGood(j) PROVE CallGood(j)'
  BY <1>3 DEF CallGood, UserKnown, CredentialKnown, SentWith, Provider, EdgeAuth, HTTP, bootVars
<1>4. ASSUME NEW d \in Callers PROVE CallGood(call[d])'
  <2>1. CallGood(call[d])
    BY DEF IdentityInv, CallsGood
  <2> QED
    BY <1>2, <1>3, <2>1
<1> QED
  BY <1>1, <1>2, <1>4 DEF IdentityInv, CallsGood

(* A call is replaced field by field. *)
Looks(n, at, header, user, engine, cred, sent) ==
    /\ DOMAIN n = Fields
    /\ n.at = at /\ n.header = header /\ n.user = user
    /\ n.engine = engine /\ n.cred = cred /\ n.sent = sent

LEMMA Replaced ==
    ASSUME NEW k, DOMAIN k = Fields, NEW at, NEW header, NEW user, NEW engine, NEW cred, NEW sent
    PROVE  /\ Looks([k EXCEPT !.at = at], at, k.header, k.user, k.engine, k.cred, k.sent)
           /\ Looks([k EXCEPT !.at = at, !.header = header, !.user = user],
                    at, header, user, k.engine, k.cred, k.sent)
           /\ Looks([k EXCEPT !.at = at, !.engine = engine],
                    at, k.header, k.user, engine, k.cred, k.sent)
           /\ Looks([k EXCEPT !.at = at, !.engine = engine, !.cred = cred, !.sent = sent],
                    at, k.header, k.user, engine, cred, sent)
           /\ Looks([k EXCEPT !.sent = sent], k.at, k.header, k.user, k.engine, k.cred, sent)
           /\ Looks([k EXCEPT !.at = at, !.sent = sent],
                    at, k.header, k.user, k.engine, k.cred, sent)
BY DEF Fields, Looks

(* What is left to show of the call that replaces it. *)
LEMMA MadeGood ==
    ASSUME NEW at, NEW header, NEW user, NEW engine, NEW cred, NEW sent, NEW n,
           Looks(n, at, header, user, engine, cred, sent),
           at # "away" /\ boot = "serving",
           at = "admitted" => sent = {},
           UserKnown(n),
           at = "polling" \/ sent # {} => CredentialKnown(n),
           \A m \in sent : m.user = cred.user /\ m.auth = Authorization(cred)
    PROVE  CallGood(n)
BY DEF CallGood, Looks, SentWith

(* One lemma for every action of a caller's call. *)
LEMMA AdmitInv ==
    ASSUME IdentityInv, NEW c \in Callers, NEW h, NEW origin, Admit(c, h, origin)
    PROVE  IdentityInv'
<1> DEFINE k == call[c]
           header == IF HTTP THEN h ELSE k.header
           user == IF HTTP THEN VerifiedUser(h) ELSE k.user
           n == [k EXCEPT !.at = "admitted", !.header = header, !.user = user]
<1>1. CallGood(k) /\ k.at = "away" /\ boot = "serving" /\ UNCHANGED bootVars
  BY DEF Admit, IdentityInv, CallsGood
<1>2. call' = [call EXCEPT ![c] = n]
  BY DEF Admit, IdentityInv, CallsGood
<1>3. Looks(n, "admitted", header, user, k.engine, k.cred, k.sent)
  BY <1>1, Replaced DEF CallGood
<1> HIDE DEF n
<1>4. CallGood(n)
  <2>1. k.user = "" /\ k.sent = {}
    BY <1>1 DEF CallGood
  <2>2. EdgeAuth => HTTP /\ h.signed
    BY DEF Admit, Admitted, VerifyRS256, EdgeAuth
  <2>3. UserKnown(n)
    BY <1>3, <2>1, <2>2 DEF UserKnown, VerifiedUser, Looks
  <2> HIDE DEF header, user
  <2> QED
    BY <1>1, <1>3, <2>1, <2>3, MadeGood
<1> QED
  BY <1>1, <1>2, <1>4, OneCallInv

LEMMA RefuseInv ==
    ASSUME IdentityInv, NEW c \in Callers, NEW h, NEW origin, Refuse(c, h, origin)
    PROVE  IdentityInv'
<1> DEFINE k == call[c]
           n == [k EXCEPT !.at = "refused"]
<1>1. CallGood(k) /\ k.at = "away" /\ boot = "serving" /\ UNCHANGED bootVars
  BY DEF Refuse, IdentityInv, CallsGood
<1>2. call' = [call EXCEPT ![c] = n]
  BY DEF Refuse, IdentityInv, CallsGood
<1>3. Looks(n, "refused", k.header, k.user, k.engine, k.cred, k.sent)
  BY <1>1, Replaced DEF CallGood
<1> HIDE DEF n
<1>4. CallGood(n)
  <2>1. k.user = "" /\ k.sent = {}
    BY <1>1 DEF CallGood
  <2>2. UserKnown(n)
    BY <1>3, <2>1 DEF UserKnown, Looks
  <2> QED
    BY <1>1, <1>3, <2>1, <2>2, MadeGood
<1> QED
  BY <1>1, <1>2, <1>4, OneCallInv

(* A request built from the credential says what the credential says.      *)
LEMMA AppliedSays ==
    ASSUME NEW method, NEW cred
    PROVE  /\ Apply(method, cred).user = cred.user
           /\ Apply(method, cred).auth = Authorization(cred)
BY DEF Apply


LEMMA SubmitInv ==
    ASSUME IdentityInv, NEW c \in Callers, NEW i \in DOMAIN built, Submit(c, i)
    PROVE  IdentityInv'
<1> DEFINE k == call[c]
           p == built[i].provider
           cred == Resolve(p, c)
           sent == {Apply("POST", cred)}
<1>1. CallGood(k) /\ k.at = "admitted" /\ UNCHANGED bootVars
  BY DEF Submit, IdentityInv, CallsGood
<1>2. k.sent = {} /\ boot = "serving" /\ DOMAIN k = Fields /\ UserKnown(k)
  BY <1>1 DEF CallGood
<1>3. CASE cred.kind = "none"
  <2> DEFINE n == [k EXCEPT !.at = "failed", !.engine = i]
  <2>1. call' = [call EXCEPT ![c] = n]
    BY <1>3 DEF Submit, Update
  <2>2. Looks(n, "failed", k.header, k.user, i, k.cred, k.sent)
    BY <1>2, Replaced
  <2> HIDE DEF n
  <2>3. UserKnown(n)
    BY <1>2, <2>2 DEF UserKnown, Looks
  <2>4. CallGood(n)
    BY <1>2, <2>2, <2>3, MadeGood
  <2> QED
    BY <1>1, <2>1, <2>4, OneCallInv
<1>4. CASE cred.kind # "none"
  <2> DEFINE n == [k EXCEPT !.at = "polling", !.engine = i, !.cred = cred, !.sent = sent]
  <2>1. call' = [call EXCEPT ![c] = n]
    BY <1>4 DEF Submit, Update
  <2>2. Looks(n, "polling", k.header, k.user, i, cred, sent)
    BY <1>2, Replaced
  <2> HIDE DEF n
  <2>3. UserKnown(n)
    BY <1>2, <2>2 DEF UserKnown, Looks
  <2>4. p.kind \in {"static", "passthrough"}
    <3>1. built \in Seq(BuiltEngine)
      BY DEF IdentityInv, StartupInv, BuiltInOrder
    <3>2. built[i] \in BuiltEngine
      BY <3>1
    <3> QED
      BY <3>2 DEF BuiltEngine, Providers
  <2>5. p.kind = "static" => cred = p
    BY DEF Resolve
  <2>6. p.kind = "passthrough" => /\ k.header.value # ""
                                  /\ cred = [kind |-> "caller", user |-> Or(k.user, p.user),
                                             header |-> k.header.value]
    BY <1>4 DEF Resolve
  <2>7. Provider(n) = p /\ n.engine = i /\ n.cred = cred /\ n.header = k.header /\ n.user = k.user
    BY <2>2 DEF Provider, Looks
  <2>8. \A m \in sent : m.user = cred.user /\ m.auth = Authorization(cred)
    BY AppliedSays
  <2> HIDE DEF p, cred, sent
  <2>9. CredentialKnown(n)
    BY <2>4, <2>5, <2>6, <2>7 DEF CredentialKnown
  <2>10. CallGood(n)
    BY <1>2, <2>2, <2>3, <2>8, <2>9, MadeGood
  <2> QED
    BY <1>1, <2>1, <2>10, OneCallInv
<1> QED
  BY <1>3, <1>4

(* The later requests of a statement are made from the same credential.    *)
LEMMA RequestInv ==
    ASSUME IdentityInv, NEW c \in Callers, Poll(c) \/ CancelStatement(c) \/ Return(c)
    PROVE  IdentityInv'
<1> DEFINE k == call[c]
<1>1. CallGood(k) /\ k.at = "polling" /\ UNCHANGED bootVars
  BY DEF Poll, CancelStatement, Return, IdentityInv, CallsGood
<1>2. /\ DOMAIN k = Fields /\ UserKnown(k) /\ boot = "serving"
      /\ CredentialKnown(k) /\ SentWith(k)
  BY <1>1 DEF CallGood
<1>3. ASSUME NEW n, NEW at \in {"polling", "done"}, NEW sent, call' = [call EXCEPT ![c] = n],
             Looks(n, at, k.header, k.user, k.engine, k.cred, sent),
             \A m \in sent : m \in k.sent \/ \E method : m = Apply(method, k.cred)
      PROVE  IdentityInv'
  <2>1. UserKnown(n)
    BY <1>2, <1>3 DEF UserKnown, Looks
  <2>2. CredentialKnown(n)
    BY <1>2, <1>3 DEF CredentialKnown, Provider, Looks
  <2>3. \A m \in sent : m.user = k.cred.user /\ m.auth = Authorization(k.cred)
    BY <1>2, <1>3, AppliedSays DEF SentWith
  <2>4. CallGood(n)
    BY <1>2, <1>3, <2>1, <2>2, <2>3, MadeGood
  <2> QED
    BY <1>1, <1>3, <2>4, OneCallInv
<1>4. CASE Poll(c)
  <2> DEFINE sent == k.sent \cup {Apply("GET", k.cred)}
             n == [k EXCEPT !.sent = sent]
  <2>1. call' = [call EXCEPT ![c] = n]
    BY <1>4 DEF Poll, Update
  <2>2. Looks(n, "polling", k.header, k.user, k.engine, k.cred, sent)
    BY <1>1, <1>2, Replaced
  <2>3. \A m \in sent : m \in k.sent \/ \E method : m = Apply(method, k.cred)
    OBVIOUS
  <2> HIDE DEF n, sent
  <2> QED
    BY <1>3, <2>1, <2>2, <2>3
<1>5. CASE CancelStatement(c)
  <2> DEFINE sent == k.sent \cup {Apply("DELETE", k.cred)}
             n == [k EXCEPT !.at = "done", !.sent = sent]
  <2>1. call' = [call EXCEPT ![c] = n]
    BY <1>5 DEF CancelStatement, Update
  <2>2. Looks(n, "done", k.header, k.user, k.engine, k.cred, sent)
    BY <1>2, Replaced
  <2>3. \A m \in sent : m \in k.sent \/ \E method : m = Apply(method, k.cred)
    OBVIOUS
  <2> HIDE DEF n, sent
  <2> QED
    BY <1>3, <2>1, <2>2, <2>3
<1>6. CASE Return(c)
  <2> DEFINE n == [k EXCEPT !.at = "done"]
  <2>1. call' = [call EXCEPT ![c] = n]
    BY <1>6 DEF Return, Update
  <2>2. Looks(n, "done", k.header, k.user, k.engine, k.cred, k.sent)
    BY <1>2, Replaced
  <2> HIDE DEF n
  <2> QED
    BY <1>3, <2>1, <2>2
<1> QED
  BY <1>4, <1>5, <1>6

-----------------------------------------------------------------------------
(* The inductive invariant of the callers' identities: whatever a          *)
(* statement has sent was made from one credential, which is the engine's  *)
(* own or the caller's.                                                    *)
THEOREM IdentityInvariant == CallSpec => []IdentityInv
<1>1. ASSUME IdentityInv, [CallNext]_vars PROVE IdentityInv'
  BY <1>1, StartInv, WorldInv, AdmitInv, RefuseInv, SubmitInv, RequestInv DEF CallNext, Step
<1> QED
  BY <1>1, IdentityInit, PTL DEF CallSpec

(* What has been sent was sent with a credential that is known.            *)
LEMMA SentKnown ==
    ASSUME IdentityInv, NEW k \in Calls, NEW m \in k.sent
    PROVE  /\ CredentialKnown(k) /\ UserKnown(k)
           /\ m.user = k.cred.user /\ m.auth = Authorization(k.cred)
<1>1. CallGood(k)
  <2>1. PICK c \in Callers : k = call[c]
    BY DEF Calls
  <2>2. CallGood(call[c])
    BY DEF IdentityInv, CallsGood
  <2> QED
    BY <2>1, <2>2
<1>2. k.sent # {}
  OBVIOUS
<1>3. CredentialKnown(k) /\ UserKnown(k) /\ SentWith(k)
  BY <1>1, <1>2 DEF CallGood
<1> QED
  BY <1>3 DEF SentWith

LEMMA OneIdentityFromInv == IdentityInv => OneIdentityPerStatement
BY SentKnown DEF OneIdentityPerStatement

(* The engine sees one identity per statement, whatever expires or is      *)
(* rotated meanwhile (client.go:139-149, 186, readquery.go:286).           *)
THEOREM OneIdentity == CallSpec => []OneIdentityPerStatement
BY OneIdentityFromInv, IdentityInvariant, PTL

LEMMA UserFromInv == IdentityInv => UserIsProven
<1> SUFFICES ASSUME IdentityInv, NEW k \in Calls, NEW m \in k.sent
             PROVE  m.user \in {"", Provider(k).user}
                       \cup (IF EdgeAuth /\ k.header.signed THEN {k.header.subject} ELSE {})
  BY DEF UserIsProven
<1>1. CredentialKnown(k) /\ UserKnown(k) /\ m.user = k.cred.user
  BY SentKnown
<1>2. CASE Provider(k).kind = "static"
  BY <1>1, <1>2 DEF CredentialKnown
<1>3. CASE Provider(k).kind = "passthrough"
  <2> DEFINE made == [kind |-> "caller", user |-> Or(k.user, Provider(k).user),
                      header |-> k.header.value]
  <2>0. k.cred = made /\ made.user = Or(k.user, Provider(k).user)
    BY <1>1, <1>3 DEF CredentialKnown
  <2> HIDE DEF made
  <2>1. m.user = Or(k.user, Provider(k).user)
    BY <1>1, <2>0
  <2> QED
    BY <1>1, <2>1 DEF Or, UserKnown
<1> QED
  BY <1>1, <1>2, <1>3 DEF CredentialKnown

(* A user name that reaches an engine is its own or proven at the edge     *)
(* (tools.go:86-91, edgeauth.go:76-121).                                   *)
THEOREM UserProven == CallSpec => []UserIsProven
BY UserFromInv, IdentityInvariant, PTL

LEMMA HearsFromInv == IdentityInv => EngineHearsTheCaller
<1> SUFFICES ASSUME IdentityInv, NEW k \in Calls, NEW m \in k.sent
             PROVE  IF Provider(k).kind = "passthrough"
                    THEN k.header.value # "" /\ m.auth = <<"caller", k.header.value>>
                    ELSE m.auth[1] # "caller"
  BY DEF EngineHearsTheCaller
<1>1. CredentialKnown(k) /\ m.auth = Authorization(k.cred)
  BY SentKnown
<1>2. CASE Provider(k).kind = "passthrough"
  <2> DEFINE made == [kind |-> "caller", user |-> Or(k.user, Provider(k).user),
                      header |-> k.header.value]
  <2>0. /\ k.cred = made /\ k.header.value # ""
        /\ made.kind = "caller" /\ made.header = k.header.value
    BY <1>1, <1>2 DEF CredentialKnown
  <2> HIDE DEF made
  <2>1. k.header.value # "" /\ k.cred.kind = "caller" /\ k.cred.header = k.header.value
    BY <2>0
  <2> QED
    BY <1>1, <1>2, <2>1 DEF Authorization
<1>3. CASE Provider(k).kind = "static"
  <2>1. k.cred.kind = "static"
    BY <1>1, <1>3 DEF CredentialKnown
  <2>2. Authorization(k.cred) \in {<<"basic", k.cred.user, k.cred.password>>,
                                   <<"bearer", k.cred.token>>, <<"none">>}
    BY <2>1 DEF Authorization
  <2>3. m.auth[1] # "caller"
    BY <1>1, <2>2
  <2> QED
    BY <1>3, <2>3
<1> QED
  BY <1>1, <1>2, <1>3 DEF CredentialKnown

(* A passthrough engine hears the caller on every request of the statement *)
(* and a static one never does (credential.go:176-186, dialect.go:51-58).  *)
THEOREM EngineHears == CallSpec => []EngineHearsTheCaller
BY HearsFromInv, IdentityInvariant, PTL

================================================================================
