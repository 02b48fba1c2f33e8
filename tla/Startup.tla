------------------------------ MODULE Startup ------------------------------
(***************************************************************************)
(* How a generated application starts: config.LoadDotenv, config.Load,     *)
(* runtime.New with what Load returned, and the parts it is wired from.    *)
(*                                                                         *)
(* A variable of the environment is a text; one that is not mentioned is   *)
(* not set.  What a library makes of a text is a constant.                 *)
(***************************************************************************)
EXTENDS Integers, Sequences, FiniteSets

CONSTANTS
  Apps,          \* what was generated: with sessions, accounts, oauth; which database
  Environments,  \* the environments it may be started in
  Dotenvs,       \* the lines its .env may have: a key and a value, or Malformed
  Malformed,
  IntOf,         \* what Atoi reads
  DurationOf,    \* what ParseDuration reads, in seconds
  SchemeOf,      \* what url.Parse reads: the scheme
  RedisReads,    \* what redis.ParseURL accepts
  AsynqReads,    \* what asynq.ParseRedisURI accepts
  Networks,      \* what gin takes for a trusted proxy
  LongSecrets,   \* the secrets of 32 bytes and more
  Rooted,        \* the paths that start with a slash
  Relative,      \* those that safeRedirectPath accepts
  ApiVersions,   \* what validAPIVersion accepts
  S3Endpoints    \* what minio.New accepts

ASSUME StartupAssumption ==
  /\ \A text \in DOMAIN IntOf : IntOf[text] \in Int
  /\ "" \notin Rooted

VARIABLES
  app,      \* the application
  env,      \* the environment of the process
  lines,    \* the lines of .env it has still to read
  step,     \* how far it is
  cfg,      \* what Load returned
  refused   \* who refused to go on

startVars == <<app, env, lines, step, cfg, refused>>

NoConfig == <<>>

StartInit ==
  /\ app \in Apps
  /\ env \in Environments
  /\ lines \in Dotenvs
  /\ step = "dotenv"
  /\ cfg = NoConfig
  /\ refused = "nobody"

-----------------------------------------------------------------------------
(* LoadDotenv.                                                              *)

Goes(to, by) == step' = to /\ refused' = by

MaySet(key) == key \notin DOMAIN env

ReadsLine ==
  /\ step = "dotenv" /\ lines # <<>>
  /\ lines' = Tail(lines)
  /\ LET line == Head(lines) IN
       IF line = Malformed
       THEN Goes("refused", "dotenv") /\ UNCHANGED env
       ELSE /\ env' = IF MaySet(line.key)
                      THEN [k \in DOMAIN env \cup {line.key} |-> IF k = line.key THEN line.value ELSE env[k]]
                      ELSE env
            /\ UNCHANGED <<step, refused>>
  /\ UNCHANGED <<app, cfg>>

-----------------------------------------------------------------------------
(* Load.                                                                    *)

Spaces == " "

\* os.Getenv, and the value without spaces or what stands for it if there is none.
Getenv(k) == IF k \in DOMAIN env THEN env[k] ELSE ""
Trimmed(k)   == IF Getenv(k) = Spaces THEN "" ELSE Getenv(k)

StringValue(k, default) == IF Trimmed(k) = "" THEN default ELSE Trimmed(k)
Read(k, default, how)   == IF Trimmed(k) = "" THEN default ELSE how[Trimmed(k)]
Unreadable(k, how)      == Trimmed(k) # "" /\ Trimmed(k) \notin DOMAIN how

BoolOf == [true |-> TRUE, yes |-> TRUE, false |-> FALSE, no |-> FALSE]

Bools     == {"RATE_LIMIT_ENABLED", "METRICS_ENABLED", "PPROF_ENABLED", "DOCS_ENABLED",
              "DEVTOOLS_ENABLED", "S3_USE_SSL", "S3_USE_PATH_STYLE"}
Ints      == {"RATE_LIMIT_PER_MINUTE", "RATE_LIMIT_BURST", "MAX_BODY_BYTES", "QUEUE_CONCURRENCY", "MAIL_PORT"}
Durations == {"READ_TIMEOUT", "WRITE_TIMEOUT", "IDLE_TIMEOUT", "SHUTDOWN_TIMEOUT", "S3_PRESIGN_TTL",
              "WHATSAPP_TIMEOUT"}

IllTyped ==
  \/ \E k \in Bools : Unreadable(k, BoolOf)
  \/ \E k \in Ints : Unreadable(k, IntOf)
  \/ \E k \in Durations : Unreadable(k, DurationOf)

Development == StringValue("APP_ENV", "development") = "development"

Provider(name) ==
  {Getenv("OAUTH_" \o name \o s) : s \in {"_CLIENT_ID", "_CLIENT_SECRET", "_REDIRECT_URL"}}

\* What Load returns if validate accepts it, as far as anything depends on it.
Loaded ==
  [development |-> Development,
   database    |-> Getenv("DATABASE_URL"),
   origins     |-> Trimmed("CORS_ALLOWED_ORIGINS"),
   proxies     |-> Trimmed("TRUSTED_PROXY_CIDRS"),
   jwt         |-> Getenv("JWT_SECRET"),
   session     |-> Getenv("SESSION_SECRET"),
   google      |-> Provider("GOOGLE"),
   github      |-> Provider("GITHUB"),
   redirects   |-> {StringValue("OAUTH_SUCCESS_REDIRECT", "/"), StringValue("OAUTH_FAILURE_REDIRECT", "/")},
   cache       |-> StringValue("CACHE_DRIVER", "memory"),
   queue       |-> StringValue("QUEUE_DRIVER", "sync"),
   redis       |-> Getenv("REDIS_URL"),
   workers     |-> Read("QUEUE_CONCURRENCY", 10, IntOf),
   limited     |-> Read("RATE_LIMIT_ENABLED", TRUE, BoolOf),
   perMinute   |-> Read("RATE_LIMIT_PER_MINUTE", 60, IntOf),
   burst       |-> Read("RATE_LIMIT_BURST", 0, IntOf),
   maxBody     |-> Read("MAX_BODY_BYTES", 1048576, IntOf),
   timeouts    |-> {Read("READ_TIMEOUT", 10, DurationOf), Read("WRITE_TIMEOUT", 30, DurationOf),
                    Read("IDLE_TIMEOUT", 60, DurationOf), Read("SHUTDOWN_TIMEOUT", 10, DurationOf)},
   metrics     |-> Read("METRICS_ENABLED", FALSE, BoolOf),
   pprof       |-> Read("PPROF_ENABLED", FALSE, BoolOf),
   docs        |-> Read("DOCS_ENABLED", Development, BoolOf),
   title       |-> Getenv("DOCS_TITLE"),
   docsPath    |-> StringValue("DOCS_PATH", "/docs"),
   specPath    |-> StringValue("DOCS_SPEC_PATH", "/openapi.json"),
   docsLogin   |-> <<Getenv("DOCS_BASIC_AUTH_USERNAME"), Getenv("DOCS_BASIC_AUTH_PASSWORD")>>,
   devtools    |-> Read("DEVTOOLS_ENABLED", Development, BoolOf),
   devPath     |-> StringValue("DEVTOOLS_PATH", "/_ginkit"),
   mail        |-> StringValue("MAIL_DRIVER", "log"),
   encryption  |-> StringValue("MAIL_ENCRYPTION", "starttls"),
   port        |-> Read("MAIL_PORT", 0, IntOf),
   sender      |-> {Getenv("MAIL_HOST"), Getenv("MAIL_FROM_ADDRESS")},
   whatsapp    |-> StringValue("WHATSAPP_DRIVER", "log"),
   cloud       |-> {Trimmed("WHATSAPP_ACCESS_TOKEN"), Trimmed("WHATSAPP_PHONE_NUMBER_ID")},
   version     |-> Getenv("WHATSAPP_API_VERSION"),
   storage     |-> StringValue("STORAGE_DRIVER", "local"),
   endpoint    |-> Getenv("S3_ENDPOINT"),
   bucket      |-> {Getenv("S3_ENDPOINT"), Getenv("S3_BUCKET"), Getenv("S3_ACCESS_KEY"), Getenv("S3_SECRET_KEY")}]

Half(pair) == (pair[1] = "") # (pair[2] = "")

\* OAuthConfig.Validate.
BadOAuth(c) ==
  \/ \E p \in {c.google, c.github} : "" \in p /\ p # {""}
  \/ ~(c.redirects \subseteq Relative)

\* Mutant: only the cache is asked for its server.
RedisMissingForCache(c) == c.cache = "redis" /\ c.redis = ""

RedisMissing(c) == "redis" \in {c.cache, c.queue} /\ c.redis = ""

BadDrivers(c) ==
  \/ c.cache \notin {"memory", "redis"} \/ c.queue \notin {"sync", "redis"} \/ RedisMissing(c)
  \/ c.redis # "" /\ (c.redis \notin DOMAIN SchemeOf \/ SchemeOf[c.redis] \notin {"redis", "rediss", "unix"})
  \/ c.workers < 1
  \/ c.mail \notin {"log", "smtp"} \/ (c.mail = "smtp" /\ "" \in c.sender)
  \/ c.encryption \notin {"none", "tls", "starttls"}
  \/ c.whatsapp \notin {"log", "cloud"}
  \/ c.whatsapp = "cloud" /\ ("" \in c.cloud \/ c.version \notin ApiVersions)
  \/ c.storage \notin {"local", "s3"}

BadDocs(c) ==
  \/ Half(c.docsLogin)
  \/ ~({c.docsPath, c.specPath, c.devPath} \subseteq Rooted)
  \/ c.docsPath = c.specPath

\* Where validate fails.
Invalid(c) ==
  \/ ~c.development /\ "" \in {c.database, c.origins}
  \/ c.database # "" /\ c.database \notin DOMAIN SchemeOf
  \/ c.maxBody <= 0
  \/ BadOAuth(c)
  \/ c.limited /\ c.perMinute <= 0
  \/ c.burst < 0
  \/ BadDrivers(c) \/ BadDocs(c)
  \/ c.devtools /\ ~c.development
  \/ \E t \in c.timeouts : t <= 0

Loads ==
  /\ step = "dotenv" /\ lines = <<>>
  /\ IF IllTyped \/ Invalid(Loaded)
     THEN Goes("refused", "Load") /\ UNCHANGED cfg
     ELSE Goes("new", "nobody") /\ cfg' = Loaded
  /\ UNCHANGED <<app, env, lines>>

-----------------------------------------------------------------------------
(* runtime.New.                                                             *)

Or(value, default) == IF value = "" THEN default ELSE value

Defaults == [docsPath |-> "/docs", specPath |-> "/openapi.json", devPath |-> "/_ginkit", title |-> "API"]

\* Options, with what applyDefaults puts for what is missing.
Options(c) ==
  [k \in DOMAIN c |-> IF k \in DOMAIN Defaults THEN Or(c[k], Defaults[k])
                      ELSE IF k = "maxBody" /\ c[k] = 0 THEN 1048576 ELSE c[k]]

\* What New looks at itself.
BadOptions(o) ==
  \/ o.maxBody < 1
  \/ o.limited /\ o.perMinute < 1
  \/ o.docs /\ (Half(o.docsLogin) \/ o.docsPath = o.specPath \/ ~({o.docsPath, o.specPath} \subseteq Rooted))
  \/ o.devtools /\ (~o.development \/ o.devPath \notin Rooted)
  \/ o.proxies \notin Networks \cup {""}

BadCache(o) == o.cache # "memory" /\ (o.cache # "redis" \/ o.redis \notin RedisReads)

\* queue.New, for which no workers are ten.
BadQueue(o) ==
  \/ o.workers < 0
  \/ o.queue \notin {"sync", "redis"}
  \/ o.queue = "redis" /\ o.redis \notin AsynqReads

\* The client that installQueue makes for the readiness check, if the cache has none.
BadPing(o) == o.queue = "redis" /\ o.cache # "redis" /\ o.redis \notin RedisReads

Profiles == {"", "cmdline", "profile", "symbol", "trace", "allocs", "block", "goroutine", "heap", "mutex",
             "threadcreate"}
Tabs     == {"", "/api/requests", "/api/mails", "/api/mails/:id/html", "/api/routes", "/api/config", "/api/queue"}

\* The routes that New registers, by who mounts them.  Gin panics when one is
\* registered twice.
Mounted(o) ==
  [metrics  |-> IF o.metrics THEN {"/metrics"} ELSE {},
   pprof    |-> IF o.pprof THEN {"/debug/pprof/" \o p : p \in Profiles} ELSE {},
   docs     |-> IF o.docs THEN {o.docsPath} ELSE {},
   spec     |-> IF o.docs THEN {o.specPath} ELSE {},
   devtools |-> IF o.devtools THEN {o.devPath \o p : p \in Tabs} ELSE {},
   health   |-> {"/health/live", "/health/ready"}]

RoutesClash(o) ==
  LET m == Mounted(o) IN \E a, b \in DOMAIN m : a # b /\ m[a] \cap m[b] # {}

NeedsDatabase == cfg.database = "" /\ app.database # "sqlite"

News ==
  /\ step = "new"
  /\ LET o == Options(cfg) IN
       IF NeedsDatabase THEN Goes("refused", "app")
       ELSE IF BadOptions(o) \/ BadCache(o) \/ BadQueue(o) THEN Goes("refused", "New")
       ELSE \/ Goes("refused", "database")    \* it does not answer
            \/ IF BadPing(o) THEN Goes("refused", "New")
               ELSE IF RoutesClash(o) THEN Goes("panics", "gin")
               ELSE Goes("wire", "nobody")
  /\ UNCHANGED <<app, env, lines, cfg>>

-----------------------------------------------------------------------------
(* The parts the application is wired from.                                 *)

\* session.Middleware; an empty secret is replaced in development.
BadSession ==
  app.sessions /\ cfg.session \notin LongSecrets /\ (cfg.session # "" \/ ~cfg.development)

\* auth.New.
BadTokens == app.accounts /\ cfg.jwt \notin LongSecrets

Wires ==
  /\ step = "wire"
  /\ IF BadSession THEN Goes("refused", "session")
     ELSE IF BadTokens THEN Goes("refused", "auth")
     ELSE Goes("running", "nobody")
  /\ UNCHANGED <<app, env, lines, cfg>>

\* NewGoogle asks the provider for its endpoints.
DiscoveryFails ==
  /\ step = "wire" /\ app.oauth /\ cfg.google # {""}
  /\ ~BadSession /\ ~BadTokens
  /\ Goes("refused", "google")
  /\ UNCHANGED <<app, env, lines, cfg>>

\* What go-mail takes for a port, once mail.New has put the encryption's for 0.
BadPort(c) == c.port # 0 /\ c.port \notin 1..65535

\* mail.New, whatsapp.New and storage.New, which the developer calls.
Refusing(c) ==
  {x \in {"mail", "whatsapp", "storage"} :
     \/ x = "mail" /\ c.mail = "smtp"
        /\ ("" \in c.sender \/ c.encryption \notin {"none", "tls", "starttls"} \/ BadPort(c))
     \/ x = "whatsapp" /\ c.whatsapp = "cloud" /\ ("" \in c.cloud \/ c.version \notin ApiVersions)
     \/ x = "storage" /\ c.storage = "s3" /\ ("" \in c.bucket \/ c.endpoint \notin S3Endpoints)}

Uses ==
  /\ step = "running"
  /\ \E x \in Refusing(cfg) : Goes("refused", x)
  /\ UNCHANGED <<app, env, lines, cfg>>

\* storage.New makes the root of the local disk, which the file system may refuse.
RootFails ==
  /\ step = "running" /\ cfg.storage = "local"
  /\ Goes("refused", "disk")
  /\ UNCHANGED <<app, env, lines, cfg>>

StartNext ==
  \/ ReadsLine \/ Loads \/ News \/ Wires \/ DiscoveryFails \/ Uses \/ RootFails

StartSpec == StartInit /\ [][StartNext]_startVars

-----------------------------------------------------------------------------
\* What New refuses and Load does not look at.
Overlooked(c) ==
  \/ c.proxies \notin Networks \cup {""}
  \/ /\ "redis" \in {c.cache, c.queue} /\ c.redis \in DOMAIN SchemeOf
     /\ c.redis \notin RedisReads \cap AsynqReads

(* "Validated before the server starts": what Load accepted is not refused  *)
(* later by New, nor by a driver, but for what Load does not look at: the   *)
(* trusted proxies, a Redis URL it can read and the client cannot, the      *)
(* length of the secrets, a port of SMTP that is none, the settings of S3,  *)
(* and what the network and the file system say.                            *)
WhatLoadAcceptsStarts ==
  cfg # NoConfig /\ step = "refused" =>
    \/ refused \in {"database", "session", "auth", "google", "disk"}
    \/ refused = "New" /\ Overlooked(cfg)
    \/ refused = "app" /\ cfg.development
    \/ refused = "mail" /\ cfg.mail = "smtp" /\ BadPort(cfg)
    \/ refused = "storage" /\ cfg.storage = "s3"
=============================================================================
