----------------------------- MODULE MCServices -----------------------------
(* Model-checking instance of an application's start and of the services it *)
(* uses.  They share nothing, so a behaviour is one of any of them: the     *)
(* others stay as they began.                                               *)
EXTENDS MemoryCache, RateLimiter, LocalDisk, EventBus, Query, Startup, TLC

CONSTANT Text

VARIABLE service  \* whose behaviour it is

Asking(op, value, ttl, by) ==
  [op |-> op, key |-> "k", value |-> value, ttl |-> ttl, by |-> by]

SomeCalls ==
  {Asking("get", 0, 0, 0), Asking("forget", 0, 0, 0), Asking("set", Blank, 1, 0),
   Asking("set", Text, 0, 0), Asking("increment", 0, 0, -1), Asking("remember", 0, 1, 0)}

-----------------------------------------------------------------------------
(* A table of tasks with a flag, a rank, and a list endpoint of each kind.  *)

TaskFilters ==
  [done |-> [column |-> "done", kind |-> "exact", bool |-> TRUE],
   rank |-> [column |-> "rank", kind |-> "compare", bool |-> FALSE],
   any  |-> [column |-> "rank", kind |-> "in", bool |-> FALSE],
   part |-> [column |-> "rank", kind |-> "partial", bool |-> FALSE]]

Endpoint(default, cursorSort) ==
  [filters |-> TaskFilters, sorts |-> [rank |-> "rank", id |-> "id"], default |-> default,
   perPage |-> 1, maxPerPage |-> 2, cursorSort |-> cursorSort]

Up(sort)   == [name |-> sort, desc |-> FALSE]
Down(sort) == [name |-> sort, desc |-> TRUE]

TaskEndpoints ==
  {Endpoint(<<Down("rank")>>, "rank"), Endpoint(<<Up("rank")>>, "rank"),
   Endpoint(<<Down("rank"), Up("id")>>, Absent), Endpoint(<<>>, "age"), Endpoint(<<Up("age")>>, Absent)}

Where(filter, op, items) == {[name |-> filter, op |-> op, items |-> items]}

Asked(filters, sort, page, perPage, cursor) ==
  [filters |-> filters, sort |-> sort, page |-> page, perPage |-> perPage, cursor |-> cursor]

TaskAsks ==
  {Asked(fs, Absent, Absent, n, Absent) :
     fs \in {{}, Where("done", Absent, {1}), Where("rank", "lte", {0}), Where("rank", "gt", {0}),
             Where("any", Absent, {0, 1}) \cup Where("part", Absent, {0})},
     n \in {Absent, 2, 9}}
  \cup {Asked(fs, Absent, Absent, Absent, Absent) :
          fs \in {Where("done", "gte", {1}), Where("done", Absent, {2}), Where("any", Absent, {}),
                  Where("age", Absent, {0}), Where("rank", Absent, Absent)}}
  \cup {Asked({}, <<Up("rank")>>, Absent, Absent, Absent), Asked({}, <<Up("age")>>, Absent, Absent, Absent),
        Asked({}, Absent, 7, 2, Absent), Asked({}, Absent, Bad, Absent, Absent),
        Asked({}, Absent, Absent, Bad, Absent), Asked({}, Absent, Absent, Absent, Bad)}

IsPartOf == {<<0, 0>>, <<1, 0>>, <<1, 1>>}

-----------------------------------------------------------------------------
(* What one may find in an environment and in a .env.                       *)

Set(k, v) == (k :> v)

Deviations ==
  {Set("APP_ENV", v) : v \in {"production", Spaces}}
  \cup {Set(k, v) : k \in {"RATE_LIMIT_ENABLED", "METRICS_ENABLED", "PPROF_ENABLED", "DOCS_ENABLED", "DEVTOOLS_ENABLED"},
                    v \in {"", "true", "no", "perhaps"}}
  \cup {Set(k, v) : k \in {"RATE_LIMIT_PER_MINUTE", "MAX_BODY_BYTES", "QUEUE_CONCURRENCY", "RATE_LIMIT_BURST"},
                    v \in {"0", "-1", "9", "many"}}
  \cup {Set(k, v) : k \in {"READ_TIMEOUT", "SHUTDOWN_TIMEOUT", "S3_PRESIGN_TTL"}, v \in {"0", "10s", "ten"}}
  \cup {Set("DOCS_PATH", v) : v \in {"docs", "/openapi.json", "/metrics", "/_ginkit"}}
  \cup {Set("QUEUE_DRIVER", "redis") @@ Set("REDIS_URL", v) : v \in {"", "redis://r", "unix:///r", "redis://r/x", "http://r", "%"}}
  \cup {Set("CACHE_DRIVER", "redis") @@ Set("REDIS_URL", v) : v \in {"", "redis://r", "unix:///r", "redis://r/x"}}
  \cup {Set("QUEUE_DRIVER", v) : v \in {"redis", "kafka"}} \cup {Set("CACHE_DRIVER", v) : v \in {"redis", "disk"}}
  \cup {Set("MAIL_DRIVER", v) : v \in {"smtp", "pigeon"}} \cup {Set("MAIL_ENCRYPTION", "rot13")}
  \cup {Set("WHATSAPP_DRIVER", "cloud"), Set("STORAGE_DRIVER", "s3"), Set("STORAGE_DRIVER", "tape")}
  \cup {Set("MAIL_DRIVER", "smtp") @@ Set("MAIL_HOST", "h") @@ Set("MAIL_FROM_ADDRESS", "a")
          @@ Set("MAIL_PORT", v) : v \in {"", "9", "-1", "70000", "many"}}
  \cup {Set("STORAGE_DRIVER", "s3") @@ Set("S3_ENDPOINT", v) @@ Set("S3_BUCKET", "b")
          @@ Set("S3_ACCESS_KEY", "a") @@ Set("S3_SECRET_KEY", "s") : v \in {"s3:9000", "http://r"}}
  \cup {Set("WHATSAPP_DRIVER", "cloud") @@ Set("WHATSAPP_ACCESS_TOKEN", "t") @@ Set("WHATSAPP_PHONE_NUMBER_ID", "p")
          @@ Set("WHATSAPP_API_VERSION", v) : v \in {"v25.0", "25"}}
  \cup {Set("TRUSTED_PROXY_CIDRS", v) : v \in {"10.0.0.0/8", "everyone"}}
  \cup {Set("DATABASE_URL", v) : v \in {"", "%"}} \cup {Set("CORS_ALLOWED_ORIGINS", Spaces)}
  \cup {Set(k, v) : k \in {"JWT_SECRET", "SESSION_SECRET"}, v \in {"", "short"}}
  \cup {Set("OAUTH_GOOGLE_CLIENT_ID", "g"), Set("OAUTH_SUCCESS_REDIRECT", "//elsewhere"), Set("DOCS_BASIC_AUTH_USERNAME", "u")}
  \cup {Set("OAUTH_GOOGLE_CLIENT_ID", "g") @@ Set("OAUTH_GOOGLE_CLIENT_SECRET", "s") @@ Set("OAUTH_GOOGLE_REDIRECT_URL", "/g")}

Laptop == Set("JWT_SECRET", "long")
Server == Laptop @@ Set("APP_ENV", "production") @@ Set("DATABASE_URL", "db") @@ Set("CORS_ALLOWED_ORIGINS", "o")
            @@ Set("SESSION_SECRET", "long")

SomeEnvironments == {d @@ base : d \in Deviations \cup {<<>>}, base \in {Laptop, Server}}

Line(k, v) == [key |-> k, value |-> v]

NoLine == Line("", "")

SomeDotenvs ==
  {<<>>, <<NoLine>>, <<Line("APP_ENV", "production"), NoLine>>,
   <<Line("APP_ENV", "production"), Line("APP_ENV", "development")>>,
   <<Line("DEVTOOLS_ENABLED", "true"), Line("DOCS_ENABLED", "yes")>>,
   <<Line("METRICS_ENABLED", "true")>>, <<Line("JWT_SECRET", "short"), Line("SESSION_SECRET", "short")>>,
   <<Line("QUEUE_DRIVER", "redis")>>, <<Line("REDIS_URL", "redis://r"), Line("CACHE_DRIVER", "redis")>>,
   <<Line("DATABASE_URL", "db"), Line("CORS_ALLOWED_ORIGINS", "o")>>}

SomeApps ==
  {[sessions |-> s, accounts |-> a, oauth |-> s /\ a, database |-> d] :
     s \in BOOLEAN, a \in BOOLEAN, d \in {"sqlite", "postgres"}}

Numbers == ("0" :> 0) @@ ("-1" :> -1) @@ ("9" :> 9) @@ ("70000" :> 70000)
Times   == ("0" :> 0) @@ ("10s" :> 10)
Schemes == ("redis://r" :> "redis") @@ ("redis://r/x" :> "redis") @@ ("unix:///r" :> "unix") @@ ("http://r" :> "http") @@ ("db" :> "postgres")

-----------------------------------------------------------------------------
\* For what does not happen, one initial state is as good as another.
NoWalk  == table = <<>> /\ options = Endpoint(<<Up("age")>>, Absent) /\ request = Asked({}, Absent, Absent, Absent, Absent)
NoStart == app = [sessions |-> FALSE, accounts |-> FALSE, oauth |-> FALSE, database |-> "sqlite"] /\ env = Laptop /\ lines = <<>>

Init ==
  /\ CacheInit /\ LimiterInit /\ DiskInit /\ BusInit
  /\ \/ service \in {"cache", "limiter", "disk", "bus"} /\ NoWalk /\ NoStart
     \/ service = "query" /\ NoStart
     \/ service = "start" /\ NoWalk
  /\ QueryInit /\ StartInit

Next ==
  /\ UNCHANGED service
  /\ \/ service = "cache"   /\ CacheNext   /\ UNCHANGED <<limiterVars, diskVars, busVars, queryVars, startVars>>
     \/ service = "limiter" /\ LimiterNext /\ UNCHANGED <<cacheVars, diskVars, busVars, queryVars, startVars>>
     \/ service = "disk"    /\ DiskNext    /\ UNCHANGED <<cacheVars, limiterVars, busVars, queryVars, startVars>>
     \/ service = "bus"     /\ BusNext     /\ UNCHANGED <<cacheVars, limiterVars, diskVars, queryVars, startVars>>
     \/ service = "query"   /\ QueryNext   /\ UNCHANGED <<cacheVars, limiterVars, diskVars, busVars, startVars>>
     \/ service = "start"   /\ StartNext   /\ UNCHANGED <<cacheVars, limiterVars, diskVars, busVars, queryVars>>

Spec == Init /\ [][Next]_<<service, cacheVars, limiterVars, diskVars, busVars, queryVars, startVars>>

\* The goroutines of the cache, of the limiter and of the disk are alike.
Symmetry == Permutations(Callers) \cup Permutations(Users) \cup Permutations(Handlers)
=============================================================================
