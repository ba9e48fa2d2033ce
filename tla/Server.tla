------------------------------- MODULE Server -------------------------------
(***************************************************************************)
(* The life of the process: main of server.py reads the environment, wires *)
(* verifier, authorizer, tracing, adapters and service, serves a transport,*)
(* and shuts tracing down; setup_tracing of observability/tracing.py sends *)
(* spans to an exporter, from a thread of its own.  What the process serves*)
(* is in the modules of its components.                                    *)
(***************************************************************************)
EXTENDS Naturals

CONSTANT MaxSpans    \* the queue of the span processor; a span that finds it full is dropped

ASSUME ServerAssumption == MaxSpans \in Nat \ {0}

VARIABLES env,            \* what the environment variables say
          pc,             \* the progress of main
          verifier,       \* token_verifier: "none" or "jwks"
          authorizer,     \* "none", "pass_through" or "policy"
          instrumented,   \* the httpx instrumentor and the span processor are installed
          client,         \* the HTTP client of AthleteOneAdapter
          spans,          \* spans recorded and not yet exported
          stdout          \* who has written to stdout

wired == <<verifier, authorizer>>
processvars == <<env, pc, wired, instrumented, client, spans, stdout>>

\* PORT; MCP_TRANSPORT; MCP_AUTH_ENABLED with MCP_AUTH_ISSUER_URL, which may be missing or
\* no URL; MCP_AUTHZ_URL; MCP_TRACING_ENABLED with the endpoint, "broken" if no exporter
\* can be built for it.
Environment == [port : {"number", "junk"},
                transport : {"stdio", "streamable-http", "other"},
                auth : {"off", "no_issuer", "bad_url", "on"},
                authz : {"none", "url"},
                tracing : {"off", "no_endpoint", "endpoint", "broken"}]

Traced == env.tracing \in {"no_endpoint", "endpoint"}

ProcessInit == /\ env \in Environment
               /\ pc = "start"
               /\ verifier = "none" /\ authorizer = "none"
               /\ instrumented = FALSE /\ client = "none"
               /\ spans = 0 /\ stdout = {}

-----------------------------------------------------------------------------
Goto(from, to) == pc = from /\ pc' = to

\* int(PORT) and the check of the transport; either failure is a ValueError.
ReadEnvironment ==
  /\ \/ env.port = "number" /\ env.transport # "other" /\ Goto("start", "auth")
     \/ (env.port = "junk" \/ env.transport = "other") /\ Goto("start", "failed")
  /\ UNCHANGED <<env, wired, instrumented, client, spans, stdout>>

\* Mutants (suffix _M): a definition as a plausible bug of this code would have it.
\* _build_auth: stdio has no verifier, whatever the environment says.  build_token_verifier
\* raises without an issuer, and AuthSettings if that is no URL.
BuildAuth_M == /\ Goto("auth", "authz")
               /\ verifier' = IF env.transport = "streamable-http" /\ env.auth = "on"
                                THEN "jwks" ELSE "none"
               /\ UNCHANGED <<env, authorizer, instrumented, client, spans, stdout>>
BuildAuth ==
  /\ \/ /\ env.transport = "stdio" \/ env.auth = "off"
        /\ Goto("auth", "authz") /\ UNCHANGED verifier
     \/ /\ env.transport = "streamable-http" /\ env.auth = "on"
        /\ Goto("auth", "authz") /\ verifier' = "jwks"
     \/ /\ env.transport = "streamable-http" /\ env.auth \in {"no_issuer", "bad_url"}
        /\ Goto("auth", "failed") /\ UNCHANGED verifier
  /\ UNCHANGED <<env, authorizer, instrumented, client, spans, stdout>>

BuildAuthorizer == /\ Goto("authz", "tracing")
                   /\ authorizer' = IF env.authz = "url" THEN "policy" ELSE "pass_through"
                   /\ UNCHANGED <<env, verifier, instrumented, client, spans, stdout>>

\* setup_tracing, before the try: the exporter is built before anything is installed.
SetUpTracing_M == /\ Goto("tracing", "build") /\ UNCHANGED instrumented
                  /\ UNCHANGED <<env, wired, client, spans, stdout>>
SetUpTracing ==
  /\ \/ env.tracing = "off" /\ Goto("tracing", "build") /\ UNCHANGED instrumented
     \/ Traced /\ Goto("tracing", "build") /\ instrumented' = TRUE
     \/ env.tracing = "broken" /\ Goto("tracing", "failed") /\ UNCHANGED instrumented
  /\ UNCHANGED <<env, wired, client, spans, stdout>>

\* build_server: the adapter creates its client, instrumented if httpx is by now.  It is
\* inside of the try, and may raise before that or after.
BuildServer ==
  LET built == IF instrumented THEN "instrumented" ELSE "plain"
  IN  /\ \/ Goto("build", "serving") /\ client' = built
         \/ Goto("build", "stopping") /\ client' \in {"none", built}
      /\ UNCHANGED <<env, wired, instrumented, spans, stdout>>

\* A tool call is answered, after an upstream request if the cache has nothing; a span of
\* it is recorded, or dropped where the queue is full.
Serve ==
  /\ pc = "serving"
  /\ stdout' = IF env.transport = "stdio" THEN stdout \union {"transport"} ELSE stdout
  /\ \/ UNCHANGED spans
     \/ client = "instrumented" /\ spans < MaxSpans /\ spans' = spans + 1
  /\ UNCHANGED <<env, pc, wired, instrumented, client>>

\* ConsoleSpanExporter, which writes to stdout, is the exporter without an endpoint.
ExportsToStdout_M == Traced
ExportsToStdout == env.tracing = "no_endpoint"

\* The span processor hands what it has to its exporter; what that fails to export is lost.
Flush == /\ spans' = 0
         /\ \/ UNCHANGED stdout
            \/ spans > 0 /\ ExportsToStdout /\ stdout' = stdout \union {"exporter"}

\* The thread of the BatchSpanProcessor, at any time.
Export == /\ instrumented /\ spans > 0 /\ pc \in {"serving", "stopping"}
          /\ Flush
          /\ UNCHANGED <<env, pc, wired, instrumented, client>>

\* run returns, or raises: the transport cannot be served, or an interrupt arrives.
Stop == /\ Goto("serving", "stopping")
        /\ UNCHANGED <<env, wired, instrumented, client, spans, stdout>>

\* `finally: shutdown_tracing()'.
ShutDown == /\ Goto("stopping", "exited")
            /\ \/ instrumented /\ Flush
               \/ ~instrumented /\ UNCHANGED <<spans, stdout>>
            /\ UNCHANGED <<env, wired, instrumented, client>>

\* SIGKILL, or SIGTERM where nothing installed a handler, which nothing here does: nothing
\* of main runs any more, and what was not exported is lost.
Kill == /\ pc \notin {"exited", "failed", "killed"}
        /\ pc' = "killed"
        /\ UNCHANGED <<env, wired, instrumented, client, spans, stdout>>

ProcessNext == \/ ReadEnvironment \/ BuildAuth \/ BuildAuthorizer \/ SetUpTracing \/ BuildServer
               \/ Serve \/ Export \/ Stop \/ ShutDown \/ Kill

ProcessSpec == ProcessInit /\ [][ProcessNext]_processvars

-----------------------------------------------------------------------------
(* Every variable keeps its type, and nobody but the transport of stdio    *)
(* and an exporter without an endpoint writes to stdout.                   *)
ProcessTypeOK == /\ env \in Environment
                 /\ pc \in {"start", "auth", "authz", "tracing", "build", "serving", "stopping",
                            "exited", "failed", "killed"}
                 /\ verifier \in {"none", "jwks"}
                 /\ authorizer \in {"none", "pass_through", "policy"}
                 /\ instrumented => Traced
                 /\ client \in {"none", "plain", "instrumented"}
                 /\ spans \in 0 .. MaxSpans /\ (spans > 0 => instrumented)
                 /\ "transport" \in stdout => env.transport = "stdio"
                 /\ "exporter" \in stdout => env.tracing = "no_endpoint"

(* What the environment asks for is what serves: a server over HTTP that   *)
(* is to check tokens never comes up without a verifier (it fails to start *)
(* if it cannot build one), and both transports ask the policy service.    *)
ServesAsAsked ==
  pc = "serving" =>
    /\ (env.transport = "streamable-http" /\ env.auth # "off") <=> verifier = "jwks"
    /\ env.authz = "url" <=> authorizer = "policy"

(* Tracing is wired before the first HTTP client exists (server.py:137),   *)
(* so the requests of a traced process are all traced.                     *)
RequestsAreTraced == Traced /\ client # "none" => client = "instrumented"

(* What server.py:9 asks for in stdio mode: never write to stdout, it      *)
(* corrupts the message stream.                                            *)
StdoutIsTheTransports == env.transport = "stdio" => "exporter" \notin stdout
=============================================================================
