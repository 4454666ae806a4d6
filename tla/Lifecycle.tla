----------------------------- MODULE Lifecycle -----------------------------
(***************************************************************************)
(* cmd/scan-helper and internal/api.Server: how one process comes up from  *)
(* a configuration file, answers requests through its middleware, and goes *)
(* down on a signal, an error or a crash.  What happens to a scan once it  *)
(* is accepted is the subject of ScanServer.                               *)
(*                                                                         *)
(* main is where the goroutine of main stands; net/http runs the listener  *)
(* and one goroutine per request beside it.                                *)
(*                                                                         *)
(*   loading      before config.Load                                       *)
(*   connecting   in buildStorage, signals being caught                    *)
(*   serving      in Server.ListenAndServe, at its select                  *)
(*   draining     in http.Server.Shutdown                                  *)
(*   leaving      ListenAndServe or buildStorage has returned              *)
(*   closed       run's deferred calls are done                            *)
(*   exited       the process is gone                                      *)
(*                                                                         *)
(* Abstractions.  A configuration has the keys Validate and buildRegistry  *)
(* look at; a mongo.uri is empty, names no database, or names one.  A      *)
(* request's body is acceptable to handleScan or not.  Two timeouts, the   *)
(* 15 seconds of Shutdown and of connecting, are choices that can be made  *)
(* at any time; that Disconnect ends within its 10 is fairness.            *)
(***************************************************************************)
EXTENDS Naturals

CONSTANTS
    Files,      \* what a configuration file can state, as functions
    Keys,       \* API keys, none of them empty
    Requests,   \* requests clients send
    Sent,       \* Sent[r]: what request r says
    JobIds      \* job ids

VARIABLES
    main,      \* where main.run stands
    cfg,       \* the configuration config.Load returned
    sink,      \* none, noop, open or closed
    signalled, \* the context of NotifyContext is cancelled
    listener,  \* the goroutine around srv.ListenAndServe
    errCh,     \* what it sent: nothing, failed or closed (ErrServerClosed)
    reply,     \* how far each request is
    jobs,      \* ids in the job store
    accepted,  \* history: requests a scan was started for
    code       \* how run ended, or how the process did

vars == <<main, cfg, sink, signalled, listener, errCh, reply, jobs,
          accepted, code>>

Modules == {"subdomains", "ports"}

Config == [api_key : Keys \cup {""},
           mode : {"mongo", "api_response", "other"},
           uri : {"", "bare", "named"},
           subdomains : BOOLEAN,
           ports : BOOLEAN]

Message == [route : {"health", "scan", "job"}, key : Keys \cup {""},
            module : STRING, valid : BOOLEAN, job : JobIds]

\* unsent: not at the server yet.  created: handleScan has stored the job
\* and started its goroutine, the 202 is not written.  cut: the process
\* ended first.
Answers == {"ok", "accepted", "badRequest", "unauthorized", "notFound",
            "internalError"}
Active == {"waiting", "created"}
Replies == {"unsent", "cut"} \cup Active \cup Answers

ASSUME KeysAssumption == "" \notin Keys
ASSUME SentAssumption == Sent \in [Requests -> Message]

-----------------------------------------------------------------------------
(* internal/config.                                                        *)

\* A key the file does not state keeps its default; there is no default key.
Load(file) ==
    LET Stated(key, default) == IF key \in DOMAIN file THEN file[key] ELSE default
    IN  [api_key |-> Stated("api_key", ""),
         mode |-> Stated("mode", "mongo"),
         uri |-> Stated("uri", "named"),
         subdomains |-> Stated("subdomains", TRUE),
         ports |-> Stated("ports", TRUE)]

ASSUME FilesAssumption ==
    \A file \in Files : Load(file) \in Config

Defaults == Load([key \in {} |-> ""])

\* Broken variant of Valid: a configuration without a key is let through.
ValidWithoutKey(c) ==
    /\ c.mode \in {"mongo", "api_response"}
    /\ c.mode = "mongo" => c.uri # ""
    /\ c.subdomains \/ c.ports

Valid(c) ==
    /\ c.api_key # ""
    /\ c.mode \in {"mongo", "api_response"}
    /\ c.mode = "mongo" => c.uri # ""
    /\ c.subdomains \/ c.ports

\* buildRegistry.
Registered(c) == {m \in Modules : c[m]}

-----------------------------------------------------------------------------
TypeOK ==
    /\ main \in {"loading", "connecting", "serving", "draining", "leaving",
                 "closed", "exited"}
    /\ cfg \in Config
    /\ sink \in {"none", "noop", "open", "closed"}
    /\ signalled \in BOOLEAN
    /\ listener \in {"off", "starting", "listening", "closed"}
    /\ errCh \in {"none", "failed", "closed"}
    /\ reply \in [Requests -> Replies]
    /\ jobs \in SUBSET JobIds
    /\ accepted \in SUBSET Requests
    /\ code \in {"none", "ok", "error", "killed"}

Init ==
    /\ main = "loading"
    /\ cfg = Defaults
    /\ sink = "none"
    /\ signalled = FALSE
    /\ listener = "off"
    /\ errCh = "none"
    /\ reply = [r \in Requests |-> "unsent"]
    /\ jobs = {}
    /\ accepted = {}
    /\ code = "none"

http == <<listener, errCh>>
requests == <<reply, jobs, accepted>>

-----------------------------------------------------------------------------
(* Broken variants, each put in place of a definition below.               *)

\* Nothing but an empty list of requests ends Shutdown.
DrainTimesOutNever ==
    /\ main = "draining"
    /\ \A r \in Requests : reply[r] \notin Active
    /\ main' = "leaving"
    /\ code' = "error"
    /\ UNCHANGED <<cfg, sink, signalled, http, requests>>

\* Shutdown's error is dropped.
DrainTimesOutQuietly ==
    /\ main = "draining"
    /\ \E r \in Requests : reply[r] \in Active
    /\ main' = "leaving"
    /\ code' = "ok"
    /\ UNCHANGED <<cfg, sink, signalled, http, requests>>

\* The sink is closed as soon as the signal is there.
SelectSignalCloses ==
    /\ main = "serving"
    /\ signalled
    /\ main' = "closed"
    /\ sink' = IF sink = "open" THEN "closed" ELSE sink
    /\ code' = "ok"
    /\ UNCHANGED <<cfg, signalled, http, requests>>

\* os.Exit on the way out of run: no deferred call is made.
CloseSinkSkipped ==
    /\ main = "leaving"
    /\ main' = "closed"
    /\ UNCHANGED <<cfg, sink, signalled, http, requests, code>>

\* The listener is told nothing of Shutdown.
BindAnyway ==
    /\ main # "exited"
    /\ listener = "starting"
    /\ listener' = "listening"
    /\ UNCHANGED <<main, cfg, sink, signalled, errCh, requests, code>>

-----------------------------------------------------------------------------
(* main and run.                                                           *)

Fail ==
    /\ main' = "leaving"
    /\ code' = "error"

\* config.Load of a file that is there and can be parsed.
LoadConfig(file) ==
    /\ main = "loading"
    /\ \/ /\ Valid(Load(file))
          /\ main' = "connecting"
          /\ cfg' = Load(file)
          /\ UNCHANGED code
       \/ /\ ~ Valid(Load(file))
          /\ Fail
          /\ UNCHANGED cfg
    /\ UNCHANGED <<sink, signalled, http, requests>>

LoadFails ==
    /\ main = "loading"
    /\ Fail
    /\ UNCHANGED <<cfg, sink, signalled, http, requests>>

\* -print-tools never comes to config.Load.
PrintTools ==
    /\ main = "loading"
    /\ main' = "exited"
    /\ code' = "ok"
    /\ UNCHANGED <<cfg, sink, signalled, http, requests>>

\* buildStorage, and on to the select: no database in api_response mode; in
\* mongo mode a server that answers within 15 seconds and before a signal,
\* and a uri that names a database.
OpenStorage ==
    /\ main = "connecting"
    /\ \/ /\ cfg.mode # "mongo"
          /\ sink' = "noop"
       \/ /\ cfg.mode = "mongo"
          /\ cfg.uri = "named"
          /\ sink' = "open"
    /\ main' = "serving"
    /\ listener' = "starting"
    /\ UNCHANGED <<cfg, signalled, errCh, requests, code>>

StorageFails ==
    /\ main = "connecting"
    /\ cfg.mode = "mongo"
    /\ Fail
    /\ UNCHANGED <<cfg, sink, signalled, http, requests>>

\* ListenAndServe's select, either way when both are ready.
SelectErr ==
    /\ main = "serving"
    /\ errCh # "none"
    /\ main' = "leaving"
    /\ code' = IF errCh = "closed" THEN "ok" ELSE "error"
    /\ UNCHANGED <<cfg, sink, signalled, http, requests>>

\* Shutdown begins: the listener is closed, and Serve returns for it.
SelectSignal ==
    /\ main = "serving"
    /\ signalled
    /\ main' = "draining"
    /\ listener' = IF listener = "listening" THEN "closed" ELSE listener
    /\ errCh' = IF listener = "listening" THEN "closed" ELSE errCh
    /\ UNCHANGED <<cfg, sink, signalled, requests, code>>

\* Shutdown returns when every connection is idle, and closes those.
Drained ==
    /\ main = "draining"
    /\ \A r \in Requests : reply[r] \notin Active
    /\ main' = "leaving"
    /\ code' = "ok"
    /\ UNCHANGED <<cfg, sink, signalled, http, requests>>

\* After 15 seconds it returns an error; the requests go on.
DrainTimesOut ==
    /\ main = "draining"
    /\ \E r \in Requests : reply[r] \in Active
    /\ Fail
    /\ UNCHANGED <<cfg, sink, signalled, http, requests>>

\* The deferred Close, registered once there is a sink.
CloseSink ==
    /\ main = "leaving"
    /\ main' = "closed"
    /\ sink' = IF sink = "open" THEN "closed" ELSE sink
    /\ UNCHANGED <<cfg, signalled, http, requests, code>>

\* The process ends, with every request that is under way.
Gone ==
    /\ main' = "exited"
    /\ reply' = [r \in Requests |->
                    IF reply[r] \in Active THEN "cut" ELSE reply[r]]
    /\ UNCHANGED <<cfg, sink, signalled, http, jobs, accepted>>

\* main returns, or calls os.Exit(1).
Exit == main = "closed" /\ Gone /\ UNCHANGED code

\* A kill, or a panic on a goroutine nothing recovers.
Crash == main # "exited" /\ Gone /\ code' = "killed"

\* A supervisor starts another, which has nothing of the one before.
Restart ==
    /\ main = "exited"
    /\ main' = "loading"
    /\ cfg' = Defaults
    /\ sink' = "none"
    /\ signalled' = FALSE
    /\ listener' = "off"
    /\ errCh' = "none"
    /\ jobs' = {}
    /\ code' = "none"
    /\ UNCHANGED <<reply, accepted>>

-----------------------------------------------------------------------------
(* Beside main: the operating system, net/http, the handlers.              *)

\* SIGINT or SIGTERM.  Before NotifyContext and after its stop it kills; in
\* between it is caught, and a second one changes nothing.
Signal ==
    \/ /\ main \in {"loading", "closed"}
       /\ Gone
       /\ code' = "killed"
    \/ /\ main \notin {"loading", "closed", "exited"}
       /\ signalled' = TRUE
       /\ UNCHANGED <<main, cfg, sink, http, requests, code>>

\* The goroutine's srv.ListenAndServe: bound, refused, or told of a Shutdown
\* that came first.
Bind ==
    /\ main # "exited"
    /\ listener = "starting"
    /\ \/ main = "serving" /\ listener' = "listening" /\ UNCHANGED errCh
       \/ main = "serving" /\ listener' = "off" /\ errCh' = "failed"
       \/ main # "serving" /\ listener' = "off" /\ errCh' = "closed"
    /\ UNCHANGED <<main, cfg, sink, signalled, requests, code>>

\* Accept fails for good while requests are under way.
ListenerDies ==
    /\ main = "serving"
    /\ listener = "listening"
    /\ listener' = "closed"
    /\ errCh' = "failed"
    /\ UNCHANGED <<main, cfg, sink, signalled, requests, code>>

\* There are connections until Shutdown has closed the last one; one made
\* before can bring a request after the listener is gone.
Connected ==
    /\ main # "exited"
    /\ listener \in {"listening", "closed"}
    /\ code # "ok"

Arrive(r) ==
    /\ Connected
    /\ reply[r] = "unsent"
    /\ reply' = [reply EXCEPT ![r] = "waiting"]
    /\ UNCHANGED <<main, cfg, sink, signalled, http, jobs, accepted, code>>

\* requireAPIKey is in front of everything but health.
Allowed(m) == m.route = "health" \/ m.key = cfg.api_key

\* What the middleware and the handlers answer a request that starts
\* nothing; handleScan looks at the module before it reads the body.
AnswerTo(m) ==
    CASE ~ Allowed(m) -> "unauthorized"
      [] Allowed(m) /\ m.route = "health" -> "ok"
      [] Allowed(m) /\ m.route = "job" ->
             IF m.job \in jobs THEN "ok" ELSE "notFound"
      [] OTHER ->
             IF m.module \notin Registered(cfg) THEN "notFound"
             ELSE IF ~ m.valid THEN "badRequest" ELSE "accepted"

Starts(m) ==
    /\ m.route = "scan"
    /\ AnswerTo(m) = "accepted"
    /\ m.job \notin jobs

AnswerRequest(r) ==
    /\ main # "exited"
    /\ \/ /\ reply[r] = "waiting"
          /\ ~ Starts(Sent[r])
          /\ reply' = [reply EXCEPT ![r] = AnswerTo(Sent[r])]
       \/ /\ reply[r] = "created"
          /\ reply' = [reply EXCEPT ![r] = "accepted"]
    /\ UNCHANGED <<main, cfg, sink, signalled, http, jobs, accepted, code>>

\* CreateIfAbsent and the go statement; the answer comes after.
StartScan(r) ==
    /\ main # "exited"
    /\ reply[r] = "waiting"
    /\ Starts(Sent[r])
    /\ reply' = [reply EXCEPT ![r] = "created"]
    /\ jobs' = jobs \cup {Sent[r].job}
    /\ accepted' = accepted \cup {r}
    /\ UNCHANGED <<main, cfg, sink, signalled, http, code>>

\* recoverPanic, whatever the handler had done by then.
Panic(r) ==
    /\ main # "exited"
    /\ reply[r] \in Active
    /\ reply' = [reply EXCEPT ![r] = "internalError"]
    /\ UNCHANGED <<main, cfg, sink, signalled, http, jobs, accepted, code>>

-----------------------------------------------------------------------------
Run ==
    \/ \E file \in Files : LoadConfig(file)
    \/ LoadFails \/ OpenStorage \/ StorageFails
    \/ SelectErr \/ SelectSignal
    \/ Drained \/ DrainTimesOut
    \/ CloseSink \/ Exit

Serve(r) == Arrive(r) \/ AnswerRequest(r) \/ StartScan(r) \/ Panic(r)

Next ==
    \/ Run
    \/ PrintTools \/ Crash \/ Restart \/ Signal
    \/ Bind \/ ListenerDies
    \/ \E r \in Requests : Serve(r)

Spec == Init /\ [][Next]_vars

\* Everything main waits for ends by itself: reading a file, connecting and
\* Shutdown within 15 seconds, Disconnect within 10.  Nothing is assumed of
\* a handler: a client can take as long as it likes to send a body.
FairSpec == Spec /\ WF_vars(Run)

-----------------------------------------------------------------------------
\* A request behind the key is only ever answered, other than 401 or 500, to
\* a client that sent the configured key, which is not empty; a scan is only
\* started by one, for an enabled module, with the sink its mode asks for
\* (requireAPIKey, Validate, buildRegistry, buildStorage).
ServedAsConfigured ==
    [][\A r \in Requests :
          LET m == Sent[r] IN
          /\ (/\ reply'[r] # reply[r]
              /\ m.route # "health"
              /\ reply'[r] \in {"ok", "accepted", "created", "notFound", "badRequest"})
             => cfg.api_key # "" /\ m.key = cfg.api_key
          /\ r \in accepted' \ accepted =>
                 /\ m.key = cfg.api_key /\ m.key # ""
                 /\ m.module \in Modules /\ cfg[m.module]
                 /\ m.valid
                 /\ IF cfg.mode = "mongo" THEN sink \in {"open", "closed"}
                                          ELSE sink = "noop"]_vars

\* A process that says it shut down cleanly has cut no request off: not one
\* it was working on when the signal came, nor one that came later.
CleanExitCutsNothing ==
    [][\A r \in Requests :
          reply[r] \in Active /\ reply'[r] = "cut" => code' # "ok"]_vars

\* Whatever made run return, its sink is closed by the time the process is
\* gone, unless it was killed.
ExitClosesSink ==
    main = "exited" /\ code \in {"ok", "error"} => sink # "open"

\* Which codes go with which place of main.
CodeFits ==
    /\ main \in {"loading", "connecting", "serving", "draining"} => code = "none"
    /\ main \in {"leaving", "closed"} => code \in {"ok", "error"}

\* The sink is what buildStorage made of the configuration until it is
\* closed, and nothing is served without one.
SinkFits ==
    /\ main \in {"loading", "connecting"} => sink = "none"
    /\ main \in {"serving", "draining"} => sink \in {"noop", "open"}
    /\ main = "closed" => sink # "open"
    /\ sink = "none" => listener = "off" /\ errCh = "none"
    /\ sink # "none" \/ main = "connecting" => Valid(cfg)
    /\ sink = "noop" => cfg.mode # "mongo"
    /\ sink \in {"open", "closed"} => cfg.mode = "mongo"

\* The listener is open while main waits at its select, and no longer.
ListenerFits ==
    /\ listener = "listening" => main \in {"serving", "exited"}
    /\ main = "serving" => errCh # "closed"
    /\ main = "serving" /\ errCh # "none" => listener \in {"off", "closed"}

\* Requests are under way only where there are connections, and a scan only
\* for a client that had the key.
RequestsFit ==
    \A r \in Requests :
        /\ reply[r] \in Active => Connected
        /\ reply[r] = "created" => Sent[r].key = cfg.api_key

\* The inductive invariant behind the theorems of LifecycleProofs: what the
\* place of main says about everything beside it.
LifeInv ==
    /\ TypeOK
    /\ CodeFits
    /\ SinkFits
    /\ ListenerFits
    /\ RequestsFit
    /\ ExitClosesSink

\* A signal ends the process, whatever its requests are doing.
SignalEndsProcess == signalled ~> main = "exited"

-----------------------------------------------------------------------------
\* What a scan sees of the process.
ServerState ==
    CASE main \in {"loading", "connecting", "exited"} \/ sink = "none" -> "down"
      [] main = "serving" -> "up"
      [] main \in {"draining", "leaving"} /\ sink # "none" -> "stopping"
      [] OTHER -> "closed"

Process == INSTANCE ProcessPromise WITH server <- ServerState

\* main and net/http make of it the process ScanServer assumes.
ImplementsProcess == Process!ProcessSpec

=============================================================================
