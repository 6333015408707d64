------------------------------- MODULE Server -------------------------------
(***************************************************************************)
(* The life of kbsrv (backend/main.go, backend/start.go, pkg/grpc_server)  *)
(* with the file storage: open the storage, listen, serve gRPC, connect    *)
(* the REST gateway to it, serve REST, wait for a signal, and take all of  *)
(* that down in the opposite order.  Handlers of the storage's calls run   *)
(* between any two of these steps.                                         *)
(*                                                                         *)
(* The actions of FileStore are those of the handlers; what opens and      *)
(* closes the storage, and when calls arrive, is the server's.             *)
(***************************************************************************)
EXTENDS FileStore

CONSTANTS
    ServerFaults    \* see ServerFaultNames

\* "listen": the port of gRPC is taken; "config": no address for the gateway;
\* "connect": the health check of the own gRPC server fails or is not answered
\* within the operation timeout; "proxy": the gateway cannot listen; "kill":
\* a signal nobody can catch, or a panic of a handler.
ServerFaultNames == {"listen", "config", "connect", "proxy", "kill"}

ASSUME ServerAssumption ==
    /\ ServerFaults \subseteq ServerFaultNames
    /\ "crash" \in Faults /\ "disk" \notin Faults /\ ~OncePerRun

VARIABLES
    stage,      \* where the main goroutine is, see Stages
    proxy,      \* the gateway's goroutine: "none", "started", "listening", "ended"
    IsReady,
    failing     \* start returns an error

lifecycle == <<stage, proxy, IsReady, failing>>
serverVars == <<vars, lifecycle>>

\* In the order of a run: NewPStor; NewServer and go Serve; Connect; go gw.Serve
\* and IsReady; signal.Notify; the deferred gw.Stop, GracefulStop, Close.
Stages == {"opened", "serving", "connected", "ready", "waiting",
           "stopping", "draining", "drained", "exited"}

ServerInit ==
    /\ Init
    /\ stage = "opened" /\ proxy = "none" /\ IsReady = FALSE /\ failing = FALSE

-----------------------------------------------------------------------------
(* The start. *)

\* FatalIfErrorf ends the process; the deferred Close of the storage is lost.
Exits ==
    /\ End(file) /\ crashes' = crashes + 1
    /\ stage' = "exited" /\ proxy' = "none" /\ IsReady' = FALSE /\ failing' = FALSE

Fails(next) == stage' = next /\ failing' = TRUE /\ UNCHANGED <<vars, proxy, IsReady>>
Reaches(next) == stage' = next /\ UNCHANGED <<vars, proxy, IsReady, failing>>

\* NewServer; connections to the socket wait for the goroutine of Serve.
Listen == stage = "opened" /\ Reaches("serving")
ListenFails == "listen" \in ServerFaults /\ stage = "opened" /\ Exits

\* From here on an error unwinds GracefulStop, while calls are being served.
NotConfigured == "config" \in ServerFaults /\ stage = "serving" /\ Fails("draining")

\* Connect and RegisterAll.
Connect == stage = "serving" /\ Reaches("connected")
ConnectFails == "connect" \in ServerFaults /\ stage = "serving" /\ Fails("stopping")

\* go gw.Serve(), then IsReady.
ServeProxy ==
    /\ stage = "connected"
    /\ stage' = "ready" /\ proxy' = "started" /\ IsReady' = TRUE
    /\ UNCHANGED <<vars, failing>>

\* The goroutine of the gateway.  When it cannot listen, the server goes on
\* without REST, and nothing reports an error.
ProxyListens ==
    /\ proxy = "started"
    /\ \/ proxy' = "listening"
       \/ "proxy" \in ServerFaults /\ proxy' = "ended"
    /\ UNCHANGED <<vars, stage, IsReady, failing>>

Notify == stage = "ready" /\ Reaches("waiting")

-----------------------------------------------------------------------------
(* The stop. *)

\* A signal is caught from signal.Notify on, and kills the process before.
Heard(at) == at = "waiting"

Signal ==
    IF Heard(stage) THEN Reaches("stopping")
    ELSE stage \in {"opened", "serving", "connected", "ready"} /\ Exits

Kill == "kill" \in ServerFaults /\ up /\ Exits

\* Mutant: the order of the deferred calls is swapped, and the gateway is
\* closed only with the process.
StopProxyLate == stage = "stopping" /\ Reaches("draining")

\* Mutant: it waits for REST to have been served.
StopProxyWaits ==
    /\ stage = "stopping" /\ proxy = "listening"
    /\ stage' = "draining" /\ proxy' = "ended" /\ UNCHANGED <<vars, IsReady, failing>>

\* gw.Stop closes the listener and the REST connections at once.
StopProxy ==
    /\ stage = "stopping"
    /\ stage' = "draining" /\ proxy' = IF proxy = "none" THEN proxy ELSE "ended"
    /\ UNCHANGED <<vars, IsReady, failing>>

DrainedAtOnce == TRUE   \* Mutant: Stop instead of GracefulStop.

\* GracefulStop waits for the handlers.
Drained == \A c \in Clients : pc[c] = "idle"

GracefulStop == stage = "draining" /\ Drained /\ Reaches("drained")

\* The deferred Close of Main, unless start returned an error.
CloseStore ==
    /\ stage = "drained"
    /\ IF failing THEN Exits
       ELSE /\ CloseFiles
            /\ stage' = "exited" /\ proxy' = "none" /\ IsReady' = FALSE
            /\ UNCHANGED failing

\* Mutant: the server starts without its storage.
BootClosed == stage = "exited" /\ stage' = "opened" /\ UNCHANGED <<vars, proxy, IsReady, failing>>

\* The process is started again.
Boot == stage = "exited" /\ Open /\ stage' = "opened" /\ UNCHANGED <<proxy, IsReady, failing>>

-----------------------------------------------------------------------------
(* Calls, by gRPC or through the gateway. *)

\* No call is admitted while GracefulStop waits: one that the transport has
\* received by then, and that it still serves, runs as one admitted just before.
Accepting == {"serving", "connected", "ready", "waiting", "stopping"}

SaveCall(c) ==
    /\ \/ stage \in Accepting /\ \E i \in Items : Look(c, i)
       \/ Write(c)
    /\ UNCHANGED lifecycle

FlushCall == stage \in Accepting /\ Flush /\ UNCHANGED lifecycle

ServerNext ==
    \/ Listen \/ ListenFails \/ NotConfigured \/ Connect \/ ConnectFails
    \/ ServeProxy \/ ProxyListens \/ Notify
    \/ Signal \/ Kill \/ StopProxy \/ GracefulStop \/ CloseStore \/ Boot
    \/ FlushCall \/ \E c \in Clients : SaveCall(c)

ServerSpec == ServerInit /\ [][ServerNext]_serverVars

\* The main goroutine and the handlers run.
ServerFairSpec ==
    /\ ServerSpec
    /\ WF_serverVars(StopProxy) /\ WF_serverVars(GracefulStop) /\ WF_serverVars(CloseStore)
    /\ \A c \in Clients : WF_serverVars(Write(c) /\ UNCHANGED lifecycle)

-----------------------------------------------------------------------------
(* Properties. *)

\* The storage is open from NewPStor to the end of the process.
LifeTypeOK ==
    /\ stage \in Stages
    /\ proxy \in {"none", "started", "listening", "ended"}
    /\ IsReady \in BOOLEAN /\ failing \in BOOLEAN
    /\ up <=> stage # "exited"

\* Types of the server's life, and of its files and the calls in progress.
ServerTypeOK == LifeTypeOK /\ TypeOK

\* Whoever is told "ok" by the gateway finds the gRPC server behind it serving,
\* at every moment of the start, of the stop and of a failed start.
ReadyMeansServing ==
    IsReady /\ proxy = "listening" => stage \in Accepting /\ up /\ ~failing

\* The server uses the storage as FileStore allows: in particular, nobody is
\* between the scan and the append of a Save when it is closed.
ImplementsFileStore == Spec

\* A signal the server waits for ends it, with the storage closed in order,
\* however many calls are in progress or still arrive.
StopsOnSignal == stage = "stopping" /\ ~failing ~> stage = "exited"
=============================================================================
