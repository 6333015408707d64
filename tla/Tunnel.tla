------------------------------- MODULE Tunnel -------------------------------
(***************************************************************************)
(* The client connection through ssh (pkg/grpc_client): NewConnection with *)
(* its health check, and the dialer of NewConnProxyDialer, which gRPC      *)
(* calls for every attempt to connect.  A call of the dialer looks for a   *)
(* free local port, starts an ssh process that forwards it, and dials the  *)
(* port until somebody accepts.                                            *)
(*                                                                         *)
(* ssh is external: it binds the port when it has logged in, goes on       *)
(* without the forward when the port is taken (ExitOnForwardFailure is not *)
(* among the options), may exit at any time, and is never waited for.      *)
(***************************************************************************)
EXTENDS Naturals, FiniteSets

CONSTANTS
    Calls,      \* bound: calls of the dialer
    Ports,      \* local ports
    Faults      \* see FaultNames

\* "start": a pipe or the process cannot be created; "dial": an error other
\* than a refusal; "ssh": ssh exits; "taken": another process binds a port;
\* "check": the health check fails; "quit": the program ends.
FaultNames == {"start", "dial", "ssh", "taken", "check", "quit"}

ASSUME TunnelAssumption == Faults \subseteq FaultNames

VARIABLES
    conn,       \* of NewConnection: "none", "checking", "returned",
                \* "abandoned" after a failed check, "closed"
    idle,       \* gRPC has closed the transport for lack of calls
    at,         \* at[d]: where call d is, see Places
    laddr,      \* laddr[d]: the port found, or none
    expired,    \* expired[d]: cctx is done
    cancelled,  \* cancelled[d]: ctx of the process is done
    ssh,        \* ssh[d]: "none", "login", "forward", "deaf", "dead"
    pipes,      \* pipes[d]: "none", "open", "closed"
    peer,       \* peer[d]: who accepted the connection: a call's ssh, "other",
                \* or "reset" for the listener that looked for a free port
    taken,      \* ports of other processes
    alive       \* the program runs

client == <<conn, idle>>
dialer == <<at, laddr, expired, cancelled, pipes, peer>>
host == <<ssh, taken, alive>>
vars == <<client, dialer, host>>

Places == {"new", "probe", "found", "dial", "open", "closed", "failed"}
InDialer == {"probe", "found", "dial"}
Ended == {"closed", "failed"}
NoPort == 0
Running(d) == ssh[d] \in {"login", "forward", "deaf"}

Init ==
    /\ conn = "none" /\ idle = FALSE
    /\ at = [d \in Calls |-> "new"]
    /\ laddr = [d \in Calls |-> NoPort]
    /\ expired = [d \in Calls |-> FALSE]
    /\ cancelled = [d \in Calls |-> FALSE]
    /\ ssh = [d \in Calls |-> "none"]
    /\ pipes = [d \in Calls |-> "none"]
    /\ peer = [d \in Calls |-> "none"]
    /\ taken = {}
    /\ alive = TRUE

Probing(p) == \E d \in Calls : at[d] = "probe" /\ laddr[d] = p
Forwarders(p) == {d \in Calls : ssh[d] = "forward" /\ laddr[d] = p}
Bound(p) == p \in taken \/ Probing(p) \/ Forwarders(p) # {}

-----------------------------------------------------------------------------
(* NewConnection and what gRPC does with the dialer. *)

NewClient ==
    /\ alive /\ conn = "none" /\ conn' = "checking"
    /\ UNCHANGED <<idle, dialer, host>>

\* The transport of call d carries calls.
Works(d) ==
    /\ at[d] = "open" /\ peer[d] \in Calls
    /\ ssh[peer[d]] = "forward"

\* Another process may have forwarded the port to the same server.
CheckPasses ==
    /\ alive /\ conn = "checking"
    /\ \E d \in Calls : Works(d) \/ (at[d] = "open" /\ peer[d] = "other")
    /\ conn' = "returned"
    /\ UNCHANGED <<idle, dialer, host>>

\* No answer in time, an attempt to connect that failed, or a status other
\* than SERVING.  The connection is not closed.
CheckFails ==
    /\ alive /\ conn = "checking"
    /\ "check" \in Faults \/ \E d \in Calls : at[d] \in {"failed", "open"} /\ ~Works(d)
    /\ conn' = "abandoned"
    /\ UNCHANGED <<idle, dialer, host>>

\* The transports are closed: an attempt in progress has its cctx cancelled,
\* an open connection is closed, which cancels its ssh.
HangUp ==
    /\ expired' = [d \in Calls |-> expired[d] \/ at[d] \in InDialer]
    /\ at' = [d \in Calls |-> IF at[d] = "open" THEN "closed" ELSE at[d]]
    /\ cancelled' = [d \in Calls |-> cancelled[d] \/ at[d] = "open"]
    /\ UNCHANGED <<laddr, pipes, peer, host>>

IdleNever == FALSE  \* Mutant: without an idle timeout.

\* No call for DialTimeout, or ten seconds.
IdleTimeout ==
    /\ alive /\ conn \in {"returned", "abandoned"} /\ ~idle
    /\ idle' = TRUE
    /\ HangUp /\ UNCHANGED conn

\* The next call of whoever was given the connection.
Wake == alive /\ conn = "returned" /\ idle /\ idle' = FALSE /\ UNCHANGED <<conn, dialer, host>>

Hangs ==
    /\ alive /\ conn = "returned" /\ conn' = "closed"
    /\ HangUp /\ UNCHANGED idle

\* gRPC connects when there is no transport and no other attempt that has not
\* been given up.
MayDial ==
    /\ alive /\ ~idle /\ conn \in {"checking", "returned", "abandoned"}
    /\ \A d \in Calls : at[d] # "open" /\ (at[d] \in InDialer => expired[d])

\* The connect timeout of gRPC.
Expire(d) ==
    /\ alive /\ at[d] \in InDialer /\ ~expired[d]
    /\ expired' = [expired EXCEPT ![d] = TRUE]
    /\ UNCHANGED <<client, at, laddr, cancelled, pipes, peer, host>>

-----------------------------------------------------------------------------
(* The dialer. *)

Goes(d, place) == at' = [at EXCEPT ![d] = place]
Cancel(d) == cancelled' = [cancelled EXCEPT ![d] = TRUE]

\* resolveFreePort listens on any port and closes the listener.
Resolve(d) ==
    /\ MayDial /\ at[d] = "new"
    /\ \E p \in Ports : ~Bound(p) /\ laddr' = [laddr EXCEPT ![d] = p]
    /\ Goes(d, "probe")
    /\ UNCHANGED <<client, expired, cancelled, pipes, peer, host>>

ResolveFails(d) ==
    /\ MayDial /\ at[d] = "new" /\ \A p \in Ports : Bound(p)
    /\ Goes(d, "failed")
    /\ UNCHANGED <<client, laddr, expired, cancelled, pipes, peer, host>>

Resolved(d) ==
    /\ alive /\ at[d] = "probe" /\ Goes(d, "found")
    /\ UNCHANGED <<client, laddr, expired, cancelled, pipes, peer, host>>

Start(d) ==
    /\ alive /\ at[d] = "found" /\ Goes(d, "dial")
    /\ ssh' = [ssh EXCEPT ![d] = "login"]
    /\ pipes' = [pipes EXCEPT ![d] = "open"]
    /\ UNCHANGED <<client, laddr, expired, cancelled, peer, taken, alive>>

\* StdoutPipe, StderrPipe or Start; what is open is closed.
StartFails(d) ==
    /\ "start" \in Faults
    /\ alive /\ at[d] = "found" /\ Goes(d, "failed") /\ Cancel(d)
    /\ UNCHANGED <<client, laddr, expired, pipes, peer, host>>

Accepted(d, by) ==
    /\ Goes(d, "open")
    /\ peer' = [peer EXCEPT ![d] = by]
    /\ UNCHANGED <<client, laddr, expired, cancelled, pipes, host>>

\* As long as nobody has bound the port the dial is refused and tried again.
Dial(d) ==
    /\ alive /\ at[d] = "dial" /\ ~expired[d]
    /\ \/ \E f \in Forwarders(laddr[d]) : Accepted(d, f)
       \/ laddr[d] \in taken /\ Accepted(d, "other")
       \/ Probing(laddr[d]) /\ Accepted(d, "reset")

\* Mutant: after a failure the call starts another ssh.
GivesUpAgain(d) == Goes(d, "found") /\ UNCHANGED cancelled

\* Mutant: the context of the process is not cancelled.
GivesUpLeaving(d) == Goes(d, "failed") /\ UNCHANGED cancelled

GivesUp(d) == Goes(d, "failed") /\ Cancel(d)

OverNever(d) == FALSE   \* Mutant: dials and waits without cctx.

\* cctx ends the loop, long before the fifteen minutes of the backoff.
Over(d) == expired[d]

DialExpires(d) ==
    /\ alive /\ at[d] = "dial" /\ Over(d) /\ GivesUp(d)
    /\ UNCHANGED <<client, laddr, expired, pipes, peer, host>>

\* Any error but a refusal is permanent.
DialFails(d) ==
    /\ "dial" \in Faults
    /\ alive /\ at[d] = "dial" /\ GivesUp(d)
    /\ UNCHANGED <<client, laddr, expired, pipes, peer, host>>

\* ConnProxy.Close, by gRPC when the transport has failed.
Close(d) ==
    /\ alive /\ at[d] = "open" /\ ~Works(d)
    /\ Goes(d, "closed") /\ Cancel(d)
    /\ UNCHANGED <<client, laddr, expired, pipes, peer, host>>

\* The goroutine that waits for ctx.Done.
ClosePipes(d) ==
    /\ alive /\ cancelled[d] /\ pipes[d] = "open"
    /\ pipes' = [pipes EXCEPT ![d] = "closed"]
    /\ UNCHANGED <<client, at, laddr, expired, cancelled, peer, host>>

-----------------------------------------------------------------------------
(* ssh, other processes, the end of the program. *)

Ssh(d, state) ==
    ssh' = [ssh EXCEPT ![d] = state] /\ UNCHANGED <<client, dialer, taken, alive>>

Forward(d) == ssh[d] = "login" /\ Ssh(d, IF Bound(laddr[d]) THEN "deaf" ELSE "forward")
SshExits(d) == "ssh" \in Faults /\ Running(d) /\ Ssh(d, "dead")

KillNever(d) == FALSE   \* Mutant: exec.Command instead of CommandContext.

\* exec.CommandContext kills the process when ctx is done, and Pdeathsig when
\* the program has ended.
Kill(d) == Running(d) /\ (cancelled[d] \/ ~alive) /\ Ssh(d, "dead")

TakePort(p) ==
    /\ "taken" \in Faults /\ ~Bound(p)
    /\ taken' = taken \cup {p}
    /\ UNCHANGED <<client, dialer, ssh, alive>>

Quit ==
    /\ "quit" \in Faults /\ alive /\ alive' = FALSE
    /\ UNCHANGED <<client, dialer, ssh, taken>>

Call(d) ==
    \/ Resolve(d) \/ ResolveFails(d) \/ Resolved(d) \/ Start(d) \/ StartFails(d)
    \/ Dial(d) \/ DialExpires(d) \/ DialFails(d) \/ Close(d) \/ ClosePipes(d) \/ Expire(d)

Next ==
    \/ NewClient \/ CheckPasses \/ CheckFails \/ IdleTimeout \/ Wake \/ Hangs
    \/ \E d \in Calls : Call(d) \/ Forward(d) \/ SshExits(d) \/ Kill(d)
    \/ \E p \in Ports : TakePort(p)
    \/ Quit

Spec == Init /\ [][Next]_vars

\* The goroutines and the kernel run, and timers expire: gRPC's connect timeout,
\* and the idle timeout of a connection that nobody can use.
Fairness ==
    /\ \A d \in Calls :
          /\ WF_vars(Resolved(d)) /\ WF_vars(Start(d) \/ StartFails(d))
          /\ WF_vars(Expire(d)) /\ WF_vars(DialExpires(d))
          /\ WF_vars(ClosePipes(d)) /\ WF_vars(Kill(d))
    /\ WF_vars(IdleTimeout /\ conn = "abandoned")

FairSpec == Spec /\ Fairness

-----------------------------------------------------------------------------
(* Properties. *)

\* Types; only a call that has got past Start has a process, and pipes with it.
TypeOK ==
    /\ conn \in {"none", "checking", "returned", "abandoned", "closed"}
    /\ at \in [Calls -> Places]
    /\ laddr \in [Calls -> Ports \cup {NoPort}]
    /\ ssh \in [Calls -> {"none", "login", "forward", "deaf", "dead"}]
    /\ pipes \in [Calls -> {"none", "open", "closed"}]
    /\ peer \in [Calls -> Calls \cup {"none", "other", "reset"}]
    /\ \A d \in Calls :
          /\ ssh[d] = "none" <=> pipes[d] = "none"
          /\ Running(d) => at[d] \in {"dial", "open"} \cup Ended

\* An ssh process runs only as long as the call that started it is still
\* dialling or its connection is open; otherwise its end is on the way.
NoOrphan ==
    \A d \in Calls : at[d] \in Ended /\ Running(d) => cancelled[d]

\* A dial ends whatever becomes of the port: taken by another process or by
\* another call's ssh, never bound, or bound and lost again.
DialEnds == \A d \in Calls : at[d] = "dial" ~> at[d] # "dial" \/ ~alive

\* When the call has failed, its connection is closed or the program has ended,
\* the process and the pipes go.
TunnelEnds ==
    \A d \in Calls : at[d] \in Ended \/ ~alive ~> ~Running(d) /\ (alive => pipes[d] # "open")

\* NewConnection does not close a connection whose health check failed; what
\* it has started ends nevertheless.
AbandonedEnds == conn = "abandoned" ~> \A d \in Calls : ~Running(d)
=============================================================================
