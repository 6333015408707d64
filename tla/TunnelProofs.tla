---------------------------- MODULE TunnelProofs ----------------------------
(***************************************************************************)
(* Theorems about the tunnel for any number of dialer calls and any ports: *)
(* the types, and that no ssh process outlives the call that started it    *)
(* without its end being under way.                                        *)
(***************************************************************************)
EXTENDS Tunnel, TLAPS

\* NoOrphan is inductive together with the types: only a call past Start has a
\* process, so a call that fails before it has none to leave.
TunnelInv == TypeOK /\ NoOrphan /\ cancelled \in [Calls -> BOOLEAN]

LEMMA InitTunnel == Init => TunnelInv
BY DEF Init, TunnelInv, TypeOK, NoOrphan, Places, NoPort, Running, Ended

\* Steps of NewConnection that leave calls, processes and pipes alone.
LEMMA ConnectionStep ==
    ASSUME TunnelInv, NewClient \/ CheckPasses \/ CheckFails \/ Wake
    PROVE  TunnelInv'
<1>1. /\ UNCHANGED <<at, laddr, ssh, pipes, peer, cancelled>>
      /\ conn' \in {conn, "checking", "returned", "abandoned"}
  BY DEF NewClient, CheckPasses, CheckFails, Wake, dialer, host
<1> QED
  BY <1>1 DEF TunnelInv, TypeOK, NoOrphan, Running

\* Whoever hangs up cancels the process of every connection it closes.
LEMMA HangUpStep ==
    ASSUME TunnelInv, IdleTimeout \/ Hangs
    PROVE  TunnelInv'
<1>1. HangUp /\ conn' \in {conn, "closed"}
  BY DEF IdleTimeout, Hangs
<1>2. /\ at' = [d \in Calls |-> IF at[d] = "open" THEN "closed" ELSE at[d]]
      /\ cancelled' = [d \in Calls |-> cancelled[d] \/ at[d] = "open"]
      /\ UNCHANGED <<laddr, ssh, pipes, peer>>
  BY <1>1 DEF HangUp, host
<1>3. /\ at' \in [Calls -> Places] /\ cancelled' \in [Calls -> BOOLEAN]
  BY <1>2 DEF TunnelInv, TypeOK, Places
<1>4. ASSUME NEW d \in Calls, Running(d)'
      PROVE  /\ at'[d] \in {"dial", "open"} \cup Ended
             /\ at'[d] \in Ended => cancelled'[d]
  <2>1. Running(d) /\ at[d] \in {"dial", "open"} \cup Ended
    BY <1>2, <1>4 DEF TunnelInv, TypeOK, Running
  <2>2. CASE at[d] = "open"
    BY <1>2, <2>2 DEF Ended
  <2>3. CASE at[d] # "open"
    BY <1>2, <2>1, <2>3 DEF Ended, TunnelInv, NoOrphan
  <2> QED
    BY <2>2, <2>3
<1> QED
  BY <1>1, <1>2, <1>3, <1>4 DEF TunnelInv, TypeOK, NoOrphan

-----------------------------------------------------------------------------
(* The dialer. *)

\* A step that moves call d, keeps its process and cancels it if d ends.
LEMMA Moves ==
    ASSUME TunnelInv, NEW d \in Calls, NEW place \in Places, Goes(d, place),
           UNCHANGED <<conn, ssh, pipes>>,
           laddr' \in [Calls -> Ports \cup {NoPort}],
           peer' \in [Calls -> Calls \cup {"none", "other", "reset"}],
           cancelled' \in [Calls -> BOOLEAN],
           \A e \in Calls : cancelled[e] => cancelled'[e],
           Running(d) => place \in {"dial", "open"} \cup Ended,
           Running(d) /\ place \in Ended => cancelled'[d]
    PROVE  TunnelInv'
<1>1. at' \in [Calls -> Places] /\ at'[d] = place
      /\ \A e \in Calls \ {d} : at'[e] = at[e]
  BY DEF Goes, TunnelInv, TypeOK
<1>2. \A e \in Calls : Running(e)' <=> Running(e)
  BY DEF Running
<1>3. ASSUME NEW e \in Calls, Running(e)
      PROVE  /\ at'[e] \in {"dial", "open"} \cup Ended
             /\ at'[e] \in Ended => cancelled'[e]
  <2>1. CASE e = d
    BY <1>1, <1>3, <2>1
  <2>2. CASE e # d
    BY <1>1, <1>3, <2>2 DEF TunnelInv, TypeOK, NoOrphan
  <2> QED
    BY <2>1, <2>2
<1> QED
  BY <1>1, <1>2, <1>3 DEF TunnelInv, TypeOK, NoOrphan

LEMMA DialerStep ==
    ASSUME TunnelInv, NEW d \in Calls, Call(d)
    PROVE  TunnelInv'
<1> USE DEF dialer, host, client
<1>0. /\ TypeOK /\ cancelled \in [Calls -> BOOLEAN]
      /\ at[d] \in {"new", "probe", "found"} => ~Running(d)
  BY DEF TunnelInv, TypeOK, Ended
<1>1. CASE Resolve(d)
  <2>1. PICK p \in Ports : laddr' = [laddr EXCEPT ![d] = p]
    BY <1>1 DEF Resolve
  <2> QED
    BY <1>0, <1>1, <2>1, Moves DEF Resolve, Places, TypeOK
<1>2. CASE ResolveFails(d)
  BY <1>0, <1>2, Moves DEF ResolveFails, Places, TypeOK
<1>3. CASE Resolved(d)
  BY <1>0, <1>3, Moves DEF Resolved, Places, TypeOK
<1>4. CASE Start(d)
  <2>1. /\ at' = [at EXCEPT ![d] = "dial"] /\ ssh' = [ssh EXCEPT ![d] = "login"]
        /\ pipes' = [pipes EXCEPT ![d] = "open"]
        /\ UNCHANGED <<conn, laddr, peer, cancelled>>
    BY <1>4 DEF Start, Goes
  <2>2. ASSUME NEW e \in Calls
        PROVE  /\ ssh'[e] = "none" <=> pipes'[e] = "none"
               /\ Running(e)' => at'[e] \in {"dial", "open"} \cup Ended
               /\ at'[e] \in Ended /\ Running(e)' => cancelled'[e]
    <3>1. CASE e = d
      BY <1>0, <2>1, <3>1 DEF TypeOK, Ended
    <3>2. CASE e # d
      BY <2>1, <3>2 DEF TunnelInv, TypeOK, NoOrphan, Running
    <3> QED
      BY <3>1, <3>2
  <2> QED
    BY <2>1, <2>2 DEF TunnelInv, TypeOK, NoOrphan, Places
<1>5. CASE StartFails(d)
  BY <1>0, <1>5, Moves DEF StartFails, Cancel, Places, TypeOK
<1>6. CASE Dial(d)
  <2>1. PICK by \in Calls \cup {"other", "reset"} : Accepted(d, by)
    BY <1>6 DEF Dial, Forwarders
  <2>2. /\ Goes(d, "open") /\ peer' = [peer EXCEPT ![d] = by]
        /\ UNCHANGED <<conn, ssh, pipes, laddr, cancelled>>
    BY <2>1 DEF Accepted
  <2>3. peer' \in [Calls -> Calls \cup {"none", "other", "reset"}]
    BY <1>0, <2>2 DEF TypeOK
  <2>4. "open" \in Places /\ "open" \in {"dial", "open"} \cup Ended /\ "open" \notin Ended
    BY DEF Places, Ended
  <2>5. laddr' \in [Calls -> Ports \cup {NoPort}] /\ cancelled' = cancelled
    BY <1>0, <2>2 DEF TypeOK
  <2> QED
    BY <1>0, <2>2, <2>3, <2>4, <2>5, Moves
<1>7. CASE DialExpires(d) \/ DialFails(d)
  BY <1>0, <1>7, Moves DEF DialExpires, DialFails, GivesUp, Cancel, Places, Ended, TypeOK
<1>8. CASE Close(d)
  BY <1>0, <1>8, Moves DEF Close, Cancel, Places, Ended, TypeOK
<1>9. CASE ClosePipes(d)
  <2>1. pipes' = [pipes EXCEPT ![d] = "closed"] /\ pipes[d] = "open"
        /\ UNCHANGED <<conn, at, laddr, ssh, peer, cancelled>>
    BY <1>9 DEF ClosePipes
  <2> QED
    BY <2>1 DEF TunnelInv, TypeOK, NoOrphan, Running
<1>10. CASE Expire(d)
  <2>1. UNCHANGED <<conn, at, laddr, ssh, pipes, peer, cancelled>>
    BY <1>10 DEF Expire
  <2> QED
    BY <2>1 DEF TunnelInv, TypeOK, NoOrphan, Running
<1> QED
  BY <1>1, <1>2, <1>3, <1>4, <1>5, <1>6, <1>7, <1>8, <1>9, <1>10 DEF Call

-----------------------------------------------------------------------------
(* The host. *)

LEMMA HostStep ==
    ASSUME TunnelInv,
           \/ \E d \in Calls : Forward(d) \/ SshExits(d) \/ Kill(d)
           \/ \E p \in Ports : TakePort(p)
           \/ Quit
    PROVE  TunnelInv'
<1> USE DEF dialer, host, client
<1>1. CASE \E d \in Calls : Forward(d) \/ SshExits(d) \/ Kill(d)
  <2>1. PICK d \in Calls, s \in {"deaf", "forward", "dead"} : Running(d) /\ Ssh(d, s)
    BY <1>1 DEF Forward, SshExits, Kill, Running
  <2>2. /\ ssh' = [ssh EXCEPT ![d] = s] /\ ssh[d] # "none"
        /\ UNCHANGED <<conn, at, laddr, pipes, peer, cancelled>>
    BY <2>1 DEF Ssh, Running
  <2>3. \A e \in Calls : Running(e)' => Running(e)
    BY <2>1, <2>2 DEF Running, TunnelInv, TypeOK
  <2> QED
    BY <2>2, <2>3 DEF TunnelInv, TypeOK, NoOrphan
<1>2. CASE (\E p \in Ports : TakePort(p)) \/ Quit
  <2>1. UNCHANGED <<conn, at, laddr, ssh, pipes, peer, cancelled>>
    BY <1>2 DEF TakePort, Quit
  <2> QED
    BY <2>1 DEF TunnelInv, TypeOK, NoOrphan, Running
<1> QED
  BY <1>1, <1>2

LEMMA TunnelInvariant == Spec => []TunnelInv
<1>1. TunnelInv /\ [Next]_vars => TunnelInv'
  <2> SUFFICES ASSUME TunnelInv, [Next]_vars PROVE TunnelInv'
    OBVIOUS
  <2>1. CASE UNCHANGED vars
    BY <2>1 DEF vars, client, dialer, host, TunnelInv, TypeOK, NoOrphan, Running
  <2>2. CASE Next
    BY <2>2, ConnectionStep, HangUpStep, DialerStep, HostStep DEF Next
  <2> QED
    BY <2>1, <2>2
<1> QED
  BY InitTunnel, <1>1, PTL DEF Spec

\* A process whose call has failed or whose connection is closed has had its
\* context cancelled: on every path of NewConnProxyDialer, of ConnProxy.Close
\* and of gRPC hanging up, for any number of calls at once.
THEOREM ProcessesHaveOwners == Spec => []NoOrphan
<1>1. TunnelInv => NoOrphan
  BY DEF TunnelInv
<1> QED
  BY <1>1, TunnelInvariant, PTL

\* The types: in particular, a call has its process and its pipes together, and
\* no process runs before cmd.Start.
THEOREM TunnelTyped == Spec => []TypeOK
<1>1. TunnelInv => TypeOK
  BY DEF TunnelInv
<1> QED
  BY <1>1, TunnelInvariant, PTL
=============================================================================
