---------------------------- MODULE ServerProofs ----------------------------
(***************************************************************************)
(* Theorems about the server for any number of clients, any keys and any   *)
(* bounds: its types, what readiness means, and that the server uses its   *)
(* storage as FileStore allows, so that what holds of FileStore holds in   *)
(* the server.                                                             *)
(***************************************************************************)
EXTENDS Server, FileStoreProofs

\* The gateway runs between ServeProxy and StopProxy, in no failing start; an
\* error is pending only while the start unwinds; nobody is inside a call once
\* GracefulStop has returned.
LifeInv ==
    /\ LifeTypeOK
    /\ proxy \in {"started", "listening"} => stage \in {"ready", "waiting", "stopping"} /\ ~failing
    /\ failing => stage \in {"stopping", "draining", "drained"}
    /\ stage = "drained" => Drained

LEMMA InitLife == ServerInit => LifeInv
BY DEF ServerInit, Init, LifeInv, LifeTypeOK, Stages

\* Every way out of the process leaves nothing of the life behind it.
LEMMA ExitsLife == ASSUME Exits PROVE LifeInv'
BY DEF Exits, End, LifeInv, LifeTypeOK, Stages

LEMMA StartLife ==
    ASSUME LifeInv,
           \/ Listen \/ ListenFails \/ NotConfigured \/ Connect \/ ConnectFails
           \/ ServeProxy \/ ProxyListens \/ Notify
    PROVE  LifeInv'
<1>1. CASE ListenFails
  BY <1>1, ExitsLife DEF ListenFails
<1>2. CASE NotConfigured \/ ConnectFails
  BY <1>2 DEF NotConfigured, ConnectFails, Fails, LifeInv, LifeTypeOK, Stages, vars, store
<1>3. CASE Listen \/ Connect \/ Notify
  BY <1>3 DEF Listen, Connect, Notify, Reaches, LifeInv, LifeTypeOK, Stages, vars, store
<1>4. CASE ServeProxy \/ ProxyListens
  <2>1. /\ UNCHANGED <<up, failing>> /\ IsReady' \in BOOLEAN
        /\ stage = "connected" \/ proxy = "started"
        /\ proxy' \in {"started", "listening", "ended"}
        /\ stage' = stage \/ (stage = "connected" /\ stage' = "ready")
    BY <1>4 DEF ServeProxy, ProxyListens, vars, store, LifeInv, LifeTypeOK
  <2>2. ~failing /\ stage' \in {"ready", "waiting", "stopping"}
    BY <1>4, <2>1 DEF ServeProxy, ProxyListens, LifeInv
  <2> QED
    BY <2>1, <2>2 DEF LifeInv, LifeTypeOK, Stages
<1> QED
  BY <1>1, <1>2, <1>3, <1>4

LEMMA StopLife ==
    ASSUME LifeInv,
           Signal \/ Kill \/ StopProxy \/ GracefulStop \/ CloseStore \/ Boot
    PROVE  LifeInv'
<1>1. CASE Signal
  <2>1. CASE Heard(stage)
    BY <1>1, <2>1 DEF Signal, Heard, Reaches, LifeInv, LifeTypeOK, Stages, vars, store
  <2>2. CASE ~Heard(stage)
    BY <1>1, <2>2, ExitsLife DEF Signal
  <2> QED
    BY <2>1, <2>2
<1>2. CASE Kill
  BY <1>2, ExitsLife DEF Kill
<1>3. CASE StopProxy
  BY <1>3 DEF StopProxy, LifeInv, LifeTypeOK, Stages, vars, store
<1>4. CASE GracefulStop
  BY <1>4 DEF GracefulStop, Reaches, Drained, LifeInv, LifeTypeOK, Stages, vars, store
<1>5. CASE CloseStore
  <2>1. CASE failing
    BY <1>5, <2>1, ExitsLife DEF CloseStore
  <2>2. CASE ~failing
    BY <1>5, <2>2 DEF CloseStore, CloseFiles, End, LifeInv, LifeTypeOK, Stages
  <2> QED
    BY <2>1, <2>2
<1>6. CASE Boot
  BY <1>6 DEF Boot, Open, LifeInv, LifeTypeOK, Stages
<1> QED
  BY <1>1, <1>2, <1>3, <1>4, <1>5, <1>6

\* A call changes who is inside it, but not after GracefulStop.
LEMMA CallLife ==
    ASSUME LifeInv, FlushCall \/ \E c \in Clients : SaveCall(c)
    PROVE  LifeInv'
<1>1. up' = up /\ UNCHANGED lifecycle
  BY DEF FlushCall, SaveCall, Flush, Look, Write
<1>2. stage = "drained" => UNCHANGED pc
  BY DEF FlushCall, SaveCall, Flush, Accepting, Write, LifeInv, Drained
<1> QED
  BY <1>1, <1>2 DEF LifeInv, LifeTypeOK, Drained, lifecycle

LEMMA LifeInvariant == ServerSpec => []LifeInv
<1>1. LifeInv /\ [ServerNext]_serverVars => LifeInv'
  <2> SUFFICES ASSUME LifeInv, [ServerNext]_serverVars PROVE LifeInv'
    OBVIOUS
  <2>1. CASE UNCHANGED serverVars
    BY <2>1 DEF serverVars, vars, store, lifecycle, LifeInv, LifeTypeOK, Drained
  <2>2. CASE ServerNext
    BY <2>2, StartLife, StopLife, CallLife DEF ServerNext
  <2> QED
    BY <2>1, <2>2
<1> QED
  BY InitLife, <1>1, PTL DEF ServerSpec

\* The gateway answers "ok" only while the gRPC server behind it accepts calls,
\* the storage is open and the start has not failed.
THEOREM ReadyWhileServing == ServerSpec => []ReadyMeansServing
<1>1. LifeInv => ReadyMeansServing
  BY DEF LifeInv, LifeTypeOK, ReadyMeansServing, Accepting
<1> QED
  BY <1>1, LifeInvariant, PTL

-----------------------------------------------------------------------------
(* The storage. *)

LEMMA ExitIsCrash == ASSUME up, Exits PROVE Crash
BY ServerAssumption DEF Exits, Crash

LEMMA StepUsesStore ==
    ASSUME LifeInv, ServerNext PROVE [Next]_vars
<1>0. stage # "exited" => up
  BY DEF LifeInv, LifeTypeOK
<1>1. CASE \/ Listen \/ NotConfigured \/ Connect \/ ConnectFails \/ ServeProxy
           \/ ProxyListens \/ Notify \/ StopProxy \/ GracefulStop
  BY <1>1 DEF Listen, NotConfigured, Connect, ConnectFails, ServeProxy, ProxyListens, Notify,
              StopProxy, GracefulStop, Fails, Reaches
<1>2. CASE ListenFails \/ Kill
  BY <1>0, <1>2, ExitIsCrash DEF ListenFails, Kill, Next
<1>3. CASE Signal
  BY <1>0, <1>3, ExitIsCrash DEF Signal, Reaches, Next
<1>4. CASE CloseStore
  <2>1. stage = "drained" /\ up /\ Drained
    BY <1>0, <1>4 DEF CloseStore, LifeInv
  <2>2. CASE failing
    BY <1>4, <2>1, <2>2, ExitIsCrash DEF CloseStore, Next
  <2>3. CASE ~failing
    BY <1>4, <2>1, <2>3 DEF CloseStore, Drained, Close, Next
  <2> QED
    BY <2>2, <2>3
<1>5. CASE Boot
  BY <1>5 DEF Boot, Next
<1>6. CASE FlushCall \/ \E c \in Clients : SaveCall(c)
  BY <1>6 DEF FlushCall, SaveCall, Next
<1> QED
  BY <1>1, <1>2, <1>3, <1>4, <1>5, <1>6 DEF ServerNext

\* Seen from the storage, every behaviour of the server is one of FileStore: it
\* is opened and closed in turn, no Save is in progress when it is closed, and
\* every other end of the process is a crash.
THEOREM ServerUsesFileStore == ServerSpec => ImplementsFileStore
<1>1. LifeInv /\ [ServerNext]_serverVars => [Next]_vars
  BY StepUsesStore DEF serverVars
<1>2. ServerInit => Init
  BY DEF ServerInit
<1> QED
  BY <1>1, <1>2, LifeInvariant, PTL DEF ServerSpec, ImplementsFileStore, Spec

\* A server whose every life ended by a clean stop has every row it acknowledged
\* in the file or in the buffer, in order: what the storage promises to callers
\* that use it as allowed holds in the server.
THEOREM ServerLosesNothing == ServerSpec => []NothingLost
  BY ServerUsesFileStore, AcknowledgedRowsStay, PTL DEF ImplementsFileStore

\* And what crashes cost is what FileStore says they cost, though a server that
\* is killed or told to stop twice ends at any moment of its life.
THEOREM ServerCrashesArePaid == ServerSpec => []CrashCost
  BY ServerUsesFileStore, CrashesArePaid, PTL DEF ImplementsFileStore

\* The types of the server's life, that its storage is open until the process
\* ends, and, by the refinement, the types of the files and of the calls.
THEOREM ServerTyped == ServerSpec => []ServerTypeOK
<1>1. LifeInv /\ TypeOK => ServerTypeOK
  BY DEF LifeInv, ServerTypeOK
<1> QED
  BY <1>1, LifeInvariant, ServerUsesFileStore, StorageTyped, PTL DEF ImplementsFileStore
=============================================================================
