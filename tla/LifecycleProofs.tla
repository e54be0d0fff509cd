--------------------------- MODULE LifecycleProofs ---------------------------
(***************************************************************************)
(* The safety of Lifecycle for any number of connections and of callers of *)
(* stop.  NoneServedAfterStop is not inductive: it does not say that the   *)
(* accept loop, once it has let go of the listener, registers nobody, nor  *)
(* that the connection that wakes it is never taken for a client's.  IInv  *)
(* says so: the loop listens until it has ended, it holds a connection to  *)
(* register only if that is a client's, and the wake-up exists only after  *)
(* the flag is set.                                                        *)
(***************************************************************************)
EXTENDS Lifecycle, TLAPS

TypeOK ==
    /\ stopped \in BOOLEAN /\ listening \in BOOLEAN
    /\ conns \subseteq Conns
    /\ loop \in [pc : {"accept", "check", "register", "ended"}, conn : Conns \union {Wake, Nobody}]
    /\ backlog \subseteq Conns \union {Wake}
    /\ socket \in [Conns -> {"new", "open", "shut", "closed"}]
    /\ thread \in [Conns -> {"none", "serving", "done"}]
    /\ stop \in [Stoppers -> [pc : {"idle", "waking", "waiting", "returned"}, late : BOOLEAN]]
    /\ uncloned \subseteq Conns

\* Where the accept loop is, and what it has in its hands.
LoopSound ==
    /\ listening <=> loop.pc # "ended"
    /\ Wake \in backlog \/ loop.conn = Wake => stopped
    /\ \A p \in Stoppers : stop[p].pc # "idle" => stopped
    /\ loop.pc = "check" => loop.conn # Nobody
    /\ loop.pc = "register" => loop.conn \in Conns
    /\ \A c \in Conns : thread[c] = "serving" => c \in conns \union uncloned

\* What a stop that met no deadline has found and left.
StopSound ==
    \A p \in Stoppers : ~stop[p].late =>
        /\ stop[p].pc \in {"waiting", "returned"} => ~listening /\ \A c \in conns : socket[c] # "open"
        /\ stop[p].pc = "returned" => conns = {}

IInv == TypeOK /\ LoopSound /\ StopSound
-----------------------------------------------------------------------------
\* The types and the accept loop, one step.
LEMMA LoopStaysSound ==
    ASSUME IInv, [Next]_vars
    PROVE  TypeOK' /\ LoopSound'
<1> USE ClientsOnly DEF IInv, TypeOK, LoopSound, Wake, Nobody
<1>1. ASSUME NEW c \in Conns, ClientConnects(c) PROVE TypeOK' /\ LoopSound'
  BY <1>1 DEF ClientConnects
<1>2. ASSUME NEW c \in Conns, ThreadEnds(c) PROVE TypeOK' /\ LoopSound'
  BY <1>2 DEF ThreadEnds
<1>3. ASSUME NEW c \in Conns, ClientCloses(c) PROVE TypeOK' /\ LoopSound'
  BY <1>3 DEF ClientCloses
<1>4. ASSUME NEW c \in Conns \union {Wake}, Accept(c) PROVE TypeOK' /\ LoopSound'
  BY <1>4 DEF Accept
<1>5. CASE CheckStopped
  <2>1. CASE stopped
    <3>1. loop' = [pc |-> "ended", conn |-> Nobody] /\ listening' = FALSE /\ backlog' = {}
          /\ UNCHANGED <<stopped, conns, thread, stop, uncloned>>
      BY <1>5, <2>1 DEF CheckStopped, Close
    <3>2. socket' \in [Conns -> {"new", "open", "shut", "closed"}]
      BY <1>5, <2>1 DEF CheckStopped, Close
    <3>3. QED
      BY <3>1, <3>2
  <2>2. CASE ~stopped
    BY <1>5, <2>2 DEF CheckStopped
  <2>3. QED
    BY <2>1, <2>2
<1>6. CASE RegisterConn
  BY <1>6 DEF RegisterConn
<1>7. ASSUME NEW p \in Stoppers,
             StopCalled(p) \/ WakeLoop(p) \/ Deadline(p) \/ ShutDownConns(p) \/ StopReturns(p)
      PROVE  TypeOK' /\ LoopSound'
  <2>1. CASE StopCalled(p)
    BY <2>1 DEF StopCalled
  <2>2. CASE WakeLoop(p)
    BY <2>2 DEF WakeLoop
  <2>3. CASE Deadline(p)
    <3>1. stop' = [stop EXCEPT ![p] = [stop[p] EXCEPT !.late = TRUE]]
      BY <2>3 DEF Deadline
    <3>2. stop[p] \in [pc : {"idle", "waking", "waiting", "returned"}, late : BOOLEAN]
      OBVIOUS
    <3>3. /\ [stop[p] EXCEPT !.late = TRUE] \in [pc : {"idle", "waking", "waiting", "returned"}, late : BOOLEAN]
          /\ [stop[p] EXCEPT !.late = TRUE].pc = stop[p].pc
      BY <3>2
    <3>4. /\ stop' \in [Stoppers -> [pc : {"idle", "waking", "waiting", "returned"}, late : BOOLEAN]]
          /\ \A q \in Stoppers : stop'[q].pc = stop[q].pc
      BY <3>1, <3>3
    <3>5. QED
      BY <2>3, <3>4 DEF Deadline
  <2>4. CASE ShutDownConns(p)
    BY <2>4 DEF ShutDownConns
  <2>5. CASE StopReturns(p)
    BY <2>5 DEF StopReturns
  <2>6. QED
    BY <1>7, <2>1, <2>2, <2>3, <2>4, <2>5
<1>8. CASE WakeLost
  BY <1>8 DEF WakeLost
<1>9. CASE UNCHANGED vars
  BY <1>9 DEF vars
<1>10. QED
  BY <1>1, <1>2, <1>3, <1>4, <1>5, <1>6, <1>7, <1>8, <1>9 DEF Next, Over

\* What a stop has found stays, one step: nobody registers when the loop has
\* ended, and no socket is opened.
LEMMA StopStaysSound ==
    ASSUME IInv, [Next]_vars
    PROVE  StopSound'
<1> USE ClientsOnly DEF IInv, TypeOK, LoopSound, StopSound, Wake, Nobody
<1>1. ASSUME NEW c \in Conns, ClientConnects(c) PROVE StopSound'
  BY <1>1 DEF ClientConnects
<1>2. ASSUME NEW c \in Conns, ThreadEnds(c) PROVE StopSound'
  BY <1>2 DEF ThreadEnds
<1>3. ASSUME NEW c \in Conns, ClientCloses(c) PROVE StopSound'
  BY <1>3 DEF ClientCloses
<1>4. ASSUME NEW c \in Conns \union {Wake}, Accept(c) PROVE StopSound'
  BY <1>4 DEF Accept
<1>5. CASE CheckStopped
  <2>1. CASE stopped
    <3>1. \A c \in Conns : socket'[c] = "open" => socket[c] = "open"
      BY <1>5, <2>1 DEF CheckStopped, Close
    <3>2. QED
      BY <1>5, <2>1, <3>1 DEF CheckStopped, Close
  <2>2. CASE ~stopped
    BY <1>5, <2>2 DEF CheckStopped
  <2>3. QED
    BY <2>1, <2>2
<1>6. CASE RegisterConn
  BY <1>6 DEF RegisterConn
<1>7. ASSUME NEW p \in Stoppers, StopCalled(p) \/ Deadline(p) \/ StopReturns(p) PROVE StopSound'
  <2>1. \A q \in Stoppers \ {p} : stop'[q] = stop[q]
    BY <1>7 DEF StopCalled, Deadline, StopReturns
  <2>2. UNCHANGED <<listening, conns, socket>>
    BY <1>7 DEF StopCalled, Deadline, StopReturns
  <2>3. ~stop'[p].late => /\ stop'[p].pc \in {"waiting", "returned"} => stop[p].pc = "waiting" /\ ~stop[p].late
                          /\ stop'[p].pc = "returned" => conns = {}
    BY <1>7 DEF StopCalled, Deadline, StopReturns
  <2>4. QED
    BY <2>1, <2>2, <2>3
<1>8. ASSUME NEW p \in Stoppers, ShutDownConns(p) PROVE StopSound'
  <2>1. \A c \in Conns : /\ socket'[c] = "open" => socket[c] = "open"
                         /\ c \in conns => socket'[c] # "open"
    BY <1>8 DEF ShutDownConns
  <2>2. \A q \in Stoppers \ {p} : stop'[q] = stop[q]
    BY <1>8 DEF ShutDownConns
  <2>3. stop'[p].pc = "waiting" /\ stop'[p].late = stop[p].late
    BY <1>8 DEF ShutDownConns
  <2>4. ~stop[p].late => ~listening
    BY <1>8 DEF ShutDownConns, LoopGone
  <2>5. UNCHANGED <<listening, conns>>
    BY <1>8 DEF ShutDownConns
  <2>6. QED
    BY <2>1, <2>2, <2>3, <2>4, <2>5
<1>9. CASE UNCHANGED <<listening, conns, socket, stop>>
  BY <1>9
<1>10. QED
  BY <1>1, <1>2, <1>3, <1>4, <1>5, <1>6, <1>7, <1>8, <1>9 DEF Next, Over, WakeLoop, WakeLost, vars

\* IInv holds throughout.
LEMMA Inductive == Spec => []IInv
<1>1. Init => IInv
  <2>1. Init => TypeOK
    <3>1. ASSUME Init PROVE /\ socket \in [Conns -> {"new", "open", "shut", "closed"}]
                            /\ thread \in [Conns -> {"none", "serving", "done"}]
      BY <3>1 DEF Init
    <3>2. ASSUME Init PROVE stop \in [Stoppers -> [pc : {"idle", "waking", "waiting", "returned"}, late : BOOLEAN]]
      BY <3>2 DEF Init
    <3>3. ASSUME Init PROVE loop \in [pc : {"accept", "check", "register", "ended"}, conn : Conns \union {Wake, Nobody}]
      BY <3>3 DEF Init
    <3>4. ASSUME Init PROVE stopped \in BOOLEAN /\ listening \in BOOLEAN
      BY <3>4, Zenon DEF Init
    <3>5. ASSUME Init PROVE conns = {} /\ backlog = {} /\ uncloned = {}
      BY <3>5, Zenon DEF Init
    <3>6. QED
      BY <3>1, <3>2, <3>3, <3>4, <3>5 DEF TypeOK
  <2>2. Init => LoopSound /\ StopSound
    BY DEF Init, LoopSound, StopSound, Wake, Nobody
  <2>3. QED
    BY <2>1, <2>2 DEF IInv
<1>2. IInv /\ [Next]_vars => IInv'
  BY LoopStaysSound, StopStaysSound DEF IInv
<1>3. QED
  BY <1>1, <1>2, PTL DEF Spec
-----------------------------------------------------------------------------
(* A connection may be accepted while stop sets the flag, or wait in the    *)
(* backlog: when stop has shut the connections down within its deadline the *)
(* accept loop is over and no registered connection is served on an open    *)
(* socket, however many connect and however often stop is called.           *)
THEOREM NobodyServedAfterStop == Spec => []NoneServedAfterStop
<1>1. IInv => NoneServedAfterStop
  BY DEF IInv, TypeOK, LoopSound, StopSound, NoneServedAfterStop
<1>2. QED
  BY <1>1, Inductive, PTL

(* The state saved after a stop is final: a stop that returns within its    *)
(* deadline leaves no thread of a registered connection running.            *)
THEOREM StopLeavesNoThread == Spec => []StoppedMeansOver
<1>1. IInv => StoppedMeansOver
  BY DEF IInv, TypeOK, LoopSound, StopSound, StoppedMeansOver
<1>2. QED
  BY <1>1, Inductive, PTL
=============================================================================
