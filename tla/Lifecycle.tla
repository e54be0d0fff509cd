----------------------------- MODULE Lifecycle -----------------------------
(***************************************************************************)
(* One run of one service (lifecycle.rs): the accept loop, the connections *)
(* it registers and hands to threads of their own, and `stop`, which ends  *)
(* the loop, shuts every registered connection down and waits for their    *)
(* threads, up to STOP_WAIT.  The state mutex makes each step below that   *)
(* touches `listening` or `conns` atomic; the `stopped` flag is read and   *)
(* written outside it.                                                     *)
(***************************************************************************)
EXTENDS Naturals, FiniteSets

CONSTANTS
    Conns,          \* client connections
    Stoppers,       \* threads that call stop
    ClonesFail,     \* whether try_clone can fail (out of file descriptors)
    DeadlinePasses  \* whether STOP_WAIT can run out

ASSUME LifecycleAssumption == ClonesFail \in BOOLEAN /\ DeadlinePasses \in BOOLEAN

VARIABLES
    stopped,    \* the flag
    listening,  \* State.listening: the accept loop holds the listener
    conns,      \* State.conns: registered connections
    loop,       \* the accept loop: where it is, the connection it has
    backlog,    \* connections the kernel completed, not yet accepted
    socket,     \* each client connection: "new", "open", "shut" or "closed"
    thread,     \* its thread: "none", "serving" or "done"
    stop,       \* each caller of stop
    uncloned    \* history: the connections whose socket could not be cloned

vars == <<stopped, listening, conns, loop, backlog, socket, thread, stop, uncloned>>

(* The connection `stop` makes to wake the accept loop. *)
Wake == "wake"
Nobody == "nobody"
ASSUME ClientsOnly == Wake \notin Conns /\ Nobody \notin Conns

Init ==
    /\ stopped = FALSE
    /\ listening = TRUE
    /\ conns = {}
    /\ loop = [pc |-> "accept", conn |-> Nobody]
    /\ backlog = {}
    /\ socket = [c \in Conns |-> "new"]
    /\ thread = [c \in Conns |-> "none"]
    /\ stop = [p \in Stoppers |-> [pc |-> "idle", late |-> FALSE]]
    /\ uncloned = {}

-----------------------------------------------------------------------------
(* A client connects: only while the port is open. *)
ClientConnects(c) ==
    /\ listening /\ socket[c] = "new"
    /\ socket' = [socket EXCEPT ![c] = "open"]
    /\ backlog' = backlog \union {c}
    /\ UNCHANGED <<stopped, listening, conns, loop, thread, stop, uncloned>>

(* accept returns a connection, or fails with the loop then sleeping. *)
Accept(c) ==
    /\ loop.pc = "accept" /\ c \in backlog
    /\ backlog' = backlog \ {c}
    /\ loop' = [pc |-> "check", conn |-> c]
    /\ UNCHANGED <<stopped, listening, conns, socket, thread, stop, uncloned>>

(* The listener is dropped: what was in its backlog is reset. *)
Close ==
    /\ listening' = FALSE
    /\ backlog' = {}
    /\ socket' = [c \in Conns |-> IF c \in backlog \union {loop.conn}
                                    THEN "closed" ELSE socket[c]]
    /\ loop' = [pc |-> "ended", conn |-> Nobody]

(* The flag is read once per accepted connection. *)
CheckStopped ==
    /\ loop.pc = "check"
    /\ IF stopped
         THEN Close
         ELSE /\ loop' = [loop EXCEPT !.pc = "register"]
              /\ UNCHANGED <<listening, backlog, socket>>
    /\ UNCHANGED <<stopped, conns, thread, stop, uncloned>>

(* The connection is registered under the lock and handed to its thread; if *)
(* the socket cannot be cloned it is served all the same.                   *)
RegisterConn ==
    LET c == loop.conn IN
    /\ loop.pc = "register"
    /\ loop' = [pc |-> "accept", conn |-> Nobody]
    /\ thread' = [thread EXCEPT ![c] = "serving"]
    /\ \/ conns' = conns \union {c} /\ UNCHANGED uncloned
       \/ ClonesFail /\ uncloned' = uncloned \union {c} /\ UNCHANGED conns
    /\ UNCHANGED <<stopped, listening, backlog, socket, stop>>

(* A connection's thread ends: its socket was shut down, or the client has  *)
(* closed it; dropping Conn unregisters it.                                 *)
ThreadEnds(c) ==
    /\ thread[c] = "serving" /\ socket[c] \in {"shut", "closed"}
    /\ thread' = [thread EXCEPT ![c] = "done"]
    /\ socket' = [socket EXCEPT ![c] = "closed"]
    /\ conns' = conns \ {c}
    /\ UNCHANGED <<stopped, listening, loop, backlog, stop, uncloned>>

ClientCloses(c) ==
    /\ socket[c] = "open" /\ thread[c] = "serving"
    /\ socket' = [socket EXCEPT ![c] = "closed"]
    /\ UNCHANGED <<stopped, listening, conns, loop, backlog, thread, stop, uncloned>>

-----------------------------------------------------------------------------
(* Lifecycle::stop. *)

StopCalled(p) ==
    /\ stop[p].pc = "idle"
    /\ stopped' = TRUE
    /\ stop' = [stop EXCEPT ![p].pc = "waking"]
    /\ UNCHANGED <<listening, conns, loop, backlog, socket, thread, uncloned>>

(* While the loop still listens: a connection of our own wakes it.  It may  *)
(* get lost; it is retried.                                                 *)
WakeLoop(p) ==
    /\ stop[p].pc = "waking" /\ listening /\ Wake \notin backlog
    /\ backlog' = backlog \union {Wake}
    /\ UNCHANGED <<stopped, listening, conns, loop, socket, thread, stop, uncloned>>

WakeLost ==
    /\ Wake \in backlog
    /\ backlog' = backlog \ {Wake}
    /\ UNCHANGED <<stopped, listening, conns, loop, socket, thread, stop, uncloned>>

Deadline(p) ==
    /\ DeadlinePasses /\ stop[p].pc \in {"waking", "waiting"} /\ ~stop[p].late
    /\ stop' = [stop EXCEPT ![p].late = TRUE]
    /\ UNCHANGED <<stopped, listening, conns, loop, backlog, socket, thread, uncloned>>

(* Faulty: the connections are shut down without waiting for the loop. *)
Faulty_LoopGone(p) == TRUE

(* The wait for the accept loop is over: it let go, or the deadline passed. *)
LoopGone(p) == ~listening \/ stop[p].late

(* Every registered connection is shut down. *)
ShutDownConns(p) ==
    /\ stop[p].pc = "waking" /\ LoopGone(p)
    /\ socket' = [c \in Conns |-> IF c \in conns /\ socket[c] = "open"
                                    THEN "shut" ELSE socket[c]]
    /\ stop' = [stop EXCEPT ![p].pc = "waiting"]
    /\ UNCHANGED <<stopped, listening, conns, loop, backlog, thread, uncloned>>

(* Faulty: the wait is for the deadline only. *)
Faulty_StopReturns(p) ==
    /\ stop[p].pc = "waiting" /\ stop[p].late
    /\ stop' = [stop EXCEPT ![p].pc = "returned"]
    /\ UNCHANGED <<stopped, listening, conns, loop, backlog, socket, thread, uncloned>>

(* Faulty: the connections are shut down and not waited for. *)
Faulty_StopReturnsAtOnce(p) ==
    /\ stop[p].pc = "waiting"
    /\ stop' = [stop EXCEPT ![p].pc = "returned"]
    /\ UNCHANGED <<stopped, listening, conns, loop, backlog, socket, thread, uncloned>>

(* stop returns when no connection is registered, or at the deadline. *)
StopReturns(p) ==
    /\ stop[p].pc = "waiting" /\ (conns = {} \/ stop[p].late)
    /\ stop' = [stop EXCEPT ![p].pc = "returned"]
    /\ UNCHANGED <<stopped, listening, conns, loop, backlog, socket, thread, uncloned>>

(* Nothing is left to happen. *)
Over ==
    /\ \A p \in Stoppers : stop[p].pc = "returned"
    /\ UNCHANGED vars

Next ==
    \/ \E c \in Conns : ClientConnects(c) \/ ThreadEnds(c) \/ ClientCloses(c)
    \/ \E c \in Conns \union {Wake} : Accept(c)
    \/ CheckStopped
    \/ RegisterConn
    \/ \E p \in Stoppers : \/ StopCalled(p) \/ WakeLoop(p) \/ Deadline(p)
                           \/ ShutDownConns(p) \/ StopReturns(p)
    \/ WakeLost
    \/ Over

Spec == Init /\ [][Next]_vars

(* The loop and the threads run; a wake-up that is retried gets through in  *)
(* the end.  Clients and the callers of stop owe nothing.                   *)
Fairness ==
    /\ \A c \in Conns : WF_vars(ThreadEnds(c))
    /\ \A c \in Conns \union {Wake} : SF_vars(Accept(c))
    /\ WF_vars(CheckStopped) /\ WF_vars(RegisterConn)
    /\ \A p \in Stoppers : WF_vars(WakeLoop(p)) /\ WF_vars(ShutDownConns(p))
                           /\ WF_vars(StopReturns(p))

FairSpec == Spec /\ Fairness

-----------------------------------------------------------------------------
(* Once a stop that met no deadline has shut the connections down, no       *)
(* registered connection is served on an open socket, and none ever will    *)
(* be: not the one accepted while the flag was being set, not one from the  *)
(* backlog (stop waits for the accept loop before it goes through them).    *)
NoneServedAfterStop ==
    (\E p \in Stoppers : stop[p].pc \in {"waiting", "returned"} /\ ~stop[p].late) =>
        /\ ~listening
        /\ loop.pc = "ended"
        /\ \A c \in Conns : ~(thread[c] = "serving" /\ c \in conns /\ socket[c] = "open")

(* A stop that returns before its deadline leaves no thread of the service  *)
(* running, so the state saved next is the final one (Manager::stop), but   *)
(* for connections that could not be registered for want of a descriptor.   *)
StoppedMeansOver ==
    (\E p \in Stoppers : stop[p].pc = "returned" /\ ~stop[p].late) =>
        \A c \in Conns \ uncloned : thread[c] # "serving"

(* A call of stop returns: its wake-up, tried again, gets through to the    *)
(* accept loop, and the threads end once their sockets are shut down.  The  *)
(* deadline is for a thread that is stuck in a long query (STOP_WAIT), of   *)
(* which the fairness of the threads leaves none.                           *)
StopEnds == \A p \in Stoppers : (stop[p].pc # "idle") ~> (stop[p].pc = "returned")
=============================================================================
