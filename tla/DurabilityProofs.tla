-------------------------- MODULE DurabilityProofs --------------------------
(***************************************************************************)
(* What persistence.rs and services.rs promise of acknowledged changes, for *)
(* every number of services, requests, changes and restarts.               *)
(*                                                                         *)
(* The argument has two parts.  An acknowledged change is in the memory in *)
(* use, in what a stop writes, and in the file once the service is down:   *)
(* so nothing loaded from the file misses any.  And whenever the autosave  *)
(* finds that the counter of a service has not moved since it last saved   *)
(* it, the file holds every change that was marked with or after it.       *)
(***************************************************************************)
EXTENDS PersistenceProofs

(* An earlier instance of s, or a deletion, left something unsaved that no  *)
(* save of instance i makes up for.                                         *)
Lost(s, i) == \E j \in 0..MaxInstances : j < i /\ <<s, j>> \in history.spoiled

(* The same for any instance: s is one of SaveMissing.                      *)
Missing(s) == \E j \in 0..MaxInstances : <<s, j>> \in history.spoiled

(* No instance of s can reach its file.                                     *)
Idle(s) == \A i \in Instances : ~Used(s, i)

Deleting(s) == mgr.pc = "delete" /\ mgr.s = s

(* Thread t has copied the memory of instance i of s and not renamed yet.   *)
Writes(t, s, i) == job[t].step \in {"write", "rename"} /\ job[t].s = s /\ job[t].inst = i

(* The autosave has remembered the counter of s and waits for save_lock.    *)
Locking(s) == auto.pc = "locking" /\ auto.s = s

(* The autosave's save of s is over, but not its turn.                      *)
Over(s) == auto.pc = "saving" /\ auto.s = s /\ job["autosave"].step = "done"

(* The autosave has remembered the counter of s and not saved it yet.       *)
Between(s) == auto.pc \in {"locking", "saving"} /\ auto.s = s /\ ~Over(s)

(* The round of the autosave has not come to s yet.                         *)
Waits(s) == \E i \in Instances : <<s, i>> \in auto.list

(* A change that was marked no earlier than it was made, and acknowledged   *)
(* or about to be.                                                          *)
Noted(s, c) ==
    /\ c \notin history.loose
    /\ \/ c \in history.acked[s]
       \/ \E k \in Clients : /\ client[k].pc = "reply" /\ client[k].s = s
                             /\ client[k].inst = accepting[s] /\ client[k].c = c

-----------------------------------------------------------------------------
Histories ==
    /\ history.acked \in [Services -> Snapshots]
    /\ history.due \in [Services -> Snapshots]
    /\ history.covered \in [Services -> Snapshots]
    /\ history.loose \subseteq ChangeIds
    /\ history.spoiled \subseteq Services \X (0..MaxInstances)
    /\ \A s \in Services : /\ history.due[s] \subseteq history.acked[s]
                           /\ history.covered[s] \subseteq history.acked[s]
    /\ up => \A s \in Services, j \in 0..MaxInstances :
                 <<s, j>> \in history.spoiled => j <= latest[s]

(* When the process is gone, so is all it had in memory.                    *)
Gone ==
    ~up => /\ \A s \in Services : accepting[s] = 0 /\ savers[s] = 0
           /\ auto.pc = "sleep" /\ auto.list = {}
           /\ mgr.pc = "idle"
           /\ \A t \in Threads : job[t].step = "none"
           /\ \A k \in Clients : client[k].pc = "idle"

(* The instance in use is the last that was built.                          *)
Newest == \A s \in Services, i \in Instances : Used(s, i) => i = latest[s]

(* A request that has been applied is in memory, and one that is not marked *)
(* with or after its change is known to be loose.                           *)
Applied ==
    \A k \in Clients :
        /\ client[k].pc \in {"postmark", "reply"} =>
              client[k].c \in engine[client[k].s][client[k].inst]
        /\ client[k].pc \in {"premark", "apply"} =>
              (client[k].site \in {"before", "never"} => client[k].c \in history.loose)

(* The autosave: what it works on, and that it never counts too far.        *)
Watching ==
    /\ auto.pc = "sleep" => auto.list = {}
    /\ auto.pc = "saving" <=> job["autosave"].step # "none"
    /\ Active("autosave") => job["autosave"].s = auto.s /\ job["autosave"].inst = auto.inst
    /\ \A s \in Services : auto.saved[s] <= changes[s]

(* What is acknowledged is in the memory in use ...                         *)
KeptMem ==
    \A s \in Services, i \in Instances :
        Used(s, i) /\ ~Lost(s, i) => history.acked[s] \subseteq engine[s][i]

(* ... in what a stop is writing ...                                        *)
KeptBuf ==
    \A s \in Services, i \in Instances :
        Writes("manager", s, i) /\ ~Lost(s, i) =>
            history.acked[s] \subseteq job["manager"].buf

(* ... and in the file once the service is down.                            *)
KeptFile ==
    \A s \in Services :
        up /\ Idle(s) /\ ~Missing(s) /\ ~Deleting(s) => history.acked[s] \subseteq disk[s]

(* When the counters agree, what was noted is in the file ...               *)
CountedFile ==
    \A s \in Services, c \in ChangeIds :
        up /\ ~Missing(s) /\ changes[s] = auto.saved[s] /\ ~Between(s) =>
            (Noted(s, c) => c \in disk[s])

(* ... and in what is about to replace it.                                  *)
CountedBuf ==
    \A t \in Threads, s \in Services, i \in Instances, c \in ChangeIds :
        Writes(t, s, i) /\ ~Lost(s, i) /\ changes[s] = auto.saved[s] /\ ~Locking(s) =>
            (Noted(s, c) => c \in job[t].buf)

(* What was acknowledged before the last complete round is in the file, and *)
(* what was acknowledged before the present one as soon as it has come to   *)
(* the service ...                                                          *)
RoundFile ==
    \A s \in Services : ~Missing(s) =>
        /\ history.covered[s] \ history.loose \subseteq disk[s]
        /\ up => Waits(s) \/ history.due[s] \ history.loose \subseteq disk[s]

(* ... also while the autosave's own save of it is over but not its turn    *)
RoundOver ==
    \A s \in Services : Over(s) /\ ~Missing(s) =>
        history.due[s] \ history.loose \subseteq disk[s]

(* ... and the same holds of what is about to replace the file.             *)
RoundBuf ==
    \A t \in Threads, s \in Services, i \in Instances :
        Writes(t, s, i) /\ ~Lost(s, i) =>
            /\ history.covered[s] \ history.loose \subseteq job[t].buf
            /\ \/ t # "autosave" /\ Waits(s)
               \/ history.due[s] \ history.loose \subseteq job[t].buf

DInv ==
    /\ Histories /\ Gone /\ Newest /\ Applied /\ Watching
    /\ KeptMem /\ KeptBuf /\ KeptFile
    /\ CountedFile /\ CountedBuf
    /\ RoundFile /\ RoundOver /\ RoundBuf

-----------------------------------------------------------------------------
(* Which instances are in use, and which saves are under way, depends on    *)
(* the registered savers, the open sockets and the saves only.              *)
LEMMA SamePlaces ==
    ASSUME UNCHANGED <<savers, accepting, job>>
    PROVE  /\ \A s \in Services, i \in Instances : Used(s, i)' = Used(s, i)
           /\ \A s \in Services : Idle(s)' = Idle(s)
           /\ \A t \in Threads, s \in Services, i \in Instances :
                 Writes(t, s, i)' = Writes(t, s, i)
    BY Zenon DEF Used, Idle, Writes, Active

(* Where the autosave stands depends on its own state and its save.         *)
LEMMA SameTurn ==
    ASSUME auto' = auto, job'["autosave"] = job["autosave"]
    PROVE  /\ \A s \in Services : Locking(s)' = Locking(s)
           /\ \A s \in Services : Over(s)' = Over(s)
           /\ \A s \in Services : Between(s)' = Between(s)
           /\ \A s \in Services : Waits(s)' = Waits(s)
    BY Zenon DEF Locking, Over, Between, Waits

(* A failed or skipped save is remembered.                                  *)
LEMMA SpoiledGrows ==
    ASSUME history.spoiled \subseteq history'.spoiled
    PROVE  /\ \A s \in Services, i \in Instances : Lost(s, i) => Lost(s, i)'
           /\ \A s \in Services : Missing(s) => Missing(s)'
    BY Zenon DEF Lost, Missing

(* A save that misses nothing loses nothing.                                *)
LEMMA LostIsMissing ==
    ASSUME NEW s \in Services, NEW i \in Instances, Lost(s, i)
    PROVE  Missing(s)
    BY Zenon DEF Lost, Missing

(* A step that stores nothing and brings no instance into use keeps what is *)
(* acknowledged.                                                            *)
LEMMA KeptFrame ==
    ASSUME KeptMem, KeptBuf, KeptFile,
           up' => up, disk' = disk, history'.acked = history.acked,
           \A s \in Services, i \in Instances : Used(s, i)' => Used(s, i),
           \A s \in Services, i \in Instances : Lost(s, i) => Lost(s, i)',
           \A s \in Services : Missing(s) => Missing(s)',
           \A s \in Services, i \in Instances : engine[s][i] \subseteq engine'[s][i],
           \A s \in Services, i \in Instances : Writes("manager", s, i)' =>
               Writes("manager", s, i) /\ job'["manager"].buf = job["manager"].buf,
           \A s \in Services : Idle(s)' /\ ~Deleting(s)' =>
               (Idle(s) /\ ~Deleting(s)) \/ Missing(s)'
    PROVE  KeptMem' /\ KeptBuf' /\ KeptFile'
<1>1. KeptMem'
    <2> SUFFICES ASSUME NEW s \in Services, NEW i \in Instances, Used(s, i)', ~Lost(s, i)'
                 PROVE  history'.acked[s] \subseteq engine'[s][i]
        BY Zenon DEF KeptMem
    <2> QED
        BY Zenon DEF KeptMem
<1>2. KeptBuf'
    <2> SUFFICES ASSUME NEW s \in Services, NEW i \in Instances,
                        Writes("manager", s, i)', ~Lost(s, i)'
                 PROVE  history'.acked[s] \subseteq job'["manager"].buf
        BY Zenon DEF KeptBuf
    <2> QED
        BY Zenon DEF KeptBuf
<1>3. KeptFile'
    <2> SUFFICES ASSUME NEW s \in Services, up', Idle(s)', ~Missing(s)', ~Deleting(s)'
                 PROVE  history'.acked[s] \subseteq disk'[s]
        BY Zenon DEF KeptFile
    <2> QED
        BY Zenon DEF KeptFile
<1> QED
    BY <1>1, <1>2, <1>3, Zenon

(* A step that stores nothing and after which the counters of a service     *)
(* agree only if they did before keeps what is said of noted changes.       *)
LEMMA CountedFrame ==
    ASSUME CountedFile, CountedBuf, up' => up, disk' = disk,
           \A s \in Services, i \in Instances : Lost(s, i) => Lost(s, i)',
           \A s \in Services : Missing(s) => Missing(s)',
           \A s \in Services : changes'[s] = auto'.saved[s] =>
               \/ changes[s] = auto.saved[s]
               \/ Between(s)' /\ \A t \in Threads, i \in Instances : Writes(t, s, i)' => Locking(s)',
           \A s \in Services : changes'[s] = auto'.saved[s] =>
               \A c \in ChangeIds : Noted(s, c)' => Noted(s, c),
           \A s \in Services : Between(s) => Between(s)' \/ Missing(s)',
           \A t \in Threads, s \in Services, i \in Instances : Writes(t, s, i)' =>
               /\ Writes(t, s, i) /\ job'[t].buf = job[t].buf
               /\ Locking(s) => Locking(s)'
    PROVE  CountedFile' /\ CountedBuf'
<1>1. CountedFile'
    <2> SUFFICES ASSUME NEW s \in Services, NEW c \in ChangeIds, up', ~Missing(s)',
                        changes'[s] = auto'.saved[s], ~Between(s)', Noted(s, c)'
                 PROVE  c \in disk'[s]
        BY Zenon DEF CountedFile
    <2>1. Noted(s, c) /\ ~Missing(s) /\ ~Between(s) /\ changes[s] = auto.saved[s]
        OBVIOUS
    <2> QED
        BY <2>1, Zenon DEF CountedFile
<1>2. CountedBuf'
    <2> SUFFICES ASSUME NEW t \in Threads, NEW s \in Services, NEW i \in Instances,
                        NEW c \in ChangeIds, Writes(t, s, i)', ~Lost(s, i)',
                        changes'[s] = auto'.saved[s], ~Locking(s)', Noted(s, c)'
                 PROVE  c \in job'[t].buf
        BY Zenon DEF CountedBuf
    <2>1. /\ Noted(s, c) /\ ~Lost(s, i) /\ ~Locking(s) /\ changes[s] = auto.saved[s]
          /\ Writes(t, s, i) /\ job'[t].buf = job[t].buf
        OBVIOUS
    <2> QED
        BY <2>1, Zenon DEF CountedBuf
<1> QED
    BY <1>1, <1>2, Zenon

(* A step that stores nothing and ends no turn of the autosave keeps what   *)
(* is said of its rounds.                                                   *)
LEMMA RoundsFrame ==
    ASSUME RoundFile, RoundOver, RoundBuf, up' => up, disk' = disk,
           history'.due = history.due, history'.covered = history.covered,
           history.loose \subseteq history'.loose,
           \A s \in Services, i \in Instances : Lost(s, i) => Lost(s, i)',
           \A s \in Services : Missing(s) => Missing(s)',
           \A s \in Services : Waits(s) => Waits(s)',
           \A s \in Services : Over(s)' => Over(s) \/ Missing(s)',
           \A t \in Threads, s \in Services, i \in Instances : Writes(t, s, i)' =>
               Writes(t, s, i) /\ job'[t].buf = job[t].buf
    PROVE  RoundFile' /\ RoundOver' /\ RoundBuf'
<1>1. RoundFile'
    <2> SUFFICES ASSUME NEW s \in Services, ~Missing(s)'
                 PROVE  /\ history'.covered[s] \ history'.loose \subseteq disk'[s]
                        /\ up' => Waits(s)' \/ history'.due[s] \ history'.loose \subseteq disk'[s]
        BY Zenon DEF RoundFile
    <2> QED
        BY Zenon DEF RoundFile
<1>2. RoundOver'
    <2> SUFFICES ASSUME NEW s \in Services, ~Missing(s)', Over(s)'
                 PROVE  history'.due[s] \ history'.loose \subseteq disk'[s]
        BY Zenon DEF RoundOver
    <2> QED
        BY Zenon DEF RoundOver
<1>3. RoundBuf'
    <2> SUFFICES ASSUME NEW t \in Threads, NEW s \in Services, NEW i \in Instances,
                        Writes(t, s, i)', ~Lost(s, i)'
                 PROVE  /\ history'.covered[s] \ history'.loose \subseteq job'[t].buf
                        /\ \/ t # "autosave" /\ Waits(s)'
                           \/ history'.due[s] \ history'.loose \subseteq job'[t].buf
        BY Zenon DEF RoundBuf
    <2>1. Writes(t, s, i) /\ ~Lost(s, i) /\ job'[t].buf = job[t].buf
        OBVIOUS
    <2> QED
        BY <2>1, Zenon DEF RoundBuf
<1> QED
    BY <1>1, <1>2, <1>3, Zenon

(* Nothing is newly noted when nothing new is acknowledged or replied to.   *)
LEMMA NotedFrame ==
    ASSUME IInv, history'.acked = history.acked, history.loose \subseteq history'.loose,
           client' = client,
           NEW s \in Services, accepting'[s] \in {0, accepting[s]}
    PROVE  \A c \in ChangeIds : Noted(s, c)' => Noted(s, c)
<1>1. \A k \in Clients : client[k].pc = "reply" => client[k].inst # 0
    BY RequestParts DEF IInv, Instances
<1> QED
    BY <1>1, Zenon DEF Noted

-----------------------------------------------------------------------------
(* The steps of a client request. *)

(* A step that moves nothing, and only adds to what is in memory.            *)
LEMMA KeptInPlace ==
    ASSUME DInv, UNCHANGED <<up, savers, accepting, job, disk, mgr>>,
           history'.acked = history.acked, history.spoiled \subseteq history'.spoiled,
           \A s \in Services, i \in Instances : engine[s][i] \subseteq engine'[s][i]
    PROVE  KeptMem' /\ KeptBuf' /\ KeptFile'
<1>1. \A s \in Services, i \in Instances : Writes("manager", s, i)' =>
         Writes("manager", s, i) /\ job'["manager"].buf = job["manager"].buf
    BY SamePlaces, Zenon DEF Threads
<1>2. \A s \in Services : Idle(s)' /\ ~Deleting(s)' => Idle(s) /\ ~Deleting(s)
    BY SamePlaces, Zenon DEF Deleting
<1>3. \A s \in Services, i \in Instances : Used(s, i)' => Used(s, i)
    BY SamePlaces, Zenon
<1> QED
    BY <1>1, <1>2, <1>3, SpoiledGrows, KeptFrame, Zenon DEF DInv

(* What a step of a request does not disturb, as long as it notes no change *)
(* without moving the counter.                                              *)
LEMMA ClientFrame ==
    ASSUME IInv, DInv, up,
           UNCHANGED <<up, accepting, latest, savers, job, disk, auto, mgr>>,
           history'.due = history.due, history'.covered = history.covered,
           history'.spoiled = history.spoiled, history.loose \subseteq history'.loose,
           \A s \in Services : changes'[s] \in Nat /\ changes'[s] >= changes[s],
           \A s \in Services : changes'[s] = changes[s] =>
               \A c \in ChangeIds : Noted(s, c)' => Noted(s, c)
    PROVE  /\ Gone' /\ Newest' /\ Watching'
           /\ CountedFile' /\ CountedBuf'
           /\ RoundFile' /\ RoundOver' /\ RoundBuf'
<1>1. Gone'
    BY Zenon DEF Gone
<1>2. Newest'
    BY SamePlaces, Zenon DEF DInv, Newest
<1>3. \A s \in Services : changes[s] \in Nat /\ auto.saved[s] \in Nat /\ auto.saved[s] <= changes[s]
    BY Zenon DEF IInv, TypeOK, Autosaves, DInv, Watching
<1>5. Watching'
    <2>1. \A s \in Services : auto'.saved[s] <= changes'[s]
        BY <1>3
    <2> QED
        BY <2>1, Zenon DEF DInv, Watching, Active
<1>6. \A s \in Services : changes'[s] = auto'.saved[s] =>
         changes[s] = auto.saved[s] /\ changes'[s] = changes[s]
    BY <1>3
<1>7. CountedFile' /\ CountedBuf'
    BY <1>6, CountedFrame, SamePlaces, SameTurn, SpoiledGrows, Zenon DEF DInv
<1>8. RoundFile' /\ RoundOver' /\ RoundBuf'
    BY RoundsFrame, SamePlaces, SameTurn, SpoiledGrows, Zenon DEF DInv
<1> QED
    BY <1>1, <1>2, <1>5, <1>7, <1>8, Zenon

(* A request that is read has not been replied to.                          *)
LEMMA RequestIsKept ==
    ASSUME IInv, DInv, NEW k \in Clients, NEW s \in Services, NEW site \in MarkSites[s],
           Request(k, s, site)
    PROVE  DInv'
<1> DEFINE new == [pc |-> IF site = "before" THEN "premark" ELSE "apply",
                   s |-> s, inst |-> accepting[s], c |-> history.next, site |-> site]
<1>1. /\ new.pc \in {"premark", "apply"} /\ new.c = history.next /\ new.site = site
      /\ client' = [client EXCEPT ![k] = new]
    BY Zenon DEF Request
<1> HIDE DEF new
<1>2. /\ client'[k] = new
      /\ \A x \in Clients : x # k => client'[x] = client[x]
    BY <1>1, Zenon DEF IInv, TypeOK
<1>3. /\ history'.acked = history.acked /\ history'.due = history.due
      /\ history'.covered = history.covered /\ history'.spoiled = history.spoiled
      /\ history'.loose = IF site \in {"before", "never"}
                          THEN history.loose \union {history.next} ELSE history.loose
    BY Zenon DEF IInv, HistoryOK, Request
<1>4. history.next \in ChangeIds
    BY PersistenceAssumption DEF IInv, HistoryOK, Request, ChangeIds
<1>5. up /\ UNCHANGED <<up, accepting, latest, engine, changes, savers, job, disk, auto, mgr>>
    BY Zenon DEF Request
<1>6. Histories'
    BY <1>3, <1>4, <1>5, Zenon DEF DInv, Histories
<1>7. Applied'
    <2> SUFFICES ASSUME NEW x \in Clients
                 PROVE  /\ client'[x].pc \in {"postmark", "reply"} =>
                              client'[x].c \in engine'[client'[x].s][client'[x].inst]
                        /\ client'[x].pc \in {"premark", "apply"} =>
                              (client'[x].site \in {"before", "never"} =>
                                 client'[x].c \in history'.loose)
        BY Zenon DEF Applied
    <2>1. CASE x = k
        BY <1>1, <1>2, <1>3, <2>1, Zenon
    <2>2. CASE x # k
        BY <1>2, <1>3, <1>5, <2>2, Zenon DEF DInv, Applied
    <2> QED
        BY <2>1, <2>2, Zenon
<1>8. KeptMem' /\ KeptBuf' /\ KeptFile'
    BY <1>3, <1>5, KeptInPlace, Zenon
<1>9. \A x \in Services, c \in ChangeIds : Noted(x, c)' => Noted(x, c)
    BY <1>1, <1>2, <1>3, <1>5 DEF Noted
<1>10. \A x \in Services : changes'[x] \in Nat /\ changes'[x] >= changes[x]
    BY <1>5 DEF IInv, TypeOK
<1> QED
    BY <1>3, <1>5, <1>6, <1>7, <1>8, <1>9, <1>10, ClientFrame, Zenon DEF DInv

(* mark on its own: before the change nothing is replied to, after it the   *)
(* counter has moved.                                                       *)
LEMMA MarkStepIsKept ==
    ASSUME IInv, DInv, NEW k \in Clients, MarkStep(k)
    PROVE  DInv'
<1>1. /\ up /\ client[k].pc \in {"premark", "postmark"}
      /\ UNCHANGED <<up, accepting, latest, engine, savers, job, disk, auto, mgr, history>>
    BY Zenon DEF MarkStep
<1>2. /\ client[k].s \in Services
      /\ client[k] \in [pc : {"premark", "apply", "postmark"}, s : Services,
                        inst : Instances, c : ChangeIds,
                        site : {"inside", "before", "after", "never"}]
    BY <1>1, RequestParts, Zenon DEF IInv
<1>3. /\ client'[k].s = client[k].s /\ client'[k].inst = client[k].inst
      /\ client'[k].c = client[k].c
      /\ client[k].pc = "premark" => client'[k].pc = "apply" /\ client'[k].site = client[k].site
      /\ client[k].pc = "postmark" => client'[k].pc = "reply"
      /\ \A x \in Clients : x # k => client'[x] = client[x]
    BY <1>1, <1>2, Zenon DEF MarkStep, Replying, IInv, TypeOK
<1>4. /\ changes'[client[k].s] = changes[client[k].s] + 1
      /\ \A s \in Services : s # client[k].s => changes'[s] = changes[s]
      /\ \A s \in Services : changes[s] \in Nat
    BY <1>2, Zenon DEF MarkStep, Marked, IInv, TypeOK
<1>5. Histories'
    BY <1>1, Zenon DEF DInv, Histories
<1>6. Applied'
    <2> SUFFICES ASSUME NEW x \in Clients
                 PROVE  /\ client'[x].pc \in {"postmark", "reply"} =>
                              client'[x].c \in engine'[client'[x].s][client'[x].inst]
                        /\ client'[x].pc \in {"premark", "apply"} =>
                              (client'[x].site \in {"before", "never"} =>
                                 client'[x].c \in history'.loose)
        BY Zenon DEF Applied
    <2>1. CASE x = k
        BY <1>1, <1>3, <2>1, Zenon DEF DInv, Applied
    <2>2. CASE x # k
        BY <1>1, <1>3, <2>2, Zenon DEF DInv, Applied
    <2> QED
        BY <2>1, <2>2, Zenon
<1>7. KeptMem' /\ KeptBuf' /\ KeptFile'
    BY <1>1, KeptInPlace, Zenon
<1>8. \A s \in Services : changes'[s] = changes[s] =>
         \A c \in ChangeIds : Noted(s, c)' => Noted(s, c)
    <2> SUFFICES ASSUME NEW s \in Services, s # client[k].s, NEW c \in ChangeIds, Noted(s, c)'
                 PROVE  Noted(s, c)
        BY <1>4
    <2> QED
        BY <1>1, <1>3, Zenon DEF Noted
<1>9. \A s \in Services : changes'[s] \in Nat /\ changes'[s] >= changes[s]
    BY <1>4
<1> QED
    BY <1>1, <1>5, <1>6, <1>7, <1>8, <1>9, ClientFrame, Zenon DEF DInv

(* The change: one that is marked later is not replied to yet, one that was *)
(* marked before, or never, is loose, and one marked with it is counted.    *)
LEMMA ApplyIsKept ==
    ASSUME IInv, DInv, NEW k \in Clients, Apply(k)
    PROVE  DInv'
<1> DEFINE r == client[k]
<1>1. /\ up /\ r.pc = "apply"
      /\ UNCHANGED <<up, accepting, latest, savers, job, disk, auto, mgr, history>>
    BY Zenon DEF Apply
<1>2. /\ r.s \in Services /\ r.inst \in Instances
      /\ r \in [pc : {"premark", "apply", "postmark"}, s : Services,
                inst : Instances, c : ChangeIds,
                site : {"inside", "before", "after", "never"}]
    BY <1>1, RequestParts, Zenon DEF IInv
<1>3. /\ client'[k].s = r.s /\ client'[k].inst = r.inst
      /\ client'[k].c = r.c
      /\ r.site = "after" => client'[k].pc = "postmark"
      /\ r.site # "after" => client'[k].pc = "reply"
      /\ \A x \in Clients : x # k => client'[x] = client[x]
    BY <1>1, <1>2, Zenon DEF Apply, Replying, IInv, TypeOK
<1>4. /\ r.site = "inside" => changes'[r.s] = changes[r.s] + 1
      /\ r.site # "inside" => changes' = changes
      /\ \A s \in Services : s # r.s => changes'[s] = changes[s]
      /\ \A s \in Services : changes[s] \in Nat
    BY <1>2, Zenon DEF Apply, Marked, IInv, TypeOK
<1>5. /\ \A s \in Services, i \in Instances : engine[s][i] \subseteq engine'[s][i]
      /\ r.c \in engine'[r.s][r.inst]
    BY <1>2, Zenon DEF Apply, IInv, TypeOK
<1> HIDE DEF r
<1>6. Histories'
    BY <1>1, Zenon DEF DInv, Histories
<1>7. Applied'
    <2> SUFFICES ASSUME NEW x \in Clients
                 PROVE  /\ client'[x].pc \in {"postmark", "reply"} =>
                              client'[x].c \in engine'[client'[x].s][client'[x].inst]
                        /\ client'[x].pc \in {"premark", "apply"} =>
                              (client'[x].site \in {"before", "never"} =>
                                 client'[x].c \in history'.loose)
        BY DEF Applied
    <2>1. CASE x = k
        BY <1>1, <1>2, <1>3, <1>5, <2>1, Zenon
    <2>2. CASE x # k
        <3>1. client[x].pc \in {"postmark", "reply"} =>
                 client[x].s \in Services /\ client[x].inst \in Instances
            BY RequestParts, Zenon DEF IInv
        <3> QED
            BY <1>1, <1>3, <1>5, <2>2, <3>1, Zenon DEF DInv, Applied
    <2> QED
        BY <2>1, <2>2
<1>8. KeptMem' /\ KeptBuf' /\ KeptFile'
    BY <1>1, <1>5, KeptInPlace, Zenon
<1>9. \A s \in Services : changes'[s] = changes[s] =>
         \A c \in ChangeIds : Noted(s, c)' => Noted(s, c)
    <2> SUFFICES ASSUME NEW s \in Services, changes'[s] = changes[s],
                        NEW c \in ChangeIds, Noted(s, c)'
                 PROVE  Noted(s, c)
        OBVIOUS
    <2>1. s = r.s => r.site # "inside"
        BY <1>4
    <2>2. r.site \in {"before", "never"} => r.c \in history.loose
        BY <1>1, Zenon DEF DInv, Applied, r
    <2>3. client'[k].pc = "reply" /\ client'[k].s = s /\ client'[k].c = c => c \in history.loose
        BY <1>2, <1>3, <2>1, <2>2, Zenon
    <2> QED
        BY <1>1, <1>3, <2>3, Zenon DEF Noted
<1>10. \A s \in Services : changes'[s] \in Nat /\ changes'[s] >= changes[s]
    BY <1>4
<1> QED
    BY <1>1, <1>6, <1>7, <1>8, <1>9, <1>10, ClientFrame, Zenon DEF DInv

(* A reply on an open socket acknowledges a change that is in the memory in *)
(* use; nothing is down, and no stop is saving.                             *)
LEMMA ReplyIsKept ==
    ASSUME IInv, DInv, NEW k \in Clients, Reply(k)
    PROVE  DInv'
<1> DEFINE r == client[k]
           heard == accepting[r.s] = r.inst
<1>1. /\ up /\ r.pc = "reply"
      /\ UNCHANGED <<up, accepting, latest, engine, changes, savers, job, disk, auto, mgr>>
    BY Zenon DEF Reply
<1>2. r.s \in Services /\ r.inst \in Instances /\ r.c \in ChangeIds
    BY <1>1, RequestParts, Zenon DEF IInv
<1>3. /\ client'[k].pc = "idle"
      /\ \A x \in Clients : x # k => client'[x] = client[x]
    BY Zenon DEF Reply, NoClient, IInv, TypeOK
<1>4. /\ history'.due = history.due /\ history'.covered = history.covered
      /\ history'.spoiled = history.spoiled /\ history'.loose = history.loose
      /\ heard => history'.acked = [history.acked EXCEPT ![r.s] = @ \union {r.c}]
      /\ ~heard => history'.acked = history.acked
    BY Zenon DEF Reply, IInv, HistoryOK
<1>5. /\ \A s \in Services : s # r.s => history'.acked[s] = history.acked[s]
      /\ heard => history'.acked[r.s] = history.acked[r.s] \union {r.c}
      /\ \A s \in Services : history.acked[s] \subseteq history'.acked[s]
      /\ history'.acked \in [Services -> Snapshots]
    BY <1>2, <1>4 DEF DInv, Histories, Snapshots
<1>6. r.c \in engine[r.s][r.inst]
    BY <1>1, Zenon DEF DInv, Applied
<1> HIDE DEF r
<1>7. Histories'
    <2>1. \A s \in Services : /\ history'.due[s] \subseteq history'.acked[s]
                              /\ history'.covered[s] \subseteq history'.acked[s]
        BY <1>4, <1>5, Zenon DEF DInv, Histories
    <2> QED
        BY <1>1, <1>4, <1>5, <2>1, Zenon DEF DInv, Histories
<1>8. Applied'
    BY <1>1, <1>3, <1>4, Zenon DEF DInv, Applied
<1>9. heard => Used(r.s, r.inst) /\ accepting[r.s] = r.inst
    BY Zenon DEF Used
<1>10. KeptMem'
    <2> SUFFICES ASSUME NEW s \in Services, NEW i \in Instances, Used(s, i), ~Lost(s, i)
                 PROVE  history'.acked[s] \subseteq engine[s][i]
        BY <1>1, <1>4, SamePlaces, Zenon DEF KeptMem, Lost
    <2>1. history.acked[s] \subseteq engine[s][i]
        BY Zenon DEF DInv, KeptMem
    <2>2. heard /\ s = r.s => i = r.inst
        BY <1>2, <1>9, Zenon DEF DInv, Newest
    <2> QED
        BY <1>4, <1>5, <1>6, <2>1, <2>2
<1>11. KeptBuf'
    <2> SUFFICES ASSUME NEW s \in Services, NEW i \in Instances,
                        Writes("manager", s, i), ~Lost(s, i)
                 PROVE  history'.acked[s] \subseteq job["manager"].buf
        BY <1>1, <1>4, SamePlaces, Zenon DEF KeptBuf, Lost, Threads
    <2>1. mgr.pc = "saving" /\ mgr.s = s
        BY Zenon DEF Writes, IInv, Saving, Active, Threads
    <2>2. accepting[s] = 0
        BY <2>1, Zenon DEF IInv, Managed, Busy
    <2>3. heard => s # r.s
        BY <1>2, <2>2 DEF Instances
    <2> QED
        BY <1>4, <1>5, <2>3, Zenon DEF DInv, KeptBuf
<1>12. KeptFile'
    <2> SUFFICES ASSUME NEW s \in Services, Idle(s), ~Missing(s), ~Deleting(s)
                 PROVE  history'.acked[s] \subseteq disk[s]
        BY <1>1, <1>4, SamePlaces, Zenon DEF KeptFile, Missing, Deleting
    <2>1. heard => s # r.s
        BY <1>2, <1>9, Zenon DEF Idle
    <2> QED
        BY <1>1, <1>4, <1>5, <2>1, Zenon DEF DInv, KeptFile
<1>13. \A s \in Services, c \in ChangeIds : Noted(s, c)' => Noted(s, c)
    <2> SUFFICES ASSUME NEW s \in Services, NEW c \in ChangeIds, Noted(s, c)'
                 PROVE  Noted(s, c)
        OBVIOUS
    <2>1. c \notin history.loose
        BY <1>4, Zenon DEF Noted
    <2>2. CASE c \in history'.acked[s]
        <3>1. c \in history.acked[s] \/ (heard /\ s = r.s /\ c = r.c)
            BY <1>4, <1>5, <2>2, Zenon
        <3> QED
            BY <1>1, <2>1, <3>1, Zenon DEF Noted, r
    <2>3. CASE c \notin history'.acked[s]
        BY <1>1, <1>3, <2>1, <2>3, Zenon DEF Noted
    <2> QED
        BY <2>2, <2>3, Zenon
<1>14. \A s \in Services : changes'[s] \in Nat /\ changes'[s] >= changes[s]
    BY <1>1 DEF IInv, TypeOK
<1> QED
    BY <1>1, <1>4, <1>7, <1>8, <1>10, <1>11, <1>12, <1>13, <1>14, ClientFrame, Zenon DEF DInv

-----------------------------------------------------------------------------
(* The steps of a save. *)

(* What was noted for the instance in use is in its memory.                 *)
LEMMA NotedInMemory ==
    ASSUME IInv, DInv, NEW s \in Services, NEW i \in Instances, Used(s, i), ~Lost(s, i),
           NEW c \in ChangeIds, Noted(s, c)
    PROVE  c \in engine[s][i]
<1>1. CASE c \in history.acked[s]
    BY <1>1, Zenon DEF DInv, KeptMem
<1>2. CASE c \notin history.acked[s]
    <2>1. PICK k \in Clients : /\ client[k].pc = "reply" /\ client[k].s = s
                               /\ client[k].inst = accepting[s] /\ client[k].c = c
        BY <1>2, Zenon DEF Noted
    <2>2. client[k].inst \in Instances
        BY <2>1, RequestParts, Zenon DEF IInv
    <2>3. Used(s, client[k].inst)
        BY <2>1, Zenon DEF Used
    <2>4. client[k].inst = i
        BY <2>2, <2>3, Zenon DEF DInv, Newest
    <2> QED
        BY <2>1, <2>4, Zenon DEF DInv, Applied
<1> QED
    BY <1>1, <1>2, Zenon

(* Only the thread that holds save_lock has a save under way.               *)
LEMMA OneSave ==
    ASSUME IInv, NEW t \in Threads, job[t].step # "none"
    PROVE  \A u \in Threads : u # t => job[u].step = "none"
    BY Zenon DEF IInv, Locked

(* The copy: all that is acknowledged or noted is in memory, so in it.      *)
LEMMA SaveBeginIsKept ==
    ASSUME IInv, DInv, NEW t \in Threads, SaveBegin(t)
    PROVE  DInv'
<1> DEFINE s == job[t].s
           i == job[t].inst
<1>1. /\ up /\ job[t].step = "snapshot"
      /\ UNCHANGED <<up, accepting, latest, engine, changes, savers, disk, auto, mgr, client, history>>
    BY Zenon DEF SaveBegin
<1>2. /\ Active(t) /\ s \in Services /\ i \in Instances
    BY <1>1, JobParts, Zenon DEF IInv, Active
<1>3. /\ job'[t].step = "write" /\ job'[t].s = s /\ job'[t].inst = i
      /\ job'[t].buf = engine[s][i]
      /\ \A u \in Threads : u # t => job'[u] = job[u]
    BY Zenon DEF SaveBegin, IInv, TypeOK
<1>4. \A u \in Threads : u # t => job[u].step = "none"
    BY <1>1, OneSave, Zenon
<1> HIDE DEF s, i
<1>5. \A x \in Services, y \in Instances : Used(x, y)' = Used(x, y)
    BY <1>1, <1>3 DEF Used, Active, s, i
<1>6. Used(s, i)
    BY <1>2, Zenon DEF Used, s, i
<1>7. \A u \in Threads, x \in Services, y \in Instances :
         Writes(u, x, y)' => u = t /\ x = s /\ y = i
    BY <1>3, <1>4, Zenon DEF Writes
<1>8. /\ \A x \in Services : Idle(x)' = Idle(x) /\ Deleting(x)' = Deleting(x)
      /\ \A x \in Services : Missing(x)' = Missing(x)
      /\ \A x \in Services, y \in Instances : Lost(x, y)' = Lost(x, y)
      /\ \A x \in Services, c \in ChangeIds : Noted(x, c)' = Noted(x, c)
    BY <1>1, <1>5, Zenon DEF Idle, Deleting, Missing, Lost, Noted
<1>9. \A x \in Services : /\ Waits(x)' = Waits(x) /\ Locking(x)' = Locking(x)
                          /\ Over(x)' = Over(x) /\ Between(x)' = Between(x)
    <2>1. (job'["autosave"].step = "done") = (job["autosave"].step = "done")
        BY <1>1, <1>3, Zenon DEF Threads
    <2>2. auto' = auto
        BY <1>1, Zenon
    <2>3. \A x \in Services : Over(x)' = Over(x)
        BY <2>1, <2>2, Zenon DEF Over
    <2> QED
        BY <2>2, <2>3, Zenon DEF Waits, Locking, Between
<1>10. Histories' /\ Gone' /\ Applied'
    BY <1>1, Zenon DEF DInv, Histories, Gone, Applied
<1>11. Newest'
    BY <1>1, <1>5, Zenon DEF DInv, Newest
<1>12. Watching'
    <2>1. \/ job'["autosave"] = job["autosave"]
          \/ /\ job["autosave"].step # "none" /\ job'["autosave"].step # "none"
             /\ Active("autosave") /\ job'["autosave"].s = job["autosave"].s
             /\ job'["autosave"].inst = job["autosave"].inst
        BY <1>1, <1>2, <1>3, Zenon DEF Threads, s, i
    <2> QED
        BY <1>1, <2>1, Zenon DEF DInv, Watching, Active
<1>13. KeptMem' /\ KeptFile'
    BY <1>1, <1>5, <1>8, Zenon DEF DInv, KeptMem, KeptFile
<1>14. ~Lost(s, i) => history.acked[s] \subseteq engine[s][i]
    BY <1>2, <1>6, Zenon DEF DInv, KeptMem
<1>15. KeptBuf'
    BY <1>1, <1>3, <1>7, <1>8, <1>14, Zenon DEF KeptBuf, Threads
<1>16. CountedFile'
    BY <1>1, <1>8, <1>9, Zenon DEF DInv, CountedFile
<1>17. CountedBuf'
    <2>1. \A c \in ChangeIds : ~Lost(s, i) /\ Noted(s, c) => c \in engine[s][i]
        BY <1>2, <1>6, NotedInMemory, Zenon
    <2> QED
        BY <1>3, <1>7, <1>8, <2>1 DEF CountedBuf
<1>18. RoundFile' /\ RoundOver'
    BY <1>1, <1>8, <1>9, Zenon DEF DInv, RoundFile, RoundOver
<1>19. RoundBuf'
    <2>1. history.covered[s] \subseteq history.acked[s] /\ history.due[s] \subseteq history.acked[s]
        BY <1>2, Zenon DEF DInv, Histories
    <2>2. ~Lost(s, i) => /\ history.covered[s] \ history.loose \subseteq engine[s][i]
                         /\ history.due[s] \ history.loose \subseteq engine[s][i]
        BY <1>14, <2>1, Zenon
    <2> QED
        BY <1>1, <1>3, <1>7, <1>8, <2>2 DEF RoundBuf
<1> QED
    BY <1>10, <1>11, <1>12, <1>13, <1>15, <1>16, <1>17, <1>18, <1>19, Zenon DEF DInv

(* The write: one that fails is remembered as a missing save.               *)
LEMMA SaveWriteIsKept ==
    ASSUME IInv, DInv, NEW t \in Threads, SaveWrite(t)
    PROVE  DInv'
<1> DEFINE s == job[t].s
           i == job[t].inst
           fails == job'[t].step = "done"
<1>1. /\ up /\ job[t].step = "write"
      /\ UNCHANGED <<up, accepting, latest, engine, changes, savers, disk, auto, mgr, client>>
    BY Zenon DEF SaveWrite
<1>2. /\ Active(t) /\ s \in Services /\ i \in Instances
      /\ job[t] \in [step : {"write", "rename"}, s : Services, inst : Instances, buf : Snapshots]
    BY <1>1, JobParts, Zenon DEF IInv, Active
<1>3. \A u \in Threads : u # t => job'[u] = job[u] /\ job[u].step = "none"
    <2>1. \A u \in Threads : u # t => job'[u] = job[u]
        BY Zenon DEF SaveWrite, IInv, TypeOK
    <2> QED
        BY <1>1, <2>1, OneSave, Zenon
<1>4. \/ /\ ~fails /\ job'[t].step = "rename" /\ job'[t].s = s /\ job'[t].inst = i
         /\ job'[t].buf = job[t].buf /\ history' = history
      \/ fails /\ history' = Spoiled(s, i)
    BY <1>1, <1>2 DEF SaveWrite, IInv, TypeOK
<1>5. /\ history'.acked = history.acked /\ history'.due = history.due
      /\ history'.covered = history.covered /\ history'.loose = history.loose
      /\ ~fails => history'.spoiled = history.spoiled
      /\ fails => history'.spoiled = history.spoiled \union {<<s, i>>}
    BY <1>4, Zenon DEF Spoiled, IInv, HistoryOK
<1>6. job'[t].step \in {"rename", "done"}
    BY <1>4, Zenon
<1>7. Histories'
    <2>1. i <= latest[s] /\ i \in 0..MaxInstances
        BY <1>2, PersistenceAssumption DEF IInv, Saving, Instances
    <2> QED
        BY <1>1, <1>2, <1>5, <2>1 DEF DInv, Histories
<1> HIDE DEF s, i, fails
<1>8. /\ \A x \in Services, y \in Instances : Used(x, y)' => Used(x, y)
      /\ \A x \in Services, y \in Instances : Used(x, y) => Used(x, y)' \/ (fails /\ x = s)
    BY <1>1, <1>2, <1>3, <1>4 DEF Used, Active, s, i, fails
<1>9. \A u \in Threads, x \in Services, y \in Instances :
         Writes(u, x, y)' => Writes(u, x, y) /\ job'[u].buf = job[u].buf
    BY <1>1, <1>3, <1>4, Zenon DEF Writes, s, i, fails
<1>10. history.spoiled \subseteq history'.spoiled
    BY <1>5, Zenon
<1>11. \A x \in Services : fails /\ x = s => Missing(x)'
    <2>1. i \in 0..MaxInstances
        BY <1>2, PersistenceAssumption DEF Instances
    <2> QED
        BY <1>5, <2>1, Zenon DEF Missing
<1>12. \A x \in Services : Idle(x)' /\ ~Deleting(x)' =>
          (Idle(x) /\ ~Deleting(x)) \/ Missing(x)'
    BY <1>1, <1>8, <1>11, Zenon DEF Idle, Deleting
<1>13. Gone' /\ Applied'
    BY <1>1, <1>5, Zenon DEF DInv, Gone, Applied
<1>14. Newest'
    BY <1>1, <1>8, Zenon DEF DInv, Newest
<1>15. Watching'
    <2>1. \/ job'["autosave"] = job["autosave"]
          \/ /\ job["autosave"].step # "none" /\ job'["autosave"].step # "none"
             /\ Active("autosave")
             /\ \/ job'["autosave"].step = "done"
                \/ /\ job'["autosave"].s = job["autosave"].s
                   /\ job'["autosave"].inst = job["autosave"].inst
        BY <1>1, <1>2, <1>3, <1>4, Zenon DEF Threads, s, i, fails
    <2> QED
        BY <1>1, <2>1, Zenon DEF DInv, Watching, Active
<1>16. KeptMem' /\ KeptBuf' /\ KeptFile'
    <2>1. \A x \in Services, y \in Instances : Writes("manager", x, y)' =>
             Writes("manager", x, y) /\ job'["manager"].buf = job["manager"].buf
        BY <1>9, Zenon DEF Threads
    <2> QED
        BY <1>1, <1>5, <1>8, <1>10, <1>12, <2>1, SpoiledGrows, KeptFrame, Zenon DEF DInv
<1>17. \A x \in Services : /\ Waits(x)' = Waits(x) /\ Locking(x)' = Locking(x)
                           /\ Over(x)' => Over(x) \/ Missing(x)'
                           /\ Between(x) => Between(x)' \/ Missing(x)'
    <2>1. \A x \in Services : Over(x)' => Over(x) \/ Missing(x)'
        <3> SUFFICES ASSUME NEW x \in Services, Over(x)', ~Over(x)
                     PROVE  Missing(x)'
            OBVIOUS
        <3>1. job["autosave"].step # "done" /\ job'["autosave"].step = "done"
              /\ auto.pc = "saving" /\ auto.s = x
            BY <1>1, Zenon DEF Over
        <3>2. t = "autosave" /\ fails
            BY <1>3, <3>1, Zenon DEF Threads, fails
        <3>3. s = x
            BY <1>2, <3>1, <3>2, Zenon DEF DInv, Watching, s
        <3> QED
            BY <1>11, <3>2, <3>3, Zenon
    <2>2. \A x \in Services : Waits(x)' = Waits(x) /\ Locking(x)' = Locking(x)
        BY <1>1, Zenon DEF Waits, Locking
    <2> QED
        BY <1>1, <2>1, <2>2, Zenon DEF Between
<1>18. \A x \in Services, c \in ChangeIds : Noted(x, c)' => Noted(x, c)
    BY <1>1, <1>5, Zenon DEF Noted
<1>19. CountedFile' /\ CountedBuf'
    BY <1>1, <1>9, <1>10, <1>17, <1>18, SpoiledGrows, CountedFrame, Zenon DEF DInv
<1>20. RoundFile' /\ RoundOver' /\ RoundBuf'
    BY <1>1, <1>5, <1>9, <1>10, <1>17, SpoiledGrows, RoundsFrame, Zenon DEF DInv
<1> QED
    BY <1>7, <1>13, <1>14, <1>15, <1>16, <1>19, <1>20, Zenon DEF DInv

(* The rename: the file becomes the copy, and all that was said of the copy *)
(* is true of the file.                                                     *)
LEMMA SaveRenameIsKept ==
    ASSUME IInv, DInv, NEW t \in Threads, SaveRename(t)
    PROVE  DInv'
<1> DEFINE s == job[t].s
           i == job[t].inst
           buf == job[t].buf
<1>1. /\ up /\ job[t].step = "rename"
      /\ UNCHANGED <<up, accepting, latest, engine, changes, savers, auto, mgr, client>>
    BY Zenon DEF SaveRename
<1>2. Active(t) /\ s \in Services /\ i \in Instances
    BY <1>1, JobParts, Zenon DEF IInv, Active
<1>3. /\ job'[t].step = "done"
      /\ \A u \in Threads : u # t => job'[u] = job[u] /\ job[u].step = "none"
    <2>1. job'[t].step = "done" /\ \A u \in Threads : u # t => job'[u] = job[u]
        BY Zenon DEF SaveRename, IInv, TypeOK
    <2> QED
        BY <1>1, <2>1, OneSave, Zenon
<1>4. disk'[s] = buf /\ \A x \in Services : x # s => disk'[x] = disk[x]
    <2>1. tmp[s] = buf
        BY <1>1, <1>2, Zenon DEF IInv, Saving
    <2> QED
        BY <1>2, <2>1, Zenon DEF SaveRename, IInv, TypeOK
<1>5. /\ history'.acked = history.acked /\ history'.due = history.due
      /\ history'.covered = history.covered /\ history'.loose = history.loose
      /\ history'.spoiled = history.spoiled \ {<<s, i>>}
    BY Zenon DEF SaveRename, MadeUp, IInv, HistoryOK
<1>6. \A y \in Instances : Used(s, y) => y = i
    BY <1>2, OneInUse, Zenon
<1>7. Writes(t, s, i)
    BY <1>1, Zenon DEF Writes
<1> HIDE DEF s, i, buf
<1>8. /\ \A x \in Services, y \in Instances : Used(x, y)' => Used(x, y)
      /\ \A x \in Services, y \in Instances : x # s => Used(x, y)' = Used(x, y)
    BY <1>1, <1>2, <1>3, Zenon DEF Used, Active, s, i
<1>9. \A u \in Threads, x \in Services, y \in Instances : ~Writes(u, x, y)'
    BY <1>3, Zenon DEF Writes
<1>10. /\ \A x \in Services : x # s => Missing(x)' = Missing(x)
       /\ \A x \in Services, y \in Instances : x # s => Lost(x, y)' = Lost(x, y)
    BY <1>5, Zenon DEF Missing, Lost
<1>11. \A x \in Services, y \in Instances : x = s /\ y = i => Lost(x, y)' = Lost(x, y)
    BY <1>5 DEF Lost, Instances
<1>12. \A x \in Services : x = s /\ ~Missing(x)' => ~Lost(s, i)
    BY <1>2, <1>11, LostIsMissing, Zenon DEF Lost, Missing, Instances
<1>13. Histories'
    BY <1>1, <1>5, Zenon DEF DInv, Histories
<1>14. Gone' /\ Applied'
    BY <1>1, <1>5, Zenon DEF DInv, Gone, Applied
<1>15. Newest'
    BY <1>1, <1>8, Zenon DEF DInv, Newest
<1>16. Watching'
    <2>1. \/ job'["autosave"] = job["autosave"]
          \/ job["autosave"].step # "none" /\ job'["autosave"].step = "done"
        BY <1>1, <1>3, Zenon DEF Threads
    <2> QED
        BY <1>1, <2>1, Zenon DEF DInv, Watching, Active
<1>17. KeptMem'
    <2> SUFFICES ASSUME NEW x \in Services, NEW y \in Instances, Used(x, y)', ~Lost(x, y)'
                 PROVE  history'.acked[x] \subseteq engine'[x][y]
        BY Zenon DEF KeptMem
    <2>1. Used(x, y) /\ (x = s => y = i)
        BY <1>6, <1>8, Zenon
    <2>2. ~Lost(x, y)
        BY <1>10, <1>11, <2>1, Zenon
    <2> QED
        BY <1>1, <1>5, <2>1, <2>2, Zenon DEF DInv, KeptMem
<1>18. KeptBuf' /\ CountedBuf' /\ RoundBuf'
    BY <1>9, Zenon DEF KeptBuf, CountedBuf, RoundBuf, Threads
<1>19. KeptFile'
    <2> SUFFICES ASSUME NEW x \in Services, Idle(x)', ~Missing(x)', ~Deleting(x)'
                 PROVE  history.acked[x] \subseteq disk'[x]
        BY <1>5, Zenon DEF KeptFile
    <2>1. CASE x = s
        <3>1. savers[s] # i
            BY <1>1, <1>2, <2>1, Zenon DEF Idle, Used
        <3>2. t = "manager"
            BY <1>2, <3>1, Zenon DEF IInv, Saving, s, i
        <3> QED
            BY <1>2, <1>4, <1>7, <1>12, <2>1, <3>2, Zenon DEF DInv, KeptBuf, buf
    <2>2. CASE x # s
        <3>1. Idle(x) /\ ~Missing(x) /\ ~Deleting(x)
            BY <1>1, <1>8, <1>10, <2>2, Zenon DEF Idle, Deleting
        <3> QED
            BY <1>1, <1>4, <2>2, <3>1, Zenon DEF DInv, KeptFile
    <2> QED
        BY <2>1, <2>2, Zenon
<1>20. /\ \A x \in Services, c \in ChangeIds : Noted(x, c)' => Noted(x, c)
       /\ \A x \in Services : Waits(x)' = Waits(x) /\ Locking(x)' = Locking(x)
    BY <1>1, <1>5, Zenon DEF Noted, Waits, Locking
<1>21. \A x \in Services : /\ Over(x)' => x = s /\ t = "autosave"
                           /\ x # s => Between(x)' = Between(x)
                           /\ Locking(x) => Between(x)'
    <2>2. ASSUME NEW x \in Services, Over(x)'
          PROVE  x = s /\ t = "autosave"
        <3>1. auto.pc = "saving" /\ auto.s = x /\ job'["autosave"].step = "done"
            BY <1>1, <2>2, Zenon DEF Over
        <3>2. t = "autosave"
            BY <1>3, <3>1, Zenon DEF Threads
        <3> QED
            BY <1>2, <3>1, <3>2, Zenon DEF DInv, Watching, s
    <2>3. ASSUME NEW x \in Services, x # s
          PROVE  Between(x)' = Between(x)
        <3>1. ~Over(x)'
            BY <2>2, <2>3, Zenon
        <3>2. auto.pc = "saving" /\ auto.s = x => job["autosave"].step # "done"
            BY <1>1, <1>3, <2>3, Zenon DEF Threads
        <3> QED
            BY <1>1, <3>1, <3>2, Zenon DEF Between, Over
    <2>4. ASSUME NEW x \in Services, Locking(x)
          PROVE  Between(x)'
        BY <1>1, <2>4, Zenon DEF Locking, Between, Over
    <2> QED
        BY <2>2, <2>3, <2>4, Zenon
<1>22. CountedFile'
    <2> SUFFICES ASSUME NEW x \in Services, NEW c \in ChangeIds, ~Missing(x)',
                        changes[x] = auto.saved[x], ~Between(x)', Noted(x, c)
                 PROVE  c \in disk'[x]
        BY <1>1, <1>20, Zenon DEF CountedFile
    <2>1. CASE x = s
        <3>1. ~Lost(s, i) /\ ~Locking(s)
            BY <1>12, <1>21, <2>1, Zenon
        <3> QED
            BY <1>2, <1>4, <1>7, <2>1, <3>1, Zenon DEF DInv, CountedBuf, buf
    <2>2. CASE x # s
        <3>1. ~Missing(x) /\ ~Between(x)
            BY <1>10, <1>21, <2>2, Zenon
        <3> QED
            BY <1>1, <1>4, <2>2, <3>1, Zenon DEF DInv, CountedFile
    <2> QED
        BY <2>1, <2>2, Zenon
<1>23. RoundFile'
    <2> SUFFICES ASSUME NEW x \in Services, ~Missing(x)'
                 PROVE  /\ history.covered[x] \ history.loose \subseteq disk'[x]
                        /\ Waits(x) \/ history.due[x] \ history.loose \subseteq disk'[x]
        BY <1>5, <1>20, Zenon DEF RoundFile
    <2>1. CASE x = s
        BY <1>2, <1>4, <1>7, <1>12, <2>1, Zenon DEF DInv, RoundBuf, buf
    <2>2. CASE x # s
        BY <1>1, <1>4, <1>10, <2>2, Zenon DEF DInv, RoundFile
    <2> QED
        BY <2>1, <2>2, Zenon
<1>24. RoundOver'
    <2> SUFFICES ASSUME NEW x \in Services, ~Missing(x)', Over(x)'
                 PROVE  history.due[x] \ history.loose \subseteq disk'[x]
        BY <1>5, Zenon DEF RoundOver
    <2>1. x = s /\ t = "autosave"
        BY <1>21, Zenon
    <2> QED
        BY <1>2, <1>4, <1>7, <1>12, <2>1, Zenon DEF DInv, RoundBuf, buf
<1> QED
    BY <1>13, <1>14, <1>15, <1>16, <1>17, <1>18, <1>19, <1>22, <1>23, <1>24, Zenon DEF DInv

-----------------------------------------------------------------------------
(* The steps of the autosave. *)

(* No save is under way while save_lock is free.                            *)
LEMMA FreeMeansNone ==
    ASSUME IInv, saveLock = "free"
    PROVE  \A t \in Threads : job[t].step = "none"
    BY Zenon DEF IInv, Locked, Threads

(* The steps of the autosave touch neither memory nor files.                *)
LEMMA AutoFrame ==
    ASSUME IInv, DInv, up,
           UNCHANGED <<up, accepting, latest, engine, changes, savers, disk, mgr, client>>,
           history'.acked = history.acked, history'.loose = history.loose,
           history.spoiled \subseteq history'.spoiled,
           \A s \in Services, i \in Instances : Used(s, i)' = Used(s, i),
           \A t \in Threads, s \in Services, i \in Instances : Writes(t, s, i)' =>
               Writes(t, s, i) /\ job'[t].buf = job[t].buf
    PROVE  /\ Gone' /\ Newest' /\ Applied' /\ KeptMem' /\ KeptBuf' /\ KeptFile'
           /\ \A s \in Services, c \in ChangeIds : Noted(s, c)' = Noted(s, c)
<1>1. Gone' /\ Applied'
    BY Zenon DEF DInv, Gone, Applied
<1>2. Newest'
    BY Zenon DEF DInv, Newest
<1>3. \A s \in Services : Idle(s)' /\ ~Deleting(s)' => Idle(s) /\ ~Deleting(s)
    BY Zenon DEF Idle, Deleting
<1>4. \A s \in Services, i \in Instances : Writes("manager", s, i)' =>
         Writes("manager", s, i) /\ job'["manager"].buf = job["manager"].buf
    BY Zenon DEF Threads
<1>5. KeptMem' /\ KeptBuf' /\ KeptFile'
    BY <1>3, <1>4, SpoiledGrows, KeptFrame, Zenon DEF DInv
<1>6. \A s \in Services, c \in ChangeIds : Noted(s, c)' = Noted(s, c)
    BY Zenon DEF Noted
<1> QED
    BY <1>1, <1>2, <1>5, <1>6, Zenon

(* A round begins: it waits for every service with a saver, and nothing is  *)
(* due anew for the others.                                                 *)
LEMMA AutoWakeIsKept ==
    ASSUME IInv, DInv, AutoWake
    PROVE  DInv'
<1> DEFINE all == {<<s, savers[s]>> : s \in {x \in Services : savers[x] # 0}}
<1>1. /\ up /\ auto.pc = "sleep" /\ auto.list = {}
      /\ UNCHANGED <<up, accepting, latest, engine, changes, savers, job, disk, mgr, client>>
    BY Zenon DEF AutoWake, DInv, Watching
<1>2. auto'.pc = "round" /\ auto'.list = all /\ auto'.saved = auto.saved
    <2>1. auto \in [pc : {"sleep", "round"}, list : Savers, saved : [Services -> Nat]]
        BY <1>1, Zenon DEF IInv, TypeOK, Autosaves
    <2>2. auto' = [auto EXCEPT !.pc = "round", !.list = all]
        BY Zenon DEF AutoWake
    <2> HIDE DEF all
    <2> QED
        BY <2>1, <2>2, Zenon
<1>3. \A s \in Services : savers[s] # 0 => Waits(s)'
    <2> SUFFICES ASSUME NEW s \in Services, savers[s] # 0
                 PROVE  <<s, savers[s]>> \in all /\ savers[s] \in Instances
        BY <1>2, Zenon DEF Waits
    <2> QED
        BY DEF IInv, TypeOK, Instances
<1> HIDE DEF all
<1>4. /\ history'.acked = history.acked /\ history'.spoiled = history.spoiled
      /\ history'.covered = history.covered /\ history'.loose = history.loose
      /\ history'.due = [s \in Services |->
            IF savers[s] # 0 THEN history.acked[s] ELSE history.due[s]]
    BY Zenon DEF AutoWake, IInv, HistoryOK
<1>5. Histories'
    BY <1>1, <1>4 DEF DInv, Histories
<1>6. job["autosave"].step = "none"
    BY <1>1, Zenon DEF DInv, Watching
<1>7. Watching'
    BY <1>1, <1>2, <1>6, Zenon DEF DInv, Watching, Active
<1>8. /\ \A s \in Services, i \in Instances : Used(s, i)' = Used(s, i)
      /\ \A t \in Threads, s \in Services, i \in Instances :
            Writes(t, s, i)' = Writes(t, s, i) /\ job'[t].buf = job[t].buf
    BY <1>1, SamePlaces, Zenon
<1>9. /\ Gone' /\ Newest' /\ Applied' /\ KeptMem' /\ KeptBuf' /\ KeptFile'
      /\ \A s \in Services, c \in ChangeIds : Noted(s, c)' = Noted(s, c)
    BY <1>1, <1>4, <1>8, AutoFrame, Zenon
<1>10. \A s \in Services : ~Locking(s) /\ ~Between(s) /\ ~Waits(s) /\ ~Over(s)'
    BY <1>1, <1>2, Zenon DEF Locking, Between, Waits, Over
<1>11. CountedFile' /\ CountedBuf'
    BY <1>1, <1>2, <1>4, <1>8, <1>9, <1>10, SpoiledGrows, CountedFrame, Zenon DEF DInv
<1>12. /\ \A s \in Services : Missing(s)' = Missing(s)
       /\ \A s \in Services, i \in Instances : Lost(s, i)' = Lost(s, i)
    BY <1>4, Zenon DEF Missing, Lost
<1>13. RoundFile'
    <2> SUFFICES ASSUME NEW s \in Services, ~Missing(s)
                 PROVE  /\ history'.covered[s] \ history'.loose \subseteq disk'[s]
                        /\ Waits(s)' \/ history'.due[s] \ history'.loose \subseteq disk'[s]
        BY <1>12, Zenon DEF RoundFile
    <2> QED
        BY <1>1, <1>3, <1>4, <1>10, Zenon DEF DInv, RoundFile
<1>14. RoundBuf'
    <2> SUFFICES ASSUME NEW t \in Threads, NEW s \in Services, NEW i \in Instances,
                        Writes(t, s, i), ~Lost(s, i)
                 PROVE  /\ history'.covered[s] \ history'.loose \subseteq job'[t].buf
                        /\ \/ t # "autosave" /\ Waits(s)'
                           \/ history'.due[s] \ history'.loose \subseteq job'[t].buf
        BY <1>8, <1>12, Zenon DEF RoundBuf
    <2>1. t # "autosave"
        BY <1>6, Zenon DEF Writes
    <2> QED
        BY <1>1, <1>3, <1>4, <1>8, <1>10, <2>1, Zenon DEF DInv, RoundBuf
<1>15. RoundOver'
    BY <1>10, Zenon DEF RoundOver
<1> QED
    BY <1>5, <1>7, <1>9, <1>11, <1>13, <1>14, <1>15, Zenon DEF DInv

(* A round ends: what was due at its start is covered.                      *)
LEMMA AutoSleepIsKept ==
    ASSUME IInv, DInv, AutoSleep
    PROVE  DInv'
<1>1. /\ up /\ auto.pc = "round" /\ auto.list = {}
      /\ UNCHANGED <<up, accepting, latest, engine, changes, savers, job, disk, mgr, client>>
    BY Zenon DEF AutoSleep
<1>2. auto'.pc = "sleep" /\ auto'.list = {} /\ auto'.saved = auto.saved
    BY Zenon DEF AutoSleep, IInv, TypeOK, Autosaves
<1>3. /\ history'.acked = history.acked /\ history'.spoiled = history.spoiled
      /\ history'.due = history.due /\ history'.loose = history.loose
      /\ history'.covered = history.due
    BY Zenon DEF AutoSleep, IInv, HistoryOK
<1>4. Histories'
    BY <1>1, <1>3, Zenon DEF DInv, Histories
<1>5. job["autosave"].step = "none"
    BY <1>1, Zenon DEF DInv, Watching
<1>6. Watching'
    BY <1>1, <1>2, <1>5, Zenon DEF DInv, Watching, Active
<1>7. /\ \A s \in Services, i \in Instances : Used(s, i)' = Used(s, i)
      /\ \A t \in Threads, s \in Services, i \in Instances :
            Writes(t, s, i)' = Writes(t, s, i) /\ job'[t].buf = job[t].buf
    BY <1>1, SamePlaces, Zenon
<1>8. /\ Gone' /\ Newest' /\ Applied' /\ KeptMem' /\ KeptBuf' /\ KeptFile'
      /\ \A s \in Services, c \in ChangeIds : Noted(s, c)' = Noted(s, c)
    BY <1>1, <1>3, <1>7, AutoFrame, Zenon
<1>9. \A s \in Services : ~Locking(s) /\ ~Between(s) /\ ~Waits(s) /\ ~Over(s)'
    BY <1>1, <1>2, Zenon DEF Locking, Between, Waits, Over
<1>10. CountedFile' /\ CountedBuf'
    BY <1>1, <1>2, <1>3, <1>7, <1>8, <1>9, SpoiledGrows, CountedFrame, Zenon DEF DInv
<1>11. /\ \A s \in Services : Missing(s)' = Missing(s)
       /\ \A s \in Services, i \in Instances : Lost(s, i)' = Lost(s, i)
    BY <1>3, Zenon DEF Missing, Lost
<1>12. RoundFile'
    BY <1>1, <1>3, <1>9, <1>11, Zenon DEF DInv, RoundFile
<1>13. RoundBuf'
    BY <1>1, <1>3, <1>7, <1>9, <1>11 DEF DInv, RoundBuf
<1>14. RoundOver'
    BY <1>9 DEF RoundOver
<1> QED
    BY <1>4, <1>6, <1>8, <1>10, <1>12, <1>13, <1>14 DEF DInv

(* The autosave comes to a service: if its counter has not moved, all that  *)
(* is due of it is in the file and in any copy of it; if it has, the turn   *)
(* goes on.                                                                 *)
LEMMA AutoCheckIsKept ==
    ASSUME IInv, DInv, NEW s \in Services, NEW i \in Instances, AutoCheck(s, i)
    PROVE  DInv'
<1>1. /\ up /\ auto.pc = "round"
      /\ UNCHANGED <<up, accepting, latest, engine, changes, savers, job, disk, mgr, client, history>>
    BY Zenon DEF AutoCheck
<1>2. auto \in [pc : {"sleep", "round"}, list : Savers, saved : [Services -> Nat]]
    BY <1>1, Zenon DEF IInv, TypeOK, Autosaves
<1>3. Histories'
    BY <1>1, Zenon DEF DInv, Histories
<1>4. job["autosave"].step = "none"
    BY <1>1, Zenon DEF DInv, Watching
<1>5. /\ \A x \in Services, y \in Instances : Used(x, y)' = Used(x, y)
      /\ \A t \in Threads, x \in Services, y \in Instances :
            Writes(t, x, y)' = Writes(t, x, y) /\ job'[t].buf = job[t].buf
    BY <1>1, SamePlaces, Zenon
<1>6. /\ Gone' /\ Newest' /\ Applied' /\ KeptMem' /\ KeptBuf' /\ KeptFile'
      /\ \A x \in Services, c \in ChangeIds : Noted(x, c)' = Noted(x, c)
    BY <1>1, <1>5, AutoFrame, Zenon
<1>7. /\ \A x \in Services : Missing(x)' = Missing(x)
      /\ \A x \in Services, y \in Instances : Lost(x, y)' = Lost(x, y)
    BY <1>1, Zenon DEF Missing, Lost
<1>8. \A x \in Services : ~Locking(x) /\ ~Between(x)
    BY <1>1, Zenon DEF Locking, Between
<1>9. CASE changes[s] = auto.saved[s]
    <2>1. /\ auto'.pc = "round" /\ auto'.saved = auto.saved
          /\ auto'.list = auto.list \ {<<s, i>>}
        BY <1>1, <1>2, <1>9, Zenon DEF AutoCheck
    <2>2. Watching'
        BY <1>1, <1>4, <2>1, Zenon DEF DInv, Watching, Active
    <2>3. CountedFile' /\ CountedBuf'
        BY <1>1, <1>5, <1>6, <1>7, <1>8, <2>1, CountedFrame, Zenon DEF DInv
    <2>4. \A x \in Services : x # s => Waits(x)' = Waits(x)
        BY <2>1, Zenon DEF Waits
    <2>5. \A c \in history.due[s] \ history.loose : c \in ChangeIds /\ Noted(s, c)
        BY Zenon DEF DInv, Histories, Snapshots, Noted
    <2>6. ~Missing(s) => history.due[s] \ history.loose \subseteq disk[s]
        BY <1>1, <1>8, <1>9, <2>5, Zenon DEF DInv, CountedFile
    <2>7. RoundFile'
        <3> SUFFICES ASSUME NEW x \in Services, ~Missing(x)
                     PROVE  /\ history.covered[x] \ history.loose \subseteq disk[x]
                            /\ Waits(x)' \/ history.due[x] \ history.loose \subseteq disk[x]
            BY <1>1, <1>7, Zenon DEF RoundFile
        <3> QED
            BY <1>1, <2>4, <2>6, Zenon DEF DInv, RoundFile
    <2>8. RoundBuf'
        <3> SUFFICES ASSUME NEW t \in Threads, NEW x \in Services, NEW y \in Instances,
                            Writes(t, x, y), ~Lost(x, y)
                     PROVE  /\ history.covered[x] \ history.loose \subseteq job[t].buf
                            /\ \/ t # "autosave" /\ Waits(x)'
                               \/ history.due[x] \ history.loose \subseteq job[t].buf
            BY <1>1, <1>5, <1>7, Zenon DEF RoundBuf
        <3>1. CASE x = s
            <4>1. history.due[s] \ history.loose \subseteq job[t].buf
                BY <1>8, <1>9, <2>5, <3>1, Zenon DEF DInv, CountedBuf
            <4> QED
                BY <3>1, <4>1, Zenon DEF DInv, RoundBuf
        <3>2. CASE x # s
            BY <2>4, <3>2, Zenon DEF DInv, RoundBuf
        <3> QED
            BY <3>1, <3>2, Zenon
    <2>9. RoundOver'
        BY <2>1, Zenon DEF RoundOver, Over
    <2> QED
        BY <1>3, <1>6, <2>2, <2>3, <2>7, <2>8, <2>9, Zenon DEF DInv
<1>10. CASE changes[s] # auto.saved[s]
    <2>1. /\ auto'.pc = "locking" /\ auto'.s = s /\ auto'.list = auto.list
          /\ auto'.saved = [auto.saved EXCEPT ![s] = changes[s]]
        BY <1>10, Zenon DEF AutoCheck
    <2>2. /\ auto'.saved[s] = changes[s]
          /\ \A x \in Services : x # s => auto'.saved[x] = auto.saved[x]
          /\ \A x \in Services : changes[x] \in Nat
        BY <1>2, <2>1, Zenon DEF IInv, TypeOK
    <2>3. Watching'
        <3>1. \A x \in Services : auto'.saved[x] <= changes'[x]
            BY <1>1, <2>2 DEF DInv, Watching
        <3> QED
            BY <1>1, <1>4, <2>1, <3>1, Zenon DEF DInv, Watching, Active
    <2>4. Locking(s)' /\ Between(s)'
        BY <2>1, Zenon DEF Locking, Between, Over
    <2>5. CountedFile' /\ CountedBuf'
        BY <1>1, <1>5, <1>6, <1>7, <1>8, <2>2, <2>4, CountedFrame, Zenon DEF DInv
    <2>6. \A x \in Services : Waits(x)' = Waits(x) /\ ~Over(x)'
        BY <2>1, Zenon DEF Waits, Over
    <2>7. RoundFile' /\ RoundOver' /\ RoundBuf'
        BY <1>1, <1>5, <1>7, <2>6, RoundsFrame, Zenon DEF DInv
    <2> QED
        BY <1>3, <1>6, <2>3, <2>5, <2>7, Zenon DEF DInv
<1> QED
    BY <1>9, <1>10, Zenon

(* A turn that ends with all that is due of its service in the file.        *)
LEMMA TurnEnds ==
    ASSUME IInv, DInv, up, auto.pc \in {"locking", "saving"},
           UNCHANGED <<up, accepting, latest, engine, changes, savers, disk, mgr, client>>,
           auto' = AutoNext(auto),
           job'["autosave"].step = "none",
           \A t \in Threads : job[t].step \in {"none", "done"},
           \A t \in Threads : t # "autosave" => job'[t] = job[t],
           history'.acked = history.acked, history'.due = history.due,
           history'.covered = history.covered, history'.loose = history.loose,
           history.spoiled \subseteq history'.spoiled,
           Histories',
           \A s \in Services : auto.s = s /\ ~Missing(s)' =>
               /\ history.due[s] \ history.loose \subseteq disk[s]
               /\ changes[s] = auto.saved[s] =>
                     \A c \in ChangeIds : Noted(s, c) => c \in disk[s]
    PROVE  DInv'
<1>1. /\ auto'.pc = "round" /\ auto'.saved = auto.saved
      /\ auto'.list = auto.list \ {<<auto.s, auto.inst>>}
    BY Zenon DEF AutoNext
<1>2. \A t \in Threads : job'[t].step \in {"none", "done"}
    BY Zenon DEF Threads
<1>3. \A t \in Threads, s \in Services, i \in Instances : ~Writes(t, s, i)'
    BY <1>2, Zenon DEF Writes
<1>4. \A s \in Services, i \in Instances : Used(s, i)' = Used(s, i)
    BY <1>2, Zenon DEF Used, Active
<1>5. /\ Gone' /\ Newest' /\ Applied' /\ KeptMem' /\ KeptBuf' /\ KeptFile'
      /\ \A s \in Services, c \in ChangeIds : Noted(s, c)' = Noted(s, c)
    BY <1>3, <1>4, AutoFrame, Zenon
<1>6. Watching'
    BY <1>1, Zenon DEF DInv, Watching, Active
<1>7. \A s \in Services : Missing(s) => Missing(s)'
    BY SpoiledGrows, Zenon
<1>8. CountedFile'
    <2> SUFFICES ASSUME NEW s \in Services, NEW c \in ChangeIds, ~Missing(s)',
                        changes[s] = auto.saved[s], Noted(s, c)
                 PROVE  c \in disk[s]
        BY <1>1, <1>5, Zenon DEF CountedFile
    <2>1. CASE s = auto.s
        BY <2>1, Zenon
    <2>2. CASE s # auto.s
        <3>1. ~Between(s) /\ ~Missing(s)
            BY <1>7, <2>2, Zenon DEF Between
        <3> QED
            BY <3>1, Zenon DEF DInv, CountedFile
    <2> QED
        BY <2>1, <2>2, Zenon
<1>9. RoundFile'
    <2> SUFFICES ASSUME NEW s \in Services, ~Missing(s)'
                 PROVE  /\ history.covered[s] \ history.loose \subseteq disk[s]
                        /\ Waits(s)' \/ history.due[s] \ history.loose \subseteq disk[s]
        BY Zenon DEF RoundFile
    <2>1. CASE s = auto.s
        BY <1>7, <2>1, Zenon DEF DInv, RoundFile
    <2>2. CASE s # auto.s
        <3>1. Waits(s)' = Waits(s)
            BY <1>1, <2>2, Zenon DEF Waits
        <3> QED
            BY <1>7, <3>1, Zenon DEF DInv, RoundFile
    <2> QED
        BY <2>1, <2>2, Zenon
<1>10. CountedBuf' /\ RoundBuf' /\ RoundOver'
    BY <1>1, <1>3, Zenon DEF CountedBuf, RoundBuf, RoundOver, Over
<1> QED
    BY <1>5, <1>6, <1>8, <1>9, <1>10, Zenon DEF DInv

(* The autosave gets save_lock: it saves the service if its saver is still  *)
(* registered, and skips it otherwise, which is remembered unless the       *)
(* service is down.                                                         *)
LEMMA AutoLockIsKept ==
    ASSUME IInv, DInv, AutoLock
    PROVE  DInv'
<1>1. /\ up /\ auto.pc = "locking" /\ saveLock = "free"
      /\ UNCHANGED <<up, accepting, latest, engine, changes, savers, disk, mgr, client>>
    BY Zenon DEF AutoLock
<1>2. /\ auto \in [pc : {"locking", "saving"}, list : Savers, saved : [Services -> Nat],
                   s : Services, inst : Instances]
      /\ auto.s \in Services /\ auto.inst \in Instances
    BY <1>1, Zenon DEF IInv, TypeOK, Autosaves
<1>3. \A t \in Threads : job[t].step = "none"
    BY <1>1, FreeMeansNone, Zenon
<1>4. CASE Live(auto.s, auto.inst)
    <2>1. /\ history' = history
          /\ auto'.pc = "saving" /\ auto'.list = auto.list /\ auto'.saved = auto.saved
          /\ auto'.s = auto.s /\ auto'.inst = auto.inst
          /\ job'["autosave"] = SaveOf(auto.s, auto.inst)
          /\ \A t \in Threads : t # "autosave" => job'[t] = job[t]
        BY <1>2, <1>4, Zenon DEF AutoLock, IInv, TypeOK, Threads
    <2>2. /\ job'["autosave"].step = "snapshot" /\ job'["autosave"].s = auto.s
          /\ job'["autosave"].inst = auto.inst
        BY <2>1 DEF SaveOf
    <2>3. \A t \in Threads, s \in Services, i \in Instances : ~Writes(t, s, i)'
        BY <1>3, <2>1, <2>2, Zenon DEF Writes
    <2>4. \A s \in Services, i \in Instances : Used(s, i)' = Used(s, i)
        <3>1. \A t \in Threads : ~Active(t) /\ (Active(t)' => t = "autosave")
            BY <1>3, <2>1, Zenon DEF Active
        <3>2. savers[auto.s] = auto.inst
            BY <1>4, Zenon DEF Live
        <3> QED
            BY <1>1, <2>2, <3>1, <3>2, Zenon DEF Used
    <2>5. /\ Gone' /\ Newest' /\ Applied' /\ KeptMem' /\ KeptBuf' /\ KeptFile'
          /\ \A s \in Services, c \in ChangeIds : Noted(s, c)' = Noted(s, c)
        BY <1>1, <2>1, <2>3, <2>4, AutoFrame, Zenon
    <2>6. Histories'
        BY <1>1, <2>1, Zenon DEF DInv, Histories
    <2>7. Watching'
        BY <1>1, <2>1, <2>2, Zenon DEF DInv, Watching, Active
    <2>8. \A s \in Services : /\ Between(s) => Between(s)'
                              /\ Waits(s) => Waits(s)'
                              /\ ~Over(s)'
        BY <1>1, <2>1, <2>2 DEF Between, Waits, Over
    <2>9. CountedFile' /\ CountedBuf'
        BY <1>1, <2>1, <2>3, <2>5, <2>8, SpoiledGrows, CountedFrame, Zenon DEF DInv
    <2>10. RoundFile' /\ RoundOver' /\ RoundBuf'
        BY <1>1, <2>1, <2>3, <2>8, SpoiledGrows, RoundsFrame, Zenon DEF DInv
    <2> QED
        BY <2>5, <2>6, <2>7, <2>9, <2>10, Zenon DEF DInv
<1>5. CASE ~Live(auto.s, auto.inst)
    <2>1. auto' = AutoNext(auto) /\ job' = job /\ history' = Skipped(auto.s)
        BY <1>5, Zenon DEF AutoLock
    <2> DEFINE down == /\ savers[auto.s] = 0 /\ accepting[auto.s] = 0
                       /\ ~(mgr.pc = "delete" /\ mgr.s = auto.s)
    <2>2. /\ history'.acked = history.acked /\ history'.due = history.due
          /\ history'.covered = history.covered /\ history'.loose = history.loose
          /\ down => history'.spoiled = history.spoiled
          /\ ~down => history'.spoiled = history.spoiled \union {<<auto.s, latest[auto.s]>>}
        BY <2>1, Zenon DEF Skipped, Spoiled, IInv, HistoryOK
    <2>3. latest[auto.s] \in 0..MaxInstances /\ latest[auto.s] \in Nat
        BY <1>2 DEF IInv, TypeOK
    <2>4. Histories'
        BY <1>1, <1>2, <2>2, <2>3 DEF DInv, Histories
    <2>5. \A s \in Services : auto.s = s /\ ~Missing(s)' => down /\ ~Missing(s)
        BY <2>2, <2>3, Zenon DEF Missing
    <2>6. down => Idle(auto.s) /\ ~Deleting(auto.s)
        BY <1>3 DEF Idle, Used, Active, Instances, Deleting
    <2> HIDE DEF down
    <2>7. \A s \in Services : auto.s = s /\ ~Missing(s)' => history.acked[s] \subseteq disk[s]
        BY <1>1, <2>5, <2>6, Zenon DEF DInv, KeptFile
    <2>8. \A s \in Services : auto.s = s /\ down =>
             \A c \in ChangeIds : Noted(s, c) => c \in history.acked[s]
        <3>1. \A k \in Clients : client[k].pc = "reply" => client[k].inst # 0
            BY RequestParts DEF IInv, Instances
        <3> QED
            BY <3>1, Zenon DEF Noted, down
    <2>9. \A s \in Services : auto.s = s /\ ~Missing(s)' =>
             /\ history.due[s] \ history.loose \subseteq disk[s]
             /\ changes[s] = auto.saved[s] =>
                   \A c \in ChangeIds : Noted(s, c) => c \in disk[s]
        BY <2>5, <2>7, <2>8, Zenon DEF DInv, Histories
    <2>10. history.spoiled \subseteq history'.spoiled
        BY <2>2, Zenon
    <2>11. job'["autosave"].step = "none"
        BY <1>3, <2>1, Zenon DEF Threads
    <2> QED
        BY <1>1, <1>3, <2>1, <2>2, <2>4, <2>9, <2>10, <2>11, TurnEnds, Zenon
<1> QED
    BY <1>4, <1>5, Zenon

(* The autosave's own save is over: all that was due is in the file.        *)
LEMMA AutoSavedIsKept ==
    ASSUME IInv, DInv, AutoSaved
    PROVE  DInv'
<1>1. /\ up /\ auto.pc = "saving" /\ job["autosave"].step = "done"
      /\ UNCHANGED <<up, accepting, latest, engine, changes, savers, disk, mgr, client, history>>
      /\ auto' = AutoNext(auto)
    BY Zenon DEF AutoSaved
<1>2. auto.s \in Services
    BY <1>1, Zenon DEF IInv, TypeOK, Autosaves
<1>3. /\ job'["autosave"].step = "none"
      /\ \A t \in Threads : t # "autosave" => job'[t] = job[t]
    BY Zenon DEF AutoSaved, NoJob, IInv, TypeOK, Threads
<1>4. \A t \in Threads : job[t].step \in {"none", "done"}
    <2>1. "autosave" \in Threads /\ job["autosave"].step # "none"
        BY <1>1, Zenon DEF Threads
    <2> QED
        BY <1>1, <2>1, OneSave, Zenon
<1>5. Histories'
    BY <1>1, Zenon DEF DInv, Histories
<1>6. \A s \in Services : auto.s = s => Over(s) /\ ~Between(s) /\ Missing(s)' = Missing(s)
    BY <1>1, Zenon DEF Over, Between, Missing
<1>7. \A s \in Services : auto.s = s /\ ~Missing(s)' =>
         /\ history.due[s] \ history.loose \subseteq disk[s]
         /\ changes[s] = auto.saved[s] =>
               \A c \in ChangeIds : Noted(s, c) => c \in disk[s]
    BY <1>1, <1>6, Zenon DEF DInv, RoundOver, CountedFile
<1> QED
    BY <1>1, <1>3, <1>4, <1>5, <1>7, TurnEnds, Zenon

-----------------------------------------------------------------------------
(* The steps of the manager and of the shutdown. *)

(* A step that changes neither memory, nor files, nor counters, and brings  *)
(* no instance into use.                                                    *)
LEMMA ManagerFrame ==
    ASSUME IInv, DInv, up,
           UNCHANGED <<up, latest, engine, changes, disk, auto, client, history>>,
           job'["autosave"] = job["autosave"],
           \A s \in Services : accepting'[s] \in {0, accepting[s]},
           \A s \in Services, i \in Instances : Used(s, i)' => Used(s, i),
           \A s \in Services : Idle(s)' /\ ~Deleting(s)' => Idle(s) /\ ~Deleting(s),
           \A t \in Threads, s \in Services, i \in Instances : Writes(t, s, i)' =>
               Writes(t, s, i) /\ job'[t].buf = job[t].buf
    PROVE  DInv'
<1>1. Histories' /\ Gone' /\ Applied'
    BY Zenon DEF DInv, Histories, Gone, Applied
<1>2. Newest'
    BY Zenon DEF DInv, Newest
<1>3. Watching'
    BY Zenon DEF DInv, Watching, Active
<1>4. \A s \in Services, i \in Instances : Writes("manager", s, i)' =>
         Writes("manager", s, i) /\ job'["manager"].buf = job["manager"].buf
    BY Zenon DEF Threads
<1>5. KeptMem' /\ KeptBuf' /\ KeptFile'
    BY <1>4, SpoiledGrows, KeptFrame, Zenon DEF DInv
<1>6. \A s \in Services, c \in ChangeIds : Noted(s, c)' => Noted(s, c)
    BY NotedFrame, Zenon
<1>7. CountedFile' /\ CountedBuf'
    BY <1>6, SpoiledGrows, SameTurn, CountedFrame, Zenon DEF DInv
<1>8. RoundFile' /\ RoundOver' /\ RoundBuf'
    BY SpoiledGrows, SameTurn, RoundsFrame, Zenon DEF DInv
<1> QED
    BY <1>1, <1>2, <1>3, <1>5, <1>7, <1>8, Zenon DEF DInv

(* An operation begins, a signal arrives, the shutdown takes save_lock.     *)
LEMMA BeginningsAreKept ==
    ASSUME IInv, DInv,
           \/ RequestShutdown \/ ShutdownLock
           \/ \E op \in Operations, s \in Services : Operate(op, s)
    PROVE  DInv'
<1>1. up /\ UNCHANGED <<up, accepting, latest, engine, changes, savers, job, disk, auto, client, history>>
    BY Zenon DEF RequestShutdown, ShutdownLock, Operate
<1>2. mgr' = mgr \/ mgr.pc = "idle"
    BY Zenon DEF RequestShutdown, ShutdownLock, Operate
<1>3. \A s \in Services : Idle(s)' /\ ~Deleting(s)' => Idle(s) /\ ~Deleting(s)
    BY <1>1, <1>2, SamePlaces, Zenon DEF Deleting
<1>4. \A s \in Services : accepting'[s] \in {0, accepting[s]}
    BY <1>1, Zenon
<1> QED
    BY <1>1, <1>3, <1>4, SamePlaces, ManagerFrame, Zenon

(* The sockets are shut: the saver is still registered.                     *)
LEMMA StopLifeIsKept ==
    ASSUME IInv, DInv, StopLife
    PROVE  DInv'
<1>1. /\ up /\ mgr.pc = "stop"
      /\ UNCHANGED <<up, latest, engine, changes, savers, job, disk, auto, client, history>>
    BY Zenon DEF StopLife
<1>2. mgr.s \in Services /\ mgr.inst \in 0..MaxInstances /\ Busy(mgr.s)
    BY <1>1, ManagerParts, Zenon DEF IInv
<1>3. savers[mgr.s] = mgr.inst /\ mgr.inst # 0
    BY <1>1, <1>2, Zenon DEF IInv, Managed
<1>4. /\ accepting'[mgr.s] = 0
      /\ \A s \in Services : s # mgr.s => accepting'[s] = accepting[s]
    BY <1>2, Zenon DEF StopLife, IInv, TypeOK
<1>5. mgr'.pc = "forget"
    BY <1>1, ManagerParts, Zenon DEF StopLife, IInv
<1>6. \A s \in Services, i \in Instances : Used(s, i)' => Used(s, i)
    BY <1>1, <1>4 DEF Used, Active, Instances
<1>7. \A s \in Services : Idle(s)' /\ ~Deleting(s)' => Idle(s) /\ ~Deleting(s)
    <2>1. ~Idle(mgr.s) /\ mgr.inst \in Instances
        BY <1>2, <1>3 DEF Idle, Used, Instances
    <2>2. \A s \in Services : s = mgr.s => ~Idle(s)'
        BY <1>1, <1>2, <1>3, <2>1, Zenon DEF Idle, Used
    <2>3. \A s \in Services : s # mgr.s => Idle(s)' = Idle(s)
        BY <1>1, <1>4, Zenon DEF Idle, Used, Active
    <2> QED
        BY <1>1, <2>2, <2>3, Zenon DEF Deleting
<1>8. /\ \A s \in Services : accepting'[s] \in {0, accepting[s]}
      /\ \A t \in Threads, s \in Services, i \in Instances : Writes(t, s, i)' =>
            Writes(t, s, i) /\ job'[t].buf = job[t].buf
    BY <1>1, <1>4, Zenon DEF Writes
<1> QED
    BY <1>1, <1>6, <1>7, <1>8, ManagerFrame, Zenon

(* The saver is forgotten: its save begins, or the reset goes on to delete  *)
(* the file.                                                                *)
LEMMA ForgetIsKept ==
    ASSUME IInv, DInv, Forget
    PROVE  DInv'
<1>1. /\ up /\ mgr.pc = "forget" /\ saveLock = "free"
      /\ UNCHANGED <<up, accepting, latest, engine, changes, disk, auto, client, history>>
    BY Zenon DEF Forget
<1>2. /\ mgr.s \in Services /\ mgr.inst \in 0..MaxInstances /\ Busy(mgr.s)
      /\ mgr \in [pc : {"stop", "forget", "saving", "delete", "load", "register"},
                  op : {"start", "stop", "restart", "reset"}, s : Services,
                  inst : 0..MaxInstances]
    BY <1>1, ManagerParts, Zenon DEF IInv
<1>3. savers[mgr.s] = mgr.inst /\ mgr.inst # 0 /\ mgr.inst \in Instances
    BY <1>1, <1>2 DEF IInv, Managed, Instances
<1>4. /\ savers'[mgr.s] = 0
      /\ \A s \in Services : s # mgr.s => savers'[s] = savers[s]
    BY <1>2, Zenon DEF Forget, IInv, TypeOK
<1>5. \A t \in Threads : job[t].step = "none"
    BY <1>1, FreeMeansNone, Zenon
<1>6. \A s \in Services : accepting'[s] \in {0, accepting[s]}
    BY <1>1, Zenon
<1>7. CASE SaveFirst
    <2>1. /\ job'["manager"] = SaveOf(mgr.s, savers[mgr.s]) /\ mgr'.pc = "saving"
          /\ \A t \in Threads : t # "manager" => job'[t] = job[t]
        BY <1>2, <1>3, <1>7, Zenon DEF Forget, IInv, TypeOK, Threads
    <2>2. /\ job'["manager"].step = "snapshot" /\ job'["manager"].s = mgr.s
          /\ job'["manager"].inst = savers[mgr.s] /\ "manager" \in Threads
        BY <2>1 DEF SaveOf, Threads
    <2>3. \A s \in Services, i \in Instances : Used(s, i)' = Used(s, i)
        <3>1. \A t \in Threads : ~Active(t) /\ (Active(t)' <=> t = "manager")
            BY <1>5, <2>1, <2>2, Zenon DEF Active
        <3>2. ASSUME NEW s \in Services, NEW i \in Instances
              PROVE  Used(s, i)' = Used(s, i)
            <4>1. CASE s = mgr.s
                BY <1>1, <1>3, <1>4, <2>2, <3>1, <4>1 DEF Used, Instances
            <4>2. CASE s # mgr.s
                BY <1>1, <1>4, <2>2, <3>1, <4>2, Zenon DEF Used
            <4> QED
                BY <4>1, <4>2, Zenon
        <3> QED
            BY <3>2, Zenon
    <2>4. \A s \in Services : Idle(s)' /\ ~Deleting(s)' => Idle(s) /\ ~Deleting(s)
        BY <1>1, <2>3, Zenon DEF Idle, Deleting
    <2>5. \A t \in Threads, s \in Services, i \in Instances : ~Writes(t, s, i)'
        BY <1>5, <2>1, <2>2, Zenon DEF Writes
    <2>6. job'["autosave"] = job["autosave"]
        BY <2>1, Zenon DEF Threads
    <2> QED
        BY <1>1, <1>6, <2>3, <2>4, <2>5, <2>6, ManagerFrame, Zenon
<1>8. CASE ~SaveFirst
    <2>1. job' = job /\ mgr'.pc = "delete" /\ mgr'.s = mgr.s
        BY <1>2, <1>8, Zenon DEF Forget, AfterStop, SaveFirst
    <2>2. \A s \in Services, i \in Instances : Used(s, i)' => Used(s, i)
        BY <1>1, <1>4, <2>1 DEF Used, Active, Instances
    <2>3. \A s \in Services : Idle(s)' /\ ~Deleting(s)' => Idle(s) /\ ~Deleting(s)
        <3>1. \A s \in Services : s # mgr.s => Idle(s)' = Idle(s)
            BY <1>1, <1>4, <2>1, Zenon DEF Idle, Used, Active
        <3> QED
            BY <1>1, <2>1, <3>1, Zenon DEF Deleting
    <2>4. /\ \A t \in Threads, s \in Services, i \in Instances : Writes(t, s, i)' =>
                Writes(t, s, i) /\ job'[t].buf = job[t].buf
          /\ job'["autosave"] = job["autosave"]
        BY <2>1, Zenon DEF Writes
    <2> QED
        BY <1>1, <1>6, <2>2, <2>3, <2>4, ManagerFrame, Zenon
<1> QED
    BY <1>7, <1>8, Zenon

(* The save of a stop is over.                                              *)
LEMMA ForgottenIsKept ==
    ASSUME IInv, DInv, Forgotten
    PROVE  DInv'
<1>1. /\ up /\ mgr.pc = "saving" /\ job["manager"].step = "done"
      /\ UNCHANGED <<up, accepting, latest, engine, changes, savers, disk, auto, client, history>>
    BY Zenon DEF Forgotten
<1>2. /\ job'["manager"].step = "none" /\ "manager" \in Threads /\ "autosave" \in Threads
      /\ \A t \in Threads : t # "manager" => job'[t] = job[t]
    BY Zenon DEF Forgotten, NoJob, IInv, TypeOK, Threads
<1>3. \A s \in Services, i \in Instances : Used(s, i)' = Used(s, i)
    <2>1. \A t \in Threads : t # "manager" => Active(t)' = Active(t)
        BY <1>2, Zenon DEF Active
    <2>2. ~Active("manager") /\ ~Active("manager")'
        BY <1>1, <1>2, Zenon DEF Active
    <2> QED
        BY <1>1, <1>2, <2>1, <2>2, Zenon DEF Used
<1>4. \A s \in Services : Idle(s)' /\ ~Deleting(s)' => Idle(s) /\ ~Deleting(s)
    BY <1>1, <1>3, Zenon DEF Idle, Deleting
<1>5. /\ \A t \in Threads, s \in Services, i \in Instances : Writes(t, s, i)' =>
            Writes(t, s, i) /\ job'[t].buf = job[t].buf
      /\ job'["autosave"] = job["autosave"]
    BY <1>2, Zenon DEF Writes
<1>6. \A s \in Services : accepting'[s] \in {0, accepting[s]}
    BY <1>1, Zenon
<1> QED
    BY <1>1, <1>3, <1>4, <1>5, <1>6, ManagerFrame, Zenon

(* The saver of the new instance is registered; its sockets are open.       *)
LEMMA RegisterIsKept ==
    ASSUME IInv, DInv, Register
    PROVE  DInv'
<1>1. /\ up /\ mgr.pc = "register"
      /\ UNCHANGED <<up, accepting, latest, engine, changes, job, disk, auto, client, history>>
    BY Zenon DEF Register
<1>2. mgr.s \in Services /\ Busy(mgr.s)
    BY <1>1, ManagerParts, Zenon DEF IInv
<1>3. accepting[mgr.s] = mgr.inst /\ savers[mgr.s] = 0
    BY <1>1, <1>2, Zenon DEF IInv, Managed
<1>4. /\ savers'[mgr.s] = mgr.inst
      /\ \A s \in Services : s # mgr.s => savers'[s] = savers[s]
    BY <1>2, Zenon DEF Register, IInv, TypeOK
<1>5. \A s \in Services, i \in Instances : Used(s, i)' = Used(s, i)
    BY <1>1, <1>3, <1>4 DEF Used, Active, Instances
<1>6. \A s \in Services : Idle(s)' /\ ~Deleting(s)' => Idle(s) /\ ~Deleting(s)
    BY <1>1, <1>5, Zenon DEF Idle, Deleting
<1>7. /\ \A t \in Threads, s \in Services, i \in Instances : Writes(t, s, i)' =>
            Writes(t, s, i) /\ job'[t].buf = job[t].buf
      /\ job'["autosave"] = job["autosave"]
      /\ \A s \in Services : accepting'[s] \in {0, accepting[s]}
    BY <1>1, Zenon DEF Writes
<1> QED
    BY <1>1, <1>5, <1>6, <1>7, ManagerFrame, Zenon

(* The shutdown's next save begins.                                         *)
LEMMA ShutdownSaveIsKept ==
    ASSUME IInv, DInv, NEW x \in Services, NEW y \in Instances, ShutdownSave(x, y)
    PROVE  DInv'
<1>1. /\ up /\ job["shutdown"].step \in {"none", "done"}
      /\ UNCHANGED <<up, accepting, latest, engine, changes, savers, disk, auto, mgr, client, history>>
    BY Zenon DEF ShutdownSave
<1>2. savers[x] = y
    BY Zenon DEF ShutdownSave, IInv, Saving
<1>3. /\ job'["shutdown"] = SaveOf(x, y) /\ "shutdown" \in Threads /\ "autosave" \in Threads
      /\ \A t \in Threads : t # "shutdown" => job'[t] = job[t]
    BY Zenon DEF ShutdownSave, IInv, TypeOK, Threads
<1>4. /\ job'["shutdown"].step = "snapshot" /\ job'["shutdown"].s = x
      /\ job'["shutdown"].inst = y
    BY <1>3 DEF SaveOf
<1>5. \A s \in Services, i \in Instances : Used(s, i)' = Used(s, i)
    <2>1. \A t \in Threads : t # "shutdown" => Active(t)' = Active(t)
        BY <1>3, Zenon DEF Active
    <2>2. ~Active("shutdown")
        BY <1>1, Zenon DEF Active
    <2> QED
        BY <1>1, <1>2, <1>3, <1>4, <2>1, <2>2 DEF Used
<1>6. \A s \in Services : Idle(s)' /\ ~Deleting(s)' => Idle(s) /\ ~Deleting(s)
    BY <1>1, <1>5, Zenon DEF Idle, Deleting
<1>7. /\ \A t \in Threads, s \in Services, i \in Instances : Writes(t, s, i)' =>
            Writes(t, s, i) /\ job'[t].buf = job[t].buf
      /\ job'["autosave"] = job["autosave"]
      /\ \A s \in Services : accepting'[s] \in {0, accepting[s]}
    BY <1>1, <1>3, <1>4, Zenon DEF Writes
<1> QED
    BY <1>1, <1>5, <1>6, <1>7, ManagerFrame, Zenon

(* No instance of a service that is deleted or loaded is in use, and no     *)
(* copy of its memory is being written.                                     *)
LEMMA DownMeansIdle ==
    ASSUME IInv, mgr.pc \in {"delete", "load"}
    PROVE  /\ mgr.s \in Services /\ Idle(mgr.s)
           /\ savers[mgr.s] = 0 /\ accepting[mgr.s] = 0
           /\ \A t \in Threads, i \in Instances : ~Writes(t, mgr.s, i)
<1>1. mgr.s \in Services /\ Busy(mgr.s)
    BY ManagerParts, Zenon DEF IInv
<1>2. savers[mgr.s] = 0 /\ accepting[mgr.s] = 0
    BY <1>1, Zenon DEF IInv, Managed
<1>3. \A t \in Threads : Active(t) => job[t].s # mgr.s
    <2> SUFFICES ASSUME NEW t \in Threads, Active(t), job[t].s = mgr.s
                 PROVE  FALSE
        OBVIOUS
    <2>1. t # "manager" /\ job[t].inst \in Instances
        BY JobParts, Zenon DEF IInv, Saving
    <2> QED
        BY <1>2, <2>1 DEF IInv, Saving, Instances
<1> QED
    BY <1>1, <1>2, <1>3 DEF Idle, Used, Writes, Active, Instances

(* The file of a reset is deleted, with all that was promised of it; or it  *)
(* is not, which is remembered.                                             *)
LEMMA DeleteIsKept ==
    ASSUME IInv, DInv, Delete
    PROVE  DInv'
<1> DEFINE s == mgr.s
<1>1. /\ up /\ mgr.pc = "delete"
      /\ UNCHANGED <<up, accepting, latest, engine, changes, savers, job, auto, client>>
    BY Zenon DEF Delete
<1>2. /\ s \in Services /\ Idle(s) /\ savers[s] = 0 /\ accepting[s] = 0
      /\ \A t \in Threads, i \in Instances : ~Writes(t, s, i)
    BY <1>1, DownMeansIdle, Zenon
<1>3. /\ \A x \in Services, y \in Instances : Used(x, y)' = Used(x, y)
      /\ \A x \in Services : Idle(x)' = Idle(x)
      /\ \A t \in Threads, x \in Services, y \in Instances : Writes(t, x, y)' = Writes(t, x, y)
    BY <1>1, SamePlaces, Zenon
<1>4. \A x \in Services : /\ Locking(x)' = Locking(x) /\ Over(x)' = Over(x)
                          /\ Between(x)' = Between(x) /\ Waits(x)' = Waits(x)
    BY <1>1, SameTurn, Zenon
<1>5. mgr'.pc # "delete"
    BY <1>1, ManagerParts DEF Delete, IInv
<1>6. /\ Gone' /\ Newest' /\ Watching'
    BY <1>1, <1>3, Zenon DEF DInv, Gone, Newest, Watching, Active
<1> HIDE DEF s
<1>7. CASE history' = Spoiled(mgr.s, 0) /\ disk' = disk
    <2>1. /\ history'.acked = history.acked /\ history'.due = history.due
          /\ history'.covered = history.covered /\ history'.loose = history.loose
          /\ history'.spoiled = history.spoiled \union {<<s, 0>>}
        BY <1>7, Zenon DEF Spoiled, IInv, HistoryOK, s
    <2>2. Histories'
        <3>1. 0 \in 0..MaxInstances /\ latest[s] \in Nat
            BY <1>2, PersistenceAssumption DEF IInv, TypeOK
        <3> QED
            BY <1>1, <1>2, <2>1, <3>1 DEF DInv, Histories
    <2>3. Applied'
        BY <1>1, <2>1, Zenon DEF DInv, Applied
    <2>4. \A x \in Services : x = s => Missing(x)'
        BY <2>1, PersistenceAssumption DEF Missing
    <2>5. \A x \in Services : Idle(x)' /\ ~Deleting(x)' =>
             (Idle(x) /\ ~Deleting(x)) \/ Missing(x)'
        BY <1>3, <2>4, Zenon DEF Deleting, s
    <2>6. \A x \in Services, y \in Instances : Writes("manager", x, y)' =>
             Writes("manager", x, y) /\ job'["manager"].buf = job["manager"].buf
        BY <1>1, <1>3, Zenon DEF Threads
    <2>7. history.spoiled \subseteq history'.spoiled
        BY <2>1, Zenon
    <2>8. KeptMem' /\ KeptBuf' /\ KeptFile'
        BY <1>1, <1>3, <1>7, <2>1, <2>5, <2>6, <2>7, SpoiledGrows, KeptFrame, Zenon DEF DInv
    <2>9. \A x \in Services, c \in ChangeIds : Noted(x, c)' => Noted(x, c)
        BY <1>1, <2>1, Zenon DEF Noted
    <2>10. CountedFile' /\ CountedBuf'
        BY <1>1, <1>3, <1>4, <1>7, <2>7, <2>9, SpoiledGrows, CountedFrame, Zenon DEF DInv
    <2>11. RoundFile' /\ RoundOver' /\ RoundBuf'
        BY <1>1, <1>3, <1>4, <1>7, <2>1, <2>7, SpoiledGrows, RoundsFrame DEF DInv
    <2> QED
        BY <1>6, <2>2, <2>3, <2>8, <2>10, <2>11, Zenon DEF DInv
<1>8. CASE ~(history' = Spoiled(mgr.s, 0) /\ disk' = disk)
    <2>1. /\ history'.loose = history.loose
          /\ history'.acked = [history.acked EXCEPT ![s] = {}]
          /\ history'.due = [history.due EXCEPT ![s] = {}]
          /\ history'.covered = [history.covered EXCEPT ![s] = {}]
          /\ history'.spoiled = {x \in history.spoiled : x[1] # s}
          /\ disk' = [disk EXCEPT ![s] = {}]
        BY <1>8, Zenon DEF Delete, IInv, HistoryOK, s
    <2>2. /\ history'.acked[s] = {} /\ history'.due[s] = {} /\ history'.covered[s] = {}
          /\ \A x \in Services : x # s =>
                /\ history'.acked[x] = history.acked[x] /\ history'.due[x] = history.due[x]
                /\ history'.covered[x] = history.covered[x] /\ disk'[x] = disk[x]
          /\ history'.acked \in [Services -> Snapshots] /\ history'.due \in [Services -> Snapshots]
          /\ history'.covered \in [Services -> Snapshots]
        BY <1>2, <2>1 DEF DInv, Histories, IInv, TypeOK, Snapshots
    <2>3. /\ \A x \in Services : x # s => Missing(x)' = Missing(x)
          /\ \A x \in Services, y \in Instances : x # s => Lost(x, y)' = Lost(x, y)
        BY <2>1, Zenon DEF Missing, Lost
    <2>4. Histories'
        <3>1. \A x \in Services : /\ history'.due[x] \subseteq history'.acked[x]
                                  /\ history'.covered[x] \subseteq history'.acked[x]
            BY <2>2, Zenon DEF DInv, Histories
        <3>2. history'.spoiled \subseteq history.spoiled
            BY <2>1, Zenon
        <3> QED
            BY <1>1, <2>1, <2>2, <3>1, <3>2, Zenon DEF DInv, Histories
    <2>5. Applied'
        BY <1>1, <2>1, Zenon DEF DInv, Applied
    <2>6. KeptMem'
        BY <1>1, <1>3, <2>2, <2>3, Zenon DEF DInv, KeptMem
    <2>7. KeptBuf'
        BY <1>1, <1>2, <1>3, <2>2, <2>3 DEF DInv, KeptBuf, Threads
    <2>8. KeptFile'
        <3>1. \A x \in Services : x # s => ~Deleting(x)
            BY Zenon DEF Deleting, s
        <3> QED
            BY <1>1, <1>3, <2>2, <2>3, <3>1, Zenon DEF DInv, KeptFile
    <2>9. \A x \in Services, c \in ChangeIds : Noted(x, c)' => x # s /\ Noted(x, c)
        <3>1. \A k \in Clients : client[k].pc = "reply" => client[k].inst # 0
            BY RequestParts DEF IInv, Instances
        <3> QED
            BY <1>1, <1>2, <2>1, <2>2, <3>1 DEF Noted
    <2>10. CountedFile'
        BY <1>1, <1>4, <2>2, <2>3, <2>9, Zenon DEF DInv, CountedFile
    <2>11. CountedBuf'
        BY <1>1, <1>3, <1>4, <2>2, <2>3, <2>9 DEF DInv, CountedBuf
    <2>12. RoundFile' /\ RoundOver'
        BY <1>1, <1>4, <2>1, <2>2, <2>3, Zenon DEF DInv, RoundFile, RoundOver
    <2>13. RoundBuf'
        <3> SUFFICES ASSUME NEW t \in Threads, NEW x \in Services, NEW y \in Instances,
                            Writes(t, x, y), ~Lost(x, y)'
                     PROVE  /\ history'.covered[x] \ history.loose \subseteq job[t].buf
                            /\ \/ t # "autosave" /\ Waits(x)
                               \/ history'.due[x] \ history.loose \subseteq job[t].buf
            BY <1>1, <1>3, <1>4, <2>1 DEF RoundBuf
        <3>1. x # s
            BY <1>2, Zenon
        <3> QED
            BY <2>2, <2>3, <3>1, Zenon DEF DInv, RoundBuf
    <2> QED
        BY <1>6, <2>4, <2>5, <2>6, <2>7, <2>8, <2>10, <2>11, <2>12, <2>13, Zenon DEF DInv
<1> QED
    BY <1>7, <1>8, Zenon

(* A new instance is loaded from the file, which holds all that was         *)
(* acknowledged; or the port could not be bound.                            *)
LEMMA LoadIsKept ==
    ASSUME IInv, DInv, Load
    PROVE  DInv'
<1>1. /\ up /\ mgr.pc = "load"
      /\ UNCHANGED <<up, changes, savers, job, disk, auto, client, history>>
    BY Zenon DEF Load
<1>2. /\ mgr.s \in Services /\ Idle(mgr.s) /\ savers[mgr.s] = 0 /\ accepting[mgr.s] = 0
      /\ \A t \in Threads, i \in Instances : ~Writes(t, mgr.s, i)
    BY <1>1, DownMeansIdle, Zenon
<1>3. CASE UNCHANGED <<latest, engine, accepting>>
    <2>1. \A s \in Services : Idle(s)' /\ ~Deleting(s)' => Idle(s) /\ ~Deleting(s)
        BY <1>1, <1>3, SamePlaces, Zenon DEF Deleting
    <2>2. /\ \A s \in Services : accepting'[s] \in {0, accepting[s]}
          /\ job'["autosave"] = job["autosave"]
          /\ \A t \in Threads : job'[t].buf = job[t].buf
        BY <1>1, <1>3, Zenon
    <2> QED
        BY <1>1, <1>3, <2>1, <2>2, SamePlaces, ManagerFrame, Zenon
<1>4. CASE ~UNCHANGED <<latest, engine, accepting>>
    <2> DEFINE s == mgr.s
               i == latest[mgr.s] + 1
    <2>1. /\ latest' = [latest EXCEPT ![s] = i]
          /\ engine' = [engine EXCEPT ![s][i] = disk[s]]
          /\ accepting' = [accepting EXCEPT ![s] = i]
          /\ mgr' = [mgr EXCEPT !.pc = "register", !.inst = i]
        BY <1>4, Zenon DEF Load
    <2>2. /\ i \in Instances /\ i \in 0..MaxInstances /\ latest[s] \in Nat /\ s \in Services
          /\ latest[s] < i
        <3>1. latest[s] < MaxInstances
            BY <1>1, <1>2, ManagerParts, Zenon DEF IInv, Managed, Busy
        <3> QED
            BY <1>2, <3>1, PersistenceAssumption DEF IInv, TypeOK, Instances
    <2>3. /\ latest'[s] = i /\ accepting'[s] = i /\ engine'[s][i] = disk[s]
          /\ \A x \in Services : x # s => /\ latest'[x] = latest[x] /\ accepting'[x] = accepting[x]
                                          /\ engine'[x] = engine[x]
          /\ \A y \in Instances : y # i => engine'[s][y] = engine[s][y]
        BY <2>1, <2>2, Zenon DEF IInv, TypeOK
    <2>4. mgr'.pc = "register"
        BY <1>1, <2>1, ManagerParts, Zenon DEF IInv
    <2> HIDE DEF s, i
    <2>5. /\ \A x \in Services, y \in Instances : x # s => Used(x, y)' = Used(x, y)
          /\ \A y \in Instances : ~Used(s, y)
          /\ \A x \in Services, y \in Instances : x = s => (Used(x, y)' <=> y = i)
        <3>1. \A y \in Instances : ~Used(s, y)
            BY <1>2, Zenon DEF Idle, s
        <3>2. \A x \in Services, y \in Instances : x # s => Used(x, y)' = Used(x, y)
            BY <1>1, <2>3, Zenon DEF Used, Active
        <3>3. \A x \in Services, y \in Instances : x = s => (Used(x, y)' <=> y = i)
            BY <1>1, <2>3, <3>1 DEF Used, Active
        <3> QED
            BY <3>1, <3>2, <3>3, Zenon
    <2>6. Histories'
        BY <1>1, <2>2, <2>3 DEF DInv, Histories
    <2>7. Gone' /\ Watching'
        BY <1>1, Zenon DEF DInv, Gone, Watching, Active
    <2>8. Newest'
        BY <2>3, <2>5, Zenon DEF DInv, Newest
    <2>9. \A k \in Clients : client[k].pc # "idle" /\ client[k].s = s =>
             client[k].inst # i
        BY <2>2 DEF IInv, HistoryOK, s, i
    <2>10. Applied'
        <3>1. \A k \in Clients : client[k].pc \in {"postmark", "reply"} =>
                 client[k].s \in Services /\ client[k].inst \in Instances
            BY RequestParts, Zenon DEF IInv
        <3> QED
            BY <1>1, <2>3, <2>9, <3>1 DEF DInv, Applied
    <2>11. /\ \A x \in Services : Missing(x)' = Missing(x)
           /\ \A x \in Services, y \in Instances : Lost(x, y)' = Lost(x, y)
           /\ \A t \in Threads, x \in Services, y \in Instances : Writes(t, x, y)' = Writes(t, x, y)
        BY <1>1, Zenon DEF Missing, Lost, Writes
    <2>12. ~Lost(s, i) => ~Missing(s)
        <3>1. \A j \in 0..MaxInstances : <<s, j>> \in history.spoiled => j <= latest[s]
            BY <1>1, <2>2, Zenon DEF DInv, Histories
        <3>2. \A j \in 0..MaxInstances : j <= latest[s] => j < i
            BY <2>2
        <3> QED
            BY <3>1, <3>2, Zenon DEF Lost, Missing
    <2>13. ~Missing(s) => history.acked[s] \subseteq disk[s]
        <3>1. Idle(s) /\ ~Deleting(s) /\ s \in Services
            BY <1>1, <1>2, Zenon DEF Deleting, s
        <3> QED
            BY <1>1, <3>1, Zenon DEF DInv, KeptFile
    <2>14. KeptMem'
        <3> SUFFICES ASSUME NEW x \in Services, NEW y \in Instances, Used(x, y)', ~Lost(x, y)
                     PROVE  history.acked[x] \subseteq engine'[x][y]
            BY <1>1, <2>11, Zenon DEF KeptMem
        <3>1. CASE x = s
            BY <2>3, <2>5, <2>12, <2>13, <3>1, Zenon
        <3>2. CASE x # s
            BY <2>3, <2>5, <3>2, Zenon DEF DInv, KeptMem
        <3> QED
            BY <3>1, <3>2, Zenon
    <2>15. KeptBuf'
        BY <1>1, <2>11, Zenon DEF DInv, KeptBuf, Threads
    <2>16. KeptFile'
        <3>1. \A x \in Services : Idle(x)' /\ ~Deleting(x)' => Idle(x) /\ ~Deleting(x)
            BY <1>1, <2>2, <2>5, Zenon DEF Idle, Deleting
        <3> QED
            BY <1>1, <2>11, <3>1, Zenon DEF DInv, KeptFile
    <2>17. \A x \in Services, c \in ChangeIds : Noted(x, c)' => Noted(x, c)
        BY <1>1, <2>3, <2>9 DEF Noted
    <2>18. \A x \in Services : /\ Locking(x)' = Locking(x) /\ Over(x)' = Over(x)
                               /\ Between(x)' = Between(x) /\ Waits(x)' = Waits(x)
        BY <1>1, SameTurn, Zenon
    <2>19. CountedFile' /\ CountedBuf'
        BY <1>1, <2>11, <2>17, <2>18, CountedFrame, Zenon DEF DInv
    <2>20. RoundFile' /\ RoundOver' /\ RoundBuf'
        BY <1>1, <2>11, <2>18, RoundsFrame, Zenon DEF DInv
    <2> QED
        BY <2>6, <2>7, <2>8, <2>10, <2>14, <2>15, <2>16, <2>19, <2>20, Zenon DEF DInv
<1> QED
    BY <1>3, <1>4, Zenon

(* The process is gone.                                                     *)
LEMMA ExitIsKept ==
    ASSUME IInv, DInv, Exit
    PROVE  DInv'
<1>1. /\ up' = FALSE /\ disk' = disk /\ history' = history
      /\ \A s \in Services : accepting'[s] = 0 /\ savers'[s] = 0
      /\ \A s \in Services : changes'[s] = 0 /\ auto'.saved[s] = 0
      /\ auto'.pc = "sleep" /\ auto'.list = {} /\ mgr'.pc = "idle"
      /\ \A t \in Threads : job'[t].step = "none"
      /\ \A k \in Clients : client'[k].pc = "idle"
    BY Zenon DEF Exit, NoInstance, NoJob, NoClient
<1>2. /\ \A s \in Services, i \in Instances : ~Used(s, i)'
      /\ \A t \in Threads, s \in Services, i \in Instances : ~Writes(t, s, i)'
    BY <1>1 DEF Used, Active, Writes, Instances
<1>3. Histories' /\ Gone' /\ Newest' /\ Applied'
    BY <1>1, <1>2, Zenon DEF DInv, Histories, Gone, Newest, Applied
<1>4. Watching'
    BY <1>1 DEF Watching, Active, Threads
<1>5. KeptMem' /\ KeptBuf' /\ KeptFile' /\ CountedFile' /\ CountedBuf'
    BY <1>1, <1>2, Zenon DEF KeptMem, KeptBuf, KeptFile, CountedFile, CountedBuf, Threads
<1>6. RoundFile' /\ RoundOver' /\ RoundBuf'
    BY <1>1, <1>2, Zenon DEF DInv, RoundFile, RoundOver, RoundBuf, Over, Missing
<1> QED
    BY <1>3, <1>4, <1>5, <1>6, Zenon DEF DInv

(* The next process promises what is in the files.                          *)
LEMMA BootIsKept ==
    ASSUME IInv, DInv, Boot
    PROVE  DInv'
<1>1. /\ ~up
      /\ UNCHANGED <<accepting, latest, engine, changes, savers, job, disk, auto, mgr, client>>
    BY Zenon DEF Boot
<1>2. /\ history'.acked = disk /\ history'.due = disk /\ history'.covered = disk
      /\ history'.spoiled = {} /\ history'.loose = history.loose
    BY Zenon DEF Boot, IInv, HistoryOK
<1>3. /\ \A s \in Services : accepting[s] = 0 /\ savers[s] = 0
      /\ \A t \in Threads : job[t].step = "none"
      /\ \A k \in Clients : client[k].pc = "idle"
      /\ auto.pc = "sleep"
    BY <1>1, Zenon DEF DInv, Gone
<1>4. /\ \A s \in Services, i \in Instances : ~Used(s, i)'
      /\ \A t \in Threads, s \in Services, i \in Instances : ~Writes(t, s, i)'
    BY <1>1, <1>3 DEF Used, Active, Writes, Instances
<1>5. Histories'
    BY <1>1, <1>2, Zenon DEF DInv, Histories, IInv, TypeOK
<1>6. Gone' /\ Newest' /\ Applied' /\ Watching'
    <2>1. up'
        BY Zenon DEF Boot
    <2> QED
        BY <1>1, <1>3, <1>4, <2>1, Zenon DEF DInv, Gone, Newest, Applied, Watching, Active
<1>7. KeptMem' /\ KeptBuf' /\ KeptFile'
    BY <1>1, <1>2, <1>4, Zenon DEF KeptMem, KeptBuf, KeptFile, Threads
<1>8. CountedFile' /\ CountedBuf'
    <2>1. \A s \in Services, c \in ChangeIds : Noted(s, c)' => c \in disk[s]
        BY <1>1, <1>2, <1>3, Zenon DEF Noted
    <2> QED
        BY <1>1, <1>4, <2>1, Zenon DEF CountedFile, CountedBuf
<1>9. RoundFile' /\ RoundOver' /\ RoundBuf'
    BY <1>1, <1>2, <1>3, <1>4, Zenon DEF RoundFile, RoundOver, RoundBuf, Over
<1> QED
    BY <1>5, <1>6, <1>7, <1>8, <1>9, Zenon DEF DInv

(* Doing nothing.                                                           *)
LEMMA StutterIsKept ==
    ASSUME DInv, UNCHANGED vars
    PROVE  DInv'
<1>1. Histories' /\ Gone' /\ Applied'
    BY Zenon DEF vars, DInv, Histories, Gone, Applied
<1>2. /\ \A s \in Services, i \in Instances : Used(s, i)' = Used(s, i)
      /\ \A s \in Services, i \in Instances : Lost(s, i)' = Lost(s, i)
      /\ \A s \in Services : /\ Missing(s)' = Missing(s) /\ Idle(s)' = Idle(s)
                            /\ Deleting(s)' = Deleting(s) /\ Locking(s)' = Locking(s)
                            /\ Over(s)' = Over(s) /\ Between(s)' = Between(s)
                            /\ Waits(s)' = Waits(s)
      /\ \A s \in Services, c \in ChangeIds : Noted(s, c)' = Noted(s, c)
      /\ \A t \in Threads, s \in Services, i \in Instances :
            Writes(t, s, i)' = Writes(t, s, i) /\ job'[t].buf = job[t].buf
    BY SamePlaces, SameTurn, Zenon DEF vars, Lost, Missing, Deleting, Noted
<1>3. Newest' /\ Watching'
    BY <1>2, Zenon DEF vars, DInv, Newest, Watching, Active
<1>4. KeptMem' /\ KeptBuf' /\ KeptFile'
    BY <1>2 DEF vars, DInv, KeptMem, KeptBuf, KeptFile, Threads
<1>5. CountedFile' /\ CountedBuf'
    BY <1>2, Zenon DEF vars, DInv, CountedFile, CountedBuf
<1>6. RoundFile' /\ RoundOver' /\ RoundBuf'
    BY <1>2 DEF vars, DInv, RoundFile, RoundOver, RoundBuf
<1> QED
    BY <1>1, <1>3, <1>4, <1>5, <1>6, Zenon DEF DInv

-----------------------------------------------------------------------------
(* Nothing is promised before the first start.                              *)
LEMMA InitIsKept == Init => DInv
<1> SUFFICES ASSUME Init PROVE DInv
    OBVIOUS
<1>1. /\ \A s \in Services : accepting[s] = 0 /\ savers[s] = 0 /\ latest[s] = 0
      /\ \A t \in Threads : job[t].step = "none"
      /\ \A k \in Clients : client[k].pc = "idle"
      /\ \A s \in Services : changes[s] = 0 /\ auto.saved[s] = 0
      /\ auto.pc = "sleep" /\ auto.list = {} /\ up
    BY Zenon DEF Init, NoInstance, NoJob, NoClient
<1>2. /\ \A s \in Services : /\ history.acked[s] = {} /\ history.due[s] = {}
                            /\ history.covered[s] = {}
      /\ history.acked \in [Services -> Snapshots] /\ history.due \in [Services -> Snapshots]
      /\ history.covered \in [Services -> Snapshots]
      /\ history.spoiled = {} /\ history.loose = {}
    BY Zenon DEF Init, Snapshots
<1>3. /\ \A s \in Services, i \in Instances : ~Used(s, i)
      /\ \A t \in Threads, s \in Services, i \in Instances : ~Writes(t, s, i)
    BY <1>1 DEF Used, Active, Writes, Instances
<1>4. Histories /\ Gone /\ Newest /\ Applied
    BY <1>1, <1>2, <1>3, Zenon DEF Histories, Gone, Newest, Applied
<1>5. Watching
    BY <1>1 DEF Watching, Active, Threads
<1>6. KeptMem /\ KeptBuf /\ KeptFile
    BY <1>2, <1>3, Zenon DEF KeptMem, KeptBuf, KeptFile, Threads
<1>7. CountedFile /\ CountedBuf
    BY <1>1, <1>2, <1>3, Zenon DEF CountedFile, CountedBuf, Noted
<1>8. RoundFile /\ RoundOver /\ RoundBuf
    BY <1>1, <1>2, <1>3, Zenon DEF RoundFile, RoundOver, RoundBuf, Over
<1> QED
    BY <1>4, <1>5, <1>6, <1>7, <1>8, Zenon DEF DInv

(* Every step keeps the invariant.                                          *)
LEMMA StepIsKept ==
    ASSUME IInv, DInv, [Next]_vars
    PROVE  DInv'
<1>1. CASE \E k \in Clients, s \in Services : \E site \in MarkSites[s] : Request(k, s, site)
    BY <1>1, RequestIsKept, Zenon
<1>2. CASE \E k \in Clients : Serve(k)
    BY <1>2, MarkStepIsKept, ApplyIsKept, ReplyIsKept, Zenon DEF Serve
<1>3. CASE \E t \in Threads : Save(t)
    BY <1>3, SaveBeginIsKept, SaveWriteIsKept, SaveRenameIsKept, Zenon DEF Save
<1>4. CASE Autosave
    BY <1>4, AutoWakeIsKept, AutoLockIsKept, AutoSavedIsKept, AutoSleepIsKept,
       AutoCheckIsKept, Zenon
    DEF Autosave
<1>5. CASE RequestShutdown \/ \E op \in Operations, s \in Services : Operate(op, s)
    BY <1>5, BeginningsAreKept, Zenon
<1>6. CASE Manage
    BY Zenon, <1>6, StopLifeIsKept, ForgetIsKept, ForgottenIsKept, DeleteIsKept, LoadIsKept,
       RegisterIsKept DEF Manage
<1>7. CASE Shutdown
    BY <1>7, BeginningsAreKept, ShutdownSaveIsKept, ExitIsKept, Zenon DEF Shutdown, ShutdownExit
<1>8. CASE Kill
    BY <1>8, ExitIsKept, Zenon DEF Kill
<1>9. CASE Boot
    BY <1>9, BootIsKept, Zenon
<1>10. CASE UNCHANGED vars
    BY <1>10, StutterIsKept, Zenon
<1> QED
    BY <1>1, <1>2, <1>3, <1>4, <1>5, <1>6, <1>7, <1>8, <1>9, <1>10, Zenon DEF Next

(* The invariant holds throughout.                                          *)
LEMMA AlwaysKept == Spec => [](IInv /\ DInv)
<1>1. Init => IInv /\ DInv
    BY InitSound, InitIsKept, Zenon
<1>2. (IInv /\ DInv) /\ [Next]_vars => (IInv /\ DInv)'
    BY StepSound, StepIsKept, Zenon
<1> QED
    BY <1>1, <1>2, PTL DEF Spec

(* What SaveMissing says of a service.                                      *)
LEMMA NotMissing ==
    ASSUME NEW s \in Services, s \notin SaveMissing
    PROVE  ~Missing(s)
<1> SUFFICES ASSUME NEW j \in 0..MaxInstances, <<s, j>> \in history.spoiled
             PROVE  s \in SaveMissing
    BY Zenon DEF Missing
<1>1. <<s, j>>[1] = s
    OBVIOUS
<1> QED
    BY <1>1, Zenon DEF SaveMissing

-----------------------------------------------------------------------------
(* While the process runs, an acknowledged change is in the memory of the   *)
(* instance that is served and in the file of a service that is down:       *)
(* stopping, restarting and starting a service lose nothing, whatever       *)
(* requests, saves and shutdowns run beside them, as long as its saves      *)
(* succeed (Manager::stop, forget, spawn_persistent).                       *)
THEOREM AcknowledgedIsKept == Spec => []AckedKept
<1>1. IInv /\ DInv => AckedKept
    <2> SUFFICES ASSUME IInv, DInv, NEW s \in Services, s \notin SaveMissing, up
                 PROVE  /\ accepting[s] # 0 => history.acked[s] \subseteq engine[s][accepting[s]]
                        /\ running[s] = 0 /\ mgr.pc = "idle" => history.acked[s] \subseteq disk[s]
        BY Zenon DEF AckedKept
    <2>1. ~Missing(s) /\ \A i \in Instances : ~Lost(s, i)
        BY NotMissing, LostIsMissing, Zenon
    <2>2. ASSUME accepting[s] # 0
          PROVE  history.acked[s] \subseteq engine[s][accepting[s]]
        <3>1. accepting[s] \in Instances /\ Used(s, accepting[s])
            BY <2>2 DEF IInv, TypeOK, Instances, Used
        <3> QED
            BY <2>1, <3>1, Zenon DEF DInv, KeptMem
    <2>3. ASSUME running[s] = 0, mgr.pc = "idle"
          PROVE  history.acked[s] \subseteq disk[s]
        <3>1. savers[s] = 0 /\ accepting[s] = 0
            BY <2>3, Zenon DEF IInv, Managed, Busy
        <3>2. \A t \in Threads : Active(t) => job[t].s # s
            <4> SUFFICES ASSUME NEW t \in Threads, Active(t), job[t].s = s
                         PROVE  FALSE
                OBVIOUS
            <4>1. t # "manager" /\ job[t].inst \in Instances
                BY <2>3, JobParts, Zenon DEF IInv, Saving
            <4> QED
                BY <3>1, <4>1 DEF IInv, Saving, Instances
        <3>3. Idle(s) /\ ~Deleting(s)
            BY <2>3, <3>1, <3>2 DEF Idle, Used, Instances, Deleting
        <3> QED
            BY <2>1, <3>3, Zenon DEF DInv, KeptFile
    <2> QED
        BY <2>2, <2>3, Zenon
<1> QED
    BY <1>1, AlwaysKept, PTL

(* Killed at any moment, the process loses at most what was acknowledged    *)
(* since the last complete round of the autosave began: all else is in the  *)
(* files, but for changes marked too early or not at all and for services   *)
(* whose saves failed or were skipped (start_autosave, mark).               *)
THEOREM KillLosesAtMostARound == Spec => []AtMostARound
<1>1. DInv => AtMostARound
    BY NotMissing, Zenon DEF DInv, RoundFile, AtMostARound
<1> QED
    BY <1>1, AlwaysKept, PTL
=============================================================================
