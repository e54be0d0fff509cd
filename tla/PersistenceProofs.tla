------------------------- MODULE PersistenceProofs -------------------------
(***************************************************************************)
(* What persistence.rs and services.rs promise of the snapshot files, for  *)
(* every number of services, requests, changes and restarts.               *)
(*                                                                         *)
(* The argument: at most one save runs at a time, by save_lock; the saver  *)
(* that runs is that of the instance in use, because forget waits for the  *)
(* lock and the autosave looks again under it; and the instance in use was *)
(* loaded from the file or has saved it itself, so it holds all of it.     *)
(***************************************************************************)
EXTENDS Persistence, TLAPS

Jobs ==
    [step : {"none", "done"}]
    \union [step : {"snapshot"}, s : Services, inst : Instances]
    \union [step : {"write", "rename"}, s : Services, inst : Instances,
            buf : Snapshots]

Managers ==
    [pc : {"idle"}]
    \union [pc : {"stop", "forget", "saving", "delete", "load", "register"},
            op : {"start", "stop", "restart", "reset"}, s : Services,
            inst : 0..MaxInstances]

Requests ==
    [pc : {"idle"}]
    \union [pc : {"premark", "apply", "postmark"}, s : Services, inst : Instances,
            c : ChangeIds, site : {"inside", "before", "after", "never"}]
    \union [pc : {"reply"}, s : Services, inst : Instances, c : ChangeIds]

Savers == SUBSET (Services \X Instances)

Autosaves ==
    [pc : {"sleep", "round"}, list : Savers, saved : [Services -> Nat]]
    \union [pc : {"locking", "saving"}, list : Savers, saved : [Services -> Nat],
            s : Services, inst : Instances]

TypeOK ==
    /\ running \in [Services -> 0..MaxInstances]
    /\ accepting \in [Services -> 0..MaxInstances]
    /\ latest \in [Services -> 0..MaxInstances]
    /\ savers \in [Services -> 0..MaxInstances]
    /\ engine \in [Services -> [Instances -> Snapshots]]
    /\ changes \in [Services -> Nat]
    /\ job \in [Threads -> Jobs]
    /\ tmp \in [Services -> SUBSET Nat]
    /\ disk \in [Services -> Snapshots]
    /\ auto \in Autosaves
    /\ mgr \in Managers
    /\ shut \in [pc : {"watch", "saving"}, todo : Savers]
    /\ client \in [Clients -> Requests]

(* The two fields of the history the properties below read. *)
HistoryOK ==
    /\ DOMAIN history = {"next", "acked", "due", "covered", "wiped", "loose", "spoiled"}
    /\ history.next \in 1..(MaxChanges + 1)
    /\ history.wiped \in [Services -> Nat]
    /\ \A s \in Services : history.wiped[s] < history.next
    /\ \A k \in Clients : client[k].pc # "idle" =>
          client[k].c < history.next /\ client[k].inst <= latest[client[k].s]

Active(t) == job[t].step \in {"snapshot", "write", "rename"}

Busy(s) == mgr.pc # "idle" /\ mgr.s = s

(* save_lock: a thread with a save under way, or just over, holds it.       *)
Locked ==
    /\ \A t \in Threads : job[t].step # "none" => saveLock = t
    /\ shut.pc = "saving" => saveLock = "shutdown"
    /\ shut.pc = "watch" => shut.todo = {}

(* The manager: which instance of a service is registered and open at each  *)
(* point of an operation on it.                                             *)
Managed ==
    \A s \in Services :
        /\ savers[s] <= latest[s] /\ accepting[s] <= latest[s]
        /\ ~Busy(s) => savers[s] = running[s] /\ accepting[s] = running[s]
        /\ Busy(s) =>
             /\ running[s] = 0
             /\ mgr.pc \in {"stop", "forget"} => mgr.inst # 0 /\ savers[s] = mgr.inst
             /\ mgr.pc \in {"stop", "register"} => mgr.inst # 0 /\ accepting[s] = mgr.inst
             /\ mgr.pc \notin {"stop", "forget"} => savers[s] = 0
             /\ mgr.pc \notin {"stop", "register"} => accepting[s] = 0
             /\ mgr.pc \in {"stop", "forget", "saving"} => mgr.op # "start"
             /\ mgr.pc \in {"delete", "load"} => mgr.op # "stop"
             /\ mgr.pc # "register" /\ mgr.op # "stop" => latest[s] < MaxInstances

(* Whose save a thread runs, and what it has written so far.                *)
Saving ==
    /\ \A t \in Threads : Active(t) =>
          LET j == job[t] IN
          /\ t = "manager" => mgr.pc = "saving" /\ mgr.s = j.s
          /\ t # "manager" => savers[j.s] = j.inst
          /\ j.inst <= latest[j.s]
          /\ j.step # "snapshot" =>
                disk[j.s] \subseteq j.buf /\ j.buf \subseteq engine[j.s][j.inst]
          /\ j.step = "rename" => tmp[j.s] = j.buf
    /\ \A s \in Services, i \in Instances : <<s, i>> \in shut.todo => savers[s] = i

(* The instances of s that can still reach its snapshot file. *)
Used(s, i) ==
    \/ savers[s] = i
    \/ accepting[s] = i
    \/ \E t \in Threads : Active(t) /\ job[t].s = s /\ job[t].inst = i

(* An instance in use holds all of the snapshot file.                       *)
Whole ==
    \A s \in Services, i \in Instances :
        Used(s, i) => disk[s] \subseteq engine[s][i]

(* Neither the file nor an instance in use holds anything that was wiped,   *)
(* and no request to such an instance will add any of it.                   *)
Clean ==
    \A s \in Services :
        /\ \A c \in disk[s] : c > history.wiped[s]
        /\ \A i \in Instances : Used(s, i) =>
              /\ \A c \in engine[s][i] : c > history.wiped[s]
              /\ \A k \in Clients : client[k].pc # "idle" =>
                    (client[k].s = s /\ client[k].inst = i => client[k].c > history.wiped[s])

IInv == TypeOK /\ HistoryOK /\ Locked /\ Managed /\ Saving /\ Whole /\ Clean

-----------------------------------------------------------------------------
(* What the types say of a request, a save and an operation under way.      *)
LEMMA RequestParts ==
    ASSUME TypeOK, NEW k \in Clients, client[k].pc # "idle"
    PROVE  /\ client[k].s \in Services
           /\ client[k].inst \in Instances
           /\ client[k].c \in ChangeIds
           /\ client[k].pc # "reply" =>
                client[k] \in [pc : {"premark", "apply", "postmark"}, s : Services,
                               inst : Instances, c : ChangeIds,
                               site : {"inside", "before", "after", "never"}]
    BY Zenon DEF TypeOK, Requests

(* A save under way has a service, an instance and, once taken, a snapshot. *)
LEMMA JobParts ==
    ASSUME TypeOK, NEW t \in Threads, Active(t)
    PROVE  /\ job[t].s \in Services
           /\ job[t].inst \in Instances
           /\ job[t].step # "snapshot" =>
                /\ job[t] \in [step : {"write", "rename"}, s : Services,
                               inst : Instances, buf : Snapshots]
                /\ job[t].buf \in Snapshots
    BY Zenon DEF TypeOK, Jobs, Active

(* An operation under way is about one service, which is the busy one.      *)
LEMMA ManagerParts ==
    ASSUME TypeOK, mgr.pc # "idle"
    PROVE  /\ mgr \in [pc : {"stop", "forget", "saving", "delete", "load", "register"},
                       op : {"start", "stop", "restart", "reset"}, s : Services,
                       inst : 0..MaxInstances]
           /\ mgr.s \in Services
           /\ mgr.inst \in 0..MaxInstances
           /\ Busy(mgr.s)
           /\ \A s \in Services : Busy(s) => s = mgr.s
    BY Zenon DEF TypeOK, Managers, Busy

(* A save under way is the only one, and it is that of the instance in use. *)
LEMMA OneInUse ==
    ASSUME IInv, NEW t \in Threads, Active(t),
           NEW i \in Instances, Used(job[t].s, i)
    PROVE  i = job[t].inst
<1>1. job[t].s \in Services /\ job[t].inst \in Instances
    BY JobParts, Zenon DEF IInv
<1>2. \A u \in Threads : Active(u) => u = t
    BY Zenon DEF IInv, Locked, Active, Threads
<1>3. CASE t = "manager"
    <2>1. mgr.pc = "saving" /\ mgr.s = job[t].s
        BY <1>3, Zenon DEF IInv, Saving
    <2>2. savers[job[t].s] = 0 /\ accepting[job[t].s] = 0
        BY <1>1, <2>1, Zenon DEF IInv, Managed, Busy
    <2> QED
        BY <1>2, <2>2 DEF Used, Instances
<1>4. CASE t # "manager"
    <2>1. savers[job[t].s] = job[t].inst
        BY <1>4, Zenon DEF IInv, Saving
    <2>2. accepting[job[t].s] \in {0, savers[job[t].s]}
        BY <1>1, <2>1 DEF IInv, Managed, Instances
    <2> QED
        BY <1>2, <2>1, <2>2 DEF Used, Instances
<1> QED
    BY <1>3, <1>4, Zenon

(* A step that changes neither files nor memory and brings no instance into *)
(* use keeps what is said of the instances in use.                          *)
LEMMA Frame ==
    ASSUME IInv,
           \A s \in Services, i \in Instances : Used(s, i)' => Used(s, i),
           UNCHANGED <<engine, disk>>,
           history'.wiped = history.wiped,
           \A k \in Clients : client'[k].pc # "idle" =>
               /\ client[k].pc # "idle"
               /\ client'[k].s = client[k].s
               /\ client'[k].inst = client[k].inst
               /\ client'[k].c = client[k].c
    PROVE  Whole' /\ Clean'
<1>1. Whole'
    BY Zenon DEF IInv, Whole
<1>2. Clean'
    BY Zenon DEF IInv, Clean
<1> QED
    BY <1>1, <1>2, Zenon

(* A step of the autosave, the signal handler or the next process that      *)
(* touches nothing but its own state and the history.                       *)
LEMMA QuietStepKeeps ==
    ASSUME IInv, auto' \in Autosaves, changes' = changes,
           UNCHANGED <<running, accepting, latest, engine, savers, saveLock, job,
                       tmp, disk, mgr, shut, client>>,
           DOMAIN history' = DOMAIN history,
           history'.next = history.next,
           history'.wiped = history.wiped
    PROVE  IInv'
<1>1. TypeOK'
    BY Zenon DEF IInv, TypeOK
<1>2. HistoryOK'
    BY Zenon DEF IInv, HistoryOK
<1>3. Locked'
    BY Zenon DEF IInv, Locked
<1>4. Managed'
    BY Zenon DEF IInv, Managed, Busy
<1>5. Saving'
    BY Zenon DEF IInv, Saving, Active
<1>6. Whole' /\ Clean'
    BY Frame, Zenon DEF Used, Active
<1> QED
    BY <1>1, <1>2, <1>3, <1>4, <1>5, <1>6, Zenon DEF IInv

(* The autosave's steps outside save_lock.                                  *)
LEMMA AutosaveIsQuiet ==
    ASSUME IInv, AutoWake \/ AutoSleep \/ \E s \in Services, i \in Instances : AutoCheck(s, i)
    PROVE  IInv'
<1>1. CASE AutoWake
    <2>1. {<<s, savers[s]>> : s \in {x \in Services : savers[x] # 0}} \in Savers
        BY DEF IInv, TypeOK, Savers, Instances
    <2>2. auto \in [pc : {"sleep", "round"}, list : Savers, saved : [Services -> Nat]]
        BY <1>1, Zenon DEF AutoWake, IInv, TypeOK, Autosaves
    <2> DEFINE all == {<<s, savers[s]>> : s \in {x \in Services : savers[x] # 0}}
    <2> HIDE DEF all
    <2>3. auto' = [auto EXCEPT !.pc = "round", !.list = all]
        BY <1>1, Zenon DEF AutoWake, all
    <2>4. auto' \in Autosaves
        BY <2>1, <2>2, <2>3, Zenon DEF Autosaves, all
    <2> QED
        BY <1>1, <2>4, QuietStepKeeps, Zenon DEF AutoWake, IInv, HistoryOK
<1>2. CASE AutoSleep
    <2>1. auto' \in Autosaves
        BY <1>2, Zenon DEF AutoSleep, IInv, TypeOK, Autosaves
    <2> QED
        BY <1>2, <2>1, QuietStepKeeps, Zenon DEF AutoSleep, IInv, HistoryOK
<1>3. ASSUME NEW s \in Services, NEW i \in Instances, AutoCheck(s, i)
      PROVE  IInv'
    <2>1. auto' \in Autosaves
        BY <1>3, Zenon DEF AutoCheck, IInv, TypeOK, Autosaves, Savers
    <2> QED
        BY <1>3, <2>1, QuietStepKeeps, Zenon DEF AutoCheck
<1> QED
    BY <1>1, <1>2, <1>3, Zenon

(* A signal, the next start of the process, or nothing.                     *)
LEMMA ProcessIsQuiet ==
    ASSUME IInv, RequestShutdown \/ Boot \/ UNCHANGED vars
    PROVE  IInv'
<1>1. auto' \in Autosaves
    BY Zenon DEF RequestShutdown, Boot, vars, IInv, TypeOK
<1> QED
    BY <1>1, QuietStepKeeps, Zenon DEF RequestShutdown, Boot, vars, IInv, HistoryOK

-----------------------------------------------------------------------------
(* The steps of a client request. *)

(* A new request goes to the instance in use, after anything wiped.         *)
LEMMA RequestKeeps ==
    ASSUME IInv, NEW k \in Clients, NEW s \in Services, NEW site \in MarkSites[s],
           Request(k, s, site)
    PROVE  IInv'
<1> DEFINE new == [pc |-> IF site = "before" THEN "premark" ELSE "apply",
                   s |-> s, inst |-> accepting[s], c |-> history.next, site |-> site]
<1>1. new \in Requests /\ new.pc # "idle"
    <2>1. site \in {"inside", "before", "after", "never"}
        BY PersistenceAssumption, Zenon
    <2>2. accepting[s] \in Instances /\ history.next \in ChangeIds
        BY PersistenceAssumption
        DEF IInv, TypeOK, HistoryOK, Request, Instances, ChangeIds
    <2> QED
        BY <2>1, <2>2, Zenon DEF Requests
<1>2. /\ new.s = s /\ new.inst = accepting[s] /\ new.c = history.next
      /\ client' = [client EXCEPT ![k] = new]
    BY Zenon DEF Request
<1> HIDE DEF new
<1>3. TypeOK'
    <2>1. client' \in [Clients -> Requests]
        BY <1>1, <1>2, Zenon DEF IInv, TypeOK
    <2> QED
        BY <2>1, Zenon DEF IInv, TypeOK, Request
<1>4. history'.next = history.next + 1 /\ history'.wiped = history.wiped
      /\ DOMAIN history' = DOMAIN history
    BY Zenon DEF IInv, HistoryOK, Request
<1>5. HistoryOK'
    <2>1. history'.next \in 1..(MaxChanges + 1)
        BY <1>4, PersistenceAssumption DEF IInv, HistoryOK, Request
    <2>2. accepting[s] <= latest[s] /\ history.next < history'.next
        BY <1>4 DEF IInv, Managed, HistoryOK
    <2>3. \A x \in Clients : client'[x].pc # "idle" =>
             client'[x].c < history'.next /\ client'[x].inst <= latest'[client'[x].s]
        <3> TAKE x \in Clients
        <3>1. CASE x = k
            BY <3>1, <1>2, <2>2, Zenon DEF IInv, TypeOK, Request
        <3>2. CASE x # k
            BY <3>2, <1>2, <1>4, RequestParts DEF IInv, TypeOK, HistoryOK, Request, ChangeIds
        <3> QED
            BY <3>1, <3>2, Zenon
    <2> QED
        BY <1>4, <2>1, <2>3 DEF IInv, HistoryOK
<1>6. Locked' /\ Managed' /\ Saving'
    BY Zenon DEF IInv, Locked, Managed, Saving, Busy, Active, Request
<1>7. Whole'
    BY Zenon DEF IInv, Whole, Used, Active, Request
<1>8. Clean'
    <2>1. \A x \in Services, i \in Instances : Used(x, i)' = Used(x, i)
        BY Zenon DEF Used, Active, Request
    <2>2. \A x \in Clients : x # k => client'[x] = client[x]
        BY <1>2, Zenon DEF IInv, TypeOK
    <2>3. client'[k] = new /\ history.next > history.wiped[s]
        BY <1>2, Zenon DEF IInv, TypeOK, HistoryOK
    <2>4. UNCHANGED <<disk, engine>>
        BY Zenon DEF Request
    <2> QED
        BY <1>2, <1>4, <2>1, <2>2, <2>3, <2>4 DEF IInv, Clean
<1> QED
    BY <1>3, <1>5, <1>6, <1>7, <1>8, Zenon DEF IInv

(* Marking changes a counter only.                                          *)
LEMMA MarkStepKeeps ==
    ASSUME IInv, NEW k \in Clients, MarkStep(k)
    PROVE  IInv'
<1> DEFINE r == client[k]
<1> DEFINE next == IF r.pc = "premark" THEN [r EXCEPT !.pc = "apply"] ELSE Replying(r)
<1>1. r \in [pc : {"premark", "apply", "postmark"}, s : Services, inst : Instances,
             c : ChangeIds, site : {"inside", "before", "after", "never"}]
    BY RequestParts, Zenon DEF IInv, MarkStep
<1>2. /\ next \in Requests /\ next.pc # "idle"
      /\ next.s = r.s /\ next.inst = r.inst /\ next.c = r.c
    BY <1>1, Zenon DEF Requests, Replying
<1>3. client' = [client EXCEPT ![k] = next] /\ r.pc # "idle"
    BY Zenon DEF MarkStep
<1> HIDE DEF next
<1>4. TypeOK'
    <2>1. client' \in [Clients -> Requests]
        BY <1>2, <1>3, Zenon DEF IInv, TypeOK
    <2>2. changes' \in [Services -> Nat]
        BY <1>1 DEF IInv, TypeOK, MarkStep, Marked
    <2> QED
        BY <2>1, <2>2, Zenon DEF IInv, TypeOK, MarkStep
<1>5. \A x \in Clients : /\ client'[x].pc # "idle" => client[x].pc # "idle"
                         /\ client'[x].s = client[x].s
                         /\ client'[x].inst = client[x].inst
                         /\ client'[x].c = client[x].c
    BY <1>2, <1>3, Zenon DEF IInv, TypeOK
<1>6. HistoryOK'
    BY <1>5, Zenon DEF IInv, HistoryOK, MarkStep
<1>7. Locked' /\ Managed' /\ Saving'
    BY Zenon DEF IInv, Locked, Managed, Saving, Busy, Active, MarkStep
<1>8. Whole' /\ Clean'
    BY <1>5, Frame, Zenon DEF MarkStep, Used, Active
<1> QED
    BY <1>4, <1>6, <1>7, <1>8, Zenon DEF IInv

(* A change only adds to the memory of its instance.                        *)
LEMMA ApplyKeeps ==
    ASSUME IInv, NEW k \in Clients, Apply(k)
    PROVE  IInv'
<1> DEFINE r == client[k]
<1> DEFINE next == IF r.site = "after" THEN [r EXCEPT !.pc = "postmark"] ELSE Replying(r)
<1>1. r \in [pc : {"premark", "apply", "postmark"}, s : Services, inst : Instances,
             c : ChangeIds, site : {"inside", "before", "after", "never"}]
    BY RequestParts, Zenon DEF IInv, Apply
<1>2. /\ next \in Requests /\ next.pc # "idle"
      /\ next.s = r.s /\ next.inst = r.inst /\ next.c = r.c
    BY <1>1, Zenon DEF Requests, Replying
<1>3. /\ client' = [client EXCEPT ![k] = next] /\ r.pc # "idle"
      /\ engine' = [engine EXCEPT ![r.s][r.inst] = @ \union {r.c}]
    BY Zenon DEF Apply
<1> HIDE DEF next
<1>4. \A s \in Services, i \in Instances :
          engine'[s][i] = IF s = r.s /\ i = r.inst THEN engine[s][i] \union {r.c}
                                                   ELSE engine[s][i]
    BY <1>1, <1>3, Zenon DEF IInv, TypeOK
<1>5. TypeOK'
    <2>1. client' \in [Clients -> Requests]
        BY <1>2, <1>3, Zenon DEF IInv, TypeOK
    <2>2. changes' \in [Services -> Nat]
        BY <1>1 DEF IInv, TypeOK, Apply, Marked
    <2>3. engine' \in [Services -> [Instances -> Snapshots]]
        BY <1>1, <1>3 DEF IInv, TypeOK, Snapshots
    <2> QED
        BY <2>1, <2>2, <2>3, Zenon DEF IInv, TypeOK, Apply
<1>6. \A x \in Clients : /\ client'[x].pc # "idle" => client[x].pc # "idle"
                         /\ client'[x].s = client[x].s
                         /\ client'[x].inst = client[x].inst
                         /\ client'[x].c = client[x].c
    BY <1>2, <1>3, Zenon DEF IInv, TypeOK
<1>7. HistoryOK'
    BY <1>6, Zenon DEF IInv, HistoryOK, Apply
<1>8. Locked' /\ Managed'
    BY Zenon DEF IInv, Locked, Managed, Busy, Apply
<1>9. Saving'
    <2>1. \A t \in Threads : Active(t) => job[t].s \in Services /\ job[t].inst \in Instances
        BY JobParts, Zenon DEF IInv
    <2> QED
        BY <1>4, <2>1 DEF IInv, Saving, Active, Apply
<1>10. \A s \in Services, i \in Instances : Used(s, i)' = Used(s, i)
    BY Zenon DEF Used, Active, Apply
<1>11. Whole'
    BY <1>4, <1>10 DEF IInv, Whole, Apply
<1>12. Clean'
    BY <1>3, <1>4, <1>6, <1>10 DEF IInv, Clean, Apply
<1> QED
    BY <1>5, <1>7, <1>8, <1>9, <1>11, <1>12, Zenon DEF IInv

(* A reply ends the request.                                                *)
LEMMA ReplyKeeps ==
    ASSUME IInv, NEW k \in Clients, Reply(k)
    PROVE  IInv'
<1>1. TypeOK'
    BY Zenon DEF IInv, TypeOK, Requests, Reply, NoClient
<1>2. /\ history'.next = history.next /\ history'.wiped = history.wiped
      /\ DOMAIN history' = DOMAIN history
    BY Zenon DEF IInv, HistoryOK, Reply
<1>3. \A x \in Clients : client'[x].pc # "idle" => client'[x] = client[x]
    BY Zenon DEF IInv, TypeOK, Reply, NoClient
<1>4. HistoryOK'
    BY <1>2, <1>3, Zenon DEF IInv, HistoryOK, Reply
<1>5. Locked' /\ Managed' /\ Saving'
    BY Zenon DEF IInv, Locked, Managed, Saving, Busy, Active, Reply
<1>6. Whole' /\ Clean'
    BY <1>2, <1>3, Frame, Zenon DEF Reply, Used, Active
<1> QED
    BY <1>1, <1>4, <1>5, <1>6 DEF IInv

-----------------------------------------------------------------------------
(* The steps of a save. *)

(* The snapshot taken holds all of the file: its instance does.             *)
LEMMA SaveBeginKeeps ==
    ASSUME IInv, NEW t \in Threads, SaveBegin(t)
    PROVE  IInv'
<1> DEFINE j == job[t]
<1> DEFINE next == [step |-> "write", s |-> j.s, inst |-> j.inst,
                    buf |-> engine[j.s][j.inst]]
<1>1. Active(t) /\ j.s \in Services /\ j.inst \in Instances
    BY JobParts, Zenon DEF IInv, SaveBegin, Active
<1>2. /\ next \in Jobs
      /\ next.step = "write" /\ next.s = j.s /\ next.inst = j.inst
      /\ next.buf = engine[j.s][j.inst]
    BY <1>1 DEF IInv, TypeOK, Jobs
<1>3. job' = [job EXCEPT ![t] = next] /\ tmp' = [tmp EXCEPT ![j.s] = Torn]
    BY Zenon DEF SaveBegin
<1> HIDE DEF next
<1>4. job'[t] = next /\ \A x \in Threads : x # t => job'[x] = job[x]
    BY <1>3, Zenon DEF IInv, TypeOK
<1>5. TypeOK'
    <2>1. job' \in [Threads -> Jobs]
        BY <1>2, <1>3, Zenon DEF IInv, TypeOK
    <2>2. Torn \in SUBSET Nat
        BY DEF Torn
    <2>3. tmp' \in [Services -> SUBSET Nat]
        BY <1>3, <2>2, Zenon DEF IInv, TypeOK
    <2> QED
        BY <2>1, <2>3, Zenon DEF IInv, TypeOK, SaveBegin
<1>6. HistoryOK' /\ Managed'
    BY Zenon DEF IInv, HistoryOK, Managed, Busy, SaveBegin
<1>7. Locked'
    BY <1>1, <1>4, Zenon DEF IInv, Locked, Active, SaveBegin
<1>8. \A x \in Threads : Active(x)' <=> Active(x)
    BY <1>1, <1>2, <1>4, Zenon DEF Active
<1>9. Saving'
    <2>1. ASSUME NEW x \in Threads, Active(x)  PROVE x = t
        BY <1>1, <2>1, Zenon DEF IInv, Locked, Active
    <2>2. disk[j.s] \subseteq engine[j.s][j.inst]
        BY <1>1, Zenon DEF IInv, Whole, Used
    <2> QED
        BY <1>1, <1>2, <1>4, <1>8, <2>1, <2>2 DEF IInv, Saving, SaveBegin
<1>10. \A s \in Services, i \in Instances : Used(s, i)' => Used(s, i)
    BY <1>1, <1>2, <1>4, <1>8 DEF Used, SaveBegin
<1>11. Whole' /\ Clean'
    BY <1>10, Frame, Zenon DEF SaveBegin
<1> QED
    BY <1>5, <1>6, <1>7, <1>9, <1>11, Zenon DEF IInv

(* Only the temp file is written, whether or not the write fails.           *)
LEMMA SaveWriteKeeps ==
    ASSUME IInv, NEW t \in Threads, SaveWrite(t)
    PROVE  IInv'
<1> DEFINE j == job[t]
<1>1. /\ Active(t) /\ j.s \in Services /\ j.inst \in Instances /\ j.buf \in Snapshots
      /\ j \in [step : {"write", "rename"}, s : Services, inst : Instances, buf : Snapshots]
    BY JobParts, Zenon DEF IInv, SaveWrite, Active
<1>2. \A x \in Threads : Active(x) => x = t
    BY <1>1, Zenon DEF IInv, Locked, Active
<1>3. PICK next : /\ job' = [job EXCEPT ![t] = next]
                  /\ next \in {[step |-> "done"], [j EXCEPT !.step = "rename"]}
                  /\ next # [step |-> "done"] => tmp' = [tmp EXCEPT ![j.s] = j.buf]
                  /\ next = [step |-> "done"] => tmp' = [tmp EXCEPT ![j.s] = {}]
    <2>1. [j EXCEPT !.step = "rename"].step = "rename"
        BY <1>1, Zenon
    <2>2. [j EXCEPT !.step = "rename"] # [step |-> "done"]
        BY <2>1, Zenon
    <2> QED
        BY <2>2 DEF SaveWrite
<1>4. /\ next \in Jobs
      /\ \/ next.step = "done"
         \/ /\ next.step = "rename" /\ next.s = j.s /\ next.inst = j.inst
            /\ next.buf = j.buf
            /\ tmp'[j.s] = j.buf
    <2>1. CASE next = [step |-> "done"]
        BY <2>1, Zenon DEF Jobs
    <2>2. CASE next = [j EXCEPT !.step = "rename"]
        <3>1. /\ next \in Jobs /\ next.step = "rename"
              /\ next.s = j.s /\ next.inst = j.inst /\ next.buf = j.buf
            BY <1>1, <2>2, Zenon DEF Jobs
        <3>2. tmp'[j.s] = j.buf
            BY <1>1, <1>3, <3>1 DEF IInv, TypeOK
        <3> QED
            BY <3>1, <3>2, Zenon
    <2> QED
        BY <1>3, <2>1, <2>2, Zenon
<1>5. job'[t] = next /\ \A x \in Threads : x # t => job'[x] = job[x]
    BY <1>3, Zenon DEF IInv, TypeOK
<1>6. TypeOK'
    <2>1. job' \in [Threads -> Jobs]
        BY <1>3, <1>4, Zenon DEF IInv, TypeOK
    <2>2. j.buf \in SUBSET Nat /\ {} \in SUBSET Nat
        BY <1>1 DEF Snapshots, ChangeIds
    <2>3. tmp' \in [Services -> SUBSET Nat]
        BY <1>3, <2>2, Zenon DEF IInv, TypeOK
    <2> QED
        BY <2>1, <2>3, Zenon DEF IInv, TypeOK, SaveWrite
<1>7. /\ history'.next = history.next /\ history'.wiped = history.wiped
      /\ DOMAIN history' = DOMAIN history
    BY Zenon DEF IInv, HistoryOK, SaveWrite, Spoiled
<1>8. HistoryOK' /\ Managed'
    BY <1>7, Zenon DEF IInv, HistoryOK, Managed, Busy, SaveWrite
<1>9. Locked'
    BY <1>1, <1>5, Zenon DEF IInv, Locked, Active, SaveWrite
<1>10. \A x \in Threads : Active(x)' => x = t /\ next.step = "rename"
    BY <1>2, <1>4, <1>5, Zenon DEF Active
<1>11. Saving'
    BY <1>1, <1>4, <1>5, <1>10 DEF IInv, Saving, SaveWrite
<1>12. \A s \in Services, i \in Instances : Used(s, i)' => Used(s, i)
    BY <1>1, <1>4, <1>5, <1>10 DEF Used, SaveWrite
<1>13. Whole' /\ Clean'
    BY <1>7, <1>12, Frame, Zenon DEF SaveWrite
<1> QED
    BY <1>6, <1>8, <1>9, <1>11, <1>13 DEF IInv

(* The rename puts a complete snapshot in place of one it contains.         *)
LEMMA SaveRenameKeeps ==
    ASSUME IInv, NEW t \in Threads, SaveRename(t)
    PROVE  /\ IInv'
           /\ \A s \in Services : disk[s] \subseteq disk'[s]
<1> DEFINE j == job[t]
<1>1. Active(t) /\ j.s \in Services /\ j.inst \in Instances /\ j.buf \in Snapshots
    BY JobParts, Zenon DEF IInv, SaveRename, Active
<1>2. /\ disk[j.s] \subseteq j.buf /\ j.buf \subseteq engine[j.s][j.inst]
      /\ disk' = [disk EXCEPT ![j.s] = j.buf]
    BY <1>1, Zenon DEF IInv, Saving, SaveRename
<1>3. disk'[j.s] = j.buf /\ \A s \in Services : s # j.s => disk'[s] = disk[s]
    BY <1>1, <1>2, Zenon DEF IInv, TypeOK
<1>4. job'[t] = [step |-> "done"] /\ \A x \in Threads : x # t => job'[x] = job[x]
    BY Zenon DEF IInv, TypeOK, SaveRename
<1>5. TypeOK'
    <2>1. job' \in [Threads -> Jobs]
        BY Zenon DEF IInv, TypeOK, Jobs, SaveRename
    <2>2. tmp' \in [Services -> SUBSET Nat] /\ disk' \in [Services -> Snapshots]
        BY <1>1, <1>2, Zenon DEF IInv, TypeOK, SaveRename
    <2> QED
        BY <2>1, <2>2, Zenon DEF IInv, TypeOK, SaveRename
<1>6. /\ history'.next = history.next /\ history'.wiped = history.wiped
      /\ DOMAIN history' = DOMAIN history
    BY Zenon DEF IInv, HistoryOK, SaveRename, MadeUp
<1>7. HistoryOK' /\ Managed'
    BY <1>6, Zenon DEF IInv, HistoryOK, Managed, Busy, SaveRename
<1>8. Locked'
    BY <1>1, <1>4, Zenon DEF IInv, Locked, Active, SaveRename
<1>9. \A x \in Threads : ~Active(x)'
    BY <1>1, <1>4 DEF IInv, Locked, Active
<1>10. Saving'
    BY <1>9, Zenon DEF IInv, Saving, SaveRename
<1>11. \A s \in Services, i \in Instances : Used(s, i)' => Used(s, i)
    BY <1>9, Zenon DEF Used, SaveRename
<1>12. Whole'
    BY <1>1, <1>2, <1>3, <1>11, OneInUse DEF IInv, Whole, SaveRename
<1>13. Clean'
    <2>1. Used(j.s, j.inst)
        BY <1>1, Zenon DEF Used
    <2>2. \A c \in j.buf : c > history.wiped[j.s]
        BY <1>1, <1>2, <2>1, Zenon DEF IInv, Clean
    <2> QED
        BY <1>1, <1>3, <1>6, <1>11, <2>2, Zenon DEF IInv, Clean, SaveRename
<1> QED
    BY <1>2, <1>3, <1>5, <1>7, <1>8, <1>10, <1>12, <1>13, Zenon DEF IInv

-----------------------------------------------------------------------------
(* The autosave's steps under save_lock. *)

(* A thread that takes the free lock to save the registered instance of s.  *)
LEMMA NoSaveWhileFree ==
    ASSUME IInv, saveLock = "free"
    PROVE  /\ \A t \in Threads : job[t].step = "none" /\ ~Active(t)
           /\ shut.pc = "watch" /\ shut.todo = {}
    BY Zenon DEF IInv, TypeOK, Locked, Active, Threads

(* Under save_lock the autosave saves the registered instance or none.      *)
LEMMA AutoLockKeeps ==
    ASSUME IInv, AutoLock
    PROVE  IInv'
<1>1. /\ auto \in [pc : {"locking", "saving"}, list : Savers, saved : [Services -> Nat],
                   s : Services, inst : Instances]
      /\ auto.s \in Services /\ auto.inst \in Instances
    BY Zenon DEF IInv, TypeOK, Autosaves, AutoLock
<1>2. CASE ~Live(auto.s, auto.inst)
    <2>1. auto' \in Autosaves
        BY <1>1, <1>2 DEF AutoLock, AutoNext, Autosaves, Savers
    <2> QED
        BY <1>2, <2>1, QuietStepKeeps, Zenon DEF AutoLock, Skipped, Spoiled, IInv, HistoryOK
<1>3. CASE Live(auto.s, auto.inst)
    <2> DEFINE next == SaveOf(auto.s, auto.inst)
    <2>1. /\ next \in Jobs
          /\ next.step = "snapshot" /\ next.s = auto.s /\ next.inst = auto.inst
        BY <1>1, Zenon DEF Jobs, SaveOf
    <2>2. job' = [job EXCEPT !["autosave"] = next] /\ saveLock' = "autosave"
        BY <1>3, Zenon DEF AutoLock
    <2> HIDE DEF next
    <2>3. /\ job'["autosave"] = next
          /\ \A t \in Threads : t # "autosave" => job'[t] = job[t]
        BY <2>2, Zenon DEF IInv, TypeOK, Threads
    <2>4. /\ \A t \in Threads : job[t].step = "none" /\ ~Active(t)
          /\ shut.pc = "watch" /\ shut.todo = {}
        BY NoSaveWhileFree, Zenon DEF AutoLock
    <2>5. UNCHANGED <<running, accepting, latest, engine, changes, savers, tmp, disk,
                      mgr, shut, client, history>>
        BY <1>3, Zenon DEF AutoLock
    <2>6. TypeOK'
        <3>1. auto' \in Autosaves
            BY <1>1, <1>3, Zenon DEF AutoLock, Autosaves
        <3>2. job' \in [Threads -> Jobs]
            BY <2>1, <2>2, Zenon DEF IInv, TypeOK
        <3> QED
            BY <2>5, <3>1, <3>2, Zenon DEF IInv, TypeOK
    <2>7. HistoryOK' /\ Managed'
        BY <2>5, Zenon DEF IInv, HistoryOK, Managed, Busy
    <2>8. Locked'
        BY <2>2, <2>3, <2>4, <2>5, Zenon DEF Locked
    <2>9. \A t \in Threads : Active(t)' => t = "autosave"
        BY <2>3, <2>4, Zenon DEF Active
    <2>10. savers[auto.s] = auto.inst
        BY <1>3, Zenon DEF Live
    <2>11. Saving'
        BY <1>1, <2>1, <2>3, <2>4, <2>5, <2>9, <2>10 DEF Saving, IInv, Managed
    <2>12. \A s \in Services, i \in Instances : Used(s, i)' => Used(s, i)
        BY <2>1, <2>3, <2>5, <2>9, <2>10, Zenon DEF Used
    <2>13. Whole' /\ Clean'
        BY <2>5, <2>12, Frame, Zenon
    <2> QED
        BY <2>6, <2>7, <2>8, <2>11, <2>13, Zenon DEF IInv
<1> QED
    BY <1>2, <1>3, Zenon

(* The autosave gives save_lock back.                                       *)
LEMMA AutoSavedKeeps ==
    ASSUME IInv, AutoSaved
    PROVE  IInv'
<1>1. auto' \in Autosaves
    BY Zenon DEF IInv, TypeOK, Autosaves, Savers, AutoSaved, AutoNext
<1>2. /\ job'["autosave"] = NoJob
      /\ \A t \in Threads : t # "autosave" => job'[t] = job[t]
      /\ job' \in [Threads -> Jobs]
    BY Zenon DEF IInv, TypeOK, Threads, Jobs, NoJob, AutoSaved
<1>3. \A t \in Threads : job'[t].step = "none" /\ ~Active(t)' /\ ~Active(t)
    BY <1>2, Zenon DEF IInv, TypeOK, Jobs, Locked, Active, Threads, NoJob, AutoSaved
<1>4. shut.pc = "watch" /\ shut.todo = {}
    BY Zenon DEF IInv, TypeOK, Locked, Threads, AutoSaved
<1>5. TypeOK'
    BY <1>1, <1>2, Zenon DEF IInv, TypeOK, AutoSaved
<1>6. HistoryOK' /\ Managed'
    BY Zenon DEF IInv, HistoryOK, Managed, Busy, AutoSaved
<1>7. Locked' /\ Saving'
    BY <1>3, <1>4, Zenon DEF Locked, Saving, AutoSaved
<1>8. \A s \in Services, i \in Instances : Used(s, i)' => Used(s, i)
    BY <1>3, Zenon DEF Used, AutoSaved
<1>9. Whole' /\ Clean'
    BY <1>8, Frame, Zenon DEF AutoSaved
<1> QED
    BY <1>5, <1>6, <1>7, <1>9, Zenon DEF IInv

-----------------------------------------------------------------------------
(* The steps of the manager. *)

(* An operation takes the running instance out of its slot.                 *)
LEMMA OperateKeeps ==
    ASSUME IInv, NEW op \in Operations, NEW s \in Services, Operate(op, s)
    PROVE  IInv'
<1>1. op \in {"start", "stop", "restart", "reset"}
    BY PersistenceAssumption, Zenon
<1>2. /\ mgr'.pc \in {"stop", "delete", "load"}
      /\ mgr'.s = s /\ mgr'.op = op /\ mgr'.inst = running[s]
      /\ mgr'.pc = "stop" <=> running[s] # 0
    BY Zenon DEF Operate
<1>3. TypeOK'
    <2>1. mgr' \in Managers
        BY <1>1, Zenon DEF IInv, TypeOK, Managers, Operate
    <2>2. running' \in [Services -> 0..MaxInstances]
        BY PersistenceAssumption DEF IInv, TypeOK, Operate
    <2> QED
        BY <2>1, <2>2, Zenon DEF IInv, TypeOK, Operate
<1>4. HistoryOK' /\ Locked'
    BY Zenon DEF IInv, HistoryOK, Locked, Operate
<1>5. Managed'
    <2>1. \A x \in Services : Busy(x)' <=> x = s
        BY <1>2, Zenon DEF Busy
    <2>2. \A x \in Services : ~Busy(x)
        BY Zenon DEF Busy, Operate
    <2>3. \A x \in Services : running'[x] = IF x = s THEN 0 ELSE running[x]
        BY Zenon DEF IInv, TypeOK, Operate
    <2>4. op # "stop" => latest[s] < MaxInstances
        BY <1>1, Zenon DEF Operate
    <2>5. op = "start" => running[s] = 0
        BY Zenon DEF Operate
    <2>6. op = "stop" => running[s] # 0
        BY Zenon DEF Operate
    <2>7. UNCHANGED <<savers, accepting, latest>>
        BY Zenon DEF Operate
    <2> QED
        BY <1>1, <1>2, <2>1, <2>2, <2>3, <2>4, <2>5, <2>6, <2>7 DEF IInv, Managed
<1>6. Saving'
    BY Zenon DEF IInv, Saving, Active, Operate
<1>7. Whole' /\ Clean'
    BY Frame, Zenon DEF Operate, Used, Active
<1> QED
    BY <1>3, <1>4, <1>5, <1>6, <1>7, Zenon DEF IInv

(* The sockets of the instance are closed; its saver stays registered.      *)
LEMMA StopLifeKeeps ==
    ASSUME IInv, StopLife
    PROVE  IInv'
<1>1. /\ mgr \in [pc : {"stop", "forget", "saving", "delete", "load", "register"},
                  op : {"start", "stop", "restart", "reset"}, s : Services,
                  inst : 0..MaxInstances]
      /\ mgr.s \in Services /\ Busy(mgr.s)
      /\ \A s \in Services : Busy(s) => s = mgr.s
    BY ManagerParts, Zenon DEF IInv, StopLife
<1>2. /\ mgr' \in Managers
      /\ mgr'.pc = "forget" /\ mgr'.s = mgr.s /\ mgr'.op = mgr.op /\ mgr'.inst = mgr.inst
    BY <1>1, Zenon DEF Managers, StopLife
<1>3. \A s \in Services : accepting'[s] = IF s = mgr.s THEN 0 ELSE accepting[s]
    BY Zenon DEF IInv, TypeOK, StopLife
<1>4. TypeOK'
    <2>1. 0 \in 0..MaxInstances
        BY PersistenceAssumption
    <2>2. accepting' \in [Services -> 0..MaxInstances]
        BY <2>1, Zenon DEF IInv, TypeOK, StopLife
    <2> QED
        BY <1>2, <2>2, Zenon DEF IInv, TypeOK, StopLife
<1>5. HistoryOK' /\ Locked'
    BY Zenon DEF IInv, HistoryOK, Locked, StopLife
<1>6. Managed'
    <2>1. \A s \in Services : Busy(s)' <=> s = mgr.s
        BY <1>2, Zenon DEF Busy
    <2>2. \A s \in Services : Busy(s) <=> s = mgr.s
        BY <1>1, Zenon
    <2>3. UNCHANGED <<savers, running, latest>> /\ mgr.pc = "stop"
        BY Zenon DEF StopLife
    <2>4. \A s \in Services : latest[s] \in Nat
        BY DEF IInv, TypeOK
    <2> QED
        BY <1>1, <1>2, <1>3, <2>1, <2>2, <2>3, <2>4 DEF IInv, Managed
<1>7. Saving'
    BY Zenon DEF IInv, Saving, Active, Threads, StopLife
<1>8. \A s \in Services, i \in Instances : Used(s, i)' => Used(s, i)
    BY <1>3 DEF Used, Active, Instances, StopLife
<1>9. Whole' /\ Clean'
    BY <1>8, Frame, Zenon DEF StopLife
<1> QED
    BY <1>4, <1>5, <1>6, <1>7, <1>9, Zenon DEF IInv

(* What follows Manager::stop: the operation is over, or goes on with the   *)
(* same service.                                                            *)
LEMMA AfterStopNext ==
    ASSUME IInv, mgr.pc \in {"forget", "saving"}
    PROVE  /\ AfterStop \in Managers
           /\ \/ AfterStop.pc = "idle"
              \/ /\ AfterStop.pc \in {"load", "delete"} /\ AfterStop.s = mgr.s
                 /\ AfterStop.op = mgr.op /\ mgr.op # "stop"
<1>1. mgr \in [pc : {"stop", "forget", "saving", "delete", "load", "register"},
               op : {"start", "stop", "restart", "reset"}, s : Services,
               inst : 0..MaxInstances]
      /\ mgr.s \in Services /\ Busy(mgr.s)
    BY ManagerParts, Zenon DEF IInv
<1>2. mgr.op \in {"stop", "restart", "reset"}
    BY <1>1, Zenon DEF IInv, Managed
<1> QED
    BY <1>1, <1>2, Zenon DEF AfterStop, Managers

(* When the saver of mgr.s is gone and nothing saves for it, the manager    *)
(* may go on.                                                               *)
LEMMA AfterStopManaged ==
    ASSUME IInv, mgr.pc \in {"forget", "saving"},
           \A s \in Services : savers'[s] = IF s = mgr.s THEN 0 ELSE savers[s],
           UNCHANGED <<running, accepting, latest>>,
           mgr' = AfterStop \/ (mgr.pc = "forget" /\ mgr' = [mgr EXCEPT !.pc = "saving"])
    PROVE  Managed'
<1>1. /\ mgr \in [pc : {"stop", "forget", "saving", "delete", "load", "register"},
                  op : {"start", "stop", "restart", "reset"}, s : Services,
                  inst : 0..MaxInstances]
      /\ mgr.s \in Services /\ \A s \in Services : Busy(s) <=> s = mgr.s
    BY ManagerParts, Zenon DEF IInv
<1>2. \/ mgr'.pc = "idle"
      \/ /\ mgr'.pc \in {"load", "delete", "saving"} /\ mgr'.s = mgr.s
         /\ mgr'.op = mgr.op /\ (mgr'.pc # "saving" => mgr.op # "stop")
    BY <1>1, AfterStopNext, Zenon
<1>3. /\ running[mgr.s] = 0 /\ accepting[mgr.s] = 0 /\ mgr.op # "start"
      /\ mgr.op # "stop" => latest[mgr.s] < MaxInstances
    BY <1>1, Zenon DEF IInv, Managed
<1>4. \A s \in Services : latest[s] \in Nat
    BY DEF IInv, TypeOK
<1>5. \A s \in Services : Busy(s)' => s = mgr.s
    BY <1>2, Zenon DEF Busy
<1>6. ASSUME NEW s \in Services, s # mgr.s
      PROVE  /\ savers'[s] = running'[s] /\ accepting'[s] = running'[s]
             /\ savers'[s] <= latest'[s] /\ accepting'[s] <= latest'[s]
             /\ ~Busy(s)'
    BY <1>1, <1>5, <1>6, Zenon DEF IInv, Managed
<1>7. /\ savers'[mgr.s] = 0 /\ accepting'[mgr.s] = 0 /\ running'[mgr.s] = 0
      /\ 0 <= latest'[mgr.s]
    BY <1>1, <1>3, <1>4
<1>8. \A s \in Services : Busy(s)' =>
          /\ mgr'.pc \in {"load", "delete", "saving"} /\ mgr'.op = mgr.op
          /\ mgr'.pc # "saving" => mgr.op # "stop"
    BY <1>2, Zenon DEF Busy
<1>9. latest'[mgr.s] = latest[mgr.s]
    OBVIOUS
<1> SUFFICES ASSUME NEW s \in Services
             PROVE  Managed!(s)'
    BY Zenon DEF Managed
<1>10. CASE s = mgr.s
    BY <1>3, <1>7, <1>8, <1>9, <1>10, Zenon
<1>11. CASE s # mgr.s
    BY <1>6, <1>11, Zenon
<1> QED
    BY <1>10, <1>11, Zenon

(* forget: no save of another thread is under way when the saver goes.      *)
LEMMA ForgetKeeps ==
    ASSUME IInv, Forget
    PROVE  IInv'
<1>1. /\ mgr \in [pc : {"stop", "forget", "saving", "delete", "load", "register"},
                  op : {"start", "stop", "restart", "reset"}, s : Services,
                  inst : 0..MaxInstances]
      /\ mgr.s \in Services /\ Busy(mgr.s) /\ mgr.pc = "forget"
    BY ManagerParts, Zenon DEF IInv, Forget
<1>2. /\ \A t \in Threads : job[t].step = "none" /\ ~Active(t)
      /\ shut.pc = "watch" /\ shut.todo = {}
    BY NoSaveWhileFree, Zenon DEF Forget
<1>3. savers[mgr.s] = mgr.inst /\ mgr.inst \in Instances
    BY <1>1 DEF IInv, Managed, Instances
<1>4. \A s \in Services : savers'[s] = IF s = mgr.s THEN 0 ELSE savers[s]
    BY Zenon DEF IInv, TypeOK, Forget
<1>5. savers' \in [Services -> 0..MaxInstances]
    <2>1. 0 \in 0..MaxInstances
        BY PersistenceAssumption
    <2> QED
        BY <2>1, Zenon DEF IInv, TypeOK, Forget
<1>6. UNCHANGED <<running, accepting, latest, engine, changes, tmp, disk, auto,
                  shut, client, history>>
    BY Zenon DEF Forget
<1>7. HistoryOK'
    BY <1>6, Zenon DEF IInv, HistoryOK
<1>8. CASE SaveFirst
    <2> DEFINE next == SaveOf(mgr.s, savers[mgr.s])
    <2>1. /\ next \in Jobs
          /\ next.step = "snapshot" /\ next.s = mgr.s /\ next.inst = mgr.inst
        BY <1>1, <1>3, Zenon DEF Jobs, SaveOf
    <2>2. /\ job' = [job EXCEPT !["manager"] = next] /\ saveLock' = "manager"
          /\ mgr' = [mgr EXCEPT !.pc = "saving"]
        BY <1>3, <1>8 DEF Forget, Instances
    <2> HIDE DEF next
    <2>3. /\ job'["manager"] = next
          /\ \A t \in Threads : t # "manager" => job'[t] = job[t]
        BY <2>2, Zenon DEF IInv, TypeOK, Threads
    <2>4. mgr' \in Managers /\ mgr'.pc = "saving" /\ mgr'.s = mgr.s
        BY <1>1, <2>2, Zenon DEF Managers
    <2>5. TypeOK'
        <3>1. job' \in [Threads -> Jobs]
            BY <2>1, <2>2, Zenon DEF IInv, TypeOK
        <3> QED
            BY <1>5, <1>6, <2>4, <3>1, Zenon DEF IInv, TypeOK
    <2>6. Locked'
        BY <1>2, <1>6, <2>2, <2>3, Zenon DEF Locked
    <2>7. Managed'
        BY <1>1, <1>4, <1>6, <2>2, AfterStopManaged, Zenon
    <2>8. \A t \in Threads : Active(t)' => t = "manager"
        BY <1>2, <2>3, Zenon DEF Active
    <2>9. mgr.inst <= latest[mgr.s]
        BY <1>1, <1>3, Zenon DEF IInv, Managed
    <2>10. Saving'
        BY <1>2, <1>6, <2>1, <2>3, <2>4, <2>8, <2>9, Zenon DEF Saving
    <2>11. \A s \in Services, i \in Instances : Used(s, i)' => Used(s, i)
        BY <1>3, <1>4, <1>6, <2>1, <2>3, <2>8 DEF Used, Instances
    <2>12. Whole' /\ Clean'
        BY <1>6, <2>11, Frame, Zenon
    <2> QED
        BY <1>7, <2>5, <2>6, <2>7, <2>10, <2>12, Zenon DEF IInv
<1>9. CASE ~SaveFirst
    <2>1. mgr' = AfterStop /\ UNCHANGED <<saveLock, job>>
        BY <1>9, Zenon DEF Forget
    <2>2. TypeOK'
        BY <1>1, <1>5, <1>6, <2>1, AfterStopNext, Zenon DEF IInv, TypeOK
    <2>3. Locked' /\ Saving'
        BY <1>2, <1>6, <2>1, Zenon DEF Locked, Saving, Active
    <2>4. Managed'
        BY <1>1, <1>4, <1>6, <2>1, AfterStopManaged, Zenon
    <2>5. \A s \in Services, i \in Instances : Used(s, i)' => Used(s, i)
        <3>1. \A i \in Instances : i # 0
            BY DEF Instances
        <3> QED
            BY <1>2, <1>4, <1>6, <2>1, <3>1, Zenon DEF Used, Active
    <2>6. Whole' /\ Clean'
        BY <1>6, <2>5, Frame
    <2> QED
        BY <1>7, <2>2, <2>3, <2>4, <2>6, Zenon DEF IInv
<1> QED
    BY <1>8, <1>9, Zenon

(* forget has saved and gives save_lock back.                               *)
LEMMA ForgottenKeeps ==
    ASSUME IInv, Forgotten
    PROVE  IInv'
<1>1. /\ mgr.s \in Services /\ Busy(mgr.s) /\ mgr.pc = "saving" /\ savers[mgr.s] = 0
      /\ savers' = savers
    BY ManagerParts, Zenon DEF IInv, Managed, Forgotten
<1>2. /\ job'["manager"] = NoJob
      /\ \A t \in Threads : t # "manager" => job'[t] = job[t]
      /\ job' \in [Threads -> Jobs]
    BY Zenon DEF IInv, TypeOK, Threads, Jobs, NoJob, Forgotten
<1>3. \A t \in Threads : job'[t].step = "none" /\ ~Active(t)' /\ ~Active(t)
    BY <1>2, Zenon DEF IInv, TypeOK, Jobs, Locked, Active, Threads, NoJob, Forgotten
<1>4. shut.pc = "watch" /\ shut.todo = {}
    BY Zenon DEF IInv, TypeOK, Locked, Threads, Forgotten
<1>5. TypeOK'
    BY <1>1, <1>2, AfterStopNext, Zenon DEF IInv, TypeOK, Forgotten
<1>6. HistoryOK'
    BY Zenon DEF IInv, HistoryOK, Forgotten
<1>7. Managed'
    BY <1>1, AfterStopManaged, Zenon DEF Forgotten
<1>8. Locked' /\ Saving'
    BY <1>3, <1>4, Zenon DEF Locked, Saving, Forgotten
<1>9. \A s \in Services, i \in Instances : Used(s, i)' => Used(s, i)
    BY <1>3, Zenon DEF Used, Forgotten
<1>10. Whole' /\ Clean'
    BY <1>9, Frame, Zenon DEF Forgotten
<1> QED
    BY <1>5, <1>6, <1>7, <1>8, <1>10, Zenon DEF IInv

(* A reset deletes the file of a service with no instance in use.           *)
LEMMA DeleteKeeps ==
    ASSUME IInv, Delete
    PROVE  /\ IInv'
           /\ \A s \in Services : disk[s] \subseteq disk'[s] \/ mgr.s = s
<1>1. /\ mgr \in [pc : {"stop", "forget", "saving", "delete", "load", "register"},
                  op : {"start", "stop", "restart", "reset"}, s : Services,
                  inst : 0..MaxInstances]
      /\ mgr.s \in Services /\ mgr.pc = "delete"
      /\ \A s \in Services : Busy(s) <=> s = mgr.s
    BY ManagerParts, Zenon DEF IInv, Delete
<1>2. /\ mgr.op # "stop" /\ latest[mgr.s] < MaxInstances
      /\ running[mgr.s] = 0 /\ savers[mgr.s] = 0 /\ accepting[mgr.s] = 0
    BY <1>1, Zenon DEF IInv, Managed
<1>3. /\ mgr' \in Managers
      /\ mgr'.pc # "idle" => mgr'.pc = "load" /\ mgr'.s = mgr.s /\ mgr'.op = mgr.op
    BY <1>1 DEF Managers, Delete
<1>4. \A s \in Services : disk'[s] = disk[s] \/ (s = mgr.s /\ disk'[s] = {})
    BY Zenon DEF IInv, TypeOK, Delete
<1>5. /\ DOMAIN history' = DOMAIN history
      /\ history'.next = history.next
      /\ history'.wiped \in [Services -> Nat]
      /\ \A s \in Services : \/ history'.wiped[s] = history.wiped[s]
                             \/ /\ s = mgr.s /\ disk'[s] = {}
                                /\ history'.wiped[s] < history.next
    <2>1. history.next - 1 \in Nat /\ history.next - 1 < history.next
        BY PersistenceAssumption DEF IInv, HistoryOK
    <2>2. CASE history' = Spoiled(mgr.s, 0)
        BY <2>2, Zenon DEF Spoiled, IInv, HistoryOK
    <2>3. CASE history' # Spoiled(mgr.s, 0)
        <3>1. /\ DOMAIN history' = DOMAIN history /\ history'.next = history.next
              /\ history'.wiped = [history.wiped EXCEPT ![mgr.s] = history.next - 1]
              /\ disk' = [disk EXCEPT ![mgr.s] = {}]
            BY <2>3, Zenon DEF Delete, IInv, HistoryOK
        <3>2. history.wiped \in [Services -> Nat] /\ disk'[mgr.s] = {}
            BY <1>1, <3>1, Zenon DEF IInv, HistoryOK, TypeOK
        <3> QED
            BY <2>1, <3>1, <3>2, Zenon
    <2> QED
        BY <2>2, <2>3, Zenon
<1>6. TypeOK'
    <2>1. disk' \in [Services -> Snapshots]
        BY Zenon DEF IInv, TypeOK, Snapshots, Delete
    <2> QED
        BY <1>3, <2>1, Zenon DEF IInv, TypeOK, Delete
<1>7. HistoryOK'
    BY <1>5, Zenon DEF IInv, HistoryOK, Delete
<1>8. Managed'
    <2>1. \A s \in Services : Busy(s)' => s = mgr.s /\ mgr'.pc = "load" /\ mgr'.op = mgr.op
        BY <1>3, Zenon DEF Busy
    <2>2. UNCHANGED <<running, savers, accepting, latest>>
        BY Zenon DEF Delete
    <2> QED
        BY <1>1, <1>2, <2>1, <2>2, Zenon DEF IInv, Managed
<1>9. Locked'
    BY Zenon DEF IInv, Locked, Delete
<1>10. \A t \in Threads : Active(t) =>
           /\ job[t].s # mgr.s /\ job[t].s \in Services /\ t # "manager"
    BY <1>1, <1>2, JobParts DEF IInv, Saving, Instances
<1>11. Saving'
    BY <1>4, <1>10, Zenon DEF IInv, Saving, Active, Delete
<1>12. \A s \in Services, i \in Instances : Used(s, i)' <=> Used(s, i)
    BY Zenon DEF Used, Active, Delete
<1>13. \A i \in Instances : ~Used(mgr.s, i)
    BY <1>2, <1>10 DEF Used, Instances
<1>14. Whole'
    BY <1>4, <1>12, <1>13, Zenon DEF IInv, Whole, Delete
<1>15. Clean'
    BY <1>4, <1>5, <1>12, <1>13, Zenon DEF IInv, Clean, Delete
<1> QED
    BY <1>4, <1>6, <1>7, <1>8, <1>9, <1>11, <1>14, <1>15, Zenon DEF IInv

(* The new instance starts from the file, and no request is to it yet.      *)
LEMMA LoadKeeps ==
    ASSUME IInv, Load
    PROVE  IInv'
<1>1. /\ mgr \in [pc : {"stop", "forget", "saving", "delete", "load", "register"},
                  op : {"start", "stop", "restart", "reset"}, s : Services,
                  inst : 0..MaxInstances]
      /\ mgr.s \in Services /\ mgr.pc = "load"
      /\ \A s \in Services : Busy(s) <=> s = mgr.s
    BY ManagerParts, Zenon DEF IInv, Load
<1>2. /\ latest[mgr.s] < MaxInstances
      /\ running[mgr.s] = 0 /\ savers[mgr.s] = 0 /\ accepting[mgr.s] = 0
    BY <1>1, Zenon DEF IInv, Managed
<1> DEFINE n == latest[mgr.s] + 1
<1>3. /\ n \in Instances /\ n \in 0..MaxInstances /\ n # 0
      /\ latest[mgr.s] \in Nat /\ latest[mgr.s] < n
    BY <1>1, <1>2, PersistenceAssumption DEF IInv, TypeOK, Instances
<1>4. /\ \A t \in Threads : Active(t) =>
            job[t].s # mgr.s /\ job[t].s \in Services /\ job[t].inst \in Instances /\ t # "manager"
      /\ \A i \in Instances : ~Used(mgr.s, i)
    BY <1>1, <1>2, JobParts DEF IInv, Saving, Used, Instances
<1>5. CASE mgr' = [pc |-> "idle"] /\ UNCHANGED <<latest, engine, accepting>>
    <2>1. TypeOK'
        BY <1>5, Zenon DEF IInv, TypeOK, Managers, Load
    <2>2. HistoryOK' /\ Locked'
        BY <1>5, Zenon DEF IInv, HistoryOK, Locked, Load
    <2>3. \A s \in Services : ~Busy(s)'
        BY <1>5, Zenon DEF Busy
    <2>4. UNCHANGED <<running, savers, accepting, latest>>
        BY <1>5, Zenon DEF Load
    <2>5. Managed'
        BY <1>1, <1>2, <2>3, <2>4, Zenon DEF IInv, Managed
    <2>6. Saving'
        BY <1>4, <1>5, Zenon DEF IInv, Saving, Active, Load
    <2>7. Whole' /\ Clean'
        BY <1>5, Frame, Zenon DEF Load, Used, Active
    <2> QED
        BY <2>1, <2>2, <2>5, <2>6, <2>7 DEF IInv
<1>6. CASE mgr' # [pc |-> "idle"]
    <2>1. /\ latest' = [latest EXCEPT ![mgr.s] = n]
          /\ engine' = [engine EXCEPT ![mgr.s][n] = disk[mgr.s]]
          /\ accepting' = [accepting EXCEPT ![mgr.s] = n]
          /\ mgr' = [mgr EXCEPT !.pc = "register", !.inst = n]
          /\ UNCHANGED <<running, changes, savers, saveLock, job, tmp, disk, auto,
                         shut, client, history>>
        BY <1>6, Zenon DEF Load
    <2> HIDE DEF n
    <2>2. /\ mgr' \in Managers
          /\ mgr'.pc = "register" /\ mgr'.s = mgr.s /\ mgr'.inst = n
        BY <1>1, <1>3, <2>1, Zenon DEF Managers
    <2>3. /\ \A s \in Services : latest'[s] = IF s = mgr.s THEN n ELSE latest[s]
          /\ \A s \in Services : accepting'[s] = IF s = mgr.s THEN n ELSE accepting[s]
          /\ \A s \in Services, i \in Instances :
                engine'[s][i] = IF s = mgr.s /\ i = n THEN disk[s] ELSE engine[s][i]
        BY <1>1, <2>1, Zenon DEF IInv, TypeOK
    <2>4. TypeOK'
        <3>1. /\ latest' \in [Services -> 0..MaxInstances]
              /\ accepting' \in [Services -> 0..MaxInstances]
            BY <1>3, <2>1, Zenon DEF IInv, TypeOK
        <3>2. engine' \in [Services -> [Instances -> Snapshots]]
            BY <1>1, <2>1, Zenon DEF IInv, TypeOK
        <3> QED
            BY <2>1, <2>2, <3>1, <3>2, Zenon DEF IInv, TypeOK
    <2>5. \A s \in Services : latest[s] <= latest'[s] /\ latest[s] \in Nat /\ latest'[s] \in Nat
        <3>1. \A s \in Services : latest[s] \in Nat /\ latest'[s] \in Nat
            BY <2>4 DEF IInv, TypeOK
        <3> QED
            BY <1>3, <2>3, <3>1
    <2>6. HistoryOK'
        <3>1. \A k \in Clients : client[k].pc # "idle" =>
                 client[k].s \in Services /\ client[k].inst \in Nat
            BY RequestParts DEF IInv, Instances
        <3>2. \A k \in Clients : client[k].pc # "idle" => client[k].inst <= latest'[client[k].s]
            BY <2>5, <3>1 DEF IInv, HistoryOK
        <3> QED
            BY <2>1, <3>2, Zenon DEF IInv, HistoryOK
    <2>7. Locked'
        BY <2>1, Zenon DEF IInv, Locked
    <2>8. Managed'
        <3>1. \A s \in Services : Busy(s)' <=> s = mgr.s
            BY <2>2, Zenon DEF Busy
        <3>2. \A s \in Services : s # mgr.s =>
                 /\ savers'[s] <= latest'[s] /\ accepting'[s] <= latest'[s]
                 /\ savers'[s] = running'[s] /\ accepting'[s] = running'[s]
            BY <1>1, <2>1, <2>3 DEF IInv, Managed
        <3>3. /\ savers'[mgr.s] = 0 /\ accepting'[mgr.s] = n /\ running'[mgr.s] = 0
              /\ latest'[mgr.s] = n /\ 0 <= n
            BY <1>1, <1>2, <1>3, <2>1, <2>3
        <3> QED
            BY <1>3, <2>2, <3>1, <3>2, <3>3 DEF Managed
    <2>9. Saving'
        BY <1>4, <2>1, <2>3, <2>5 DEF IInv, Saving, Active
    <2>10. \A s \in Services, i \in Instances :
               Used(s, i)' <=> IF s = mgr.s THEN i = n ELSE Used(s, i)
        BY <1>2, <1>3, <1>4, <2>1, <2>3 DEF Used, Active, Instances
    <2>11. Whole'
        BY <1>3, <2>1, <2>3, <2>10 DEF IInv, Whole
    <2>12. Clean'
        <3>1. \A k \in Clients : client[k].pc # "idle" /\ client[k].s = mgr.s =>
                 client[k].inst # n
            BY <1>3, RequestParts DEF IInv, HistoryOK, Instances
        <3> QED
            BY <1>1, <2>1, <2>3, <2>10, <3>1 DEF IInv, Clean
    <2> QED
        BY <2>4, <2>6, <2>7, <2>8, <2>9, <2>11, <2>12, Zenon DEF IInv
<1>7. \/ mgr' = [mgr EXCEPT !.pc = "register", !.inst = n]
      \/ mgr' = [pc |-> "idle"] /\ UNCHANGED <<latest, engine, accepting>>
    BY Zenon DEF Load
<1>8. [mgr EXCEPT !.pc = "register", !.inst = n] # [pc |-> "idle"]
    <2>1. [mgr EXCEPT !.pc = "register", !.inst = n].pc = "register"
        BY <1>1, Zenon
    <2> QED
        BY <2>1, Zenon
<1> QED
    BY <1>5, <1>6, <1>7, <1>8, Zenon

(* The instance registered is the one being served.                         *)
LEMMA RegisterKeeps ==
    ASSUME IInv, Register
    PROVE  IInv'
<1>1. /\ mgr.s \in Services /\ mgr.inst \in 0..MaxInstances /\ mgr.pc = "register"
      /\ \A s \in Services : Busy(s) <=> s = mgr.s
    BY ManagerParts, Zenon DEF IInv, Register
<1>2. savers[mgr.s] = 0 /\ accepting[mgr.s] = mgr.inst
    BY <1>1, Zenon DEF IInv, Managed
<1>3. /\ \A s \in Services : savers'[s] = IF s = mgr.s THEN mgr.inst ELSE savers[s]
      /\ \A s \in Services : running'[s] = IF s = mgr.s THEN mgr.inst ELSE running[s]
    BY Zenon DEF IInv, TypeOK, Register
<1>4. TypeOK'
    <2>1. /\ savers' \in [Services -> 0..MaxInstances]
          /\ running' \in [Services -> 0..MaxInstances]
          /\ mgr' \in Managers
        BY <1>1, Zenon DEF IInv, TypeOK, Managers, Register
    <2> QED
        BY <2>1, Zenon DEF IInv, TypeOK, Register
<1>5. HistoryOK' /\ Locked'
    BY Zenon DEF IInv, HistoryOK, Locked, Register
<1>6. Managed'
    <2>1. \A s \in Services : ~Busy(s)'
        BY Zenon DEF Busy, Register
    <2>2. UNCHANGED <<accepting, latest>>
        BY Zenon DEF Register
    <2> QED
        BY <1>1, <1>2, <1>3, <2>1, <2>2 DEF IInv, Managed
<1>7. \A t \in Threads : Active(t) =>
          job[t].s # mgr.s /\ job[t].s \in Services /\ t # "manager"
    BY <1>1, <1>2, JobParts DEF IInv, Saving, Instances
<1>8. Saving'
    <2>1. ASSUME NEW t \in Threads, Active(t)
          PROVE  savers'[job[t].s] = job[t].inst /\ t # "manager"
        BY <1>3, <1>7, <2>1, Zenon DEF IInv, Saving
    <2>2. ASSUME NEW s \in Services, NEW i \in Instances, <<s, i>> \in shut.todo
          PROVE  savers'[s] = i
        <3>1. savers[s] = i /\ i # 0
            BY <2>2 DEF IInv, Saving, Instances
        <3> QED
            BY <1>2, <1>3, <3>1, Zenon
    <2>3. UNCHANGED <<job, latest, disk, engine, tmp, shut>>
        BY Zenon DEF Register
    <2>4. \A t \in Threads : Active(t)' <=> Active(t)
        BY <2>3, Zenon DEF Active
    <2> QED
        BY <2>1, <2>2, <2>3, <2>4, Zenon DEF IInv, Saving
<1>9. \A s \in Services, i \in Instances : Used(s, i)' => Used(s, i)
    BY <1>2, <1>3, Zenon DEF Used, Active, Register
<1>10. Whole' /\ Clean'
    BY <1>9, Frame, Zenon DEF Register
<1> QED
    BY <1>4, <1>5, <1>6, <1>8, <1>10 DEF IInv

-----------------------------------------------------------------------------
(* Shutdown and the end of the process. *)

(* The shutdown takes save_lock and the list of registered savers.          *)
LEMMA ShutdownLockKeeps ==
    ASSUME IInv, ShutdownLock
    PROVE  IInv'
<1> DEFINE all == {<<s, savers[s]>> : s \in {x \in Services : savers[x] # 0}}
<1>1. all \in Savers /\ \A s \in Services, i \in Instances : <<s, i>> \in all => savers[s] = i
    BY DEF IInv, TypeOK, Savers, Instances
<1>2. shut' = [pc |-> "saving", todo |-> all]
    BY Zenon DEF ShutdownLock
<1> HIDE DEF all
<1>3. shut' \in [pc : {"watch", "saving"}, todo : Savers] /\ shut'.todo = all
      /\ shut'.pc = "saving"
    BY <1>1, <1>2, Zenon
<1>4. \A t \in Threads : job[t].step = "none" /\ ~Active(t)
    BY NoSaveWhileFree, Zenon DEF ShutdownLock
<1>5. TypeOK'
    BY <1>3, Zenon DEF IInv, TypeOK, ShutdownLock
<1>6. HistoryOK' /\ Managed'
    BY Zenon DEF IInv, HistoryOK, Managed, Busy, ShutdownLock
<1>7. Locked' /\ Saving'
    BY <1>1, <1>3, <1>4, Zenon DEF Locked, Saving, Active, ShutdownLock
<1>8. Whole' /\ Clean'
    BY Frame, Zenon DEF Used, Active, ShutdownLock
<1> QED
    BY <1>5, <1>6, <1>7, <1>8 DEF IInv

(* A saver of the shutdown's list is still registered: forget waits.        *)
LEMMA ShutdownSaveKeeps ==
    ASSUME IInv, NEW s \in Services, NEW i \in Instances, ShutdownSave(s, i)
    PROVE  IInv'
<1> DEFINE next == SaveOf(s, i)
<1>1. next \in Jobs /\ next.step = "snapshot" /\ next.s = s /\ next.inst = i
    BY Zenon DEF Jobs, SaveOf
<1>2. job' = [job EXCEPT !["shutdown"] = next]
    BY Zenon DEF ShutdownSave
<1> HIDE DEF next
<1>3. /\ job'["shutdown"] = next
      /\ \A t \in Threads : t # "shutdown" => job'[t] = job[t]
    BY <1>2, Zenon DEF IInv, TypeOK, Threads
<1>4. /\ shut' \in [pc : {"watch", "saving"}, todo : Savers]
      /\ shut'.pc = "saving" /\ shut'.todo \subseteq shut.todo
    BY Zenon DEF IInv, TypeOK, Savers, ShutdownSave
<1>5. saveLock = "shutdown" /\ saveLock' = "shutdown" /\ savers[s] = i
    BY Zenon DEF IInv, Locked, Saving, ShutdownSave
<1>6. \A t \in Threads : ~Active(t) /\ (t # "shutdown" => job[t].step = "none")
    BY <1>5, Zenon DEF IInv, Locked, Active, ShutdownSave
<1>7. TypeOK'
    <2>1. job' \in [Threads -> Jobs]
        BY <1>1, <1>2, Zenon DEF IInv, TypeOK
    <2> QED
        BY <1>4, <2>1, Zenon DEF IInv, TypeOK, ShutdownSave
<1>8. HistoryOK' /\ Managed'
    BY Zenon DEF IInv, HistoryOK, Managed, Busy, ShutdownSave
<1>9. Locked'
    BY <1>3, <1>4, <1>5, <1>6, Zenon DEF Locked
<1>10. \A t \in Threads : Active(t)' => t = "shutdown"
    BY <1>3, <1>6, Zenon DEF Active
<1>11. Saving'
    <2>1. i <= latest[s]
        BY <1>5, Zenon DEF IInv, Managed
    <2> QED
        BY <1>1, <1>3, <1>4, <1>5, <1>10, <2>1 DEF IInv, Saving, ShutdownSave
<1>12. \A x \in Services, n \in Instances : Used(x, n)' => Used(x, n)
    BY <1>1, <1>3, <1>5, <1>10 DEF Used, ShutdownSave
<1>13. Whole' /\ Clean'
    BY <1>12, Frame, Zenon DEF ShutdownSave
<1> QED
    BY <1>7, <1>8, <1>9, <1>11, <1>13, Zenon DEF IInv

(* A process that is gone uses no instance, and has no thread.              *)
LEMMA ExitKeeps ==
    ASSUME IInv, Exit
    PROVE  IInv'
<1>1. /\ \A s \in Services : savers'[s] = 0 /\ accepting'[s] = 0 /\ running'[s] = 0
      /\ \A s \in Services : latest'[s] = 0
      /\ \A t \in Threads : job'[t].step = "none"
      /\ \A k \in Clients : client'[k].pc = "idle"
      /\ mgr'.pc = "idle" /\ shut'.pc = "watch" /\ shut'.todo = {}
    BY Zenon DEF Exit, NoInstance, NoJob, NoClient
<1>2. TypeOK'
    <2>1. 0 \in 0..MaxInstances /\ 0 \in Nat /\ {} \in Snapshots /\ {} \in SUBSET Nat
        BY PersistenceAssumption DEF Snapshots
    <2>2. /\ running' \in [Services -> 0..MaxInstances]
          /\ accepting' \in [Services -> 0..MaxInstances]
          /\ latest' \in [Services -> 0..MaxInstances]
          /\ savers' \in [Services -> 0..MaxInstances]
          /\ changes' \in [Services -> Nat]
          /\ tmp' \in [Services -> SUBSET Nat]
        BY <2>1, Zenon DEF Exit, NoInstance
    <2>3. engine' \in [Services -> [Instances -> Snapshots]]
        BY <2>1, Zenon DEF Exit
    <2>4. /\ job' \in [Threads -> Jobs] /\ client' \in [Clients -> Requests]
          /\ mgr' \in Managers
          /\ shut' \in [pc : {"watch", "saving"}, todo : Savers]
        BY Zenon DEF Exit, NoJob, NoClient, Jobs, Requests, Managers, Savers
    <2>5. auto' \in Autosaves
        BY Zenon DEF Exit, Autosaves, Savers
    <2>6. disk' \in [Services -> Snapshots]
        BY Zenon DEF Exit, IInv, TypeOK
    <2> QED
        BY <2>2, <2>3, <2>4, <2>5, <2>6, Zenon DEF TypeOK
<1>3. HistoryOK'
    BY <1>1, Zenon DEF IInv, HistoryOK, Exit
<1>4. Locked' /\ Managed'
    BY <1>1 DEF Locked, Managed, Busy
<1>5. Saving'
    BY <1>1, Zenon DEF Saving, Active
<1>6. \A s \in Services, i \in Instances : ~Used(s, i)'
    BY <1>1 DEF Used, Active, Instances
<1>7. Whole'
    BY <1>6, Zenon DEF Whole
<1>8. Clean'
    BY <1>6, Zenon DEF IInv, Clean, Exit
<1> QED
    BY <1>2, <1>3, <1>4, <1>5, <1>7, <1>8, Zenon DEF IInv

-----------------------------------------------------------------------------
(* The process starts with no service running.                              *)
LEMMA InitSound == Init => IInv
<1> SUFFICES ASSUME Init PROVE IInv
    OBVIOUS
<1>1. /\ \A s \in Services : savers[s] = 0 /\ accepting[s] = 0 /\ running[s] = 0
      /\ \A s \in Services : latest[s] = 0 /\ disk[s] = {}
      /\ \A t \in Threads : job[t].step = "none"
      /\ \A k \in Clients : client[k].pc = "idle"
      /\ mgr.pc = "idle" /\ shut.pc = "watch" /\ shut.todo = {}
    BY Zenon DEF Init, NoInstance, NoJob, NoClient
<1>2. TypeOK
    <2>1. 0 \in 0..MaxInstances /\ 0 \in Nat /\ {} \in Snapshots /\ {} \in SUBSET Nat
        BY PersistenceAssumption DEF Snapshots
    <2>2. /\ running \in [Services -> 0..MaxInstances]
          /\ accepting \in [Services -> 0..MaxInstances]
          /\ latest \in [Services -> 0..MaxInstances]
          /\ savers \in [Services -> 0..MaxInstances]
          /\ changes \in [Services -> Nat]
          /\ tmp \in [Services -> SUBSET Nat]
          /\ disk \in [Services -> Snapshots]
        BY <2>1, Zenon DEF Init, NoInstance
    <2>3. engine \in [Services -> [Instances -> Snapshots]]
        BY <2>1, Zenon DEF Init
    <2>4. /\ job \in [Threads -> Jobs] /\ client \in [Clients -> Requests]
          /\ mgr \in Managers
          /\ shut \in [pc : {"watch", "saving"}, todo : Savers]
        BY Zenon DEF Init, NoJob, NoClient, Jobs, Requests, Managers, Savers
    <2>5. auto \in Autosaves
        BY Zenon DEF Init, Autosaves, Savers
    <2> QED
        BY <2>2, <2>3, <2>4, <2>5, Zenon DEF TypeOK
<1>3. HistoryOK
    <2>1. history.next = 1 /\ history.wiped = [s \in Services |-> 0]
        BY Zenon DEF Init
    <2>2. DOMAIN history = {"next", "acked", "due", "covered", "wiped", "loose", "spoiled"}
        BY Zenon DEF Init
    <2>3. 1 \in 1..(MaxChanges + 1)
        BY PersistenceAssumption
    <2> QED
        BY <1>1, <2>1, <2>2, <2>3 DEF HistoryOK
<1>4. Locked /\ Managed
    BY <1>1 DEF Locked, Managed, Busy
<1>5. Saving /\ \A s \in Services, i \in Instances : ~Used(s, i)
    BY <1>1 DEF Saving, Used, Active, Instances
<1>6. Whole /\ Clean
    BY <1>1, <1>5, Zenon DEF Whole, Clean
<1> QED
    BY <1>2, <1>3, <1>4, <1>5, <1>6, Zenon DEF IInv

(* No step breaks the invariant, and none but the deletion of a reset takes *)
(* anything out of a snapshot file.                                         *)
LEMMA StepSound ==
    ASSUME IInv, [Next]_vars
    PROVE  /\ IInv'
           /\ \A s \in Services : \/ disk[s] \subseteq disk'[s]
                                  \/ mgr.pc = "delete" /\ mgr.s = s
<1>1. CASE \E k \in Clients, s \in Services : \E site \in MarkSites[s] : Request(k, s, site)
    BY <1>1, RequestKeeps, Zenon DEF Request
<1>2. CASE \E k \in Clients : Serve(k)
    <2>1. PICK k \in Clients : Serve(k)
        BY <1>2, Zenon
    <2>2. IInv'
        BY <2>1, MarkStepKeeps, ApplyKeeps, ReplyKeeps, Zenon DEF Serve
    <2>3. disk' = disk
        BY <2>1, Zenon DEF Serve, MarkStep, Apply, Reply
    <2> QED
        BY <2>2, <2>3, Zenon
<1>3. CASE \E t \in Threads : Save(t)
    <2>1. PICK t \in Threads : Save(t)
        BY <1>3, Zenon
    <2>2. CASE SaveBegin(t) \/ SaveWrite(t)
        BY <2>2, SaveBeginKeeps, SaveWriteKeeps, Zenon DEF SaveBegin, SaveWrite
    <2>3. CASE SaveRename(t)
        BY <2>3, SaveRenameKeeps, Zenon
    <2> QED
        BY <2>1, <2>2, <2>3, Zenon DEF Save
<1>4. CASE Autosave
    <2>1. IInv'
        BY <1>4, AutosaveIsQuiet, AutoLockKeeps, AutoSavedKeeps, Zenon DEF Autosave
    <2>2. disk' = disk
        BY <1>4, Zenon DEF Autosave, AutoWake, AutoLock, AutoSaved, AutoSleep, AutoCheck
    <2> QED
        BY <2>1, <2>2, Zenon
<1>5. CASE \E op \in Operations, s \in Services : Operate(op, s)
    BY <1>5, OperateKeeps, Zenon DEF Operate
<1>6. CASE Manage
    <2>1. CASE Delete
        BY <2>1, DeleteKeeps, Zenon DEF Delete
    <2>2. CASE StopLife \/ Forget \/ Forgotten \/ Load \/ Register
        <3>1. IInv'
            BY <2>2, StopLifeKeeps, ForgetKeeps, ForgottenKeeps, LoadKeeps, RegisterKeeps, Zenon
        <3>2. disk' = disk
            BY <2>2, Zenon DEF StopLife, Forget, Forgotten, Load, Register
        <3> QED
            BY <3>1, <3>2
    <2> QED
        BY <1>6, <2>1, <2>2, Zenon DEF Manage
<1>7. CASE Shutdown
    <2>1. IInv'
        BY <1>7, ShutdownLockKeeps, ShutdownSaveKeeps, ExitKeeps, Zenon DEF Shutdown, ShutdownExit
    <2>2. disk' = disk
        BY <1>7, Zenon DEF Shutdown, ShutdownLock, ShutdownSave, ShutdownExit, Exit
    <2> QED
        BY <2>1, <2>2
<1>8. CASE Kill
    BY <1>8, ExitKeeps, Zenon DEF Kill, Exit
<1>9. CASE RequestShutdown \/ Boot \/ UNCHANGED vars
    BY <1>9, ProcessIsQuiet, Zenon DEF RequestShutdown, Boot, vars
<1> QED
    BY <1>1, <1>2, <1>3, <1>4, <1>5, <1>6, <1>7, <1>8, <1>9, Zenon DEF Next

(* The invariant holds in every reachable state.                            *)
LEMMA AlwaysSound == Spec => []IInv
<1>1. IInv /\ [Next]_vars => IInv'
    BY StepSound, Zenon
<1> QED
    BY <1>1, InitSound, PTL DEF Spec

-----------------------------------------------------------------------------
(* Whenever the process is killed, and whether or not writes fail, no       *)
(* snapshot file is half-written (write_snapshot_atomically under           *)
(* save_lock).                                                              *)
THEOREM SnapshotsAreWhole == Spec => []NeverTorn
<1>1. IInv => NeverTorn
    <2> SUFFICES ASSUME IInv, NEW s \in Services
                 PROVE  disk[s] # Torn
        BY Zenon DEF NeverTorn
    <2>1. disk[s] \in Snapshots
        BY Zenon DEF IInv, TypeOK
    <2>2. 0 \notin disk[s]
        BY <2>1 DEF Snapshots, ChangeIds
    <2> QED
        BY <2>2, Zenon DEF Torn
<1> QED
    BY <1>1, AlwaysSound, PTL

(* No save puts back an older state: the autosave, the save of a stop and   *)
(* that of the shutdown only ever add to a snapshot file, and a reset alone *)
(* deletes it (save_lock, forget and the autosave's second look).           *)
THEOREM SavesMoveForward == Spec => SnapshotsMoveForward
<1>1. IInv /\ [Next]_vars =>
          [\A s \in Services : \/ disk[s] \subseteq disk'[s]
                               \/ mgr.pc = "delete" /\ mgr.s = s]_vars
    BY StepSound, Zenon
<1> QED
    BY <1>1, AlwaysSound, PTL DEF Spec, SnapshotsMoveForward

(* What a reset wiped stays wiped, in the file and in the instance served,  *)
(* even when requests to the old instance outlast the stop (reset_service). *)
THEOREM ResetsStick == Spec => []ResetSticks
<1>1. IInv => ResetSticks
    <2> SUFFICES ASSUME IInv, NEW s \in Services
                 PROVE  /\ \A c \in disk[s] : c \notin 1..history.wiped[s]
                        /\ accepting[s] # 0 =>
                             \A c \in engine[s][accepting[s]] : c \notin 1..history.wiped[s]
        BY Zenon DEF ResetSticks
    <2>1. /\ history.wiped[s] \in Nat
          /\ accepting[s] # 0 => accepting[s] \in Instances /\ Used(s, accepting[s])
        BY DEF IInv, TypeOK, HistoryOK, Instances, Used
    <2> QED
        BY <2>1 DEF IInv, Clean
<1> QED
    BY <1>1, AlwaysSound, PTL
=============================================================================
