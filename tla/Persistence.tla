---------------------------- MODULE Persistence ----------------------------
(***************************************************************************)
(* On-disk persistence of the services of one noida-db process             *)
(* (persistence.rs) together with the service manager that starts, stops,  *)
(* restarts and resets them while the process runs (services.rs).          *)
(*                                                                         *)
(* Threads: the autosave thread, the thread serving one control request    *)
(* (MANAGER is a mutex, so one at a time), the shutdown watcher, and one   *)
(* thread per client request.  A service's data is the set of changes it   *)
(* holds; a snapshot is such a set.  Each start builds a new instance of   *)
(* the service's engine from the snapshot; instances are numbered, 0 is    *)
(* "no instance".                                                          *)
(***************************************************************************)
EXTENDS Naturals, FiniteSets

CONSTANTS
    Services,       \* the services that persist
    Clients,        \* concurrent client requests
    MarkSites,      \* MarkSites[s]: where the requests of s call mark
    Operations,     \* the control operations that are used
    MaxChanges,     \* bound: changes requested by clients
    MaxInstances,   \* bound: starts of one service in one process
    Exits,          \* the ways it exits
    WritesFail,     \* whether writing a snapshot can fail (disk full)
    RequestsOutlast \* whether a request can outlast STOP_WAIT

ASSUME PersistenceAssumption ==
    /\ MaxChanges \in Nat /\ MaxInstances \in Nat
    /\ MarkSites \in [Services -> SUBSET {"inside", "before", "after", "never"}]
    /\ Operations \subseteq {"start", "stop", "restart", "reset"}
    /\ Exits \subseteq {"killed", "clean"}
    /\ WritesFail \in BOOLEAN /\ RequestsOutlast \in BOOLEAN

VARIABLES
    up,         \* whether the process runs
    term,       \* TERM: a shutdown was requested
    running,    \* Slot.running: the running instance of each service
    accepting,  \* the instance whose sockets are open
    latest,     \* the last instance built
    engine,     \* engine[s][i]: the data in memory of an instance
    changes,    \* CHANGES
    savers,     \* the instance whose saver is registered
    saveLock,   \* who holds save_lock
    job,        \* the save each thread runs
    tmp,        \* the sibling temp file of each snapshot
    disk,       \* each snapshot file; {} is also "no file"
    auto,       \* the autosave thread
    mgr,        \* the control request being served
    shut,       \* the shutdown watcher
    client,     \* the client requests
    history     \* what the properties talk about; no code reads it

vars == <<up, term, running, accepting, latest, engine, changes, savers,
          saveLock, job, tmp, disk, auto, mgr, shut, client, history>>

Threads == {"autosave", "manager", "shutdown"}
Instances == 1..MaxInstances
ChangeIds == 1..MaxChanges

(* The content of a file that is being written: 0 is no change. *)
Torn == {0}

NoJob == [step |-> "none"]
NoClient == [pc |-> "idle"]

NoInstance == [s \in Services |-> 0]

(* The process before any service starts: main has installed the shutdown  *)
(* handler, which starts the autosave thread, and configured the slots.    *)
Init ==
    /\ up = TRUE
    /\ term = FALSE
    /\ running = NoInstance
    /\ accepting = NoInstance
    /\ latest = NoInstance
    /\ engine = [s \in Services |-> [i \in Instances |-> {}]]
    /\ changes = [s \in Services |-> 0]
    /\ savers = NoInstance
    /\ saveLock = "free"
    /\ job = [t \in Threads |-> NoJob]
    /\ auto = [pc |-> "sleep", list |-> {}, saved |-> [s \in Services |-> 0]]
    /\ mgr = [pc |-> "idle"]
    /\ shut = [pc |-> "watch", todo |-> {}]
    /\ client = [k \in Clients |-> NoClient]
    /\ tmp = [s \in Services |-> {}]
    /\ disk = [s \in Services |-> {}]
    /\ history = [next    |-> 1,
                  acked   |-> [s \in Services |-> {}],
                  due     |-> [s \in Services |-> {}],
                  covered |-> [s \in Services |-> {}],
                  wiped   |-> [s \in Services |-> 0],
                  loose   |-> {},      \* changes not marked with or after the change
                  spoiled |-> {}]      \* <<service, instance>>: a save failed or was skipped

-----------------------------------------------------------------------------
(* Client requests.  `history.next` numbers the changes; a reply on an open *)
(* socket acknowledges the change.                                          *)

(* mark: one atomic add to the counter of the service. *)
Marked(s) == [changes EXCEPT ![s] = @ + 1]

(* A connection thread of s reads a request that changes data and whose     *)
(* handling calls mark at `site`: under the engine lock together with the   *)
(* change (Postgres commit, Redis), before the engine is locked (Kafka,     *)
(* Elasticsearch), after the statement ran (MySQL text protocol), or not at *)
(* all (MySQL prepared statements, Kafka topics created by Metadata).       *)
Request(k, s, site) ==
    /\ up /\ client[k].pc = "idle" /\ accepting[s] # 0
    /\ history.next <= MaxChanges
    /\ client' = [client EXCEPT ![k] =
          [pc |-> IF site = "before" THEN "premark" ELSE "apply",
           s |-> s, inst |-> accepting[s], c |-> history.next, site |-> site]]
    /\ history' = [history EXCEPT !.next = @ + 1,
                       !.loose = IF site \in {"before", "never"} THEN @ \union {history.next} ELSE @]
    /\ UNCHANGED <<up, term, running, accepting, latest, engine, changes,
                   savers, saveLock, job, tmp, disk, auto, mgr, shut>>

(* All that is left is the reply.                                           *)
Replying(r) == [pc |-> "reply", s |-> r.s, inst |-> r.inst, c |-> r.c]

(* The call of mark that stands on its own, before or after the change. *)
MarkStep(k) ==
    /\ up /\ client[k].pc \in {"premark", "postmark"}
    /\ changes' = Marked(client[k].s)
    /\ client' = [client EXCEPT ![k] = IF @.pc = "premark" THEN [@ EXCEPT !.pc = "apply"]
                                                           ELSE Replying(@)]
    /\ UNCHANGED <<up, term, running, accepting, latest, engine, savers,
                   saveLock, job, tmp, disk, auto, mgr, shut, history>>

(* The change itself, under the engine's lock. *)
Apply(k) ==
    LET r == client[k] IN
    /\ up /\ r.pc = "apply"
    /\ engine' = [engine EXCEPT ![r.s][r.inst] = @ \union {r.c}]
    /\ changes' = IF r.site = "inside" THEN Marked(r.s) ELSE changes
    /\ client' = [client EXCEPT ![k] = IF r.site = "after" THEN [r EXCEPT !.pc = "postmark"]
                                                           ELSE Replying(r)]
    /\ UNCHANGED <<up, term, running, accepting, latest, savers, saveLock,
                   job, tmp, disk, auto, mgr, shut, history>>

(* The reply: lost if the service was stopped, its sockets being shut down. *)
Reply(k) ==
    LET r == client[k] IN
    /\ up /\ r.pc = "reply"
    /\ client' = [client EXCEPT ![k] = NoClient]
    /\ history' = IF accepting[r.s] = r.inst
                    THEN [history EXCEPT !.acked[r.s] = @ \union {r.c}]
                    ELSE history
    /\ UNCHANGED <<up, term, running, accepting, latest, engine, changes,
                   savers, saveLock, job, tmp, disk, auto, mgr, shut>>

-----------------------------------------------------------------------------
(* A saver: snapshot the engine, write it to the temp file, rename that     *)
(* over the snapshot.  Every caller runs it holding save_lock.              *)

(* History: a save of instance i of s did not happen; a later one makes up  *)
(* for it.                                                                  *)
Spoiled(s, i) == [history EXCEPT !.spoiled = @ \union {<<s, i>>}]
MadeUp(s, i) == [history EXCEPT !.spoiled = @ \ {<<s, i>>}]

(* History: the autosave skips s.  One that is down was saved by its stop,  *)
(* and misses nothing.                                                      *)
Skipped(s) ==
    IF savers[s] = 0 /\ accepting[s] = 0 /\ ~(mgr.pc = "delete" /\ mgr.s = s)
    THEN history ELSE Spoiled(s, latest[s])

(* Bound: no write fails while an earlier failure is not made up for.       *)
MayFail == WritesFail /\ history.spoiled = {}

SaveOf(s, i) == [step |-> "snapshot", s |-> s, inst |-> i]

(* Faulty: the snapshot is written in place. *)
Faulty_SaveBegin(t) ==
    LET j == job[t] IN
    /\ up /\ j.step = "snapshot"
    /\ job' = [job EXCEPT ![t] = [step |-> "write", s |-> j.s, inst |-> j.inst,
                                  buf |-> engine[j.s][j.inst]]]
    /\ disk' = [disk EXCEPT ![j.s] = Torn]
    /\ UNCHANGED <<up, term, running, accepting, latest, engine, changes, tmp,
                   savers, saveLock, auto, mgr, shut, client, history>>

(* The snapshot is taken under the engine's lock; std::fs::write then opens *)
(* and truncates the temp file.                                             *)
SaveBegin(t) ==
    LET j == job[t] IN
    /\ up /\ j.step = "snapshot"
    /\ job' = [job EXCEPT ![t] = [step |-> "write", s |-> j.s, inst |-> j.inst,
                                  buf |-> engine[j.s][j.inst]]]
    /\ tmp' = [tmp EXCEPT ![j.s] = Torn]
    /\ UNCHANGED <<up, term, running, accepting, latest, engine, changes,
                   savers, saveLock, disk, auto, mgr, shut, client, history>>

SaveWrite(t) ==
    LET j == job[t] IN
    /\ up /\ j.step = "write"
    /\ \/ /\ tmp' = [tmp EXCEPT ![j.s] = j.buf]
          /\ job' = [job EXCEPT ![t].step = "rename"]
          /\ history' = history
       \/ /\ MayFail             \* the error is dropped: `let _ = write_...`
          /\ job' = [job EXCEPT ![t] = [step |-> "done"]]
          /\ history' = Spoiled(j.s, j.inst)
          /\ tmp' = [tmp EXCEPT ![j.s] = {}]
    /\ UNCHANGED <<up, term, running, accepting, latest, engine, changes,
                   savers, saveLock, disk, auto, mgr, shut, client>>

SaveRename(t) ==
    LET j == job[t] IN
    /\ up /\ j.step = "rename"
    /\ disk' = [disk EXCEPT ![j.s] = tmp[j.s]]
    /\ tmp' = [tmp EXCEPT ![j.s] = {}]
    /\ history' = MadeUp(j.s, j.inst)
    /\ job' = [job EXCEPT ![t] = [step |-> "done"]]
    /\ UNCHANGED <<up, term, running, accepting, latest, engine, changes,
                   savers, saveLock, auto, mgr, shut, client>>

-----------------------------------------------------------------------------
(* start_autosave. *)

(* The second is over: the list of savers is cloned.  `due` notes what the  *)
(* services in the list had acknowledged by then.                           *)
AutoWake ==
    /\ up /\ auto.pc = "sleep"
    /\ auto' = [auto EXCEPT !.pc = "round",
                            !.list = {<<s, savers[s]>> : s \in {x \in Services : savers[x] # 0}}]
    /\ history' = [history EXCEPT !.due = [s \in Services |->
                       IF savers[s] # 0 THEN history.acked[s] ELSE history.due[s]]]
    /\ UNCHANGED <<up, term, running, accepting, latest, engine, changes,
                   savers, saveLock, job, tmp, disk, mgr, shut, client>>

(* The counter is compared with the value of the last save and remembered   *)
(* before saving.                                                           *)
AutoCheck(s, i) ==
    /\ up /\ auto.pc = "round" /\ <<s, i>> \in auto.list
    /\ auto' = IF changes[s] = auto.saved[s]
                 THEN [auto EXCEPT !.list = @ \ {<<s, i>>}]
                 ELSE [pc |-> "locking", list |-> auto.list, s |-> s, inst |-> i,
                       saved |-> [auto.saved EXCEPT ![s] = changes[s]]]
    /\ UNCHANGED <<up, term, running, accepting, latest, engine, changes,
                   savers, saveLock, job, tmp, disk, mgr, shut, client, history>>

(* Faulty: the counter is remembered after the save instead of before. *)
Faulty_AutoNext(a) ==
    [pc |-> "round", list |-> a.list \ {<<a.s, a.inst>>},
     saved |-> [a.saved EXCEPT ![a.s] = changes[a.s]]]

(* The round goes on with the services left in the list. *)
AutoNext(a) == [pc |-> "round", list |-> a.list \ {<<a.s, a.inst>>}, saved |-> a.saved]

(* Faulty: the saver is run without looking whether it is still registered. *)
Faulty_Live(s, i) == TRUE

(* Arc::ptr_eq: the saver of the list is still the registered one. *)
Live(s, i) == savers[s] = i

(* Under save_lock: a service forgotten since the list was taken is skipped *)
(* (its counter is already remembered as saved).                            *)
AutoLock ==
    /\ up /\ auto.pc = "locking" /\ saveLock = "free"
    /\ IF Live(auto.s, auto.inst)
         THEN /\ saveLock' = "autosave"
              /\ job' = [job EXCEPT !["autosave"] = SaveOf(auto.s, auto.inst)]
              /\ auto' = [auto EXCEPT !.pc = "saving"]
              /\ UNCHANGED history
         ELSE /\ auto' = AutoNext(auto)
              /\ history' = Skipped(auto.s)
              /\ UNCHANGED <<saveLock, job>>
    /\ UNCHANGED <<up, term, running, accepting, latest, engine, changes,
                   savers, tmp, disk, mgr, shut, client>>

AutoSaved ==
    /\ up /\ auto.pc = "saving" /\ job["autosave"].step = "done"
    /\ job' = [job EXCEPT !["autosave"] = NoJob]
    /\ saveLock' = "free"
    /\ auto' = AutoNext(auto)
    /\ UNCHANGED <<up, term, running, accepting, latest, engine, changes,
                   savers, tmp, disk, mgr, shut, client, history>>

AutoSleep ==
    /\ up /\ auto.pc = "round" /\ auto.list = {}
    /\ auto' = [auto EXCEPT !.pc = "sleep"]
    /\ history' = [history EXCEPT !.covered = history.due]
    /\ UNCHANGED <<up, term, running, accepting, latest, engine, changes,
                   savers, saveLock, job, tmp, disk, mgr, shut, client>>

-----------------------------------------------------------------------------
(* The manager (services.rs), holding MANAGER for the whole operation.      *)

(* start_service, stop_service, restart_service, reset_service; the no-ops  *)
(* (starting a running service, stopping a stopped one) change nothing.     *)
Operate(op, s) ==
    /\ up /\ mgr.pc = "idle"
    /\ op = "start" => running[s] = 0 /\ latest[s] < MaxInstances
    /\ op = "stop" => running[s] # 0
    /\ op \in {"restart", "reset"} => latest[s] < MaxInstances
    /\ mgr' = [pc |-> CASE running[s] # 0 -> "stop"
                        [] running[s] = 0 /\ op = "reset" -> "delete"
                        [] OTHER -> "load",
               op |-> op, s |-> s, inst |-> running[s]]
    /\ running' = [running EXCEPT ![s] = 0]
    /\ UNCHANGED <<up, term, accepting, latest, engine, changes, savers,
                   saveLock, job, tmp, disk, auto, shut, client, history>>

(* life.stop(): the port is closed and every connection shut down. *)
StopLife ==
    /\ up /\ mgr.pc = "stop"
    /\ accepting' = [accepting EXCEPT ![mgr.s] = 0]
    /\ mgr' = [mgr EXCEPT !.pc = "forget"]
    /\ UNCHANGED <<up, term, running, latest, engine, changes, savers,
                   saveLock, job, tmp, disk, auto, shut, client, history>>

(* What follows Manager::stop in each operation. *)
AfterStop ==
    CASE mgr.op = "stop"    -> [pc |-> "idle"]
      [] mgr.op = "restart" -> [mgr EXCEPT !.pc = "load"]
      [] mgr.op = "reset"   -> [mgr EXCEPT !.pc = "delete"]

(* Faulty: nothing is saved. *)
Faulty_SaveFirst == FALSE

(* Whether Manager::stop saves: a reset does not. *)
SaveFirst == mgr.op # "reset"

(* forget(service, save): life.stop() has returned, either because no       *)
(* request is left or at its deadline.                                      *)
Forget ==
    /\ up /\ mgr.pc = "forget" /\ saveLock = "free"
    /\ RequestsOutlast \/ \A k \in Clients :
          client[k].pc # "idle" => <<client[k].s, client[k].inst>> # <<mgr.s, mgr.inst>>
    /\ savers' = [savers EXCEPT ![mgr.s] = 0]
    /\ IF SaveFirst /\ savers[mgr.s] # 0
         THEN /\ saveLock' = "manager"
              /\ job' = [job EXCEPT !["manager"] = SaveOf(mgr.s, savers[mgr.s])]
              /\ mgr' = [mgr EXCEPT !.pc = "saving"]
         ELSE /\ mgr' = AfterStop
              /\ UNCHANGED <<saveLock, job>>
    /\ UNCHANGED <<up, term, running, accepting, latest, engine, changes,
                   tmp, disk, auto, shut, client, history>>

(* Faulty: save_lock is kept. *)
Faulty_Forgotten ==
    /\ up /\ mgr.pc = "saving" /\ job["manager"].step = "done"
    /\ job' = [job EXCEPT !["manager"] = NoJob]
    /\ mgr' = AfterStop
    /\ UNCHANGED <<up, term, running, accepting, latest, engine, changes, saveLock,
                   savers, tmp, disk, auto, shut, client, history>>

Forgotten ==
    /\ up /\ mgr.pc = "saving" /\ job["manager"].step = "done"
    /\ job' = [job EXCEPT !["manager"] = NoJob]
    /\ saveLock' = "free"
    /\ mgr' = AfterStop
    /\ UNCHANGED <<up, term, running, accepting, latest, engine, changes,
                   savers, tmp, disk, auto, shut, client, history>>

(* delete_snapshots, then a start if the service was running.  An error     *)
(* ends the operation.                                                      *)
Delete ==
    /\ up /\ mgr.pc = "delete"
    /\ \/ /\ disk' = [disk EXCEPT ![mgr.s] = {}]
          /\ history' = [history EXCEPT !.acked[mgr.s] = {}, !.due[mgr.s] = {},
                                        !.covered[mgr.s] = {},
                                        !.wiped[mgr.s] = history.next - 1,
                                        !.spoiled = {x \in @ : x[1] # mgr.s}]
          /\ mgr' = IF mgr.inst # 0 THEN [mgr EXCEPT !.pc = "load"] ELSE [pc |-> "idle"]
       \/ /\ MayFail
          /\ mgr' = [pc |-> "idle"]
          /\ history' = Spoiled(mgr.s, 0)
          /\ UNCHANGED disk
    /\ UNCHANGED <<up, term, running, accepting, latest, engine, changes,
                   savers, saveLock, job, tmp, auto, shut, client>>

(* spawn_persistent: bind, load the snapshot, start the accept loop.        *)
(* Binding may fail (the port is in use): the slot keeps the error.         *)
Load ==
    LET i == latest[mgr.s] + 1 IN
    /\ up /\ mgr.pc = "load"
    /\ \/ /\ disk[mgr.s] # Torn
          /\ latest' = [latest EXCEPT ![mgr.s] = i]
          /\ engine' = [engine EXCEPT ![mgr.s][i] = disk[mgr.s]]
          /\ accepting' = [accepting EXCEPT ![mgr.s] = i]
          /\ mgr' = [mgr EXCEPT !.pc = "register", !.inst = i]
       \/ /\ mgr' = [pc |-> "idle"]
          /\ UNCHANGED <<latest, engine, accepting>>
    /\ UNCHANGED <<up, term, running, changes, savers, saveLock, job, tmp,
                   disk, auto, shut, client, history>>

(* on_save, after the accept loop already runs; then the slot is running.   *)
Register ==
    /\ up /\ mgr.pc = "register"
    /\ savers' = [savers EXCEPT ![mgr.s] = mgr.inst]
    /\ running' = [running EXCEPT ![mgr.s] = mgr.inst]
    /\ mgr' = [pc |-> "idle"]
    /\ UNCHANGED <<up, term, accepting, latest, engine, changes, saveLock,
                   job, tmp, disk, auto, shut, client, history>>

-----------------------------------------------------------------------------
(* Shutdown, a hard kill, and the next start of the process. *)

(* SIGINT, SIGTERM or /v1/shutdown set the flag. *)
RequestShutdown ==
    /\ up /\ ~term /\ "clean" \in Exits
    /\ term' = TRUE
    /\ UNCHANGED <<up, running, accepting, latest, engine, changes, savers,
                   saveLock, job, tmp, disk, auto, mgr, shut, client, history>>

(* run_shutdown: save_lock is taken and never given back; the services keep *)
(* serving while their savers run one after the other.                      *)
ShutdownLock ==
    /\ up /\ term /\ shut.pc = "watch" /\ saveLock = "free"
    /\ saveLock' = "shutdown"
    /\ shut' = [pc |-> "saving",
                todo |-> {<<s, savers[s]>> : s \in {x \in Services : savers[x] # 0}}]
    /\ UNCHANGED <<up, term, running, accepting, latest, engine, changes,
                   savers, job, tmp, disk, auto, mgr, client, history>>

ShutdownSave(s, i) ==
    /\ up /\ shut.pc = "saving" /\ <<s, i>> \in shut.todo
    /\ job["shutdown"].step \in {"none", "done"}
    /\ job' = [job EXCEPT !["shutdown"] = SaveOf(s, i)]
    /\ shut' = [shut EXCEPT !.todo = @ \ {<<s, i>>}]
    /\ UNCHANGED <<up, term, running, accepting, latest, engine, changes,
                   savers, saveLock, tmp, disk, auto, mgr, client, history>>

(* The process is gone, and what it had in memory with it. *)
Exit ==
    /\ up' = FALSE
    /\ term' = FALSE
    /\ running' = NoInstance
    /\ accepting' = NoInstance
    /\ latest' = NoInstance
    /\ engine' = [s \in Services |-> [i \in Instances |-> {}]]
    /\ changes' = [s \in Services |-> 0]
    /\ savers' = NoInstance
    /\ saveLock' = "free"
    /\ job' = [t \in Threads |-> NoJob]
    /\ auto' = [pc |-> "sleep", list |-> {}, saved |-> [s \in Services |-> 0]]
    /\ mgr' = [pc |-> "idle"]
    /\ shut' = [pc |-> "watch", todo |-> {}]
    /\ client' = [k \in Clients |-> NoClient]
    /\ tmp' = [s \in Services |-> {}]
    /\ UNCHANGED <<disk, history>>

(* The hooks have run (the control file is removed): exit(0). *)
ShutdownExit ==
    /\ up /\ shut.pc = "saving" /\ shut.todo = {}
    /\ job["shutdown"].step \in {"none", "done"}
    /\ Exit

(* kill -9, a crash of the process. *)
Kill ==
    /\ up /\ "killed" \in Exits
    /\ Exit

(* The next process; what it loads is what there is, and nothing else was   *)
(* ever promised by it.                                                     *)
Boot ==
    /\ ~up
    /\ up' = TRUE
    /\ history' = [history EXCEPT !.acked = disk, !.due = disk, !.covered = disk,
                                  !.spoiled = {}]
    /\ UNCHANGED <<term, running, accepting, latest, engine, changes, savers,
                   saveLock, job, tmp, disk, auto, mgr, shut, client>>

-----------------------------------------------------------------------------
Save(t) == SaveBegin(t) \/ SaveWrite(t) \/ SaveRename(t)

Autosave ==
    \/ AutoWake \/ AutoLock \/ AutoSaved \/ AutoSleep
    \/ \E s \in Services, i \in Instances : AutoCheck(s, i)

Manage == StopLife \/ Forget \/ Forgotten \/ Delete \/ Load \/ Register

Shutdown ==
    \/ ShutdownLock \/ ShutdownExit
    \/ \E s \in Services, i \in Instances : ShutdownSave(s, i)

Serve(k) == MarkStep(k) \/ Apply(k) \/ Reply(k)

Next ==
    \/ \E k \in Clients, s \in Services : \E site \in MarkSites[s] : Request(k, s, site)
    \/ \E k \in Clients : Serve(k)
    \/ \E t \in Threads : Save(t)
    \/ Autosave
    \/ \E op \in Operations, s \in Services : Operate(op, s)
    \/ Manage
    \/ RequestShutdown
    \/ Shutdown
    \/ Kill
    \/ Boot

Spec == Init /\ [][Next]_vars

-----------------------------------------------------------------------------
(* Fairness: threads that can run do run, the autosave's second passes, and *)
(* a thread waiting for save_lock gets it, since every holder gives it back *)
(* and the autosave sleeps between its rounds.  No fairness for clients     *)
(* starting requests, control requests, signals, kills or the next start.   *)
Fairness ==
    /\ \A k \in Clients : WF_vars(Serve(k))
    /\ \A t \in Threads : WF_vars(Save(t))
    /\ WF_vars(AutoWake) /\ WF_vars(AutoSaved) /\ WF_vars(AutoSleep)
    /\ WF_vars(\E s \in Services, i \in Instances : AutoCheck(s, i))
    /\ SF_vars(AutoLock)
    /\ WF_vars(StopLife) /\ WF_vars(Forgotten) /\ WF_vars(Delete)
    /\ WF_vars(Load) /\ WF_vars(Register)
    /\ SF_vars(Forget)
    /\ SF_vars(ShutdownLock)
    /\ WF_vars(ShutdownExit \/ \E s \in Services, i \in Instances : ShutdownSave(s, i))

FairSpec == Spec /\ Fairness

-----------------------------------------------------------------------------
Snapshots == SUBSET ChangeIds

(* A hard kill never leaves a half-written snapshot behind, whatever save it *)
(* interrupts and whether or not writes fail: the snapshot file is replaced  *)
(* only by a complete one (write_snapshot_atomically under save_lock).       *)
NeverTorn == \A s \in Services : disk[s] # Torn

(* Services whose last save of some instance failed or was skipped.          *)
SaveMissing == {si[1] : si \in history.spoiled}

(* A hard kill loses at most what was acknowledged since the autosave's last *)
(* complete round began, about a second: everything acknowledged before that *)
(* is in the snapshot file (the autosave and the calls of mark), but for     *)
(* changes marked too early or not at all, and services with a save that     *)
(* failed or that the autosave skipped because they had been restarted, up   *)
(* to the next save of that instance: that one makes up for all of it.       *)
AtMostARound ==
    \A s \in Services \ SaveMissing :
        history.covered[s] \ history.loose \subseteq disk[s]

(* The snapshot of a service only ever moves forward: no save puts back an   *)
(* older state, in particular not that of an instance that was stopped       *)
(* (forget and the autosave's check that its saver is still registered);     *)
(* only a reset deletes it.                                                  *)
SnapshotsMoveForward ==
    [][\A s \in Services : \/ disk[s] \subseteq disk'[s]
                           \/ mgr.pc = "delete" /\ mgr.s = s]_vars

(* What a reset wiped stays wiped: neither a save that was under way nor a   *)
(* request that outlasts the stop brings any of it back, in the file or in   *)
(* the service started again (reset_service).                                *)
ResetSticks ==
    \A s \in Services :
        LET wiped == 1..history.wiped[s] IN
        /\ disk[s] \intersect wiped = {}
        /\ accepting[s] # 0 => engine[s][accepting[s]] \intersect wiped = {}

(* While the process runs, stopping, restarting and starting a service keep  *)
(* every acknowledged change: it is in the snapshot of a stopped service and *)
(* in the memory of a served one (Manager::stop saves after the last client  *)
(* is gone and before anything loads the snapshot), unless a save failed and *)
(* no later one of the same instance succeeded.                              *)
AckedKept ==
    \A s \in Services \ SaveMissing : up =>
        /\ accepting[s] # 0 => history.acked[s] \subseteq engine[s][accepting[s]]
        /\ running[s] = 0 /\ mgr.pc = "idle" => history.acked[s] \subseteq disk[s]

(* Every acknowledged change eventually reaches the snapshot, unless it was  *)
(* loosely marked, the service is reset, a save of it fails or is skipped,   *)
(* or the process exits first (the autosave).                                *)
AckedReachesDisk ==
    \A s \in Services, c \in ChangeIds :
        c \in history.acked[s] \ history.loose ~>
            (c \in disk[s] \/ c <= history.wiped[s] \/ s \in SaveMissing \/ ~up)

(* Every control operation ends, unless the process exits first: waiting for *)
(* save_lock under MANAGER never waits for ever (services.rs, forget).  And  *)
(* a requested shutdown happens (the watcher and save_lock).                 *)
OperationsEnd ==
    /\ (mgr.pc # "idle") ~> (mgr.pc = "idle" \/ ~up)
    /\ term ~> ~up
=============================================================================
