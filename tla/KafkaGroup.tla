----------------------------- MODULE KafkaGroup -----------------------------
(***************************************************************************)
(* A consumer group of the Kafka service (kafka/engine.rs): JoinGroup,     *)
(* SyncGroup, Heartbeat, LeaveGroup, OffsetCommit, DeleteGroups and        *)
(* OffsetDelete, the handler threads that wait for a round to complete,    *)
(* and the consumers that use them.                                        *)
(*                                                                         *)
(* A handler's body runs under the engine's lock and is one step.  A       *)
(* JoinGroup then polls: it takes the lock to look, drops it, and takes it *)
(* again to complete the round, so the poll and what follows are separate  *)
(* steps; likewise the SyncGroup of a follower.  Time is abstract: a timer *)
(* that can have run out is a flag that an action of time sets.            *)
(***************************************************************************)
EXTENDS Integers, Sequences, FiniteSets, Functions, FiniteSetsExt

CONSTANTS
    Consumers,
    Identities,   \* what the consumers may be: each has a name, a natural that
                  \* assignors go by, and is static if the name is its
                  \* group.instance.id, perhaps a shared one; each starts
                  \* with a list of protocols it offers
    Partitions,   \* 1..n, the partitions of the topic they consume
    Offers,       \* the lists of protocols a consumer may change to
    NoProtocol,
    Behaviours,   \* what happens besides, see BehaviourKinds
    MaxIds, MaxGeneration, MaxOffset, MaxFaults  \* bounds

(* "crash": a consumer stops without leaving; "leave": it leaves; "again": *)
(* a LeaveGroup is sent again; "late": a member's session timeout passes;  *)
(* "overdue": so does the rebalance timeout; "impatient": a follower's     *)
(* SyncGroup times out; "change": a consumer changes its offer; "commit":  *)
(* consumers commit offsets; "delete": an administrator deletes the group  *)
(* or offsets of it, or resets them; "restart": the broker restarts;       *)
(* "old": clients before JoinGroup v4.                                     *)
BehaviourKinds == {"crash", "leave", "again", "late", "overdue", "impatient",
                   "change", "commit", "delete", "restart", "old"}

ASSUME KafkaGroupAssumption ==
    /\ Identities \subseteq [Consumers -> [name : Nat, static : BOOLEAN, offer : Offers]]
    /\ \A who \in Identities : \A c, d \in Consumers :
           c # d /\ who[c].name = who[d].name => who[c].static /\ who[d].static
    /\ Partitions \subseteq Nat \ {0} /\ IsFiniteSet(Partitions)
    /\ Behaviours \subseteq BehaviourKinds
    /\ {MaxIds, MaxGeneration, MaxOffset, MaxFaults} \subseteq Nat

NoId == 0
Ids == 1..MaxIds
States == {"Empty", "PreparingRebalance", "CompletingRebalance", "Stable", "Dead"}

VARIABLES
    group,      \* the GroupState; one that does not exist is Dead
    joins,      \* the JoinGroup handlers that wait, by member id
    committed,  \* committed_offsets of the group, -1 where there is none
    client,     \* the consumers
    nextId,     \* member ids are unique: new_member_id
    faults,     \* what happened out of the ordinary, and how often
    fresh       \* no rebalance timeout has passed since the round began

vars == <<group, joins, committed, client, nextId, faults, fresh>>

(* In a member's record, `late` says that its session timeout has passed   *)
(* since last_heartbeat_ms; in the group's, `initial` that the initial     *)
(* delay runs and `overdue` that the rebalance timeout has passed since    *)
(* rebalance_start_ms.                                                     *)
Member == [name : Nat, offer : Offers, late : BOOLEAN, static : BOOLEAN]

NewGroup ==
    [state |-> "Empty", generation |-> 0, leader |-> NoId, members |-> <<>>,
     pending |-> {}, awaiting |-> <<>>, assignments |-> <<>>,
     protocol |-> NoProtocol, initial |-> FALSE, overdue |-> FALSE]

(* A consumer: who it is and what it offers, its member id, the generation *)
(* it last joined, the members a leader was given to assign, what it was   *)
(* assigned and its positions.                                             *)
NewClient(who) ==
    [pc |-> "out", id |-> NoId, name |-> who.name, static |-> who.static,
     offer |-> who.offer, generation |-> 0, list |-> {},
     assigned |-> {}, position |-> [p \in Partitions |-> -1]]

Put(f, k, v) == [x \in DOMAIN f \cup {k} |-> IF x = k THEN v ELSE f[x]]
Merged(f, g) == [x \in DOMAIN f \cup DOMAIN g |-> IF x \in DOMAIN f THEN f[x] ELSE g[x]]
Drop(f, k) == Restrict(f, DOMAIN f \ {k})
Live(g) == g.state # "Dead"
Happens(kind) == kind \in Behaviours
Noted(kind) == faults' = [faults EXCEPT !.kinds = @ \cup {kind}]
Fault(kind) ==
    /\ Happens(kind) /\ faults.count < MaxFaults
    /\ faults' = [count |-> faults.count + 1, kinds |-> faults.kinds \cup {kind}]

(***************************************************************************)
(* The group                                                               *)
(***************************************************************************)
(* member_for_instance: at most one member has the instance id. *)
MemberForInstance(g, c) ==
    {m \in DOMAIN g.members : /\ client[c].static /\ g.members[m].static
                               /\ g.members[m].name = client[c].name}

IsFencedInstance(g, c, id) == \E m \in MemberForInstance(g, c) : m # id

SupportedByAll(g, name) ==
    \A m \in DOMAIN g.awaiting : name \in Range(g.awaiting[m])

(* The leader's first protocol that everybody supports; without one, the   *)
(* protocol stays what it was.                                             *)
Chosen(g, leader) ==
    LET offer == g.awaiting[leader]
        common == {i \in DOMAIN offer : SupportedByAll(g, offer[i])}
    IN  IF common = {} THEN g.protocol ELSE offer[Min(common)]

AllJoined(g) == DOMAIN g.members \subseteq DOMAIN g.awaiting

(* The round's members, without those that have gone since they joined. *)
Faulty_Retained(g) == g.awaiting
Retained(g) == Restrict(g.awaiting, DOMAIN g.members)

(* The results of try_complete_join: a leader that is gone is replaced by  *)
(* whichever member the map lists first.                                   *)
TryComplete(g) ==
    IF g.initial \/ g.state # "PreparingRebalance" \/ g.members = <<>> \/ ~AllJoined(g)
    THEN {g}
    ELSE LET h == [g EXCEPT !.awaiting = Retained(g),
                            !.state = "CompletingRebalance"]
             leaders == IF g.leader \in DOMAIN g.members
                        THEN {g.leader} ELSE DOMAIN g.members
         IN  {[h EXCEPT !.leader = l, !.protocol = Chosen(h, l)] : l \in leaders}

StartRound(g) ==
    [g EXCEPT !.state = "PreparingRebalance", !.generation = @ + 1,
              !.overdue = FALSE, !.assignments = <<>>]

(* KIP-345: a new instance takes over the old member's place. *)
Replaced(g, old, new) ==
    LET Moved(f) == IF old \in DOMAIN f THEN Put(Drop(f, old), new, f[old]) ELSE f
        m == [g.members[old] EXCEPT !.late = FALSE]
    IN  [g EXCEPT !.members = Put(Drop(@, old), new, m),
                  !.assignments = Moved(@), !.awaiting = Moved(@),
                  !.leader = IF @ = old THEN new ELSE @]

Changed(g, id, offer) == id \notin DOMAIN g.members \/ g.members[id].offer # offer

(* A new or changed member does not slip into a round being completed. *)
Reopened(g, id, offer) ==
    IF g.state = "CompletingRebalance" /\ Changed(g, id, offer)
    THEN [StartRound(g) EXCEPT !.awaiting = <<>>] ELSE g

(* What handle_join_group does once the member's id is known. *)
Joined(g, id, c, offer) ==
    LET g1 == Reopened(g, id, offer)
        g2 == [g1 EXCEPT !.members = Put(@, id, [name |-> client[c].name, offer |-> offer,
                                                 late |-> FALSE, static |-> client[c].static]),
                         !.awaiting = Put(@, id, offer)]
        g3 == IF g2.state \in {"Empty", "Stable"}
              THEN [StartRound(g2) EXCEPT !.initial = g2.initial \/ g2.state = "Empty"]
              ELSE g2
        g4 == [g3 EXCEPT !.leader = IF @ \in DOMAIN g3.members THEN @ ELSE id]
    IN  {IF h.protocol = NoProtocol /\ h.state = "CompletingRebalance"
         THEN [h EXCEPT !.protocol = offer[1]] ELSE h : h \in TryComplete(g4)}

(* Session expiry as Heartbeat finds it. *)
Expired(g, id) ==
    LET h == [g EXCEPT !.members = Drop(@, id)]
    IN  IF h.members = <<>> THEN [h EXCEPT !.state = "Empty"]
        ELSE [h EXCEPT !.state = "PreparingRebalance", !.generation = @ + 1]

(* LeaveGroup, also for a member the group does not know. *)
Left(g, id) ==
    LET h == IF id \notin DOMAIN g.members THEN g
             ELSE [g EXCEPT !.members = Drop(@, id), !.assignments = Drop(@, id),
                            !.awaiting = Drop(@, id)]
        k == IF h.state = "PreparingRebalance" THEN h
             ELSE [h EXCEPT !.awaiting = <<>>, !.assignments = <<>>]
        leaders == IF h.leader \in DOMAIN h.members
                   THEN {h.leader} ELSE DOMAIN h.members
    IN  IF h.members = <<>> THEN {[h EXCEPT !.state = "Empty", !.leader = NoId]}
        ELSE UNION {TryComplete([k EXCEPT !.leader = l, !.generation = @ + 1,
                                          !.state = "PreparingRebalance"]) : l \in leaders}

(* What a SyncGroup stores; only a leader's names assignments. *)
Synced(g, id, assignments) ==
    IF assignments # <<>> \/ g.leader = id
    THEN [g EXCEPT !.assignments = Merged(assignments, @), !.state = "Stable",
                   !.awaiting = <<>>]
    ELSE g

(* The error of a SyncGroup or a Heartbeat, 0 if there is none. *)
Refusal(g, c, id, generation) ==
    CASE ~Live(g) -> 25
      [] Live(g) /\ IsFencedInstance(g, c, id) -> 82
      [] Live(g) /\ ~IsFencedInstance(g, c, id) /\ id \notin DOMAIN g.members -> 25
      [] OTHER -> IF g.state = "PreparingRebalance" THEN 27
                  ELSE IF generation # g.generation THEN 22 ELSE 0

(* The error of an OffsetCommit that names a member. *)
Faulty_CommitRefusal(g, c, id, generation) ==
    IF Live(g) /\ generation = g.generation THEN 0 ELSE 22
CommitRefusal(g, c, id, generation) ==
    CASE ~Live(g) -> 22
      [] Live(g) /\ IsFencedInstance(g, c, id) -> 82
      [] Live(g) /\ ~IsFencedInstance(g, c, id) /\ id \notin DOMAIN g.members -> 25
      [] OTHER -> IF generation # g.generation THEN 22
                  ELSE IF g.state = "CompletingRebalance" THEN 27 ELSE 0

(***************************************************************************)
(* Consumers                                                               *)
(***************************************************************************)
(* What a leader's assignor makes of the list of members it is given: the  *)
(* partitions dealt round robin, in the order of the members' names.       *)
Assignment(list) ==
    LET Rank(m) == Cardinality({n \in list : \/ n.name < m.name
                                             \/ n.name = m.name /\ n.id < m.id})
        Of(id) == CHOOSE m \in list : m.id = id
    IN  [id \in {m.id : m \in list} |->
            {p \in Partitions : p % Cardinality(list) = Rank(Of(id))}]

SetGroup(g) ==
    /\ g.generation <= MaxGeneration
    /\ group' = g
    /\ fresh' = (fresh \/ g.generation # group.generation)

SetClient(c, r) == client' = [client EXCEPT ![c] = r]

(* A consumer gives up its partitions and has to join again, with the id   *)
(* it has or as a new member; an instance that was replaced stops.         *)
Back(r, pc, id) ==
    [NewClient(r) EXCEPT !.pc = pc, !.id = id]

AfterError(r, error) ==
    CASE error = 82 -> Back(r, "fenced", NoId)
      [] error = 25 -> Back(r, "rejoin", NoId)
      [] OTHER -> Back(r, "rejoin", r.id)

Init ==
    /\ group = [NewGroup EXCEPT !.state = "Dead"]
    /\ joins = <<>>
    /\ committed = [p \in Partitions |-> -1]
    /\ \E who \in Identities : client = [c \in Consumers |-> NewClient(who[c])]
    /\ nextId = 1 /\ faults = [count |-> 0, kinds |-> {}] /\ fresh = FALSE

(***************************************************************************)
(* JoinGroup                                                               *)
(***************************************************************************)
(* A JoinGroup that got past its checks waits for the round, as member id. *)
Wait(c, id, g) ==
    /\ SetGroup(g)
    /\ joins' = Put(joins, id, "waiting")
    /\ SetClient(c, Back(client[c], "joining", id))

(* The consumer asks to join without a member id. *)
JoinAsNew(c, g) ==
    LET old == MemberForInstance(g, c)
        taken == IF old = {} THEN g ELSE Replaced(g, CHOOSE m \in old : TRUE, nextId)
        offer == client[c].offer
    IN  /\ nextId \in Ids /\ nextId' = nextId + 1
        /\ IF old # {} /\ g.state = "CompletingRebalance"
           THEN Noted("takeover") ELSE UNCHANGED faults
        /\ \/ /\ ~client[c].static /\ ~Happens("old")
              /\ SetGroup([g EXCEPT !.pending = @ \cup {nextId}])
              /\ SetClient(c, Back(client[c], "rejoin", nextId))
              /\ UNCHANGED joins
           \/ /\ client[c].static \/ Happens("old")
              /\ IF old # {} /\ taken.state = "Stable" /\ ~Changed(taken, nextId, offer)
                 THEN Wait(c, nextId, taken)
                 ELSE \E h \in Joined(taken, nextId, c, offer) : Wait(c, nextId, h)

(* It asks with the id it was given. *)
JoinAgain(c, g) ==
    LET id == client[c].id
        known == [g EXCEPT !.pending = IF id \in DOMAIN g.members THEN @ ELSE @ \ {id}]
    IN  /\ UNCHANGED <<nextId, faults>>
        /\ \/ /\ IsFencedInstance(g, c, id)
              /\ SetGroup(g) /\ SetClient(c, AfterError(client[c], 82)) /\ UNCHANGED joins
           \/ /\ ~IsFencedInstance(g, c, id)
              /\ id \notin DOMAIN g.members \cup g.pending
              /\ SetGroup(g) /\ SetClient(c, AfterError(client[c], 25)) /\ UNCHANGED joins
           \/ /\ ~IsFencedInstance(g, c, id)
              /\ id \in DOMAIN g.members \cup g.pending
              /\ \E h \in Joined(known, id, c, client[c].offer) : Wait(c, id, h)

JoinGroup(c) ==
    LET g == IF Live(group) THEN group ELSE NewGroup
    IN  /\ client[c].pc \in {"out", "rejoin"}
        /\ IF client[c].id = NoId THEN JoinAsNew(c, g) ELSE JoinAgain(c, g)
        /\ UNCHANGED committed

(* A handler's answer reaches the consumer that waits for it, if any does. *)
Awaiting(id) == {c \in Consumers : client[c].pc = "joining" /\ client[c].id = id}

ErrorOf(id) == IF \E c \in Awaiting(id) : client[c].static THEN 82 ELSE 25

(* The members the leader is told of: those of the round, or everybody's   *)
(* if the group is stable.                                                 *)
ListFor(g, id) ==
    LET joined == IF g.awaiting = <<>> THEN DOMAIN g.members ELSE DOMAIN g.awaiting
    IN  IF g.leader # id THEN {}
        ELSE {[id |-> m, name |-> IF m \in DOMAIN g.members
                                   THEN g.members[m].name ELSE 0] : m \in joined}

(* The handler looks at the group. *)
PollJoin(id) ==
    /\ id \in DOMAIN joins /\ joins[id] = "waiting"
    /\ \/ /\ id \notin DOMAIN group.members
          /\ client' = [c \in Consumers |-> IF c \in Awaiting(id)
                            THEN AfterError(client[c], ErrorOf(id)) ELSE client[c]]
          /\ joins' = Drop(joins, id)
       \/ /\ id \in DOMAIN group.members
          /\ group.state \in {"CompletingRebalance", "Stable", "Dead"}
          /\ client' = [c \in Consumers |-> IF c \in Awaiting(id)
                            THEN [client[c] EXCEPT !.pc = "syncing",
                                                   !.generation = group.generation,
                                                   !.list = ListFor(group, id)]
                            ELSE client[c]]
          /\ joins' = Drop(joins, id)
       \/ /\ id \in DOMAIN group.members
          /\ group.state \in {"Empty", "PreparingRebalance"} /\ group.overdue
          /\ joins' = Put(joins, id, "forcing")
          /\ UNCHANGED client
    /\ UNCHANGED <<group, committed, nextId, faults, fresh>>

(* It found the rebalance timeout over and takes the lock again. *)
Faulty_ForceJoin(id) ==
    /\ id \in DOMAIN joins /\ joins[id] = "forcing"
    /\ joins' = Put(joins, id, "waiting")
    /\ UNCHANGED <<group, committed, client, nextId, faults, fresh>>
ForceJoin(id) ==
    /\ id \in DOMAIN joins /\ joins[id] = "forcing"
    /\ SetGroup(IF group.state = "PreparingRebalance"
                THEN [group EXCEPT !.state = "CompletingRebalance"] ELSE group)
    /\ joins' = Put(joins, id, "waiting")
    /\ UNCHANGED <<committed, client, nextId, faults>>

(* It found nothing to do yet and tries to complete the round. *)
TryJoin(id) ==
    /\ id \in DOMAIN joins /\ joins[id] = "waiting"
    /\ group.state = "PreparingRebalance"
    /\ \E g \in TryComplete(group) : g # group /\ SetGroup(g)
    /\ UNCHANGED <<joins, committed, client, nextId, faults>>

(***************************************************************************)
(* SyncGroup, Heartbeat and LeaveGroup                                     *)
(***************************************************************************)
Faulty_WaitingForLeader(c) == FALSE
WaitingForLeader(c) ==
    /\ group.state = "CompletingRebalance"
    /\ client[c].id \in DOMAIN group.members
    /\ client[c].list = {} /\ group.leader # client[c].id
    /\ client[c].generation = group.generation

CheckSync(c) ==
    /\ client[c].pc = "syncing" /\ ~WaitingForLeader(c)
    /\ SetClient(c, [client[c] EXCEPT !.pc = "handling"])
    /\ UNCHANGED <<group, joins, committed, nextId, faults, fresh>>

SyncTimesOut(c) ==
    /\ client[c].pc = "syncing" /\ WaitingForLeader(c) /\ Happens("impatient")
    /\ SetClient(c, AfterError(client[c], 27))
    /\ UNCHANGED <<group, joins, committed, nextId, faults, fresh>>

SyncGroup(c) ==
    LET r == client[c]
        error == Refusal(group, c, r.id, r.generation)
        g == Synced(group, r.id, IF r.list = {} THEN <<>> ELSE Assignment(r.list))
        mine == IF r.id \in DOMAIN g.assignments THEN g.assignments[r.id] ELSE {}
    IN  /\ r.pc = "handling"
        /\ IF error # 0 THEN SetClient(c, AfterError(r, error)) /\ UNCHANGED <<group, fresh>>
           ELSE SetGroup(g) /\ SetClient(c, [r EXCEPT !.pc = "running", !.list = {},
                                                      !.assigned = mine])
        /\ UNCHANGED <<joins, committed, nextId, faults>>

(* A heartbeat, sent from the JoinGroup's answer on.  One that finds       *)
(* nothing wrong only renews last_heartbeat_ms.                            *)
Heartbeat(c) ==
    LET r == client[c]
        error == Refusal(group, c, r.id, r.generation)
    IN  /\ r.pc \in {"syncing", "running"}
        /\ \/ /\ error # 0
              /\ SetClient(c, AfterError(r, error)) /\ UNCHANGED <<group, fresh>>
           \/ /\ error = 0 /\ group.members[r.id].late
              /\ SetGroup(Expired(group, r.id)) /\ SetClient(c, AfterError(r, 25))
        /\ UNCHANGED <<joins, committed, nextId, faults>>

Leaving(id) ==
    \/ ~Live(group) /\ UNCHANGED <<group, fresh>>
    \/ Live(group) /\ \E g \in Left(group, id) : SetGroup(g)

(* A consumer leaves, whatever it was doing. *)
LeaveGroup(c) ==
    /\ client[c].id # NoId /\ Fault("leave")
    /\ Leaving(client[c].id)
    /\ SetClient(c, Back(client[c], "out", NoId))
    /\ UNCHANGED <<joins, committed, nextId>>

(* The request of a consumer that left already, sent again. *)
LeaveAgain ==
    /\ Fault("again")
    /\ \E id \in 1..(nextId - 1) : id \notin DOMAIN group.members /\ Leaving(id)
    /\ UNCHANGED <<joins, committed, client, nextId>>

(***************************************************************************)
(* Offsets and administration                                              *)
(***************************************************************************)
OffsetFetch(c, p) ==
    /\ Happens("commit")
    /\ client[c].pc = "running" /\ p \in client[c].assigned
    /\ client[c].position[p] = -1
    /\ SetClient(c, [client[c] EXCEPT !.position[p] = IF committed[p] < 0 THEN 0 ELSE committed[p]])
    /\ UNCHANGED <<group, joins, committed, nextId, faults, fresh>>

Consume(c, p) ==
    /\ client[c].position[p] \in 0..(MaxOffset - 1)
    /\ SetClient(c, [client[c] EXCEPT !.position[p] = client[c].position[p] + 1])
    /\ UNCHANGED <<group, joins, committed, nextId, faults, fresh>>

OffsetCommit(c, p) ==
    LET r == client[c]
        error == CommitRefusal(group, c, r.id, r.generation)
    IN  /\ r.position[p] # -1
        /\ \/ /\ error = 0
              /\ committed' = [committed EXCEPT ![p] = r.position[p]] /\ UNCHANGED client
           \/ /\ error # 0 /\ error # 27
              /\ SetClient(c, AfterError(r, error)) /\ UNCHANGED committed
        /\ UNCHANGED <<group, joins, nextId, faults, fresh>>

(* A commit that names no member: allowed into a group without members. *)
ResetOffset(p) ==
    /\ Fault("delete")
    /\ ~Live(group) \/ group.members = <<>>
    /\ \E o \in 0..MaxOffset : committed' = [committed EXCEPT ![p] = o]
    /\ UNCHANGED <<group, joins, client, nextId, fresh>>

HasOffsets == \E p \in Partitions : committed[p] >= 0

OffsetDelete(p) ==
    /\ Fault("delete")
    /\ Live(group) \/ HasOffsets
    /\ committed' = [committed EXCEPT ![p] = -1]
    /\ UNCHANGED <<group, joins, client, nextId, fresh>>

DeleteGroup ==
    /\ Fault("delete")
    /\ IF Live(group) THEN group.state = "Empty" ELSE HasOffsets
    /\ group' = [group EXCEPT !.state = "Dead"]
    /\ committed' = [p \in Partitions |-> -1]
    /\ UNCHANGED <<joins, client, nextId, fresh>>

(***************************************************************************)
(* Time, crashes and restarts                                              *)
(***************************************************************************)
InitialDelayPasses ==
    /\ group.initial
    /\ group' = [group EXCEPT !.initial = FALSE]
    /\ UNCHANGED <<joins, committed, client, nextId, faults, fresh>>

RebalanceTimePasses ==
    /\ Happens("overdue") /\ Live(group) /\ group.generation > 0
    /\ ~group.overdue \/ fresh
    /\ group' = [group EXCEPT !.overdue = TRUE] /\ fresh' = FALSE
    /\ UNCHANGED <<joins, committed, client, nextId, faults>>

SessionTimePasses(id) ==
    /\ id \in DOMAIN group.members /\ ~group.members[id].late /\ Fault("late")
    /\ group' = [group EXCEPT !.members[id].late = TRUE]
    /\ UNCHANGED <<joins, committed, client, nextId, fresh>>

(* The consumer is gone; a handler of its goes on by itself. *)
Crash(c) ==
    /\ client[c].pc \notin {"out", "fenced"} /\ Fault("crash")
    /\ SetClient(c, NewClient(client[c]))
    /\ UNCHANGED <<group, joins, committed, nextId, fresh>>

ChangeOffer(c) ==
    /\ client[c].pc \in {"out", "rejoin", "running"} /\ Fault("change")
    /\ \E o \in Offers \ {client[c].offer} :
           SetClient(c, Back([client[c] EXCEPT !.offer = o],
                             IF client[c].pc = "out" THEN "out" ELSE "rejoin", client[c].id))
    /\ UNCHANGED <<group, joins, committed, nextId, fresh>>

(* Groups do not survive a restart, committed offsets do. *)
Restart ==
    /\ Fault("restart")
    /\ group' = [NewGroup EXCEPT !.state = "Dead"] /\ joins' = <<>>
    /\ client' = [c \in Consumers |->
                    IF client[c].pc \in {"joining", "syncing", "handling"}
                    THEN Back(client[c], "rejoin", client[c].id) ELSE client[c]]
    /\ UNCHANGED <<committed, nextId, fresh>>

ConsumerStep(c) == CheckSync(c) \/ SyncTimesOut(c) \/ SyncGroup(c) \/ Heartbeat(c)
HandlerStep(id) == PollJoin(id) \/ ForceJoin(id) \/ TryJoin(id)

Next ==
    \/ \E c \in Consumers :
        \/ JoinGroup(c) \/ CheckSync(c) \/ SyncTimesOut(c) \/ SyncGroup(c)
        \/ Heartbeat(c) \/ LeaveGroup(c) \/ Crash(c) \/ ChangeOffer(c)
        \/ \E p \in Partitions : OffsetFetch(c, p) \/ Consume(c, p) \/ OffsetCommit(c, p)
    \/ \E id \in Ids : \/ PollJoin(id) \/ ForceJoin(id) \/ TryJoin(id)
                       \/ SessionTimePasses(id)
    \/ \E p \in Partitions : ResetOffset(p) \/ OffsetDelete(p)
    \/ LeaveAgain \/ DeleteGroup \/ InitialDelayPasses \/ RebalanceTimePasses \/ Restart

Spec == Init /\ [][Next]_vars

(* Handler threads run, timers run out, and a consumer that has started to *)
(* join asks again until it is in the group.                               *)
Fairness ==
    /\ \A c \in Consumers : /\ WF_vars(ConsumerStep(c))
                            /\ WF_vars(client[c].pc = "rejoin" /\ JoinGroup(c))
    /\ \A id \in Ids : WF_vars(HandlerStep(id))
    /\ WF_vars(InitialDelayPasses) /\ WF_vars(RebalanceTimePasses)

LiveSpec == Spec /\ Fairness

(***************************************************************************)
(* Properties                                                              *)
(***************************************************************************)
(* The consumers that work in the group's current generation. *)
InGeneration ==
    {c \in Consumers : /\ client[c].pc = "running"
                       /\ client[c].generation = group.generation
                       /\ client[c].id \in DOMAIN group.members}

(* JoinGroup's comment on folding a newcomer into a round whose leader had *)
(* computed assignments without it: every consumer that got through a      *)
(* round is one the leader made an assignment for.  The exception: a new   *)
(* instance of a static member takes the old one's place in a round that   *)
(* is being completed.                                                     *)
NobodyLeftOut ==
    "takeover" \notin faults.kinds =>
        \A c \in InGeneration : client[c].id \in DOMAIN group.assignments

(* Once every member works in the generation, every partition is consumed: *)
(* no assignment went to a member id that is no longer in the group        *)
(* (SyncGroup), with the same exception.                                   *)
AllCovered ==
    ("takeover" \notin faults.kinds /\ group.state = "Stable"
        /\ Cardinality(InGeneration) = Cardinality(DOMAIN group.members))
        => UNION {client[c].assigned : c \in InGeneration} = Partitions

(* A committed offset goes back only while the group has no members: the   *)
(* commit of a consumer that lost its partition is refused.                *)
OffsetsMoveForward ==
    [][\A p \in Partitions : (committed'[p] # -1 /\ committed'[p] < committed[p])
                               => group.members = <<>>]_vars

(* A consumer that asks to join gets to work or stops. *)
JoinersGetIn ==
    \A c \in Consumers : (client[c].pc \in {"rejoin", "joining", "syncing", "handling"})
                            ~> (client[c].pc \in {"running", "out", "fenced"})
=============================================================================
