-------------------------- MODULE KafkaGroupLemmas --------------------------
(***************************************************************************)
(* The inductive invariant for consumer groups (module KafkaGroup), and    *)
(* the steps that keep it whatever places the members have in the leader's *)
(* list.  The other steps and the theorems are in KafkaGroupProofs.        *)
(***************************************************************************)
EXTENDS KafkaGroup, TLAPS

(****************************************************************************)
(* The inductive invariant                                                  *)
(****************************************************************************)


Pcs == {"out", "rejoin", "joining", "syncing", "handling", "running", "fenced"}

(* What a leader is told of a member. *)
Entry == [id : Nat, name : Nat]

ClientRecord ==
    [pc : Pcs, id : Nat, name : Nat, static : BOOLEAN, offer : Offers,
     generation : Nat, list : SUBSET Entry, assigned : SUBSET Partitions,
     position : [Partitions -> Nat \cup {-1}]]

(* The broker's maps: functions whose domain is some of the ids. *)
Maps(S, V) == UNION {[D -> V] : D \in SUBSET S}

(* The member ids given out so far. *)
Given == 1..(nextId - 1)

GroupType(g, S) ==
    g \in [state : States, generation : Nat, leader : Nat, members : Maps(S, Member),
           pending : SUBSET S, awaiting : Maps(S, Offers),
           assignments : Maps(S, SUBSET Partitions), protocol : {g.protocol},
           initial : BOOLEAN, overdue : BOOLEAN]

Kinds == BehaviourKinds \cup {"takeover"}

Typed ==
    /\ nextId \in Nat \ {0}
    /\ GroupType(group, Given)
    /\ joins \in Maps(Given, {"waiting", "forcing"})
    /\ committed \in [Partitions -> Int]
    /\ client \in [Consumers -> ClientRecord]
    /\ faults \in [count : Nat, kinds : SUBSET Kinds]

(* Who may be a member, and how members of the same name differ. *)
Who == {<<client[c].name, client[c].static>> : c \in Consumers}

Named(g, W) ==
    /\ \A m \in DOMAIN g.members : <<g.members[m].name, g.members[m].static>> \in W
    /\ \A m, n \in DOMAIN g.members :
           m # n /\ g.members[m].name = g.members[n].name => ~g.members[m].static

(* What the state says of the members and of the round. *)
Shaped(g) ==
    /\ g.members = <<>> <=> g.state \in {"Empty", "Dead"}
    /\ g.members # <<>> => g.generation > 0
    /\ g.state = "CompletingRebalance" =>
           g.leader \in DOMAIN g.members /\ DOMAIN g.awaiting = DOMAIN g.members
    /\ g.state = "Stable" => g.awaiting = <<>>

(* The members as an assignor sees them: their order, the place of one in  *)
(* it, and the partitions that fall to that place.                         *)
EntryOf(g, m) == [id |-> m, name |-> g.members[m].name]

Roster(g) == {EntryOf(g, m) : m \in DOMAIN g.members}
Before(x, y) == x.name < y.name \/ (x.name = y.name /\ x.id < y.id)
Rank(L, x) == Cardinality({y \in L : Before(y, x)})
Share(L, x) == {p \in Partitions : p % Cardinality(L) = Rank(L, x)}

(* In a stable group every member is assigned the share of its place. *)
Shared(g) ==
    g.state = "Stable" => \A m \in DOMAIN g.members :
        m \in DOMAIN g.assignments /\ g.assignments[m] = Share(Roster(g), EntryOf(g, m))

(* A list of members gives those still there the place they have. *)
Alike(L, g) ==
    /\ Cardinality(L) = Cardinality(Roster(g))
    /\ \A x, y \in L : x.id = y.id => x = y
    /\ \A x \in L : x.id \in DOMAIN g.members =>
           x = EntryOf(g, x.id) /\ Rank(L, x) = Rank(Roster(g), x)

(* What a consumer has in each of its states. *)
Reset(r, S) ==
    /\ r.pc \in {"out", "rejoin", "joining", "fenced"} => r.generation = 0
    /\ r.pc \notin {"syncing", "handling"} => r.list = {}
    /\ r.pc # "running" => r.assigned = {}
    /\ \A p \in Partitions : r.position[p] # -1 => p \in r.assigned
    /\ r.id \in S \cup {NoId}
    /\ \A x \in r.list : x.id \in S

(* Two consumers never have the same id. *)
Distinct ==
    /\ \A c, d \in Consumers : c # d /\ client[c].id = client[d].id => client[c].id = NoId
    /\ \A c, d \in Consumers : client[c].name = client[d].name
                                 => client[c].static = client[d].static
    /\ \A c, d \in Consumers : c # d /\ client[c].name = client[d].name => client[c].static

Current(r, g) == r.id \in DOMAIN g.members /\ r.generation = g.generation

(* A consumer and the group: it is the member of its id; it has no newer   *)
(* generation, and an older one while a round is prepared.                 *)
Known(r, g) ==
    r.id \in DOMAIN g.members =>
        /\ g.members[r.id].name = r.name /\ g.members[r.id].static = r.static
        /\ r.generation <= g.generation
        /\ g.state = "PreparingRebalance" => r.generation < g.generation

(* In the current generation: the list a leader was given is that of the   *)
(* members; nobody but a leader passes before the round is complete; who   *)
(* works has the share of its place, and is ahead of what was committed.   *)
Listed(r, g) ==
    Current(r, g) /\ r.pc \in {"syncing", "handling"} =>
        /\ r.list # {} => Alike(r.list, g)
        /\ g.state = "CompletingRebalance" =>
              /\ r.list # {} => r.list = Roster(g)
              /\ r.list = {} => g.leader # r.id /\ r.pc = "syncing"

Working(r, g) ==
    Current(r, g) /\ r.pc = "running" =>
        g.state = "Stable" /\ r.assigned = Share(Roster(g), EntryOf(g, r.id))

Ahead(r, g, offsets) ==
    Current(r, g) => \A p \in Partitions :
        r.position[p] # -1 => offsets[p] <= r.position[p]

Fits(r, g, offsets) == Known(r, g) /\ Listed(r, g) /\ Working(r, g) /\ Ahead(r, g, offsets)
GroupOK(g, S, W) == GroupType(g, S) /\ Named(g, W) /\ Shaped(g) /\ Shared(g)

IInv ==
    /\ Typed /\ GroupOK(group, Given, Who) /\ Distinct
    /\ \A c \in Consumers : Reset(client[c], Given) /\ Fits(client[c], group, committed)

(* No handler finds the rebalance timeout over, which lets it complete a   *)
(* round that members, or handlers of a round before, are left out of.     *)
Unforced == \A id \in DOMAIN joins : joins[id] # "forcing"

(* Nor does a new instance of a static member take the old one's place in  *)
(* a round being completed, with an assignment that may be of an earlier   *)
(* round.                                                                  *)
Ordinary == Unforced /\ "takeover" \notin faults.kinds

(****************************************************************************)
(* The broker's maps                                                        *)
(****************************************************************************)
(* HashMap::remove: Drop's domain and values. *)
LEMMA DropIs ==
    ASSUME NEW f, NEW k
    PROVE  /\ DOMAIN Drop(f, k) = DOMAIN f \ {k}
           /\ \A x \in DOMAIN f : x # k => Drop(f, k)[x] = f[x]
BY Zenon DEF Drop, Restrict

(* The functions in Maps(S, V), by their domain and values. *)
LEMMA MapsAre ==
    ASSUME NEW S, NEW V, NEW f
    PROVE  f \in Maps(S, V) <=> /\ f = [x \in DOMAIN f |-> f[x]]
                                /\ DOMAIN f \subseteq S
                                /\ \A x \in DOMAIN f : f[x] \in V
BY DEF Maps

(* What HashMap::new, insert, remove and extend return is a map. *)
LEMMA MapsClosed ==
    ASSUME NEW S, NEW V, NEW f \in Maps(S, V)
    PROVE  /\ <<>> \in Maps(S, V)
           /\ f = <<>> <=> DOMAIN f = {}
           /\ \A k \in S, v \in V : Put(f, k, v) \in Maps(S, V)
           /\ \A k : Drop(f, k) \in Maps(S, V)
           /\ \A D \in SUBSET DOMAIN f : Restrict(f, D) \in Maps(S, V)
           /\ \A g \in Maps(S, V) : Merged(g, f) \in Maps(S, V)
<1>0. <<>> = [x \in {} |-> f[x]]
  OBVIOUS
<1>1. <<>> \in Maps(S, V)
  BY <1>0, MapsAre, Zenon
<1>2. f = <<>> <=> DOMAIN f = {}
  BY <1>0, MapsAre
<1>3. ASSUME NEW k \in S, NEW v \in V PROVE Put(f, k, v) \in Maps(S, V)
  <2>1. Put(f, k, v) \in [DOMAIN f \cup {k} -> V]
    BY MapsAre, Zenon DEF Put
  <2> QED BY <2>1, MapsAre DEF Maps
<1>4. ASSUME NEW D \in SUBSET DOMAIN f PROVE Restrict(f, D) \in Maps(S, V)
  <2>1. Restrict(f, D) \in [D -> V]
    BY MapsAre, Zenon DEF Restrict
  <2> QED BY <2>1, MapsAre DEF Maps
<1>5. ASSUME NEW k PROVE Drop(f, k) \in Maps(S, V)
  BY <1>4, Zenon DEF Drop
<1>6. ASSUME NEW g \in Maps(S, V) PROVE Merged(g, f) \in Maps(S, V)
  <2>1. Merged(g, f) \in [DOMAIN g \cup DOMAIN f -> V]
    BY MapsAre, Zenon DEF Merged
  <2>2. DOMAIN g \cup DOMAIN f \in SUBSET S
    BY MapsAre, Zenon
  <2> QED BY <2>1, <2>2, Zenon DEF Maps
<1> QED BY <1>1, <1>2, <1>3, <1>4, <1>5, <1>6, Zenon

(* HashMap::new. *)
LEMMA EmptyMap ==
    ASSUME NEW S, NEW V
    PROVE  <<>> \in Maps(S, V)
<1>1. <<>> \in [{} -> V]
  OBVIOUS
<1> QED BY <1>1, Zenon DEF Maps

(* A map stays one when more ids are given out. *)
LEMMA MapsGrow ==
    ASSUME NEW S, NEW T, S \subseteq T, NEW V, NEW f \in Maps(S, V)
    PROVE  f \in Maps(T, V)
BY Zenon DEF Maps

(****************************************************************************)
(* When a consumer fits a group                                             *)
(****************************************************************************)
(* A consumer of an older generation fits any group that knows it. *)
LEMMA OlderFits ==
    ASSUME NEW r \in ClientRecord, NEW h, NEW offsets, h.generation \in Nat,
           r.id \in DOMAIN h.members =>
               /\ h.members[r.id].name = r.name /\ h.members[r.id].static = r.static
               /\ r.generation < h.generation
    PROVE  Fits(r, h, offsets)
BY DEF Fits, Known, Listed, Working, Ahead, Current, ClientRecord

(* A group without members asks nothing of a consumer. *)
LEMMA EmptyFits ==
    ASSUME NEW r, NEW h, DOMAIN h.members = {}, NEW offsets
    PROVE  Fits(r, h, offsets)
BY Zenon DEF Fits, Known, Listed, Working, Ahead, Current

(* The group has the same members in the same round. *)
SameRound(g, h) ==
    /\ h.state = g.state /\ h.generation = g.generation /\ h.leader = g.leader
    /\ DOMAIN h.members = DOMAIN g.members
    /\ \A m \in DOMAIN g.members : /\ h.members[m].name = g.members[m].name
                                   /\ h.members[m].static = g.members[m].static

(* The same members under the same names: the same list. *)
LEMMA SameRoster ==
    ASSUME NEW g, NEW h, DOMAIN h.members = DOMAIN g.members,
           \A m \in DOMAIN g.members : h.members[m].name = g.members[m].name
    PROVE  /\ Roster(h) = Roster(g)
           /\ \A m \in DOMAIN g.members : EntryOf(h, m) = EntryOf(g, m)
BY Zenon DEF Roster, EntryOf

(* A consumer that fitted the group fits it in the same round. *)
LEMMA SameFits ==
    ASSUME NEW r, NEW g, NEW h, NEW offsets, Fits(r, g, offsets), SameRound(g, h)
    PROVE  Fits(r, h, offsets)
<1>1. Roster(h) = Roster(g) /\ \A m \in DOMAIN g.members : EntryOf(h, m) = EntryOf(g, m)
  BY SameRoster, Zenon DEF SameRound
<1>2. Known(r, h)
  BY Zenon DEF Fits, Known, SameRound
<1>3. Current(r, h) <=> Current(r, g)
  BY Zenon DEF Current, SameRound
<1>4. \A L : Alike(L, g) => Alike(L, h)
  BY <1>1, Zenon DEF Alike, SameRound
<1>5. Listed(r, h)
  BY <1>1, <1>3, <1>4, Zenon DEF Fits, Listed, SameRound
<1>6. Working(r, h)
  BY <1>1, <1>3, Zenon DEF Fits, Working, SameRound, Current
<1>7. Ahead(r, h, offsets)
  BY <1>3, Zenon DEF Fits, Ahead
<1> QED BY <1>2, <1>5, <1>6, <1>7, Zenon DEF Fits

(* The group is as it was but for flags that the round does not depend on. *)
LEMMA SameGroupOK ==
    ASSUME NEW S, NEW W, NEW g, GroupOK(g, S, W), NEW h, GroupType(h, S), SameRound(g, h),
           g.members = <<>> <=> h.members = <<>>,
           h.awaiting = g.awaiting, h.assignments = g.assignments
    PROVE  GroupOK(h, S, W)
<1>1. /\ Roster(h) = Roster(g)
      /\ \A m \in DOMAIN g.members : EntryOf(h, m) = EntryOf(g, m)
  BY SameRoster, Zenon DEF SameRound
<1>2. Named(h, W)
  BY Zenon DEF GroupOK, Named, SameRound
<1>3. Shaped(h)
  BY Zenon DEF GroupOK, Shaped, SameRound
<1>4. Shared(h)
  BY <1>1, Zenon DEF GroupOK, Shared, SameRound
<1> QED BY <1>2, <1>3, <1>4, Zenon DEF GroupOK

(* The group moves on to a later round, or from preparing a round to       *)
(* completing it.                                                          *)
MovesOn(g, h) ==
    /\ h.state # "Stable"
    /\ \/ h.generation > g.generation
       \/ h.generation = g.generation /\ g.state = "PreparingRebalance"

(* Then the members that were there are of an older generation. *)
LEMMA MovedOnFits ==
    ASSUME NEW r \in ClientRecord, NEW g, NEW h, NEW offsets, NEW other, Known(r, g),
           g.generation \in Nat, h.generation \in Nat, MovesOn(g, h),
           r.id \in DOMAIN h.members =>
               /\ r.id \in DOMAIN g.members
               /\ h.members[r.id].name = g.members[r.id].name
               /\ h.members[r.id].static = g.members[r.id].static
    PROVE  Fits(r, h, other)
<1>1. r.generation \in Nat
  BY Zenon DEF ClientRecord
<1>2. r.id \in DOMAIN h.members =>
          /\ h.members[r.id].name = r.name /\ h.members[r.id].static = r.static
          /\ r.generation < h.generation
  BY <1>1 DEF Known, MovesOn
<1> QED BY <1>2, OlderFits, Zenon

(* A consumer's record b in which it has nothing but its id. *)
Bare(b, r, S) ==
    /\ b \in ClientRecord /\ Reset(b, S) /\ b.generation = 0
    /\ b.name = r.name /\ b.static = r.static

(* What a consumer may go back to. *)
GoesBack(r, pc, id, S) ==
    /\ r \in ClientRecord /\ pc \in {"out", "rejoin", "joining", "fenced"}
    /\ S \subseteq Nat /\ id \in S \cup {NoId}

(* A consumer that has to join again has given up everything else. *)
LEMMA BackIs ==
    ASSUME NEW r, NEW pc, NEW id, NEW S, GoesBack(r, pc, id, S)
    PROVE  /\ Bare(Back(r, pc, id), r, S)
           /\ Back(r, pc, id).id = id /\ Back(r, pc, id).pc = pc
<1> DEFINE n == NewClient(r)
           b == Back(r, pc, id)
<1>1. /\ n \in ClientRecord /\ n.generation = 0 /\ n.list = {} /\ n.assigned = {}
      /\ n.position = [p \in Partitions |-> -1]
      /\ n.name = r.name /\ n.static = r.static
  <2>1. r.name \in Nat /\ r.static \in BOOLEAN /\ r.offer \in Offers
    BY Zenon DEF ClientRecord, GoesBack
  <2> QED BY <2>1, Zenon DEF NewClient, NoId, ClientRecord, Pcs
<1>2. b = [n EXCEPT !.pc = pc, !.id = id]
  BY Zenon DEF Back
<1>3. id \in Nat /\ id \in S \cup {NoId} /\ pc \in {"out", "rejoin", "joining", "fenced"}
  BY DEF GoesBack, NoId
<1> HIDE DEF n, b
<1>4. b \in ClientRecord
  BY <1>1, <1>2, <1>3, Zenon DEF ClientRecord, Pcs
<1>5. /\ b.generation = 0 /\ b.list = {} /\ b.assigned = {} /\ b.pc = pc /\ b.id = id
      /\ b.position = [p \in Partitions |-> -1] /\ b.name = r.name /\ b.static = r.static
  BY <1>1, <1>2, Zenon DEF ClientRecord
<1>6. Reset(b, S)
  BY <1>3, <1>5, Zenon DEF Reset
<1> QED BY <1>4, <1>5, <1>6, Zenon DEF Bare, b

(* So has one whose request was refused. *)
LEMMA AfterErrorIs ==
    ASSUME NEW r \in ClientRecord, NEW S, S \subseteq Nat, Reset(r, S), NEW error
    PROVE  Bare(AfterError(r, error), r, S) /\ AfterError(r, error).id \in {r.id, NoId}
<1>1. r.id \in S \cup {NoId}
  BY Zenon DEF Reset
<1>2. \E pc \in {"rejoin", "fenced"}, id \in {r.id, NoId} : AfterError(r, error) = Back(r, pc, id)
  BY DEF AfterError
<1>3. PICK pc \in {"rejoin", "fenced"}, id \in {r.id, NoId} :
          AfterError(r, error) = Back(r, pc, id)
  BY <1>2, Zenon
<1>4. GoesBack(r, pc, id, S)
  BY <1>1, Zenon DEF GoesBack
<1>5. Bare(Back(r, pc, id), r, S) /\ Back(r, pc, id).id = id
  BY <1>4, BackIs
<1> QED BY <1>3, <1>5, Zenon

(* It fits any group that knows it. *)
LEMMA BackFits ==
    ASSUME NEW S, NEW W, NEW h, GroupOK(h, S, W), NEW b \in ClientRecord, b.generation = 0,
           b.id \in DOMAIN h.members =>
               h.members[b.id].name = b.name /\ h.members[b.id].static = b.static,
           NEW offsets
    PROVE  Fits(b, h, offsets)
<1>1. h.generation \in Nat /\ (h.members # <<>> => h.generation > 0)
  BY Zenon DEF GroupOK, GroupType, Shaped
<1>2. b.id \in DOMAIN h.members => h.members # <<>>
  OBVIOUS
<1> QED BY <1>1, <1>2, OlderFits, Zenon



(* A bare record of a consumer that the group knows fits it. *)
LEMMA BareFits ==
    ASSUME NEW S, NEW W, NEW h, GroupOK(h, S, W), NoId \notin S, NEW r, Known(r, h),
           NEW b, Bare(b, r, S), b.id \in {r.id, NoId}, NEW offsets
    PROVE  Fits(b, h, offsets)
<1>1. h.members \in Maps(S, Member)
  BY Zenon DEF GroupOK, GroupType
<1>2. DOMAIN h.members \subseteq S
  BY <1>1, MapsAre
<1>3. b.id \in DOMAIN h.members =>
          h.members[b.id].name = b.name /\ h.members[b.id].static = b.static
  BY <1>2, Zenon DEF Known, Bare
<1> QED BY <1>3, BackFits, Zenon DEF Bare

(****************************************************************************)
(* What a step leaves to show                                               *)
(****************************************************************************)
(* The consumers keep their names. *)
LEMMA WhoKept ==
    ASSUME \A c \in Consumers : /\ client'[c].name = client[c].name
                                /\ client'[c].static = client[c].static
    PROVE  Who' = Who
BY Zenon DEF Who

(* Who has an id keeps it alone, or gives it up. *)
LEMMA DistinctKept ==
    ASSUME Distinct, \A c \in Consumers : /\ client'[c].name = client[c].name
                                          /\ client'[c].static = client[c].static
                                          /\ client'[c].id \in {client[c].id, NoId}
    PROVE  Distinct'
BY DEF Distinct

(* The ids given out. *)
LEMMA GivenIs ==
    ASSUME nextId \in Nat \ {0}
    PROVE  Given \subseteq Nat /\ NoId \notin Given /\ nextId \notin Given
BY DEF Given, NoId

(* A step in which the consumers keep their names and ids, or lose ids:    *)
(* what is left to show of it.                                             *)
LEMMA Assemble ==
    ASSUME IInv, nextId' = nextId, GroupOK(group', Given, Who),
           joins' \in Maps(Given, {"waiting", "forcing"}),
           committed' \in [Partitions -> Int],
           faults' \in [count : Nat, kinds : SUBSET Kinds],
           client' \in [Consumers -> ClientRecord],
           \A c \in Consumers : /\ client'[c].name = client[c].name
                                /\ client'[c].static = client[c].static
                                /\ client'[c].id \in {client[c].id, NoId}
                                /\ Reset(client'[c], Given)
                                /\ Fits(client'[c], group', committed')
    PROVE  IInv'
<1>1. Who' = Who
  BY WhoKept, Zenon
<1>2. Distinct'
  BY DistinctKept, Zenon DEF IInv
<1>3. Given' = Given
  BY Zenon DEF Given
<1>4. GroupOK(group', Given', Who')
  BY <1>1, <1>3, Zenon
<1>5. Typed'
  BY <1>3, <1>4, Zenon DEF IInv, Typed, GroupOK
<1>6. \A c \in Consumers : Reset(client'[c], Given')
  BY <1>3, Zenon
<1> QED BY <1>2, <1>4, <1>5, <1>6, Zenon DEF IInv

(* What the invariant says, piece by piece. *)
LEMMA Unfold ==
    ASSUME IInv
    PROVE  /\ nextId \in Nat \ {0}
           /\ joins \in Maps(Given, {"waiting", "forcing"})
           /\ committed \in [Partitions -> Int]
           /\ faults \in [count : Nat, kinds : SUBSET Kinds]
           /\ client \in [Consumers -> ClientRecord]
           /\ GroupOK(group, Given, Who)
           /\ Given \subseteq Nat /\ NoId \notin Given
           /\ \A c \in Consumers : /\ client[c] \in ClientRecord
                                   /\ Reset(client[c], Given)
                                   /\ Fits(client[c], group, committed)
BY GivenIs, Zenon DEF IInv, Typed

(* The same with one consumer's record replaced. *)
LEMMA AssembleOne ==
    ASSUME IInv, NEW c \in Consumers, NEW r, SetClient(c, r),
           nextId' = nextId, GroupOK(group', Given, Who),
           joins' \in Maps(Given, {"waiting", "forcing"}),
           committed' \in [Partitions -> Int],
           faults' \in [count : Nat, kinds : SUBSET Kinds],
           r \in ClientRecord, r.name = client[c].name, r.static = client[c].static,
           r.id \in {client[c].id, NoId}, Reset(r, Given), Fits(r, group', committed'),
           \A d \in Consumers : d # c => Fits(client[d], group', committed')
    PROVE  IInv'
<1>1. /\ client \in [Consumers -> ClientRecord]
      /\ \A d \in Consumers : client[d] \in ClientRecord /\ Reset(client[d], Given)
  BY Unfold, Zenon
<1>2. client' = [client EXCEPT ![c] = r]
  BY Zenon DEF SetClient
<1>3. client' \in [Consumers -> ClientRecord]
  BY <1>1, <1>2, Zenon
<1>4. \A d \in Consumers : client'[d] = IF d = c THEN r ELSE client[d]
  BY <1>1, <1>2, Zenon
<1>5. \A d \in Consumers : /\ client'[d].name = client[d].name
                           /\ client'[d].static = client[d].static
                           /\ client'[d].id \in {client[d].id, NoId}
                           /\ Reset(client'[d], Given)
                           /\ Fits(client'[d], group', committed')
  BY <1>1, <1>4, Zenon
<1> QED BY <1>3, <1>5, Assemble, Zenon

(* What a step leaves, the consumers apart. *)
Sound ==
    /\ nextId' = nextId /\ GroupOK(group', Given, Who)
    /\ joins' \in Maps(Given, {"waiting", "forcing"})
    /\ committed' \in [Partitions -> Int]
    /\ faults' \in [count : Nat, kinds : SUBSET Kinds]

(* A consumer is left with a bare record while the group steps. *)
LEMMA BareStep ==
    ASSUME IInv, Sound, NEW c \in Consumers, NEW b, SetClient(c, b),
           Bare(b, client[c], Given), b.id \in {client[c].id, NoId},
           Known(client[c], group'),
           \A d \in Consumers : d # c => Fits(client[d], group', committed')
    PROVE  IInv'
<1>1. NoId \notin Given
  BY Unfold, Zenon
<1>2. Fits(b, group', committed')
  BY <1>1, BareFits, Zenon DEF Sound
<1>3. b \in ClientRecord /\ b.name = client[c].name /\ b.static = client[c].static /\ Reset(b, Given)
  BY Zenon DEF Bare
<1> QED BY <1>2, <1>3, AssembleOne, Zenon DEF Sound

(* A refused request changes the consumer only. *)
LEMMA RefusedStep ==
    ASSUME IInv, NEW c \in Consumers, NEW error, SetClient(c, AfterError(client[c], error)),
           UNCHANGED <<group, joins, committed, nextId, faults>>
    PROVE  IInv'
<1>1. Sound
  BY Unfold, Zenon DEF Sound
<1>2. client[c] \in ClientRecord /\ Reset(client[c], Given) /\ Given \subseteq Nat
  BY Unfold, Zenon
<1>3. /\ Bare(AfterError(client[c], error), client[c], Given)
      /\ AfterError(client[c], error).id \in {client[c].id, NoId}
  BY <1>2, AfterErrorIs, Zenon
<1>4. \A d \in Consumers : Fits(client[d], group', committed')
  BY Unfold, Zenon
<1> QED BY <1>1, <1>3, <1>4, BareStep, Zenon DEF Fits

(* A step of the group alone. *)
LEMMA GroupStep ==
    ASSUME IInv, Sound, UNCHANGED client,
           \A d \in Consumers : Fits(client[d], group', committed')
    PROVE  IInv'
<1>1. /\ client \in [Consumers -> ClientRecord]
      /\ \A d \in Consumers : Reset(client[d], Given)
  BY Unfold, Zenon
<1> QED BY <1>1, Assemble, Zenon DEF Sound

(* A group that lost members, or none, and is empty or in a later round. *)
LEMMA RoundOverFits ==
    ASSUME IInv, NEW h, GroupOK(h, Given, Who),
           DOMAIN h.members \subseteq DOMAIN group.members,
           \A m \in DOMAIN h.members : h.members[m] = group.members[m],
           DOMAIN h.members # {} => MovesOn(group, h),
           NEW d \in Consumers, NEW offsets
    PROVE  Fits(client[d], h, offsets)
<1>1. CASE DOMAIN h.members = {}
  BY <1>1, EmptyFits, Zenon
<1>2. CASE DOMAIN h.members # {}
  <2>1. group.generation \in Nat /\ h.generation \in Nat
    BY Unfold, Zenon DEF GroupOK, GroupType
  <2>2. client[d] \in ClientRecord /\ Known(client[d], group)
    BY Unfold, Zenon DEF Fits
  <2>3. MovesOn(group, h)
    BY <1>2, Zenon
  <2>4. client[d].id \in DOMAIN h.members =>
            /\ client[d].id \in DOMAIN group.members
            /\ h.members[client[d].id].name = group.members[client[d].id].name
            /\ h.members[client[d].id].static = group.members[client[d].id].static
    OBVIOUS
  <2> QED BY <2>1, <2>2, <2>3, <2>4, MovedOnFits, Zenon
<1> QED BY <1>1, <1>2, Zenon

(* A fault is noted and counted. *)
LEMMA FaultsTyped ==
    ASSUME faults \in [count : Nat, kinds : SUBSET Kinds], NEW kind \in BehaviourKinds, Fault(kind)
    PROVE  faults' \in [count : Nat, kinds : SUBSET Kinds] /\ faults.kinds \subseteq faults'.kinds
<1>1. kind \in Kinds
  BY Zenon DEF Kinds
<1>2. faults' = [count |-> faults.count + 1, kinds |-> faults.kinds \cup {kind}]
  BY Zenon DEF Fault
<1>3. faults.count + 1 \in Nat /\ faults.kinds \cup {kind} \in SUBSET Kinds
  BY <1>1
<1> QED BY <1>2, <1>3, Zenon

(****************************************************************************)
(* Start, crashes, time and administration                                  *)
(****************************************************************************)
(* The broker starts without the group. *)
LEMMA InitIsSound ==
    ASSUME Init
    PROVE  IInv
<1>1. nextId = 1 /\ Given = {}
  BY DEF Init, Given
<1>2. PICK who \in Identities : client = [c \in Consumers |-> NewClient(who[c])]
  BY Zenon DEF Init
<1>3. \A c \in Consumers : who[c] \in [name : Nat, static : BOOLEAN, offer : Offers]
  BY KafkaGroupAssumption, Zenon
<1>4. group.members = <<>> /\ group.state = "Dead" /\ GroupType(group, Given)
  <2>1. <<>> \in Maps(Given, Member) /\ <<>> \in Maps(Given, Offers)
        /\ <<>> \in Maps(Given, SUBSET Partitions)
    BY EmptyMap, Zenon
  <2>2. group = [NewGroup EXCEPT !.state = "Dead"]
    BY DEF Init
  <2> QED BY <2>1, <2>2, Zenon DEF NewGroup, GroupType, States, NoId
<1>5. GroupOK(group, Given, Who)
  BY <1>4 DEF GroupOK, Named, Shaped, Shared
<1>6. ASSUME NEW c \in Consumers
      PROVE  /\ client[c] \in ClientRecord /\ Reset(client[c], Given)
             /\ client[c].id = NoId /\ client[c].name = who[c].name
             /\ client[c].static = who[c].static
  <2> DEFINE r == NewClient(who[c])
  <2>1. client[c] = r
    BY <1>2, Zenon
  <2>2. /\ r.pc = "out" /\ r.id = NoId /\ r.name = who[c].name /\ r.static = who[c].static
        /\ r.generation = 0 /\ r.list = {} /\ r.assigned = {}
        /\ r.position = [p \in Partitions |-> -1]
    BY Zenon DEF NewClient
  <2>3. r \in ClientRecord
    BY <1>3, Zenon DEF NewClient, ClientRecord, Pcs, NoId
  <2> HIDE DEF r
  <2>4. Reset(r, Given)
    BY <2>2, Zenon DEF Reset
  <2> QED BY <2>1, <2>2, <2>3, <2>4, Zenon
<1>7. Distinct
  <2>1. \A c, d \in Consumers : c # d /\ client[c].name = client[d].name
                                  => client[c].static /\ client[d].static
    BY <1>6, KafkaGroupAssumption
  <2>2. \A c \in Consumers : client[c].static \in BOOLEAN
    BY <1>6, Zenon DEF ClientRecord
  <2> QED BY <1>6, <2>1, <2>2, Zenon DEF Distinct
<1>8. DOMAIN group.members = {}
  BY <1>4
<1>9. \A c \in Consumers : Fits(client[c], group, committed)
  BY <1>8, EmptyFits, Zenon
<1>10. Typed
  <2>1. joins \in Maps(Given, {"waiting", "forcing"})
    BY EmptyMap, Zenon DEF Init
  <2>2. client \in [Consumers -> ClientRecord]
    BY <1>2, <1>6, Zenon
  <2>3. faults \in [count : Nat, kinds : SUBSET Kinds] /\ committed \in [Partitions -> Int]
    BY DEF Init
  <2> QED BY <1>1, <1>4, <2>1, <2>2, <2>3 DEF Typed
<1> QED BY <1>5, <1>6, <1>7, <1>9, <1>10, Zenon DEF IInv

(* SyncGroup's wait times out. *)
LEMMA SyncTimesOutKeeps ==
    ASSUME IInv, NEW c \in Consumers, SyncTimesOut(c)
    PROVE  IInv'
BY RefusedStep, Zenon DEF SyncTimesOut

(* A consumer crashes. *)
LEMMA CrashKeeps ==
    ASSUME IInv, NEW c \in Consumers, Crash(c)
    PROVE  IInv'
<1>1. Sound
  <2>1. faults' \in [count : Nat, kinds : SUBSET Kinds]
    BY Unfold, FaultsTyped, Zenon DEF Crash, BehaviourKinds
  <2> QED BY <2>1, Unfold, Zenon DEF Sound, Crash
<1>2. client[c] \in ClientRecord /\ Given \subseteq Nat
  BY Unfold, Zenon
<1>3. NewClient(client[c]) = Back(client[c], "out", NoId)
  <2> DEFINE n == NewClient(client[c])
  <2>1. n \in ClientRecord /\ n.pc = "out" /\ n.id = NoId
    BY <1>2, Zenon DEF NewClient, ClientRecord, Pcs, NoId
  <2> HIDE DEF n
  <2>2. n = [n EXCEPT !.pc = "out", !.id = NoId]
    BY <2>1, Zenon DEF ClientRecord
  <2> QED BY <2>2, Zenon DEF Back, n
<1>4. GoesBack(client[c], "out", NoId, Given)
  BY <1>2, Zenon DEF GoesBack
<1>5. /\ Bare(NewClient(client[c]), client[c], Given)
      /\ NewClient(client[c]).id \in {client[c].id, NoId}
  BY <1>3, <1>4, BackIs
<1>6. \A d \in Consumers : Fits(client[d], group', committed')
  BY Unfold, Zenon DEF Crash
<1> QED BY <1>1, <1>5, <1>6, BareStep, Zenon DEF Fits, Crash

(* A consumer subscribes anew, with other protocols. *)
LEMMA ChangeOfferKeeps ==
    ASSUME IInv, NEW c \in Consumers, ChangeOffer(c)
    PROVE  IInv'
<1> DEFINE r == client[c]
           pc == IF client[c].pc = "out" THEN "out" ELSE "rejoin"
<1>1. Sound
  <2>1. faults' \in [count : Nat, kinds : SUBSET Kinds]
    BY Unfold, FaultsTyped, Zenon DEF ChangeOffer, BehaviourKinds
  <2> QED BY <2>1, Unfold, Zenon DEF Sound, ChangeOffer
<1>2. r \in ClientRecord /\ Reset(r, Given) /\ Given \subseteq Nat
  BY Unfold, Zenon
<1>3. PICK o \in Offers : SetClient(c, Back([r EXCEPT !.offer = o], pc, r.id))
  BY Zenon DEF ChangeOffer
<1> DEFINE q == [r EXCEPT !.offer = o]
<1>4. q \in ClientRecord /\ q.name = r.name /\ q.static = r.static
  BY <1>2, Zenon DEF ClientRecord
<1> HIDE DEF q, pc
<1>5. GoesBack(q, pc, r.id, Given)
  BY <1>2, <1>4, Zenon DEF GoesBack, Reset, pc
<1>6. Bare(Back(q, pc, r.id), q, Given) /\ Back(q, pc, r.id).id = r.id
  BY <1>5, BackIs
<1>7. Bare(Back(q, pc, r.id), client[c], Given)
  BY <1>4, <1>6, Zenon DEF Bare
<1>8. \A d \in Consumers : Fits(client[d], group', committed')
  BY Unfold, Zenon DEF ChangeOffer
<1>9. SetClient(c, Back(q, pc, r.id))
  BY <1>3, Zenon DEF q, pc
<1> QED BY <1>1, <1>6, <1>7, <1>8, <1>9, BareStep, Zenon DEF Fits

(* The broker restarts: there is no group, and who waited asks again. *)
LEMMA RestartKeeps ==
    ASSUME IInv, Restart
    PROVE  IInv'
<1>1. group' = [NewGroup EXCEPT !.state = "Dead"] /\ joins' = <<>>
  BY Zenon DEF Restart
<1>2. GroupType(group', Given) /\ group'.members = <<>> /\ group'.state = "Dead"
  <2>1. <<>> \in Maps(Given, Member) /\ <<>> \in Maps(Given, Offers)
        /\ <<>> \in Maps(Given, SUBSET Partitions)
    BY EmptyMap
  <2> QED BY <1>1, <2>1, Zenon DEF NewGroup, GroupType, States, NoId
<1>3. GroupOK(group', Given, Who)
  BY <1>2 DEF GroupOK, Named, Shaped, Shared
<1>4. joins' \in Maps(Given, {"waiting", "forcing"})
  BY <1>1, EmptyMap, Zenon
<1>5. faults' \in [count : Nat, kinds : SUBSET Kinds]
  BY Unfold, FaultsTyped, Zenon DEF Restart, BehaviourKinds
<1>6. UNCHANGED <<committed, nextId>>
  BY Zenon DEF Restart
<1>7. ASSUME NEW c \in Consumers
      PROVE  /\ client'[c] \in ClientRecord
             /\ client'[c].name = client[c].name
             /\ client'[c].static = client[c].static
             /\ client'[c].id \in {client[c].id, NoId}
             /\ Reset(client'[c], Given)
  <2>1. client[c] \in ClientRecord /\ Reset(client[c], Given) /\ Given \subseteq Nat
    BY Unfold, Zenon
  <2>2. CASE client'[c] = client[c]
    BY <2>1, <2>2, Zenon
  <2>3. CASE client'[c] = Back(client[c], "rejoin", client[c].id)
    <3>1. GoesBack(client[c], "rejoin", client[c].id, Given)
      BY <2>1, Zenon DEF GoesBack, Reset
    <3> QED BY <2>3, <3>1, BackIs DEF Bare
  <2> QED BY <2>2, <2>3, Zenon DEF Restart
<1>8. client' \in [Consumers -> ClientRecord]
  BY <1>7, Zenon DEF Restart
<1>9. DOMAIN group'.members = {}
  BY <1>2
<1>10. \A c \in Consumers : Fits(client'[c], group', committed')
  BY <1>9, EmptyFits, Zenon
<1>11. committed' \in [Partitions -> Int]
  BY <1>6, Unfold, Zenon
<1> QED BY <1>3, <1>4, <1>5, <1>6, <1>7, <1>8, <1>10, <1>11, Assemble, Zenon

(* The initial delay or the rebalance timeout runs out. *)
LEMMA TimerKeeps ==
    ASSUME IInv, InitialDelayPasses \/ RebalanceTimePasses
    PROVE  IInv'
<1>1. GroupOK(group, Given, Who)
  BY Unfold, Zenon
<1>2. GroupType(group, Given)
  BY <1>1, Zenon DEF GroupOK
<1>3. /\ GroupType(group', Given) /\ group'.state = group.state
      /\ group'.generation = group.generation /\ group'.leader = group.leader
      /\ group'.members = group.members /\ group'.awaiting = group.awaiting
      /\ group'.assignments = group.assignments
  <2>1. CASE InitialDelayPasses
    <3>1. group' = [group EXCEPT !.initial = FALSE]
      BY <2>1 DEF InitialDelayPasses
    <3> QED BY <1>2, <3>1, Zenon DEF GroupType
  <2>2. CASE RebalanceTimePasses
    <3>1. group' = [group EXCEPT !.overdue = TRUE]
      BY <2>2 DEF RebalanceTimePasses
    <3> QED BY <1>2, <3>1, Zenon DEF GroupType
  <2> QED BY <2>1, <2>2, Zenon
<1>4. SameRound(group, group')
  BY <1>3, Zenon DEF SameRound
<1>5. GroupOK(group', Given, Who)
  BY <1>1, <1>3, <1>4, SameGroupOK, Zenon
<1>6. UNCHANGED <<joins, committed, client, nextId, faults>>
  BY Zenon DEF InitialDelayPasses, RebalanceTimePasses
<1>7. Sound
  BY <1>5, <1>6, Unfold, Zenon DEF Sound
<1>8. \A d \in Consumers : Fits(client[d], group', committed')
  BY <1>4, <1>6, Unfold, SameFits, Zenon
<1> QED BY <1>6, <1>7, <1>8, GroupStep, Zenon

(* A member's session timeout runs out. *)
LEMMA SessionTimePassesKeeps ==
    ASSUME IInv, NEW id, SessionTimePasses(id)
    PROVE  IInv'
<1> DEFINE m == [group.members[id] EXCEPT !.late = TRUE]
           M == [group.members EXCEPT ![id] = m]
<1>1. GroupOK(group, Given, Who)
  BY Unfold, Zenon
<1>2. GroupType(group, Given) /\ group.members \in Maps(Given, Member)
  BY <1>1, Zenon DEF GroupOK, GroupType
<1>3. id \in DOMAIN group.members /\ id \in Given /\ group.members[id] \in Member
  BY <1>2, MapsAre, Zenon DEF SessionTimePasses
<1>4. m \in Member /\ m.name = group.members[id].name /\ m.static = group.members[id].static
  BY <1>3, Zenon DEF Member
<1>5. group' = [group EXCEPT !.members = M]
  BY Zenon DEF SessionTimePasses
<1> HIDE DEF m
<1>6. /\ M \in Maps(Given, Member) /\ DOMAIN M = DOMAIN group.members
      /\ \A x \in DOMAIN M : M[x] = IF x = id THEN m ELSE group.members[x]
  BY <1>2, <1>3, <1>4, MapsAre
<1> HIDE DEF M
<1>7. /\ GroupType(group', Given) /\ group'.state = group.state
      /\ group'.generation = group.generation /\ group'.leader = group.leader
      /\ group'.members = M /\ group'.awaiting = group.awaiting
      /\ group'.assignments = group.assignments
  BY <1>2, <1>5, <1>6, Zenon DEF GroupType
<1>8. SameRound(group, group')
  BY <1>4, <1>6, <1>7, Zenon DEF SameRound
<1>9. group.members = <<>> <=> group'.members = <<>>
  BY <1>2, <1>6, <1>7, MapsClosed
<1>10. GroupOK(group', Given, Who)
  BY <1>1, <1>7, <1>8, <1>9, SameGroupOK, Zenon
<1>11. faults' \in [count : Nat, kinds : SUBSET Kinds]
  BY Unfold, FaultsTyped, Zenon DEF SessionTimePasses, BehaviourKinds
<1>12. UNCHANGED <<joins, committed, client, nextId>>
  BY Zenon DEF SessionTimePasses
<1>13. Sound
  BY <1>10, <1>11, <1>12, Unfold, Zenon DEF Sound
<1>14. \A d \in Consumers : Fits(client[d], group', committed')
  BY <1>8, <1>12, Unfold, SameFits, Zenon
<1> QED BY <1>12, <1>13, <1>14, GroupStep, Zenon

(* DeleteGroups finds the group without members. *)
LEMMA DeleteGroupKeeps ==
    ASSUME IInv, DeleteGroup
    PROVE  IInv'
<1>1. GroupOK(group, Given, Who) /\ GroupType(group, Given) /\ Shaped(group)
  BY Unfold, Zenon DEF GroupOK
<1>2. group.members = <<>>
  BY <1>1, Zenon DEF DeleteGroup, Live, Shaped
<1>3. group' = [group EXCEPT !.state = "Dead"]
  BY Zenon DEF DeleteGroup
<1>4. GroupType(group', Given) /\ group'.members = <<>> /\ group'.state = "Dead"
  BY <1>1, <1>2, <1>3, Zenon DEF GroupType, States
<1>5. GroupOK(group', Given, Who)
  BY <1>4 DEF GroupOK, Named, Shaped, Shared
<1>6. faults' \in [count : Nat, kinds : SUBSET Kinds]
  BY Unfold, FaultsTyped, Zenon DEF DeleteGroup, BehaviourKinds
<1>7. committed' \in [Partitions -> Int]
  BY DEF DeleteGroup
<1>8. Sound
  BY <1>5, <1>6, <1>7, Unfold, Zenon DEF Sound, DeleteGroup
<1>9. DOMAIN group'.members = {}
  BY <1>4
<1>10. \A d \in Consumers : Fits(client[d], group', committed')
  BY <1>9, EmptyFits, Zenon
<1> QED BY <1>8, <1>10, GroupStep, Zenon DEF DeleteGroup

(* An administrator resets or deletes an offset. *)
LEMMA OffsetAdminKeeps ==
    ASSUME IInv, NEW p \in Partitions, ResetOffset(p) \/ OffsetDelete(p)
    PROVE  IInv'
<1>1. faults' \in [count : Nat, kinds : SUBSET Kinds]
  BY Unfold, FaultsTyped, Zenon DEF ResetOffset, OffsetDelete, BehaviourKinds
<1>2. committed \in [Partitions -> Int]
  BY Unfold, Zenon
<1>3. UNCHANGED <<group, joins, client, nextId>>
  BY Zenon DEF ResetOffset, OffsetDelete
<1>4. CASE ResetOffset(p)
  <2>1. PICK o \in 0..MaxOffset : committed' = [committed EXCEPT ![p] = o]
    BY <1>4, Zenon DEF ResetOffset
  <2>2. committed' \in [Partitions -> Int]
    BY <1>2, <2>1, KafkaGroupAssumption
  <2>3. Shaped(group)
    BY Unfold, Zenon DEF GroupOK
  <2>4. group'.members = <<>>
    BY <1>3, <1>4, <2>3, Zenon DEF ResetOffset, Live, Shaped
  <2>5. DOMAIN group'.members = {}
    BY <2>4
  <2>6. \A d \in Consumers : Fits(client[d], group', committed')
    BY <2>5, EmptyFits, Zenon
  <2>7. Sound
    BY <1>1, <1>3, <2>2, Unfold, Zenon DEF Sound
  <2> QED BY <1>3, <2>6, <2>7, GroupStep, Zenon
<1>5. CASE OffsetDelete(p)
  <2>1. committed' = [committed EXCEPT ![p] = -1]
    BY <1>5, Zenon DEF OffsetDelete
  <2>2. committed' \in [Partitions -> Int] /\ \A q \in Partitions : committed'[q] \in {committed[q], -1}
    BY <1>2, <2>1
  <2>3. ASSUME NEW d \in Consumers PROVE Fits(client[d], group', committed')
    <3>1. client[d] \in ClientRecord /\ Fits(client[d], group, committed)
      BY Unfold, Zenon
    <3>2. \A q \in Partitions : client[d].position[q] \in Nat \cup {-1}
      BY <3>1, Zenon DEF ClientRecord
    <3>3. Ahead(client[d], group, committed')
      BY <1>2, <2>2, <3>1, <3>2 DEF Fits, Ahead
    <3> QED BY <1>3, <3>1, <3>3, Zenon DEF Fits
  <2>4. Sound
    BY <1>1, <1>3, <2>2, Unfold, Zenon DEF Sound
  <2> QED BY <1>3, <2>3, <2>4, GroupStep, Zenon
<1> QED BY <1>4, <1>5, Zenon

(* A consumer that was assigned a partition moves its position in it. *)
LEMMA PositionStep ==
    ASSUME IInv, NEW c \in Consumers, NEW p \in Partitions, NEW v \in Nat,
           SetClient(c, [client[c] EXCEPT !.position[p] = v]), p \in client[c].assigned,
           Current(client[c], group) => committed[p] <= v,
           UNCHANGED <<group, joins, committed, nextId, faults>>
    PROVE  IInv'
<1> DEFINE r == client[c]
           q == [r.position EXCEPT ![p] = v]
           b == [r EXCEPT !.position = q]
<1>1. /\ r \in ClientRecord /\ Reset(r, Given) /\ Fits(r, group, committed)
      /\ r.position \in [Partitions -> Nat \cup {-1}]
  BY Unfold, Zenon DEF ClientRecord
<1>2. /\ q \in [Partitions -> Nat \cup {-1}] /\ q[p] = v
      /\ \A x \in Partitions : x # p => q[x] = r.position[x]
  BY <1>1, Zenon
<1>3. SetClient(c, b)
  OBVIOUS
<1> HIDE DEF q
<1>4. /\ b \in ClientRecord /\ b.position = q /\ b.pc = r.pc /\ b.id = r.id /\ b.name = r.name
      /\ b.static = r.static /\ b.generation = r.generation /\ b.list = r.list
      /\ b.assigned = r.assigned
  BY <1>1, <1>2, Zenon DEF ClientRecord
<1> HIDE DEF b
<1>5. Reset(b, Given)
  BY <1>1, <1>2, <1>4, Zenon DEF Reset
<1>6. Fits(b, group, committed)
  <2>1. Known(b, group) /\ Listed(b, group)
    BY <1>1, <1>4, Zenon DEF Fits, Known, Listed, Current
  <2>2. Working(b, group)
    BY <1>1, <1>4, Zenon DEF Fits, Working, Current
  <2>3. Ahead(b, group, committed)
    BY <1>1, <1>2, <1>4, Zenon DEF Fits, Ahead, Current
  <2> QED BY <2>1, <2>2, <2>3, Zenon DEF Fits
<1>7. \A d \in Consumers : Fits(client[d], group', committed')
  BY Unfold, Zenon
<1>8. GroupOK(group', Given, Who) /\ nextId' = nextId
  BY Unfold, Zenon
<1>9. /\ joins' \in Maps(Given, {"waiting", "forcing"})
      /\ committed' \in [Partitions -> Int]
      /\ faults' \in [count : Nat, kinds : SUBSET Kinds]
  BY Unfold, Zenon
<1>10. Fits(b, group', committed')
  BY <1>6, Zenon
<1> QED BY <1>3, <1>4, <1>5, <1>7, <1>8, <1>9, <1>10, AssembleOne, Zenon

(* It starts from what was committed, and goes on from there. *)
LEMMA PositionKeeps ==
    ASSUME IInv, NEW c \in Consumers, NEW p \in Partitions, OffsetFetch(c, p) \/ Consume(c, p)
    PROVE  IInv'
<1> DEFINE r == client[c]
<1>1. /\ Reset(r, Given) /\ Fits(r, group, committed) /\ committed \in [Partitions -> Int]
      /\ r.position \in [Partitions -> Nat \cup {-1}]
  BY Unfold, Zenon DEF ClientRecord
<1>2. UNCHANGED <<group, joins, committed, nextId, faults>>
  BY Zenon DEF OffsetFetch, Consume
<1>3. CASE OffsetFetch(c, p)
  <2> DEFINE v == IF committed[p] < 0 THEN 0 ELSE committed[p]
  <2>1. SetClient(c, [client[c] EXCEPT !.position[p] = v]) /\ p \in r.assigned
    BY <1>3, Zenon DEF OffsetFetch
  <2>2. v \in Nat /\ committed[p] <= v
    BY <1>1
  <2> HIDE DEF v
  <2> QED BY <1>2, <2>1, <2>2, PositionStep, Zenon
<1>4. CASE Consume(c, p)
  <2> DEFINE v == client[c].position[p] + 1
  <2>1. SetClient(c, [client[c] EXCEPT !.position[p] = v]) /\ r.position[p] \in 0..(MaxOffset - 1)
    BY <1>4, Zenon DEF Consume
  <2>2. v \in Nat /\ r.position[p] # -1 /\ r.position[p] < v
    BY <2>1, KafkaGroupAssumption
  <2>3. p \in r.assigned
    BY <1>1, <2>2, Zenon DEF Reset
  <2>4. Current(r, group) => committed[p] <= r.position[p]
    BY <1>1, <2>2, Zenon DEF Fits, Ahead
  <2>5. Current(r, group) => committed[p] <= v
    BY <1>1, <2>2, <2>4
  <2> HIDE DEF v
  <2> QED BY <1>2, <2>1, <2>2, <2>3, <2>5, PositionStep, Zenon
<1> QED BY <1>3, <1>4, Zenon

(* SyncGroup's wait is over. *)
LEMMA CheckSyncKeeps ==
    ASSUME IInv, NEW c \in Consumers, CheckSync(c)
    PROVE  IInv'
<1> DEFINE r == client[c]
           b == [r EXCEPT !.pc = "handling"]
<1>1. r \in ClientRecord /\ Reset(r, Given) /\ Fits(r, group, committed) /\ r.pc = "syncing"
  BY Unfold, Zenon DEF CheckSync
<1>2. /\ b \in ClientRecord /\ b.position = r.position /\ b.pc = "handling" /\ b.id = r.id
      /\ b.name = r.name /\ b.static = r.static /\ b.generation = r.generation
      /\ b.list = r.list /\ b.assigned = r.assigned
  BY <1>1, Zenon DEF ClientRecord, Pcs
<1>3. SetClient(c, b)
  BY Zenon DEF CheckSync
<1> HIDE DEF b
<1>4. Reset(b, Given)
  BY <1>1, <1>2, Zenon DEF Reset
<1>5. Fits(b, group, committed)
  <2>1. Known(b, group) /\ Working(b, group) /\ Ahead(b, group, committed)
    BY <1>1, <1>2, Zenon DEF Fits, Known, Working, Ahead, Current
  <2>2. Current(r, group) /\ group.state = "CompletingRebalance" => r.list # {}
    BY <1>1, Zenon DEF CheckSync, WaitingForLeader, Fits, Listed, Current
  <2>3. Listed(b, group)
    BY <1>1, <1>2, <2>2, Zenon DEF Fits, Listed, Current
  <2> QED BY <2>1, <2>3, Zenon DEF Fits
<1>6. UNCHANGED <<group, joins, committed, nextId, faults>>
  BY Zenon DEF CheckSync
<1>7. \A d \in Consumers : Fits(client[d], group', committed')
  BY <1>6, Unfold, Zenon
<1>8. GroupOK(group', Given, Who) /\ nextId' = nextId
  BY <1>6, Unfold, Zenon
<1>9. /\ joins' \in Maps(Given, {"waiting", "forcing"})
      /\ committed' \in [Partitions -> Int]
      /\ faults' \in [count : Nat, kinds : SUBSET Kinds]
  BY <1>6, Unfold, Zenon
<1>10. Fits(b, group', committed')
  BY <1>5, <1>6, Zenon
<1> QED BY <1>2, <1>3, <1>4, <1>7, <1>8, <1>9, <1>10, AssembleOne, Zenon

(* What has happened is not forgotten. *)
LEMMA FaultsGrow ==
    ASSUME faults \in [count : Nat, kinds : SUBSET Kinds], [Next]_vars
    PROVE  faults' \in [count : Nat, kinds : SUBSET Kinds] /\ faults.kinds \subseteq faults'.kinds
<1>1. CASE UNCHANGED faults
  BY <1>1, Zenon
<1>2. CASE \E kind \in BehaviourKinds : Fault(kind)
  BY <1>2, FaultsTyped, Zenon
<1>3. CASE Noted("takeover")
  BY <1>3, Zenon DEF Noted, Kinds
<1>4. ASSUME NEW c \in Consumers,
             JoinGroup(c) \/ CheckSync(c) \/ SyncTimesOut(c) \/ SyncGroup(c) \/ Heartbeat(c)
      PROVE  UNCHANGED faults \/ Noted("takeover")
  BY <1>4, Zenon DEF JoinGroup, JoinAsNew, JoinAgain, CheckSync, SyncTimesOut, SyncGroup, Heartbeat
<1>5. ASSUME NEW c \in Consumers, LeaveGroup(c) \/ Crash(c) \/ ChangeOffer(c)
      PROVE  \E kind \in BehaviourKinds : Fault(kind)
  BY <1>5, Zenon DEF LeaveGroup, Crash, ChangeOffer, BehaviourKinds
<1>6. ASSUME NEW c \in Consumers, NEW p \in Partitions,
             OffsetFetch(c, p) \/ Consume(c, p) \/ OffsetCommit(c, p)
      PROVE  UNCHANGED faults
  BY <1>6, Zenon DEF OffsetFetch, Consume, OffsetCommit
<1>7. ASSUME NEW id \in Ids, PollJoin(id) \/ ForceJoin(id) \/ TryJoin(id) PROVE UNCHANGED faults
  BY <1>7, Zenon DEF PollJoin, ForceJoin, TryJoin
<1>8. ASSUME NEW id \in Ids, SessionTimePasses(id) PROVE \E kind \in BehaviourKinds : Fault(kind)
  BY <1>8, Zenon DEF SessionTimePasses, BehaviourKinds
<1>9. ASSUME NEW p \in Partitions, ResetOffset(p) \/ OffsetDelete(p)
      PROVE  \E kind \in BehaviourKinds : Fault(kind)
  BY <1>9, Zenon DEF ResetOffset, OffsetDelete, BehaviourKinds
<1>10. LeaveAgain \/ DeleteGroup \/ Restart => \E kind \in BehaviourKinds : Fault(kind)
  BY Zenon DEF LeaveAgain, DeleteGroup, Restart, BehaviourKinds
<1>11. InitialDelayPasses \/ RebalanceTimePasses => UNCHANGED faults
  BY Zenon DEF InitialDelayPasses, RebalanceTimePasses
<1>12. UNCHANGED vars => UNCHANGED faults
  BY Zenon DEF vars
<1> QED BY <1>1, <1>2, <1>3, <1>4, <1>5, <1>6, <1>7, <1>8, <1>9, <1>10, <1>11, <1>12, Zenon DEF Next

(****************************************************************************)
(* Rounds are completed and abandoned                                       *)
(****************************************************************************)
(* The list of the members is alike to itself. *)
LEMMA RosterAlike ==
    ASSUME NEW g
    PROVE  Alike(Roster(g), g)
BY DEF Alike, Roster, EntryOf

(* The list JoinGroup's answer has for the leader is that of the members. *)
LEMMA ListForIs ==
    ASSUME NEW g, Shaped(g), g.state \in {"CompletingRebalance", "Stable"}, NEW id
    PROVE  ListFor(g, id) = IF g.leader = id THEN Roster(g) ELSE {}
<1>1. CASE g.leader # id
  BY <1>1, Zenon DEF ListFor
<1>2. CASE g.leader = id
  <2> DEFINE joined == IF g.awaiting = <<>> THEN DOMAIN g.members ELSE DOMAIN g.awaiting
  <2>1. joined = DOMAIN g.members
    BY Zenon DEF Shaped
  <2>2. ListFor(g, id) = {[id |-> m, name |-> IF m \in DOMAIN g.members
                                              THEN g.members[m].name ELSE 0] : m \in joined}
    BY <1>2, Zenon DEF ListFor
  <2> HIDE DEF joined
  <2> QED BY <1>2, <2>1, <2>2, Zenon DEF Roster, EntryOf
<1> QED BY <1>1, <1>2, Zenon

(* A consumer that is told that the round is complete fits the group. *)
LEMMA AnsweredFits ==
    ASSUME IInv, NEW c \in Consumers, client[c].pc = "joining",
           client[c].id \in DOMAIN group.members,
           group.state \in {"CompletingRebalance", "Stable", "Dead"},
           NEW b, b = [client[c] EXCEPT !.pc = "syncing", !.generation = group.generation,
                                        !.list = ListFor(group, client[c].id)]
    PROVE  /\ b \in ClientRecord /\ b.name = client[c].name /\ b.static = client[c].static
           /\ b.id = client[c].id /\ Reset(b, Given) /\ Fits(b, group, committed)
<1> DEFINE r == client[c]
           L == ListFor(group, client[c].id)
<1>1. /\ r \in ClientRecord /\ Reset(r, Given) /\ Fits(r, group, committed)
      /\ GroupOK(group, Given, Who) /\ Given \subseteq Nat
  BY Unfold, Zenon
<1>2. Shaped(group) /\ group.generation \in Nat /\ group.members \in Maps(Given, Member)
  BY <1>1, Zenon DEF GroupOK, GroupType
<1>3. group.state \in {"CompletingRebalance", "Stable"}
  <2>1. group.members # <<>>
    OBVIOUS
  <2> QED BY <1>2, <2>1, Zenon DEF Shaped
<1>4. L = IF group.leader = r.id THEN Roster(group) ELSE {}
  BY <1>2, <1>3, ListForIs, Zenon
<1>5. L \subseteq Entry /\ \A x \in L : x.id \in Given
  <2>1. \A m \in DOMAIN group.members : /\ m \in Given /\ m \in Nat
                                         /\ group.members[m].name \in Nat
    <3>1. \A m \in DOMAIN group.members : m \in Given /\ group.members[m] \in Member
      BY <1>2, MapsAre, Zenon
    <3> QED BY <1>1, <3>1, Zenon DEF Member
  <2>2. \A x \in Roster(group) : x \in Entry /\ x.id \in Given
    BY <2>1 DEF Roster, EntryOf, Entry
  <2> QED BY <1>4, <2>2, Zenon
<1>6. b = [r EXCEPT !.pc = "syncing", !.generation = group.generation, !.list = L]
  OBVIOUS
<1> HIDE DEF L
<1>7. /\ b \in ClientRecord /\ b.position = r.position /\ b.pc = "syncing" /\ b.id = r.id
      /\ b.name = r.name /\ b.static = r.static /\ b.generation = group.generation
      /\ b.list = L /\ b.assigned = r.assigned
  BY <1>1, <1>2, <1>5, <1>6, Zenon DEF ClientRecord, Pcs
<1>8. \A p \in Partitions : r.position[p] = -1
  BY <1>1, Zenon DEF Reset
<1>9. Reset(b, Given)
  BY <1>1, <1>5, <1>7, <1>8, Zenon DEF Reset
<1>10. Known(b, group)
  BY <1>1, <1>2, <1>3, <1>7 DEF Fits, Known
<1>11. Listed(b, group)
  <2>1. Alike(Roster(group), group)
    BY RosterAlike, Zenon
  <2>2. b.list # {} => b.list = Roster(group)
    BY <1>4, <1>7, Zenon
  <2>3. b.list = {} => group.leader # b.id
    <3>1. EntryOf(group, r.id) \in Roster(group)
      BY Zenon DEF Roster
    <3> QED BY <1>4, <1>7, <3>1, Zenon
  <2> QED BY <1>7, <2>1, <2>2, <2>3, Zenon DEF Listed
<1>12. Working(b, group) /\ Ahead(b, group, committed)
  BY <1>7, <1>8, Zenon DEF Working, Ahead
<1> QED BY <1>7, <1>9, <1>10, <1>11, <1>12, Zenon DEF Fits

(* A JoinGroup handler looks at the group: it fails, or answers that the   *)
(* round is complete.  One that finds the rebalance timeout over is no     *)
(* part of an Ordinary behaviour.                                          *)
LEMMA PollJoinKeeps ==
    ASSUME IInv, Ordinary', NEW id, PollJoin(id)
    PROVE  IInv'
<1>1. UNCHANGED <<group, committed, nextId, faults>>
  BY Zenon DEF PollJoin
<1>2. joins \in Maps(Given, {"waiting", "forcing"}) /\ id \in DOMAIN joins
  BY Unfold, Zenon DEF PollJoin
<1>3. joins' = Drop(joins, id)
  <2>1. joins' # Put(joins, id, "forcing")
    <3>1. /\ id \in DOMAIN Put(joins, id, "forcing")
          /\ Put(joins, id, "forcing")[id] = "forcing"
      BY Zenon DEF Put
    <3> QED BY <3>1 DEF Ordinary, Unforced
  <2> QED BY <2>1, Zenon DEF PollJoin
<1>4. joins' \in Maps(Given, {"waiting", "forcing"})
  BY <1>2, <1>3, MapsClosed, Zenon
<1>5. DOMAIN client' = Consumers /\ client' = [c \in Consumers |-> client'[c]]
  <2>1. client = [c \in Consumers |-> client[c]]
    BY Unfold
  <2> QED BY <2>1, Zenon DEF PollJoin
<1>6. ASSUME NEW c \in Consumers
      PROVE  /\ client'[c] \in ClientRecord
             /\ client'[c].name = client[c].name
             /\ client'[c].static = client[c].static
             /\ client'[c].id \in {client[c].id, NoId}
             /\ Reset(client'[c], Given)
             /\ Fits(client'[c], group, committed)
  <2>1. /\ client[c] \in ClientRecord /\ Reset(client[c], Given) /\ Given \subseteq Nat
        /\ Fits(client[c], group, committed) /\ GroupOK(group, Given, Who) /\ NoId \notin Given
    BY Unfold, Zenon
  <2>2. CASE client'[c] = client[c]
    BY <2>1, <2>2, Zenon
  <2>3. CASE \E e : client'[c] = AfterError(client[c], e)
    <3>1. Bare(client'[c], client[c], Given) /\ client'[c].id \in {client[c].id, NoId}
      BY <2>1, <2>3, AfterErrorIs, Zenon
    <3>2. Fits(client'[c], group, committed)
      BY <2>1, <3>1, BareFits, Zenon DEF Fits
    <3> QED BY <3>1, <3>2, Zenon DEF Bare
  <2>4. CASE /\ client[c].pc = "joining" /\ client[c].id = id /\ id \in DOMAIN group.members
             /\ group.state \in {"CompletingRebalance", "Stable", "Dead"}
             /\ client'[c] = [client[c] EXCEPT !.pc = "syncing", !.generation = group.generation,
                                               !.list = ListFor(group, id)]
    BY <2>4, AnsweredFits, Zenon
  <2>5. c \notin Awaiting(id) => client'[c] = client[c]
    BY Zenon DEF PollJoin
  <2>6. c \in Awaiting(id) => client[c].pc = "joining" /\ client[c].id = id
    BY DEF Awaiting
  <2> QED BY <2>2, <2>3, <2>4, <2>5, <2>6, Zenon DEF PollJoin
<1>7. client' \in [Consumers -> ClientRecord]
  BY <1>5, <1>6, Zenon
<1>8. \A c \in Consumers : Fits(client'[c], group', committed')
  BY <1>1, <1>6, Zenon
<1>9. GroupOK(group', Given, Who) /\ committed' \in [Partitions -> Int]
      /\ faults' \in [count : Nat, kinds : SUBSET Kinds]
  BY <1>1, Unfold, Zenon
<1> QED BY <1>1, <1>4, <1>6, <1>7, <1>8, <1>9, Assemble, Zenon

(* try_complete_join leaves the group alone or completes the round: with   *)
(* all its members, and one of them as the leader.                         *)
LEMMA TryCompleteIs ==
    ASSUME NEW S, S \subseteq Nat, NEW g, GroupType(g, S), NEW h \in TryComplete(g)
    PROVE  /\ GroupType(h, S)
           /\ h.members = g.members /\ h.generation = g.generation
           /\ h.assignments = g.assignments
           /\ \/ h = g
              \/ /\ g.state = "PreparingRebalance" /\ h.state = "CompletingRebalance"
                 /\ h.leader \in DOMAIN h.members /\ DOMAIN h.awaiting = DOMAIN h.members
<1>1. CASE h = g
  BY <1>1, Zenon
<1>2. CASE h # g
  <2> DEFINE k == [g EXCEPT !.awaiting = Retained(g), !.state = "CompletingRebalance"]
  <2>1. /\ g.state = "PreparingRebalance" /\ DOMAIN g.members \subseteq DOMAIN g.awaiting
        /\ \E l \in DOMAIN g.members : h = [k EXCEPT !.leader = l, !.protocol = Chosen(k, l)]
    BY <1>2, Zenon DEF TryComplete, AllJoined
  <2>2. PICK l \in DOMAIN g.members : h = [k EXCEPT !.leader = l, !.protocol = Chosen(k, l)]
    BY <2>1, Zenon
  <2>3. /\ g.members \in Maps(S, Member) /\ g.awaiting \in Maps(S, Offers)
        /\ g.assignments \in Maps(S, SUBSET Partitions)
    BY Zenon DEF GroupType
  <2>4. Retained(g) \in Maps(S, Offers) /\ DOMAIN Retained(g) = DOMAIN g.members
    BY <2>1, <2>3, MapsClosed, Zenon DEF Retained, Restrict
  <2>5. l \in Nat
    BY <2>3, MapsAre
  <2> DEFINE q == Chosen(k, l)
  <2> HIDE DEF q
  <2>6. h = [g EXCEPT !.awaiting = Retained(g), !.state = "CompletingRebalance",
                      !.leader = l, !.protocol = q]
    BY <2>2, Zenon DEF q, GroupType
  <2>7. GroupType(h, S)
    BY <2>3, <2>4, <2>5, <2>6, Zenon DEF GroupType, States
  <2>8. /\ h.members = g.members /\ h.generation = g.generation
        /\ h.assignments = g.assignments /\ h.leader = l
        /\ h.state = "CompletingRebalance" /\ h.awaiting = Retained(g)
    BY <2>6, Zenon DEF GroupType
  <2> QED BY <2>1, <2>4, <2>7, <2>8, Zenon
<1> QED BY <1>1, <1>2, Zenon

(* A group that try_complete_join may be called on. *)
Unsettled(g, S, W) ==
    S \subseteq Nat /\ GroupType(g, S) /\ Named(g, W) /\ Shaped(g) /\ g.state # "Stable"

(* Completing a round keeps what holds of a group. *)
LEMMA CompletedOK ==
    ASSUME NEW S, NEW W, NEW g, Unsettled(g, S, W), NEW h \in TryComplete(g)
    PROVE  /\ GroupOK(h, S, W)
           /\ h.members = g.members /\ h.generation = g.generation
           /\ h = g \/ (g.state = "PreparingRebalance" /\ h.state = "CompletingRebalance")
<1>1. CASE h = g
  BY <1>1, Zenon DEF GroupOK, Shared, Unsettled
<1>2. CASE h # g
  <2>1. /\ GroupType(h, S) /\ h.members = g.members /\ h.generation = g.generation
        /\ g.state = "PreparingRebalance" /\ h.state = "CompletingRebalance"
        /\ h.leader \in DOMAIN h.members /\ DOMAIN h.awaiting = DOMAIN h.members
    BY <1>2, TryCompleteIs, Zenon DEF Unsettled
  <2>2. Named(h, W)
    BY <2>1, Zenon DEF Named, Unsettled
  <2>3. Shaped(h)
    BY <2>1, Zenon DEF Shaped, Unsettled
  <2> QED BY <2>1, <2>2, <2>3, Zenon DEF GroupOK, Shared
<1> QED BY <1>1, <1>2, Zenon

(* A handler completes the round. *)
LEMMA TryJoinKeeps ==
    ASSUME IInv, NEW id, TryJoin(id)
    PROVE  IInv'
<1>1. group' \in TryComplete(group) /\ group.state = "PreparingRebalance"
  BY Zenon DEF TryJoin, SetGroup
<1>2. Unsettled(group, Given, Who)
  BY <1>1, Unfold, Zenon DEF Unsettled, GroupOK
<1>3. /\ GroupOK(group', Given, Who)
      /\ group'.members = group.members /\ group'.generation = group.generation
      /\ group' = group \/ group'.state = "CompletingRebalance"
  BY <1>1, <1>2, CompletedOK
<1>4. MovesOn(group, group')
  BY <1>1, <1>3, Zenon DEF MovesOn
<1>5. \A d \in Consumers : Fits(client[d], group', committed')
  BY <1>3, <1>4, RoundOverFits, Zenon
<1>6. Sound
  BY <1>3, Unfold, Zenon DEF Sound, TryJoin
<1> QED BY <1>5, <1>6, GroupStep, Zenon DEF TryJoin

(* LeaveGroup: the member is gone, the others are where they were, and the *)
(* group is empty or in a later round.                                     *)
LEMMA LeftOK ==
    ASSUME NEW S, S \subseteq Nat, NEW W, NEW g, GroupOK(g, S, W), Live(g), NEW id,
           NEW h \in Left(g, id)
    PROVE  /\ GroupOK(h, S, W)
           /\ DOMAIN h.members \subseteq DOMAIN g.members
           /\ \A m \in DOMAIN h.members : h.members[m] = g.members[m]
           /\ DOMAIN h.members # {} => MovesOn(g, h)
<1> DEFINE k == IF id \notin DOMAIN g.members THEN g
                ELSE [g EXCEPT !.members = Drop(@, id), !.assignments = Drop(@, id),
                               !.awaiting = Drop(@, id)]
<1>1. GroupType(g, S) /\ Named(g, W) /\ Shaped(g)
  BY Zenon DEF GroupOK
<1>2. /\ g.members \in Maps(S, Member) /\ g.awaiting \in Maps(S, Offers)
      /\ g.assignments \in Maps(S, SUBSET Partitions) /\ g.generation \in Nat
  BY <1>1, Zenon DEF GroupType
<1>3. /\ GroupType(k, S) /\ k.generation = g.generation /\ k.state = g.state
      /\ DOMAIN k.members = DOMAIN g.members \ {id}
      /\ \A m \in DOMAIN k.members : k.members[m] = g.members[m]
  <2>1. CASE id \notin DOMAIN g.members
    BY <2>1, <1>1, Zenon
  <2>2. CASE id \in DOMAIN g.members
    <3>1. k = [g EXCEPT !.members = Drop(g.members, id),
                        !.assignments = Drop(g.assignments, id),
                        !.awaiting = Drop(g.awaiting, id)]
      BY <2>2, <1>1, Zenon DEF GroupType
    <3>2. /\ Drop(g.members, id) \in Maps(S, Member)
          /\ Drop(g.assignments, id) \in Maps(S, SUBSET Partitions)
          /\ Drop(g.awaiting, id) \in Maps(S, Offers)
      BY <1>2, MapsClosed, Zenon
    <3> HIDE DEF k
    <3>3. k.members = Drop(g.members, id) /\ k.generation = g.generation /\ k.state = g.state
      BY <3>1, <1>1, Zenon DEF GroupType
    <3>4. GroupType(k, S)
      BY <3>1, <3>2, <1>1, Zenon DEF GroupType
    <3>5. /\ DOMAIN Drop(g.members, id) = DOMAIN g.members \ {id}
          /\ \A m \in DOMAIN g.members : m # id => Drop(g.members, id)[m] = g.members[m]
      BY DropIs, Zenon
    <3> QED BY <3>3, <3>4, <3>5, Zenon
  <2> QED BY <2>1, <2>2, Zenon
<1> HIDE DEF k
<1>4. k.members \in Maps(S, Member) /\ (k.members = <<>> <=> DOMAIN k.members = {})
  <2>1. k.members \in Maps(S, Member)
    BY <1>3 DEF GroupType
  <2> QED BY <2>1, MapsClosed, Zenon
<1>5. CASE k.members = <<>>
  <2>1. h = [k EXCEPT !.state = "Empty", !.leader = NoId]
    BY <1>5, Zenon DEF Left, k
  <2>2. GroupType(h, S) /\ h.members = <<>> /\ h.state = "Empty"
    BY <2>1, <1>3, <1>5, Zenon DEF GroupType, NoId, States
  <2>3. DOMAIN h.members = {}
    BY <2>2
  <2> QED BY <2>2, <2>3, Zenon DEF GroupOK, Named, Shaped, Shared
<1>6. CASE k.members # <<>>
  <2> DEFINE q == IF k.state = "PreparingRebalance" THEN k
                  ELSE [k EXCEPT !.awaiting = <<>>, !.assignments = <<>>]
             n(l) == [q EXCEPT !.leader = l, !.generation = @ + 1,
                               !.state = "PreparingRebalance"]
  <2>1. PICK l \in DOMAIN k.members : h \in TryComplete(n(l))
    BY <1>6, Zenon DEF Left, k
  <2>2. <<>> \in Maps(S, Offers) /\ <<>> \in Maps(S, SUBSET Partitions)
    BY <1>2, MapsClosed, Zenon
  <2>3. GroupType(q, S) /\ q.members = k.members /\ q.generation = k.generation
    BY <2>2, <1>3, Zenon DEF GroupType
  <2>4. l \in Nat
    BY <1>4, MapsAre, Zenon
  <2> DEFINE u == n(l)
  <2>5. u = [q EXCEPT !.leader = l, !.generation = q.generation + 1,
                      !.state = "PreparingRebalance"]
    BY <2>3, Zenon DEF GroupType
  <2> HIDE DEF q, u
  <2>6. /\ GroupType(u, S) /\ u.members = k.members /\ u.generation = g.generation + 1
        /\ u.state = "PreparingRebalance"
    <3>1. q.generation = g.generation /\ q.generation + 1 \in Nat
      BY <2>3, <1>2, <1>3
    <3>2. /\ u.members = q.members /\ u.generation = q.generation + 1
          /\ u.state = "PreparingRebalance"
      BY <2>3, <2>5, Zenon DEF GroupType
    <3>3. GroupType(u, S)
      BY <3>1, <2>3, <2>4, <2>5, Zenon DEF GroupType, States
    <3> QED BY <3>1, <3>2, <3>3, <2>3, Zenon
  <2>7. Named(u, W)
    BY <2>6, <1>1, <1>3 DEF Named
  <2>8. Shaped(u)
    BY <2>6, <1>2, <1>6 DEF Shaped
  <2>9. h \in TryComplete(u)
    BY <2>1, Zenon DEF u
  <2>10. /\ GroupOK(h, S, W) /\ h.members = k.members /\ h.generation = g.generation + 1
         /\ h.state \in {"PreparingRebalance", "CompletingRebalance"}
    <3>1. Unsettled(u, S, W)
      BY <2>6, <2>7, <2>8, Zenon DEF Unsettled
    <3>2. /\ GroupOK(h, S, W) /\ h.members = u.members /\ h.generation = u.generation
          /\ h = u \/ (u.state = "PreparingRebalance" /\ h.state = "CompletingRebalance")
      BY <3>1, <2>9, CompletedOK
    <3> QED BY <3>2, <2>6, Zenon
  <2>11. MovesOn(g, h)
    BY <2>10, <1>2 DEF MovesOn
  <2> QED BY <2>10, <2>11, <1>3, Zenon
<1> QED BY <1>5, <1>6, Zenon

(* LeaveGroup's effect on the group. *)
LEMMA LeavingKeeps ==
    ASSUME IInv, NEW id, Leaving(id)
    PROVE  /\ GroupOK(group', Given, Who)
           /\ \A d \in Consumers : Fits(client[d], group', committed)
<1>1. CASE UNCHANGED <<group, fresh>>
  BY <1>1, Unfold, Zenon
<1>2. CASE Live(group) /\ \E g \in Left(group, id) : SetGroup(g)
  <2>1. group' \in Left(group, id)
    BY <1>2, Zenon DEF SetGroup
  <2>2. GroupOK(group, Given, Who) /\ Given \subseteq Nat
    BY Unfold, Zenon
  <2>3. /\ GroupOK(group', Given, Who)
        /\ DOMAIN group'.members \subseteq DOMAIN group.members
        /\ \A m \in DOMAIN group'.members : group'.members[m] = group.members[m]
        /\ DOMAIN group'.members # {} => MovesOn(group, group')
    BY <1>2, <2>1, <2>2, LeftOK, Zenon
  <2>4. \A d \in Consumers : Fits(client[d], group', committed)
    BY <2>3, RoundOverFits, Zenon
  <2> QED BY <2>3, <2>4, Zenon
<1> QED BY <1>1, <1>2, Zenon DEF Leaving

(* A consumer leaves. *)
LEMMA LeaveGroupKeeps ==
    ASSUME IInv, NEW c \in Consumers, LeaveGroup(c)
    PROVE  IInv'
<1>1. /\ GroupOK(group', Given, Who)
      /\ \A d \in Consumers : Fits(client[d], group', committed)
  BY LeavingKeeps, Zenon DEF LeaveGroup
<1>2. faults' \in [count : Nat, kinds : SUBSET Kinds]
  BY Unfold, FaultsTyped, Zenon DEF LeaveGroup, BehaviourKinds
<1>3. Sound
  BY <1>1, <1>2, Unfold, Zenon DEF Sound, LeaveGroup
<1>4. GoesBack(client[c], "out", NoId, Given)
  BY Unfold, Zenon DEF GoesBack
<1>5. Bare(Back(client[c], "out", NoId), client[c], Given)
      /\ Back(client[c], "out", NoId).id = NoId
  BY <1>4, BackIs
<1>6. SetClient(c, Back(client[c], "out", NoId)) /\ committed' = committed
  BY Zenon DEF LeaveGroup
<1> QED BY <1>1, <1>3, <1>5, <1>6, BareStep, Zenon DEF Fits

(* Its request is sent again. *)
LEMMA LeaveAgainKeeps ==
    ASSUME IInv, LeaveAgain
    PROVE  IInv'
<1>0. PICK id : Leaving(id)
  BY Zenon DEF LeaveAgain
<1>1. /\ GroupOK(group', Given, Who)
      /\ \A d \in Consumers : Fits(client[d], group', committed)
  BY <1>0, LeavingKeeps, Zenon
<1>2. faults' \in [count : Nat, kinds : SUBSET Kinds]
  BY Unfold, FaultsTyped, Zenon DEF LeaveAgain, BehaviourKinds
<1>3. Sound
  BY <1>1, <1>2, Unfold, Zenon DEF Sound, LeaveAgain
<1> QED BY <1>1, <1>3, GroupStep, Zenon DEF LeaveAgain

(* Heartbeat's session expiry: the member is gone, and the group is empty  *)
(* or prepares a new round.                                                *)
LEMMA ExpiredOK ==
    ASSUME NEW S, NEW W, NEW g, GroupOK(g, S, W), NEW id
    PROVE  LET h == Expired(g, id)
           IN  /\ GroupOK(h, S, W)
               /\ DOMAIN h.members \subseteq DOMAIN g.members \ {id}
               /\ \A m \in DOMAIN h.members : h.members[m] = g.members[m]
               /\ DOMAIN h.members # {} => MovesOn(g, h)
<1> DEFINE k == [g EXCEPT !.members = Drop(@, id)]
           h == Expired(g, id)
<1>1. GroupType(g, S) /\ Named(g, W) /\ Shaped(g)
  BY Zenon DEF GroupOK
<1>2. g.members \in Maps(S, Member) /\ g.generation \in Nat
  BY <1>1, Zenon DEF GroupType
<1>3. k = [g EXCEPT !.members = Drop(g.members, id)]
  BY <1>1, Zenon DEF GroupType
<1>4. Drop(g.members, id) \in Maps(S, Member)
  BY <1>2, MapsClosed, Zenon
<1>5. /\ GroupType(k, S) /\ k.members = Drop(g.members, id)
      /\ k.generation = g.generation /\ k.state = g.state
  BY <1>1, <1>3, <1>4, Zenon DEF GroupType
<1>6. /\ DOMAIN Drop(g.members, id) = DOMAIN g.members \ {id}
      /\ \A m \in DOMAIN g.members : m # id => Drop(g.members, id)[m] = g.members[m]
  BY DropIs, Zenon
<1>7. Drop(g.members, id) = <<>> <=> DOMAIN Drop(g.members, id) = {}
  BY <1>4, MapsClosed
<1>8. CASE k.members = <<>>
  <2>1. h = [k EXCEPT !.state = "Empty"]
    BY <1>8, Zenon DEF Expired
  <2> HIDE DEF k, h
  <2>2. GroupType(h, S) /\ h.members = <<>> /\ h.state = "Empty"
    BY <2>1, <1>5, <1>8, Zenon DEF GroupType, States
  <2>3. DOMAIN h.members = {}
    BY <2>2
  <2>4. GroupOK(h, S, W)
    BY <2>2, <2>3, Zenon DEF GroupOK, Named, Shaped, Shared
  <2> QED BY <2>3, <2>4, Zenon DEF h
<1>9. CASE k.members # <<>>
  <2>1. h = [k EXCEPT !.state = "PreparingRebalance", !.generation = k.generation + 1]
    BY <1>5, <1>9, Zenon DEF Expired, GroupType
  <2> HIDE DEF k, h
  <2>2. k.generation + 1 \in Nat
    BY <1>2, <1>5
  <2>3. /\ h.members = k.members /\ h.generation = k.generation + 1
        /\ h.state = "PreparingRebalance"
    BY <2>1, <1>5, Zenon DEF GroupType
  <2>4. GroupType(h, S)
    BY <2>1, <2>2, <1>5, Zenon DEF GroupType, States
  <2>5. Named(h, W)
    BY <2>3, <1>1, <1>5, <1>6 DEF Named
  <2>6. Shaped(h)
    BY <2>3, <1>2, <1>5, <1>9 DEF Shaped
  <2>7. GroupOK(h, S, W)
    BY <2>3, <2>4, <2>5, <2>6, Zenon DEF GroupOK, Shared
  <2>8. MovesOn(g, h)
    BY <2>3, <1>2, <1>5 DEF MovesOn
  <2> QED BY <2>3, <2>7, <2>8, <1>5, <1>6, Zenon DEF h
<1> QED BY <1>8, <1>9, Zenon

(* Heartbeat: refused, or it finds the session over. *)
LEMMA HeartbeatKeeps ==
    ASSUME IInv, NEW c \in Consumers, Heartbeat(c)
    PROVE  IInv'
<1>1. CASE \E e : SetClient(c, AfterError(client[c], e)) /\ UNCHANGED <<group, fresh>>
  BY <1>1, RefusedStep, Zenon DEF Heartbeat
<1>2. CASE /\ SetGroup(Expired(group, client[c].id))
           /\ SetClient(c, AfterError(client[c], 25))
  <2>1. group' = Expired(group, client[c].id)
    BY <1>2, Zenon DEF SetGroup
  <2>2. GroupOK(group, Given, Who)
    BY Unfold, Zenon
  <2>3. /\ GroupOK(group', Given, Who)
        /\ DOMAIN group'.members \subseteq DOMAIN group.members \ {client[c].id}
        /\ \A m \in DOMAIN group'.members : group'.members[m] = group.members[m]
        /\ DOMAIN group'.members # {} => MovesOn(group, group')
    BY <2>1, <2>2, ExpiredOK, Zenon
  <2>4. Sound
    BY <2>3, Unfold, Zenon DEF Sound, Heartbeat
  <2>5. \A d \in Consumers : Fits(client[d], group', committed')
    BY <2>3, RoundOverFits, Zenon
  <2>6. client[c] \in ClientRecord /\ Reset(client[c], Given) /\ Given \subseteq Nat
    BY Unfold, Zenon
  <2>7. /\ Bare(AfterError(client[c], 25), client[c], Given)
        /\ AfterError(client[c], 25).id \in {client[c].id, NoId}
    BY <2>6, AfterErrorIs, Zenon
  <2> QED BY <1>2, <2>4, <2>5, <2>7, BareStep, Zenon DEF Fits
<1> QED BY <1>1, <1>2, Zenon DEF Heartbeat

(****************************************************************************)
(* Members join                                                             *)
(****************************************************************************)
(* What holds of a group does not depend on the protocol chosen. *)
LEMMA ProtocolOK ==
    ASSUME NEW S, NEW W, NEW g, GroupOK(g, S, W), NEW q
    PROVE  LET h == [g EXCEPT !.protocol = q]
           IN  /\ GroupOK(h, S, W) /\ h.members = g.members
               /\ h.generation = g.generation /\ h.state = g.state /\ h.leader = g.leader
<1> DEFINE h == [g EXCEPT !.protocol = q]
<1>1. GroupType(g, S)
  BY Zenon DEF GroupOK
<1>2. /\ h.members = g.members /\ h.generation = g.generation /\ h.state = g.state
      /\ h.leader = g.leader /\ h.awaiting = g.awaiting /\ h.assignments = g.assignments
  BY <1>1, Zenon DEF GroupType
<1>3. GroupType(h, S)
  BY <1>1, Zenon DEF GroupType
<1> HIDE DEF h
<1>4. Named(h, W) /\ Shaped(h)
  BY <1>2, Zenon DEF GroupOK, Named, Shaped
<1>5. Shared(h)
  BY <1>2, Zenon DEF GroupOK, Shared, Roster, EntryOf
<1> QED BY <1>2, <1>3, <1>4, <1>5, Zenon DEF GroupOK, h

(* A consumer may join as member id: no member but that one has its name,  *)
(* unless neither is static.                                               *)
Joinable(g, S, W, id, c) ==
    /\ S \subseteq Nat /\ GroupOK(g, S, W) /\ Live(g) /\ id \in S
    /\ client[c] \in ClientRecord
    /\ <<client[c].name, client[c].static>> \in W
    /\ \A m \in DOMAIN g.members : m # id /\ g.members[m].name = client[c].name
                                     => ~g.members[m].static /\ ~client[c].static
    /\ id \in DOMAIN g.members => /\ g.members[id].name = client[c].name
                                  /\ g.members[id].static = client[c].static

(* A round that is being completed is reopened for a new or changed member.*)
LEMMA ReopenedIs ==
    ASSUME NEW S, NEW g, GroupType(g, S), NEW id, NEW offer
    PROVE  LET h == Reopened(g, id, offer)
           IN  /\ GroupType(h, S) /\ h.members = g.members /\ h.leader = g.leader
               /\ \/ h = g /\ (g.state = "CompletingRebalance" => id \in DOMAIN g.members)
                  \/ /\ g.state = "CompletingRebalance" /\ h.state = "PreparingRebalance"
                     /\ h.generation = g.generation + 1
<1> DEFINE h == Reopened(g, id, offer)
<1>1. CASE ~(g.state = "CompletingRebalance" /\ Changed(g, id, offer))
  BY <1>1, Zenon DEF Reopened, Changed
<1>2. CASE g.state = "CompletingRebalance" /\ Changed(g, id, offer)
  <2>1. h = [g EXCEPT !.state = "PreparingRebalance", !.generation = g.generation + 1,
                      !.overdue = FALSE, !.assignments = <<>>, !.awaiting = <<>>]
    BY <1>2, Zenon DEF Reopened, StartRound, GroupType
  <2>2. /\ <<>> \in Maps(S, Offers) /\ <<>> \in Maps(S, SUBSET Partitions)
        /\ g.generation + 1 \in Nat
    <3>1. /\ g.awaiting \in Maps(S, Offers) /\ g.assignments \in Maps(S, SUBSET Partitions)
          /\ g.generation \in Nat
      BY Zenon DEF GroupType
    <3> QED BY <3>1, MapsClosed
  <2> HIDE DEF h
  <2>3. GroupType(h, S)
    BY <2>1, <2>2, Zenon DEF GroupType, States
  <2>4. /\ h.members = g.members /\ h.leader = g.leader
        /\ h.state = "PreparingRebalance" /\ h.generation = g.generation + 1
    BY <2>1, Zenon DEF GroupType
  <2> QED BY <2>3, <2>4, <1>2, Zenon DEF h
<1> QED BY <1>1, <1>2, Zenon

(* JoinGroup past its checks: the consumer is a member under that id, the  *)
(* others are as they were, and the group has moved on, unless it rejoined *)
(* a round that is being completed.                                        *)
LEMMA JoinedOK ==
    ASSUME NEW S, NEW W, NEW g, NEW id, NEW c, Joinable(g, S, W, id, c),
           NEW offer \in Offers, NEW h \in Joined(g, id, c, offer)
    PROVE  /\ GroupOK(h, S, W)
           /\ DOMAIN h.members = DOMAIN g.members \cup {id}
           /\ h.members[id].name = client[c].name /\ h.members[id].static = client[c].static
           /\ \A m \in DOMAIN g.members : m # id => h.members[m] = g.members[m]
           /\ MovesOn(g, h) \/ (g.state = "CompletingRebalance" /\ SameRound(g, h))
<1> DEFINE v == [name |-> client[c].name, offer |-> offer,
                 late |-> FALSE, static |-> client[c].static]
           g1 == Reopened(g, id, offer)
           g2 == [g1 EXCEPT !.members = Put(@, id, v), !.awaiting = Put(@, id, offer)]
           g3 == IF g2.state \in {"Empty", "Stable"}
                 THEN [StartRound(g2) EXCEPT !.initial = g2.initial \/ g2.state = "Empty"]
                 ELSE g2
           g4 == [g3 EXCEPT !.leader = IF @ \in DOMAIN g3.members THEN @ ELSE id]
<1>1. PICK k \in TryComplete(g4) :
          h = IF k.protocol = NoProtocol /\ k.state = "CompletingRebalance"
              THEN [k EXCEPT !.protocol = offer[1]] ELSE k
  BY Zenon DEF Joined
<1>2. /\ GroupType(g, S) /\ Named(g, W) /\ Shaped(g) /\ S \subseteq Nat /\ id \in S
      /\ g.state # "Dead" /\ client[c] \in ClientRecord
      /\ <<client[c].name, client[c].static>> \in W
      /\ \A m \in DOMAIN g.members : m # id /\ g.members[m].name = client[c].name
                                       => ~g.members[m].static /\ ~client[c].static
      /\ id \in DOMAIN g.members => /\ g.members[id].name = client[c].name
                                    /\ g.members[id].static = client[c].static
  BY Zenon DEF Joinable, GroupOK, Live
<1>3. v \in Member /\ v.name = client[c].name /\ v.static = client[c].static
  BY <1>2, Zenon DEF Member, ClientRecord
<1>4. /\ GroupType(g1, S) /\ g1.members = g.members /\ g1.leader = g.leader
      /\ \/ g1 = g /\ (g.state = "CompletingRebalance" => id \in DOMAIN g.members)
         \/ /\ g.state = "CompletingRebalance" /\ g1.state = "PreparingRebalance"
            /\ g1.generation = g.generation + 1
  BY <1>2, ReopenedIs
<1> HIDE DEF v, g1
<1>5. /\ g.members \in Maps(S, Member) /\ g1.awaiting \in Maps(S, Offers)
      /\ g1.assignments \in Maps(S, SUBSET Partitions)
      /\ g.generation \in Nat /\ g1.generation \in Nat
  BY <1>2, <1>4, Zenon DEF GroupType
<1> DEFINE M == Put(g.members, id, v)
           J == Put(g1.awaiting, id, offer)
<1>6. /\ M \in Maps(S, Member) /\ DOMAIN M = DOMAIN g.members \cup {id} /\ M[id] = v
      /\ \A m \in DOMAIN g.members : m # id => M[m] = g.members[m]
  <2>1. M \in Maps(S, Member)
    BY <1>2, <1>3, <1>5, MapsClosed
  <2> QED BY <2>1, Zenon DEF Put
<1>7. J \in Maps(S, Offers) /\ DOMAIN J = DOMAIN g1.awaiting \cup {id}
  <2>1. J \in Maps(S, Offers)
    BY <1>2, <1>5, MapsClosed
  <2> QED BY <2>1, Zenon DEF Put
<1>8. g2 = [g1 EXCEPT !.members = M, !.awaiting = J]
  BY <1>4, Zenon DEF GroupType
<1> HIDE DEF M, J, g2
<1>9. /\ GroupType(g2, S) /\ g2.members = M /\ g2.awaiting = J /\ g2.state = g1.state
      /\ g2.generation = g1.generation /\ g2.leader = g1.leader
  BY <1>4, <1>6, <1>7, <1>8, Zenon DEF GroupType
<1>10. /\ GroupType(g3, S) /\ g3.members = M /\ g3.awaiting = J /\ g3.leader = g1.leader
       /\ \/ g3 = g2 /\ g1.state \notin {"Empty", "Stable"}
          \/ g3.state = "PreparingRebalance" /\ g3.generation = g1.generation + 1
  <2>1. CASE g2.state \notin {"Empty", "Stable"}
    BY <2>1, <1>9, Zenon
  <2>2. CASE g2.state \in {"Empty", "Stable"}
    <3> DEFINE i == g2.initial \/ g2.state = "Empty"
    <3>1. g3 = [g2 EXCEPT !.state = "PreparingRebalance", !.generation = g2.generation + 1,
                          !.overdue = FALSE, !.assignments = <<>>, !.initial = i]
      BY <2>2, <1>9, Zenon DEF StartRound, GroupType
    <3>2. g2.generation + 1 \in Nat /\ <<>> \in Maps(S, SUBSET Partitions) /\ i \in BOOLEAN
      BY <1>5, <1>9, MapsClosed
    <3> HIDE DEF g3, i
    <3>3. GroupType(g3, S)
      BY <3>1, <3>2, <1>9, Zenon DEF GroupType, States
    <3>4. /\ g3.members = g2.members /\ g3.awaiting = g2.awaiting /\ g3.leader = g2.leader
          /\ g3.state = "PreparingRebalance" /\ g3.generation = g2.generation + 1
      BY <3>1, <1>9, Zenon DEF GroupType
    <3> QED BY <3>3, <3>4, <1>9, Zenon
  <2> QED BY <2>1, <2>2, Zenon
<1> HIDE DEF g3
<1>11. /\ GroupType(g4, S) /\ g4.members = M /\ g4.awaiting = J
       /\ g4.state = g3.state /\ g4.generation = g3.generation
       /\ g4.leader = IF g1.leader \in DOMAIN M THEN g1.leader ELSE id
  <2> DEFINE l == IF g3.leader \in DOMAIN g3.members THEN g3.leader ELSE id
  <2>1. g4 = [g3 EXCEPT !.leader = l]
    BY <1>10, Zenon DEF GroupType
  <2>2. l \in Nat
    BY <1>2, <1>10, Zenon DEF GroupType
  <2> HIDE DEF l, g4
  <2>3. GroupType(g4, S)
    BY <2>1, <2>2, <1>10, Zenon DEF GroupType
  <2>4. /\ g4.members = g3.members /\ g4.awaiting = g3.awaiting
        /\ g4.state = g3.state /\ g4.generation = g3.generation /\ g4.leader = l
    BY <2>1, <1>10, Zenon DEF GroupType
  <2> QED BY <2>3, <2>4, <1>10, Zenon DEF l
<1> HIDE DEF g4
<1>12. Named(g4, W)
  BY <1>2, <1>3, <1>6, <1>11, SMTT(30) DEF Named
<1>13. g4.members # <<>>
  <2>1. id \in DOMAIN g4.members
    BY <1>6, <1>11, Zenon
  <2> QED BY <2>1
<1>14. g4.state \in {"PreparingRebalance", "CompletingRebalance"} /\ g4.generation > 0
  <2>1. g1.state \in States /\ g1.state # "Dead" /\ g1.generation \in Nat
    BY <1>2, <1>4, Zenon DEF GroupType
  <2>2. g.state \notin {"Empty", "Dead"} => g.generation > 0
    BY <1>2 DEF Shaped
  <2> QED BY <2>1, <2>2, <1>2, <1>4, <1>5, <1>9, <1>10, <1>11, SMTT(30) DEF States
<1>15. g4.state = "CompletingRebalance" =>
           /\ g4.leader \in DOMAIN g4.members /\ DOMAIN g4.awaiting = DOMAIN g4.members
           /\ SameRound(g, g4) /\ g.state = "CompletingRebalance"
  <2> SUFFICES ASSUME g4.state = "CompletingRebalance"
               PROVE  /\ g4.leader \in DOMAIN g4.members
                      /\ DOMAIN g4.awaiting = DOMAIN g4.members
                      /\ SameRound(g, g4) /\ g.state = "CompletingRebalance"
    OBVIOUS
  <2>1. g3 = g2 /\ g1 = g /\ g.state = "CompletingRebalance" /\ id \in DOMAIN g.members
    BY <1>4, <1>9, <1>10, <1>11, Zenon
  <2>2. g.leader \in DOMAIN g.members /\ DOMAIN g.awaiting = DOMAIN g.members
    BY <2>1, <1>2, Zenon DEF Shaped
  <2>3. DOMAIN M = DOMAIN g.members /\ DOMAIN J = DOMAIN g.members
    BY <2>1, <2>2, <1>6, <1>7, Zenon
  <2>4. g4.leader = g.leader /\ g4.generation = g.generation
    BY <2>1, <2>2, <2>3, <1>9, <1>11, Zenon
  <2>5. SameRound(g, g4)
    BY <2>1, <2>3, <2>4, <1>2, <1>3, <1>6, <1>11, Zenon DEF SameRound
  <2> QED BY <2>1, <2>2, <2>3, <2>4, <2>5, <1>11, Zenon
<1>16. Unsettled(g4, S, W)
  <2>1. Shaped(g4)
    BY <1>13, <1>14, <1>15, Zenon DEF Shaped
  <2> QED BY <2>1, <1>2, <1>11, <1>12, <1>14, Zenon DEF Unsettled
<1>17. /\ GroupOK(k, S, W) /\ k.members = g4.members /\ k.generation = g4.generation
       /\ k = g4 \/ (g4.state = "PreparingRebalance" /\ k.state = "CompletingRebalance")
  BY <1>16, <1>1, CompletedOK
<1>18. /\ GroupOK(h, S, W) /\ h.members = k.members /\ h.generation = k.generation
       /\ h.state = k.state /\ h.leader = k.leader
  BY <1>1, <1>17, ProtocolOK
<1>19. MovesOn(g, h) \/ (g.state = "CompletingRebalance" /\ SameRound(g, h))
  <2>1. CASE g4.state = "CompletingRebalance"
    <3>1. k = g4
      BY <2>1, <1>17, Zenon
    <3> QED BY <3>1, <2>1, <1>15, <1>18, Zenon DEF SameRound
  <2>2. CASE g4.state = "PreparingRebalance"
    <3>1. h.state # "Stable" /\ h.generation = g4.generation
      BY <2>2, <1>17, <1>18, Zenon
    <3>2. g4.generation > g.generation \/ (g4.generation = g.generation /\ g.state = "PreparingRebalance")
      BY <2>2, <1>4, <1>5, <1>9, <1>10, <1>11, SMTT(30)
    <3> QED BY <3>1, <3>2, Zenon DEF MovesOn
  <2> QED BY <2>1, <2>2, <1>14, Zenon
<1> QED BY <1>3, <1>6, <1>11, <1>17, <1>18, <1>19

(* A consumer that the joining member is not fits the group after it. *)
LEMMA JoinedFits ==
    ASSUME NEW S, NEW W, NEW g, NEW id, NEW c, Joinable(g, S, W, id, c),
           NEW offer \in Offers, NEW h \in Joined(g, id, c, offer),
           NEW r \in ClientRecord, NEW offsets, Fits(r, g, offsets), r.id # id
    PROVE  Fits(r, h, offsets)
<1>1. /\ GroupOK(h, S, W)
      /\ DOMAIN h.members = DOMAIN g.members \cup {id}
      /\ \A m \in DOMAIN g.members : m # id => h.members[m] = g.members[m]
      /\ MovesOn(g, h) \/ SameRound(g, h)
  BY JoinedOK, SMTT(30)
<1>2. CASE MovesOn(g, h)
  <2>1. g.generation \in Nat /\ h.generation \in Nat
    BY <1>1, Zenon DEF Joinable, GroupOK, GroupType
  <2>2. Known(r, g)
    BY Zenon DEF Fits
  <2>3. r.id \in DOMAIN h.members =>
            /\ r.id \in DOMAIN g.members
            /\ h.members[r.id].name = g.members[r.id].name
            /\ h.members[r.id].static = g.members[r.id].static
    BY <1>1, Zenon
  <2> QED BY <1>2, <2>1, <2>2, <2>3, MovedOnFits, Zenon
<1>3. CASE SameRound(g, h)
  BY <1>3, SameFits, Zenon
<1> QED BY <1>1, <1>2, <1>3, Zenon

(* Members of a consumer's name, other than its instance's, are no         *)
(* instances, and neither is it.                                           *)
LEMMA NamesakesAreDynamic ==
    ASSUME IInv, NEW S, NEW g, GroupOK(g, S, Who), NEW c \in Consumers,
           NEW m \in DOMAIN g.members, m \notin MemberForInstance(g, c),
           g.members[m].name = client[c].name
    PROVE  ~g.members[m].static /\ ~client[c].static
<1>1. PICK d \in Consumers :
          g.members[m].name = client[d].name /\ g.members[m].static = client[d].static
  BY Zenon DEF GroupOK, Named, Who
<1>2. client[d].static = client[c].static
  BY <1>1, Zenon DEF IInv, Distinct
<1>3. client[c].static \in BOOLEAN
  BY Unfold, Zenon DEF ClientRecord
<1> QED BY <1>1, <1>2, <1>3, Zenon DEF MemberForInstance

(* What holds of a group does not depend on ids given out later. *)
LEMMA GroupGrows ==
    ASSUME NEW S, NEW T, S \subseteq T, NEW W, NEW g, GroupOK(g, S, W)
    PROVE  GroupOK(g, T, W)
<1>1. /\ g.members \in Maps(T, Member) /\ g.awaiting \in Maps(T, Offers)
      /\ g.assignments \in Maps(T, SUBSET Partitions)
  BY MapsGrow, Zenon DEF GroupOK, GroupType
<1>2. GroupType(g, T)
  BY <1>1, Zenon DEF GroupOK, GroupType
<1> QED BY <1>2, Zenon DEF GroupOK

(* The group a JoinGroup finds or makes. *)
LEMMA StartGroup ==
    ASSUME IInv
    PROVE  LET g == IF Live(group) THEN group ELSE NewGroup
           IN  /\ GroupOK(g, Given, Who) /\ Live(g)
               /\ \A d \in Consumers : Fits(client[d], g, committed)
<1>1. CASE Live(group)
  BY <1>1, Unfold, Zenon
<1>2. CASE ~Live(group)
  <2> DEFINE g == NewGroup
  <2>1. GroupType(g, Given) /\ g.members = <<>> /\ g.state = "Empty"
    <3>1. <<>> \in Maps(Given, Member) /\ <<>> \in Maps(Given, Offers)
          /\ <<>> \in Maps(Given, SUBSET Partitions)
      BY EmptyMap, Zenon
    <3> QED BY <3>1, Zenon DEF NewGroup, GroupType, States, NoId
  <2> HIDE DEF g
  <2>2. GroupOK(g, Given, Who) /\ Live(g)
    BY <2>1 DEF GroupOK, Named, Shaped, Shared, Live
  <2>3. DOMAIN g.members = {}
    BY <2>1
  <2>4. \A d \in Consumers : Fits(client[d], g, committed)
    BY <2>3, EmptyFits, Zenon
  <2> QED BY <1>2, <2>2, <2>4, Zenon DEF g
<1> QED BY <1>1, <1>2, Zenon

(* A consumer gets a new id. *)
LEMMA AssembleNew ==
    ASSUME IInv, NEW c \in Consumers, nextId' = nextId + 1,
           NEW T, T = Given \cup {nextId}, NEW b, SetClient(c, b),
           Bare(b, client[c], T), b.id = nextId,
           GroupOK(group', T, Who), Fits(b, group', committed'),
           joins' \in Maps(T, {"waiting", "forcing"}),
           committed' \in [Partitions -> Int],
           faults' \in [count : Nat, kinds : SUBSET Kinds],
           \A d \in Consumers : d # c => Fits(client[d], group', committed')
    PROVE  IInv'
<1>1. /\ nextId \in Nat \ {0} /\ client \in [Consumers -> ClientRecord] /\ Given \subseteq Nat
      /\ \A d \in Consumers : client[d] \in ClientRecord /\ Reset(client[d], Given)
  BY Unfold, Zenon
<1>2. Given' = T /\ nextId \notin Given
  BY <1>1 DEF Given
<1>3. b \in ClientRecord /\ b.name = client[c].name /\ b.static = client[c].static /\ Reset(b, T)
  BY Zenon DEF Bare
<1>4. /\ client' \in [Consumers -> ClientRecord] /\ client'[c] = b
      /\ \A d \in Consumers : d # c => client'[d] = client[d]
  BY <1>1, <1>3, Zenon DEF SetClient
<1>5. \A d \in Consumers : /\ client'[d].name = client[d].name
                           /\ client'[d].static = client[d].static
  BY <1>3, <1>4, Zenon
<1>6. Who' = Who
  BY <1>5, WhoKept, Zenon
<1>7. Distinct'
  <2>1. \A d \in Consumers : client[d].id # nextId
    BY <1>1, <1>2, Zenon DEF Reset, NoId
  <2>2. Distinct
    BY Zenon DEF IInv
  <2>3. \A d, e \in Consumers : d # e /\ client'[d].id = client'[e].id => client'[d].id = NoId
    BY <1>4, <2>1, <2>2 DEF Distinct
  <2> QED BY <1>5, <2>2, <2>3 DEF Distinct
<1>8. \A d \in Consumers : Reset(client'[d], T)
  <2>1. \A d \in Consumers : d # c => Reset(client'[d], T)
    BY <1>1, <1>4 DEF Reset
  <2> QED BY <1>3, <1>4, <2>1, Zenon
<1>9. \A d \in Consumers : Fits(client'[d], group', committed')
  BY <1>4, Zenon
<1>10. Typed'
  <2>1. nextId' \in Nat \ {0}
    BY <1>1
  <2>2. GroupType(group', T)
    BY Zenon DEF GroupOK
  <2> QED BY <1>2, <1>4, <2>1, <2>2, Zenon DEF Typed, GroupType
<1>11. GroupOK(group, Given, Who)'
  BY <1>2, <1>6, Zenon DEF GroupOK, GroupType
<1> QED BY <1>2, <1>7, <1>8, <1>9, <1>10, <1>11, Zenon DEF IInv

(* The new member has joined a group that is as sound as before. *)
LEMMA NewMember ==
    ASSUME IInv, NEW c \in Consumers, NEW T, T = Given \cup {nextId}, nextId' = nextId + 1,
           NEW h, GroupOK(h, T, Who), Wait(c, nextId, h),
           h.members[nextId].name = client[c].name, h.members[nextId].static = client[c].static,
           \A d \in Consumers : d # c => Fits(client[d], h, committed),
           UNCHANGED committed, faults' \in [count : Nat, kinds : SUBSET Kinds]
    PROVE  IInv'
<1> DEFINE b == Back(client[c], "joining", nextId)
<1>1. /\ nextId \in Nat /\ client[c] \in ClientRecord /\ Given \subseteq Nat
      /\ joins \in Maps(Given, {"waiting", "forcing"}) /\ committed \in [Partitions -> Int]
  BY Unfold, Zenon
<1>2. GoesBack(client[c], "joining", nextId, T)
  BY <1>1, Zenon DEF GoesBack
<1>3. Bare(b, client[c], T) /\ b.id = nextId
  BY <1>2, BackIs
<1>4. group' = h /\ joins' = Put(joins, nextId, "waiting") /\ SetClient(c, b)
  BY Zenon DEF Wait, SetGroup
<1> HIDE DEF b
<1>5. /\ b \in ClientRecord /\ b.generation = 0
      /\ h.members[b.id].name = b.name /\ h.members[b.id].static = b.static
  BY <1>3, Zenon DEF Bare
<1>6. Fits(b, h, committed)
  BY <1>5, BackFits, Zenon
<1>7. joins' \in Maps(T, {"waiting", "forcing"})
  <2>1. joins \in Maps(T, {"waiting", "forcing"})
    BY <1>1, MapsGrow
  <2> QED BY <1>4, <2>1, MapsClosed, Zenon
<1>8. GroupOK(group', T, Who) /\ Fits(b, group', committed')
      /\ \A d \in Consumers : d # c => Fits(client[d], group', committed')
  BY <1>4, <1>6, Zenon
<1>9. committed' \in [Partitions -> Int]
  BY <1>1, Zenon
<1> QED BY <1>3, <1>4, <1>7, <1>8, <1>9, AssembleNew, Zenon
=============================================================================
