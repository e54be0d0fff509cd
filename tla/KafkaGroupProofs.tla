-------------------------- MODULE KafkaGroupProofs --------------------------
(***************************************************************************)
(* Proofs about consumer groups (module KafkaGroup): as long as no handler *)
(* completes a round because its time is over, every consumer that got     *)
(* through a round was assigned to, the partitions of a stable group are   *)
(* all consumed, and committed offsets do not go back.                     *)
(***************************************************************************)
EXTENDS KafkaGroupLemmas, FiniteSetTheorems

(* JoinGroup with a member id: refused, or the member joins the round. *)
LEMMA JoinAgainKeeps ==
    ASSUME IInv, NEW c \in Consumers, client[c].pc \in {"out", "rejoin"},
           client[c].id # NoId, NEW g, GroupOK(g, Given, Who), Live(g),
           \A d \in Consumers : Fits(client[d], g, committed),
           JoinAgain(c, g), UNCHANGED committed
    PROVE  IInv'
<1> DEFINE r == client[c]
           id == client[c].id
           waiting == IF id \in DOMAIN g.members THEN g.pending ELSE g.pending \ {id}
           known == [g EXCEPT !.pending = waiting]
<1>1. /\ r \in ClientRecord /\ Reset(r, Given) /\ Given \subseteq Nat
      /\ joins \in Maps(Given, {"waiting", "forcing"}) /\ committed \in [Partitions -> Int]
      /\ faults \in [count : Nat, kinds : SUBSET Kinds]
  BY Unfold, Zenon
<1>2. UNCHANGED <<nextId, faults>>
  BY Zenon DEF JoinAgain
<1>3. CASE \E e : SetGroup(g) /\ SetClient(c, AfterError(client[c], e)) /\ UNCHANGED joins
  <2>1. PICK e : SetGroup(g) /\ SetClient(c, AfterError(client[c], e)) /\ UNCHANGED joins
    BY <1>3, Zenon
  <2>2. group' = g
    BY <2>1, Zenon DEF SetGroup
  <2>3. Sound
    BY <1>1, <1>2, <2>1, <2>2, Zenon DEF Sound
  <2>4. /\ Bare(AfterError(client[c], e), client[c], Given)
        /\ AfterError(client[c], e).id \in {client[c].id, NoId}
    BY <1>1, AfterErrorIs, Zenon
  <2>5. \A d \in Consumers : Fits(client[d], group', committed')
    BY <2>2, Zenon
  <2> QED BY <2>1, <2>3, <2>4, <2>5, BareStep, Zenon DEF Fits
<1>4. CASE /\ ~IsFencedInstance(g, c, id) /\ id \in DOMAIN g.members \cup g.pending
           /\ \E h \in Joined(known, id, c, client[c].offer) : Wait(c, id, h)
  <2>1. GroupType(g, Given) /\ waiting \in SUBSET Given /\ id \in Given
    BY <1>1, Zenon DEF GroupOK, GroupType, Reset
  <2> HIDE DEF waiting
  <2>2. /\ GroupType(known, Given) /\ known.members = g.members /\ known.state = g.state
        /\ known.generation = g.generation /\ known.leader = g.leader
        /\ known.awaiting = g.awaiting /\ known.assignments = g.assignments
    BY <2>1, Zenon DEF GroupType
  <2>3. PICK h \in Joined(known, id, c, client[c].offer) : Wait(c, id, h)
    BY <1>4, Zenon
  <2> HIDE DEF known
  <2>4. SameRound(g, known)
    BY <2>2, Zenon DEF SameRound
  <2>5. GroupOK(known, Given, Who)
    BY <2>2, <2>4, SameGroupOK, Zenon
  <2>6. \A d \in Consumers : Fits(client[d], known, committed)
    BY <2>4, SameFits, Zenon
  <2>7. Joinable(known, Given, Who, id, c)
    <3>1. <<client[c].name, client[c].static>> \in Who
      BY Zenon DEF Who
    <3>2. ASSUME NEW m \in DOMAIN known.members, m # id, known.members[m].name = client[c].name
          PROVE  ~known.members[m].static /\ ~client[c].static
      BY <1>4, <2>2, <3>2, NamesakesAreDynamic, Zenon DEF IsFencedInstance
    <3>3. id \in DOMAIN known.members => /\ known.members[id].name = client[c].name
                                         /\ known.members[id].static = client[c].static
      BY <2>6, Zenon DEF Fits, Known
    <3> QED BY <1>1, <2>1, <2>2, <2>5, <3>1, <3>2, <3>3 DEF Joinable, Live
  <2>8. client[c].offer \in Offers
    BY <1>1, Zenon DEF ClientRecord
  <2>9. /\ GroupOK(h, Given, Who)
        /\ h.members[id].name = client[c].name /\ h.members[id].static = client[c].static
    BY <2>3, <2>7, <2>8, JoinedOK
  <2>10. GoesBack(client[c], "joining", id, Given)
    BY <1>1, <2>1, Zenon DEF GoesBack
  <2>11. /\ Bare(Back(client[c], "joining", id), client[c], Given)
         /\ Back(client[c], "joining", id).id = id
         /\ Fits(Back(client[c], "joining", id), h, committed)
    <3> DEFINE b == Back(client[c], "joining", id)
    <3>1. Bare(b, client[c], Given) /\ b.id = id
      BY <2>10, BackIs, SMTT(30)
    <3> HIDE DEF b
    <3>2. /\ b \in ClientRecord /\ b.generation = 0
          /\ h.members[b.id].name = b.name /\ h.members[b.id].static = b.static
      BY <2>9, <3>1, Zenon DEF Bare
    <3>3. Fits(b, h, committed)
      BY <2>9, <3>2, BackFits, Zenon
    <3> QED BY <3>1, <3>3, Zenon DEF b
  <2>12. ASSUME NEW d \in Consumers, d # c PROVE Fits(client[d], h, committed)
    <3>1. client[d].id # id
      BY <2>12, Zenon DEF IInv, Distinct
    <3>2. client[d] \in ClientRecord
      BY Unfold
    <3> QED BY <2>3, <2>6, <2>7, <2>8, <3>1, <3>2, JoinedFits, SMTT(30)
  <2>13. /\ group' = h /\ joins' = Put(joins, id, "waiting")
         /\ SetClient(c, Back(client[c], "joining", id))
    BY <2>3, Zenon DEF Wait, SetGroup
  <2>14. joins' \in Maps(Given, {"waiting", "forcing"})
    BY <1>1, <2>1, <2>13, MapsClosed, Zenon
  <2>15. /\ Back(client[c], "joining", id) \in ClientRecord
         /\ Back(client[c], "joining", id).name = client[c].name
         /\ Back(client[c], "joining", id).static = client[c].static
         /\ Reset(Back(client[c], "joining", id), Given)
    BY <2>11, Zenon DEF Bare
  <2>16. /\ Fits(Back(client[c], "joining", id), group', committed')
         /\ \A d \in Consumers : d # c => Fits(client[d], group', committed')
    BY <2>11, <2>12, <2>13, Zenon
  <2>17. GroupOK(group', Given, Who)
    BY <2>9, <2>13, Zenon
  <2>18. committed' \in [Partitions -> Int] /\ faults' \in [count : Nat, kinds : SUBSET Kinds]
    BY <1>1, <1>2, Zenon
  <2> HIDE DEF id
  <2> QED BY <1>2, <2>11, <2>13, <2>14, <2>15, <2>16, <2>17, <2>18, AssembleOne, Zenon DEF id
<1> QED BY <1>3, <1>4, Zenon DEF JoinAgain

(****************************************************************************)
(* Places in a list of members                                              *)
(****************************************************************************)
(* A list as JoinGroup's answer has it: finite, and no id twice. *)
IsList(L) == L \subseteq Entry /\ IsFiniteSet(L) /\ \A x, y \in L : x.id = y.id => x = y

(* An assignor's order is one: of two entries one comes first. *)
LEMMA BeforeIsOrder ==
    ASSUME NEW x \in Entry, NEW y \in Entry
    PROVE  /\ ~Before(x, x)
           /\ x.id # y.id => Before(x, y) \/ Before(y, x)
           /\ \A z \in Entry : Before(x, y) /\ Before(y, z) => Before(x, z)
BY DEF Before, Entry

(* A list without an id twice is finite. *)
LEMMA ListIsFinite ==
    ASSUME NEW S, IsFiniteSet(S), NEW L, \A x \in L : x.id \in S,
           \A x, y \in L : x.id = y.id => x = y
    PROVE  IsFiniteSet(L)
<1> DEFINE f == [x \in L |-> x.id]
<1>1. f \in Injection(L, S)
  BY Zenon DEF Injection, IsInjective
<1> QED BY <1>1, FS_Injection, Zenon

(* A place is a number below the length of the list. *)
LEMMA RankType ==
    ASSUME NEW L, IsList(L), NEW x \in L
    PROVE  /\ Rank(L, x) \in 0..(Cardinality(L) - 1)
           /\ Cardinality(L) \in Nat \ {0}
<1> DEFINE B == {y \in L : Before(y, x)}
<1>1. B \in SUBSET L /\ x \notin B
  BY BeforeIsOrder, Zenon DEF IsList
<1>2. IsFiniteSet(B) /\ Cardinality(B) <= Cardinality(L) /\ Cardinality(B) # Cardinality(L)
  BY <1>1, FS_Subset, Zenon DEF IsList
<1>3. Cardinality(B) \in Nat /\ Cardinality(L) \in Nat
  BY <1>2, FS_CardinalityType, Zenon DEF IsList
<1> HIDE DEF B
<1>4. Cardinality(B) \in 0..(Cardinality(L) - 1) /\ Cardinality(L) \in Nat \ {0}
  BY <1>2, <1>3
<1> QED BY <1>4, Zenon DEF B, Rank

(* Who comes first has the lower place. *)
LEMMA RankGrows ==
    ASSUME NEW L, IsList(L), NEW x \in L, NEW y \in L, Before(x, y)
    PROVE  Rank(L, x) < Rank(L, y)
<1> DEFINE A == {z \in L : Before(z, x)}
           B == {z \in L : Before(z, y)}
<1>1. A \in SUBSET B /\ x \in B /\ x \notin A
  BY BeforeIsOrder, Zenon DEF IsList
<1>2. B \in SUBSET L
  OBVIOUS
<1>3. IsFiniteSet(B)
  BY <1>2, FS_Subset, Zenon DEF IsList
<1>4. IsFiniteSet(A) /\ Cardinality(A) <= Cardinality(B) /\ Cardinality(A) # Cardinality(B)
  BY <1>1, <1>3, FS_Subset, Zenon
<1>5. Cardinality(A) \in Nat /\ Cardinality(B) \in Nat
  BY <1>3, <1>4, FS_CardinalityType, Zenon
<1> HIDE DEF A, B
<1>6. Cardinality(A) < Cardinality(B)
  BY <1>4, <1>5
<1> QED BY <1>6, Zenon DEF A, B, Rank

(* No two members have the same place, so no two the same partition. *)
LEMMA SharesDisjoint ==
    ASSUME NEW L, IsList(L), NEW x \in L, NEW y \in L, x.id # y.id
    PROVE  Share(L, x) \cap Share(L, y) = {}
<1>1. Before(x, y) \/ Before(y, x)
  BY BeforeIsOrder, Zenon DEF IsList
<1>2. Rank(L, x) # Rank(L, y)
  BY <1>1, RankGrows, RankType
<1> QED BY <1>2, Zenon DEF Share

(* Every place is somebody's. *)
LEMMA RankOnto ==
    ASSUME NEW L, IsList(L), NEW k \in 0..(Cardinality(L) - 1)
    PROVE  \E x \in L : Rank(L, x) = k
<1> DEFINE n == Cardinality(L)
           f == [x \in L |-> Rank(L, x)]
<1>1. n \in Nat
  BY FS_CardinalityType, Zenon DEF IsList
<1>2. f \in [L -> 0..(n - 1)]
  BY RankType, Zenon
<1>3. \A x, y \in L : f[x] = f[y] => x = y
  <2> SUFFICES ASSUME NEW x \in L, NEW y \in L, x # y PROVE Rank(L, x) # Rank(L, y)
    OBVIOUS
  <2>1. Before(x, y) \/ Before(y, x)
    BY BeforeIsOrder, Zenon DEF IsList
  <2> QED BY <2>1, RankGrows, RankType
<1>4. f \in Injection(L, 0..(n - 1))
  BY <1>2, <1>3, Zenon DEF Injection, IsInjective
<1>5. IsFiniteSet(0..(n - 1)) /\ Cardinality(0..(n - 1)) = n
  BY <1>1, FS_Interval
<1>6. f \in Surjection(L, 0..(n - 1))
  BY <1>4, <1>5, FS_Injection, Zenon
<1> QED BY <1>6, Zenon DEF Surjection

(* The members make a list. *)
LEMMA RosterIsList ==
    ASSUME NEW S, S \subseteq Nat, IsFiniteSet(S), NEW g, g.members \in Maps(S, Member)
    PROVE  /\ IsList(Roster(g))
           /\ \A m \in DOMAIN g.members : EntryOf(g, m) \in Roster(g)
<1> DEFINE L == Roster(g)
<1>1. DOMAIN g.members \subseteq S /\ \A m \in DOMAIN g.members : g.members[m] \in Member
  BY MapsAre, Zenon
<1>2. L \subseteq Entry
  <2>1. \A m \in DOMAIN g.members : m \in Nat /\ g.members[m].name \in Nat
    BY <1>1, Zenon DEF Member
  <2> QED BY <2>1 DEF Roster, EntryOf, Entry
<1>3. \A x, y \in L : x.id = y.id => x = y
  BY DEF Roster, EntryOf
<1>4. \A x \in L : x.id \in S
  BY <1>1 DEF Roster, EntryOf
<1>5. IsFiniteSet(L)
  BY <1>3, <1>4, ListIsFinite, Zenon
<1> QED BY <1>2, <1>3, <1>5, Zenon DEF IsList, Roster

(* Only so many ids have been given out. *)
LEMMA GivenIsFinite ==
    ASSUME IInv
    PROVE  IsFiniteSet(Given)
<1>1. nextId \in Nat
  BY Unfold, Zenon
<1>2. IsFiniteSet(1..(nextId - 1))
  BY <1>1, FS_Interval
<1> QED BY <1>2, Zenon DEF Given

(****************************************************************************)
(* The commit of a member                                                   *)
(****************************************************************************)
(* Two consumers of the generation do not work on the same partition. *)
LEMMA NoneElse ==
    ASSUME IInv, NEW c \in Consumers, NEW d \in Consumers, c # d,
           Current(client[c], group), Current(client[d], group), NEW p \in Partitions,
           client[c].position[p] # -1
    PROVE  client[d].position[p] = -1
<1> SUFFICES ASSUME client[d].position[p] # -1 PROVE FALSE
  OBVIOUS
<1>1. /\ Reset(client[c], Given) /\ Reset(client[d], Given)
      /\ Fits(client[c], group, committed) /\ Fits(client[d], group, committed)
  BY Unfold, Zenon
<1>2. p \in client[c].assigned /\ p \in client[d].assigned
  BY <1>1, Zenon DEF Reset
<1>3. client[c].pc = "running" /\ client[d].pc = "running"
  BY <1>1, <1>2, Zenon DEF Reset
<1>4. /\ p \in Share(Roster(group), EntryOf(group, client[c].id))
      /\ p \in Share(Roster(group), EntryOf(group, client[d].id))
  BY <1>1, <1>2, <1>3, Zenon DEF Fits, Working
<1>5. /\ client[c].id \in DOMAIN group.members /\ client[d].id \in DOMAIN group.members
      /\ group.members \in Maps(Given, Member)
  BY Unfold, Zenon DEF Current, GroupOK, GroupType
<1>6. client[c].id # client[d].id
  <2>1. client[c].id # NoId
    BY <1>5, MapsAre, Unfold
  <2> QED BY <2>1, Zenon DEF IInv, Distinct
<1>7. /\ IsList(Roster(group)) /\ EntryOf(group, client[c].id) \in Roster(group)
      /\ EntryOf(group, client[d].id) \in Roster(group)
  BY <1>5, Unfold, GivenIsFinite, RosterIsList, Zenon
<1>8. EntryOf(group, client[c].id).id # EntryOf(group, client[d].id).id
  BY <1>6, Zenon DEF EntryOf
<1> QED BY <1>4, <1>7, <1>8, SharesDisjoint, Zenon

(* A commit that is accepted comes from a member of the generation. *)
LEMMA AcceptedIsCurrent ==
    ASSUME NEW g, NEW c, NEW id, NEW generation, CommitRefusal(g, c, id, generation) = 0
    PROVE  id \in DOMAIN g.members /\ generation = g.generation
BY DEF CommitRefusal

(* OffsetCommit, refused or stored. *)
LEMMA OffsetCommitKeeps ==
    ASSUME IInv, NEW c \in Consumers, NEW p \in Partitions, OffsetCommit(c, p)
    PROVE  IInv'
<1> DEFINE r == client[c]
<1>1. UNCHANGED <<group, joins, nextId, faults>>
  BY Zenon DEF OffsetCommit
<1>2. CASE \E e : SetClient(c, AfterError(client[c], e)) /\ UNCHANGED committed
  BY <1>1, <1>2, RefusedStep, Zenon
<1>3. CASE /\ CommitRefusal(group, c, r.id, r.generation) = 0 /\ r.position[p] # -1
           /\ committed' = [committed EXCEPT ![p] = r.position[p]] /\ UNCHANGED client
  <2>1. Current(r, group)
    BY <1>3, AcceptedIsCurrent, Zenon DEF Current
  <2>2. committed \in [Partitions -> Int] /\ r.position \in [Partitions -> Nat \cup {-1}]
    BY Unfold, Zenon DEF ClientRecord
  <2>3. /\ committed' \in [Partitions -> Int] /\ committed'[p] = r.position[p]
        /\ \A q \in Partitions : q # p => committed'[q] = committed[q]
    BY <1>3, <2>2
  <2>4. Sound
    BY <1>1, <2>3, Unfold, Zenon DEF Sound
  <2>5. ASSUME NEW d \in Consumers PROVE Fits(client[d], group', committed')
    <3>1. Fits(client[d], group, committed)
      BY Unfold, Zenon
    <3>2. Current(client[d], group) /\ d # c => client[d].position[p] = -1
      BY <1>3, <2>1, NoneElse, Zenon
    <3>3. Ahead(client[d], group, committed')
      BY <2>2, <2>3, <3>1, <3>2 DEF Fits, Ahead
    <3> QED BY <1>1, <3>1, <3>3 DEF Fits
  <2> QED BY <1>3, <2>4, <2>5, GroupStep, Zenon
<1> QED BY <1>2, <1>3, Zenon DEF OffsetCommit

(****************************************************************************)
(* A leader's assignment                                                    *)
(****************************************************************************)
(* The assignor gives each member of its list the share of its place. *)
LEMMA AssignmentIs ==
    ASSUME NEW L, IsList(L)
    PROVE  /\ DOMAIN Assignment(L) = {x.id : x \in L}
           /\ Assignment(L) = [m \in DOMAIN Assignment(L) |-> Assignment(L)[m]]
           /\ \A x \in L : Assignment(L)[x.id] = Share(L, x)
<1>1. DOMAIN Assignment(L) = {x.id : x \in L}
  BY Zenon DEF Assignment
<1>2. Assignment(L) = [m \in DOMAIN Assignment(L) |-> Assignment(L)[m]]
  BY Zenon DEF Assignment
<1>3. ASSUME NEW x \in L PROVE Assignment(L)[x.id] = Share(L, x)
  <2>1. (CHOOSE m \in L : m.id = x.id) = x
    BY DEF IsList
  <2> QED BY <2>1, Zenon DEF Assignment, Share, Rank, Before
<1> QED BY <1>1, <1>2, <1>3, Zenon

(* A SyncGroup that may be stored: its list gives the members their places *)
(* and, while the round is being completed, lists them all.                *)
Syncable(g, S, W, L) ==
    /\ S \subseteq Nat /\ IsFiniteSet(S) /\ GroupOK(g, S, W)
    /\ g.state \in {"CompletingRebalance", "Stable"}
    /\ IsList(L) /\ \A x \in L : x.id \in S
    /\ L # {} => Alike(L, g)
    /\ g.state = "CompletingRebalance" => L = Roster(g)

(* The places on an alike list are worth the same shares. *)
LEMMA AlikeShares ==
    ASSUME NEW L, NEW g, Alike(L, g), NEW x \in L, x.id \in DOMAIN g.members
    PROVE  x = EntryOf(g, x.id) /\ Share(L, x) = Share(Roster(g), x)
BY Zenon DEF Alike, Share

(* The assignments a leader sends. *)
Sent(L) == IF L = {} THEN <<>> ELSE Assignment(L)

(* What is sent is a map that gives each listed member its share. *)
LEMMA SentIs ==
    ASSUME NEW S, NEW L, IsList(L), \A x \in L : x.id \in S
    PROVE  /\ Sent(L) \in Maps(S, SUBSET Partitions)
           /\ DOMAIN Sent(L) = {x.id : x \in L}
           /\ \A x \in L : Sent(L)[x.id] = Share(L, x)
<1>1. CASE L = {}
  <2>1. Sent(L) = <<>> /\ DOMAIN <<>> = {}
    BY <1>1 DEF Sent
  <2>2. <<>> \in [{} -> SUBSET Partitions]
    OBVIOUS
  <2>3. <<>> \in Maps(S, SUBSET Partitions)
    BY <2>2, Zenon DEF Maps
  <2> QED BY <1>1, <2>1, <2>3
<1>2. CASE L # {}
  <2>1. Sent(L) = Assignment(L)
    BY <1>2 DEF Sent
  <2>2. /\ DOMAIN Assignment(L) = {x.id : x \in L}
        /\ Assignment(L) = [m \in DOMAIN Assignment(L) |-> Assignment(L)[m]]
        /\ \A x \in L : Assignment(L)[x.id] = Share(L, x)
    BY AssignmentIs, Zenon
  <2>3. \A m \in DOMAIN Assignment(L) : Assignment(L)[m] \in SUBSET Partitions
    BY <2>2, Zenon DEF Share
  <2>4. Assignment(L) \in Maps(S, SUBSET Partitions)
    BY <2>2, <2>3, MapsAre
  <2> QED BY <2>1, <2>2, <2>4, Zenon
<1> QED BY <1>1, <1>2, Zenon

(* What a leader's SyncGroup stores: every member has its share. *)
LEMMA SyncedOK ==
    ASSUME NEW S, NEW W, NEW g, NEW L, Syncable(g, S, W, L), NEW id
    PROVE  LET h == Synced(g, id, Sent(L))
           IN  /\ GroupOK(h, S, W)
               /\ h.members = g.members /\ h.generation = g.generation
               /\ h.leader = g.leader /\ h.state = "Stable"
<1> DEFINE h == Synced(g, id, Sent(L))
           A == Merged(Sent(L), g.assignments)
<1>1. /\ GroupType(g, S) /\ Named(g, W) /\ Shaped(g) /\ Shared(g)
      /\ S \subseteq Nat /\ IsFiniteSet(S) /\ IsList(L) /\ \A x \in L : x.id \in S
      /\ g.state \in {"CompletingRebalance", "Stable"}
      /\ L # {} => Alike(L, g)
      /\ g.state = "CompletingRebalance" => L = Roster(g)
  BY Zenon DEF Syncable, GroupOK
<1>2. /\ Sent(L) \in Maps(S, SUBSET Partitions)
      /\ DOMAIN Sent(L) = {x.id : x \in L}
      /\ \A x \in L : Sent(L)[x.id] = Share(L, x)
  BY <1>1, SentIs
<1>3. /\ g.assignments \in Maps(S, SUBSET Partitions) /\ g.awaiting \in Maps(S, Offers)
      /\ g.members \in Maps(S, Member)
  BY <1>1, Zenon DEF GroupType
<1>4. /\ A \in Maps(S, SUBSET Partitions)
      /\ DOMAIN A = DOMAIN Sent(L) \cup DOMAIN g.assignments
      /\ \A m \in DOMAIN Sent(L) : A[m] = Sent(L)[m]
      /\ \A m \in DOMAIN g.assignments : m \notin DOMAIN Sent(L) => A[m] = g.assignments[m]
  <2>1. A \in Maps(S, SUBSET Partitions)
    BY <1>2, <1>3, MapsClosed, Zenon
  <2> QED BY <2>1 DEF Merged
<1>5. CASE Sent(L) # <<>> \/ g.leader = id
  <2>1. h = [g EXCEPT !.assignments = A, !.state = "Stable", !.awaiting = <<>>]
    BY <1>1, <1>5 DEF Synced, GroupType
  <2>2. <<>> \in Maps(S, Offers)
    BY <1>3, MapsClosed, Zenon
  <2> HIDE DEF A, h
  <2>3. GroupType(h, S)
    BY <2>1, <2>2, <1>1, <1>4, Zenon DEF GroupType, States
  <2>4. /\ h.members = g.members /\ h.generation = g.generation /\ h.leader = g.leader
        /\ h.state = "Stable" /\ h.assignments = A /\ h.awaiting = <<>>
    BY <2>1, <1>1 DEF GroupType
  <2>5. Named(h, W)
    BY <2>4, <1>1, Zenon DEF Named
  <2>6. Shaped(h)
    BY <2>4, <1>1, Zenon DEF Shaped
  <2>7. Shared(h)
    <3> SUFFICES ASSUME NEW m \in DOMAIN g.members
                 PROVE  m \in DOMAIN A /\ A[m] = Share(Roster(g), EntryOf(g, m))
      BY <2>4, Zenon DEF Shared, Roster, EntryOf
    <3>1. CASE m \in DOMAIN Sent(L)
      <4>1. PICK x \in L : x.id = m
        BY <3>1, <1>2
      <4>2. Alike(L, g)
        BY <4>1, <1>1, Zenon
      <4>3. x = EntryOf(g, m) /\ Share(L, x) = Share(Roster(g), x)
        BY <4>1, <4>2, AlikeShares, Zenon
      <4>4. A[m] = Share(L, x) /\ m \in DOMAIN A
        BY <3>1, <4>1, <1>2, <1>4
      <4> QED BY <4>3, <4>4, Zenon
    <3>2. CASE m \notin DOMAIN Sent(L)
      <4>1. g.state = "Stable"
        <5>1. SUFFICES ASSUME L = Roster(g) PROVE FALSE
          BY <1>1
        <5>2. EntryOf(g, m) \in L /\ EntryOf(g, m).id = m
          BY <5>1 DEF Roster, EntryOf
        <5> QED BY <5>2, <3>2, <1>2, Zenon
      <4>2. m \in DOMAIN g.assignments /\ g.assignments[m] = Share(Roster(g), EntryOf(g, m))
        BY <4>1, <1>1, Zenon DEF Shared
      <4> QED BY <4>2, <3>2, <1>4, Zenon
    <3> QED BY <3>1, <3>2
  <2> QED BY <2>3, <2>4, <2>5, <2>6, <2>7, Zenon DEF GroupOK, h
<1>6. CASE ~(Sent(L) # <<>> \/ g.leader = id)
  <2>1. h = g
    BY <1>6, Zenon DEF Synced
  <2>2. g.state = "Stable"
    <3>1. SUFFICES ASSUME L = Roster(g), g.state = "CompletingRebalance" PROVE FALSE
      BY <1>1, Zenon
    <3>2. g.leader \in DOMAIN g.members
      BY <3>1, <1>1, Zenon DEF Shaped
    <3>3. EntryOf(g, g.leader) \in L
      BY <3>1, <3>2 DEF Roster
    <3>4. DOMAIN Sent(L) # {}
      BY <3>3, <1>2, Zenon
    <3> QED BY <3>4, <1>6
  <2>3. GroupOK(g, S, W)
    BY Zenon DEF Syncable
  <2> QED BY <2>1, <2>2, <2>3
<1> QED BY <1>5, <1>6, Zenon

(* The other consumers fit the group that has become stable. *)
LEMMA SyncedFits ==
    ASSUME NEW r, NEW g, NEW h, NEW offsets, Fits(r, g, offsets),
           h.members = g.members, h.generation = g.generation, h.leader = g.leader,
           h.state = "Stable", g.state # "PreparingRebalance"
    PROVE  Fits(r, h, offsets)
<1>1. Roster(h) = Roster(g) /\ \A m \in DOMAIN g.members : EntryOf(h, m) = EntryOf(g, m)
  BY SameRoster, Zenon
<1>2. Known(r, h)
  BY Zenon DEF Fits, Known
<1>3. Current(r, h) <=> Current(r, g)
  BY Zenon DEF Current
<1>4. \A L : Alike(L, g) => Alike(L, h)
  BY <1>1, Zenon DEF Alike
<1>5. Listed(r, h)
  BY <1>3, <1>4, Zenon DEF Fits, Listed
<1>6. Working(r, h)
  BY <1>1, <1>3, Zenon DEF Fits, Working, Current
<1>7. Ahead(r, h, offsets)
  BY <1>3, Zenon DEF Fits, Ahead
<1> QED BY <1>2, <1>5, <1>6, <1>7 DEF Fits

(* A SyncGroup that is not refused comes from a member of the generation,  *)
(* and of no round that is being prepared.                                 *)
LEMMA UnrefusedIsCurrent ==
    ASSUME NEW g, NEW c, NEW id, NEW generation, Refusal(g, c, id, generation) = 0
    PROVE  /\ id \in DOMAIN g.members /\ generation = g.generation
           /\ g.state # "PreparingRebalance"
BY DEF Refusal

(* SyncGroup, refused or answered with the assignment. *)
LEMMA SyncGroupKeeps ==
    ASSUME IInv, NEW c \in Consumers, SyncGroup(c)
    PROVE  IInv'
<1> DEFINE r == client[c]
           g == Synced(group, r.id, Sent(r.list))
           mine == IF r.id \in DOMAIN g.assignments THEN g.assignments[r.id] ELSE {}
           b == [r EXCEPT !.pc = "running", !.list = {}, !.assigned = mine]
<1>1. UNCHANGED <<joins, committed, nextId, faults>> /\ r.pc = "handling"
  BY Zenon DEF SyncGroup
<1>2. CASE \E e : SetClient(c, AfterError(client[c], e)) /\ UNCHANGED <<group, fresh>>
  BY <1>1, <1>2, RefusedStep, Zenon
<1>3. CASE Refusal(group, c, r.id, r.generation) = 0 /\ SetGroup(g) /\ SetClient(c, b)
  <2>1. Current(r, group) /\ group.state # "PreparingRebalance"
    BY <1>3, UnrefusedIsCurrent, Zenon DEF Current
  <2>2. /\ r \in ClientRecord /\ Reset(r, Given) /\ Fits(r, group, committed)
        /\ GroupOK(group, Given, Who) /\ Given \subseteq Nat /\ IsFiniteSet(Given)
    BY Unfold, GivenIsFinite, Zenon
  <2>3. group.state \in {"CompletingRebalance", "Stable"}
    <3>1. group.members # <<>> /\ group.state \in States
      BY <2>1, <2>2 DEF Current, GroupOK, GroupType
    <3> QED BY <2>1, <2>2, <3>1, Zenon DEF GroupOK, Shaped, States
  <2>4. /\ r.list # {} => Alike(r.list, group)
        /\ group.state = "CompletingRebalance" => r.list = Roster(group)
    BY <1>1, <2>1, <2>2, Zenon DEF Fits, Listed
  <2>5. IsList(r.list) /\ \A x \in r.list : x.id \in Given
    <3>1. r.list \subseteq Entry /\ \A x \in r.list : x.id \in Given
      BY <2>2, Zenon DEF Reset, ClientRecord
    <3>2. \A x, y \in r.list : x.id = y.id => x = y
      BY <2>4, Zenon DEF Alike
    <3> QED BY <2>2, <3>1, <3>2, ListIsFinite, Zenon DEF IsList
  <2>6. Syncable(group, Given, Who, r.list)
    BY <2>2, <2>3, <2>4, <2>5 DEF Syncable
  <2>7. /\ GroupOK(g, Given, Who)
        /\ g.members = group.members /\ g.generation = group.generation
        /\ g.leader = group.leader /\ g.state = "Stable"
    BY <2>6, SyncedOK
  <2>8. group' = g
    BY <1>3, Zenon DEF SetGroup
  <2>9. SetClient(c, b)
    BY <1>3, Zenon
  <2> HIDE DEF g
  <2>10. mine = Share(Roster(g), EntryOf(g, r.id))
    BY <2>1, <2>7, Zenon DEF GroupOK, Shared, Current
  <2>11. mine \in SUBSET Partitions
    BY <2>10, Zenon DEF Share
  <2> HIDE DEF mine
  <2>12. /\ b \in ClientRecord /\ b.position = r.position /\ b.pc = "running" /\ b.id = r.id
         /\ b.name = r.name /\ b.static = r.static /\ b.generation = r.generation
         /\ b.list = {} /\ b.assigned = mine
    BY <2>2, <2>11, Zenon DEF ClientRecord, Pcs
  <2> HIDE DEF b
  <2>13. \A p \in Partitions : r.position[p] = -1
    BY <1>1, <2>2, Zenon DEF Reset
  <2>14. Reset(b, Given)
    BY <2>2, <2>12, <2>13, Zenon DEF Reset
  <2>15. Fits(b, g, committed)
    <3>1. Known(b, g)
      BY <2>2, <2>7, <2>12, Zenon DEF Fits, Known
    <3>2. Listed(b, g) /\ Working(b, g) /\ Ahead(b, g, committed)
      BY <2>7, <2>10, <2>12, <2>13 DEF Listed, Working, Ahead
    <3> QED BY <3>1, <3>2, Zenon DEF Fits
  <2>16. \A d \in Consumers : Fits(client[d], g, committed)
    BY <2>1, <2>7, Unfold, SyncedFits, Zenon
  <2>17. GroupOK(group', Given, Who) /\ nextId' = nextId
    BY <1>1, <2>7, <2>8, Zenon
  <2>18. /\ joins' \in Maps(Given, {"waiting", "forcing"})
         /\ committed' \in [Partitions -> Int]
         /\ faults' \in [count : Nat, kinds : SUBSET Kinds]
    BY <1>1, Unfold
  <2>19. Fits(b, group', committed') /\ \A d \in Consumers : Fits(client[d], group', committed')
    BY <1>1, <2>8, <2>15, <2>16
  <2> QED BY <2>9, <2>12, <2>14, <2>17, <2>18, <2>19, AssembleOne
<1> QED
  <2>1. CASE Refusal(group, c, r.id, r.generation) # 0
    BY <1>2, <2>1, Zenon DEF SyncGroup
  <2>2. CASE Refusal(group, c, r.id, r.generation) = 0
    BY <1>3, <2>2 DEF SyncGroup, Sent
  <2> QED BY <2>1, <2>2, Zenon

(****************************************************************************)
(* A new instance takes over                                                *)
(****************************************************************************)
(* One entry takes the place of another in a set: as many as before. *)
LEMMA SwapCardinality ==
    ASSUME NEW B, IsFiniteSet(B), NEW o \in B, NEW w, w \notin B
    PROVE  Cardinality((B \ {o}) \cup {w}) = Cardinality(B)
<1>1. IsFiniteSet(B \ {o}) /\ Cardinality(B \ {o}) = Cardinality(B) - 1
  BY FS_RemoveElement, Zenon
<1>2. Cardinality((B \ {o}) \cup {w}) = Cardinality(B \ {o}) + 1
  BY <1>1, FS_AddElement, Zenon
<1>3. Cardinality(B) \in Nat
  BY FS_CardinalityType
<1> QED BY <1>1, <1>2, <1>3

(* In h, new has the name old has in g; no other member has it. *)
TakesOver(S, g, h, old, new) ==
    /\ S \subseteq Nat /\ IsFiniteSet(S)
    /\ g.members \in Maps(S, Member) /\ h.members \in Maps(S, Member)
    /\ old \in DOMAIN g.members /\ new \notin DOMAIN g.members
    /\ DOMAIN h.members = (DOMAIN g.members \ {old}) \cup {new}
    /\ h.members[new].name = g.members[old].name
    /\ \A m \in DOMAIN g.members : m # old => /\ h.members[m].name = g.members[m].name
                                              /\ g.members[m].name # g.members[old].name

(* A static member's new instance has the place of the old one, and the    *)
(* others keep theirs.                                                     *)
LEMMA TakeoverKeepsPlaces ==
    ASSUME NEW S, NEW g, NEW h, NEW old, NEW new, TakesOver(S, g, h, old, new)
    PROVE  /\ Cardinality(Roster(h)) = Cardinality(Roster(g))
           /\ Rank(Roster(h), EntryOf(h, new)) = Rank(Roster(g), EntryOf(g, old))
           /\ \A m \in DOMAIN g.members : m # old =>
                 /\ EntryOf(h, m) = EntryOf(g, m)
                 /\ Rank(Roster(h), EntryOf(h, m)) = Rank(Roster(g), EntryOf(g, m))
<1> DEFINE L == Roster(g)
           K == Roster(h)
           o == EntryOf(g, old)
           w == EntryOf(h, new)
<1>0. /\ S \subseteq Nat /\ IsFiniteSet(S)
      /\ g.members \in Maps(S, Member) /\ h.members \in Maps(S, Member)
      /\ old \in DOMAIN g.members /\ new \notin DOMAIN g.members
      /\ DOMAIN h.members = (DOMAIN g.members \ {old}) \cup {new}
      /\ h.members[new].name = g.members[old].name
      /\ \A m \in DOMAIN g.members : m # old => /\ h.members[m].name = g.members[m].name
                                                /\ g.members[m].name # g.members[old].name
  BY Zenon DEF TakesOver
<1>1. IsList(L) /\ IsList(K)
  BY <1>0, RosterIsList
<1>2. o \in L /\ w \notin L /\ w.name = o.name
  BY <1>0, Zenon DEF Roster, EntryOf
<1>3. \A m \in DOMAIN g.members : m # old => EntryOf(h, m) = EntryOf(g, m)
  BY <1>0, Zenon DEF EntryOf
<1>4. K = (L \ {o}) \cup {w}
  <2>1. L \ {o} = {EntryOf(g, m) : m \in DOMAIN g.members \ {old}}
    BY <1>0 DEF Roster, EntryOf
  <2>2. K = {EntryOf(h, m) : m \in DOMAIN g.members \ {old}} \cup {w}
    BY <1>0, Zenon DEF Roster
  <2> QED BY <2>1, <2>2, <1>3
<1>5. \A x \in L : x # o => x.name # o.name
  BY <1>0 DEF Roster, EntryOf
<1>6. Cardinality(K) = Cardinality(L)
  BY <1>1, <1>2, <1>4, SwapCardinality DEF IsList
<1>7. L \subseteq Entry /\ K \subseteq Entry
  BY <1>1, Zenon DEF IsList
<1> HIDE DEF L, K, o, w
<1>8. Rank(K, w) = Rank(L, o)
  <2>1. {y \in K : Before(y, w)} = {y \in L : Before(y, o)}
    BY <1>2, <1>4, <1>5, <1>7 DEF Before, Entry
  <2> QED BY <2>1, Zenon DEF Rank
<1>9. ASSUME NEW x \in L, x # o PROVE Rank(K, x) = Rank(L, x)
  <2> DEFINE A == {y \in L : Before(y, x)}
             B == {y \in K : Before(y, x)}
  <2>1. x.name # o.name /\ x \in Entry /\ o \in Entry /\ w \in Entry
    BY <1>2, <1>4, <1>5, <1>7, <1>9
  <2>2. Before(w, x) <=> Before(o, x)
    BY <2>1, <1>2, Zenon DEF Before, Entry
  <2>3. A \in SUBSET L
    OBVIOUS
  <2>4. IsFiniteSet(A)
    BY <2>3, <1>1, FS_Subset DEF IsList
  <2>5. CASE Before(o, x)
    <3>1. o \in A /\ w \notin A /\ B = (A \ {o}) \cup {w}
      BY <2>2, <2>5, <1>2, <1>4
    <3>2. Cardinality(B) = Cardinality(A)
      BY <3>1, <2>4, SwapCardinality
    <3> QED BY <3>2, Zenon DEF Rank
  <2>6. CASE ~Before(o, x)
    <3>1. B = A
      BY <2>2, <2>6, <1>2, <1>4, Zenon
    <3> QED BY <3>1, Zenon DEF Rank
  <2> QED BY <2>5, <2>6, Zenon
<1>10. ASSUME NEW m \in DOMAIN g.members, m # old
       PROVE  Rank(K, EntryOf(h, m)) = Rank(L, EntryOf(g, m))
  <2>1. EntryOf(g, m) \in L /\ EntryOf(g, m) # o
    BY <1>10, Zenon DEF L, o, Roster, EntryOf
  <2> QED BY <2>1, <1>3, <1>9, <1>10
<1> QED BY <1>3, <1>6, <1>8, <1>10, Zenon DEF L, K, o, w

(* A new instance takes the old member's place. *)
Replaceable(g, S, W, old, new) ==
    /\ S \subseteq Nat /\ IsFiniteSet(S) /\ GroupOK(g, S, W)
    /\ old \in DOMAIN g.members /\ g.members[old].static
    /\ new \in S
    /\ new \notin DOMAIN g.members \cup DOMAIN g.awaiting \cup DOMAIN g.assignments

(* The old member's entries in a map become the new one's. *)
LEMMA MovedIs ==
    ASSUME NEW S, NEW V, NEW f \in Maps(S, V), NEW old, NEW new \in S, new \notin DOMAIN f
    PROVE  LET h == IF old \in DOMAIN f THEN Put(Drop(f, old), new, f[old]) ELSE f
           IN  /\ h \in Maps(S, V)
               /\ old \in DOMAIN f =>
                     DOMAIN h = (DOMAIN f \ {old}) \cup {new} /\ h[new] = f[old]
               /\ old \notin DOMAIN f => h = f
               /\ \A m \in DOMAIN f : m # old => m \in DOMAIN h /\ h[m] = f[m]
<1>1. CASE old \notin DOMAIN f
  BY <1>1, Zenon
<1>2. CASE old \in DOMAIN f
  <2> DEFINE d == Drop(f, old)
             h == Put(d, new, f[old])
  <2>1. d \in Maps(S, V) /\ f[old] \in V
    BY <1>2, MapsClosed, MapsAre, Zenon
  <2>2. DOMAIN d = DOMAIN f \ {old} /\ \A m \in DOMAIN f : m # old => d[m] = f[m]
    BY DropIs
  <2> HIDE DEF d
  <2>3. h \in Maps(S, V)
    BY <2>1, MapsClosed, Zenon
  <2>4. /\ DOMAIN h = DOMAIN d \cup {new} /\ h[new] = f[old]
        /\ \A m \in DOMAIN d : m # new => h[m] = d[m]
    BY Zenon DEF Put
  <2> HIDE DEF h
  <2>5. \A m \in DOMAIN f : m # old => m \in DOMAIN h /\ h[m] = f[m]
    BY <2>2, <2>4
  <2> QED BY <1>2, <2>2, <2>3, <2>4, <2>5 DEF h, d
<1> QED BY <1>1, <1>2, Zenon

(* The takeover moves the member, its assignment, its join and its role. *)
LEMMA ReplacedIs ==
    ASSUME NEW S, NEW W, NEW g, NEW old, NEW new, Replaceable(g, S, W, old, new)
    PROVE  LET h == Replaced(g, old, new)
           IN  /\ GroupType(h, S)
               /\ h.state = g.state /\ h.generation = g.generation /\ h.pending = g.pending
               /\ h.leader = IF g.leader = old THEN new ELSE g.leader
               /\ DOMAIN h.members = (DOMAIN g.members \ {old}) \cup {new}
               /\ h.members[new].name = g.members[old].name /\ h.members[new].static
               /\ \A m \in DOMAIN g.members : m # old => h.members[m] = g.members[m]
               /\ old \in DOMAIN g.awaiting =>
                     DOMAIN h.awaiting = (DOMAIN g.awaiting \ {old}) \cup {new}
               /\ old \notin DOMAIN g.awaiting => h.awaiting = g.awaiting
               /\ old \in DOMAIN g.assignments =>
                     new \in DOMAIN h.assignments /\ h.assignments[new] = g.assignments[old]
               /\ \A m \in DOMAIN g.assignments : m # old =>
                     m \in DOMAIN h.assignments /\ h.assignments[m] = g.assignments[m]
<1> DEFINE r == [g.members[old] EXCEPT !.late = FALSE]
           M == Put(Drop(g.members, old), new, r)
           A == IF old \in DOMAIN g.assignments
                THEN Put(Drop(g.assignments, old), new, g.assignments[old])
                ELSE g.assignments
           J == IF old \in DOMAIN g.awaiting
                THEN Put(Drop(g.awaiting, old), new, g.awaiting[old]) ELSE g.awaiting
           l == IF g.leader = old THEN new ELSE g.leader
           h == Replaced(g, old, new)
<1>1. /\ GroupType(g, S) /\ old \in DOMAIN g.members /\ g.members[old].static
      /\ new \in S /\ S \subseteq Nat
      /\ new \notin DOMAIN g.members /\ new \notin DOMAIN g.awaiting
      /\ new \notin DOMAIN g.assignments
  BY DEF Replaceable, GroupOK
<1>2. /\ g.members \in Maps(S, Member) /\ g.awaiting \in Maps(S, Offers)
      /\ g.assignments \in Maps(S, SUBSET Partitions) /\ g.leader \in Nat
  BY <1>1 DEF GroupType
<1>3. g.members[old] \in Member
  BY <1>1, <1>2, MapsAre, Zenon
<1>4. r \in Member /\ r.name = g.members[old].name /\ r.static
  BY <1>1, <1>3 DEF Member
<1>5. h = [g EXCEPT !.members = M, !.assignments = A, !.awaiting = J, !.leader = l]
  BY <1>1, Zenon DEF Replaced, GroupType
<1> HIDE DEF r
<1>6. /\ A \in Maps(S, SUBSET Partitions)
      /\ old \in DOMAIN g.assignments => new \in DOMAIN A /\ A[new] = g.assignments[old]
      /\ \A m \in DOMAIN g.assignments : m # old => m \in DOMAIN A /\ A[m] = g.assignments[m]
  BY <1>1, <1>2, MovedIs
<1>7. /\ J \in Maps(S, Offers)
      /\ old \in DOMAIN g.awaiting => DOMAIN J = (DOMAIN g.awaiting \ {old}) \cup {new}
      /\ old \notin DOMAIN g.awaiting => J = g.awaiting
  BY <1>1, <1>2, MovedIs
<1>8. /\ Drop(g.members, old) \in Maps(S, Member)
      /\ DOMAIN Drop(g.members, old) = DOMAIN g.members \ {old}
      /\ \A m \in DOMAIN g.members : m # old => Drop(g.members, old)[m] = g.members[m]
  BY <1>2, DropIs, MapsClosed, Zenon
<1>9. /\ M \in Maps(S, Member) /\ DOMAIN M = (DOMAIN g.members \ {old}) \cup {new}
      /\ M[new] = r
      /\ \A m \in DOMAIN g.members : m # old => M[m] = g.members[m]
  <2> DEFINE d == Drop(g.members, old)
  <2>1. M \in Maps(S, Member)
    BY <1>1, <1>4, <1>8, MapsClosed, Zenon
  <2> HIDE DEF d
  <2>2. \A m \in DOMAIN g.members : m # old => m # new /\ m \in DOMAIN d /\ d[m] = g.members[m]
    BY <1>1, <1>8, Zenon DEF d
  <2>3. /\ DOMAIN Put(d, new, r) = DOMAIN d \cup {new} /\ Put(d, new, r)[new] = r
        /\ \A m \in DOMAIN d : m # new => Put(d, new, r)[m] = d[m]
    BY Zenon DEF Put
  <2> QED BY <1>8, <2>1, <2>2, <2>3 DEF d
<1>10. l \in Nat
  BY <1>1, <1>2, Zenon
<1> HIDE DEF M, A, J, l, h
<1>11. GroupType(h, S)
  BY <1>1, <1>5, <1>6, <1>7, <1>9, <1>10, Zenon DEF GroupType
<1>12. /\ h.state = g.state /\ h.generation = g.generation /\ h.pending = g.pending
       /\ h.leader = l /\ h.members = M /\ h.assignments = A /\ h.awaiting = J
  BY <1>1, <1>5, Zenon DEF GroupType
<1> QED BY <1>4, <1>6, <1>7, <1>9, <1>11, <1>12, Zenon DEF h, l

(* It has the name of no other member. *)
LEMMA StaticNameIsUnique ==
    ASSUME NEW S, NEW W, NEW g, NEW old, NEW new, Replaceable(g, S, W, old, new)
    PROVE  \A m \in DOMAIN g.members : m # old => g.members[m].name # g.members[old].name
BY DEF Replaceable, GroupOK, Named

(* After a takeover the group is as sound as before. *)
LEMMA ReplacedOK ==
    ASSUME NEW S, NEW W, NEW g, NEW old, NEW new, Replaceable(g, S, W, old, new)
    PROVE  GroupOK(Replaced(g, old, new), S, W)
<1> DEFINE h == Replaced(g, old, new)
<1>1. /\ GroupType(h, S) /\ h.state = g.state /\ h.generation = g.generation
      /\ h.leader = IF g.leader = old THEN new ELSE g.leader
      /\ DOMAIN h.members = (DOMAIN g.members \ {old}) \cup {new}
      /\ h.members[new].name = g.members[old].name /\ h.members[new].static
      /\ \A m \in DOMAIN g.members : m # old => h.members[m] = g.members[m]
      /\ old \in DOMAIN g.awaiting =>
            DOMAIN h.awaiting = (DOMAIN g.awaiting \ {old}) \cup {new}
      /\ old \notin DOMAIN g.awaiting => h.awaiting = g.awaiting
      /\ old \in DOMAIN g.assignments =>
            new \in DOMAIN h.assignments /\ h.assignments[new] = g.assignments[old]
      /\ \A m \in DOMAIN g.assignments : m # old =>
            m \in DOMAIN h.assignments /\ h.assignments[m] = g.assignments[m]
  BY ReplacedIs, SMTT(60)
<1> HIDE DEF h
<1>2. /\ GroupType(g, S) /\ Named(g, W) /\ Shaped(g) /\ Shared(g)
      /\ old \in DOMAIN g.members /\ g.members[old].static /\ new \notin DOMAIN g.members
      /\ S \subseteq Nat /\ IsFiniteSet(S)
  BY Zenon DEF Replaceable, GroupOK
<1>3. \A m \in DOMAIN g.members : m # old => g.members[m].name # g.members[old].name
  BY StaticNameIsUnique, Zenon
<1>4. Named(h, W)
  <2>1. \A m \in DOMAIN h.members : <<h.members[m].name, h.members[m].static>> \in W
    <3>1. g.members[old].static = h.members[new].static
      BY <1>1, <1>2 DEF GroupType, Maps, Member
    <3> QED BY <3>1, <1>1, <1>2 DEF Named
  <2>2. \A m, n \in DOMAIN h.members :
            m # n /\ h.members[m].name = h.members[n].name => ~h.members[m].static
    BY <1>1, <1>2, <1>3 DEF Named
  <2> QED BY <2>1, <2>2, Zenon DEF Named
<1>5. h.members # <<>> /\ g.members # <<>>
  <2>1. new \in DOMAIN h.members /\ old \in DOMAIN g.members
    BY <1>1, <1>2, Zenon
  <2> QED BY <2>1
<1>6. Shaped(h)
  <2>1. g.state \notin {"Empty", "Dead"} /\ g.generation > 0
    BY <1>2, <1>5, Zenon DEF Shaped
  <2>2. h.state = "CompletingRebalance" =>
            h.leader \in DOMAIN h.members /\ DOMAIN h.awaiting = DOMAIN h.members
    BY <1>1, <1>2, Zenon DEF Shaped
  <2>3. h.state = "Stable" => h.awaiting = <<>>
    <3>1. g.awaiting = <<>> => old \notin DOMAIN g.awaiting
      OBVIOUS
    <3> QED BY <3>1, <1>1, <1>2, Zenon DEF Shaped
  <2> QED BY <2>1, <2>2, <2>3, <1>1, <1>5, Zenon DEF Shaped
<1>7. Shared(h)
  <2> SUFFICES ASSUME h.state = "Stable", NEW m \in DOMAIN h.members
               PROVE  /\ m \in DOMAIN h.assignments
                      /\ h.assignments[m] = Share(Roster(h), EntryOf(h, m))
    BY Zenon DEF Shared
  <2>1. \A n \in DOMAIN g.members : /\ n \in DOMAIN g.assignments
                                    /\ g.assignments[n] = Share(Roster(g), EntryOf(g, n))
    BY <1>1, <1>2 DEF Shared
  <2>2. g.members \in Maps(S, Member) /\ h.members \in Maps(S, Member)
    BY <1>1, <1>2, Zenon DEF GroupType
  <2>3. /\ Cardinality(Roster(h)) = Cardinality(Roster(g))
        /\ Rank(Roster(h), EntryOf(h, new)) = Rank(Roster(g), EntryOf(g, old))
        /\ \A n \in DOMAIN g.members : n # old =>
              /\ EntryOf(h, n) = EntryOf(g, n)
              /\ Rank(Roster(h), EntryOf(h, n)) = Rank(Roster(g), EntryOf(g, n))
    <3>1. TakesOver(S, g, h, old, new)
      BY <2>2, <1>1, <1>2, <1>3 DEF TakesOver
    <3> QED BY <3>1, TakeoverKeepsPlaces, SMTT(60)
  <2>4. CASE m = new
    BY <2>1, <2>3, <2>4, <1>1, <1>2 DEF Share
  <2>5. CASE m # new
    BY <2>1, <2>3, <2>5, <1>1, <1>2 DEF Share
  <2> QED BY <2>4, <2>5, Zenon
<1> QED BY <1>1, <1>4, <1>6, <1>7, Zenon DEF GroupOK, h

(* A consumer other than the new instance fits the group as before. *)
LEMMA ReplacedFits ==
    ASSUME NEW S, NEW W, NEW g, NEW old, NEW new, Replaceable(g, S, W, old, new),
           NEW r, NEW offsets, Fits(r, g, offsets), r.id # new,
           \A x \in r.list : x.id # new, g.state # "CompletingRebalance"
    PROVE  Fits(r, Replaced(g, old, new), offsets)
<1> DEFINE h == Replaced(g, old, new)
<1>1. /\ GroupType(h, S) /\ h.state = g.state /\ h.generation = g.generation
      /\ DOMAIN h.members = (DOMAIN g.members \ {old}) \cup {new}
      /\ h.members[new].name = g.members[old].name
      /\ \A m \in DOMAIN g.members : m # old => h.members[m] = g.members[m]
  BY ReplacedIs, SMTT(60)
<1> HIDE DEF h
<1>2. /\ GroupType(g, S) /\ old \in DOMAIN g.members /\ new \notin DOMAIN g.members
      /\ S \subseteq Nat /\ IsFiniteSet(S)
  BY Zenon DEF Replaceable, GroupOK
<1>3. \A m \in DOMAIN g.members : m # old => g.members[m].name # g.members[old].name
  BY StaticNameIsUnique, Zenon
<1>4. g.members \in Maps(S, Member) /\ h.members \in Maps(S, Member)
  BY <1>1, <1>2, Zenon DEF GroupType
<1>5. /\ Cardinality(Roster(h)) = Cardinality(Roster(g))
      /\ \A m \in DOMAIN g.members : m # old =>
            /\ EntryOf(h, m) = EntryOf(g, m)
            /\ Rank(Roster(h), EntryOf(h, m)) = Rank(Roster(g), EntryOf(g, m))
  <2>1. TakesOver(S, g, h, old, new)
    BY <1>1, <1>2, <1>3, <1>4, Zenon DEF TakesOver
  <2> QED BY <2>1, TakeoverKeepsPlaces, SMTT(60)
<1>6. r.id \in DOMAIN h.members => r.id \in DOMAIN g.members /\ r.id # old
  BY <1>1, <1>2, Zenon
<1>7. Known(r, h)
  BY <1>1, <1>6, Zenon DEF Fits, Known
<1>8. Current(r, h) => Current(r, g)
  BY <1>1, <1>6, Zenon DEF Current
<1>9. ASSUME r.list # {}, Alike(r.list, g) PROVE Alike(r.list, h)
  <2>1. \A x \in r.list : x.id \in DOMAIN h.members => x.id \in DOMAIN g.members /\ x.id # old
    BY <1>1, <1>2, Zenon
  <2>2. \A x \in r.list : x.id \in DOMAIN h.members =>
            x = EntryOf(h, x.id) /\ Rank(r.list, x) = Rank(Roster(h), x)
    BY <2>1, <1>5, <1>9, Zenon DEF Alike
  <2> QED BY <2>2, <1>5, <1>9, Zenon DEF Alike
<1>10. Listed(r, h)
  BY <1>1, <1>8, <1>9 DEF Fits, Listed
<1>11. Working(r, h)
  <2> SUFFICES ASSUME Current(r, h), r.pc = "running"
               PROVE  h.state = "Stable" /\ r.assigned = Share(Roster(h), EntryOf(h, r.id))
    BY DEF Working
  <2>1. r.id \in DOMAIN h.members
    BY Zenon DEF Current
  <2>2. g.state = "Stable" /\ r.assigned = Share(Roster(g), EntryOf(g, r.id))
    BY <1>8, Zenon DEF Fits, Working
  <2> QED BY <2>1, <2>2, <1>1, <1>5, <1>6, Zenon DEF Share
<1>12. Ahead(r, h, offsets)
  BY <1>8 DEF Fits, Ahead
<1> QED BY <1>7, <1>10, <1>11, <1>12, Zenon DEF Fits, h

(* JoinGroup without a member id: the broker makes one up. *)
LEMMA JoinAsNewKeeps ==
    ASSUME IInv, Ordinary', NEW c \in Consumers, NEW g, GroupOK(g, Given, Who), Live(g),
           \A d \in Consumers : Fits(client[d], g, committed),
           JoinAsNew(c, g), UNCHANGED committed
    PROVE  IInv'
<1> DEFINE T == Given \cup {nextId}
           old == MemberForInstance(g, c)
           o == CHOOSE m \in old : TRUE
           offer == client[c].offer
<1>1. /\ nextId \in Nat \ {0} /\ Given \subseteq Nat /\ IsFiniteSet(Given) /\ NoId \notin Given
      /\ client[c] \in ClientRecord /\ committed \in [Partitions -> Int]
      /\ joins \in Maps(Given, {"waiting", "forcing"})
      /\ faults \in [count : Nat, kinds : SUBSET Kinds]
      /\ \A d \in Consumers : client[d] \in ClientRecord /\ Reset(client[d], Given)
  BY Unfold, GivenIsFinite, Zenon
<1>2. nextId \notin Given
  BY <1>1, GivenIs, Zenon
<1>3. T \subseteq Nat /\ IsFiniteSet(T) /\ Given \subseteq T /\ nextId \in T
  BY <1>1, FS_AddElement, Zenon
<1>4. T = Given \cup {nextId}
  OBVIOUS
<1> HIDE DEF T
<1>5. GroupOK(g, T, Who)
  BY <1>3, GroupGrows, Zenon
<1>6. nextId \notin DOMAIN g.members \cup DOMAIN g.awaiting \cup DOMAIN g.assignments
  BY <1>2, MapsAre DEF GroupOK, GroupType
<1>7. nextId' = nextId + 1
  BY Zenon DEF JoinAsNew
<1>8. faults' \in [count : Nat, kinds : SUBSET Kinds]
  <2>1. CASE UNCHANGED faults
    BY <1>1, <2>1, Zenon
  <2>2. CASE Noted("takeover")
    BY <1>1, <2>2, Zenon DEF Noted, Kinds
  <2> QED BY <2>1, <2>2, Zenon DEF JoinAsNew
<1>9. offer \in Offers /\ <<client[c].name, client[c].static>> \in Who
  BY <1>1, Zenon DEF ClientRecord, Who
<1>10. \A d \in Consumers : client[d].id # nextId /\ \A x \in client[d].list : x.id # nextId
  BY <1>1, <1>2 DEF Reset, NoId
<1>11. old # {} => g.state # "CompletingRebalance"
  <2>1. Noted("takeover") => "takeover" \in faults'.kinds
    BY <1>1, Zenon DEF Noted
  <2> QED BY <2>1, Zenon DEF JoinAsNew, Ordinary
<1>12. CASE /\ SetGroup([g EXCEPT !.pending = g.pending \cup {nextId}])
            /\ SetClient(c, Back(client[c], "rejoin", nextId)) /\ UNCHANGED joins
  <2> DEFINE b == Back(client[c], "rejoin", nextId)
  <2>1. group' = [g EXCEPT !.pending = g.pending \cup {nextId}]
    BY <1>12 DEF SetGroup
  <2>2. g.pending \cup {nextId} \in SUBSET T
    BY <1>3, <1>5 DEF GroupOK, GroupType
  <2>3. /\ GroupType(group', T) /\ group'.members = g.members /\ group'.state = g.state
        /\ group'.generation = g.generation /\ group'.leader = g.leader
        /\ group'.awaiting = g.awaiting /\ group'.assignments = g.assignments
    BY <1>5, <2>1, <2>2, Zenon DEF GroupOK, GroupType
  <2>4. SameRound(g, group')
    BY <2>3 DEF SameRound
  <2>5. GroupOK(group', T, Who)
    BY <1>5, <2>3, <2>4, SameGroupOK, Zenon
  <2>6. \A d \in Consumers : Fits(client[d], group', committed')
    BY <2>4, SameFits, Zenon
  <2>7. GoesBack(client[c], "rejoin", nextId, T)
    BY <1>1, <1>3, Zenon DEF GoesBack
  <2>8. Bare(b, client[c], T) /\ b.id = nextId
    BY <2>7, BackIs
  <2>9. SetClient(c, b)
    BY <1>12, Zenon
  <2> HIDE DEF b
  <2>10. Fits(b, group', committed')
    BY <1>6, <2>3, <2>5, <2>8, BackFits, Zenon DEF Bare
  <2>11. joins' \in Maps(T, {"waiting", "forcing"})
    BY <1>1, <1>3, <1>12, MapsGrow
  <2> QED BY <1>1, <1>4, <1>7, <1>8, <2>5, <2>6, <2>8, <2>9, <2>10, <2>11, AssembleNew, Zenon
<1>13. CASE old = {} /\ \E h \in Joined(g, nextId, c, offer) : Wait(c, nextId, h)
  <2>1. PICK h \in Joined(g, nextId, c, offer) : Wait(c, nextId, h)
    BY <1>13, Zenon
  <2>2. Joinable(g, T, Who, nextId, c)
    <3>1. ASSUME NEW m \in DOMAIN g.members, m # nextId, g.members[m].name = client[c].name
          PROVE  ~g.members[m].static /\ ~client[c].static
      BY <1>13, <3>1, NamesakesAreDynamic
    <3> QED BY <1>1, <1>3, <1>5, <1>6, <1>9, <3>1, Zenon DEF Joinable
  <2>3. /\ GroupOK(h, T, Who) /\ h.members[nextId].name = client[c].name
        /\ h.members[nextId].static = client[c].static
    BY <1>9, <2>1, <2>2, JoinedOK
  <2>4. ASSUME NEW d \in Consumers PROVE Fits(client[d], h, committed)
    BY <1>1, <1>9, <1>10, <2>1, <2>2, JoinedFits
  <2> QED BY <1>4, <1>7, <1>8, <2>1, <2>3, <2>4, NewMember, Zenon
<1>14. CASE /\ old # {}
            /\ \/ Wait(c, nextId, Replaced(g, o, nextId))
               \/ \E h \in Joined(Replaced(g, o, nextId), nextId, c, offer) : Wait(c, nextId, h)
  <2> DEFINE taken == Replaced(g, o, nextId)
  <2>1. /\ o \in DOMAIN g.members /\ g.members[o].static /\ client[c].static
        /\ g.members[o].name = client[c].name
    BY <1>14, Zenon DEF MemberForInstance
  <2> HIDE DEF o
  <2>2. Replaceable(g, T, Who, o, nextId)
    BY <1>3, <1>5, <1>6, <2>1 DEF Replaceable
  <2>3. GroupOK(taken, T, Who)
    BY <2>2, ReplacedOK, Zenon
  <2>4. /\ taken.state = g.state
        /\ DOMAIN taken.members = (DOMAIN g.members \ {o}) \cup {nextId}
        /\ taken.members[nextId].name = client[c].name /\ taken.members[nextId].static
        /\ \A m \in DOMAIN g.members : m # o => taken.members[m] = g.members[m]
    BY <2>1, <2>2, ReplacedIs, SMTT(60)
  <2>5. taken.members[nextId].static = client[c].static
    <3>1. taken.members[nextId] \in Member
      BY <2>3, <2>4, MapsAre DEF GroupOK, GroupType
    <3>2. taken.members[nextId].static \in BOOLEAN /\ client[c].static \in BOOLEAN
      BY <1>1, <3>1, Zenon DEF Member, ClientRecord
    <3> QED BY <2>1, <2>4, <3>2, Zenon
  <2>6. ASSUME NEW d \in Consumers PROVE Fits(client[d], taken, committed)
    BY <1>10, <1>11, <1>14, <2>2, ReplacedFits, Zenon
  <2>7. CASE Wait(c, nextId, taken)
    BY <1>4, <1>7, <1>8, <2>3, <2>4, <2>5, <2>6, <2>7, NewMember, Zenon
  <2>8. CASE \E h \in Joined(taken, nextId, c, offer) : Wait(c, nextId, h)
    <3>1. PICK h \in Joined(taken, nextId, c, offer) : Wait(c, nextId, h)
      BY <2>8
    <3> HIDE DEF taken
    <3>2. Joinable(taken, T, Who, nextId, c)
      <4>1. \A m \in DOMAIN g.members : m # o => g.members[m].name # g.members[o].name
        BY <2>2, StaticNameIsUnique
      <4>2. \A m \in DOMAIN taken.members : m # nextId => taken.members[m].name # client[c].name
        BY <2>1, <2>4, <4>1
      <4> QED BY <1>1, <1>3, <1>9, <2>3, <2>4, <2>5, <4>2, Zenon DEF Joinable, Live
    <3>3. /\ GroupOK(h, T, Who) /\ h.members[nextId].name = client[c].name
          /\ h.members[nextId].static = client[c].static
      BY <1>9, <3>1, <3>2, JoinedOK, SMTT(60)
    <3>4. ASSUME NEW d \in Consumers PROVE Fits(client[d], h, committed)
      BY <1>1, <1>9, <1>10, <2>6, <3>1, <3>2, JoinedFits, SMTT(60)
    <3> QED BY <1>4, <1>7, <1>8, <3>1, <3>3, <3>4, NewMember, Zenon
  <2> QED BY <1>14, <2>7, <2>8, Zenon
<1> QED
  <2>1. CASE old = {}
    BY <1>12, <1>13, <2>1, Zenon DEF JoinAsNew
  <2>2. CASE old # {}
    BY <1>12, <1>14, <2>2 DEF JoinAsNew
  <2> QED BY <2>1, <2>2

(* JoinGroup, with or without one. *)
LEMMA JoinGroupKeeps ==
    ASSUME IInv, Ordinary', NEW c \in Consumers, JoinGroup(c)
    PROVE  IInv'
<1> DEFINE g == IF Live(group) THEN group ELSE NewGroup
<1>1. /\ GroupOK(g, Given, Who) /\ Live(g)
      /\ \A d \in Consumers : Fits(client[d], g, committed)
  BY StartGroup, Zenon
<1>2. CASE client[c].id = NoId
  <2>1. JoinAsNew(c, g) /\ UNCHANGED committed
    BY <1>2, Zenon DEF JoinGroup
  <2> HIDE DEF g
  <2> QED BY <1>1, <2>1, JoinAsNewKeeps, Zenon
<1>3. CASE client[c].id # NoId
  <2>1. JoinAgain(c, g) /\ UNCHANGED committed /\ client[c].pc \in {"out", "rejoin"}
    BY <1>3, Zenon DEF JoinGroup
  <2> HIDE DEF g
  <2> QED BY <1>1, <1>3, <2>1, JoinAgainKeeps, Zenon
<1> QED BY <1>2, <1>3, Zenon

(****************************************************************************)
(* The theorems                                                             *)
(****************************************************************************)
(* Every action keeps the invariant, a handler that forces the round apart.*)
LEMMA NextKeeps ==
    ASSUME IInv, Ordinary, Ordinary', [Next]_vars
    PROVE  IInv'
<1>1. CASE UNCHANGED vars
  <2>1. UNCHANGED <<group, joins, committed, client, nextId, faults>>
    BY <1>1, Zenon DEF vars
  <2>2. Sound
    BY <2>1, Unfold, Zenon DEF Sound
  <2>3. \A d \in Consumers : Fits(client[d], group', committed')
    BY <2>1, Unfold
  <2> QED BY <2>1, <2>2, <2>3, GroupStep
<1>2. ASSUME NEW c \in Consumers, JoinGroup(c) PROVE IInv'
  BY <1>2, JoinGroupKeeps
<1>3. ASSUME NEW c \in Consumers, CheckSync(c) \/ SyncTimesOut(c) \/ SyncGroup(c) PROVE IInv'
  BY <1>3, CheckSyncKeeps, SyncTimesOutKeeps, SyncGroupKeeps, Zenon
<1>4. ASSUME NEW c \in Consumers, Heartbeat(c) \/ LeaveGroup(c) \/ Crash(c) \/ ChangeOffer(c)
      PROVE  IInv'
  BY <1>4, HeartbeatKeeps, LeaveGroupKeeps, CrashKeeps, ChangeOfferKeeps
<1>5. ASSUME NEW c \in Consumers, NEW p \in Partitions,
             OffsetFetch(c, p) \/ Consume(c, p) \/ OffsetCommit(c, p)
      PROVE  IInv'
  BY <1>5, PositionKeeps, OffsetCommitKeeps, Zenon
<1>6. ASSUME NEW id \in Ids, PollJoin(id) PROVE IInv'
  BY <1>6, PollJoinKeeps
<1>7. ASSUME NEW id \in Ids, ForceJoin(id) PROVE IInv'
  BY <1>7 DEF ForceJoin, Ordinary, Unforced
<1>8. ASSUME NEW id \in Ids, TryJoin(id) \/ SessionTimePasses(id) PROVE IInv'
  BY <1>8, TryJoinKeeps, SessionTimePassesKeeps, Zenon
<1>9. ASSUME NEW p \in Partitions, ResetOffset(p) \/ OffsetDelete(p) PROVE IInv'
  BY <1>9, OffsetAdminKeeps
<1>10. CASE LeaveAgain \/ DeleteGroup \/ InitialDelayPasses \/ RebalanceTimePasses \/ Restart
  BY <1>10, LeaveAgainKeeps, DeleteGroupKeeps, TimerKeeps, RestartKeeps, Zenon
<1> QED BY <1>1, <1>2, <1>3, <1>4, <1>5, <1>6, <1>7, <1>8, <1>9, <1>10 DEF Next

(* The invariant, until a new instance takes over in a round being         *)
(* completed.                                                              *)
SoundSoFar ==
    /\ faults \in [count : Nat, kinds : SUBSET Kinds]
    /\ "takeover" \notin faults.kinds => IInv

(* What JoinGroup, SyncGroup, Heartbeat and LeaveGroup leave behind is     *)
(* sound as long as no handler completes a round because its time is over. *)
THEOREM RoundsStaySound == Spec /\ []Unforced => []SoundSoFar
<1>1. Init => SoundSoFar
  BY InitIsSound, Zenon DEF SoundSoFar, IInv, Typed
<1>2. SoundSoFar /\ Unforced /\ Unforced' /\ [Next]_vars => SoundSoFar'
  <2> SUFFICES ASSUME SoundSoFar, Unforced, Unforced', [Next]_vars PROVE SoundSoFar'
    OBVIOUS
  <2>1. /\ faults' \in [count : Nat, kinds : SUBSET Kinds]
        /\ faults.kinds \subseteq faults'.kinds
    BY FaultsGrow DEF SoundSoFar
  <2>2. ASSUME "takeover" \notin faults'.kinds PROVE IInv'
    <3>1. Ordinary /\ Ordinary'
      BY <2>1, <2>2 DEF Ordinary, Unforced
    <3>2. IInv
      BY <2>1, <2>2 DEF SoundSoFar
    <3> QED BY <3>1, <3>2, NextKeeps, Zenon
  <2> QED BY <2>1, <2>2 DEF SoundSoFar
<1> QED BY <1>1, <1>2, PTL DEF Spec

(* Every consumer that got through a round is one that the leader made an  *)
(* assignment for (JoinGroup reopens the round for a newcomer).            *)
THEOREM EveryoneIsAssigned == Spec /\ []Unforced => []NobodyLeftOut
<1>1. SoundSoFar => NobodyLeftOut
  <2> SUFFICES ASSUME SoundSoFar, "takeover" \notin faults.kinds, NEW c \in InGeneration
               PROVE  client[c].id \in DOMAIN group.assignments
    BY Zenon DEF NobodyLeftOut
  <2>1. IInv
    BY Zenon DEF SoundSoFar
  <2>2. c \in Consumers /\ client[c].pc = "running" /\ Current(client[c], group)
    BY DEF InGeneration, Current
  <2>3. group.state = "Stable"
    BY <2>1, <2>2, Unfold DEF Fits, Working
  <2> QED BY <2>1, <2>2, <2>3, Unfold DEF GroupOK, Shared, Current
<1> QED BY <1>1, RoundsStaySound, PTL

(* Once every member works in the generation, every partition is consumed: *)
(* the leader's list was that of the members when SyncGroup stored it.     *)
THEOREM EveryPartitionIsConsumed == Spec /\ []Unforced => []AllCovered
<1>1. SoundSoFar => AllCovered
  <2> DEFINE G == InGeneration
             M == DOMAIN group.members
             L == Roster(group)
             f == [c \in G |-> client[c].id]
  <2> SUFFICES ASSUME SoundSoFar, "takeover" \notin faults.kinds, group.state = "Stable",
                      Cardinality(G) = Cardinality(M)
               PROVE  UNION {client[c].assigned : c \in G} = Partitions
    BY Zenon DEF AllCovered
  <2>1. IInv
    BY Zenon DEF SoundSoFar
  <2>2. /\ GroupOK(group, Given, Who) /\ Given \subseteq Nat /\ IsFiniteSet(Given)
        /\ NoId \notin Given
    BY <2>1, Unfold, GivenIsFinite
  <2>3. group.members \in Maps(Given, Member) /\ Shaped(group)
    BY <2>2, Zenon DEF GroupOK, GroupType
  <2>4. M \in SUBSET Given
    BY <2>3, MapsAre
  <2>5. IsFiniteSet(M)
    BY <2>2, <2>4, FS_Subset, Zenon
  <2>6. ASSUME NEW c \in G
        PROVE  c \in Consumers /\ client[c].id \in M /\ client[c].assigned = Share(L, EntryOf(group, client[c].id))
    BY <2>1, <2>6, Unfold DEF InGeneration, Fits, Working, Current
  <2>7. f \in Injection(G, M)
    <3>1. \A c, d \in G : client[c].id = client[d].id => c = d
      BY <2>1, <2>2, <2>4, <2>6 DEF IInv, Distinct
    <3> QED BY <2>6, <3>1, Zenon DEF Injection, IsInjective
  <2>8. f \in Surjection(G, M)
    BY <2>5, <2>7, FS_Injection, Zenon
  <2>9. IsList(L) /\ \A m \in M : EntryOf(group, m) \in L
    BY <2>2, <2>3, RosterIsList, Zenon
  <2>10. ASSUME NEW p \in Partitions PROVE \E c \in G : p \in client[c].assigned
    <3> DEFINE n == Cardinality(L)
    <3>1. M # {}
      BY <2>3, MapsClosed, Zenon DEF Shaped
    <3>2. n \in Nat \ {0}
      BY <2>9, <3>1, RankType, Zenon
    <3>3. p \in Nat
      BY KafkaGroupAssumption, Zenon
    <3>4. p % n \in 0..(n - 1)
      BY <3>2, <3>3
    <3>5. PICK x \in L : Rank(L, x) = p % n
      BY <2>9, <3>4, RankOnto, Zenon
    <3>6. PICK m \in M : x = EntryOf(group, m)
      BY Zenon DEF Roster
    <3>7. PICK c \in G : client[c].id = m
      BY <2>8, Zenon DEF Surjection
    <3> QED BY <2>6, <3>5, <3>6, <3>7, Zenon DEF Share
  <2>11. \A c \in G : client[c].assigned \subseteq Partitions
    BY <2>6 DEF Share
  <2> QED BY <2>10, <2>11
<1> QED BY <1>1, RoundsStaySound, PTL

(* The commit of a consumer that lost its partition is refused: a          *)
(* committed offset goes back only while the group has no members.         *)
THEOREM CommitsMoveForward == Spec /\ []Ordinary => OffsetsMoveForward
<1>1. Ordinary => Unforced /\ "takeover" \notin faults.kinds
  BY Zenon DEF Ordinary
<1>2. SoundSoFar /\ Ordinary => IInv
  BY Zenon DEF SoundSoFar, Ordinary
<1>3. ASSUME IInv, Next, NEW p \in Partitions, committed'[p] # -1, committed'[p] < committed[p]
      PROVE  group.members = <<>>
  <2>0. committed \in [Partitions -> Int] /\ Shaped(group)
    BY <1>3, Unfold DEF GroupOK
  <2>1. committed'[p] # committed[p]
    BY <1>3, <2>0
  <2>2. ASSUME NEW c \in Consumers, NEW q \in Partitions, OffsetCommit(c, q) PROVE FALSE
    <3> DEFINE r == client[c]
    <3>1. /\ CommitRefusal(group, c, r.id, r.generation) = 0 /\ r.position[q] # -1
          /\ committed' = [committed EXCEPT ![q] = r.position[q]]
      BY <2>1, <2>2, Zenon DEF OffsetCommit
    <3>2. Current(r, group)
      BY <3>1, AcceptedIsCurrent, Zenon DEF Current
    <3>3. committed[q] <= r.position[q] /\ r.position[q] \in Int
      BY <1>3, <3>1, <3>2, Unfold DEF Fits, Ahead, ClientRecord
    <3> QED BY <1>3, <2>0, <3>1, <3>3
  <2>3. ASSUME NEW q \in Partitions, ResetOffset(q) PROVE group.members = <<>>
    BY <2>0, <2>3, Zenon DEF ResetOffset, Live, Shaped
  <2>4. ASSUME NEW q \in Partitions, OffsetDelete(q) PROVE FALSE
    BY <1>3, <2>0, <2>1, <2>4 DEF OffsetDelete
  <2>5. ~DeleteGroup
    BY <1>3, Zenon DEF DeleteGroup
  <2>6. ASSUME NEW c \in Consumers
        PROVE  ~(JoinGroup(c) \/ CheckSync(c) \/ SyncTimesOut(c) \/ SyncGroup(c) \/ Heartbeat(c)
                   \/ LeaveGroup(c) \/ Crash(c) \/ ChangeOffer(c))
    BY <2>1, Zenon DEF JoinGroup, CheckSync, SyncTimesOut, SyncGroup, Heartbeat, LeaveGroup, Crash,
                ChangeOffer
  <2>7. ASSUME NEW c \in Consumers, NEW q \in Partitions
        PROVE  ~(OffsetFetch(c, q) \/ Consume(c, q))
    BY <2>1, Zenon DEF OffsetFetch, Consume
  <2>8. ASSUME NEW id \in Ids
        PROVE  ~(PollJoin(id) \/ ForceJoin(id) \/ TryJoin(id) \/ SessionTimePasses(id))
    BY <2>1, Zenon DEF PollJoin, ForceJoin, TryJoin, SessionTimePasses
  <2>9. ~(LeaveAgain \/ InitialDelayPasses \/ RebalanceTimePasses \/ Restart)
    BY <2>1, Zenon DEF LeaveAgain, InitialDelayPasses, RebalanceTimePasses, Restart
  <2> QED BY <1>3, <2>2, <2>3, <2>4, <2>5, <2>6, <2>7, <2>8, <2>9, Zenon DEF Next
<1>4. IInv /\ [Next]_vars =>
          [\A p \in Partitions : (committed'[p] # -1 /\ committed'[p] < committed[p])
                                   => group.members = <<>>]_vars
  BY <1>3
<1> QED BY <1>1, <1>2, <1>4, RoundsStaySound, PTL DEF Spec, OffsetsMoveForward
=============================================================================
