---------------------------- MODULE MCKafkaGroup ----------------------------
(* Small consumer groups for TLC. *)
EXTENDS KafkaGroup

(* Everybody knows "range"; an upgraded consumer prefers "sticky". *)
Rolling == {<<"range">>, <<"sticky", "range">>}

Consumer(name, static, offer) == [name |-> name, static |-> static, offer |-> offer]

(* A static and a dynamic consumer, one of them upgraded. *)
Mixed == [c \in Consumers |-> Consumer(c, c = 1, IF c = 1 THEN <<"range">> ELSE <<"sticky", "range">>)]

(* Two instances of the same static member. *)
Twins == [c \in Consumers |-> Consumer(2, TRUE, <<"range">>)]

Alike == {Mixed, Twins}

(* A static and a dynamic consumer that offer the same. *)
Same == {<<"range">>}
Distinct == {[c \in Consumers |-> Consumer(c, c = 1, <<"range">>)]}
=============================================================================
