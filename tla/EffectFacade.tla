---------------------------- MODULE EffectFacade ----------------------------
(* What the facades of the effect plugins share (crates/mutsuki-std-effect):
   the table that pairs a public protocol with its effect protocol, and the
   derivation of the effect task.

   An id is the sequence of its parts, so "{id}:effect" is Append(id,
   "effect"); a payload is whatever the plugin's own module says it is. *)
EXTENDS Integers, Sequences, FiniteSets

Task(id, protocol, payload) == [id |-> id, protocol |-> protocol, payload |-> payload]

(* A table is a sequence of pairs; validate_unique refuses a protocol that
   occurs twice on its side. *)
ValidateUnique(table) ==
    \A i, j \in DOMAIN table : i # j => /\ table[i].public # table[j].public
                                        /\ table[i].effect # table[j].effect

HasPublic(table, protocol) == \E i \in DOMAIN table : table[i].public = protocol

(* The first pair that matches, as `find` returns it. *)
PairForPublic(table, protocol) ==
    table[CHOOSE i \in DOMAIN table :
            /\ table[i].public = protocol
            /\ \A j \in 1 .. i - 1 : table[j].public # protocol]

(* The effect task: the source's payload under an id and a protocol of its own. *)
DeriveEffectTask(source, effect) == Task(Append(source.id, "effect"), effect, source.payload)

(* The effect tasks a facade's answer carries: one, or none when the protocol
   is not in the table and the answer is an error. *)
DeriveEffectFromPair(source, table) ==
    IF HasPublic(table, source.protocol)
      THEN <<DeriveEffectTask(source, PairForPublic(table, source.protocol).effect)>>
      ELSE <<>>
=============================================================================
