----------------------------- MODULE BoundedMap -----------------------------
(***************************************************************************)
(* A table with room for Capacity keys, one value each: what the table of  *)
(* dynamic DIDs and that of the I/O overrides promise.                     *)
(***************************************************************************)
EXTENDS Naturals, FiniteSets

CONSTANTS Keys, Values, Capacity,
          Overwrites  \* whether a key that is present may be given a new value

VARIABLES map,
          done   \* the last operation on the table, and whether it took effect

vars == <<map, done>>

Outcome(op, key, value, ok) == [op |-> op, key |-> key, value |-> value, ok |-> ok]

Init == map = [k \in {} |-> <<>>] /\ done.op = "init"

MayPut(k) ==
  IF k \in DOMAIN map THEN Overwrites ELSE Cardinality(DOMAIN map) < Capacity

Put(k, v) ==
  /\ done' = Outcome("put", k, v, MayPut(k))
  /\ map' = IF MayPut(k) THEN [j \in DOMAIN map \cup {k} |-> IF j = k THEN v ELSE map[j]]
                         ELSE map

\* The table may or may not complain of a key that is not there.
Remove(k) ==
  /\ done'.op = "remove" /\ done'.key = k
  /\ k \in DOMAIN map => done'.ok
  /\ map' = [j \in DOMAIN map \ {k} |-> map[j]]

Next ==
  \/ \E k \in Keys, v \in Values : Put(k, v)
  \/ \E k \in Keys : Remove(k)

Spec == Init /\ [][Next]_vars
=============================================================================
