------------------------------ MODULE DtcStore ------------------------------
(***************************************************************************)
(* What the DTC database promises: it remembers at most Capacity trouble   *)
(* codes, each with one status, one snapshot and one extended record, until *)
(* the group they belong to is cleared; every report shows exactly that.   *)
(***************************************************************************)
EXTENDS Naturals, FiniteSets

CONSTANTS Dtcs, Bits, Contents, Capacity, Group(_)

VARIABLES
  store,  \* what is remembered of each code that is known
  event   \* the last call and what it answered

vars == <<store, event>>

Fresh == [status |-> {}, snapshot |-> <<>>, extended |-> <<>>]

Call(op, d) ==
  [op |-> op, dtc |-> d, bits |-> {}, data |-> <<>>, nrc |-> "NONE",
   list |-> {}, count |-> 0]

Known(d) == d \in DOMAIN store
Room(d) == Known(d) \/ Cardinality(DOMAIN store) < Capacity
Get(d) == IF Known(d) THEN store[d] ELSE Fresh

Put(d, r) ==
  store' = IF Room(d) THEN [e \in DOMAIN store \cup {d} |-> IF e = d THEN r ELSE store[e]]
                      ELSE store

Keep(S) == store' = [d \in S |-> store[d]]

Init ==
  /\ store = [d \in {} |-> Fresh]
  /\ event = Call("init", 0)

SetStatus(d, b) ==
  /\ event' = [Call("set", d) EXCEPT !.bits = b]
  /\ Put(d, [Get(d) EXCEPT !.status = @ \cup b])

ClearStatus(d, b) ==
  /\ event' = [Call("unset", d) EXCEPT !.bits = b]
  /\ IF Known(d) THEN Put(d, [Get(d) EXCEPT !.status = @ \ b]) ELSE UNCHANGED store

SetSnapshot(d, c) ==
  /\ event' = [Call("snapshot", d) EXCEPT !.data = c, !.nrc = IF Room(d) THEN "NONE" ELSE "FULL"]
  /\ Put(d, [Get(d) EXCEPT !.snapshot = c])

SetExtended(d, c) ==
  /\ event' = [Call("extended", d) EXCEPT !.data = c, !.nrc = IF Room(d) THEN "NONE" ELSE "FULL"]
  /\ Put(d, [Get(d) EXCEPT !.extended = c])

\* A clearing forgets everything, or one whole group.
Clear(g) ==
  /\ event' = Call("clear", g)
  /\ Keep({}) \/ \E n \in 0 .. 15 : Keep({d \in DOMAIN store : Group(d) # n})

\* The codes with a status bit of the mask, and their status.
Report(mask) ==
  LET found == {d \in DOMAIN store : store[d].status \cap mask # {}} IN
  /\ event' = [Call("report", 0) EXCEPT
                 !.bits = UNION {store[d].status : d \in found},
                 !.list = {<<d, store[d].status>> : d \in found},
                 !.count = Cardinality(found)]
  /\ UNCHANGED store

ReadRecord(d, field) ==
  LET found == IF field = 1 THEN Get(d).snapshot ELSE Get(d).extended IN
  /\ event' = [Call("read", d) EXCEPT
                 !.data = found, !.nrc = IF found = <<>> THEN "ROOR" ELSE "NONE"]
  /\ UNCHANGED store

\* A call that is refused, or whose answer is withheld, changes nothing.
Refuse ==
  /\ event'.op \in {"refused", "suppressed"}
  /\ UNCHANGED store

Next ==
  \/ \E d \in Dtcs, b \in SUBSET Bits : SetStatus(d, b) \/ ClearStatus(d, b)
  \/ \E d \in Dtcs, c \in Contents : SetSnapshot(d, c) \/ SetExtended(d, c)
  \/ \E mask \in SUBSET Bits : Report(mask)
  \/ \E d \in Dtcs \cup {0}, field \in {1, 2} : ReadRecord(d, field)
  \/ Clear(event'.dtc)
  \/ Refuse

Spec == Init /\ [][Next]_vars
=============================================================================
