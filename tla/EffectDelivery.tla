---------------------------- MODULE EffectDelivery ----------------------------
(***************************************************************************)
(* What the effect store promises its callers: per effect one register     *)
(* with a version, a status and the lease of its claim, changed by one     *)
(* compare-and-set at a time.  There are no requests, no replays, no two   *)
(* transactions and no clock here; a lease is either running or over.      *)
(***************************************************************************)
EXTENDS EffectGraph, Integers

CONSTANTS Effects,   \* stable effect identities
          Claims     \* claim identities

VARIABLE effect      \* effect -> its current version, status and lease

EffectRow == [version : Nat, status : Status \cup {"absent"},
              lease : Option([claim : Claims, over : BOOLEAN])]

RegisterOK == effect \in [Effects -> EffectRow]

DeliveryInit ==
  effect = [e \in Effects |-> [version |-> 0, status |-> "absent", lease |-> {}]]

\* Faulty variant: the version that was read is not compared.
AdvanceBlindly(e, v, s, l) ==
  effect' = [effect EXCEPT ![e] = [version |-> effect[e].version + 1, status |-> s, lease |-> l]]

\* The compare-and-set every operation ends in.
Advance(e, v, s, l) ==
  /\ effect[e].version = v
  /\ effect' = [effect EXCEPT ![e] = [version |-> v + 1, status |-> s, lease |-> l]]

Enqueue(e) == effect[e].status = "absent" /\ Advance(e, 0, "enqueued", {})

\* A claim needs a claimable effect and takes no lease that is still running.
Claimed(e, v, c, over) ==
  /\ effect[e].status \in Claimable
  /\ \A m \in effect[e].lease : m.over /\ m.claim # c
  /\ Advance(e, v, "claimed", {[claim |-> c, over |-> over]})

\* Delivery starts under the claim that was committed.
StartDelivering(e, v) ==
  effect[e].status = "claimed" /\ Advance(e, v, "delivering", effect[e].lease)

\* The outcome of a delivery, or of its reconciliation.  A call that was not
\* made leaves its claim behind.
Conclude(e, v, s, l) ==
  /\ effect[e].status \in {"delivering", "ambiguous"}
  /\ s \in Follows[effect[e].status]
  /\ l \in {{}, effect[e].lease}
  /\ Advance(e, v, s, l)

Discard(e, v) ==
  effect[e].status \in Claimable /\ Advance(e, v, "dead_lettered", {})

\* Time passes: some leases are over.
LeasesEnd(E) ==
  effect' = [e \in Effects |->
    IF e \in E THEN [effect[e] EXCEPT !.lease = {[claim |-> m.claim, over |-> TRUE] : m \in @}]
               ELSE effect[e]]

DeliveryNext ==
  \/ \E e \in Effects :
       \/ Enqueue(e)
       \/ \E c \in Claims, over \in BOOLEAN : Claimed(e, effect[e].version, c, over)
       \/ StartDelivering(e, effect[e].version)
       \/ \E s \in Status, l \in {{}, effect[e].lease} : Conclude(e, effect[e].version, s, l)
       \/ Discard(e, effect[e].version)
  \/ \E E \in SUBSET Effects : LeasesEnd(E)

DeliverySpec == DeliveryInit /\ [][DeliveryNext]_effect

================================================================================
