---------------------------- MODULE EffectLifecycle ----------------------------
(***************************************************************************)
(* The contract of one governed external effect: the evidence every        *)
(* lifecycle status carries, and the pure validators that the Ports, the   *)
(* Orchestration service and the persistence layer run on every claim and  *)
(* on every lifecycle append.                                              *)
(*                                                                         *)
(* A timestamp is a natural number up to MaxTime; the several timestamps   *)
(* one caller stamps on one request (claimed_at, observed_at, recorded_at, *)
(* requested_at) are its single clock reading "at".  Identifiers that only *)
(* need to be equal or different (record id and digest, receipts, lease    *)
(* id) are abstracted: a revision is known by its number, which is as good *)
(* as its id because revisions never change; a lease by its claim.         *)
(***************************************************************************)
EXTENDS EffectGraph, Integers, Sequences

CONSTANTS Effects,       \* stable effect identities
          Claims,        \* claim identities callers may supply
          RequestIds,    \* claim_request_id / lifecycle_append_request_id
          MaxTime,       \* the last instant of the bounded clock
          MaxAttempts    \* envelope.maximum_attempt_count

ASSUME BoundsAssumption == MaxTime \in Nat /\ MaxAttempts \in Nat \ {0}

Time == 0 .. MaxTime

Certainty == {"delivered", "definitely_not_delivered", "ambiguous"}
Outcome   == {"confirmed_delivered", "confirmed_not_delivered",
              "still_ambiguous", "observation_unavailable"}
NotInvokedReason == {"cancelled", "lease_expired"}

\* A claim with the end of its lease.
Lease == [claim : Claims, expires : Time]

\* A retry decision: APPROVED names the eligible time, DENIED names none.
RetryDecision == [eligible : Option(Time)]

(***************************************************************************)
(* A claim request or a lifecycle append request.  Every revision row      *)
(* stores the request that wrote it (write_request_payload), so a request  *)
(* is also what a revision is.  "previous" is the revision the caller read. *)
(***************************************************************************)
Request ==
  [id : RequestIds, via : {"enqueue", "claim", "append"}, effect : Effects,
   previous : Nat, status : Status, lease : Option(Lease),
   attempt : 0 .. MaxAttempts, result : Option(Certainty),
   observation : Option(Outcome), retry : Option(RetryDecision),
   notInvoked : Option(NotInvokedReason), at : Time]

--------------------------------------------------------------------------------

Required ==
  [ enqueued        |-> {},
    claimed         |-> {"claim"},
    delivering      |-> {"claim", "attempt"},
    delivered       |-> {"attempt", "result"},
    retry_scheduled |-> {"attempt", "retry"},
    ambiguous       |-> {"attempt", "result"},
    dead_lettered   |-> {} ]

Optional ==
  [ enqueued        |-> {},
    claimed         |-> {},
    delivering      |-> {},
    delivered       |-> {"observation"},
    retry_scheduled |-> {"observation"},
    ambiguous       |-> {},
    dead_lettered   |-> {"attempt", "result", "observation"} ]

(***************************************************************************)
(* The evidence a record refers to.  The claim that supports a             *)
(* definitely-not-invoked fact travels in the append but is not referred   *)
(* to by the record.  A dead-letter fact is present exactly in a           *)
(* dead-letter record and needs no field here.                             *)
(***************************************************************************)
Evidence(r) ==
  (IF r.lease # {} /\ r.notInvoked = {} THEN {"claim"} ELSE {})
    \cup (IF r.attempt > 0 THEN {"attempt"} ELSE {})
    \cup (IF r.result # {} THEN {"result"} ELSE {})
    \cup (IF r.retry # {} THEN {"retry"} ELSE {})
    \cup (IF r.observation # {} THEN {"observation"} ELSE {})

ValidEvidence(r) ==
  /\ Required[r.status] \subseteq Evidence(r)
  /\ Evidence(r) \subseteq Required[r.status] \cup Optional[r.status]

\* validate_runtime_effect_lifecycle_transition, prev being the revision read.
ValidTransition(prev, r) ==
  /\ r.status \in Follows[prev.status]
  /\ r.at >= prev.at
  /\ prev.status = "claimed" /\ r.status = "claimed" =>
       \A l \in r.lease, m \in prev.lease : l.claim # m.claim
  /\ prev.status = "ambiguous" /\ r.status \in {"delivered", "retry_scheduled"} =>
       r.observation # {}
  /\ prev.status = "delivering" /\ r.status = "dead_lettered" /\ r.notInvoked = {} =>
       r.attempt > 0 /\ r.result # {}

\* The two no-call facts the service may persist after DELIVERING.
ValidNotInvoked(prev, r) ==
  r.notInvoked # {} =>
    /\ prev.status = "delivering"
    /\ r.status \in {"retry_scheduled", "dead_lettered"}
    /\ r.result = {}
    /\ r.lease = prev.lease /\ r.attempt = prev.attempt
    /\ "lease_expired" \in r.notInvoked => \A l \in r.lease : r.at >= l.expires

\* validate_runtime_effect_claim: the lease is live now and, on a reclaim,
\* the previous one has ended.
ValidLease(prev, r) ==
  /\ prev.status \in Claimable
  /\ \A l \in r.lease : r.at < l.expires
  /\ prev.status = "claimed" => \A m \in prev.lease : m.expires <= r.at

\* The DELIVERING append names the claim that was committed and starts inside
\* its lease.
ValidAttempt(prev, r) ==
  r.status = "delivering" => r.lease = prev.lease /\ \A l \in r.lease : r.at < l.expires

\* What a caller of the claim or of the append operation must satisfy before
\* any row is touched.
ValidRequest(prev, r) ==
  /\ ValidTransition(prev, r)
  /\ ValidEvidence(r)
  /\ r.via = "claim" => r.status = "claimed" /\ ValidLease(prev, r)
  /\ r.via = "append" => ValidNotInvoked(prev, r) /\ ValidAttempt(prev, r)

================================================================================
