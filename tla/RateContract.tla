------------------------------ MODULE RateContract ------------------------------
(***************************************************************************)
(* What rate admission promises its callers: each command and each request *)
(* is settled at one instant, on what is committed by then.  There are no  *)
(* sessions, statements, locks or answers here, and no counter either: a   *)
(* decision counts the requests admitted before it.                        *)
(***************************************************************************)
EXTENDS Integers, FiniteSets

CONSTANTS Admissions, Revocations, Provisions,   \* what callers may send
          Limit, TicksPerSecond, WindowSeconds, ValidFrom, ValidUntil

VARIABLES policies, revoked, decisions,   \* the committed rows
          authority                       \* may the manager manage policies?

promised == <<policies, revoked, decisions, authority>>

ContractInit ==
  policies = {} /\ revoked = {} /\ decisions = {} /\ authority \in BOOLEAN

\* No two commands of a kind share their identity or their policy.
Fresh(j, stored) == \A k \in stored : k.id # j.id /\ k.policy # j.policy

Provide(j) ==
  /\ authority
  /\ Fresh(j, policies)
  /\ policies' = policies \cup {j}
  /\ UNCHANGED <<revoked, decisions, authority>>

Withdraw(j) ==
  /\ authority
  /\ Fresh(j, revoked)
  /\ \E c \in policies : c.policy = j.policy
  /\ revoked' = revoked \cup {j}
  /\ UNCHANGED <<policies, decisions, authority>>

\* The policy the caller knows is in force at the instant of the observation.
InForce(r) ==
  /\ \E c \in policies : c.policy = r.policy /\ c.id = r.provision
  /\ ValidFrom <= r.at /\ r.at < ValidUntil
  /\ \A v \in revoked : v.policy = r.policy => r.at < v.at

\* Windows follow one another from the epoch on.
OnGrid(w) ==
  LET width == WindowSeconds * TicksPerSecond
  IN  w[2] = w[1] + width /\ \E k \in 0 .. w[1] : w[1] = k * width

AdmittedLike(r) ==
  {d \in decisions : /\ d.request.policy = r.policy /\ d.request.window = r.window
                     /\ d.disposition = "admitted"}

\* The least number of seconds that lead out of the window.
LeadsOut(s, r) ==
  LET rest == r.window[2] - r.at
  IN  rest <= s * TicksPerSecond /\ (s - 1) * TicksPerSecond < rest

\* One decision for one request, on the admissions of its window so far.
Decide(r) ==
  /\ \A d \in decisions : d.request.id # r.id
  /\ InForce(r)
  /\ OnGrid(r.window)
  /\ \E disposition \in {"admitted", "denied"}, retry \in {{}} \cup {{s} : s \in 1 .. WindowSeconds} :
       /\ disposition = "admitted" <=> Cardinality(AdmittedLike(r)) < Limit
       /\ disposition = "admitted" <=> retry = {}
       /\ \A s \in retry : LeadsOut(s, r)
       /\ decisions' = decisions \cup
            {[request |-> r, before |-> Cardinality(AdmittedLike(r)),
              disposition |-> disposition, retry |-> retry]}
  /\ UNCHANGED <<policies, revoked, authority>>

AuthorityMoves == authority' = ~authority /\ UNCHANGED <<policies, revoked, decisions>>

ContractNext ==
  \/ \E j \in Provisions : Provide(j)
  \/ \E j \in Revocations : Withdraw(j)
  \/ \E r \in Admissions : Decide(r)
  \/ AuthorityMoves

ContractSpec == ContractInit /\ [][ContractNext]_promised

================================================================================
