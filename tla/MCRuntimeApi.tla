------------------------------ MODULE MCRuntimeApi ------------------------------
(* A small instance of RuntimeApi for TLC: two organizations, a user with a role
   in each, another with a role in one, a manager of each, and the commands they
   send.                                                                      *)
EXTENDS RuntimeApi

Submit1(user, key, digest, org, writes) ==
  [kind |-> "submit", user |-> user, org |-> org, permission |-> "submit",
   key |-> key, digest |-> digest, writes |-> writes]
W(row, n) == [row |-> row, revision |-> n]
Change1(user, id, kind, role, n) ==
  [kind |-> kind, id |-> id, user |-> user, role |-> role, permission |-> "submit", expected |-> n]

MCOrgOf   == [r |-> "o1", s |-> "o2"]
MCRolesOf == [u |-> {"r", "s"}, v |-> {"s"}, m |-> {}, n |-> {}]
MCRank    == [state |-> 1, audit |-> 2, result |-> 3, request |-> 4]

\* The second submission reuses the key of the first for another command.  The
\* last is a reconciliation request of another caller, whose key has the same
\* hash.  The write sets are two saves of one record and an atomic write set;
\* they compete with the submissions for the same revisions.
MCSubmissions ==
  {Submit1("u", "k1", "d1", "o1", {W("state", 2), W("result", 1)}),
   Submit1("u", "k1", "d2", "o1", {W("audit", 1)}),
   Submit1("v", "k2", "d1", "o2", {W("request", 1)})}

MCWriteSets ==
  {[kind |-> "write", writes |-> {W("state", 1)}],
   [kind |-> "write", writes |-> {W("state", 3)}],
   [kind |-> "write", writes |-> {W("state", 2), W("audit", 1)}]}

\* The third reuses the request of the first, in the other organization.
MCChanges ==
  {Change1("m", "g1", "grant", "r", 0), Change1("m", "g2", "revoke", "r", 1), Change1("n", "g1", "grant", "s", 0),
   Change1("m", "g3", "grant", "r", 2)}

MCLockKey == [k1 |-> 1, k2 |-> 1]
================================================================================
