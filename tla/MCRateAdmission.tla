---------------------------- MODULE MCRateAdmission ----------------------------
(* Small instances of RateAdmission for TLC: the requests of the callers.  *)
EXTENDS RateAdmission

CONSTANTS pol, a1, a2, a3

Admit(id, at, w, known) ==
  [kind |-> "admit", id |-> id, policy |-> pol, provision |-> known, at |-> at, window |-> w]
Revoke(id, at)    == [kind |-> "revoke", id |-> id, policy |-> pol, at |-> at]
Provision(id)     == [kind |-> "provision", id |-> id, policy |-> pol]

\* Windows of two seconds, a tick is half a second.  Three requests compete for
\* one window.  The last three reuse an identity for another window, come when
\* the policy has expired, and name a window off the grid.  The
\* fourth knows the policy as another request provisions it.
MCAdmissions ==
  {Admit(a1, 1, <<0, 4>>, a1), Admit(a2, 2, <<0, 4>>, a1), Admit(a3, 1, <<0, 4>>, a1),
   Admit(a2, 4, <<4, 8>>, a2), Admit(a1, 5, <<4, 8>>, a1), Admit(a3, 3, <<2, 6>>, a1)}

MCRevocations == {Revoke(a1, 2), Revoke(a2, 4)}
MCProvisions  == {Provision(a1), Provision(a2)}

================================================================================
