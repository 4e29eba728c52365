----------------------------- MODULE MCIdentity -----------------------------
(***************************************************************************)
(* A small instance of the identity contract.                              *)
(***************************************************************************)
EXTENDS Identity, TLC

UserSymmetry == Permutations(Users)

\* A bound: one driver at a time is reported on.  Another one may have a
\* profile, as it was registered, and may be a reporter or the admin.
OneDriverReported ==
    \A u, v \in Users :
        u # v /\ Registered(u) /\ Registered(v) =>
            \E w \in {u, v} :
                profiles[w] = [score |-> 50, completed |-> 0, kyc |-> FALSE]
=============================================================================
