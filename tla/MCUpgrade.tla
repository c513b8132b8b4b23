----------------------------- MODULE MCUpgrade -----------------------------
(* Upgrade with the histories TLC explores. *)
EXTENDS Upgrade

\* Either the program crashes or the history has a superfluous revision: both
\* together are too many states.
BoundedInit == Init /\ (crashes < MaxCrashes <=> Gone(Old))

BoundedFairSpec == BoundedInit /\ [][Next]_vars /\ Fairness
=============================================================================
