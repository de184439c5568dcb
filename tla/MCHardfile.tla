----------------------------- MODULE MCHardfile -----------------------------
(* uaehf.device with requests, copies and threads that are alike. *)
EXTENDS HardfileIO, TLC

\* No definition tells two requests, two copies or two threads apart, and no property is about
\* liveness.
Alike ==
  {r @@ b @@ t : r \in Permutations(Requests), b \in Permutations(Bufs), t \in Permutations(Threads)}
=============================================================================
