----------------------------- MODULE MCJobQueue -----------------------------
(***************************************************************************)
(* Small instances of JobQueue: an urgent job that is tried twice with a   *)
(* growing delay, and an ordinary one that starts late and is tried once.  *)
(* Both may be polled before their handler is registered.                  *)
(***************************************************************************)
EXTENDS JobQueue

\* The smallest times that tell before, at and after a due time apart.
MCJobOptions ==
    {[type |-> "x", priority |-> 3, maxRetries |-> 2, delay |-> 0,
      backoff |-> "exponential", retryDelay |-> 1],
     [type |-> "x", priority |-> 2, maxRetries |-> 0, delay |-> 1,
      backoff |-> "fixed", retryDelay |-> 1]}

MCPurgeAges == {0}
=============================================================================
