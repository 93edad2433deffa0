---------------------------- MODULE MCLifecycle ------------------------------
(* Two set-ups of the entry: a failed or unloaded one and its successor. *)
EXTENDS LifecycleLive

\* A stopped coordinator's grace and transition flag are never read again.
LivingState ==
  <<life, armed, coalesce, retry, evals, flip, unseen, commander, disk,
    [i \in Instances |-> IF stopped[i] THEN <<"none", FALSE>>
                         ELSE <<grace[i], transition[i]>>]>>
=============================================================================
