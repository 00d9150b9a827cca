----------------------------- MODULE MCScheduler -----------------------------
(* Small instances of Scheduler for TLC. *)
EXTENDS Scheduler

OneByOne == [k \in Kinds |-> 1]

\* The second job is the slow one; its backoff meets the cap.
TwoSpeeds == [j \in Jobs |-> IF j = 2 THEN 2 ELSE 1]
=============================================================================
