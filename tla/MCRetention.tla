----------------------------- MODULE MCRetention -----------------------------
(* Small instances of Retention for TLC. *)
EXTENDS Retention

CONSTANTS m1, m2

EveryCommand == [m \in Maintainers |->
    {"apply", "retire-partition", "retire-eligible", "ensure-partitions"}]

\* Scheduled maintenance beside an operator's commands.
TwoCommandsEach == [m \in Maintainers |->
    IF m = m1 THEN {"retire-eligible", "ensure-partitions"} ELSE {"retire-partition", "apply"}]
=============================================================================
