------------------------- MODULE MCEvidenceSnapshots -------------------------
(* Small instances of EvidenceSnapshots for TLC. *)
EXTENDS EvidenceSnapshots, TLC

\* A day on which articles were first seen at the first server of each pair.
Showed(strong, weak) == [p \in Pairs |-> IF p \in strong THEN 3
                                         ELSE IF p \in weak \/ Opposite(p) \in weak
                                         THEN (IF p \in weak THEN 3 ELSE 1)
                                         ELSE 0]
Quiet == Showed({}, {})

\* A server between two others that also joins a fourth; a circle,
\* and pairs apart, the first of which turned round on the second day.
SmallHistories ==
    { <<Showed({<<1, 2>>, <<2, 3>>}, {<<2, 4>>}), Quiet>>,
      <<Showed({<<1, 2>>, <<2, 3>>, <<3, 1>>}, {}), Showed({<<1, 2>>}, {})>>,
      <<Showed({<<1, 2>>, <<3, 4>>}, {}), Showed({<<2, 1>>}, {<<3, 4>>})>> }

\* Articles in one order, and one of four the other way.
FewCampaigns == {<<2, 1, 3, 0, 0>>, <<3, 4, 3, 1, 0>>}
SomeMissing == {<<1, 2>>}
SomeIncidents == {<<2, [None EXCEPT !.critical = 1]>>,
                  <<4, [critical |-> 0, warning |-> 1, recovering |-> 1]>>}

CapturerSymmetry == Permutations(Capturers)

OneConclusion == { << <<"community", 1>> >>, << <<"server", 2>> >> }
=============================================================================
