--------------------------- MODULE MCTrainingSite ---------------------------
(* Values of TrainingSite's constants that a .cfg cannot write. *)
EXTENDS TrainingSite

MCQuizRight == [q \in 0..2 |-> q + 1]
MCDashHot == <<2, 3, 5>>
MCHamRandom == {{}}
MCSolveTries == [calibrate |-> 2, pnp |-> 3]
MCPoseSees == <<{3}, {3, 4}, {}>>
MCMultiSees == <<{1, 2, 3, 4}, {2, 3}>>
MCRowEnds == <<2, 3, 6>>
MCNtLegs == <<3, 2>>
MCNtParent == [TopLeft |-> "root", rawBytes |-> "TopLeft", targets |-> "rawBytes"]
MCImages ==
    {[p \in 0..11 |-> IF p \in black THEN 0 ELSE 255] : black \in SUBSET {0, 1, 4, 5, 6, 9, 10}}
MCCoSpots == {<<100, 100>>, <<-400, 0>>, <<3000, 2000>>}
MCCoTurns == {45, 90, -180}
MCCoAsked == {Pose(8259, 2921, h) : h \in {30, -45, 90, -90, 150}}
MCCoOrders == {<<"ok", "mirror", "cw", "red">>, <<"red", "cw", "ok", "mirror">>}
MCLlTimes == {24 + 3 * n : n \in 0..22}

=============================================================================
