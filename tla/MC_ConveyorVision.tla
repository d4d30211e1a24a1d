------------------------- MODULE MC_ConveyorVision -------------------------
EXTENDS ConveyorVision

\* The robot itself, a ring station and a base station, in world order.
MC_Models == <<"robot", "RS", "BS">>

MC_LinksPresent == [camera : BOOLEAN, base : BOOLEAN]

\* Set-conveyor messages moving the conveyor by 10 mm either way.
MC_Data == {-10, 10}
=============================================================================
