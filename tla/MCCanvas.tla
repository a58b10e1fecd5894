------------------------------ MODULE MCCanvas ------------------------------
\* The frames of the canvas and its stage.  They share no state beyond what Stage states
\* of refresh: a behaviour is of one of them, and the other stands still.
EXTENDS Canvas, Stage

VARIABLE part

Stages(wheels, downs, others) == [wheels |-> wheels, downs |-> downs, changes |-> others]

\* Zoom while one gesture runs; gestures that overlap; all three.
MCStages == {Stages(2, 1, 0), Stages(0, 2, 1), Stages(1, 1, 1)}

MCInit ==
  /\ Init /\ StageInit
  /\ part \in {"frames", "stage"}
  /\ part = "stage" => children = <<>>
  /\ part = "frames" => window = Max(Widths) /\ pointer = Max(Spots) /\ left = Stages(0, 2, 1)

MCNext ==
  /\ \/ part = "frames" /\ Next /\ UNCHANGED stageVars
     \/ part = "stage" /\ StageNext /\ UNCHANGED canvasVars
  /\ UNCHANGED part

MCSpec == MCInit /\ [][MCNext]_<<part, canvasVars, stageVars>>
=============================================================================
