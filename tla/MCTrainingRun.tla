---------------------------- MODULE MCTrainingRun ----------------------------
(* Epochs of a few steps, values that improve, tie and are undefined, a death, and rejected *)
(* roots that a limit lets pass, that need a higher one and that none allows.               *)
EXTENDS TrainingRun, TLC

None == [roots |-> 0, positives |-> 0]

Loses(roots, positives) == [roots |-> roots, positives |-> positives]

\* The steps of these positions lose what they map to, the others nothing.
Training(losing) ==
    [p \in (0..(Epochs - 1)) \X (0..(Steps - 1)) |-> IF p \in DOMAIN losing THEN losing[p] ELSE None]

Of(losing, validation, test) ==
    [training |-> Training(losing), validation |-> validation, test |-> test]

\* No root is rejected; single roots of two epochs are; the whole batch of a step is.
Few ==
    {Of(<<>>, None, None),
     Of(<<0, 0>> :> Loses(1, 0) @@ <<1, 1>> :> Loses(1, 0), None, Loses(1, 0)),
     Of(<<0, 1>> :> Loses(2, 0), Loses(1, 0), None)}

\* Beside them: an observed positive, an epoch without any batch, a split without a class.
Many ==
    Few \cup
    {Of(<<1, 0>> :> Loses(1, 1), None, None),
     Of([p \in {1} \X (0..(Steps - 1)) |-> Loses(Batch, 0)], None, None),
     Of(<<>>, Loses(SplitRoots - 1, 0), None)}

Own == [settings |-> 1, dataset |-> 1, manifest |-> 1]

\* The run's own settings and dataset, other settings, and the dataset prepared anew.
SomeGivens == {Own, [Own EXCEPT !.settings = 2], [Own EXCEPT !.manifest = 2]}

OwnGiven == {Own}
===============================================================================
