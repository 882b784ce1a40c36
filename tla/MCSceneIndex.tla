---------------------------- MODULE MCSceneIndex ----------------------------
(* SceneIndex with a concrete scene.  Ids are numbers because              *)
(* set_intersection compares them.                                         *)
EXTENDS SceneIndex, TLC

MCHomeScene == [h \in Hosters |-> "town"]

\* Half a unit from the origin on one axis: one step to the other side crosses
\* zero, where truncation folds two unit intervals into one cell.
MCBirth == [h \in Hosters |-> <<1, -3>>]
MCSpeed == [h \in Hosters |-> 1]
MCPoints == {<<0, 0>>, <<-1, 7>>, <<8, -3>>}
MCNearPoints == {<<0, 0>>, <<2, -2>>}

\* Network threads given as model values are interchangeable.
ThreadSymmetry == Permutations(NetThreads)
=============================================================================
