----------------------------- MODULE MCSceneCache -----------------------------
(* SceneCache with two small projects, for TLC. *)
EXTENDS SceneCache

On(s, ids) == [id |-> s, controls |-> [j \in DOMAIN ids |-> [id |-> ids[j], data |-> 1]]]

\* An empty scene and one with two controls; the scenes the other way round, one
\* control gone and the other in both.
SmallProjects == {
    <<On("t", <<>>), On("s", <<"a", "b">>)>>,
    <<On("s", <<"b">>), On("t", <<"b">>)>> }

OneEach == [k \in BudgetKinds |-> 1]
===============================================================================
