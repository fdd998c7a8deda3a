------------------------------ MODULE MCTuiView ------------------------------
(* Two rows that stay and one that comes, goes and is edited, in two versions,  *)
(* on pages of one or two; filter and condition leave one row and one version. *)
EXTENDS TuiView

Sizes == <<1, 2>>
Ids == <<1, 2, 2>>
NothingOrTwo == {{}, {2}}
=============================================================================
