----------------------------- MODULE Selection ------------------------------
(***************************************************************************)
(* The node selected in the explorer's tree (`selected` of `TreeState`,    *)
(* `last_selected` of `App`): the inspector and every pane follow it.      *)
(***************************************************************************)
VARIABLE selected
=============================================================================
