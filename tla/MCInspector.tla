---------------------------- MODULE MCInspector ----------------------------
(* Models of Inspector for TLC. *)
EXTENDS Inspector, TLC

CONSTANTS plain, odd

TwoWebhooks == {plain, odd}
OneOdd == {odd}

(* No filter; a search that finds the plain webhook; the same with a button
   pressed that hides the odd one. *)
SomeSettings ==
  {All, [All EXCEPT !.search = {plain}], [buttons |-> {plain}, search |-> {plain}]}

Symmetry == Permutations(Slots)

(* States that differ in nothing but the panes of a torn workspace are one: no
   property speaks of those panes, no action goes by them, and the rendering
   that mends the workspace overwrites them. *)
View == <<serverVars, stream, load, fetches, pageVars, rows, shown,
          IF torn THEN None ELSE <<payload, response, mark, clicked>>,
          torn, astray, doomed, unsent, twice>>
=============================================================================
