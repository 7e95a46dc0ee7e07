------------------------------ MODULE MCReplay ------------------------------
(* Models of Replay for TLC. *)
EXTENDS Replay, TLC

Symmetry == Permutations(Requests) \cup Permutations(Calls)

(* Plain replays, as the dashboard's button asks for them. *)
Plain == {NoInput}

(* One of each way a call can end: sent as stored, sent to a target of the
   payload, refused before it is sent. *)
Various ==
  {NoInput,
   [NoInput EXCEPT !.ctype = "exact", !.target = "custom", !.body = "custom"],
   [NoInput EXCEPT !.query = "bad"]}

(* The payload of the README. *)
Documented ==
  {[query |-> "empty", ctype |-> "exact", shape |-> "strings",
    target |-> "custom", method |-> "custom", headers |-> "custom",
    body |-> "custom"]}
=============================================================================
