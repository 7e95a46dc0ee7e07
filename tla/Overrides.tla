----------------------------- MODULE Overrides -----------------------------
(***************************************************************************)
(* What a call of POST /api/requests/{id}/replay may ask for, and what     *)
(* handleReplay (internal/server/server.go) makes of it.                   *)
(***************************************************************************)

(* query: ?target=; ctype: "exact" is application/json to the letter, "other"
   is none or one with parameters; shape: how the payload writes its header
   values; the rest are the payload's fields, "empty" if absent. *)
InputType ==
  [query  : {"empty", "query", "bad"},
   ctype  : {"exact", "other"},
   shape  : {"lists", "strings"},
   target : {"empty", "custom", "bad"},
   method : {"empty", "custom"}, headers : {"empty", "custom"},
   body : {"empty", "custom"}]

NoInput == [query |-> "empty", ctype |-> "other", shape |-> "lists",
            target |-> "empty", method |-> "empty", headers |-> "empty",
            body |-> "empty"]

(* The payload counts if the Content-Type is exactly application/json and the
   headers decode into model.HeaderMap, a map of lists of strings; if not, the
   whole of it is ignored. *)
Applies(i) == i.ctype = "exact" /\ (i.headers = "empty" \/ i.shape = "lists")

FieldAlways(i, value) == IF Applies(i) THEN value ELSE "stored"

Field(i, value) == IF Applies(i) /\ value # "empty" THEN value ELSE "stored"

KeepStoredHeaders(i) ==
  [target  |-> IF Applies(i) /\ i.target # "empty" THEN i.target
               ELSE IF i.query # "empty" THEN i.query ELSE "default",
   method  |-> Field(i, i.method),
   headers |-> "stored",
   body    |-> Field(i, i.body)]

(* What handleReplay hands to the dispatcher: the stored webhook, or a clone
   with the fields the payload fills in. *)
Outgoing(i) ==
  [target  |-> IF Applies(i) /\ i.target # "empty" THEN i.target
               ELSE IF i.query # "empty" THEN i.query ELSE "default",
   method  |-> Field(i, i.method),
   headers |-> Field(i, i.headers),
   body    |-> Field(i, i.body)]
=============================================================================
