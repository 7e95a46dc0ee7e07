----------------------------- MODULE MCDialogs -----------------------------
(* Models of Dialogs for TLC. *)
EXTENDS Dialogs

OrdinaryPost ==
  [method |-> "POST", query |-> FALSE, headers |-> "single",
   body |-> [NoBody EXCEPT !.kind = "object"]]

(* A JSON POST like most; one whose JSON parse changes, with CRs and a quote in
   a header; and one with all else that gets lost: a method the form does not
   know, a query, a repeated header and a body that is neither JSON nor ASCII. *)
SomeWebhooks ==
  {OrdinaryPost,
   [method |-> "PUT", query |-> FALSE, headers |-> "quoted",
    body |-> [NoBody EXCEPT !.kind = "object", !.tokens = "lossy", !.cr = TRUE]],
   [method |-> "HEAD", query |-> TRUE, headers |-> "several",
    body |-> [NoBody EXCEPT !.kind = "text", !.chars = "other"]]}

OneWebhook == {OrdinaryPost}
=============================================================================
