------------------------------ MODULE Contents ------------------------------
(***************************************************************************)
(* What becomes of a webhook's content on its way through the edit form    *)
(* and the code snippets (web/static/js/modals.js): decoded with atob,     *)
(* laid out anew, its header values joined, and put into forms or code.    *)
(* Contents are classes of webhooks, as far as these conversions tell them *)
(* apart.                                                                  *)
(***************************************************************************)
EXTENDS Overrides

Methods == {"POST", "PUT", "GET", "HEAD"}

(* kind: no body, a JSON object, one with true, false or null in it, a JSON
   string, or no JSON; tokens: of JSON, as stringify writes them, spelled
   otherwise (1e2, escapes, members with numbers for names in another order),
   such that parse loses some (a number no double is, a member named twice), or
   with those lost; chars: ASCII, other bytes, or these taken for Latin-1;
   cr, tick: there is a CR outside strings, a backtick in it. *)
Body == [kind : {"none", "object", "literals", "string", "text"},
         tokens : {"plain", "spelled", "lossy", "altered"},
         layout : {"own", "pretty", "compact"},
         chars : {"ascii", "other", "garbled"}, cr : BOOLEAN, tick : BOOLEAN]

NoBody == [kind |-> "none", tokens |-> "plain", layout |-> "own", chars |-> "ascii",
           cr |-> FALSE, tick |-> FALSE]

IsJSON(b) == b.kind \in {"object", "literals", "string"}

StoredBody == {b \in Body : /\ b.layout = "own" /\ b.chars # "garbled"
                            /\ b.tokens # "altered" /\ (IsJSON(b) \/ b.tokens = "plain")
                            /\ b.kind = "none" => b = NoBody}

(* headers: none; one value each; several values of one; one value each and a
   quote in one; and what the page makes of the latter two. *)
Headers == {"none", "single", "several", "quoted", "joined", "unquoted"}

StoredHeaders == {"none", "single", "several", "quoted"}

Content == [method : Methods, query : BOOLEAN, headers : Headers, body : Body]

Stored == [method : Methods, query : BOOLEAN, headers : StoredHeaders, body : StoredBody]

-----------------------------------------------------------------------------
(* atob gives a character for each byte: UTF-8 comes out as Latin-1. *)
Atob(b) == IF b.chars = "other" THEN [b EXCEPT !.chars = "garbled"] ELSE b

(* JSON.stringify(JSON.parse(b)): numbers go through doubles, the last of two
   members of a name stays, and nothing of the spelling and the layout. *)
Reparsed(b, layout) ==
  [b EXCEPT !.layout = layout, !.cr = FALSE,
            !.tokens = IF b.tokens = "lossy" THEN "altered" ELSE "plain"]

(* The same indented by 2, or b if parse throws. *)
Pretty(b) == IF IsJSON(b) THEN Reparsed(b, "pretty") ELSE b

(* What is read back from a textarea, or from highlighted code, which went
   through innerHTML: a line ends with LF. *)
LineFeeds(b) == [b EXCEPT !.cr = FALSE]

(* v.join(', ') *)
Join(h) == IF h = "several" THEN "joined" ELSE h

-----------------------------------------------------------------------------
(* The edit form. *)

Options == {"POST", "GET", "PUT", "PATCH", "DELETE"}

(* openEditReplayModal: a method that is no option of the select leaves it
   without a value. *)
Filled(w) ==
  [method  |-> IF w.method \in Options THEN w.method ELSE "",
   headers |-> Join(w.headers),
   body    |-> LineFeeds(Pretty(Atob(w.body)))]

IsEmpty(value, f) == CASE f = "method"  -> value = ""
                       [] f = "headers" -> value = "none"
                       [] f = "body"    -> value = NoBody

(* submitCustomReplay: the payload of a form, as handleReplay reads it.
   blank: the fields without a value. *)
Payload(blank) ==
  LET Of(f) == IF f \in blank THEN "empty" ELSE "custom" IN
  [query |-> "empty", ctype |-> "exact", shape |-> "lists", target |-> Of("target"),
   method |-> Of("method"), headers |-> Of("headers"), body |-> Of("body")]

(* What the target gets of webhook w when the form fields are `values`.  The
   Content-Length among the headers goes no further than the dispatcher, which
   leaves it out. *)
Delivered(w, values, blank) ==
  LET out == Outgoing(Payload(blank)) IN
  [f \in {"method", "headers", "body"} |-> IF out[f] = "stored" THEN w[f] ELSE values[f]]

BlankOf(values) == {f \in {"method", "headers", "body"} : IsEmpty(values[f], f)}

-----------------------------------------------------------------------------
(* The snippets: whether the code runs as it is, and what it sends then. *)

Languages == {"curl", "js", "python", "go"}

(* fetch refuses a body for a GET or a HEAD, and "" is one; a text is no
   expression of either script; requests refuses a list for a header value,
   Python has no true, false, null; a Go raw string ends at a backtick, a
   string literal at a quote.  Without headers, the backslash of the first
   line of the curl command is followed by an empty line. *)
Runs(lang, w) ==
  CASE lang = "curl"   -> w.method # "HEAD" /\ (w.headers = "none" => w.body = NoBody)
    [] lang = "js"     -> w.method \notin {"GET", "HEAD"} /\ w.body.kind # "text"
    [] lang = "python" -> w.headers = "none" /\ w.body.kind \notin {"literals", "text"}
    [] lang = "go"     -> ~w.body.tick /\ w.headers # "quoted"

(* The body of the request: an object is sent by way of stringify or json=, a
   string as it is, without its quotes; what is copied into the code as text
   comes out of the highlighter. *)
CodeBody(lang, b) ==
  CASE lang \notin {"js", "python"} \/ ~IsJSON(b) -> LineFeeds(Atob(b))
    [] lang \in {"js", "python"} /\ b.kind = "string" ->
         [Reparsed(Atob(b), "compact") EXCEPT !.kind = "text"]
    [] OTHER -> Reparsed(Atob(b), "compact")

(* The request made of a body.  The URL is the path without the query; the
   shell takes quotes away.  All of them copy Content-Length: fetch ignores it,
   net/http too, while curl sends it instead of the length of its body. *)
RequestWith(lang, w, body) ==
  [method  |-> w.method, query |-> FALSE,
   headers |-> IF lang = "curl" /\ w.headers = "quoted" THEN "unquoted" ELSE Join(w.headers),
   body    |-> body,
   length  |-> IF lang = "curl" /\ w.headers # "none" /\ body # w.body
                 THEN "stale" ELSE "right"]

RequestPretty(lang, w) == RequestWith(lang, w, Pretty(Atob(w.body)))

Request(lang, w) == RequestWith(lang, w, CodeBody(lang, w.body))

-----------------------------------------------------------------------------
(* The same to a reader of JSON, or of text. *)
SameValue(b, c) ==
  /\ b.kind = c.kind /\ b.chars = c.chars /\ b.tick = c.tick
  /\ b.tokens = c.tokens \/ {b.tokens, c.tokens} = {"plain", "spelled"}

(* Replayed as stored, but for what the form's conversions lose. *)
SameButForLosses(w, got) ==
  /\ got.method = w.method
  /\ w.headers # "several" => got.headers = w.headers
  /\ w.body.chars = "ascii" /\ w.body.tokens # "lossy" => SameValue(got.body, w.body)
  /\ w.body.chars = "ascii" /\ ~IsJSON(w.body) /\ ~w.body.cr => got.body = w.body

(* A JSON object like most. *)
Ordinary(w) == w.method \in {"POST", "PUT"} /\ w.headers = "single"
               /\ w.body.kind = "object" /\ ~w.body.tick

(* The code in lang sends webhook w without its query, and but for what the
   conversions lose. *)
Resends(lang, w) ==
  LET q == Request(lang, w) IN
  /\ q.method = w.method
  /\ w.headers \in {"none", "single"} => q.headers = w.headers
  /\ w.body.chars = "ascii" /\ ~w.body.cr =>
       /\ q.length = "right"
       /\ lang \in {"curl", "go"} => q.body = w.body
       /\ w.body.tokens # "lossy" /\ w.body.kind # "string" => SameValue(q.body, w.body)
=============================================================================
