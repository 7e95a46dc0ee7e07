--------------------------- MODULE DialogsProofs ---------------------------
(***************************************************************************)
(* Proofs about Dialogs, for any webhooks, templates and calls: what the   *)
(* forms send, and what the dialogs show and say.                          *)
(***************************************************************************)
EXTENDS Dialogs, TLAPS

-----------------------------------------------------------------------------
(* The content of a webhook in the form, and at the target. *)

Fields == {"method", "headers", "body"}

(* A field without a value is as stored, any other one arrives. *)
LEMMA DeliveredField ==
  ASSUME NEW w, NEW values, NEW blank, NEW f \in Fields
  PROVE  Delivered(w, values, blank)[f] = IF f \in blank THEN w[f] ELSE values[f]
  <1> DEFINE p == Payload(blank)
             Of(g) == IF g \in blank THEN "empty" ELSE "custom"
  <1>1. /\ p.ctype = "exact" /\ p.shape = "lists"
        /\ p.method = Of("method") /\ p.headers = Of("headers") /\ p.body = Of("body")
    BY DEF Payload
  <1>2. Applies(p)
    BY <1>1 DEF Applies
  <1>3. Outgoing(p)[f] = IF f \in blank THEN "stored" ELSE "custom"
    <2> HIDE DEF p
    <2>1. CASE f = "method"
      BY <1>1, <1>2, <2>1 DEF Outgoing, Field
    <2>2. CASE f = "headers"
      BY <1>1, <1>2, <2>2 DEF Outgoing, Field
    <2>3. CASE f = "body"
      BY <1>1, <1>2, <2>3 DEF Outgoing, Field
    <2> QED
      BY <2>1, <2>2, <2>3 DEF Fields
  <1> QED
    BY <1>3 DEF Delivered, Fields

(* Laid out anew, JSON is of the same value, unless parse loses some. *)
LEMMA ReparsedValue ==
  ASSUME NEW b \in Body, b.tokens \in {"plain", "spelled"}, NEW layout
  PROVE  SameValue(Reparsed(b, layout), b)
  <1> DEFINE r == Reparsed(b, layout)
  <1>1. r.kind = b.kind /\ r.chars = b.chars /\ r.tick = b.tick /\ r.tokens = "plain"
    BY DEF Reparsed, Body
  <1> QED
    BY <1>1 DEF SameValue

(* A body that has no CR, or none any more. *)
LEMMA LineFed ==
  ASSUME NEW b \in Body
  PROVE  /\ LineFeeds(b) \in Body
         /\ SameValue(LineFeeds(b), b)
         /\ ~b.cr => LineFeeds(b) = b
  BY DEF LineFeeds, Body, SameValue

LEMMA AsciiAsIs ==
  ASSUME NEW b \in Body, b.chars = "ascii"
  PROVE  Atob(b) = b
  BY DEF Atob

(* What the conversions of the form keep of a stored webhook. *)
LEMMA FilledKeeps ==
  ASSUME NEW w \in Stored
  PROVE  /\ w.method # ""
         /\ Filled(w).method \in {w.method, ""}
         /\ w.headers # "several" => Filled(w).headers = w.headers
         /\ w.headers = "several" => Filled(w).headers # "none"
         /\ w.body.chars = "ascii" /\ w.body.tokens # "lossy"
              => SameValue(Filled(w).body, w.body)
         /\ w.body.chars = "ascii" /\ ~IsJSON(w.body) /\ ~w.body.cr
              => Filled(w).body = w.body
         /\ Filled(w).body = NoBody => w.body = NoBody
  <1>1. /\ w.method \in Methods /\ w.headers \in StoredHeaders /\ w.body \in StoredBody
    BY DEF Stored
  <1>2. /\ w.method # "" /\ Filled(w).method \in {w.method, ""}
    BY <1>1 DEF Filled, Methods
  <1>3. /\ w.headers # "several" => Filled(w).headers = w.headers
        /\ w.headers = "several" => Filled(w).headers # "none"
    BY <1>1 DEF Filled, Join
  <1>4. Filled(w).body = LineFeeds(Pretty(Atob(w.body)))
    BY DEF Filled
  <1>5. /\ w.body \in Body /\ (w.body.kind = "none" => w.body = NoBody)
        /\ w.body.tokens \in {"plain", "spelled", "lossy"}
    BY <1>1 DEF StoredBody, Body
  <1>6. ASSUME w.body.chars = "ascii", w.body.tokens # "lossy"
        PROVE  SameValue(Filled(w).body, w.body)
    <2>1. Filled(w).body = LineFeeds(Pretty(w.body))
      BY <1>4, <1>5, <1>6, AsciiAsIs
    <2>2. CASE IsJSON(w.body)
      <3>1. Pretty(w.body) = Reparsed(w.body, "pretty")
        BY <2>2 DEF Pretty
      <3>2. Reparsed(w.body, "pretty") \in Body
        BY <1>5 DEF Reparsed, Body
      <3>3. Reparsed(w.body, "pretty").cr = FALSE
        BY <1>5 DEF Reparsed, Body
      <3>4. Filled(w).body = Reparsed(w.body, "pretty")
        BY <2>1, <3>1, <3>2, <3>3, LineFed
      <3> QED
        BY <1>5, <1>6, <3>4, ReparsedValue
    <2>3. CASE ~IsJSON(w.body)
      BY <1>5, <2>1, <2>3, LineFed DEF Pretty
    <2> QED
      BY <2>2, <2>3
  <1>7. ASSUME w.body.chars = "ascii", ~IsJSON(w.body), ~w.body.cr
        PROVE  Filled(w).body = w.body
    BY <1>4, <1>5, <1>7, AsciiAsIs, LineFed DEF Pretty
  <1>8. Filled(w).body = NoBody => w.body = NoBody
    <2>1. Filled(w).body.kind = w.body.kind
      BY <1>4, <1>5 DEF Body, LineFeeds, Pretty, Atob, Reparsed
    <2> QED
      BY <1>5, <2>1 DEF NoBody
  <1> QED
    BY <1>2, <1>3, <1>6, <1>7, <1>8

(* The form submitted as it was opened, for every stored webhook. *)
LEMMA UntouchedKeeps ==
  ASSUME NEW w \in Stored, NEW values,
         \A f \in Fields : values[f] = Filled(w)[f]
  PROVE  SameButForLosses(w, Delivered(w, values, BlankOf(values)))
  <1> DEFINE got == Delivered(w, values, BlankOf(values))
  <1>1. \A f \in Fields : got[f] = IF IsEmpty(values[f], f) THEN w[f] ELSE values[f]
    BY DeliveredField DEF BlankOf, Fields
  <1>2. got["method"] = w.method
    BY <1>1, FilledKeeps DEF IsEmpty, Fields
  <1>3. w.headers # "several" => got["headers"] = w.headers
    BY <1>1, FilledKeeps DEF IsEmpty, Fields
  <1>4. got["body"] = w.body \/ got["body"] = Filled(w).body
    BY <1>1 DEF Fields
  <1>5. SameValue(w.body, w.body)
    BY DEF SameValue
  <1>6. /\ w.body.chars = "ascii" /\ w.body.tokens # "lossy"
             => SameValue(got["body"], w.body)
        /\ w.body.chars = "ascii" /\ ~IsJSON(w.body) /\ ~w.body.cr
             => got["body"] = w.body
    BY <1>4, <1>5, FilledKeeps
  <1> QED
    BY <1>2, <1>3, <1>6 DEF SameButForLosses

(* A field that shows a value is sent, one that was edited shows one. *)
LEMMA SubmittedSends ==
  ASSUME NEW k \in CallType, NEW f \in Fields
  PROVE  /\ k.form[f] = "edited" => Got(k)[f] = Edited[f]
         /\ ~IsEmpty(Values(k.form)[f], f) => Got(k)[f] = Values(k.form)[f]
  <1>1. Got(k)[f] = IF f \in BlankOf(Values(k.form)) THEN k.to[f] ELSE Values(k.form)[f]
    BY DeliveredField DEF Got
  <1>2. ~IsEmpty(Values(k.form)[f], f) => Got(k)[f] = Values(k.form)[f]
    BY <1>1 DEF BlankOf
  <1>3. k.form[f] = "edited" => Values(k.form)[f] = Edited[f]
    BY DEF Values, Fields
  <1>4. ~IsEmpty(Edited[f], f)
    <2>1. [NoBody EXCEPT !.kind = "edited"] # NoBody
      <3>1. [NoBody EXCEPT !.kind = "edited"].kind = "edited" /\ NoBody.kind = "none"
        BY DEF NoBody
      <3> QED
        BY <3>1
    <2>2. /\ Edited["method"] = "PATCH" /\ Edited["headers"] = "edited"
          /\ Edited["body"] = [NoBody EXCEPT !.kind = "edited"]
      BY DEF Edited
    <2>3. /\ ~IsEmpty(Edited["method"], "method") /\ ~IsEmpty(Edited["headers"], "headers")
          /\ ~IsEmpty(Edited["body"], "body")
      BY <2>1, <2>2 DEF IsEmpty
    <2> QED
      BY <2>3 DEF Fields
  <1> QED
    BY <1>2, <1>3, <1>4

(* The body of the request that code makes. *)
LEMMA CodeBodyKeeps ==
  ASSUME NEW b \in Body, NEW lang \in Languages, b.chars = "ascii", ~b.cr
  PROVE  /\ lang \in {"curl", "go"} => CodeBody(lang, b) = b
         /\ b.tokens \in {"plain", "spelled"} /\ b.kind # "string"
              => SameValue(CodeBody(lang, b), b)
  <1>1. CASE lang \notin {"js", "python"} \/ ~IsJSON(b)
    <2>1. CodeBody(lang, b) = b
      <3>1. Atob(b) = b /\ LineFeeds(b) = b
        BY AsciiAsIs, LineFed
      <3>2. CodeBody(lang, b) = LineFeeds(Atob(b))
        BY <1>1 DEF CodeBody, IsJSON
      <3> QED
        BY <3>1, <3>2
    <2> QED
      BY <2>1 DEF SameValue
  <1>2. CASE lang \in {"js", "python"} /\ IsJSON(b) /\ b.kind # "string"
    <2>1. CodeBody(lang, b) = Reparsed(b, "compact")
      BY <1>2, AsciiAsIs DEF CodeBody
    <2> QED
      BY <1>2, <2>1, ReparsedValue
  <1>3. CASE lang \in {"js", "python"} /\ b.kind = "string"
    BY <1>3
  <1> QED
    BY <1>1, <1>2, <1>3

(* The code of every stored webhook, in every language. *)
LEMMA CodeResends ==
  ASSUME NEW w \in Stored, NEW lang \in Languages
  PROVE  Resends(lang, w)
  <1> DEFINE q == Request(lang, w)
             b == CodeBody(lang, w.body)
  <1>1. w.body \in Body /\ w.body.tokens \in {"plain", "spelled", "lossy"}
    BY DEF Stored, StoredBody, Body
  <1>2. q.method = w.method /\ q.body = b
    BY DEF Request, RequestWith
  <1>3. w.headers \in {"none", "single"} => q.headers = w.headers
    BY DEF Request, RequestWith, Join
  <1>4. q.length = IF lang = "curl" /\ w.headers # "none" /\ b # w.body
                     THEN "stale" ELSE "right"
    BY DEF Request, RequestWith
  <1>5. ASSUME w.body.chars = "ascii", ~w.body.cr
        PROVE  /\ lang \in {"curl", "go"} => b = w.body
               /\ w.body.tokens # "lossy" /\ w.body.kind # "string" => SameValue(b, w.body)
    BY <1>1, <1>5, CodeBodyKeeps
  <1> HIDE DEF q, b
  <1>6. ASSUME w.body.chars = "ascii", ~w.body.cr
        PROVE  /\ q.length = "right"
               /\ lang \in {"curl", "go"} => q.body = w.body
               /\ w.body.tokens # "lossy" /\ w.body.kind # "string"
                    => SameValue(q.body, w.body)
    BY <1>2, <1>4, <1>5, <1>6
  <1> QED
    BY <1>2, <1>3, <1>6 DEF Resends, q

(* That of an ordinary webhook runs, but for Python. *)
LEMMA OrdinaryRuns ==
  ASSUME NEW w \in Stored, Ordinary(w), NEW lang \in Languages
  PROVE  Runs(lang, w) <=> lang # "python"
  <1>1. w.body # NoBody
    BY DEF Ordinary, NoBody
  <1> QED
    BY <1>1 DEF Ordinary, Runs, Languages

-----------------------------------------------------------------------------
(* The dialogs. *)

(* An open form was filled from a webhook, the current one unless that
   changed; so is the webhook of a call. *)
FormOf ==
  /\ dialog = "edit" => form.of # None /\ (form.of = current \/ moved)
  /\ \A c \in Slots : calls[c].op = "replay" =>
       /\ calls[c].to # None
       /\ calls[c].to = calls[c].form.of \/ calls[c].moved

(* There is code in an open snippet dialog. *)
SnippetOf == dialog = "snippet" => snippet.lang # None /\ snippet.of # None

(* What the server has done is what it was asked for, once it says so. *)
CallTrue ==
  \A c \in Slots :
    /\ calls[c].op = "none" => calls[c].stage = "idle"
    /\ calls[c].stage = "ok" => calls[c].effect = calls[c].asks /\ calls[c].asks # "none"
    /\ calls[c].op = "dispatch" => calls[c].asks \in {"none", "captured", "cleared"}
    /\ calls[c].op = "clear" => calls[c].asks = "cleared"

Inv == /\ TypeOK /\ FormOf /\ SnippetOf /\ CallTrue
       /\ SnippetCurrent /\ PreviewTrue /\ NoticeTrue

(* The part of it about calls. *)
CallsInv ==
  /\ calls \in [Slots -> CallType]
  /\ \A c \in Slots : calls[c].op = "replay" <=> calls[c].form.of # None
  /\ \A c \in Slots : calls[c].op = "replay" =>
       calls[c].to # None /\ (calls[c].to = calls[c].form.of \/ calls[c].moved)
  /\ CallTrue

(* The part about what is on the screen. *)
ScreenInv ==
  /\ current \in Webhooks \cup {None}
  /\ dialog  \in {"none", "edit", "snippet", "simulate", "clear"}
  /\ form    \in FormType
  /\ snippet \in [tab : Languages, lang : Languages \cup {None}, of : Webhooks \cup {None}]
  /\ sim     \in SimType
  /\ moved   \in BOOLEAN
  /\ dialog = "edit" => form.of # None /\ (form.of = current \/ moved)
  /\ SnippetOf /\ SnippetCurrent /\ PreviewTrue

SaidInv ==
  /\ said \in [text : {"none", "executed", "executedAndFailed", "replayFailed", "dispatched",
                       "dispatchFailed", "badHeaders", "cleared", "clearFailed"},
                effect : Effects]
  /\ NoticeTrue

LEMMA Parts == /\ Inv <=> CallsInv /\ ScreenInv /\ SaidInv
               /\ Inv' <=> CallsInv' /\ ScreenInv' /\ SaidInv'
  BY DEF Inv, TypeOK, FormOf, CallsInv, ScreenInv, SaidInv

LEMMA FormTypes ==
  /\ NoForm \in FormType
  /\ \A w \in Webhooks \cup {None} : [NoForm EXCEPT !.of = w] \in FormType
  BY DEF NoForm, FormType

LEMMA NoCallType == NoCall \in CallType /\ NoCall.op = "none" /\ NoCall.form.of = None
  BY FormTypes DEF NoCall, CallType, Effects, NoForm

LEMMA NoSimType == NoSim \in SimType
  BY DEF NoSim, SimType

LEMMA SnippetTypes ==
  NoSnippet \in [tab : Languages, lang : Languages \cup {None}, of : Webhooks \cup {None}]
  BY DEF NoSnippet, Languages

LEMMA SilenceType == Silence.text = "none" /\ Silence.effect = "none"
  BY DEF Silence

LEMMA InitInv == Init => Inv
  <1> SUFFICES ASSUME Init PROVE Inv
    OBVIOUS
  <1>1. TypeOK
    BY FormTypes, NoCallType, NoSimType, SnippetTypes
    DEF Init, TypeOK, Effects, Silence
  <1>2. FormOf /\ CallTrue
    BY DEF Init, FormOf, CallTrue, NoCall
  <1> QED
    BY <1>1, <1>2 DEF Init, Inv, SnippetOf, SnippetCurrent, PreviewTrue, NoticeTrue, Silence

(* A dialog closes. *)
LEMMA CloseInv ==
  ASSUME Inv, Close
  PROVE  Inv'
  BY FormTypes, NoSimType, SnippetTypes, SilenceType
  DEF Close, Shut, Inv, TypeOK, FormOf, SnippetOf, CallTrue, SnippetCurrent, PreviewTrue,
      NoticeTrue, Effects, Silence

LEMMA InspectInv ==
  ASSUME Inv, NEW w \in Webhooks \cup {None}, Inspect(w)
  PROVE  Inv'
  BY SilenceType
  DEF Inspect, Inv, TypeOK, FormOf, SnippetOf, CallTrue, SnippetCurrent, PreviewTrue,
      NoticeTrue, Effects, Silence

LEMMA EditInv ==
  ASSUME Inv,
         \/ OpenEdit \/ SubmitToNull
         \/ Edit("method", "edited")
         \/ \E f \in {"headers", "body"}, state \in {"edited", "cleared"} : Edit(f, state)
  PROVE  Inv'
  <1>1. /\ form' \in FormType
        /\ dialog' = "edit" /\ dialog \in {"none", "edit"}
        /\ form'.of # None /\ (form'.of = current \/ moved)
        /\ said' \in [text : {"none", "replayFailed"}, effect : {"none"}]
        /\ UNCHANGED <<current, snippet, sim, calls, moved>>
    <2>1. CASE OpenEdit
      BY <2>1, FormTypes DEF OpenEdit, Inv, TypeOK, Silence, NoForm
    <2>2. CASE SubmitToNull
      BY <2>2 DEF SubmitToNull, Inv, TypeOK, FormOf
    <2>3. ASSUME NEW f \in Fields, NEW state \in {"edited", "cleared"}, Edit(f, state),
                 f = "method" => state = "edited"
          PROVE  form' \in FormType /\ form'.of = form.of
      BY <2>3 DEF Edit, Inv, TypeOK, FormType, Fields
    <2>4. CASE \/ Edit("method", "edited")
               \/ \E f \in {"headers", "body"}, state \in {"edited", "cleared"} : Edit(f, state)
      BY <2>3, <2>4 DEF Edit, Fields, Inv, FormOf, Silence
    <2> QED
      BY <2>1, <2>2, <2>4
  <1>2. TypeOK'
    BY <1>1 DEF Inv, TypeOK, Effects
  <1> QED
    BY <1>1, <1>2
    DEF Inv, FormOf, SnippetOf, CallTrue, SnippetCurrent, PreviewTrue, NoticeTrue

LEMMA SnippetInv ==
  ASSUME Inv, OpenSnippet \/ \E lang \in Languages : SnippetTab(lang)
  PROVE  Inv'
  <1>1. PICK lang \in Languages :
          /\ SetSnippetLang(lang) /\ dialog' = "snippet" /\ said' = Silence
          /\ current # None \/ dialog = "snippet"
          /\ UNCHANGED <<current, form, sim, calls>>
    BY DEF OpenSnippet, SnippetTab, Languages
  <1>2. /\ snippet'.tab \in Languages /\ snippet'.lang \in Languages
        /\ snippet'.of \in Webhooks
        /\ snippet' = [tab |-> snippet'.tab, lang |-> snippet'.lang, of |-> snippet'.of]
        /\ moved' \in BOOLEAN
        /\ moved' \/ (snippet'.lang = snippet'.tab /\ snippet'.of = current)
    <2>1. CASE current = None
      BY <1>1, <2>1
      DEF SetSnippetLang, Inv, TypeOK, SnippetOf, SnippetCurrent
    <2>2. CASE current # None
      <3>1. snippet' = [tab |-> lang, lang |-> lang, of |-> current] /\ moved' = FALSE
        BY <1>1, <2>2 DEF SetSnippetLang
      <3>2. current \in Webhooks
        BY <2>2 DEF Inv, TypeOK
      <3> QED
        BY <3>1, <3>2
    <2> QED
      BY <2>1, <2>2
  <1>3. TypeOK'
    BY <1>1, <1>2 DEF Inv, TypeOK, Effects, Silence
  <1>4. (SnippetOf /\ SnippetCurrent)'
    BY <1>1, <1>2, DialogsAssumption DEF SnippetOf, SnippetCurrent
  <1> QED
    BY <1>1, <1>3, <1>4
    DEF Inv, FormOf, CallTrue, PreviewTrue, NoticeTrue, Silence

-----------------------------------------------------------------------------
(* The steps of the simulator. *)
LEMMA SimInv ==
  ASSUME Inv,
         \/ OpenSim
         \/ \E name \in Presets : PickPreset(name)
         \/ \E method \in {"POST", "GET", "DELETE"}, path \in {"wh", "api"} :
              EditRequestLine(method, path)
         \/ \E mode \in {"highlight", "edit"} :
              SetSimHeadersMode(mode) \/ SetSimPayloadMode(mode)
         \/ \E value \in {"edited", "broken"} : EditSimHeaders(value)
         \/ EditSimPayload
  PROVE  Inv'
  <1> DEFINE True(s) == /\ s.headersMode = "highlight" => s.headersPreview = s.headers
                        /\ s.payloadMode = "highlight" => s.payloadPreview = s.payload
  <1>1. ASSUME NEW name \in Presets, NEW s \in SimType
        PROVE  SelectPreset(name, s) \in SimType /\ True(SelectPreset(name, s))
    BY DEF SelectPreset, Preset, SimType
  <1>2. sim \in SimType /\ (dialog = "simulate" => True(sim))
    BY DEF Inv, TypeOK, PreviewTrue
  <1>3. /\ sim' \in SimType /\ True(sim')
        /\ dialog' = "simulate" /\ said' = Silence
        /\ UNCHANGED <<current, form, snippet, calls, moved>>
    <2>1. CASE OpenSim
      BY <1>1, <2>1, NoSimType, DialogsAssumption DEF OpenSim
    <2>2. ASSUME NEW name \in Presets, PickPreset(name) PROVE <1>3!:
      BY <1>1, <1>2, <2>2 DEF PickPreset, SimStep
    <2>3. ASSUME NEW method \in {"POST", "GET", "DELETE"}, NEW path \in {"wh", "api"},
                 EditRequestLine(method, path)
          PROVE  <1>3!:
      BY <1>2, <2>3 DEF EditRequestLine, SimStep, SimType
    <2>4. ASSUME NEW mode \in {"highlight", "edit"},
                 SetSimHeadersMode(mode) \/ SetSimPayloadMode(mode)
          PROVE  <1>3!:
      BY <1>2, <2>4 DEF SetSimHeadersMode, SetSimPayloadMode, SimStep, SimType
    <2>5. ASSUME NEW value \in {"edited", "broken"}, EditSimHeaders(value)
          PROVE  <1>3!:
      BY <1>2, <2>5 DEF EditSimHeaders, SimStep, SimType
    <2>6. CASE EditSimPayload
      BY <1>2, <2>6 DEF EditSimPayload, SimStep, SimType
    <2> QED
      BY <2>1, <2>2, <2>3, <2>4, <2>5, <2>6
  <1>4. TypeOK'
    BY <1>3, SilenceType DEF Inv, TypeOK, Effects, Silence
  <1> QED
    BY <1>3, <1>4
    DEF Inv, FormOf, SnippetOf, CallTrue, SnippetCurrent, PreviewTrue, NoticeTrue, Silence

(* What is refused before it is sent; and the confirmation dialog. *)
LEMMA OtherInv ==
  ASSUME Inv, DispatchRefused \/ OpenClear
  PROVE  Inv'
  BY SilenceType
  DEF DispatchRefused, DispatchFails, OpenClear, Inv, TypeOK, FormOf, SnippetOf, CallTrue,
      SnippetCurrent, PreviewTrue, NoticeTrue, Effects, Silence

-----------------------------------------------------------------------------
(* The calls. *)

LEMMA SendInv ==
  ASSUME Inv, NEW c \in Slots, Submit(c) \/ Dispatch(c) \/ ConfirmClear(c)
  PROVE  Inv'
  <1> DEFINE Good(k) ==
        /\ k \in CallType /\ k.stage = "sent"
        /\ k.op = "replay" <=> k.form.of # None
        /\ k.op = "replay" => k.to # None /\ (k.to = k.form.of \/ k.moved)
        /\ k.op # "none"
        /\ k.op = "dispatch" => k.asks \in {"none", "captured", "cleared"}
        /\ k.op = "clear" => k.asks = "cleared"
  <1>1. PICK k : /\ Good(k) /\ calls' = [calls EXCEPT ![c] = k] /\ said' = Silence
                 /\ UNCHANGED <<current, dialog, form, snippet, sim, moved>>
    <2>1. CASE Submit(c)
      <3> DEFINE k == [NoCall EXCEPT !.op = "replay", !.asks = "replayed", !.to = current,
                                     !.form = form, !.moved = moved, !.stage = "sent"]
      <3>1. Good(k)
        BY <2>1, NoCallType DEF Submit, Inv, TypeOK, FormOf, CallType, Effects
      <3> QED
        BY <2>1, <3>1 DEF Submit, Send
    <2>2. CASE Dispatch(c)
      <3> DEFINE k == [NoCall EXCEPT !.op = "dispatch", !.asks = Asks(sim), !.stage = "sent"]
      <3>1. Asks(sim) \in {"none", "captured", "cleared"}
        BY DEF Asks
      <3>2. Good(k)
        BY <3>1, NoCallType DEF CallType, Effects
      <3> QED
        BY <2>2, <3>2 DEF Dispatch, Send
    <2>3. CASE ConfirmClear(c)
      <3> DEFINE k == [NoCall EXCEPT !.op = "clear", !.asks = "cleared", !.stage = "sent"]
      <3>1. Good(k)
        BY NoCallType DEF CallType, Effects
      <3> QED
        BY <2>3, <3>1 DEF ConfirmClear, Send
    <2> QED
      BY <2>1, <2>2, <2>3
  <1>2. CallsInv'
    BY <1>1, Parts DEF CallsInv, CallTrue
  <1>3. ScreenInv' /\ SaidInv'
    BY <1>1, Parts DEF ScreenInv, SnippetOf, SnippetCurrent, PreviewTrue, SaidInv,
                       NoticeTrue, Silence, Effects
  <1> QED
    BY <1>2, <1>3, Parts

LEMMA CallEnds ==
  ASSUME CallsInv, NEW c \in Slots, calls' = [calls EXCEPT ![c] = NoCall]
  PROVE  CallsInv'
  BY NoCallType DEF CallsInv, CallTrue, NoCall

LEMMA ShutScreen ==
  ASSUME ScreenInv, Shut, current' \in Webhooks \cup {None}
  PROVE  ScreenInv'
  BY FormTypes, NoSimType, SnippetTypes
  DEF Shut, ScreenInv, SnippetOf, SnippetCurrent, PreviewTrue

LEMMA SameScreen ==
  ASSUME ScreenInv, UNCHANGED <<current, dialog, form, snippet, sim, moved>>
  PROVE  ScreenInv'
  BY DEF ScreenInv, SnippetOf, SnippetCurrent, PreviewTrue

(* An answer, or none, and what is said then. *)
LEMMA AnswerInv ==
  ASSUME Inv, NEW c \in Slots,
         SubmitAnswered(c) \/ DispatchAnswered(c) \/ ClearAnswered(c) \/ CallLost(c)
  PROVE  Inv'
  <1>1. CallsInv /\ ScreenInv /\ calls[c] \in CallType
    BY Parts DEF CallsInv
  <1>2. CallsInv'
    BY <1>1, CallEnds DEF SubmitAnswered, DispatchAnswered, ClearAnswered, CallLost
  <1>3. ScreenInv'
    <2>1. CASE SubmitAnswered(c)
      BY <1>1, <2>1, ShutScreen, SameScreen DEF SubmitAnswered, CloseModal, ScreenInv
    <2>2. CASE DispatchAnswered(c)
      BY <1>1, <2>2, ShutScreen, SameScreen DEF DispatchAnswered, CloseModal, ScreenInv
    <2>3. CASE ClearAnswered(c)
      <3>1. CASE calls[c].stage = "ok" /\ dialog # "clear"
        BY <1>1, <2>3, <3>1
        DEF ClearAnswered, ScreenInv, SnippetOf, SnippetCurrent, PreviewTrue
      <3>2. CASE ~(calls[c].stage = "ok" /\ dialog # "clear")
        BY <1>1, <2>3, <3>2, ShutScreen, SameScreen DEF ClearAnswered
      <3> QED
        BY <3>1, <3>2
    <2>4. CASE CallLost(c)
      BY <1>1, <2>4, SameScreen DEF CallLost
    <2> QED
      BY <2>1, <2>2, <2>3, <2>4
  <1>4. SaidInv'
    <2>1. calls[c].effect \in Effects
      BY <1>1 DEF CallType
    <2>2. calls[c].stage = "ok" => calls[c].effect = calls[c].asks /\ calls[c].asks # "none"
      BY <1>1 DEF CallsInv, CallTrue
    <2>3. CASE SubmitAnswered(c)
      BY <2>1, <2>3 DEF SubmitAnswered, SaidInv, NoticeTrue
    <2>4. CASE DispatchAnswered(c)
      <3>1. calls[c].asks \in {"none", "captured", "cleared"}
        BY <1>1, <2>4 DEF DispatchAnswered, CallsInv, CallTrue
      <3> QED
        BY <2>1, <2>2, <2>4, <3>1 DEF DispatchAnswered, SaidInv, NoticeTrue
    <2>5. CASE ClearAnswered(c)
      <3>1. calls[c].asks = "cleared"
        BY <1>1, <2>5 DEF ClearAnswered, CallsInv, CallTrue
      <3> QED
        BY <2>1, <2>2, <2>5, <3>1 DEF ClearAnswered, SaidInv, NoticeTrue
    <2>6. CASE CallLost(c)
      <3>1. calls[c].op \in {"replay", "dispatch", "clear"}
        BY <1>1, <2>6 DEF CallLost, CallsInv, CallTrue, CallType
      <3> QED
        BY <2>1, <2>6, <3>1 DEF CallLost, SaidInv, NoticeTrue
    <2> QED
      BY <2>3, <2>4, <2>5, <2>6
  <1> QED
    BY <1>2, <1>3, <1>4, Parts

LEMMA HandleInv ==
  ASSUME Inv, NEW c \in Slots, Handle(c)
  PROVE  Inv'
  <1>1. CallsInv /\ ScreenInv /\ calls[c] \in CallType
    BY Parts DEF CallsInv
  <1>2. CallsInv'
    <2>1. CASE calls' = [calls EXCEPT ![c].stage = "refused"]
      BY <1>1, <2>1 DEF Handle, CallsInv, CallTrue, CallType
    <2>2. CASE /\ calls[c].asks # "none"
               /\ calls' = [calls EXCEPT ![c].stage = "ok", ![c].effect = calls[c].asks]
      BY <1>1, <2>2 DEF Handle, CallsInv, CallTrue, CallType
    <2> QED
      BY <2>1, <2>2 DEF Handle
  <1>3. ScreenInv'
    BY <1>1, SameScreen DEF Handle
  <1>4. SaidInv'
    BY DEF Handle, SaidInv, NoticeTrue, Silence, Effects
  <1> QED
    BY <1>2, <1>3, <1>4, Parts

LEMMA NextInv == Inv /\ [Next]_vars => Inv'
  <1> SUFFICES ASSUME Inv, [Next]_vars PROVE Inv'
    OBVIOUS
  <1>1. CASE UNCHANGED vars
    BY <1>1, Parts
    DEF vars, CallsInv, CallTrue, ScreenInv, SnippetOf, SnippetCurrent, PreviewTrue,
        SaidInv, NoticeTrue
  <1>2. CASE Next
    BY <1>2, InspectInv, CloseInv, EditInv, SnippetInv, SimInv, OtherInv, SendInv,
       AnswerInv, HandleInv
    DEF Next
  <1> QED
    BY <1>1, <1>2

LEMMA InvHolds == Spec => []Inv
  BY InitInv, NextInv, PTL DEF Spec

-----------------------------------------------------------------------------
(* Types, of every dialog and every call. *)
THEOREM DialogTypes == Spec => []TypeOK
  <1>1. Inv => TypeOK
    BY DEF Inv
  <1> QED
    BY <1>1, InvHolds, PTL

(* A custom replay reaches the webhook of its form with what shows there, but
   for another inspection meanwhile (modals.js:322-398). *)
THEOREM EditsReachTarget == Spec => []EditSends
  <1>1. Inv => EditSends
    <2> SUFFICES ASSUME Inv, NEW c \in Slots, calls[c].op = "replay"
                 PROVE  LET k == calls[c] IN
                        /\ k.to = k.form.of \/ k.moved
                        /\ \A f \in {"method", "headers", "body"} :
                             /\ k.form[f] = "edited" => Got(k)[f] = Edited[f]
                             /\ ~IsEmpty(Values(k.form)[f], f)
                                  => Got(k)[f] = Values(k.form)[f]
      BY DEF EditSends
    <2>1. calls[c] \in CallType /\ (calls[c].to = calls[c].form.of \/ calls[c].moved)
      BY DEF Inv, TypeOK, FormOf
    <2> QED
      BY <2>1, SubmittedSends DEF Fields
  <1> QED
    BY <1>1, InvHolds, PTL

(* A form that was only opened replays its webhook as stored, whichever of the
   webhooks a server can hold it is: what is lost is lost by atob, join, the
   textarea, and parsing and printing JSON (modals.js:322-391,
   server.go:111-121). *)
THEOREM OpenedReplaysStored == Spec => []UntouchedReplaysStored
  <1>1. Inv => UntouchedReplaysStored
    <2> SUFFICES ASSUME Inv, NEW c \in Slots, calls[c].op = "replay",
                        calls[c].form = [NoForm EXCEPT !.of = calls[c].to]
                 PROVE  SameButForLosses(calls[c].to, Got(calls[c]))
      BY DEF UntouchedReplaysStored
    <2> DEFINE k == calls[c]
    <2>1. k.to \in Stored
      BY DialogsAssumption DEF Inv, TypeOK, CallType, FormOf
    <2>2. /\ k.form.of = k.to
          /\ \A f \in Fields : k.form[f] = "filled"
      BY DEF NoForm, Fields
    <2>3. \A f \in Fields : Values(k.form)[f] = Filled(k.to)[f]
      BY <2>2 DEF Values, Fields
    <2> QED
      BY <2>1, <2>3, UntouchedKeeps DEF Got
  <1> QED
    BY <1>1, InvHolds, PTL

(* Code that runs sends the webhook, whichever a server can hold it is, with
   its method, and its headers, body and length but for what the conversions
   lose; that of a JSON object runs, but for Python (modals.js:262-314). *)
THEOREM CodeSends == Spec => []SnippetsSend
  <1>1. Inv => SnippetsSend
    <2> SUFFICES ASSUME Inv, dialog = "snippet"
                 PROVE  /\ Runs(snippet.lang, snippet.of)
                             => Resends(snippet.lang, snippet.of)
                        /\ Ordinary(snippet.of)
                             => (Runs(snippet.lang, snippet.of) <=> snippet.lang # "python")
      BY DEF SnippetsSend
    <2>1. snippet.lang \in Languages /\ snippet.of \in Stored
      BY DialogsAssumption DEF Inv, TypeOK, SnippetOf
    <2> QED
      BY <2>1, CodeResends, OrdinaryRuns
  <1> QED
    BY <1>1, InvHolds, PTL

(* The code displayed is of the tab and of the webhook under inspection, a
   highlighted editor of the simulator shows what will be sent, and no toast of
   a dispatch or a clear announces what the server has not done
   (modals.js:101-314, app.js:525-534). *)
THEOREM DialogsShowTruth == Spec => []DialogsTrue
  <1>1. Inv => DialogsTrue
    BY DEF Inv, DialogsTrue
  <1> QED
    BY <1>1, InvHolds, PTL
=============================================================================
