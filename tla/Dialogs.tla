------------------------------ MODULE Dialogs ------------------------------
(***************************************************************************)
(* The dialogs over the dashboard (web/static/js/modals.js, and the clear  *)
(* confirmation of app.js): the edit form, the code snippets and the       *)
(* simulator.  Each reads window.currentRequest, or the fields the user    *)
(* changes, when it is opened, when it is used and when an answer comes;   *)
(* the inspected webhook may be another one each time.                     *)
(*                                                                         *)
(* An open dialog covers the page, so there is one at a time.  Webhooks    *)
(* are named by their content, see Contents.                               *)
(***************************************************************************)
EXTENDS Contents, FiniteSets

CONSTANTS
  Webhooks,   \* webhooks that may be under inspection
  Presets,    \* names of the simulator's templates
  Slots,      \* bound: calls under way at a time
  None        \* null

ASSUME DialogsAssumption ==
  /\ Webhooks \subseteq Stored
  /\ "github_push" \in Presets
  /\ None \notin Webhooks /\ None \notin Languages

VARIABLES
  current,   \* window.currentRequest
  dialog,    \* the one that is open
  form,      \* the fields of the edit form
  snippet,   \* currentSnippetLang and #snippet-code
  sim,       \* the fields of the simulator
  calls,     \* calls[c]: the fetch in slot c
  said,      \* the toast or alert of the last step, if any, and what the
             \* server had done; a toast is gone by the next step
  (* observation only *)
  moved      \* another webhook was inspected while the dialog was open

vars == <<current, dialog, form, snippet, sim, calls, said, moved>>

(* A field of the form is as it was filled in, edited, or cleared. *)
NoForm == [of |-> None, method |-> "filled", headers |-> "filled", body |-> "filled"]

NoSnippet == [tab |-> "curl", lang |-> None, of |-> None]

NoSim == [method |-> "POST", path |-> "wh", headers |-> None, payload |-> None,
          headersMode |-> "highlight", payloadMode |-> "highlight",
          headersPreview |-> None, payloadPreview |-> None]

Silence == [text |-> "none", effect |-> "none"]

(* asks: what the server does if all goes well. *)
NoCall == [op |-> "none", asks |-> "none", to |-> None, form |-> NoForm, moved |-> FALSE,
           stage |-> "idle", effect |-> "none"]

Effects == {"none", "replayed", "captured", "cleared"}

FormType == [of : Webhooks \cup {None},
             method : {"filled", "edited"},
             headers : {"filled", "edited", "cleared"},
             body : {"filled", "edited", "cleared"}]

SimType == [method : {"POST", "GET", "DELETE"}, path : {"wh", "api"},
            headers : Presets \cup {None, "edited", "broken"},
            payload : Presets \cup {None, "edited"},
            headersMode : {"highlight", "edit"}, payloadMode : {"highlight", "edit"},
            headersPreview : Presets \cup {None, "edited", "broken"},
            payloadPreview : Presets \cup {None, "edited"}]

CallType == [op : {"none", "replay", "dispatch", "clear"}, asks : Effects,
             to : Webhooks \cup {None}, form : FormType, moved : BOOLEAN,
             stage : {"idle", "sent", "ok", "refused"}, effect : Effects]

TypeOK ==
  /\ current \in Webhooks \cup {None}
  /\ dialog  \in {"none", "edit", "snippet", "simulate", "clear"}
  /\ form    \in FormType
  /\ snippet \in [tab : Languages, lang : Languages \cup {None}, of : Webhooks \cup {None}]
  /\ sim     \in SimType
  /\ calls   \in [Slots -> CallType]
  /\ \A c \in Slots : calls[c].op = "replay" <=> calls[c].form.of # None
  /\ said    \in [text : {"none", "executed", "executedAndFailed", "replayFailed", "dispatched",
                           "dispatchFailed", "badHeaders", "cleared", "clearFailed"},
                   effect : Effects]
  /\ moved   \in BOOLEAN

Init ==
  /\ current = None
  /\ dialog  = "none"
  /\ form    = NoForm
  /\ snippet = NoSnippet
  /\ sim     = NoSim
  /\ calls   = [c \in Slots |-> NoCall]
  /\ said    = Silence
  /\ moved   = FALSE

-----------------------------------------------------------------------------
(* An answer to selectRequest, a delete or a clear sets currentRequest. *)
Inspect(w) ==
  /\ w # current
  /\ current' = w
  /\ moved' = (dialog # "none")
  /\ said' = Silence
  /\ UNCHANGED <<dialog, form, snippet, sim, calls>>

(* What a closed dialog holds is filled in again when it opens. *)
Shut ==
  /\ dialog' = "none"
  /\ form' = NoForm /\ snippet' = NoSnippet /\ sim' = NoSim
  /\ moved' = FALSE

(* The dialog's own buttons, and Escape, which closes them all. *)
Close ==
  /\ dialog # "none"
  /\ Shut
  /\ said' = Silence
  /\ UNCHANGED <<current, calls>>

(* A close...Modal() called by a continuation: only that dialog goes. *)
CloseModal(name) ==
  IF dialog = name THEN Shut ELSE UNCHANGED <<dialog, form, snippet, sim, moved>>

Send(c, call) ==
  /\ calls[c] = NoCall
  /\ calls' = [calls EXCEPT ![c] = call]

-----------------------------------------------------------------------------
(* The edit form. *)

OpenEditAnyway ==
  /\ dialog = "none"
  /\ dialog' = "edit"
  /\ form' = [NoForm EXCEPT !.of = current]
  /\ said' = Silence
  /\ UNCHANGED <<current, snippet, sim, calls, moved>>

OpenEdit ==
  /\ dialog = "none" /\ current # None
  /\ dialog' = "edit"
  /\ form' = [NoForm EXCEPT !.of = current]
  /\ said' = Silence
  /\ UNCHANGED <<current, snippet, sim, calls, moved>>

Edit(f, state) ==
  /\ dialog = "edit"
  /\ form' = [form EXCEPT ![f] = state]
  /\ said' = Silence
  /\ UNCHANGED <<current, dialog, snippet, sim, calls, moved>>

(* submitCustomReplay: to the webhook that is current by now. *)
Submit(c) ==
  /\ dialog = "edit" /\ current # None
  /\ Send(c, [NoCall EXCEPT !.op = "replay", !.asks = "replayed", !.to = current,
                            !.form = form, !.moved = moved, !.stage = "sent"])
  /\ said' = Silence
  /\ UNCHANGED <<current, dialog, form, snippet, sim, moved>>

(* If there is none, the TypeError ends up in an alert. *)
SubmitToNull ==
  /\ dialog = "edit" /\ current = None
  /\ said' = [text |-> "replayFailed", effect |-> "none"]
  /\ UNCHANGED <<current, dialog, form, snippet, sim, calls, moved>>

(* Its answer, whatever the status: the dialog closes, whoever has opened it
   since, and a toast says that the replay was executed; the current webhook is
   selected, but if there is none a TypeError is caught and alerted. *)
SubmitAnswered(c) ==
  /\ calls[c].op = "replay" /\ calls[c].stage \in {"ok", "refused"}
  /\ calls' = [calls EXCEPT ![c] = NoCall]
  /\ CloseModal("edit")
  /\ said' = [text |-> IF current = None THEN "executedAndFailed" ELSE "executed",
              effect |-> calls[c].effect]
  /\ current' = current

-----------------------------------------------------------------------------
(* The snippets. *)

(* setSnippetLang: the tab changes, the code only if something is inspected. *)
SetSnippetLang(lang) ==
  IF current = None THEN snippet' = [snippet EXCEPT !.tab = lang] /\ moved' = moved
  ELSE snippet' = [tab |-> lang, lang |-> lang, of |-> current] /\ moved' = FALSE

OpenSnippetAsLeft ==
  /\ dialog = "none" /\ current # None
  /\ dialog' = "snippet"
  /\ snippet' = [snippet EXCEPT !.tab = "curl"] /\ moved' = moved
  /\ said' = Silence
  /\ UNCHANGED <<current, form, sim, calls>>

OpenSnippet ==
  /\ dialog = "none" /\ current # None
  /\ dialog' = "snippet"
  /\ SetSnippetLang("curl")
  /\ said' = Silence
  /\ UNCHANGED <<current, form, sim, calls>>

SnippetTab(lang) ==
  /\ dialog = "snippet"
  /\ SetSnippetLang(lang)
  /\ said' = Silence
  /\ UNCHANGED <<current, dialog, form, sim, calls>>

-----------------------------------------------------------------------------
(* The simulator. *)

(* PRESETS: every one of them is a POST under /wh/ with JSON headers and an
   object for a payload. *)
Preset(name) == [method |-> "POST", path |-> "wh", headers |-> name, payload |-> name]

(* selectPreset: the fields and both previews. *)
SelectPreset(name, s) ==
  [s EXCEPT !.method = Preset(name).method, !.path = Preset(name).path,
            !.headers = Preset(name).headers, !.headersPreview = Preset(name).headers,
            !.payload = Preset(name).payload, !.payloadPreview = Preset(name).payload]

(* openSimulateModal: the first template, both editors highlighted. *)
OpenSim ==
  /\ dialog = "none"
  /\ dialog' = "simulate"
  /\ sim' = SelectPreset("github_push", NoSim)
  /\ said' = Silence
  /\ UNCHANGED <<current, form, snippet, calls, moved>>

SimStep(s) ==
  /\ dialog = "simulate"
  /\ sim' = s
  /\ said' = Silence
  /\ UNCHANGED <<current, dialog, form, snippet, calls, moved>>

PickPreset(name) == SimStep(SelectPreset(name, sim))

EditRequestLine(method, path) ==
  SimStep([sim EXCEPT !.method = method, !.path = path])

(* setSimHeadersMode and setSimPayloadMode: only a highlighted editor is
   brought up to date, the other one is the textarea. *)
SetSimHeadersMode(mode) ==
  SimStep([sim EXCEPT !.headersMode = mode,
                      !.headersPreview = IF mode = "highlight" THEN sim.headers ELSE @])

SetSimPayloadMode(mode) ==
  SimStep([sim EXCEPT !.payloadMode = mode,
                      !.payloadPreview = IF mode = "highlight" THEN sim.payload ELSE @])

(* Typing in a textarea updates the preview behind it. *)
EditSimHeaders(value) ==
  /\ sim.headersMode = "edit"
  /\ SimStep([sim EXCEPT !.headers = value, !.headersPreview = value])

EditSimPayload ==
  /\ sim.payloadMode = "edit"
  /\ SimStep([sim EXCEPT !.payload = "edited", !.payloadPreview = "edited"])

(* dispatchSimulatedWebhook: what the server is asked to do.  Any method under
   /wh/ is captured; elsewhere DELETE /api/requests is what does something. *)
Asks(s) ==
  IF s.path = "wh" THEN "captured"
  ELSE IF s.method = "DELETE" THEN "cleared" ELSE "none"

DispatchFails(text) ==
  /\ said' = [text |-> text, effect |-> "none"]
  /\ UNCHANGED <<current, dialog, form, snippet, sim, calls, moved>>

(* Headers that are no JSON are refused, and so is the body, which is never
   null, for a GET. *)
DispatchRefused ==
  /\ dialog = "simulate"
  /\ \/ sim.headers = "broken" /\ DispatchFails("badHeaders")
     \/ sim.headers # "broken" /\ sim.method = "GET" /\ DispatchFails("dispatchFailed")

Dispatch(c) ==
  /\ dialog = "simulate"
  /\ sim.headers # "broken" /\ sim.method # "GET"
  /\ Send(c, [NoCall EXCEPT !.op = "dispatch", !.asks = Asks(sim), !.stage = "sent"])
  /\ said' = Silence
  /\ UNCHANGED <<current, dialog, form, snippet, sim, moved>>

DispatchAnswered(c) ==
  /\ calls[c].op = "dispatch" /\ calls[c].stage \in {"ok", "refused"}
  /\ calls' = [calls EXCEPT ![c] = NoCall]
  /\ IF calls[c].stage = "ok"
       THEN /\ CloseModal("simulate")
            /\ said' = [text |-> "dispatched", effect |-> calls[c].effect]
       ELSE /\ said' = [text |-> "dispatchFailed", effect |-> calls[c].effect]
            /\ UNCHANGED <<dialog, form, snippet, sim, moved>>
  /\ current' = current

-----------------------------------------------------------------------------
(* The confirmation of Clear. *)

OpenClear ==
  /\ dialog = "none"
  /\ dialog' = "clear"
  /\ said' = Silence
  /\ UNCHANGED <<current, form, snippet, sim, calls, moved>>

(* executeClearRequests; its button is disabled while it runs. *)
ConfirmClear(c) ==
  /\ dialog = "clear"
  /\ \A d \in Slots : calls[d].op # "clear"
  /\ Send(c, [NoCall EXCEPT !.op = "clear", !.asks = "cleared", !.stage = "sent"])
  /\ said' = Silence
  /\ UNCHANGED <<current, dialog, form, snippet, sim, moved>>

ClearAnswered(c) ==
  /\ calls[c].op = "clear" /\ calls[c].stage \in {"ok", "refused"}
  /\ calls' = [calls EXCEPT ![c] = NoCall]
  /\ said' = [text |-> IF calls[c].stage = "ok" THEN "cleared" ELSE "clearFailed",
              effect |-> calls[c].effect]
  /\ IF calls[c].stage = "ok"
       THEN /\ current' = None
            /\ IF dialog = "clear" THEN Shut
               ELSE /\ moved' = (dialog # "none")
                    /\ UNCHANGED <<dialog, form, snippet, sim>>
       ELSE UNCHANGED <<current, dialog, form, snippet, sim, moved>>

-----------------------------------------------------------------------------
(* The server, and the way to it.  A replay of a webhook that is gone, or to a
   target that is no URL, a method a path does not have, or a failing database
   are refused. *)
Handle(c) ==
  /\ calls[c].stage = "sent"
  /\ \/ /\ calls[c].asks # "none"
        /\ calls' = [calls EXCEPT ![c].stage = "ok", ![c].effect = calls[c].asks]
     \/ calls' = [calls EXCEPT ![c].stage = "refused"]
  /\ said' = Silence
  /\ UNCHANGED <<current, dialog, form, snippet, sim, moved>>

(* The fetch rejects, before or after the effect. *)
CallLost(c) ==
  /\ calls[c].stage \in {"sent", "ok", "refused"}
  /\ calls' = [calls EXCEPT ![c] = NoCall]
  /\ said' = [text |-> CASE calls[c].op = "replay"   -> "replayFailed"
                         [] calls[c].op = "dispatch" -> "dispatchFailed"
                         [] calls[c].op = "clear"    -> "clearFailed",
              effect |-> calls[c].effect]
  /\ UNCHANGED <<current, dialog, form, snippet, sim, moved>>

Next ==
  \/ \E w \in Webhooks \cup {None} : Inspect(w)
  \/ Close
  \/ OpenEdit \/ OpenSnippet \/ OpenSim \/ OpenClear
  \/ Edit("method", "edited")
  \/ \E f \in {"headers", "body"}, state \in {"edited", "cleared"} : Edit(f, state)
  \/ SubmitToNull \/ DispatchRefused
  \/ \E lang \in Languages : SnippetTab(lang)
  \/ \E name \in Presets : PickPreset(name)
  \/ \E method \in {"POST", "GET", "DELETE"}, path \in {"wh", "api"} :
       EditRequestLine(method, path)
  \/ \E mode \in {"highlight", "edit"} : SetSimHeadersMode(mode) \/ SetSimPayloadMode(mode)
  \/ \E value \in {"edited", "broken"} : EditSimHeaders(value)
  \/ EditSimPayload
  \/ \E c \in Slots : \/ Submit(c) \/ SubmitAnswered(c)
                      \/ Dispatch(c) \/ DispatchAnswered(c)
                      \/ ConfirmClear(c) \/ ClearAnswered(c)
                      \/ Handle(c) \/ CallLost(c)

Spec == Init /\ [][Next]_vars

-----------------------------------------------------------------------------
Cleared == [method |-> "", headers |-> "none", body |-> NoBody]
Edited  == [method |-> "PATCH", headers |-> "edited",
            body |-> [NoBody EXCEPT !.kind = "edited"]]

(* What is in the fields of form f. *)
Values(f) ==
  [x \in {"method", "headers", "body"} |->
     CASE f[x] = "filled"  -> Filled(f.of)[x]
       [] f[x] = "edited"  -> Edited[x]
       [] f[x] = "cleared" -> Cleared[x]]

(* What a custom replay sends to the target. *)
Got(k) == Delivered(k.to, Values(k.form), BlankOf(Values(k.form)))

(* A custom replay goes to the webhook its form was filled from, unless
   another one was inspected while the form was open; what the user edited is
   what the target gets, and what shows in a field is sent
   (modals.js:322-398, app.js:209, 527, 560). *)
EditSends ==
  \A c \in Slots : calls[c].op = "replay" =>
    LET k == calls[c] IN
    /\ k.to = k.form.of \/ k.moved
    /\ \A f \in {"method", "headers", "body"} :
         /\ k.form[f] = "edited" => Got(k)[f] = Edited[f]
         /\ ~IsEmpty(Values(k.form)[f], f) => Got(k)[f] = Values(k.form)[f]

(* A form that is submitted as it was opened replays the webhook as stored: a
   method the form does not know comes back through its empty field.  Lost are
   non-ASCII bytes, CRs, the separation of several values of a header, and of
   JSON the layout, the spelling, and what no JavaScript object holds: numbers
   that are no double, the first of two members of a name
   (modals.js:322-391, server.go:111-121, dispatcher.go:69). *)
UntouchedReplaysStored ==
  \A c \in Slots : calls[c].op = "replay" =>
    LET k == calls[c] IN
    k.form = [NoForm EXCEPT !.of = k.to] => SameButForLosses(k.to, Got(k))

(* The code displayed is in the language of the tab, and of the webhook under
   inspection, unless that changed since the last click on a tab
   (modals.js:251-314). *)
SnippetCurrent ==
  dialog = "snippet" => moved \/ snippet = [tab |-> snippet.tab, lang |-> snippet.tab,
                                           of |-> current]

(* Code that is displayed and runs sends the webhook: its method, its headers
   unless one has several values or quotes, and an ASCII body without CRs, byte
   for byte from curl and Go, with the length announced, and of the same value
   from JavaScript and Python, but for a JSON string and for what parse loses.
   The code for a JSON object with one value per header runs, except in Python:
   its header values are lists (modals.js:262-314). *)
SnippetsSend ==
  dialog = "snippet" =>
    /\ Runs(snippet.lang, snippet.of) => Resends(snippet.lang, snippet.of)
    /\ Ordinary(snippet.of) => (Runs(snippet.lang, snippet.of) <=> snippet.lang # "python")

(* README.md:40: "Export any captured webhook into clean, ready-to-run code
   snippets for cURL (Bash), JavaScript (Fetch), Python (Requests), and Go". *)
SnippetRuns == dialog = "snippet" => Runs(snippet.lang, snippet.of)

(* An editor of the simulator that is highlighted shows what will be sent
   (modals.js:101-220). *)
PreviewTrue ==
  dialog = "simulate" =>
    /\ sim.headersMode = "highlight" => sim.headersPreview = sim.headers
    /\ sim.payloadMode = "highlight" => sim.payloadPreview = sim.payload

(* "Webhook dispatched" and "cleared" are said only of what the server did; a
   clear can be what a dispatch to /api/requests did
   (modals.js:240-248, app.js:525-534). *)
NoticeTrue ==
  /\ said.text = "dispatched" => said.effect \in {"captured", "cleared"}
  /\ said.text = "cleared" => said.effect = "cleared"

(* What the dialogs display and announce is so, whatever is inspected, closed
   or answered meanwhile (modals.js:101-314). *)
DialogsTrue == SnippetCurrent /\ PreviewTrue /\ NoticeTrue
=============================================================================
