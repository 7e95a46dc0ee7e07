# A verification project for Hooklet

Hooklet is a self-hosted webhook inspector: a Go server captures webhooks sent
to `/wh/...`, stores them in SQLite, streams them over Server-Sent Events to
dashboards in browsers, and replays them to a target server on demand. This
directory holds TLA+ models of it, TLC configurations that check them on small
instances, and proofs about them for TLAPS.

Paths are relative to the repository; `broker.go:46` is a line of the file the
text is about.

## 1. The system

| Component | Source | State | Operations |
|---|---|---|---|
| Event broker | `internal/event/broker.go` | map of subscriber channels (buffer 16), `sync.RWMutex` | `Subscribe`, `Unsubscribe`, `Publish` |
| Capture handler | `internal/capture/handler.go` | none of its own; one goroutine per webhook | read body, build record, `SaveRequest`, `Publish`, answer |
| SSE endpoint | `internal/server/server.go` `handleSSE` | one goroutine and one channel per dashboard | subscribe, select loop, write, deferred unsubscribe |
| Requests table | `internal/store/sqlite.go` | table `requests` | save, get, list, delete, clear |
| Attempts table | `internal/store/sqlite.go` | table `replay_attempts` | save, list by webhook, cascade on delete |
| Replay API and dispatcher | `server.go` `handleReplay`, `internal/replay/dispatcher.go` | one goroutine per call | look up, clone with overrides, send to target, record attempt, answer |
| Process lifecycle | `cmd/hooklet/main.go` | the process, the database file | open and migrate, serve, signal, `Close`, exit |
| Dashboard | `web/static/js/app.js`, `sse.js` | `allRequests`, `currentRequest`, the replay button | load, event, select, delete, clear, replay |
| Inspector | `app.js` | filters, rows, workspace, history, `selectedReplayAttempt` | render the list, the workspace and the history, filter, select an attempt |
| Dialogs | `web/static/js/modals.js`, `app.js:497-543` | fields of the edit form and the simulator, the snippet displayed | open, edit, submit, dispatch test webhooks, show code, confirm a clear |
| Assets, example receiver | `web/`, `examples/` | none | static files; one possible replay target |

How they interact: the capture handler *calls* the store, then the broker; the
broker *sends* to channels that SSE goroutines *receive* from; SSE goroutines
write to browsers that may be slow, stalled or gone; the replay handler calls
the store, the dispatcher, a server of the user's, and the store again; the
dashboard *fetches* from the API and gets the event stream beside it, in no
order with respect to its fetches. Everything the server does runs in one
goroutine per HTTP request, so all of it interleaves; a request's context ends
when its client hangs up, or when the process calls `httpServer.Close()`.

What is hard, and what makes each part correct:

* **Broker.** Concurrent publishes, joins and leaves; full buffers. Correct if
  no send ever hits a closed channel, a publish never waits for a subscriber,
  nothing is lost except to a full buffer, nothing is duplicated, and events do
  not overtake those published before them.
* **Capture.** Crashes and errors between save, publish and answer; a client
  that hangs up during the INSERT. Correct if an answered webhook is durable,
  a rejected one leaves nothing behind (a provider will send it again), and
  nothing is shown that was not stored.
* **SSE.** Stalled clients, a `select` that chooses at random between the
  context and the channel, shutdown. Correct if it never holds up captures, if
  its subscription does not leak, and if a client that reads sees what was
  buffered for it.
* **Replay.** Deletions during a dispatch, a target that never answers, a
  client that goes away, an attempt that cannot be saved, payloads that do not
  decode. Correct if recorded outcomes are real, deleted webhooks are not sent,
  the history is complete and overrides arrive.
* **Dashboard.** Answers and events in any order, over a list that is modified
  between a request and its answer. Correct if each webhook ends up on the list
  once, and controls do not stay stuck.
* **Inspector.** A handler that renders the list, the workspace and the history
  in turn, while answers of older clicks come late, and a `renderList` that can
  throw in between. Correct if the screen is that of the page's variables, and if
  a deletion on the page reaches the server.
* **Dialogs.** `currentRequest` changes under an open dialog; contents are
  decoded, joined, parsed and concatenated on their way through forms and code.
  Correct if a replay sends what the form says, an untouched one what was stored,
  code does what the webhook did, and notices are true.

The hazards, each with its line and the properties that guard against it, are
listed in `PROJECT.json`.

## 2. The modules

    EventFeed            abstract: a lossy broadcast, no lock
       ^        ^
       | refines| INSTANCE
    Broker    Ingest     capture + table + feed + SSE + process
    Overrides <- Replay     replay API + dispatcher + tables + target
    Overrides <- Contents <- Dialogs   forms, snippets, simulator
    Timestamps <- Listing   text of created_at; GET /api/requests
    Dashboard            the page's list, over an abstract server
    Inspector            the page's screen, over a simpler one
    EventFeedProofs <- BrokerProofs, IngestProofs     theorems
    ReplayProofs, ListingProofs, DashboardProofs, InspectorProofs, DialogsProofs

**EventFeed** is what the broker promises. A channel is named by the connection
that subscribed, a publish by its webhook. `Begin` fixes the audience, `Offer`
visits one channel (appends, or counts a miss if the buffer is full), `End`
returns. A channel can be closed only when no running publish has still to
visit it: that is the promise the lock has to keep. `received`, `missed`,
`audience` and `prior` only record what happened.

**Broker** is `broker.go` with its `RWMutex`. A writer announces itself
(`Lock`), which keeps new readers out, and enters when the readers have left;
`Subscribe`/`Unsubscribe` are its critical sections, with the deferred
`Unlock`. `RLock`, `Send`, `RUnlock` are the steps of `Publish`: the range loop
over the map is a set `todo` visited in any order, the `select` with `default`
is `Send`. `ImplementsFeed` is the refinement; the mapping makes the three
states of a channel out of `subscribers` and `closed`, and hides waiting for
the lock.

**Ingest** composes the capture handler (`Arrive` to `Respond`; the error paths
`ReadFails`, `SaveFails`, `SaveInterrupted`; `HangUp`), an INSTANCE of EventFeed for the
broker, the SSE handler (`Connect`, `Take`, `Write`, `Stop`, `Leave`,
`Disconnect`), deletions, and the process: `Shutdown` is
`httpServer.Close()`, which ends contexts and waits for nobody; `Exit` is the
return of `main`, a crash or a kill; `Restart` opens the same file. `SaveInterrupted`
is what `database/sql` does when the context ends during `ExecContext`: an
error, with or without the row. Nobody is there to read the answer, which is
why `RejectedLeavesNoTrace` holds.

**Replay** has one process per call of `POST /api/requests/{id}/replay` and one
per `GET /api/requests/{id}`. Each SQL statement is a step. The target sends its
status (`TargetAnswers`) and, later or never, the end of its body
(`TargetFinishes`); `ConnectionBreaks` before the one, the other, or after the target has
acted. So `client.Do` (`DoReturns`, `DoFails`) and `io.ReadAll` (`ReadAll`, `ReadCut`) are two
steps that may each wait for ever, as neither has a timeout, and a body that was cut off is
recorded as if it were whole. `faults`, chosen in `Init`, says whether the database may fail. `Outgoing`, of module **Overrides**, translates `handleReplay`'s choice of fields, including that
a payload counts only with `Content-Type: application/json` to the letter and
header values in lists (`Applies`). `foreignKeys`, chosen in `Init` and then
fixed, says whether the database enforces foreign keys: the code sets no PRAGMA
and SQLite has it off by default, while the `-db` argument is handed to the
driver as it is and may turn it on.

**Timestamps** is the way of a time through the `created_at` column: `Format` is
`time.RFC3339Nano`, with its trailing zeros dropped, as a sequence of bytes (the
fixed-width part up to the seconds is one symbol), `TextLess` is SQLite's
comparison of texts and `Parse` the way back. `Earlier` is the order of time itself.
**Listing** lets webhooks be captured at any time of a clock, saved in any
order and deleted, and answers `GET /api/requests` with a page: `Newest` is
`ORDER BY created_at DESC LIMIT`, with rows of the same text in any order.
The history of replays, `ORDER BY created_at ASC`, has the same text order and is not modelled apart.

**Dashboard** has a slot for each fetch under way. A step is what JavaScript
runs between two awaits. `Handle` is the server's side of a fetch, `Fail` any
error of it; the load is answered with a page of `Limit` rows (`Page`), of which `table`
keeps the order, newest first by commit (see Listing for the order by text). `OnEvent`, `LoadDone`, `SelectDone`, `ClearDone`, `ReplayDone`,
`ReselectDone` are the page's continuations. With `Faults = FALSE` nothing is
lost and no fetch fails. `snapshot` is what the page was given by the initial load, `due` what it is to be given
(the newest rows, when the server answered it);
`unstreamed`, `wiped`, `hidden` and `threw` record why the page may differ from
the table: an event that did not reach the page, an entry that a late answer took
off the list, one that the user deleted, a continuation that threw.

**Inspector** is the page again, with a server that only keeps what the page
asks for, and with the screen as state: `rows` is the list as rendered,
`shown`, `payload` and `response` the workspace with its panes, `mark` the attempt highlighted
in the history. It starts where the code does, with the fetch of `loadRequests` sent (`load`)
and the stream connected: the load's answer (`HandleLoad`, `LoadDone`, or `LoadFails`) races with
events and with the user, and replaces the list, so that a webhook may be listed twice. `Old` webhooks
were captured before the page connected, no event comes for them. Each handler
of `app.js` is one step that renders in the order of the code: `RenderHistory` computes the
highlight from the attempt selected so far and only then selects one, and a click
(`SelectAttempt`) leaves the highlight alone. `Throws` says when `renderList` does
not return: a text is searched and `detectEventName`, called for each entry the
buttons let through, finds no string (`Odd` webhooks); the rest of the
handler is then skipped, as in the code: `SelectDone` leaves the old workspace
(`torn`), `OnEvent` selects nothing, `Delete` sends no DELETE (`unsent`). `Delete` takes
one entry off, and the fetch of the successor and the DELETE leave in one step.
`astray` is set when a webhook off the list is selected by a late answer,
the fetch of its successor fails or the load does not bring it; `doomed` are webhooks deleted on
the page that the server still has, `twice` those that the load has listed although an event
comes or came, `clicked` says that the last click on the history was on another attempt than
the highlighted one.

**Contents** has the pure part of `modals.js`: contents are classes of webhooks
(kind, tokens, characters, line ends and layout of the body, how many values a header has, which
quotes), and `Filled`, `Payload`, `Delivered`, `Runs`, `Request` are what the edit form, the
server and the snippets make of them. `Atob` garbles non-ASCII text, `Reparsed` is
`JSON.parse` and `stringify`, which spell numbers, escapes and white space their own way and lose
numbers that are no double and members named twice; `LineFeeds` is what a textarea and
`innerHTML` do to CRs, `Join` puts several values of a header in one. `RequestWith` copies the captured
Content-Length as the snippets do: `fetch` and `net/http` ignore it, `curl` sends it; the
dispatcher drops it (dispatcher.go:69), so that the edit form does no harm by it. Paths that need escaping
and what a client adds of its own (User-Agent, a default Content-Type) are left out.
**Dialogs** has the dialogs' life: `Inspect` stands for all that sets
`currentRequest` under an open dialog (the answers that Inspector has), `Submit`
reads it, and the answers (`SubmitAnswered`, `DispatchAnswered`, `ClearAnswered`)
close whichever dialog of that name is open by then. What a replay sends, `Got`, is computed
from Overrides, so that the form and the API are checked together.

Operators that nothing uses (`UnsubscribeDuringPublish`, `SaveErrorIgnored`,
`DeleteSendsNext` ...) are mutants: plausible slips of the definition after them.
`PROJECT.json` pairs each with the property that has to notice it.

## 3. What is checked

Passing runs:

| Run | Instance | Question |
|---|---|---|
| `broker` | 2 publishes, 2 subscribers, buffer 1 | Is the broker behind its lock the lossy broadcast (`ImplementsFeed`), with no send on a closed channel, every offer accounted for, no duplicate and no overtaking, no deadlock, and do `Publish` and `Unsubscribe` return (`CallsReturn`)? |
| `ingest` | 2 webhooks, 1 dashboard that reads or stalls, buffer 1, 1 restart, all may be deleted | Do the provider's answers, the table and the dashboard agree, over hang-ups, failed saves, crashes, shutdown and restart? |
| `ingest_live` | the same, no restart, no deletion | Are captures answered and connections released whatever dashboards do; does a dashboard that reads see what its channel holds? |
| `replay` | 2 webhooks, 2 calls, 1 view, codes 200 and 500, with and without faults | Is the history true and complete, is nothing deleted replayed, is what a target did kept (`AttemptKept`), do attempts follow their webhook where keys are enforced? |
| `replay_live` | 1 call: as stored, with overrides, or refused | Does the call end when its client goes, or when the answer of its target is whole or broken off? |
| `listing` | 3 webhooks, 2 seconds with fractions of 2 digits, page of 2 | How far can a page be from chronological, what can it leave out, and are its times exact? |
| `dashboard` | 2 webhooks, a page of 1, 2 fetches at a time, faults | Does every difference of list and table have a known cause, and does the button come back? |
| `inspector` | 2 webhooks, one of them odd and older than the page, the load and 2 fetches, a page of 1, 2 attempts, 3 settings of the filters | Are rows, workspace, panes and highlight those of the page's variables (`ScreenTrue`); is a webhook inspected off the list explained, and does a deletion reach the server? |
| `dialogs` | 3 webhooks, an ordinary one and two with all that conversions lose, 1 call under way, 1 template | Does a replay send what the form says, and an untouched one the stored webhook; does code that runs send the webhook; are snippet, previews and notices true? |

Runs that TLC has to find violated, each a statement of the repository that the
code does not keep:

| Run | Statement | What happens |
|---|---|---|
| `replay_doc_cascade` | README.md:176, sqlite.go:62 | Deleting a webhook leaves its replay attempts in the database: nothing enables foreign keys. |
| `replay_doc_payload` | README.md:182-191 | The documented payload has a header as a string; it does not decode, and the stored webhook is sent to the default target without a word. |
| `dialogs_doc_snippets` | README.md:40 | The Python code has header values as lists, which `requests` refuses; it does not run for any webhook with a header. |

Other divergences, seen while modelling, have no run of their own:

* An attempt that could not be saved is answered with 200, and no history has
  it (README.md:51, dispatcher.go:98, server.go:127).
* `...:05Z` sorts above `...:05.1Z`: within a second the list is not in reverse
  chronological order (README.md:171). `MisorderExplained` says that nothing else is out of order.
* A webhook whose event comes before the answer of the initial load is wiped
  from the list by that answer (README.md:136; `wiped` in Dashboard). One dropped for
  a dashboard with a full buffer is never sent to it again (`missed` in `AckStreamed`).
* A field cleared in the edit form means "as stored" to the server: a body or
  the headers cannot be removed (README.md:35, server.go:112-120; why `EditSends` speaks
  of fields with a value). Headers of several values are joined and non-ASCII bodies garbled
  by the form even if nobody edits them.
* An edited replay that nobody edited is not byte-accurate (README.md:14, 48, of captures): JSON
  is laid out anew, numbers beyond 2^53 change, CRs are lost. Nor is the code: a `curl` command
  made of a body with CRs or non-ASCII bytes announces the captured Content-Length, which is not
  that of its body (modals.js:283).
* A truncated answer of a target is recorded as its response, without an error
  (README.md:51, dispatcher.go:96).
* The highlight of the history is that of the attempt selected before it was rendered: there is none
  when a history is opened, and after a click another response is displayed than the
  highlighted attempt's (app.js:332-336, 355-368; `clicked` in `MarkTrue`).
* A webhook that the load and an event both list stays on the list once when it is deleted, or
  comes back with its event (app.js:13-19, 552; `twice` in `DeletionReaches`).
* "Custom Replay executed!" is also said of a 404 or a 502 (modals.js:400), and, if
  nothing is inspected any more, followed by an alert that the replay failed (modals.js:402-405).
* The event stream sends unnamed events, not `webhook_captured`
  (README.md:196, wording only); `limit` and `offset` (README.md:171) are not
  read by `handleListRequests`.

**Bounds.** Two publishes and two subscribers give every pair of interfering
calls: a writer that waits for one reader while another waits behind it, two
publishes visiting channels in opposite orders, a full and an empty buffer. A
buffer of 1 is full after one event; a longer one only delays it, and the
proofs hold for any size. In Ingest the second webhook finds the first one saved,
published, answered, rejected, deleted or lost to a crash; two dashboards do not
interact except through the broker, which has its own model. In Replay two
calls can be of one webhook or of two. Two digits of fraction have every relation of
two texts: equal, prefix, differing in a digit. Two fetches at a time make all
orders of two answers; `Slots` is how many may be under way, so that a handler that sends
one waits for a slot (the answer of the load and an event when nothing is inspected, a deletion for one or two). A page
of 1 leaves an older row out of the load. In Inspector two webhooks give a
row with a successor and without one, an odd entry that hides the other or is hidden by
the buttons; two attempts, one that was selected and a newer one; the settings are
no filter, a search, and a search with a button pressed, changed one control at a time; the odd webhook is the one from before the page, the other may
be listed by load and event. Its run has a `VIEW` that hides the panes, the highlight and `clicked` while
`torn`: no property and no guard reads them then, and the rendering that ends it
overwrites them. In
Dialogs each property is about one call or one dialog; what other calls could do meanwhile,
to close a dialog or change what is inspected, `Close` and `Inspect` do too,
so one call under way is enough. Symmetry is
used for safety only, over webhooks, connections, calls or slots, none of which the specifications
tell apart. `CHECK_DEADLOCK FALSE` stands where the
work ends when all bounded inputs are used up; the broker's run checks
deadlock, with `Terminating` as its only idle state.

**Fairness.** Goroutines that can run do (weak fairness of the handlers' own
steps): the database answers, `sync.RWMutex` admits whoever waits. The choice of Go's
`select` is random, so a context that stays done is not passed over for ever
(strong fairness of `Stop`). Nothing is assumed of providers, dashboards,
targets or users: a stalled reader is not fair (those in `healthy` are, any set of them),
a target need not answer, and neither shutdown nor deletion need happen.

## 4. What is proved

`EventFeedProofs` proves, for any sets of requests and connections and any
buffer size, that `Inv` is inductive: types, `Stages` (what a publish knows at each
stage of its life) and the three safety properties. `DeliveryOrder` needs the
others: an event is appended by its own publish only, which has then not
visited the channel (by `OfferAccounting` the event is not in its log) and has
not returned (so that it is in nobody's `prior`).

`BrokerProofs` proves the broker's own `Inv`: `LockDiscipline` (whoever has channels
left to visit holds the read lock) and `Membership` (a channel is in the
map exactly from `Subscribe` to `Unsubscribe`) make `NoSendOnClosed` inductive,
since a writer enters only when no reader is inside. With it every step of the broker
maps to a step of the feed or to none (`BrokerImplementsFeed`), and `DeliveryOrder` and
`OfferAccounting` are inherited from the feed's theorems under the same mapping
rather than proved again. The one assumption is that the buffer size is a
positive natural number and that `NoConn` is not a connection.

`IngestProofs` proves Ingest's `Inv`, for any webhooks, connections, buffer size
and bounds. Its core is `Life`, what is known of a webhook at each point of its
capture: no row before `saving`, a row from `publishing` on, status 200 only
after a publish that returned, and a row under an error status only if the
provider's context ended, so that it never got that answer. `OnlyPublished` says
that channels hold published webhooks only, and `WriterHoldsEvent` that a handler
that is writing has an event to write (its types need it). `NoGhosts`,
`AckDurable` and `RejectedLeavesNoTrace` follow. Types of the broker's part come
from the feed's own lemma, under the same instance. The proofs assume what
`IngestAssumption` says: a positive buffer size, natural bounds.

Its second part goes on to the dashboards' side, `AckStreamed` and `CausalOrder`, with
`StreamInv`: what is on a screen is what its handler took, but for an event
being written (`Shown`); a webhook answered when another arrived is through the broker
(`BeforeReturned`), so it cannot be appended after it; a channel still to be visited
does not have the event (`NotYet`), so that it is appended once (`LogOrder`); and a
dashboard that was there when a webhook arrived is among those its publish goes to,
unless its connection ended (`Subscribed`, `Reached`). A crash in the middle of a
publish leaves offers unmade, but ends every connection it leaves them unmade to.

`ReplayProofs` proves Replay's safety properties, for any webhooks, calls, views and
inputs. `AttemptsKept` needs what a call has read of the answer at each of its
stages (`Read`). A row of `replay_attempts` is written last, so what is recorded was
answered (`Fresh`, `CodeTrue`); a webhook that is gone never comes back
(`ErasedGone`), so a call that came after it was deleted stops at its lookup (`LateStops`), and a
view that began before still reads every attempt it has to (`ViewInv`), unless
the cascade took them.

`DialogsProofs` proves the five properties of Dialogs, for any set of stored
webhooks and templates. The form of an open dialog is that of the inspected webhook
unless another came to be inspected (`FormOf`), code is displayed for some webhook (`SnippetOf`),
and what an answer says is what was asked for (`CallTrue`); the rest are lemmas on
Contents, for every webhook a server can hold: `FilledKeeps` and `UntouchedKeeps` of an
unedited form, `SubmittedSends` of an edited field, `CodeResends` of the code, by what each conversion does
to a body (`ReparsedValue`, `LineFed`, `AsciiAsIs`, `CodeBodyKeeps`).

`ListingProofs` proves all about Listing, for any webhooks, clocks, numbers of digits
and sizes of page. Its base is Timestamps: `TimeRoundTrip` (`Parse` undoes `Format`) and
`TextOrder` (the order of the texts is that of the times, unless the later time continues
the digits of the earlier). That the number of digits `Format` keeps exists at all is an
instance of `Least`, that a set of numbers has a least element, proved from the library's
well-foundedness of `<`; the symbol that decides a comparison of texts is the first digit in
which the times differ, moved by two places. The invariant adds
`Saved` (a saved webhook is in the table or was deleted, under the text of
its own time) and `Paged` (pages, and what was answered before they were asked for, are of
saved webhooks): a page is read from the table in one statement, but is compared with
times and answers long after rows of it were deleted.

`DashboardProofs` proves all the safety properties of Dashboard, for any webhooks, with and
without faults. `MissingExplained` speaks of the page at rest only; what holds all the time
is `Accounted`: a webhook whose event was published is on the list, on its way, or has
one of the reasons, and the snapshot is on the list unless taken off it. A second
invariant, `Loading`, follows the load: its answer has all that is `due`, and the snapshot has it
from then on. `DuplicatesExplained`
is not inductive without `PendingOnce`: a webhook that is on the list while its event
is still to come was in the snapshot and is there once, so that the event makes two of it,
and no other comes. `Sound` says that rows, events and answers have each webhook once
and that events are of published ones; that an idle slot is not waited for by anybody
(`Settled`) is what makes the cases of `Handle` exhaustive.

`InspectorProofs` proves the properties of Inspector, for any webhooks, filters and fetches.
What makes them inductive is `Once`: a webhook is an event on its way once at most, an entry of the
list once, and twice only if load and event have both listed it; one that is on the list while its
event is still to come was brought by the load. So taking one entry off the list leaves
another only of those in `twice`. Its base are lemmas on sequences with an entry
prepended, appended, found and removed. What the filters
leave, `Filtered`, is a recursive function: `FilteredRows` proves that for a list of any length
it is made of the entries that pass, all of them and no others, in their order. Instead of an
induction over an operator it takes the least length at which the function would not exist, or
would go wrong (`KeepsExists`, `Least`). The types follow (`InspectorTypes`), by a second
invariant, `Typed`, that uses the first.

Every invariant that a run checks is the subject of a theorem, and so are the refinement and
the action properties. Only model-checked: what is about progress, `CallsReturn`,
`CaptureCompletes`, `HealthySees`, `ConnectionReleased`, `CancelReleases` and
`AnsweredCompletes` (fairness and ENABLED are beyond the prover).

## 5. Not modelled

* Contents of webhooks, but for the classes of Contents; the dispatcher's header filter and
  its resolution of `host.docker.internal`: data the properties do not tell apart.
* Random ids: taken as unique. Redirects of `http.Client`.
* On the page: tabs, panel resizer, copy and export, which move or copy what is
  displayed; the layout buttons of the editors, which change white space only; the syntax
  highlighting of `highlight.js`; the connection indicator and the timing of toasts.
* Flags, templates, styles, the static file server and the example receiver, a
  target like any other.

## 6. Plan

1. Broker and feed, refinement and proofs (done); Ingest (done, with all its safety
   properties proved); Replay (done, proved); Dashboard, Timestamps and Listing (done).
2. The dialogs (done, proved) and the inspector (done, proved).
3. Timestamps and Listing (proved), down to the digits of a fraction.
4. Dashboard (proved), where an entry can be listed twice, and the types of Inspector (proved).
5. Next: lemmas on sequences without repetition, which Dashboard and Inspector both
   need, in one place; the history of Inspector as an abstraction of Replay's table of
   attempts; the server that Dashboard assumes as an abstraction of Ingest.
