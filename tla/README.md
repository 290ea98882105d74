# Verification of crow_core

TLA+ models of this repository: the HTTPS server, the router, the HTTP/2
connection, the event client, the session store, and the messages, requests and
files its handlers deal with; TLC runs that check them on small instances; and
TLAPS proofs, for every instance, of safety properties of the server, the HTTP/2
connection, the event client, the router, the messages and the files, and of the session
store's refinement of an abstract specification.

The configuration modelled is the one `meson.build` compiles: TLS
(`BMCWEB_ENABLE_SSL`), no authentication (`BMCWEB_INSECURE_DISABLE_AUTHX`: a
request never has a user session), no mutual TLS. HTTP/2 is compiled but not
offered to clients (`bmcwebEnableHTTP2` is false); its connection is modelled by
itself. One thread runs one `io_context`, so every
completion handler is one atomic step; concurrency is the interleaving of
handlers, and the hazards lie between the start of an operation and its handler.

In this commit `App::run` has the lines that would make and run the TLS server
commented out (`app.hpp:112-123`): a program built with `BMCWEB_ENABLE_SSL` serves
nothing, and only the `TestApp` of the tests (`tests/http_connection_test/testapp.hpp`)
runs the server that `HttpServer` models.

## Inventory

| part | source | state | operations | what makes it correct |
|---|---|---|---|---|
| Incoming connection | `http/http_connection.hpp`, `http/http_response.hpp`, `include/async_resp.hpp`, `http/complete_response_fields.hpp` | socket, parser, request, response, deadline timer and its flag `timerStarted`, `keepAlive` | start, handshake, header, body, handle, end, write, deadline | one response per request; the deadline covers what it should and nothing else; the object is freed |
| Server | `http/http_server.hpp` | the object that is accepting, the TLS context, the global `connectionCount` | accept, reload (SIGHUP), stop | the limit; the certificate is fresh; it always accepts again |
| Outgoing session | `redfish_event/http/http_client.hpp` | connection state, request, response handler, stream | run, resolve, connect, handshake, write, read, idle monitor, shutdown | one chain of operations at a time; a failure is reported once |
| Session pool | `redfish_event/http/http_client_pool.hpp` | deque of sessions | acquire, release | bounded; no slot leaks |
| Event subscriber | `redfish_event/http/http_subscriber.hpp` | retry policy, retry requests and timers, event buffer | sendEvent, response and error handlers, retry | an event is in one place; all retries together stay within the policy |
| Event service manager, plugin | `redfish_event/src/redfish_event.cpp`, `plugintest.cpp`, `include/shared_library.hpp` (`redfish_event/event_manager` is not used) | vector of subscribers | subscribe, submit a test event, loading of plugins | what was answered as subscribed is in the list; subscribers stay where their handlers expect them |
| Session store, persistence | `sessions.hpp`, `http/persistent_data.hpp`, `http/event_service_store.hpp`, `http/mutual_tls.hpp` | sessions by token, timeout, `needWrite`, the file | generate, login, remove, expire, read, write | nothing is lost over a restart; expired sessions are gone |
| Router | `http/routing.hpp`, `http/verb.hpp` | rules, a trie for each method | add, optimise, find, handle, upgrade, list | find agrees with the list of rules; the status and the Allow header say why |
| HTTP/2 connection | `http/http2_connection.hpp`, `http/nghttp2_adapters.hpp` | streams, write buffer | frame and stream callbacks, write, read | one write at a time; answers go to their stream; the connection is read while open and let go of when closed |
| Messages | `error_messages.*`, `include/registries*`  | the JSON of a response | 84 message functions, merging and moving of errors | the message asked for, with its text; none lost |
| JSON requests | `include/utils/json_utils.hpp`, `redfish_event/src/json_utils.cpp` | what a handler asked for, the variables it gave | `readJsonPatch`, `readJsonAction` | read whole and as sent, or refused with a reason |
| Base64 | `http/utility.hpp`, `http/http_base64_file_body.hpp` | the encoder's overflow | a file sent in pieces; decoding | what is decoded is the file |
| Other algorithms | `http/utility.hpp`, `http/http_utility.hpp`, `include/human_sort.hpp`, `utils/*.hpp` | none | URL helpers, sorting, netmasks, hex | agreement with a reference definition |
| Flux client | `http/web_client.hpp`, `redfish_event/http/web_client.hpp` | source, sink, subscriber | next, subscribe, finish | every item goes to one subscriber call |
| Authentication | `authentication.hpp` | - | compiled out | - |
| TLS keys, HTML, headers, logging, command line | `ssl_key_handler.hpp`, `json_html_serializer.*`, ... | none of their own | file I/O, OpenSSL, formatting | - |

Interactions. `Server::doAccept` makes a `Connection`, whose handlers keep it
alive through `shared_from_this`; the timer holds a weak reference. `handle()`
gives an `AsyncResp` to the router; its completion handler owns the connection,
and `~AsyncResp` ends a response nobody ended. `HttpSubscriber::sendEvent` asks
the pool for a session and runs it; the session's stream calls the error
handler, which calls the subscriber's response handler, which releases the
session and arms a retry timer; the timer acquires a session again.
`SessionStore::updateAuthMethodsConfig` raises SIGHUP, which the server handles
as a reload. `App::run` validates the router a second time after whoever built
the routes did. A route of the event plugin reads its body with `readJsonPatch`,
which answers with message functions when it fails, and adds an `HttpSubscriber`.

What is hard: waits that are cancelled or have expired but whose handler has not
run; responses ended late or twice; one failure reported by two handlers;
streams that outlive their sessions; sockets closed under a later connection of
the same stream; limits that count more than they seem to; trees that are added
to after they were optimized; a buffer appended to while it is written; answers
for streams and connections that are gone; three tables (functions, index,
registry) that must agree; failures in one part of a request among successes.
`PROJECT.json` lists
each at its line, under "hazards".

## Modules

| module | models | with |
|---|---|---|
| `HttpSession` | one outgoing session with its stream | - |
| `HttpClientPool` | the pool | extends `HttpSession` |
| `HttpSubscriber` | delivery and retries, composed of the two | extends `HttpClientPool` |
| `MCHttpSubscriber` | symmetry and a bound for the run | extends `HttpSubscriber` |
| `RetryCount` | `HttpSubscriber` under an unending stream of events, with all retries counted | extends `HttpSubscriber` |
| `MCRetryCount` | the run | extends `RetryCount` |
| `HttpSubscriberProofs` | theorems about `HttpSubscriber`, some of them for peers that keep connections open | extends `HttpSubscriber` |
| `HttpConnection` | one incoming connection | - |
| `HttpServer` | acceptor, limit, reload, composed with the connections | extends `HttpConnection` |
| `MCHttpServer` | symmetry for the runs | extends `HttpServer` |
| `HttpServerProofs` | theorems about `HttpServer` | extends `HttpServer` |
| `SessionPromise` | what the session store promises, abstractly | - |
| `SessionStore` | sessions, settings and their file over restarts and crashes | instantiates `SessionPromise` |
| `MCSessionStore` | owners of the sessions of the runs | extends `SessionStore` |
| `SessionStoreProofs` | theorems about `SessionStore` | extends `SessionStore` |
| `Trie` | the tree of one method: add, optimize, find, list | - |
| `Router` | registering, validation, dispatch, upgrade, listing | extends `Trie` |
| `MCRouter` | rules and paths of the run | extends `Router` |
| `RouterProofs` | theorems about what `Router` registers and builds | extends `Router` |
| `LookupProofs` | theorems about what its trees answer | extends `RouterProofs` |
| `Http2Connection` | one HTTP/2 connection with nghttp2, its socket, client and handlers | - |
| `Http2Proofs` | theorems about `Http2Connection` | extends `Http2Connection` |
| `MessageRegistry` | the Base registry and its index | - |
| `Messages` | the message functions, merging and moving of errors | extends `MessageRegistry` |
| `MessagesProofs` | theorems about `Messages` | extends `Messages` |
| `JsonReader` | reading of requests, the routes of the event plugin | extends `Messages` |
| `Base64File` | encoder, file body and decoder | - |
| `Base64FileProofs` | theorems about `Base64File` | extends `Base64File` |
| `MCParts` | parts that share no state, one at a time, for the runs | extends `Http2Connection`, `JsonReader`, `Base64File` |

Definitions introduced by a comment that begins with "Variant" are mutations of
the definition that follows; no specification uses them.

### Event delivery

`sess[s]` is a session object and its stream. `op` is the operation of the chain
resolve - connect - handshake - write - read in flight, whose handler holds the
session. `armed` and `aborted` are the wait of `monitorForError`, `shutdowns` the
`async_shutdown`s outstanding; their handlers hold the stream only and may run when
the session is gone. `doomed` says that the operation in flight works on a closed
socket. `open` is the socket. `retries[r]` is a `RetryRequest`: its count, the request
it keeps, and how many waits of its timer are pending or have their handler queued
(`expires_after` does not cancel a wait that has expired, so that a failure reported
twice may lead to two retries). `handler` says whose handler the session calls, which
matters because a retry that reuses a session does not set its own.

| action | code |
|---|---|
| `SendEvent` | `sendEvent` with `acquire` and `run` |
| `RetryExpired` | the retry function with `acquire` and `run` |
| `ReadAnswer` | `on_read` |
| `OperationFailed`, `MonitorFailed` | the error handler, from an operation or from `on_error`: response handler, `release`, `takeRequest`, `waitAndRetry`, `shutDown` |
| `StepForward` | `on_resolve`, `on_connect`, `on_handshake`, `on_write` |
| `Expire`, `ShutdownDone`, `MonitorReadable` | stream deadline, `on_shutdown`, `on_error` without an error |

The call of the response handler in `on_read` is commented out
(`http_client.hpp:633-637`): handlers see errors only. `processResponse`,
`sendNext` and the success handler cannot be reached and are not in the model;
buffered events stay in the buffer.

Two outcomes are undefined behaviour of the program: `run` on a null session when
a retry finds the pool exhausted, and the error handler of a session that is
gone. `undefined` records which one happened and the behaviour ends there.

What the policy promises of an event is not what the code gives. A retry that
finds an idle session uses it with the handler it has: after `sendEvent` made that
session, the handler is `handleResponse`, and the next failure starts a
`RetryRequest` with a budget of its own. `EventBudget` says what remains: with a
peer that keeps its connections open, there are from any moment on no more retries
than `maxRetries` for each event that somebody owned then and each that was given
since, so that one event is retried more often only at the expense of others. It is
checked under an unending stream of events (`CountSpec`, where an event that nobody
owns any more gives its identity to a new one), and there even that ends nothing: as
long as `sendEvent` makes new sessions, one event may be retried for
ever. `DeliveryEnds` has this as its only exception. No comment or test of the
repository claims more.

### Server

`conn[c]` is a Connection object. `phase` is the operation or handler it waits
for. `wait` is the timer's wait, which after its end is `expired` or `aborted`
until its handler has run; `timerStarted` is the flag of the code, which differs
from "running" in exactly these states. `behind` says that the operation on the
socket was begun when the timer's handler was queued already: that handler runs
first, since the `io_context` runs its queue in order. `pieces` is whether the wait
was started when a piece of a body was read, and whether another one came while it
ran. `stale` counts responses that were ended
and are still held, each of which keeps the object. `requests`, `responses` and
`progress` are history.

The functions of a record (`StartDeadline`, `CompleteRequest`, `Handle`,
`HeaderRead`, ...) bear the names of the code's functions or of the handler's
operation and return the state after it, or the set of possible states.

| action | code |
|---|---|
| `AcceptEnds`, `AcceptHandler` | `async_accept` and its handler with `doAccept` |
| `Start` | `start()` as posted |
| `Reload`, `Stop` | the signal handler |
| `SocketStep` | the handlers of handshake, header, body and write, with `handle`, `doRead`, `doWrite` |
| `Answer`, `DropEnded` | a route handler ends the response, or drops one it ended |
| `Expire`, `TimerHandler` | the deadline |

`start()` posted by an accept handler runs before the next accept handler,
because the post was queued before that accept was begun; the guard of
`AcceptHandler` says so. A closed socket lets the operation in flight end with an
error, unless it had ended before and only its handler is to run (`late`).

### Session store

`authTokens`, `needWrite`, `timeoutInSeconds` and `authMethodsConfig` are the
members of that name; `phase` says whether the program is down, up, or in the
write at its start or end; `file` is what a reader of the file gets, so a missing
and a torn file are the same. The file may lack a name of the system or a timeout
(`named`, `timed`): the first makes the start write, without the second it does not
mark a change. A session's `idle` is `now - lastUpdated` and
`sinceUpdate` is `now - lastTimeoutUpdate`; both stop counting where no comparison
of the code tells larger values apart, so that the clock needs no bound. `held`
are the tokens this run of the program has made or restored, a pointer to which
its callers may keep; `issued` and `oneShot` are history.

| action | code |
|---|---|
| `Start`, `Written` | `ConfigFile()` with `readData`; the end of `writeData` |
| `StopAndWrite`, `StopWithoutWriting` | `~ConfigFile` with `applySessionTimeouts` |
| `GenerateUserSession` ... `UpdateSessionTimeout` | the functions of these names |
| `GetSessions` | `getSessionByUid`, `getUniqueIds` |
| `Crash`, `Tick` | the process dies; the steady clock |

The store is used by code outside this repository only (`meson.build` compiles
authentication out), so its functions are called in any order.

`SessionPromise` has no file, flag or clock: long-lived sessions and settings
survive a clean stop and start, one-shot sessions are never restored, ended
sessions stay away. It is as strong as the code allows: after a crash anything
that was ever issued may be back or lost; and two calls, a one-shot session and
`removeSessionsByUsername`, may make the changes before them "unsafe", so that a
clean stop loses them, until another call marks a change. `Promise` says that the
store implements it, with the sessions in memory mapped to `live` while the
program runs, those in the file while it does not, and `safe` being "a stop will
write, or need not".

### Router

`allRules` are the rules as registered, `perMethods` the rules and the tree of each
method, with the special trees for 404 and 405. A tree is a sequence of nodes; a URL
is a sequence of characters in which a tag such as `<int>` counts as one. Templates
have no other "<": at one that begins no tag `Trie::add` would never end
(`routing.hpp:1083-1113`). `<float>` and `<string>` are other names of `<double>` and
`<str>`, and the same elements. `phase` says whether an exception (a rule without a
handler, a parameter that does not fit, a duplicate) has ended the program. `answer`
is the answer being given: it is there for the properties, and the routes do not
depend on it.

| action or operator | code |
|---|---|
| `NewRule` | `newRuleTagged`, `newRuleDynamic`, `methods`, `notFound`, `methodNotAllowed`, `Wrapped::wrap` |
| `Validate` | `Router::validate`: `internalAddRuleObject` for every rule, then `optimize` of every tree |
| `Handle`, `HandleUpgrade`, `GetRoutes` | the functions of these names |
| `Add`, `Optimize`, `Find`, `FindRouteIndexes` | `Trie::add`, `optimizeNode`, `find`, `findRouteIndexes` |
| `IsParameterTagCompatible` | the tags in base 6 that the compiler compares |

### HTTP/2 connection

`reading` and `writing` are the operations outstanding on the socket: "pending" until
the socket is done with it, "ready" or "failed" until the handler has run.
`sendBuffer` is the buffer of the code, counted in frames; `inFlight` is how much of
it the write was given and `sent` how much it wrote. A stream is "asked" while its
handler has the request, "submitted" and "sending" while the library has the answer,
"failed" when a piece of its body could not be read and the reset has not been sent. A
frame of a body carries how many pieces are `rest`, for the properties. `flushing` is
the library's `send`, which runs to its end before any other handler. `touched`
records that an answer came for a connection that is gone, whose effect is undefined.
`emitted` and `wire` are history.

| action | code |
|---|---|
| `RecvHeaders`, `RecvData` | `doRead` with `memRecv`, `onBeginHeadersCallback`, `onHeaderCallback`, `onFrameRecvCallback`, `onRequestRecv` |
| `RecvReset`, `RecvBad` | `onStreamCloseCallback`; an unknown verb or what is no frame |
| `HandlerAnswers` | the completion handler: `sendResponse`, or `close` if the stream is gone |
| `SendHead`, `SendPiece`, `SendFails`, `SendReset` | `send` with `onSendCallback`, `fileReadCallback` |
| `AfterWriteBuffer`, `AfterWriteError`, `ReadFails` | `afterWriteBuffer`, the error of a read |

### Messages, requests, files

`Messages` has the table of the 84 functions: under which status and where each
puts its message, and with how many arguments; `MessageRegistry` has, of every
entry, its name and the number of its placeholders, and the index by which the
functions find it. `main` is a response and `part` the response of a part of the
request whose errors are moved into it. A part may be a message as a whole (`top`),
the case the comment at `error_messages.cpp:98` names.

`JsonReader` reads a body into a handler's variables as the code does, member by
member in the order of the object, with the message functions above; what was read
and told is in `request`. Numbers have four bits instead of 64, for types of three
and four, so that each range check and each confusion of signs occurs.
`PostSubscription` and `SubmitTestEvent` are the routes of the event plugin.

`Base64File` cuts a file into pieces of any size, as reads may, and encodes them;
`FileServed` decodes what was emitted with the decoder of the same file.

These and `Http2Connection` share no state. `MCParts` runs one of them at a time:
the states add up, and each behaviour is a behaviour of its part.

## Runs

| run | instance | what it shows |
|---|---|---|
| `any_peer` | 3 sessions, pool of 2, 3 events, 3 retry requests, 0, 1 or 3 retries (with 3, only 2 events are sent), buffer of 1; peers close, deadlines pass | `PoolSound`, `SlotsHonest`, `SingleOwner`, `TypeOK` |
| `steady_peer` | 2 sessions, pool of 1, events without end of which 2 are owned at a time, 3 retry requests, 0 or 2 retries; peers keep connections open and answer in time | `FailsOnce`, `AnsweredOnce`, `NullNeedsCrowd`, `EventBudget`, `DeliveryEnds` |
| `server_limit` | limit and objects 4, 1 request each, 1 reload | `ServedBound`, `CertificateFresh`, `NoDeadlineWhileHandling`, `TypeOK` |
| `server_requests` | limit and objects 3, 2 requests each, 1 reload | `AnswerOnce`; the server accepts again, stalled clients are cut off, closed connections are freed |
| `one_piece` (violated) | limit 3, 1 request | `http_connection.hpp:518-520` promises to read a body "one piece at a time" without authentication; a deadline that one piece started ends it although others have come |
| `deadline_runs` (violated) | limit 3, 1 request | `http_connection.hpp:588` takes a started timer for a running one; a body or a response gets no deadline |
| `store_restarts` | 3 tokens of 2 users, timeouts of 1 and 2, 2 settings, any file | `Promise` (the refinement), `RenewedInTime`, `TypeOK` |
| `store_unsaved` (violated) | the same | `sessions.hpp:223` writes "only ... if session isn't about to be destroyed"; a one-shot session cancels the write others asked for |
| `store_stale` (violated) | the same | `persistent_data.hpp:34`, "make sure we aren't writing stale sessions"; the throttle skips the last sweep |
| `rules` | up to 3 of 12 rules, validated up to twice; every path of up to 4 characters of 4 | the trees against the list of rules: `LookupsRight`, `DuplicatesRefused`, `AllowTruthful`, `ListingComplete`, `HandlersFit`, `RouterTypeOK`, and that a second validate changes no answer |
| `parts_apart` | 2 streams, bodies of up to 2 pieces, a window of 2; all 84 functions, 2 calls, the second one of 6 kinds; 3 lists of what is asked, 1 560 bodies; files of up to 6 bytes of 3 | `WireInOrder`, `OpenIsRead`, `AnswersWhole`, `NoneForgotten`, `Drains`, `Freed`, `Http2TypeOK`; `MessagesAsNamedButOne`, `CodeSpeaks`, `NoErrorLost`; `ReadTells`, `ReadAsSent`; `FileServed` |
| `messages` (violated) | 1 call | `error_messages.hpp:412-414` says what `chassisPowerStateOnRequired` formats; it formats `ResetRequired`, with an empty text |

Why the bounds suffice. Three sessions over a pool of two give a session in use,
one idle and one released that still has handlers; three events give a crowded
pool and a buffer that overflows. One retry is the least with a budget that can
be exceeded, and zero retries a policy without; two let an event pass from one
budget to another, and three let one `RetryRequest` have two handlers queued, for
which two events are enough. In `steady_peer` an identity is used again when nobody
owns its event, so that the number of events has no bound; two are enough for one that
is retried and one that leaves a session behind. A fourth retry request would be one
more of what three are: each is tied to one session or one timer. With a
limit of four, two connections are served next to one being started and one
accepting. Two requests reach keep-alive, the deadline of a body that starts
afresh, and a response that outlives its request. `MaxRequests` and `MaxReloads`
bound counters and nothing else. In the session store two tokens of one user and
one of another tell a removal by user from a removal by token; a timeout of two
and a throttle of one leave room between a sweep and the age at which a session
is due; nothing else is bounded. Three rules give a node that is merged, split and
added to again, two rules that both take a path, and a third; four characters are
the shortest paths that reach two tags with a slash between them. Two streams let
one end, fail or be reset while the other sends, and two pieces with a window of
two stop a body in the middle; a frame is the unit of writes, so that a write ends
before, between and after frames. Two messages are the least that make a code
general, in one response or by a move from a part of one or two. The bodies
have every type where every other is asked for, at two levels, the ends of each
range, and unknown, missing and optional members. Six bytes are two triples, cut
everywhere; 27, 228 and 255 have in every group of two bits another value.

The properties of `steady_peer` do not hold of `any_peer`: once a peer
closes a connection or a deadline passes while a session is idle, one failure is
reported twice, a retry carries a request that was moved from, an answered event is
sent again, and a handler may run on a dead session. The models contain these
behaviours; no comment or test of the repository excludes them.

`ReadAsSent` holds with an exception that is in it (`Faithful`): a number above the
largest signed one is read as a negative number where one is asked for. And
`ListingComplete` has one: the root is never listed.

`CHECK_DEADLOCK FALSE`: delivery ends when every event is answered or given up,
undefined behaviour ends the model, `stop()` ends the server, an exception ends
the router's program, and a connection and a file come to an end.

Fairness. Weak fairness for handlers that are queued (the `io_context` runs its
queue in order), for timers, for operations on closed sockets (they end with an
error), and in `steady_peer` for every operation of the client (resolver and
deadlines end it). In the server, route handlers answer and let go of responses:
an assumption on the rules, which are plugins. On an HTTP/2 connection, the handlers
of what has ended run, operations on a closed socket fail, frames that were read are
handled, and the library's `send` does not stop in the middle; its route handlers
need not answer. Nothing is assumed of its client on an open socket: the code has no
deadline on `async_write_some`, so that a client that does not read leaves a write
pending for ever, and `Drains` has this as its exception. Nothing is assumed of
clients, signals or callers of `sendEvent` elsewhere.

## Proofs

`HttpServerProofs` proves, from `ConnectionAssumption` and `ServerAssumption`
(the limit is at least two, the objects are finitely many and at least as many as
the limit), for every instance:

| theorem | states |
|---|---|
| `TypeCorrect` | `[]TypeOK` |
| `AnsweredOnce` | `[]AnswerOnce` |
| `DeadlineOff` | `[]NoDeadlineWhileHandling` |
| `FreshCertificate` | `[]CertificateFresh` |
| `ServedBounded` | `[]ServedBound` |

In the server the inductive invariant `Inv` is a predicate of each record, `ConnInv`, plus
`AcceptInv`. `AnswerOnce` alone is not inductive: nothing in it says that an
object before its first request has read none, which the first header needs to be
read under the deadline of the handshake without breaking
`NoDeadlineWhileHandling`; `ConnInv` adds that. `CertificateFresh` needs that
exactly the object `accepting` is in the phase "accepting", so that no step of a
connection replaces its context. One lemma per function of `HttpConnection`
(`HandleInv`, `DoReadInv`, ...) says that it leads from `ConnInv` to `ConnInv`;
`ConnectionStepAllowed` and `RecordStep` lift this to steps. `ServedBound` is
proved on top of `Inv`: `start()` compares a count that includes the object
itself and the one accepting, two objects outside the set before the step, and
no other step adds to the set.

`SessionStoreProofs` proves, from `StoreAssumption` (timeouts are at most
`LongestTimeout`, which is positive; the defaults are legal values):

| theorem | states |
|---|---|
| `TypeCorrect` | `[]TypeOK` |
| `NotRevivedLate` | `RenewedInTime` |
| `ImplementsPromise` | `Promise`, that is `Spec => P!Spec` |

`RenewedInTime` is about one step, but why a login is in time depends on when the
last sweep was: `IdleInv` says that within a throttling interval no session is
idle for more than the longest timeout and the time since the sweep. `FileInv` is
what a restart relies on: exactly the one-shot sessions have the persistence
`SINGLE_REQUEST`, the file holds none of them, a file that is missing, torn or
being written has no sessions, and no session is in memory when the program
starts. `Refines` maps every step: a login or lookup to `End` of the sessions it
sweeps (`EndStep`), the truncation at shutdown to `End`, the end of the write to
`Stop`, the write at the start and the clock to a stutter.

`Http2Proofs` proves, from `Http2Assumption` (streams are positive, bounds are
natural numbers):

| theorem | states |
|---|---|
| `TypeCorrect` | `[]Http2TypeOK` |
| `InOrder` | `[]WireInOrder` |
| `ReadWhileOpen` | `[]OpenIsRead` |
| `NotForgotten` | `[]NoneForgotten` |
| `AnsweredWhole` | `[]AnswersWhole` |

`WireInOrder` is not inductive: a write that is begun must find `sent` at zero,
which `SentInv` adds (only a write that has ended has written anything). The
invariant falls into a part about the socket and its buffer (`SocketInv`), one
about the session (`SessionInv`) and `OpenIsRead`; the lemmas `EmittedKeepsSocket`,
`ArrivedKeepsSocket` and `ConsumedKeepsSocket` say that the three operations on the
buffer keep the first, whoever performs them, and rest on lemmas about sequences
(`RestOfAppend`, `TakeAndRest`, `AppendAfterConcat`). Nothing in them depends on how
many frames a write was given.

`AnswersWhole` speaks of the wire, its invariant `AnswerInv` of what the library
emitted: the frames of a stream are in turn (`InTurn`), and `Progress` ties what
they carry to the stream's state and to the pieces that are left, so that a stream without
an answer has no frame and one that is sending has had no end. Only `SendHead`,
`SendPiece` and `SendReset` add frames of a stream (`HeadInTurn`, `PieceInTurn`,
`ResetInTurn`); all other steps leave a stream as it is, close it, or happen before
its answer (`NothingEmitted`). The theorem then takes the property from the whole to
its prefix on the wire, by `WireInOrder`.

`HttpSubscriberProofs` proves, from `SessionAssumption`, `PoolAssumption` and
`SubscriberAssumption` (the payload of a moved request is no event, the missing
handler no retry; the pool's size is a natural number, the buffer holds at least
one event, policies are integers):

| theorem | states |
|---|---|
| `TypeCorrect` | `[]TypeOK` |
| `SoundPool` | `[]PoolSound` |
| `HonestSlots` | `[]SlotsHonest` |
| `OwnersUnique` | `[]SingleOwner` |

The invariant has a part for the pool, one for the sessions and one for the
retries. `SlotsHonest` needs `PoolSound`: release erases the first occurrence of a
session that failed, whose connection state still says that it is in use, and only
because there is no second occurrence has the pool forgotten it. Every step of a
session falls under `SessionKeeps`, `AcquireKeeps` or `ReleaseKeeps`, which know
only whether the new record is honest; the lemmas about the functions of
`HttpSession` say that of each. `SingleOwner` is proved on top of this: `OwnersInv`
adds that an event that was not sent has no owner, which `sendEvent` needs, and the
steps fall into five kinds: an owner lets go (`SessionShrinks`), a request moves
from a session to a retry (`RequestMoves`) or back (`RequestReturns`), an event is
given to a session (`EventGiven`) or put into the buffer (`EventBuffered`). Nothing
of it depends on how often a session fails. No assumption is made about peers.

`HttpSubscriberProofs` proves further, from the same assumptions and `PeerSteady` (no
deadline of a stream expires and no peer closes a connection, which is what the run
`steady_peer` explores):

| theorem | states |
|---|---|
| `FailuresReportedOnce` | `[]FailsOnce` |
| `AnsweredEventsRest` | `[]AnsweredOnce` |
| `NullOnlyInCrowd` | `[]NullNeedsCrowd` |

The inductive invariant is `AllInv`: the two before it and `SteadyInv`, which says
what cannot happen with such peers. A session is at work with its operation in
flight, or idle with its monitor armed, or gone and shut down; a retry waits, runs
or rests; no handler dangles. `AnsweredInv` says that an event that was answered is
owned by nobody, which `OwnersInv` turns into a statement about the one session
that read the answer. `RetriesAlone` says that a `RetryRequest` has one
wait or one session that calls it, but not both, without which it could arm its timer
twice and retry with nothing. `CrowdInv` ties `NullNeedsCrowd` to a count: sessions in use
are as many as events they hold, so that a pool that is full is full of events.

`MessagesProofs` proves, from `MessagesAssumption` (handlers call functions of the
table, each of which finds an entry with a key; TLC evaluates it for all 84, the
provers do not go through tables of that size):

| theorem | states |
|---|---|
| `CodeAlwaysSpeaks` | `[]CodeSpeaks` |
| `ErrorsKept` | `[]NoErrorLost` |

`MessagesInv` adds that an error that is not an object holds no messages; `MovesOK`
counts what a move takes from and gives to each response, the message that a response
is included. A move
adds the messages of one error to another in a loop, `AddAllToErrorJson`, for which
`AddAll` is an induction over its messages: after n of them the code is right and
the errors are those there were and those among the first n. The library's
induction theorems take operators as parameters and cannot be used here;
`Induction` states the principle for sets, and follows from `WFMin` and
`NatLessThanWellFounded`. `SomeUnfolds` uses it, too, to show that the function by
which the loop is defined exists.

`Base64FileProofs` proves, from `FileAssumption` (bytes are below 256):

| theorem | states |
|---|---|
| `FilesArrive` | `[]FileServed` |

`Base64Inv` says that until the end, what was sent is the encoding of the triples
that were read in whole (`Encodes`), and the encoder keeps the one or two bytes
after them (`Keeps`). `EncodePiece` is the step: a piece of any size first completes
the triple that was begun, then is cut into triples (`LoopAndRest`). `DecodeGroups`
says that the decoder gives back a triple for each group of four codes, by
arithmetic on one group at a time; `DecodeServed` and `DecodeFinished` apply it to
what was sent so far and to the whole, padded or not. The encoder and the decoder
are functions of positions, not recursive, so that none of this is an induction.

`RouterProofs` proves, from `RouterAssumption` (the verbs are distinct, GET is one of
them and no special method is; what callers register are sequences and a Boolean;
paths are sequences):

| theorem | states |
|---|---|
| `HandlersAlwaysFit` | `[]HandlersFit` |
| `RouterTypesHold` | `[]RouterTypeOK` |
| `DuplicatesAlwaysRefused` | `[]DuplicatesRefused` |

What the trees do is defined by recursive functions: of a walk through a template,
of the rules and methods that are added, of the turns of `optimizeNode`, of the
digits of a tag. For each, one lemma shows that the function exists and another, by
`Induction` as above, what it is (`SomeWalk` and `WalkedIs`, `SomeKids` and
`OptimizeNodeIs`, ...). `AgreeingTypes` is the heart of `HandlersAlwaysFit`: two
numbers in base 6 that agree digit by digit, until both end, are those of two lists
that agree type by type. It needs that no type has the digit 0, without which a list
could end early and agree.

The inductive invariant of the other two is `RouterInv`. `TrieOK`, which is what
`RouterTypeOK` says of a tree, is kept by adding (`AddKeepsType`) and by optimizing
(`OptimizeKeepsType`: a fragment that is joined of two is longer than either, and a
grandchild still comes after its grandparent), for trees that were optimized before,
too. `DuplicatesRefused` needs to know what a tree contains. `Filled` says it of a
tree that is being built: each node has one parent and one way in (`Tree`), so that
the node a template leads to determines the template (`LeadsOnce`, `LeadsBack`), and
a node has the rule i exactly if a form of rule i leads to it (`Marks`). Then `Add`
finds a rule at the node if and only if an earlier rule of the method has the form
(`AddMarks`), and two rules of one method with a common form cannot both be added.
All this is about trees before they were optimized; the property claims nothing of
later calls. In the other direction, when validate throws, `RefusedIs` names the
rule and its cause. Tags have no width in the model: in the code that of a handler
is an `int` (`utility.hpp:110-126`), which takes twelve parameters to exceed.

`LookupProofs` proves, from `RouterAssumption` and `DigitsAssumption` (the minus sign
is not a digit):

| theorem | states |
|---|---|
| `LookupsAlwaysRight` | `[]LookupsRight` |
| `AnswersAlwaysStable` | `AnswersStable` |
| `AllowAlwaysTruthful` | `[]AllowTruthful` |
| `ListingAlwaysComplete` | `[]ListingComplete`, if `SlashesAlone` |

The first three hold for every set of rules, however long their templates and the
paths, after any number of validates. The fourth is about the list after the first
validate, as its property is. The argument has four parts.

What a tree says. `Names` is the set of triples of a node, a text and a node the text
leads to, along edges that are tags or fragments; it is defined as the least set that
is closed under the edges, because a recursive definition could not be reasoned
about. `AddSpells` says that adding a template gives one text a rule and takes
nothing from the others. `OptimizeGood` says that joining fragments changes neither
the texts nor their rules. It needs to know that a node that can still be joined has
fragments of one letter only (`Settled`), since `optimizeNode` stops at a child that
has a rule, tags or several children; a second validate adds to such trees, and
`Settled` is what survives it.

What a search finds. `ReadOver` reads a path with a template from left to right, and
`ReadJoin` and `ReadShift` let it be cut at an edge. `BranchesAre` says that the
branches `find` tries are the edges a reader gets over, with where it then stands and
what was pushed, and `FindIs`, by induction from the last node to the first (children
come after their parents), that a search answers the least rule spelled below a node
by a template that takes the rest of the path. `GatherPlaces` says that the lists of
values by type, which `find` fills on its way back, hold the values of that template
in order, so that `get<T>(pos)` gives each argument its own.

What a method's table holds. The inductive invariant is `RouterInv /\ TablesSound`.
`Sound` says of a table that its tree is in order (`GoodTrie`), that index i is
spelled by the forms of the rule at i and nothing else is spelled (`Spelling`), and
that all earlier rules of the method stand at earlier indices (`Lined`), without
which the least index need not be the first rule: after a second validate each rule
has two. `Served` adds what a validate that ends has achieved: every rule of the
method is in the table (`Covers`) and the old indices still mean what they did
(`Longer`). Then the least index of a path is that of the first rule that takes it
(`RouteRight`); a rule that had an answer keeps it (`StableIs`), since rules that were
registered later come later; and the verbs that `findRoute` collects are those with a
rule (`AllowIs`).

What the list of all routes names. The walk of `findRouteIndexes` sees literal
children only, and leaves out a rule under a fragment that is a lone "/"; `Shown` says
at which texts a rule is shown. `ListIs`, again from the last node to the first, says
that the list holds the indices that are shown, and each once if no index is shown at
two texts. A rule that ends in a slash is in the tree with and without it, so this
has to be earned: both texts could be shown, if the longer one ended in a fragment
such as "a/". `EvenTables` excludes it. Before the first `optimize` every fragment is
one letter (`Letterwise`), so that those it makes have one length at each node
(`Evenly`); a text then leads to one node at most (`OneNode`), and where both texts
lead to one the longer ends in a "/" of its own (`NotBoth`). Two indices with one
template would be two rules at one node. None of this survives a second validate,
which puts single letters beside joined fragments and lists a rule twice.
`SlashesAlone` asks that templates start with a slash, as paths do, and do not end in
two: both forms of "/a//" end in a slash, as "//" does, which has no other form, and
the walk may leave them out. Every template registered in the repository
is so, and `MCRouter` assumes it of its own.

Model-checked only: liveness (temporal formulas with fairness are out of the prover's
reach); `EventBudget`, which is about a sum over all retry requests; what the JSON
reader reads, since `JsonReader` has recursive operators; and `MessagesAsNamedButOne`,
which compares names letter by letter and goes through the tables of functions and
entries, as TLC does completely.

## Not modelled

Bytes, header contents, formatting and logging throughout; of the connection,
ETags, file bodies, websockets, and requests that arrive pipelined (their bytes
are discarded at `http_connection.hpp:562`); of the client, the plain TCP stream,
`clone` and the pool's destructor. Authentication and mutual TLS are compiled
out. The event service settings and subscriptions are read and written with the
session file and changed by no code here. TLS keys, HTML and command line have no
control worth a model.

Of the router, privileges, websocket and streaming rules (all commented out) and
fractions and exponents of `<double>`. Of the HTTP/2 connection, header contents,
and a handler that answers while more frames of the same read are waiting: it would
call the library's `send` within its `memRecv`. Of the messages, their wording,
resolutions and severities; the version in the general code of an error
(`error_messages.hpp:37`, Base.1.11.0) differs from that of the registry (1.16.0),
and nothing compares them. `getLog` never sees an index out of range. Of the JSON
reader, arrays of a fixed size, which no variant of `UnpackVariant` has, and the
overload of `unpackValue` that writes no messages, which nothing calls.

A second subscription may move the subscribers while handlers are bound to the
old ones (`redfish_event.cpp:46`): all of what follows is undefined, so that there
is nothing to state about it. `redfish_event/http/web_client.hpp` (Flux) includes
`core/reactor.hpp`, which is not in the repository. Human sort, netmasks, hex and
URL helpers are functions of their arguments that the modelled code does not call.

## Plan

Left, in this order:

1. Proofs about the JSON reader, with its recursive operators made recursive
   functions and the induction of `MessagesProofs`.
2. Abstract specifications: an exchange of requests and responses that
   `HttpServer` implements, a delivery service that `HttpSubscriber` implements.
3. Bytes of pipelined requests in the buffer of a connection.
