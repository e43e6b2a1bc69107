# openYZJ in TLA+

openYZJ is two Python services that share one MongoDB:

* **server** (`server/app`, gunicorn `-w 2`) is the back end of Yunzhijia chat robots: a webhook
  verifies and answers a message, background tasks store it, and an admin API keeps the robots.
* **proxy-server** (`proxy-server/app`, gunicorn `-w 4`) stands between in-house systems and
  Kingdee's cloud: it keeps Kingdee's access tokens, passes invoicing calls on, takes Kingdee's
  callbacks and forwards them to "System A" (EAS).

Every worker is a process with one asyncio event loop. What runs concurrently is therefore
coroutines of one worker, which interleave at their `await`s, and workers, which interleave
anywhere and meet only in MongoDB. In the modules an action is what a coroutine does between two
awaits, together with the one document update MongoDB performs for it.

## Inventory

| Component | Source | State | Operations | What is hard | What makes it correct |
|---|---|---|---|---|---|
| Callback reception | `endpoints/callbacks.py` | `kdcloud_callbacks` | `_persist_and_ack`: parse, match a client, insert, ask for the switch, schedule the task, acknowledge | an insert that fails or is confirmed too late, a worker that dies before its task has run | only stored callbacks are forwarded; a scheduled task leaves an outcome |
| Callback forwarding | `forwarder.py`, `callbacks.py` 177-212, `admin.py` 236-291 | `forward_status`, `forward_attempts`, `forward_history` of a document; bills in System A | automatic task, replay, conversion to payloads, posts, record | task and replays race; answers are lost; one payload of several fails; the client changes | a success on record is one complete run of posts; nothing is delivered twice by the automatic path; money is conserved |
| Forwarding switch | `runtime_config.py` | one document, and a copy per process for 10 s | read, PUT | a read in flight across a PUT; four copies of which a PUT clears one | a copy is at most 10 s behind, and never on by accident |
| Token manager | `token_manager.py` | `kdcloud_tokens`: app and access token per environment; a lock per process | look, lock, look again, refresh, upsert, fall back; the refresh loop | awaits between check and use; lock per process, store shared; failures under the lock; margins against lives | a token handed out is valid when used; a process does not log in twice; nobody waits for ever |
| Kingdee client, business endpoints | `kdcloud_client.py`, `endpoints/*.py` | none | translate a request, encode it, post it once | the answer is lost after Kingdee has acted; what fails inside the endpoint's `try` and what outside it | what reaches Kingdee was let through for the client that signed it |
| Client authentication | `auth.py` | `proxy_clients` (read) | look a key up; status, endpoint, signature | it is the second look-up of a request: the client may have gone, or another have taken its key, since the limiter's | the two look-ups agree on whose request it is |
| Rate limiter | `middleware.py` | `proxy_rate_counters`: a counter per client and minute, removed after 120 s | look a key up, one atomic `$inc`, compare | many workers; the minute's boundary; a counter removed while a count is under way; the `$inc` whose answer is lost; a limit changed in between | no more than the limit of what is counted in time per minute, and nobody refused before that |
| Client registry | proxy `admin.py` 53-130, server `db/indexes.py` 60-61 | `proxy_clients` | create, list, update, delete | a creation looks twice and then inserts; the unique indexes are made by the other service; deletion while a request or a callback is under way | no two clients share a key or an id once the indexes are there |
| Callback queries | proxy `admin.py` 176-233, `db_indexes.py` | `kdcloud_callbacks` (read), removed after 90 days | one page of the list, by offset | pages shift while callbacks are stored out of order and removed; total and page are two queries | a reader of all pages misses nothing that stays |
| Robot registry | server `api/admin.py`, `core/deps.py` | `robots` | create, update, delete; two look-ups per message; migration of a plain secret | the migration is a write-back across an await; admin calls between the look-ups | a robot's secret is one it was given; a message passes only under its robot's secret |
| Webhook and handlers | `api/yunzhijia.py`, `services/message_processor.py`, `services/handlers/` | none of their own; passes at the gate's service | verify, whitelist, route, answer within 3 s, queue tasks | repeated delivery; slow services; exceptions in handlers | the answer and the logs agree |
| Storage | `services/storage.py`, `outbound.py`, `ai_caller.py` | `messages`, `sessions`, `command_logs` | save, upsert, insert a log, settle a log, push a reply | writes fail silently; two runs share one update filter; a worker dies in the middle | no log is left over, settled twice or wrongly |

Interactions: callbacks ask the switch and read the clients; the replay is an admin call on what
callbacks stored; the gateway's requests look the same client up twice, count in MongoDB, and meet
the refresh loop in the token manager; the server creates the indexes of the proxy's
`kdcloud_tokens`, `proxy_clients` and `proxy_rate_counters`; the webhook writes to the robot
registry when it migrates a secret. `PROJECT.json` lists every component with what is and is not
modelled, and every hazard at its line.

## Modules

| Module | Models | Checked by | Proofs |
|---|---|---|---|
| `RuntimeConfig` | the switch | `runtime_config` | `RuntimeConfig_proofs` |
| `ForwardLedger` | what the callback store promises, abstractly | through `CallbackForwarding` | in `CallbackForwarding_proofs` |
| `CallbackForwarding` | reception, automatic task, replay, record | `callback_forwarding` | `CallbackForwarding_proofs` |
| `SystemAPayload` | what is kept of a callback, and what System A is sent for it | `system_a_payload` | `SystemAPayload_proofs` |
| `EventPages` | the list of callbacks, page by page | `event_pages` | `EventPages_proofs` |
| `TokenManager` | the token manager and its loop | `token_manager`, `token_critical_path`, `token_second_env` | `TokenManager_proofs` |
| `RateLimit` | what the rate limiter promises, abstractly | through `Gateway` | in `Gateway_proofs` |
| `ProxyClients` | the clients of the gateway and the admin calls on them | through `Gateway` | in `Gateway_proofs` |
| `Gateway` | rate limiter, authentication, endpoints and the post to Kingdee; extends `ProxyClients` and runs with it | `gateway` | `Gateway_proofs` |
| `RobotRegistry` | the robots, admin calls and look-ups | `robot_registry`, `secret_rotation` | `RobotRegistry_proofs` |
| `RobotMessages` | handlers and background tasks; extends `RobotRegistry` and runs with it | `robot_messages`, `one_pass` | `RobotMessages_proofs` |

`MC*` modules hold the values the runs give to constants.

### RuntimeConfig

`flag` is the document, `cache[w]` the module variable `_cache` of worker `w`, `read` and `put` the
coroutines. `GetMiss`, `GetQuery` and `GetStore` are the three parts of
`get_auto_forward_enabled`; the clock sample is taken in the first and used in the last. Time is
kept as what is left (of a copy) and what has passed (of a read, since the last change), both capped
at `CacheTTL`, so the clock is unbounded. A failed query stores `"error"`, which is the code's
`False` told apart.

### CallbackForwarding and ForwardLedger

A callback is where it was pushed, its return code, the client it names and the bills it converts
to. `ingest` follows `_persist_and_ack`; `phase` follows a forwarding job, which is the task of an
event or a replay. The switch may be on or off at any time (its timing is `RuntimeConfig`'s), so
`Schedule` may go either way. `Resolve` is the look-up of the client's `callback_url`, in the task
or in `_resolve_replay_target`, and `NoTarget` the replay that finds none; `Send` is one `_send_one`
of `forward_to_system_a`, `Record` is `record_forward_result`. System A is external: it takes a bill
once and flags the second time, as its interface document says. A post need not have reached it:
`_send_one` counts every 2xx answer that is no JSON object as a success (`forwarder.py:209-210`),
and a replay may name any URL (`admin.py:238-244`). `AnswerElsewhere` is such an answer; `stray[b]`
notes the jobs it told of bill b. What answers elsewhere is nothing the code could tell from System
A, so that "sent" is a claim about System A only as far as nothing else answers
(`SystemAHasWhatIsSent`). `Elsewhere` is the jobs it may happen to.

`ForwardLedger` leaves out coroutines, clients and retries; the mapping takes the bills accepted
from an event's jobs as what has `landed`, and those answered for elsewhere as what it was `told`.
An attempt is a success only if the two together are all bills of the event.

A return code is `"pass"` if it does not keep a callback from being forwarded: `"0"`, a number, or
none at all.

An invoice may name one bill twice, as two of a job's payloads, so that System A flags a bill within
a single job. What the two payloads say is `SystemAPayload`'s.

### SystemAPayload

`_build_system_a_payloads` and the flat fields of a stored callback, as operators over the shapes a
callback can have: `data` as an object, a list, either of them in base64, or nothing readable; a
return code as a string, a number or missing; a bill number as the sequence of its comma-separated
parts. `Send`, `Reject`, `Fail` and `Skip` are the ways the conversion ends.

### EventPages

`event[e]` is a callback with its `received_at`, which `_build_doc` sets two awaits before the
insert: a callback may appear below one that is newer. `Remove` is MongoDB's TTL thread, which takes
what has expired in any order. `Count` and `Find` are the two queries of `list_callback_events`;
`Page` is any page a sort on `received_at` alone may give, since equal stamps come in any order. The
reader asks with a larger offset until a page is not full. A filter is the choice of `Events`: the
fields it looks at never change once they are stored.

### ProxyClients, Gateway and RateLimit

`clients[o]` is document o of `proxy_clients`; documents are numbered in the order they are
inserted, so a client that is deleted and made again is another one. A creation is three actions,
one per await; update and delete are one each. `indexed` says which of the two unique indexes exist:
`ensure_indexes` of the server builds them when it starts, and gives up on one if there are
duplicates, so any subset may be there at the start and `BuildIndex` may come at any time.
`granted[n]` is no state of the program: it notes every limit client n was given.

`request[r].pc` follows a request. `Identify` is the limiter's look-up, `Count` its `$inc`, which
MongoDB makes atomic; the window was fixed before the `$inc`. `Authenticate` is the look-up of
`require_proxy_auth` with all its checks, which only await the body. The path and the signature of a
request are looked at there only, and chosen there. `Breaks` is what goes wrong
outside an endpoint's `try` (a 422 from the body's model or a 500, which are one answer here),
`Post` the one post of `_call_gateway`, which reaches Kingdee or does not and, either way, ends in
an answer: the codes and texts of a 200 are one answer here. `found`, `doc`, `born` and `sure`
note which documents the look-ups met and what the registry was like. A counter at 0 is one that is
not there. The token is `TokenManager`'s matter; here it is there or it is not.

Nothing in the code limits how long an `$inc` takes (`mongodb.py:21` sets no timeout for an
operation), so that `Tick` and `Expire` wait for none. `Due(w)` says that the counter of minute w
may have been removed, two minutes after the request that made it; `late` notes the requests counted
from then on, which may start a counter anew.

`RateLimit` has requests, the clients and minutes they ask to be counted for, and a verdict: a
request that is counted goes through if fewer than its limit were counted before it. Of one that is
counted when its minute has long been `over` it promises less: it may go through whatever was
counted, and is refused only if its limit was reached. It has no counters, so none that could be
removed, and no registry. The mapping (`Limiter`) makes `Identify` ask with the client, the window
and the limit it found; a request has been counted when it has a rank, `VerdictOn` reads the verdict
off its `pc`, and a minute is over when its counter is due to go (`Pass` is a `Tick`). `Expire` and
everything admins do are stutters.

### TokenManager

`call[c]` holds the locals of `get_valid_access_token` and `_do_full_refresh`; `lock[w]` is the
`asyncio.Lock` of worker `w`; the worker itself is the caller of its start-up prefetch and loop. A
token is what is left of its life, and `Tick` takes one from everything. It is minted at some moment
of the await for it (`Minted`) and then ages over the rest of that await and over the upsert's. The
awaits a token has to outlive (`Timed`: Kingdee's two answers, the upsert, and the use of what was
handed out) are taken to end within `MaxWait` ticks. httpx's timeouts limit Kingdee's answers; for
the upsert this is an assumption, as the code sets no timeout for an operation of MongoDB. Looking a
token up and waiting for the lock may take any time.

The loop and the start-up know the environments `Looped`, "test" and "prod". A request may name any
other, for `X-Proxy-Env` is any string: the environments from `NLooped + 1` to `NEnvs`, which get a
token by a request's own login only; what Kingdee address such a string stands for is no part of the
state. `BuildIndex` is the server's creation of a unique index on
`account_id` alone; both environments use one account id.

### RobotRegistry and RobotMessages

`robots[c]` is the document with `robot_code` c, with a plain and an encrypted secret; `admin[a]`
and `call[d]` are coroutines. `books[o]` is no state of the program: it notes every robotId and
secret an administrator ever gave to document `o`, and is what the properties compare with.
`Resolve` and `ReadSecret` are the two look-ups of a message, `Migrate` the write-back of
`get_robot_secret`. `Update` writes the fields it is given, `sid` among them, the store
a pass is issued for. `Verdict` is the signature and the whitelist, which no await separates.

`RobotMessages` goes on from there. `work[d].pc` is where call `d` is: first in the handler, then
`Answer`, then the background tasks in the order FastAPI runs them (save, count, log, or for `/ai`
insert, chat, succeed, lookup, push, fail). `heard` is whether the answer was in time; if no
delivery of a message was, `Post` may deliver it again, with the same content. `Faults` chooses
which writes may fail. The gate's service is external: one call has it issue at most one pass, and
its answer (`GateAnswers`) says nothing for sure of whether it did, since an answer that is no JSON
object is told as a success, and so is one with a true `success` (`mys4s_handler.py:81-84`). What a
text routes to, and whether a plate is found in it, is an input.

## Runs

| Run | Instance | What it shows |
|---|---|---|
| `runtime_config` | 2 workers, 3 reads (two in one worker), 1 PUT, TTL 2 | a copy disagrees with MongoDB for at most the TTL whatever reads were in flight; `on` is never served unless the document said so within the TTL, and a read that waited for its query answers `on` only if the document said so since it began; a switch left off is off everywhere from some time on |
| `callback_forwarding` | 1 event of every kind, 2 replays, the task and one of them answered elsewhere, 1 client that changes, up to 2 bills or one bill twice, history of 2 | only what may be forwarded reaches System A; `sent` implies that one single job posted every bill and was told of each that it is taken, by System A or by what answered in its place; System A flags a bill only after a replay or a second callback for it, or if an invoice names it twice; counter, history and status agree; a scheduled task is settled; the documents implement the ledger |
| `token_manager` | 2 workers with their loops, 1 request, 1 environment, life 4, all faults | tokens are valid when used although they were checked an await earlier; no worker logs in over its own good token; a late write costs the store at most two awaits; no call waits or refreshes for ever |
| `token_critical_path` | 1 worker, 1 request, no faults, instant awaits | **violated**: a request logs in |
| `token_second_env` | same, 2 environments | **violated**: the second environment never gets a token |
| `system_a_payload` | 2 bills, up to 2 parts and 2 lines, every shape of callback | amounts add up to the invoice, and each bill gets its own lines |
| `event_pages` | 4 callbacks, pages of 1, kept for 2 ticks, 3 ticks | a reader of all pages misses no callback that stays and has a stamp of its own |
| `gateway` | 2 requests under 1 key, 2 admin calls, 2 client names, limits default 1 and 2, 3 minutes, counters kept for 2 | what reaches Kingdee in a client's minute, counted before the minute's counter was due to go, is within a limit it was given; nobody is refused who is within it; a request is counted for the client it is let through for; the counters implement `RateLimit` |
| `robot_registry` | 2 admin calls, 2 messages, 2 codes, 2 robotIds, 2 secrets, 1 robot with a plain secret | a document only ever verifies with a secret it was given; a message passes only under a secret of a bearer of its robotId; a replaced secret comes back only if it is the plain one the document started with |
| `robot_messages` | 1 message delivered twice, 1 robot, 1 admin call, all faults | the logs two deliveries share agree with the runs; a handler's failure costs no task; a message has no more passes than verified calls that asked the gate, whatever it answered |
| `secret_rotation` | 1 admin call, 1 message | **violated**: a rotated secret is overwritten by the old one |
| `one_pass` | 1 message delivered twice, no faults | **violated**: a second pass is issued |

### Bounds, and why they are enough

* Two workers stand for two or four: the workers share nothing but MongoDB, and every race is
  between one that writes and one that does not. A second coroutine in the same worker is there
  where a copy or a lock belongs to the worker.
* Two replays and the automatic task make three jobs on one document, with a history of two, so that
  the `$slice` drops an entry; two payloads are the least that can fail in part. The event runs
  through every body, so both endpoints, all return codes and an unconvertible callback occur.
* Two codes and two documents allow a robot to be deleted and its robotId to be given to another
  while a message is between its look-ups, which is the shortest history that could mix them up.
* The documents the robots' run starts with have distinct ids, as MongoDB's `_id` are
  (`RegistryAssumption`).
* Two deliveries are the least that share an update filter. More are covered by the proofs.
* Lives, margins and waits of `TokenManager` are scaled down in the code's order: `MaxWait <=
  InnerMargin < Margin < Life`, and `Interval` is computed as the code does. The proofs need only
  the inequalities of `TimeAssumption`. They hold for any environments a request may name beside
  those of the loop; with one of each the run would have six times the states.
* Two of the three jobs of `CallbackForwarding` may be answered elsewhere (`Elsewhere`), the task
  and one replay: the other replay would differ in nothing, and the proofs hold for any jobs.
* Two requests are one more than the default limit, and two creations may race past the look-ups or
  replace the client a request has been counted for. Three minutes are one more than a counter
  lives, so that it can go while a request is still to be counted in it; without `late` the run
  finds `LimitHolds` violated. All workers read one clock. The answers are final, so a request that
  is sent again is another request. Clients have no `allowed_endpoints`: one that forbids the
  request is refused like a disabled client, which the run has.
* Four callbacks and pages of one: the least with which a page shifts by an insert and by a removal
  at once and one callback stays. A page is read at once, which MongoDB does up to a batch of 101;
  the default page is 50.
* A second event for the same bill, a second request in a worker and the lock over two environments
  are left to the proofs, and to `token_second_env`: they hold for any number, and the runs would
  take many times as long.
* Counters (`attempts`, `message_count`, passes) are unbounded and bounded by the number of calls.
  `MaxDocs` and `MaxClients` bound the robots and clients ever inserted, `MaxMinute` and `MaxNow`
  the clocks of `Gateway` and `EventPages`.

`CHECK_DEADLOCK FALSE` is set where all calls of the instance come to an end: the robots' runs, the
conversion, the gateway and the pages. Symmetry is used over admin calls, requests, deliveries and
callbacks, which nothing tells apart, and
only in runs without liveness.

### Fairness

* `RuntimeConfig`: a started query, store and clear are driven on by the event loop, and time
  passes. Reads and PUTs need not happen.
* `CallbackForwarding`: every await of a job ends, because the posts have a timeout and the driver
  has its own; a worker may still die at any point.
* `TokenManager`: weak fairness of a call's own steps, for the same reason. `WaitersGetOn` is what
  follows: time and again each call has returned or gone on. Strong fairness of
  `Acquire`, because `asyncio.Lock` wakes its waiters in the order they came. A restart or a tick is
  never forced.
* The robots' modules, the gateway and the pages state safety only: their requests end by themselves
  or are the caller's to repeat.

## What the violations show

* `token_critical_path`. The loop sleeps `7200 - margin - 60` seconds and then asks for a token that
  has more than `margin` left. It always has: 60 s more. The loop sleeps again, past the token's
  end, and a request has to log in, although `token_manager.py:7` promises a refresh off the
  critical path.
* `token_second_env`. `server/app/db/indexes.py:64` makes `account_id` alone unique; then the upsert
  for the second environment of the account raises, at start-up and on every request. The index is
  the only cause: without it, and without failures of Kingdee and MongoDB, the start-up fills every
  environment (`PrefetchFillsAllUntilIndexed`).
* `secret_rotation`. `get_robot_secret` writes the secret it read back, encrypted, with a filter on
  `_id` alone. A secret an administrator has set in between is gone, and with the plain field unset
  the old one stays. Nothing else brings a secret back (`RotationsAreLostToThePlainSecret`): once no
  document has a plain secret, every rotation sticks (`RotationsStickWithoutPlainSecrets`).
* `one_pass`. `docs/v2_summary.md:186` promises deduplication by `msgId`, but the message is only
  stored after the handler has run, and nothing looks for it before. Repeated delivery is the only
  cause: a message that is delivered once has at most one pass (`OneDeliveryOnePass`).

Other behaviours the models have and no run states:

* The switch's PUT says that it takes effect at once (`admin.py:313`, `runtime_config.py:40`); that
  holds for the worker that serves it, and the others serve their copy for up to 10 s.
* A job that fails after another has delivered sets `forward_status` back to `failed`
  (`forwarder.py:247`), and the callback is in the backlog of `scripts/list_vehicle_backlog.js`
  again.
* A callback that cannot be converted keeps an absent status: `unsupported` is only written for
  other endpoints.
* Two workers that log in at the same time may store the older token over the newer one
  (`token_manager.py:136`), and the fallback may hand out an expired one (82-83).
* A bill number with an empty part is forwarded with an empty bill (`forwarder.py:155`); a numeric
  return code is stored as none, and the callback is forwarded (`callbacks.py:120`, 181).
* `sent` is recorded for a bill System A never got if something else answers the post in its place
  with any 2xx and no JSON object (`forwarder.py:209-210`), a gateway's page for instance, or if a
  replay names another `target_url`. `SentIsOneCompleteRun` counts such an answer as what it is.
* An `$inc` that takes longer than its counter lives starts the count again from one
  (`middleware.py:60-68`, `indexes.py:72-76`); `LimitHolds` and `RateLimit` except such requests.
* An answer of the gate's service that is no JSON object is told and logged as a pass that was sent
  (`mys4s_handler.py:80-81`), and so is a true `success` with any code (84).
* A client with `rate_limit` 0 gets the default of 60 (`middleware.py:51`), not none.
* A request is counted before it is authenticated, so one with a wrong signature uses up its
  client's minute; a client deleted and made again within a minute goes on with the old one's count.
* Without the server's index two clients may share a key; the limiter may then count for one what
  the authentication lets through for the other. `CountedAsItsClient` excepts this, and a client
  that took the key over between the two look-ups.
* `invoice/query` passes every query parameter on, `requestId` included (`invoicing.py:118`),
  although `docs/open_api_doc.md:417` says it is not put into Kingdee's `data`. Kingdee's own
  refusal is answered with code 0, its text in `data` (`kdcloud_client.py:214-223`); a post whose
  answer was lost is answered with code 500 although Kingdee may have acted.
* A reader that goes by `total` may stop too early, for it is counted before the page is read; one
  that goes by offset may see two callbacks with one `received_at` change places and miss one of
  them.
* The bill number of a merged invoice is stored as the one text Kingdee sent, with its commas
  (`callbacks.py:82-92`), so `bill_no=A` does not find the callback of `A,B` (`admin.py:199`,
  `scripts/replay_to_system_a.sh:43`).
* Any client whose name or id is the callback's `systemSource` matches it, and the first found is
  taken (`callbacks.py:167`).
* A null `robotId` counts in the sparse unique index, so a second robot without one cannot be
  created; a robot registered between the two look-ups is handled without its whitelist; a pass the
  gate refused is logged as a success; two runs of one message may each settle the other's log.

## Proofs

TLAPS proves the following for every value of the constants, from the named assumptions of the
modules. In each the safety properties follow from an inductive invariant, which was checked as an
invariant of the run first.

* **RuntimeConfig** (`HomeAssumption`, `TTLAssumption`): types, `StaleAtMostTTL`, `ServedOnWasOn`,
  `AnswersSawItOn`. A read in flight may store a value from before the last change; what saves it is
  that its age is at least the age of the change. `ReadsSampledFirst` says so of reads and
  `CopiesExpireInTime` of the copies they leave, and `Tick` takes from the one what it adds to the
  other.
* **CallbackForwarding** (the six assumptions at its head): types, `OnlyForwardableReachSystemA`,
  `SentIsOneCompleteRun`, `RepeatNeedsReplayOrRepush`, `BookkeepingAgrees`, and that it implements
  `ForwardLedger`. `SystemAHasWhatIsSent` says what a success means if nothing but System A answers
  (`Elsewhere = {}`): that it has every bill. The invariant has five parts: `Typed`; `Gate`, what a
  job's phase says of its document; `Progress`, how far it is with its payloads; `Deliveries`, what
  System A has from it and what was answered elsewhere; `Records`, what the document says. `Books`
  counts recorded jobs against counter, history and status. `AutomaticPathAlone` draws the
  consequence for an installation without replays: a bill System A flags is named twice by one
  invoice or named by two callbacks.
* **TokenManager** (`CallersAssumption`, `TimeAssumption`): types, `LoginsAreNeeded` from
  `HoldersHold` (a call that refreshes holds its worker's lock), and `HandedOutIsValid` from
  `InTime`: what an await has used up is covered by the margin the token was checked with. The same
  invariant gives the action property `LateWriteLosesLittle`: of two workers that log in at the same
  time the older token may be stored last, and then expires at most `2 * MaxWait` sooner: the rest
  of the login's await, once the token is minted, and the upsert's. All of this rests on
  `TimeAssumption`, which takes the upsert to end within `MaxWait`. `PrefetchInv` says that a
  start-up without faults has filled every environment before the one it is at.
* **RobotRegistry** (`RegistryAssumption`): types, `SecretBelongsToDoc`, `AcceptedUnderOwnSecret`.
  The books only grow, so what they vouched for when a call read it they still vouch for when the
  call uses it; `DocsAreVouched` and `CallIsVouched` say so of documents and calls. For
  `RotationLostOnlyToPlain`, `LInv` adds that ids are unique, that a migration under way writes the
  plain secret its document started with, and that a document's secret is that one or its latest.
* **RobotMessages** (`MessagesAssumption`): it implements `RobotRegistry`, so the theorems above
  hold of it (`SecretsStayWhileMessagesRun`), and all of the properties its run checks. `RunIsSound`
  says what a call has done when it is where it is, `LogIsSound` which call settled a log and that
  it is past doing so again, and `Answerable` is counted against the pending logs: an insert adds
  one to both, an update takes one from both, or finds no log at all. `GInv` counts passes against
  the calls that have asked the gate: at the one step that may have a pass issued its call becomes
  one of them (`PassIssued`), and none ever ceases to be one, whatever it was answered
  (`NoPassIssued`).
* **SystemAPayload** (`CallbacksAssumption`): types, `MoneyIsConserved`, `MoneyReachesItsBill`.
  `SentInv` says that what was sent is what the invoice converts to; for a merged invoice the
  amounts sent and those of the lines are then one function, and so have one sum. For a single one
  the sum has one term: `SumOfOne` computes the library's fold there, from its recursive equation
  over the subsets of `{1}`.
* **EventPages** (`PagesAssumption`): types and `NothingMissed`. The invariant `WalkInv` says that a
  callback the reader began with, has not seen and is not to miss has at least `offset` newer ones
  above it (`Newer`). Inserts only add to those; what has expired is older than it and never among
  them; and if it is not on a page although its stamp is its own, the page is full and it is below
  (`BelowThePage`), so the reader goes on.
* **Gateway** (`ClientsAssumption`, `GatewayAssumption`): types, `LimitHolds`,
  `RefusedOnlyOverLimit`, `CountedAsItsClient`, and that it implements `RateLimit`. `RankInv` is
  about the requests counted in one counter: no two have the same rank, no rank is above the counter
  until it is due to go, and neither counter nor rank is above their number. Whoever is counted from
  then on is in `late`, and is no rank's concern. Ranks that are distinct and within a limit are no
  more than the limit, and a rank above the limit means as many requests. For the attribution
  `LookInv` says that, if keys were unique at the first look-up, a document with the key is the one
  found or newer; `Grows` says which steps of the registry could break that: none. The refinement
  goes step by step: `LookUpAsks`, `CountCounts`, `ErrorsFail`, `PostReaches`, and `MappedStutter`
  for all other steps. Its heart is `RankIsNext`: until its counter is due to go, ranks are distinct
  and none is above the counter, so the rank it gives is one more than the number of requests
  counted before; later it is no more than that, so that a refusal is still earned.

Only model-checked: the liveness properties (`OffSettles`, `ScheduledIsSettled`, `WaitersGetOn`),
which need fairness and `ENABLED`.

## Not modelled

* Formats: encryption, signatures' digests, field names, texts and cards. A signature is the secret
  it was made with.
* The renaming of fields in bills (`_translate_bills`) and the encoding of Kingdee's `data`: pure,
  with no state, and an error in them is the endpoint's code 500.
* Queries of the admin API other than the list of callbacks: each is one look-up. Health, wiring and
  logging (`RequestLoggingMiddleware` included); the shell and mongo scripts, which are clients of
  the admin API.
* Expiry of sessions and of picture files: nothing modelled reads them.
* The address an environment stands for: an `X-Proxy-Env` that is neither "test" nor "prod" is
  posted to the default one (`kdcloud_client.py`). That it has a document of its own is modelled.
* Negative rate limits, which the models of the code accept and which refuse every request.

## Plan

The plan is carried out as far as the table of modules says. What is left, in order:

1. `CallbackForwarding` with `ProxyClients` in the place of its `ClientChanges`.
2. `CallbackForwarding` with `RuntimeConfig`: a switch that is off stops the automatic path within
   the TTL. `AnswersSawItOn` and `StaleAtMostTTL` say it of the answer a task is given; what is
   missing is the time between that answer and the post.
3. `Gateway` with `TokenManager`: a request's environment and the token it is posted with.
4. The hazards without a property: the insert that fails behind an acknowledgement
   (`callbacks.py:235`), the whitelist of a robot registered between the look-ups
   (`yunzhijia.py:44`), the null `robotId` (`indexes.py:57`), `message_count` (`storage.py:90`),
   `total` (`admin.py:210`), bill numbers with empty parts (`forwarder.py:155`), answers that are
   not System A's (`forwarder.py:210`) and clients that share a key before the index is there
   (`admin.py:59`). Their notes in `PROJECT.json` say why.
