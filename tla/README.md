# Bside: a TLA+ verification of the server, and of the clients that race with it

Bside lets people who are near each other read each other's profile and start a
chat. Phones advertise a rotating 128-bit identifier over Bluetooth and report
what they hear; a FastAPI server resolves the reports against Redis, lets two
people who have recently seen each other exchange a first message, keeps their
conversation for good, and pushes notifications; a web app in a Capacitor shell
shows all of it. The modules here model the parts in which concurrency,
crashes, retries and expiry decide whether that works. All paths below are
relative to `src/`.

## 1. Inventory

### How the parts interact

    Android radio --BLE--> Android radio
        |  POST /discovery/identifiers, /discovery/observations
        v
    FastAPI handlers (one asyncio process) --commands and Lua scripts--> Redis
        |  create_task                       |  create_task
        v                                    v
    Push (FCM)                        Recommendations -> AI service -> gateway
        |                                    |  cache, leases, notices in Redis
        v                                    v
    phone notification              annotation of the next poll's answer
    Web controller <--15 s poll, mutations, native callbacks--> server, radio

Only a Redis command and a Lua script are atomic. Between two `await`s of a
handler any other handler may run; the process may stop anywhere. Redis writes
through (`appendfsync always`) and is taken to keep what it answered.

### Components

| Component | State | Operations | What is hard | What makes it correct |
|---|---|---|---|---|
| Messages (`send_message.lua`, `store.py:326-396`, `v1.py:182-247`) | `pair`, `conv`, `conv:seq`, `conv:msgs`, `idem`, `user:convs` keys; handlers between script and push | send, list, page | both write first; retries while the first attempt runs; id reuse; crash before the push; a moment sampled early; two commands behind one page | one conversation per pair, one message per key, seq = index, answers agree, history only grows, no double notification |
| Discovery (`issue_identifier.lua`, `store.py:165-276`, `v1.py:76-159`) | flag, `ident:current`, `ident:map`, `obs` scores | issue, report, refresh, on, off | report and OFF are several commands; expiry; crash in OFF | observations rest on live identifiers; the current identifier resolves; OFF forgets |
| Push tokens (`put_push_token.lua`, `read_push_tokens.lua`, `store.py:280-322`, `push.py:216-241`) | `push:tokens`, `push:owner`, `push:token` keys, delivery tasks | register, deliver, drop | handover during a drop; three separate expiries; in-place conversion of old sets | a device belongs to its last registrant; a live device is reached |
| Web chat screen (`discovery-controller.js:163-365`) | view, messages, history cursor, outbox, one request per scope | open, leave, poll, page, send, retry | late, lost and superseded answers across awaits | nothing of another chat shown; nothing skipped; catches up |
| Profiles and `/me` (`put_profile.lua`, `v1.py:60-79`) | three fields, revision, discovery flag | replace, switch, read | concurrent saves and the AI cache key; a read that is older than the change it follows | a revision names one text; what was acknowledged stays |
| Installations (`register_installation.lua`, `security.py`, `credentials.js`) | link, replay key, user, credential hash | register, replay | lost answer, expired replay key, restart, no storage | one user per request id; a held credential is that user's |
| Recommendations (`recommendations.py`) | in-flight set, leases, cached failures, `push:told` | annotate, evaluate, notify, close | lease expiry during work, cancelled tasks, Redis not answering, stale snapshots before a notice | a pair is paid for once at a time and told once; a lease is freed by its owner or by time |
| AI service (`ai/service.py`, `cache.py`, `gateway.py`, `policy.py`, `grounding.py`, `schema.py`) | semaphore, tasks of one call, cache, usage metrics | recommend | one deadline for reads, queue and calls; cancellation; duplicate or unknown ids in the model's answer; partial usage reports | every candidate gets one outcome; nothing keeps running; every call ends; notices rest on true quotes |
| FCM sender (`push.py:56-163`) | OAuth token, lock | send | refresh under concurrency, verdict of an HTTP error | only dead tokens are called dead |
| Web controller, boot and mutations (`discovery-controller.js:56-89,257-338`) | epoch, one request per scope, `me`, `busy` | start, refresh, save, switch, reload | superseded and late answers, aborted mutations | no older answer undoes an acknowledged change |
| Web controller, the rest (`discovery-controller.js:90-162,227-249`) | people, recommendation timer, native status | poll, select, native callbacks | generations of timers | no answer of an older generation is applied |
| Android radio and service (`DiscoveryRadio.kt`, `DiscoveryService.kt`, `DiscoveryPlugin.kt`) | identifier, heard set, callbacks, loop job | start, stop, rotate, sweep | three threads over plain fields, blocking HTTP in the loop | what is advertised resolves; nothing heard is lost or reported after stop |
| Android API client, credentials, push service | SharedPreferences | thin wrappers | - | - |
| Configuration, errors, health, wiring; web views; mock server, evals, demo, documents | none of their own | - | - | - |

`PROJECT.json` lists for each component what is modelled, and under `hazards`
the places in the code where each of these difficulties bites.

## 2. Modules

    Proximity ----EXTENDS---- Messaging --implements--> ChatPromise
        ^                        |
        | implements             MessagingProofs
    Discovery --- DiscoveryProofs
    PushTokens -- PushTokensProofs
    ChatScreen -- ChatScreenProofs
    Session ----- SessionProofs

    Judgement --EXTENDS-- Evaluation --implements--> RecommendPromise
                             |                          | EXTENDS
                          EvaluationProofs           Recommendations -- RecommendationsProofs
                             |
                          EvaluationPromiseProofs

**Proximity** is what the chat scripts can see of discovery: who exists, has a
profile, is switched on, and the observation scores. Each action is one atomic
write; `Snapshot` is `observed_snapshots`. It is both the abstract
specification that Discovery implements and the state below Messaging: that
split lets the send script be checked against everything discovery may do
without carrying the discovery handlers along.

**ChatPromise** is what `POST /messages` promises with no Redis keys in sight:
one dialogue per pair which only grows, and at most one entry per
(sender, `client_message_id`).

**Messaging** is `create_message` and `send_message.lua`. A handler arrives and
samples the clock (`Arrive`); later the script runs as one action, `Refuse`,
`Replay`, `Create` or `AppendTo`; a handler that stored something schedules the
push and answers (`Notify`); `Crash` forgets the handlers. The five errors of
the script are the three disjuncts of `Refuse`'s guard. Any request may arrive
at any time, also twice at once, which is what a retrying client does. `Page`
and `Listed` are the two read endpoints as functions of the state; `Page` gets
its `LLEN` separately because another command may run before the `LRANGE`.
`Listed` takes the three round trips of `list_conversations` (scores, messages,
profiles) at one moment, so it says what the stored keys amount to and not what
an answer that mixes three moments may show.

| Variable | Redis key or process state |
|---|---|
| `pair[{a,b}]` | `pair:{low}\|{high}` |
| `members[c]` | `user_a`, `user_b` of `conv:{c}` |
| `counter[c]`, `log[c]` | `conv:{c}:seq`, `conv:{c}:msgs` |
| `idem[<<s, i>>]` | `idem:{s}:{i}` |
| `convs[u][c]` | score of c in `user:{u}:convs` |
| `arrived`, `stored` | coroutines of `create_message` before the script, and between script and push |
| `answers`, `pushed` | history: the 2xx answers given, the notifications scheduled |

**Discovery** has one action per Redis command of `report_observations`
(admit, resolve, read, write) and of `set_discovery(False)` (flag, read, unmap,
clear), the issue script's three outcomes, key expiry through the clock, and
crashes. A redis-py `pipeline()` is MULTI/EXEC and counts as one command.
`until` is the first tick at which an identifier's keys are gone. `leftover` is
a history variable: users whose switching off was cut short by a crash or
overtaken by a report of their own.

**PushTokens** has `PutToken` and `DeliverRead` as one step each, and the four
commands of `drop_push_token` one by one; keys expire on `Tick`, each at its
own time. Each notification is a task of its own (`Deliveries`), any number of
them for one user. A task takes the clock (`Deliver`), reads the list with that
moment any time later (`DeliverRead`), hears what became of the sends
(`Outcomes`) and drops the dead tokens. Lists that an older server left as plain
sets are part of `Init`. `holder`, `seen`, `dropped`, `overtaken` and `away` are
history variables that the properties are stated with; `away[d]` holds the tokens
that somebody else registered while d had them, or was about to read them with
no owner key left.

**ChatScreen** is the chat part of the web controller. JavaScript runs one
callback at a time, so an action is the code from one answer, timer or tap to
the next `await`. The `request` helper's one-request-per-scope rule makes a new
list request replace the old one; the history load is not replaced but
serialised by `historyRunning` and `historyAgain`. A page is two commands on the
server, `PageCounted` and `PageAnswered`, as in Messaging. Its rows are a set of
seqs, because `mergeMessages` keeps the list sorted and without duplicates.
`overtaken` and `due` are history variables: whether this chat was opened during
a load of its history, and what was stored when this visit last called
`syncHistory`.

**Judgement** holds the pure part of the AI service: what is made of one entry
of the model's answer (`Build`, `Accounted`), of a stored entry (`Revalidated`),
of quotes (`VerifyExcerpts`), and which outcomes are worth a notice (`Eligible`,
`Before`, `Marked`). A profile field is the set of quotes that occur in it, so
grounding is membership.

**Evaluation** is `RecommendationService.recommend` and the gateway, for several
calls on one service. A call reads the cache, one `Read` per lookup; splits what
is missing into batches (`LookedUp`); each batch waits for the semaphore
(`Enter`), posts, tries again after a timeout (`Again`), gives up or gets an
answer, and stores what can be used, one `Store` per entry. `Deadline` and
`CancelCaller` cancel the tasks, `TaskCancelled` is one of them leaving,
`Collect` the end. A read that is cut off by the deadline is `ReadsExpire`. The
caller may also be cancelled while the deadline is clearing the tasks away; the
call then raises. A batch that raises by itself (`service.py:543-548`, which the
code marks as not to be reached) is left out.
`metrics` is what `collect_metrics()` gathers, `whole` a history variable: how
many provider requests reported every token count.

**RecommendPromise** is what `recommend()` promises its callers with no tasks in
sight. Evaluation implements it, and **Recommendations** is built on it, so the
bridge is checked against everything the service may do without the service's
state.

**Recommendations** is the bridge on several server processes that share one
Redis. A job is a background task of `_evaluate`: `Claim` and, for each pair,
`Granted`, `Refused` or `Unanswered` (Redis failed, and may or may not have set
the key); the call of the service; `CacheFailure`; `CheckViewer`, `Look`, and
`Tell` for each notice; `Release`. `Tick` ages leases and jobs. `Close` is
`aclose`, `Cancelled` the cancellation that reaches a task, `Crash` the end of a
process.

| Variable | Redis key or process state |
|---|---|
| `profile[u]` | `profile_revision` and `discovery_enabled` of `user:{u}` |
| `near[v]` | who `obs:{v}` shows within the window (Discovery) |
| `lease[k]` | `ai:job` key: whose token, and its time to live |
| `inflight[w]` | `_inflight` of process w |
| `job[j].trying`, `.held` | the job's `leases` dictionary, before and after the SET |
| `job[j].unguarded` | history: claims that Redis did not answer |
| `kept[k]` | the evaluation cache: usable, failed or no entry |
| `told` | `push:told:{viewer}:{candidate}` |
| `sent` | history: notices since the pair's key was last free |

**Session** is one installation of the app against the server: registration and
its replay, the boot, `/me`, saving the profile and the discovery switch, and a
reload. A call the screen has given up or superseded may still be handled by
the server, in any order with later ones (`LetGo` keeps it, `Reply` drops the
answer). Stored values are numbers of saves, so that newer means larger.
`localStorage` may be unwritable (`durable`), and then a reload is a new
installation. `acked` is a history variable.

**MC modules** give the constants that a `.cfg` cannot write down (requests and
answers of the model, keys, symmetry sets). Operators commented `Fault:` are
deliberately wrong variants of the definition that follows; nothing uses them
in the specifications. They exist to show that each property can fail.

## 3. Runs

| Run | States | What it shows |
|---|---|---|
| `messaging` | 94,129 | one conversation per pair, one message per key, answers, lists, pages and notifications that agree with them; implements ChatPromise |
| `discovery` | 353,280 | the discovery invariants, and that Discovery implements Proximity |
| `push_tokens` | 323,043 | a delivery sends to its user's devices by the last registration, however late it reads; a live device is on every list read for its user |
| `chat_screen` | 978,421 | only this peer's messages; no gap below the watermark; no call of `syncHistory` is forgotten; an open chat shows everything in the end |
| `evaluation` | 277,343 | a call answers exactly its request, in batches that fit the budget, calls its usage complete exactly when every request was answered in full, leaves nothing running, stores what its readers take over, ends, and implements RecommendPromise |
| `recommendations` | 664,931 | a pair is paid for once at a time and told once; leases and the in-process set follow the tasks |
| `session` | 76,506 | one user per request id; acknowledged changes stay on the screen |
| `off_drops_observations` | violated | finding 1 |
| `issued_identifier_resolves` | violated | finding 2 |
| `late_report_spares_new_owner` | violated | finding 3 |
| `never_skipped` | violated | finding 4 |
| `notice_is_current` | violated | finding 5 |

Deadlock is checked everywhere: no specification can stop, because a new
request, a crash or a user action is always possible.

### Bounds, and why they are enough

- `MaxTime`, `Window`, `Ttl`, `RefreshAfter`: with a window and a lifetime of
  one tick and a clock of two or three, every score and key is met alive, at
  its boundary and dead. Discovery was also explored once at `MaxTime` 3 and
  `Ttl` 2 (2.6 million states) without a difference.
- Two users: each race of the send script is between the two members of one
  pair. The theorems cover any number.
- `ClientIds` one, `Texts` two: a retry, a reuse of the id for another text,
  and the same id used by both users. `MaxPending` 2 handlers and `MaxLength` 2
  messages a conversation: two concurrent attempts and a second page.
- `Identifiers` two: one rotation of one user or one identifier each.
  `MaxHandlers` 2 in flight: every pair of handlers interleaves.
- `Tokens` two, `Deliveries` one, `MaxLag` 1, `MaxTime` 3, `Ttl` 1: handover in
  either direction, a second device keeping a list alive after an owner key has
  expired, a registration whose script runs a tick after its sample. `MaxLag`
  binds registrations only; a delivery may read at any time after its sample. One
  delivery meets every command of a read and a drop between registrations; two at
  once, to one user or to two, were explored with one token (80,749 states), and
  the theorem covers any number.
- `Peers` two, `Limit` 1, `MaxStored` 2: two chats to confuse, a history of more
  than one page, an own and a peer's message in either order. No symmetry: the
  run checks liveness.
- `evaluation`: two calls and one permit, so that one waits for the other; the
  first asks about two people in batches of one: `BatchSize` is 2, and the output
  budget (`MaxOutput` 2, one token of overhead, one for a candidate) reduces it; the second also brings a viewer
  and a candidate too long to send. The answers name a candidate once, twice (the
  second time badly), not at all, or name the viewer instead; a request fails
  with and without a reply, and reports all, some or none of the token counts. The
  entries found beforehand were stored under other texts and another revision.
  `MaxAttempts` 2 allows one retry. No symmetry: the run checks liveness.
- `recommendations`: one viewer and one candidate, two processes, two jobs, on
  one process or on two; one edit, switch, move or lost entry (`MaxChanges`), so
  two revisions; one crash, shutdown or unanswered command (`MaxTroubles`).
  `AskTicks` 1, `ClaimTicks` 0, `Slack` 1: the smallest times in the right order.
  `ClaimTicks < Slack` is an assumption the code justifies: the Redis client gives
  up after two seconds (`main.py:23-24`) and the lease has five beyond the total
  timeout (`recommendations.py:341`). So the run meets leases against timeouts but
  no slow claim; `OnePaidAlways` is proved for every `ClaimTicks` below `Slack`. The jobs are bounded only in how many run at
  once; the theorems cover any number of everything.
- `session`: two request ids, three calls on their way (a superseded one, a
  current one and one more), two mutations, one reload. A third mutation or a
  second reload starts from a state that one of these has reached.

### Fairness

Two specifications have fairness.

`FairSpec` of ChatScreen, for `CatchesUp`. Weak fairness of
`Refresh`: the visible screen polls every 15 seconds. Weak fairness of
answering, paging and arriving: the client has a 15 second timeout, so a
request ends. Strong fairness for the list's answer and arrival, because each
poll or navigation replaces the list request; it says that one of infinitely
many list requests gets through, which a poll of 15 seconds and answers within
that time give. Loss stays possible; `CatchesUp` has as a premise that losses
stop and that the chat stays open, and promises nothing otherwise. No property
relies on a user acting or a peer writing.

`FairSpec` of Evaluation, for `CallsEnd`: weak fairness of `ReadsDone`,
`ReadsExpire`, `Deadline`, `Collect`, and of the cancelled tasks of a call taken
together. That is what asyncio does: it runs a coroutine that is ready, and
fires a timeout. Nothing is asked of the cache, the provider, the semaphore or
the other calls, so `CallsEnd` says that the one deadline is enough.

### Findings

1. **Observations survive OFF** (`store.py:166-173`, `:250`). A report that
   passed the router's check before OFF writes after OFF's delete; a crash
   between the flag and the deletion leaves them too. The run's property counts
   both, so its trace may show either. `OffForgets` is what does hold.
2. **A dead identifier is handed out** (`store.py:172-173`). OFF deletes the
   mapping first, the current record second; ON and an issue in between reuse
   the record. `CurrentResolves` says when this cannot happen.
3. **A late failure report hits the new owner** (`store.py:309-321`). The owner
   read is the one at the time of the report, not the one of the failed send.
4. **A reopened chat may skip history** (`discovery-controller.js:216-219`). An
   answer to the load of an earlier visit passes for one of this visit; the
   watermark is then past messages that the navigation cleared. The comment at
   `:190-192` reasons about a message that races with the own send, which
   `NoGapBelowWatermark` confirms; what it says of the watermark in general does
   not hold across a reopening.
5. **A notice about what is no longer so** (`recommendations.py:306-324`,
   against `ai/service.py:151-153`). The checks before a notice are separate
   reads; an edit, a switch-off or a move between them is not seen.

## 4. Proofs

Everything below holds for all values of the constants that satisfy
`ProximityAssumption`, `MessagingAssumption`, `DiscoveryAssumption`,
`PushAssumption`, `ChatScreenAssumption`, `JudgementAssumption`,
`EvaluationAssumption`, `RecommendationsAssumption` and `SessionAssumption`
(times, lags and bounds are naturals, the page limit, the last tick, the permits
and the sizes of a batch positive, claims shorter than the slack of a lease; a
usage report has some token count; what the model may answer has the fields of `RawEvaluation`, with any content; `None`
and `Nothing` are no values of the program). TLC evaluates these on each run.

**MessagingProofs.** `IInv` strengthens the checked invariants by what the
handlers in flight carry: `HandlersRight` (an arrived request is past the check
against writing to oneself and has its moment; a stored handler's message is the
one recorded under its key, with the sender, recipient and text it asked for),
`ConversationsRight` (a conversation has members exactly when it has messages;
its members, and nobody else, list it, with the moment of its last message, and
have profiles) and `WaitingOnce` (a message that waits to be announced can be
read back, waits in one handler only and was not announced before). Without
them NotifiedOnce, AnswersAgree and ListsFollowMessages are not inductive:
`Notify` acts on what an earlier script run left in the handler.
`SeqMatchesIndex` (a row's seq is its place, and the counter the number of rows)
is what `INCR` and the list have to agree on for pages to be slices.
One lemma per conjunct shows that `Save`, shared by `Create` and `AppendTo`,
keeps it; the other actions only move handlers. From `IInv` follow
`TypeCorrect`, `SeqMatchesIndexAlways`, `OneConversationAlways`,
`StoredOnceAlways`, `AnswersAgreeAlways`, `NotifiedOnceAlways`,
`ListsFollowAlways`, the action property `HistoryAlwaysKept` (no step changes or removes a stored
message, a conversation's members or what a key stands for, which ChatPromise says of
the dialogues alone), and the
refinement `PromiseIsKept`: a save is a `Post`, everything else stutters.
`ShownAlwaysMayBeWrittenTo` needs no induction: it compares what two parts of the
code read of the observation scores. `PagesAlwaysFollow` needs only that a row's
seq is its place (SeqMatchesIndex): `PageRows` says which stretch of the list the
slice of `LRANGE` is, and the three cases of `has_more`, more rows than counted
included, follow by arithmetic.

**DiscoveryProofs.** `IInv` adds `ReportsRight` (what a report handler carries
between its commands is worth writing: resolved from an identifier alive at its
moment, others than the reporter, with profiles) and `OwnersRight` (a current
record, and the identifier a switching off has read, belong to that user, so
nobody unmaps somebody else's). From it follow `TypeCorrect`,
`SightingsAlwaysRest`, `CurrentAlwaysResolves`, `OffAlwaysForgets` and
`ImplementsProximity`: the write that ends a report is an `Observe` although
the checks it rests on were made two commands earlier.

**PushTokensProofs.** OneUserPerDevice speaks of what deliveries have read and
says nothing of the keys, so `IInv` adds
`PlacesRestOnOwner` (a place on a list that a read would still keep is the
owner's, and the owner key lives at least as long as the place) and `DropsRight`
(a drop that no registration overtook still knows the owner, and the token
counts nowhere when its keys are deleted), `OwnersRight` (an owner key names the
last registrant) and `ReadsRight`: whatever a delivery has read, or would read
with the clock it took, is its user's unless somebody took it `away`. That is
what a time between clock and read needs, since a place which no longer counts
now may still count for the older moment. It also shows the one window that
`put_push_token.lua:3-8` leaves open, and that OneUserPerDevice therefore exempts:
a delivery takes its clock, the token's owner key expires while a second device
keeps the list alive, somebody else registers the token (the script finds no
previous owner to take it from), and the late read still returns it.
`ListsLastLongEnough` gives LiveDeviceIsReached: a list outlives the last
registration of each of its devices, also through the conversion of an older
server's set and a clock sample from before the list's last change. The exemption
of dropped tokens is wide: a verdict about the time before a registration takes
the new registration off as well (finding 3). The run has one delivery, the
theorems any number.

**ChatScreenProofs.** `HistoryRight` is what a load carries: its page holds the
next rows without a gap (`PageRows`, from the cardinality of an interval), and
a load for the open chat has, together with the screen, everything up to its
page, unless it was overtaken. `SyncKeeps` and `RoundKeeps` show this for the
two places that start a load, and from it `NoGapAlways` follows, with
`OnlyThisPeerAlways` from the checks after each await. `NoCallLostAlways` has a
second invariant, `DueRight`: a load that will not go round again was started for
the open chat after the last call, so its pages are counted at least as far as
what the call was for; the other loads go round. It is the safety half of
CatchesUp, and says more than that in one respect: no further poll is needed.

**EvaluationProofs.** An outcome is `Sound` when each excerpt is marked verified
exactly if it can be verified, and an evaluated one has a verified excerpt.
`PlaceholderSound`, `AccountedSound` and `RevalidatedSound` show it of the three
places outcomes come from: a failure, an entry of the model's answer, an entry of
the cache. `IInv` has `CallRight` for each call (`OutcomesRight`: the outcomes so
far are sound and at the request's revisions; `BatchesRight`: a candidate without
an outcome is in exactly one batch, so `Collect` finds one for it; `ByOneEntry`:
the raw entries a batch keeps justify what it says) and `PermitsRight` (the free
permits and the batches inside make `MaxConcurrent`; `InsideMoved` keeps it where
a batch enters or leaves). One lemma per action, and `OneTaskKeeps` for the
actions of a single batch.

**EvaluationPromiseProofs.** Four results about whole calls, the first two by
counting. *What a call costs:* `BillRight` adds to UsageIsHonest that each token
count covers at most the requests that were answered and at least those that
reported every count, that all counts covering every answer means each answer was
whole, and that a batch still posting has one request out: without it a step that
answers could make the count complete, and without the others the equivalence
would have one direction only. *How its batches are cut:* in `LookedUp` a pending candidate goes to the
batch its rank falls into; `ChunksFit` shows that the candidates of one batch have
ranks in one interval of `EffectiveBatchSize` numbers, and `NumberedApart` that so
many are as many as that, whence `BatchesAlwaysFit`; `EffectiveSize` relates that
size to the budget, by the properties of integer division. *What it
leaves behind:* `StoredAlwaysTakenOver` rests on `SoundStays`: `Sound`, the invariant
of EvaluationProofs, is exactly what `Revalidated` leaves alone, and requests with one
key show the same texts at the same revisions (`KeySays`). *What it promises:*
`PromiseKept` is the refinement. A call is `asked` while it reads, evaluates or
cancels, and its outcomes are seen when it has answered. `Refuse` is a `Decline`,
`Start` an `Ask`, the end of the reads with nothing left and a `Collect` with
outcomes an `Answer`, `CancelReads` and a `Collect` after a cancelled caller a
`Raise`, `Store` a `Keep` or, when the write fails, nothing; every other step is a
stutter. `AnswerSeen` needs `MarkedWithinCap`: however many outcomes are worth a
notice, at most `MaxPerRequest` are marked, because `Before` is a total order in
which the marked ones have ranks below that number (`RanksTellApart`).

**RecommendationsProofs.** `IInv` adds `WorldRight` (revisions stay within their
bound, so what a poll asks for is a key), `JobsRight` (what a task carries at each
point of its program), `LeaseLasts` and `TokensKnown`. `LeaseLasts` is the heart:
while a task claims or asks, a lease it was granted is its own and has at least
the lease's length minus the elapsed time left; as claims take less than the
slack, that is positive until `recommend()` has ended. With
`InflightBelongsToJobs` for two tasks of one process this gives
`OnePaidAlways`. `TokensKnown` says that a token in Redis is known to the task
that drew it, from which `LeaseOnlyByOwnerAlways` follows for tasks that have
overrun their lease too. `NoticedOnceAlways` has an induction of its own.

**SessionProofs.** `ServerRight`: links and owners are inverse to each other, so
no request makes two users. `CallsRight` and `ScopesRight` say what a call on its
way and the call a scope waits for may be: a `/me` answer that the screen still
waits for covers everything acknowledged, because an acknowledgement cancels the
`me` scope, a boot excludes mutations, and a read handled later sees the change.
`CredentialsRight` relates what is in memory and in storage, `AckRight` what was
acknowledged and what is stored.

**Only model-checked:** the liveness properties `CatchesUp` and `CallsEnd`, as
liveness under fairness is out of the prover's reach. `NoCallLost`, the safety half
of the first, is proved.

## 5. Not modelled, and why

- **Android radio, service and plugin.** Threads over plain fields, driven by
  Bluetooth callbacks and the service lifecycle; when Android calls back is not
  stated in the repository, so a model would be about Android. The server side is
  covered: Discovery lets any identifier be reported at any time, and the hazards
  of the radio are listed in `PROJECT.json` with this note.
- **Web controller:** the nearby list and its selection, the timer that refreshes
  recommendations, native status, and the reset after `UNAUTHORIZED`. `busy` may
  stay set for good when `start` aborts a first save; Session contains the step
  and no property says otherwise.
- **FCM:** the OAuth token and its lock; a send without a token is unreachable,
  which any send may be.
- **AI service:** prompt text, JSON schema, the inference digest, the list of
  anomalies, and the order in which results are shown (`_ranked`, ranks): none
  of them decides what is evaluated, stored or sent.
- **Installations:** the platform conflict, which the app cannot cause, and the
  sealing and hashing of credentials, which are cryptography.
- **Messages:** answers of `list_conversations` whose three round trips see
  different moments; no text promises that they agree.
- **Views, mock server, evals, demo, prototype, pitch and documents:** presentation
  and offline work.

The BLE medium, FCM and the model provider are outside the repository and appear
as nondeterminism: any subset of identifiers may be heard, any token may be
called dead, any request may fail. Loss of Redis data is not considered, nor the
order in which Redis evicts keys. Real time is a tick counter; nothing depends on
its rate but the one assumption about leases above.
