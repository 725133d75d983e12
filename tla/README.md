# Verification of QwenSofia

QwenSofia is a gateway that speaks the OpenAI and Anthropic protocols and
answers from chat.qwen.ai, with a pool of accounts, over HTTP or through a
browser page per account. This directory holds TLA+ models of its coordination
logic, TLC configurations that check them on small instances, and TLAPS proofs.
Paths below are relative to the repository's `src/`.

The program is one Node process. Code between two `await`s runs alone; what can
interleave are the continuations after awaits, timers, abort events and stream
callbacks. Every model takes one such uninterrupted piece of code as one action.

## 1. Inventory

| Component | State | Operations | Interacts with | Hard parts |
|---|---|---|---|---|
| Mutex (`core/mutex.ts`) | `locked`, `queue` | acquire with timeout and signal, release, hand-over | per-chat, personalization, page and account mutexes | a timer or abort around the hand-over |
| Per-chat lock (`routes/chat/account.ts:47`) | `chatLocks` map of mutex objects | `acquireChatLock`, the closure it returns | chat request | the map forgets an object that closures still use |
| Account slots (`core/account-concurrency.ts`) | `usage` map: `active`, `starts`, `waiting` | acquire, release closure, queue timeout, abort, sweep of stale slots | `tryCreateStreamWithRetry`, session keeper | slots known by their start time only; late release after a sweep; pruning |
| Account pool (`core/accounts.ts`, `core/account-manager.ts`) | accounts table, its cache, cooldowns in memory, rotation index | load, add, remove, mark, clear, consult, choose next | `acquireUpstreamStream`, admin API, `login.ts` (another process) | three copies of a cooldown, failing writes, restart |
| Chat request (`routes/chat/index.ts`, `routes/chat/account.ts`) | locals of the handler, logical threads | lock, acquire, create, stream, retry, clean up | all of the above | releases on every path, snapshots used after awaits, retries, disconnections |
| Qwen client (`services/qwen.ts`) | logical thread table (memory and SQLite), warm chat pool, header cache | create a stream (page, HTTP, page), read and write the thread | Playwright, page streams | pooled chats leased, stale or deleted |
| Page streams (`services/stream-bridge.ts`) | page mutex, the page itself | reset, type, send, poll the answer | `createQwenStream`, abort handler | an abort releases the page while the script goes on; swallowed failures |
| Streaming to the client (`routes/chat/streaming.ts`, `core/stream-registry.ts`, `routes/chat/stop.ts`, `utils/reasoning-tags.ts`) | the handler's buffers, registry of active streams | pre-read, relay or collect, retry, abort handler, stop endpoint | Qwen client, parser, registry | events that end anywhere, errors after the response began, cleanup on every exit |
| Thread context (`services/thread-context-*.ts`) | sessions, turns and summaries in SQLite, a job queue in memory | save, summarize, roll over to a new chat, delete the old one | chat request | summaries built from what was read before a call, jobs beside requests, crash between two statements |
| Playwright lifecycle (`services/playwright.ts`, `session-keeper.ts`) | a context and page per account, a mutex per account, captured headers, a chain of resets | init, refresh headers, keep-alive, idle closing, profile reset, shutdown | page streams | a browser registered before it is validated, an initialisation that outlives its reset |
| Memory cache (`cache/memory-cache.ts`) | entries, LRU, per-key mutation chain | get, set, setWithNX, increment, clean-up | constructed by the server, no other caller | — |
| Responses and Anthropic routes | stored responses, in memory and in SQLite, the blocks of a stream | translate, store, continue, look up, delete | chat endpoint, over HTTP | two copies of the store, answers whose kinds of chunks alternate |
| Account creation (`services/auto-account-creator.ts`, `account-registration.ts`, `temp-mail.ts`) | the single run and its waiters, cool-down, registration jobs, profiles | create when the pool is exhausted, register, hand the account to the pool | chat request, pool, Playwright | a job that outlives its run, one shared Chrome, failing steps after the account was saved |
| Tool-call parsing (`tools/*`) | parser buffer, code state | feed, flush | streaming | tags, JSON and code cut by events |
| Server, admin, uploads, configuration, database, metrics, watchdog, dashboard | settings, tables, gauges | I/O | everything | start-up and shutdown order |

What makes the modelled components correct:

- a chat has one holder, in order of arrival, and no waiter is forgotten;
- an account never serves more requests than its limit, no slot is lost however
  a request ends, and waiters are served in order;
- a cooldown that was stored keeps being honoured, and no account starves;
- a request gives back every lock and slot on every path, keeps what it needs
  while it needs it, continues a chat only on the account it lives in, and ends;
- the page belongs to one stream at a time and an answer reaches the client who
  asked;
- every turn of a conversation is in its last summary or still raw, and moving to
  a fresh chat takes all of them along;
- an answer is read as it was meant wherever its events cut it, a response is of
  one attempt, and nothing stays registered or locked when its handler ends;
- a browser is not closed under work in it, and what stays open is signed in;
- whoever asks for an account is answered, with one that works, and an account is
  signed in as itself;
- a stored response survives evictions and restarts, and a streamed one is what the
  same answer is unstreamed.

## 2. Modules

| Module | Models | State and actions |
|---|---|---|
| `Mutex` | `core/mutex.ts` | operators on the record `[locked, queue]`: `Lock`, `Enqueue`, `Withdraw`, `Release`, `Woken`, `IsIdle` |
| `ChatLine` | the promise of `acquireChatLock` | abstract: `line[c]` is the holder followed by the waiters; `Join`, `Leave`, `GiveUp` |
| `ChatLocks` | the lock table over `Mutex` | `chatLocks` (map), `heap` (mutex objects by identity), `captured` and `chat` (the closures); `AcquireFree`, `AcquireQueued`, `AcquireAborted`, `WaiterGivesUp`, `ReleaseChat` |
| `QueueLemmas` | — | lemmas about queues, other sequences and recursive functions, for all the proofs |
| `ChatLocksProofs`, `WarmChatPoolProofs`, `AccountCreationProofs` | — | theorems about the module of that name |
| `ChatRequestProofs` | — | theorems about `ChatRequest` and `ClientStream` |
| `AccountProofs` | — | theorems about `AccountSlots` and `AccountPool` |
| `PageProofs` | — | theorems about `PageLifecycle` and `PageStream` |
| `ThreadContextProofs` | — | theorems about `ThreadContext` and `Responses` |
| `AccountSlots` | `core/account-concurrency.ts` and its caller | `usage`, `heap`, `slot` (closures), `now`; one action per outcome of acquire, `WaiterGivesUp`, `Complete`, `ClientAborts`, `LingererEnds`, `Sweep`, `Tick` |
| `AccountPool` | `core/accounts.ts`, `core/account-manager.ts`, restart, `login.ts` | `rows` and `left` (the table), `cache`, `cooldowns`, `currentIndex`; `failed` remembers which accounts' last write failed |
| `ChatRequest` | `chatCompletions`, `acquireUpstreamStream`, `createStreamWithRetry`, the thread table | `thread`, `lockLine`, `slotLine`, `cooling` and the locals `req[r]`; one action per stretch between awaits |
| `PageStream` | `browserUiStreamFetch` and `createQwenStream`'s use of it | `line` (page mutex), `page` (the tab), the locals `local[r]` |
| `ThreadContext` | `services/thread-context-*.ts` and their use in `index.ts` | `db` (the tables, for one conversation), `queue` and `running` (jobs), `run` (what a summary in the making was built from), the locals `req[r]`, `deleted` |
| `WarmChatPool` | the warm chats of one account in `services/qwen.ts`, and what `createQwenStream` does with a new chat | `qwen` (the chats at Qwen), `pool`, `inFlight`, `timer`, the locals `refill[m]` and `req[r]`; `gaveUp` remembers failed refills; one action per stretch between awaits |
| `PageLifecycle` | `services/playwright.ts`, `session-keeper.ts`, over `Mutex` | `mutex`, `contexts`, `pages` (the maps), `browsers` (what is really open), `headers`, `profile`, `resets` (the chain), the locals `tasks[t]`; one action per stretch between awaits |
| `AccountCreation` | `auto-account-creator.ts`, `account-registration.ts`, and the pool's use of a new account | `run`, `waiters`, `cooling`, `callers`; `jobs[j]`, `site` (the accounts at Qwen), `signedIn` (whose session a profile has), `table`, `usable`, `pool`, `headers` |
| `ReasoningTags` | `getIncrementalDelta`, `normalizeCumulativeReasoningContent`, `StreamingReasoningTagSanitizer` | operators on sequences of atoms |
| `ToolCallParser` | `StreamingToolParser` (`tools/parser.ts`) | operators `Feed` and `Flush` on the record of the parser's fields |
| `ClientStream` | `routes/chat/streaming.ts` with its retries, the registry and the stop endpoint, over the two above | `up` (the upstream of the attempt), `local` (the handler), `registry`, `held`, `stops`, `gone`, `client` (what the client was sent), `saved` |
| `Responses` | `routes/responses` | `handlers[r]`, `memory` and `table` (the store), `order`, `old`; `written` and `removed` remember what happened to rows |

`ChatLocks` composes `Mutex` with the table; `ChatRequest` uses the lock and the
slots as lines, which is what `ChatLocks` is shown to implement and what
`AccountSlots` gives with the limit of one that `config.ts` enforces (order,
capacity, no loss); its lock lines are again checked against `ChatLine`, so that
no path asks for a lock twice or leaves one behind.

Object identities matter in `ChatLocks` and `AccountSlots`: a map entry can be
dropped and created again while closures hold the old object, so objects live in
a heap and an unreferenced identity can be allocated anew.

Two modules whose proofs are in one module share no names: `AccountPool` and `Responses`
have `PoolSpec` and `ResponsesSpec`, `PageStream` and `ClientStream` (whose proofs are in
different modules) each a `StreamSpec`, and so on.

`AccountPool` keeps times relative to the present, which makes them bounded
without bounding the run: a cooldown is what is left of it, a cache has an age.

`ChatRequest` abstracts the pool to a set of cooling accounts that errors extend
and time shrinks. The parent ids of messages and personalization are left out; a
thread rollover appears as a choice to force a new chat, a page conversation as an
outcome of creating a stream. What happens within a stream is `ClientStream`, one
request at a time; the records of turns are `ThreadContext`.

`ThreadContext` takes from `ChatRequest` that requests of one conversation may
overlap, and reduces streaming to its outcomes. Marking, cleaning up and counting
all work on initial segments of the turns, so `marked` and `removed` are numbers.
A summary is the set of turns it accounts for, and the number of the summary it
extends; handlers of several SQLite statements are functions of how many of them
were executed, which is what a crash leaves. Three levels stand for the estimate
of tokens. Left out: the configured delay before an old chat is deleted (0 by
default); the session's status, which decides only whether a second model is
tried; and recovering turns from the chat's history and the priority of a job,
which both need a session with an active chat and without turns. `ActiveChatHasTurns`
shows that there is none.

`WarmChatPool` reduces a chat at Qwen to whether it has a message, and a stream to
how it ends. A list of chats and a creation are three steps each: the call, what
Qwen does, the answer, so that an answer may be old or lost. Only new chats are
modelled; requests that continue a chat do not touch the pool. Left out: the
order and paging of the list, and headers that are missing only at one of the
calls (`RefillFails` and `CreationFails` stand for the exceptions they cause).

In `PageStream` what the site does (answers appear, the URL changes, generation
ends) is external and happens at any time; commands to the page may fail, and
those failures that the code swallows are swallowed.

In `ClientStream` a text is a sequence of atoms, chosen so that everything the
parsers look for can be cut by an event: a tag is two atoms, a call's JSON is two, a
backtick run is single backticks. The upstream is a page, whose events are snapshots
of the answer, or a fetch, whose events are increments; every way of cutting the
answer into events of up to `MaxPiece` atoms is a behaviour. `MCAnswers` are answers
of up to three items: words, thoughts, calls of declared and undeclared tools in each
form that the parser recovers, and what only looks like one. Left out: deltas that
name tools on their own, usage numbers, the repair of malformed JSON inside a
block, and the incremental deltas of tool arguments, which no caller switches on.

`PageLifecycle` takes the mutex of an account from `Mutex`. `contexts` is what the
program believes to be open, `browsers` what is; a crash changes only the second.
The two may differ, and `getPageForAccount` works on the first without the mutex.

In `AccountCreation` registrations and accounts share a number. What a step of the
registration finds on the site is a choice, and any step may fail. The Chrome of
the operator is one more profile, which all registrations share; `alone` remembers
whether a registration had it for itself.

`Responses` treats the chat endpoint as external: it answers with one of `Answers`,
fails, or stops early. The content of an item is the numbers of its chunks. Nothing
starts the periodic cleanup (`startPeriodicCleanup` has no caller), so that rows
leave the table only by a lookup or a deletion.

Operators named as mutants are variants of a definition with a plausible bug;
each property is violated under one of them, so none holds vacuously.

## 3. Runs

| Run | Question | Instance | Result |
|---|---|---|---|
| `chat_locks` | Is there one holder per chat, in order, with nobody forgotten? | 3 requests, 2 chats, 3 objects | holds, 391 states |
| `account_slots` | Are slots bounded, counted right and served in order through sweeps and disconnections? | 4 requests, 1 account, limit 2, clock to 2 | holds, 4,696 states |
| `account_pool` | Do choices honour stored cooldowns and rotate? | 3 accounts, 1 of them coming and going, cooldown 2, cache TTL 1 | holds, 64,705 states |
| `chat_request` | Does a request keep and give back locks and slots on every path, and end? | 2 requests, 1 conversation, 2 accounts, 4 chats, 1 retry | holds, 139,937 states |
| `chat_lock_exclusive` | Does the chat lock keep others out while a chat is streamed? | as above | violated |
| `page_stream` | Is the page handed on, and do answers stay with their clients? | 2 streams, 2 attempts each | holds, 28,677 states |
| `thread_context` | Is every turn in the summary or raw, and does a rollover take all of them along, through overlaps, failures and crashes? | 2 requests, 2 conversations with jobs, 6 turns, 2 kept, 2 summaries | holds, 1,060,257 states (symmetry of requests) |
| `warm_pool` | Is a warm chat leased once, does the pool keep its size, and is it refilled? | 2 requests, 1 model, 4 chats, pool of 2, low-water mark 1 | holds, 1,579,825 states (symmetry of requests and chats) |
| `page_life` | Is work in a browser not cut short, is what stays open signed in, do resets end? | 1 account, 2 callers, 2 browsers, 2 resets, 1 crash | holds, 763,126 states |
| `account_creation` | Is every caller answered, with an account that works, and does a failed registration leave none? | 2 callers, 2 registrations, 1 fault | holds, 1,029,562 states |
| `client_stream` | Is an answer read as meant however it is cut, and do retries, stops and departures leave nothing? | 1 request of each kind, 20 answers, events of up to 4 atoms, 1 retry | holds, 1,584,778 states |
| `responses` | Is a streamed response what it is unstreamed, does the store keep it, is every stream concluded? | 2 responses, room for 1 in memory, 3 answers of up to 4 chunks | holds, 485,265 states |

Why these bounds are enough:

- three requests make a queue of two behind a holder: the shortest queue in which
  order matters and from whose middle or end a waiter can withdraw; with a limit
  of two slots the same needs four;
- objects are one more than what requests and map can reference when one of them
  acquires, so allocation never fails;
- `MaxAge = 0` and two ticks let a slot be swept, granted again by the sweep and
  swept again;
- a cooldown of two units and a cache of one let a cooldown outlive a cache, end
  under one, and differ from the one it replaces; three accounts give the
  rotation an account to pass over besides the chosen one;
- two accounts are the least on which rotation exists and can be exhausted; two
  requests of one conversation meet on the lock, on the slots and in the thread.
  One retry covers the code, which counts down and never looks at the number
  otherwise;
- in `ThreadContext` six turns are three answers: one that a summary reads, one
  that is saved while it is made, and one that moves the window of two kept turns
  beyond the second; two summaries are the least for a summary to extend another,
  or not to;
- in `WarmChatPool` the code's low-water mark of 3 (`qwen.ts:1338`) starts every
  refill at once for a pool of up to 3 chats, and its default pool size of 1
  leaves nothing to take twice; a pool of 2 with a mark of 1 meets the immediate
  and the delayed refill on few states. Four chats are two that requests have, one in the pool and one
  that a refill is making. With one model the chats that another model's pool
  loses to a refill are not seen;
- chats are reused when nothing refers to them, so the number of chats bounds only
  how many are referred to at a time.

- in `PageLifecycle` four tasks (two callers, the chain of resets and the
  initialisation that one left behind) are more than the mutex's holder and a queue of
  two; accounts share nothing but the chain and the shutdown, so one account with two
  resets in the chain stands for the rest, except for `closeAllPlaywright` over
  several accounts;
- two registrations are the least that can share a Chrome, and one fault lets a
  context close or the process crash at any one point;
- in `ClientStream` four atoms hold a whole tag with what precedes it and less than a
  call, so that events both cut everything and contain everything; the count of
  retries is only counted down;
- in `Responses` room for one response makes every second one evict, and the
  answers open each block first, after another and last; a third response adds a
  longer history but no other order of store, eviction and lookup.

Deadlock checking is off where the system may rest: all requests over
(`chat_request`, `page_stream`, `client_stream`, `responses`), no registration left
to start (`account_creation`), or the clock at its bound (`account_slots`).

### Fairness

- `ChatLocks`: holders release. `index.ts` releases when the stream completes,
  on an error result and in its outer catch; that these exist on all paths is what
  `DoneHoldsNothing` checks in `ChatRequest`. Nothing is assumed of timeouts.
- `AccountSlots`: requests with a slot complete (streams have time limits);
  neither ticks, sweeps nor queue timeouts are assumed.
- `ChatRequest`: `Progress(r)`, everything a request does given an answer from
  upstream or a timer. Every wait in the code has a timeout: the chat lock's, the
  slot queue's, the upstream calls' and the stream's idle limits. Aborts and
  the expiry of cooldowns are not fair.
- `PageStream`: commands to the page settle and the interval timer ticks until the
  time limit. Playwright commands other than `page.evaluate` have timeouts; for
  `page.evaluate` it is an assumption: the time limit of a page stream is checked in a
  timer callback that returns at once while an earlier command has not settled
  (`stream-bridge.ts:746`). The timers of waiters are not assumed to fire.
- `PageLifecycle`: tasks and the chain of resets go on, since launches, navigations,
  captures and closing have time limits; nobody must begin, give up or crash.
- `AccountCreation`: the run goes on, since it polls its job and gives it up at its
  time limit. Registrations themselves are not fair.
- `ClientStream`: the handler goes on, since reads end by data, by the end or by the
  idle limit. It is written as `[]<>ended \/ []<><<Handler>>_streamVars`, which is weak
  fairness here because a step of the handler is enabled until it has ended.
- `Responses`: the internal request ends, by its last chunk or an error.

## 4. What the runs found

- **`chat_lock_exclusive`** — a request that creates its conversation's chat has no
  chat to lock when it starts, and streams into the new chat unlocked; the next
  request of the conversation passes the lock and reads the thread meanwhile.

Seen in the models, without a run of their own. In the coordination of requests:

- `account.ts:1045-1051` means to clear a vanished chat from the thread by storing an
  empty chat id, which `updateLogicalThreadState` ignores (`qwen.ts:279-287`).
- "Sempre garante que a aba comece em uma conversa limpa" (`stream-bridge.ts:556`):
  an abort releases the page mutex at once (549) while the script types and clicks
  on, so that the next stream's prompt can be replaced and its conversation answers
  the aborted request. The same state is reached when a prompt was sent but not yet
  answered as its stream ends, and when the reset's navigation fails, which is
  ignored.
- "Recent unsummarized turns preserved verbatim" (`thread-context-rollover.ts:79`):
  between the ready and the required ratio a rollover uses the last summary as it is
  (142) with the last `recentTurnsToKeep` turns. Turns newer than that summary and
  older than those are in neither.
- "Reuse existing unused chats" (`qwen.ts:1448`): with an empty pool a request
  creates its own chat, which is not marked as in flight, and schedules a refill
  (1422). Until its first message arrives the chat looks unused, and the refill puts
  it into the pool (1457), where the next request takes it. Unused chats in the pools
  of other models are taken likewise.
- `ACCOUNT_MAX_CONCURRENT_REQUESTS` is documented with default 2 (`README.md:273`),
  while `config.ts:269` bounds it by 1; `AccountSlots` is checked with 2,
  `ChatRequest` with 1.
- An error between the lease of a chat and the `try` that gives it back
  (`qwen.ts:1960`) leaves the chat marked as in flight; `FailsOutsideTry` models it.
- An overlapping request may roll over from the chat that another one is streaming
  in, and delete it (`thread-context-rollover.ts:299`).
- A cooldown of 24 hours set for a captcha is replaced by one of 10 minutes by the
  caller that catches the error (`account.ts:532`).

In the stream to the client:

- A page stream that is stopped, or meets its time limit, closes like one that is
  complete: the client is told so and the turn is saved (`stream-bridge.ts:750`).
  When the page changes its chat, the rest of the answer is dropped as another
  response's (865). `AnswersAreReadAsMeant` speaks of answers that arrived whole.
- A live handler that fails or loses its client in the pre-read leaves its stream in
  the registry; `EndedLeavesNothing` says exactly when.
- "Re-throw known errors for retry logic in index.ts" (`streaming.ts:1497`): they are
  thrown inside the stream of a response that has begun, where nothing retries.
- A bare call is overlooked when the same event also has a tag, or an object that is
  no call before it; a declared tool's JSON is a call even inside code; a corrupt
  marker discards the rest of the answer; the text that leads in to an undeclared
  call is kept only when both are in one event (`IsPlain` excludes these).
- The abort handler's click on the page's stop button may come late and stop the
  next stream's answer.

In the browsers and the creation of accounts:

- Refreshing headers and keep-alive navigate an account's page under the account's
  mutex, page streams under the page's (`playwright.ts:936`): neither keeps the
  other out. Idle closing may close the browser of an account whose page streams.
- `getPageForAccount` drops a page that was closed, and an initialisation then opens
  a second browser on the profile (`playwright.ts:97`); `ensurePageForAccount` may
  register a page that has just died (128). The typing of a header capture outlives
  its limit (902-932).
- Two registrations at a time in the operator's Chrome can leave an account with the
  other's session; `AccountsUseTheirOwnSession` excludes it. "Timeout máximo por
  cadastro" (`README.md:305`) ends the wait of the creator, not the registration.
- "sem enviar mensagem de teste" (`README.md:19`): the capture of headers types
  a message and clicks send. `scheduleEnsureAccountForRateLimit` has no caller.

In the Responses API:

- `README.md:377` and `docs/rotas-compatibilidade-confirmada.md:329` say that
  `previous_response_id` is in memory only and does not survive a restart; it is in
  SQLite and does (`state.ts:6`), which `StoredIsFound` shows.
- `docs/rotas-compatibilidade-confirmada.md:413` has the reasoning preserved; in a
  stream a call that directly follows reasoning drops it, as only text is closed
  before a call (`streaming.ts:195`). Several calls in a row are announced with one
  `output_index` and completed with different ones, and text after a second opening
  repeats the first text. `Regular` excludes these answers.
- `deleteStoredResponse` says that a response is deleted when only the map forgot it;
  a row that could not be deleted brings it back (`state.ts:174`). Lookups add to the
  map without evicting, so it may exceed `MAX_STORE_SIZE` (110).
- A chat stream that was cut short completes and is stored like a whole one.

`SummarizedTurnsAreCovered` and `RequiredRolloversAreComplete` hold as long as
summaries are made one after the other (`Chained`). The code does not enforce it: a
job and a request can each be waiting for a summary, and if the one that read less
finishes last, it becomes the latest, while the turns marked for the other are gone
from the context. It takes more than `recentTurnsToKeep` turns in the meantime.

## 5. Proofs

A theorem holds for every value of the constants that the module's assumption
allows; no proof assumes more. Each invariant `IInv` below was first checked by TLC
on the module's run, and is proved by one lemma per action, or per kind of action.

`QueueLemmas` proves what appending, serving the head, withdrawing from the middle
and cutting off a part do to the members of a queue, to its order and to its head,
with and without repetitions. Its second part is about recursive functions on numbers,
which `Flatten`, the parsers and the conversion of answers are made of:
`RecursionExists` says that there is one (the installed library has this only as a
theorem about operators, which the provers cannot instantiate), and `RecursionStays`
that its values stay in a set that every step stays in. Both are by way of the least
number at which they would fail. `TailRecursionExists` is about loops over any set: a
function that follows its steps as long as there is one exists if each step makes
something smaller. The graph of it is the least relation that the steps are closed under.

`ChatLocksProofs` proves, for any sets of requests,
chats and objects:

- `InvariantHolds`: `Spec => []IInv`, where `IInv` is
  - `TypeOK`,
  - `ClosuresAgreeWithMap`: whoever is inside `acquireChatLock` captured the object
    the map has for its chat, and an object serves one chat,
  - `QueuesAreTheWaiters`: queues hold exactly the waiters, each once,
  - `LockedIffHeld`: an object is locked exactly while one request holds it, and
    only a locked one has waiters;
- `TypeCorrect` and `MutualExclusionHolds`, which follow from it;
- `ImplementsLine`: `Spec => ImplementsChatLine`, the refinement of `ChatLine`.

Mutual exclusion is not inductive: it needs that two holders of a chat captured
the same object, hence that the map does not drop an object in use, hence that
"idle" of a mutex means that nobody holds it or waits on it, which is the other
three conjuncts. The proof has one lemma per action, with a step per conjunct.
Its only assumption is `ChatLocksAssumption` (the null values are not members).

The refinement maps a chat to the holder of the object that the map has for it,
followed by that object's queue. `IInv` makes this a line without repetitions
(`LinesOfHolders`); each action is then a `Join`, a `Leave`, a `GiveUp` or a stutter
(one simulation lemma per action), and creating, dropping and allocating objects
again are stutters, because an object that leaves the map has no holder and no
waiter (`KeepsLine`).

`AccountProofs` proves about `AccountSlots`, for any sets of requests, accounts and objects, any
limit, any age and any bound of the clock:

- `SlotsInvariant`: `Spec => []IInv`, where `IInv` is the one the run checks:
  - `CountsAgree`: `active` is the number of starts and at most the limit, starts
    are in order of time, and nobody waits while a slot is free, so that no wake-up
    is lost,
  - `MapListsBusyObjects`: the map lists the objects in use, and one per account,
  - `QueuesAreTheWaiters`: queues hold exactly the waiters, each once;
- `CapacityIsRespected`: `CapacityRespected`;
- `NobodyIsOvertaken`: the action property `NoOvertaking`.

Capacity does not follow from `IInv`: the program knows a slot only by its account
and the millisecond of its start, and removes the first start that is equal. It needs
a second invariant, `Seated`: those who run with slots of an object and were not swept
can be given different entries of its `starts`, each with the time they remember, and
those without an entry remember a time that is no longer in `starts` and is past, so
that a slot granted now is never mistaken for theirs. That is a matching, not a
function of the state; the lemmas `SeatedGrant`, `SeatedGiveBack` and `SeatedSwept` say how the three ways of
changing `starts` move it. Hence the holders of an object are no more than its starts, and all
holders of an account hold slots of the one object that the map lists. The overtaking property
uses that a step of the slots serves a queue from its head (`RunsAlready` for the
steps that serve nobody).

About `AccountPool`, `AccountProofs` proves, for any finite set of accounts, any
cooldowns and any age of the cache:

- `PoolInvariant`: `PoolSpec => []PoolInv`, where `PoolInv` types the state and says
  - `Within`: if memory has an entry for an account and the account's last write did
    not fail, the entry lasts at least as long as the cooldown in the table,
  - `CopyOK`: and as long as the one in the cached copy, while that may be read, which
    in turn lasts at least as long as the table's;
- the three action properties of the run: `CoolingChosenLast`
  (`CoolingAccountsAreLast`), `RunningCooldownsKept` (`RunningCooldownsAreKept`) and
  `RotatesFairly` (`RotationIsRoundRobin`).

The two properties about cooldowns compare three copies of one value, which are written
at different times, and each of the three may be the one that is read. The invariant
orders them. It survives a synchronisation, which takes entries from a copy that may
be old (`SyncedIsOK`), a write that fails, which puts the account into `failed`
(`StoredIsOK`), and time, because a copy stops being readable before it stops being
true (`TimeKeeps`). The rotation is arithmetic on a circle: `Around`, `AroundReaches`
and `AroundOn` say where a step leads modulo the number of accounts, `TurnIsFirst` that
the chosen account is the first free one, and `ChoiceRotates` puts them together. The
assumption is `AccountPoolAssumption` (finitely many accounts, positive durations).

`ChatRequestProofs` proves, for any sets of requests, conversations, accounts and
chats and any number of retries:

- `RequestInvariant`: `Spec => []IInv`, where `IInv` types the state and says
  - `LinesOK`: nobody stands in a line twice,
  - `LockIsNamed`, `SlotIsNamed`: a request stands in no lock line and no slot line
    but the ones its local variables name, and at the head of its slot's line once
    it was granted,
  - `ChatsAreKnown`, `ThreadsOK`: requests and threads know a chat together with the
    account where it lives;
- `DoneRequestsHoldNothing`, `StreamsHoldSlots`, `ChatsStayOnTheirAccount`, which
  follow from it;
- `LocksFollowLine`: `Spec => LocksFollowTheLine`, the refinement of `ChatLine`.

What a path could get wrong is releasing twice or not at all, and each shows as a
difference between a line and the variable that holds its release closure; so the
invariant is that difference stated for every position in the handler. The
assumption is `ChatRequestAssumption`.

About `ClientStream`, `ChatRequestProofs` proves, for any set of answers, any declared and
undeclared tools, events of any size and any number of retries:

- `HandlerInvariant`: `StreamSpec => []StreamInv`, where `StreamInv` types the state and says
  - `PhaseOK`: the registry has no stream but that of the present attempt, and none while
    the next attempt is prepared; only a live handler begins its response before the
    answer is complete, and its client then has the text that was read; a handler that
    ended holds no chat, and only a live one that was refused is still registered,
  - `Reading`: what was read is text, and without tools the parser only gathers it;
- `NothingIsLeft` (`EndedLeavesNothing`) and the action property
  `ResponsesAreOfOneAttempt` (`OneAnswerPerResponse`), which follow from it.

That a response only grows is a fact about sequences, so it needs the types of all that
`ReasoningTags` does with what arrives (`DeltaType`, `NormalizedType`, `SanitizeType`),
whose loop is a recursive function, and of the answers (`TextOf`).

Three theorems say what an answer becomes, wherever its events are cut:

- `TextIsReadAsMeant`: `StreamSpec => [](~tools => AnswersAreReadAsMeant)`. Without tools,
  an answer that arrived whole (`clean`: no event was dropped) is sent with its words and
  its thoughts, each once and in order;
- `ThoughtsAreReadAsMeant`: with tools or without, the reasoning of such a response is
  the thoughts of the answer, in order;
- `CallsAreDeclared`: `StreamSpec => []OnlyDeclaredCalls`. What a client is sent or a
  thread saves calls only tools that the request declares, none if it declares none, no
  call twice, and has no text beside its calls. This holds of every answer, also of one
  that was cut short, lost events or was malformed.

The first two follow from `MeaningInvariant`. Its `MeantInv` speaks of the text `t` of the
answer and the `n` atoms of it that were read: there is an `m` up to which the words
outside thoughts (`Spoken`) have been given out as text and those inside (`Thought`) as
reasoning, and the sanitizer holds back the piece from `m` to `n`: inside a thought, what
has come since its opening tag, and outside at most the beginning of a tag (`Holds`,
`Settled`, `Through`). The words alone would not be inductive: what an event adds depends
on where in a tag the last one ended. `SanitizeSettles` takes the sanitizer's loop through a piece by
its turns, `FeedGoesThrough` adds an event, `AllGoesThrough` says that nothing is held
when all is read, and `AnswerSays` that what is spoken and thought in the text of an answer is what its
items mean, one item at a time.

The third follows from `ParserInvariant`: `CallsInv` says that the parser of the attempt
is one (`Parser`), its calls are declared and each once (`Honest`), and so are those of the
response and of the saved messages. Each operation of `ToolCallParser` keeps this
(`Becomes`, with a lemma per operation), and those that `Consume` and `FlushRaw` go on from
shorten the buffer besides (`Moves`), which makes the loops functions (`LoopExists`) and
the induction over them sound (`LoopBecomes`). It includes the recoveries, where a call is
taken without its tags, and the flush, where one is completed. The assumption is
`StreamAssumption`, with `CallAssumption` of the parser.


`PageProofs` proves about `PageLifecycle`, for any accounts and callers and any number
of browsers, resets and crashes:

- `LifecycleInvariant`: `Spec => []IInv`, where `IInv` is
  - `TasksOK`: of each account, one task at most is where the mutex is held, the mutex
    is locked exactly then, and its queue holds exactly the tasks that wait, each once,
  - `MapsTyped`, the types of the maps,
  - `ResetsOK`: headers are of the profile on disk or there are none, and a profile was
    deleted no more often than resets were scheduled, counting those still in the chain,
  - `WholeOK`: a registered browser that is open and not validated belongs to the
    initialisation that holds the mutex and will validate or close it;
- `WholeWhenIdle` (`IdleAccountsAreWhole`), `HeadersFollowResets`
  (`HeadersAreOfTheProfile`) and the action property `NothingCutsWorkShort`
  (`WorkIsNotCutShort`), which follow from it.

Everything that changes the maps works under the mutex, except reopening a page and
looking one up; so most of the proof is that the mutex has one holder wherever
operations begin, end, give up, run out of time and go on without their reset. A task
that ends hands the mutex to the head of the queue, which then is at its first step and
has touched nothing (`WokenIsFirst`, `ReleasedMutex`); the lemmas about the single
actions need only what the acting task changed of its own account. The assumption is
`BrowserAssumption`.

About `PageStream`, `PageProofs` proves, for any set of streams:

- `PageInvariant`: `StreamSpec => []StreamsInv`, where `StreamsInv` is `StreamTypeOK` and
  - `PlaceOK`: a stream that works on the page and is not aborted is at the head of
    the line; one that has not begun, is over or was aborted is not in it,
  - `CleanPageOf` and `PromptIsAwaited`, as long as no stream was aborted or ended
    before its answer (`Patient`): what is on the page, typed into it or on its way
    belongs to the stream that found it clean;
- `PageOwned` and `AnswersStayOwn`, which follow from it.

The page is shared by the stream that works, the site that answers, and streams that
were aborted while their script goes on. The first half says that the last two are
the only ones beside the head of the line; the second that without aborted streams the
site answers only the prompt that waits. Each is kept by every step (`PlacesKept`,
`CleanKept`), the second using the first.

`ThreadContextProofs` proves, for any number of requests and any values of the
limits (with the bounds of the instance as arbitrary numbers):

- `StoreInvariant`: `Spec => []IInv`, where `IInv` types the tables, the requests
  and the chats and says of the tables and of every summary in the making
  - `CoveredIn`: the last summary covers the marked turns,
  - `RunOK`: a summary in the making that extends the last one covers every turn up
    to the one it will mark, and nothing beyond that one is marked,
  both as long as the summaries form a chain;
- `SummarizedTurnsAreSafe`: `SummarizedTurnsAreCovered`, which follows from it;
- `ChatsInvariant`: `Spec => []ChatsInv`, a second invariant.  Of the session's chat it
  says that it was created, that there are turns then, and that the clean-up left one
  (`HistoryOK`); of the chats deleted at Qwen, that they were created, that an answer
  continued each and that a last summary is in the table (`DeletedOK`); of what a request
  has read before its awaits (its turns, its chat, the summary of its plan), that the
  tables only grew beyond it (`LocalOK`), and that the summary it waits for is about every
  turn it saw (`WaitOK`);
- `RolloversComplete`, `ActiveChatsHaveTurns` and `DeletedChatsContinued`
  (`RequiredRolloversAreComplete`, `ActiveChatHasTurns`, `DeletedChatsAreContinued`),
  which follow from it, the second one (it includes `TypeOK`) with a lemma about the job
  queue: each session is in it once, and no more jobs run than may (`JobsInvariant`).

The first property is about the tables alone and not inductive: a summary is inserted long
after it was begun, so what it was built from has to be related to the tables of
the moment it arrives. `RunOK` does that: it is established when the tables are
read (`SnapshotOK`, from `CoveredIn`), kept by saved answers and new chats
(`SameOK`), and made void by any other summary that arrives first, which is
where the chain ends (`InsertKeepsRun`). The handlers of several statements are
covered after each statement, so that a crash is just a shorter handler. The only
assumption is `ThreadContextAssumption` (the limits are positive numbers, the
bounds are numbers, the job is not a request).

`WarmChatPoolProofs` proves, for any sets of requests, models and chats and any
pool size and low-water mark:

- `PoolInvariant`: `Spec => []IInv`, where `IInv` is `TypeOK` and
  - `PoolOK` of every model: the pool within its size, without repetitions and
    without chats in flight; while a refill waits for the list, everything in the
    pool is in the snapshot it took; while it creates a chat, there is room for it,
    and the chat is neither in the pool nor in flight,
  - `LocalOK` of every request: a leased chat that was not given back is marked,
  - `Distinct`: no two requests lease the same chat of a model;
- `PoolTypeCorrect`, `LeasesExclusive` and `PoolsBounded`, which follow from it.

What needs the strengthening is the answer to the list: the refill filters it by a
snapshot of the pool that is older than the list, and by the marks of now. That
this is enough follows from the pool only shrinking meanwhile: what left it is
marked, or was given back and is then a chat like any other. Also, that only one
refill of a model runs at a time is what makes the room it saw still be there when
its chat arrives. `PoolStepInv`, `QuietStepInv` and `GivesBackInv` cover the three
kinds of steps; `LeasesInv`, which moves a chat from the pool into the marks, is the
only action with a proof of all conjuncts of its own. The assumption is
`WarmChatPoolAssumption` (there is a model, the chats referred to are finitely many,
the sizes are numbers).

`LowPoolsRefilled` (`LowPoolsAreRefilled`) is inductive: each step that takes from a
pool either schedules a refill or finds one running, and a refill that ends looks at
the pool again.

`AccountCreationProofs` proves, for any sets of callers, any number of registrations,
accounts per run and faults:

- `CreationInvariant`: `Spec => []IInv`, where `IInv` types the state and says
  - `CreatorTyped`, `RunOK`: while the creator is busy exactly one caller carries out
    its run and the others wait, each once; what the run knows of the registration it
    waited for (completed, in the table) stays so until it answers,
  - `SavedOK`: an account is in the table only if its registration knows that it wrote
    it, or the process crashed, and only then does it have a context,
  - `SessionOK`, `SharedIsKnown`: registrations that are in the Chrome together know
    it, and one that was alone sees no session but its own on the way to its profile;
- `FailuresLeaveNothing` and `SessionsAreOwn` (`FailedJobsLeaveNoAccount`,
  `AccountsUseTheirOwnSession`), which follow from it;
- `AnsweredWithUsable`: the action property `AnswersAreUsable`.

A failed registration deletes the account if it remembers having written it; what
makes that enough is that nobody else writes the account, which is `SavedOK`. The
assumption is `CreationAssumption`.

The last part of `ThreadContextProofs` is about `Responses`, whose store is the other
table that survives restarts. `StoredIsSafe` (`StoredIsFound`) holds for any number of
responses, any answers and any capacity of the map. The property is inductive: a step
leaves the rows alone, or it stores one, deletes one that is too old (`LookupKeeps`), or
takes one away and remembers it in `removed` (`DeletionKeeps`); eviction and restarts
touch the map only.

`StreamsConvert` (`StreamedAsConverted`) compares a machine that is driven by one chunk at
a time with a function of the whole answer, for answers of any length and number. Its
invariant, `HandlersOK`, says of every handler that reads a regular answer that the
state of its stream is `Built` from the first `read` chunks: the completed items are the
blocks of the kinds that are over, and what is collected of the open one is its chunks so
far. `BuiltReceives` shows that a chunk keeps this, with a case for each open block and each
kind that a regular answer allows after it; `BuiltCloses` and `BuiltOutput` that the last
block is completed alike with the finish reason and without it. The assumption is
`ResponsesAssumption`. TLC checked the invariant with the chunks of the prefix in place of
the functions that `IsChunks` speaks of, which it cannot enumerate.

Model-checked only: all liveness (outside the prover's reach), and of
`AnswersAreReadAsMeant` what it says of requests with tools, but for the thoughts. That
the text and the calls are those of the items would need an invariant that relates every
state of the tool parser to the items it has passed: a proof about each pair of an item
and a cut within it, and about what may follow it (`IsPlain`). The instance has them all
for its answers.

## 6. Not modelled

- `MemoryCache`: the server constructs and destroys it; nothing else in the source
  calls it, so there is no use of it to model.
- The Anthropic route, request validation and model lists: translation between
  protocols without state.
- How the registration finds and fills the site's forms, captchas and the manual
  pointer; signing in to the site.
- The repair of malformed JSON within a tool call and the checking of its arguments.
- Watchdog and metrics: gauges without effect on requests.
- Server, admin API, uploads, configuration, database schema, cryptography, logging,
  dashboard, benchmarks and scripts: input and output without coordination.

`PROJECT.json` lists each part.

## 7. Plan

1. `Conversation`: parent ids and prompts in the logical thread; a message that
   carries only the latest turn goes to the chat that holds the earlier ones.
2. The account mutex and the page mutex on one page: what keep-alive and a header
   refresh do to a page stream.
3. Pure algorithms: thresholds of the context estimator, retry delays, choice of a
   warm account, each against a reference definition.
