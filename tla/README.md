# Formal models of ai-adapter

ai-adapter is a gateway: it accepts requests in four LLM API dialects, chooses an
upstream channel and one of its API keys, forwards or converts the request, and
fails over to other keys and channels when an upstream answers badly. These
modules model what that choice depends on and what it may never do: the health of
keys and channels, the walk of a request over them, and what of a key's health
outlives a reload, a stop or a crash. They also model what is done to a request and
its answer on the way: the conversion between the four protocols, of whole messages
over a conversation and of streams.

Paths below are relative to the repository; `docs/18` is
`docs/18-全局Channel-Key交错调度设计与实现.md`, and so on.

## Inventory of the system

| Component | State | Operations | Hard behaviour |
|---|---|---|---|
| KeyState (`internal/channel/keystate.go`) | error count, pause, permanent skip, counters; own lock | IsAvailable, On401, On429, recordError, OnSuccess, ResetPause, Resume, PauseFor | late reports, the instant a pause ends |
| KeyPool (`keypool.go`) | key list, round-robin counter, readers-writer lock | Next, NextExcluding, GetN, FindAvailable, Report*, Pause/Resume/Skip/Add/RemoveKey, SaveToDB, loadFromDB | lock gaps, check-then-act on a key, entry replaced under a late report |
| ChannelHealth (`health.go`) | healthy, failures, recovery time | IsHealthy, ReportSuccess, ReportFailure | half-open probing, interleaved reports |
| Dispatch (`internal/proxy/handler.go`, `traversal.go`, `retry.go`) | per request: rounds, attempted, cooldowns; shared: successful-route cache | failoverLoop, selectPreferred, selectKey, nextKey, waits | deadlines, cooldowns, one response, termination |
| Forward paths (`forward.go`, `stream.go`) | one attempt | native, converted, streamed | broken streams after 200, local errors, deadlines |
| Fanout (`fanout.go`) | workers, results channel | Fanout, FanoutStream, drain | winner and losers, cancellation, leaks |
| ChannelManager, balancer (`channel.go`, `balancer.go`) | channel set, model index | candidates, balancing, Reload | reload under traffic |
| Key statistics store, server (`db.go`, SaveToDB, `cmd/server/main.go`) | SQLite rows, one sync loop per pool | load, save, start, reload, stop | crash, reload and shutdown order, failing writes |
| Stream translators, converted pipe (`translate/stream.go`, `claude_convert.go`, `gemini_convert.go`, `proxy/stream.go`) | open items, two goroutines and a pipe | ProcessChunk, Finish, pipeConvertedStream | event order, broken streams, blocking pipe |
| Message converters (`translate/req.go`, `resp.go`, `tools.go`, `claude_convert.go`, `gemini_convert.go`) | none: each request carries its history | request and answer, each direction | what comes back in the next request: calls, results, roles |
| WebSocket hub (`websocket/hub.go`) | clients, queue | Run, Broadcast, ServeHTTP, Stop | stop against registration, full queue |
| Minute statistics (`stats.go`) | ring of 60 slots | Record, GetHistory | clock jumps |
| Configuration, header policy, capability | none or read-only | pure functions | rule order, defaults |
| Admin web API (`web/handler.go`) | configuration file | save, restore masked secrets, key operations | partial failure, index matching |

How they meet: a request asks ChannelManager for candidates and walks over the
(channel, key) routes. It reads ChannelHealth once, at the start, and each
KeyPool when it picks a key. Each attempt reports to the KeyPool (by key value,
so possibly to another entry than the one it used) and to ChannelHealth.
Administrators act on the pools at the same time. The only other state that
requests share is the successful-route cache, one entry per client model. A
configuration reload replaces every pool while requests still report to the old
ones; each pool has a goroutine that writes its keys' statistics to the database.
When client and upstream speak different protocols, every message goes through the
Chat Completions form, and a stream through two converters joined by a pipe.

## Modules

| Module | Models |
|---|---|
| `KeyState` | the availability half of a KeyState, as operators on a record |
| `KeyPool` | one pool: selection calls as processes over `kp.mu`, reports, operators, time |
| `KeyPoolProps` | what the pool promises, and the inductive invariant |
| `KeyPoolProofs` | theorems about `KeyPool`, for all constants |
| `MCKeyPool` | constants of the pool's runs |
| `ChannelHealth` | health of a channel, as operators on a record |
| `Traversal` | `failoverLoop`: concurrent requests over routes, sharing channel health, key availability and the cached route |
| `TraversalProps` | what the dispatch promises, and the inductive invariant |
| `TraversalProofs` | theorems about `Traversal`, for all constants |
| `MCTraversal` | constants of the traversal's runs |
| `Race` | the abstract specification of a fanout: one good answer, or none if all failed |
| `Fanout` | Fanout, FanoutStream and what becomes of their result |
| `FanoutProps` | what a fanout promises, the refinement of `Race`, and the inductive invariant |
| `FanoutProofs` | theorems about `Fanout`, for all constants |
| `MCFanout` | the fanout's run |
| `Lifecycle` | the statistics of a key over pools, sync loops, reloads, stops, crashes and starts |
| `LifecycleProps` | what a restart may not forget, and the inductive invariant |
| `LifecycleProofs` | theorems about `Lifecycle`, for all constants |
| `MCLifecycle` | constants of the lifecycle's run |
| `ChatStream` | Chat chunks and the fragments they stand for |
| `StreamSources` | the three converters from an upstream's stream to Chat chunks |
| `StreamTargets` | the three converters from Chat chunks to a client's events |
| `StreamConversion` | the two goroutines, the pipe, the client and the handler |
| `StreamConversionProps` | what a converted stream promises, and the inductive invariants |
| `StreamConversionProofs` | theorems about `StreamConversion`, for all constants |
| `StreamTextProofs` | theorems about the words that pass through `StreamConversion`, for all constants |
| `StreamEventsProofs` | theorems about the order of its events and about its calls, for all constants |
| `SequenceInduction` | lemmas: induction over the natural numbers, `FlattenSeq`, `IsPrefix` |
| `MCStreamConversion` | its run |
| `ChatMessages` | Chat messages, calls and tools |
| `ResponsesMessages` | Responses items and tools, to Chat and back (`req.go`, `resp.go`, `tools.go`) |
| `ClaudeMessages`, `GeminiMessages` | the same for the other two protocols |
| `Conversation` | a client, an upstream and a conversation of several turns between them |
| `ConversationProps` | what the converted requests and answers promise |
| `MCConversation` | its runs |

### KeyState and KeyPool

Every KeyState method holds `ks.mu` throughout, so each is one atomic operator.
Time is relative: `left` is the number of ticks until `PauseUntil`, 0 at that
very instant and -1 (`Expired`) after it. `IsAvailable` tests "not before" and
`IsPauseExpired` "after", so the instant between them exists in the model.

`kp.mu` is a readers-writer lock. What runs under its read side (scans, reports,
FindAvailable) interleaves one key at a time; what runs under its write side
(PauseKey, ResumeKey, SkipKey, RemoveKey, AddKey, the reset in Next) requires
`NoReader`. A selection call is a process:

    idle -> scan <-> probe -> lock -> unlocked -> rescan -> gap -> final -> check -> reset -> return
            (Next may go from scan to gap; NextExcluding from scan to check; GetN returns from scan)

`scan`, `probe`, `rescan`, `final`, `check` and `reset` are inside the read lock;
`lock`, `unlocked` and `gap` are the places where Next holds nothing. `check` and
`reset` are separate because `if IsPauseExpired() { ResetPause() }` takes the
key's lock twice.

An `Entry` is a `*KeyEntry`, `ValueOf` its key. Removing a key and adding the same
value again creates another entry, and reports look the entry up by value.
`lent` counts, per value, the attempts that still owe a report.

History variables, which no action reads: `shut[c]`, the entries that were
ineligible at every instant of c's call so far, and `open[c]`, the candidates that
were eligible at every instant. Between them they say what a selection under
concurrency can promise: a returned key is not in `shut`, and nil is returned only
if `open` is empty.

Left out: counters that no branch of the pool reads, the statistics behind
least-errors, least-latency and least-rate-limited (any candidate may be chosen).
The sort and log calls change no state. Persistence is in `Lifecycle`.

### ChannelHealth and Traversal

`Traversal` is `failoverLoop` from the candidates on. A route is a (channel, key)
pair. The program counter follows the code:

    idle -> preferred -> round -> pass -> attempt -> settle -> forget (-> delete) -> pass ...
            pass -> wait -> pass;  round -> finish -> done;  attempt -> settle -> done (success)

`Receive` takes the snapshot (order, health, preferred route); `VisitChannel` and
`PassOver` are one turn of the inner loop, `EndPass` its end, with the decision
to go round again, to wait for the earliest cooldown or to end the round.
`Answer` ends the upstream call, `Interrupt` is its end by the context. The
`Settle...` actions are `processAttempt` after the dispatch; `SettleEnded` is
`nextKey` finding the context ended before it has made the attempt's error.
`Forget` and `Delete` are the two sync.Map calls of forgetSuccessfulRoute.
`Healthy` is the loop that keeps the healthy channels, as a recursive function, and
`Reordered` what a balancer may make of the order.

In this loop every dispatch has a forced key (`newSingleAttemptRetryState`), so
the four forward paths differ only in the order of writing and reporting, and are
one attempt here. Its results are those of `classifyAttempt`, plus
`streamBroken` (an error after 200 was written) and `localError` (a request that
could not be built, or an answer that could not be converted, and was answered at
once). A key's state is reduced to its availability, which `KeyChanges` (other
requests, operators, pauses that end) may flip at any time.

A reply is a code of `sendError` with its status. `local` stands for what a dispatch
writes itself: 400 when the request cannot be converted, 500, 502 and 503 for the
rest (`LocalStatuses`). All upstream errors of 500 and above are one class with status 500.

`limited` is a history variable: the cooldown each 400 or 429 should cause, from
the instant of the answer. `dropped` are the routes whose cooldown was lost because the
channel's own deadline passed before the answer was settled. `outages` counts per
channel what its upstreams answered with 5xx or a broken connection since its last
success, and what was not reported by then. `tries` and `steady` are histories too.

Left out: the fanout branch and the conversions (modules of their own, below),
`nextKey`'s own rounds (only without a forced key), and how the model's candidates
are found.

### Fanout

With failover off and a channel configured for it, one request goes to several keys
at once. `Respond` is a worker goroutine, from its start to the send on the results
channel; `Take` is a turn of the caller's loop, `AllFailed` its end without a
winner; `Collect` and `Choose` are the same for wait_all; `Drain` is the goroutine
left behind by a winner. `Fail`, `Answer`, `Commit` and `PipeEnds` are the fanout
branch of `failoverLoop` with the three forward functions. The three modes share
the variables, because they share the keys, the pool and the client, but keep their
own branches where the code does: the first mode reports its winner at once,
FanoutStream only when the stream has ended; a stream keeps bodies and cancels each
worker separately. The channel is buffered for all workers, so a send never blocks;
its close is `Closed`, every worker having sent.

`reports`, `replies` and `told` record what the pool, the client and the channel's
health are told. Left out: latencies (which good result of wait_all is the fastest)
and the effect of the reports on the pool, which is `KeyPool`'s.

`Race` knows contenders that end well or badly and one answer. The mapping reads
`ended` from the results and `answer` from the winner; queueing, reporting and
draining are stutters.

### Lifecycle

One key of one channel. A key state, a snapshot of it and its row in `key_stats` are
each the set of updates they reflect; an update is what one request reports. That
abstracts the counters, the pause and the skip, which are written and read together.
A process creates pools 1, 2, ...: the first at the start, one more at each
reload (`Build`, `Swap`, `ReloadSnapshot`, `ReloadSave`, `ReloadStop`, under
`configMu`). Each has a loop: `Tick` takes the snapshot, `Sync` writes it after the
lock is released, `SyncFails` is a write that fails and is only logged. A request
keeps the pool it began with (`Begin`, `Report`). `StopLoop`, `StopSnapshot` and
`StopSave` are `cm.Stop` after a signal; then the server drains. `Die` is a crash at any
point, and also the end of main.

The code does lose updates, and the model says when. `exposed` collects them:

* what is told during a reload to a pool whose successor has loaded already, or to a
  pool that has been replaced while another still may write the row;
* what the old pool had but had not written when the new one loaded: the new pool
  does not know it, and its next sync overwrites the row;
* what two rows of one pool that are in flight at once disagree on (a tick against
  the save of a reload or of the stop);
* what the table has when a pool that starts cannot read it: the pool starts empty
  and overwrites the row.

docs/17 admits the first two (R-13 and line 318). What requests report while the server drains
is not saved, and the properties do not ask for it. The properties say that
nothing else is lost. Two consequences were met: statistics do not always survive a
restart as docs/00:33 says, nor does the permanent skip of a 401, which
docs/retry-config.md:57 calls persistent. A save of the configuration that runs
after the stop closes `stopCh` a second time; net/http recovers the panic.

Left out: other keys and channels, whose rows are independent. Restore sets the
consecutive errors and the 429 window to zero; no update reflects them.

### Streams

The answer of an upstream is a sequence of fragments: a piece of reasoning or of
text, the start of a call, a piece of its arguments. The data of a fragment is its
position, so that an event shows which fragments it carries, and in which order.
`FragmentChunks` gives what the source converter writes for the last fragment,
`Process` what the target makes of a chunk; `TerminalChunks`, `ClosingChunks`,
`Complete` and `Abandon` are the ends. A write into the pipe blocks until the reader
takes it: the source reads on only when `pending` is empty. `held` are kinds of items that a
Responses upstream sends only with `response.completed`.

There are two ends of an answer. `complete` is the flag of the source converter: it has
read something it takes as terminal. `whole` says that the upstream has sent its
protocol's terminal event. They differ because the Responses and Gemini sources
and everything that reads Chat take a bare `[DONE]` too (`ReadDone`). A Responses
upstream that withholds items and ends that way has never sent them, and the
properties do not ask for them (`Withheld`).

`SalvageToolCallArguments` is `Salvage`: arguments that do not parse become `{}`
(`EmptyObject`), in the event that closes a call, in the terminal output and in a snapshot.
`Json` says which pieces, put together, parse. `MCJson` takes an odd number of them, so a
second piece breaks a call's arguments and a third repairs them.

Upstreams may interleave what they send, break off, send what does not parse, or
end without their terminal event; the client may leave and the context end, at any
moment. A write to a client that has left may have got partly through.

What the properties do not promise, because the code does not do it:

* a Gemini client gets no calls and no finish reason, though success is reported
  (docs/04:102 says all twelve directions are supported);
* a Claude client of an upstream that repeats id and name in every chunk of a call
  (Responses, Claude) gets a new `tool_use` block per piece; pieces of interleaved
  calls land in the wrong block. `BlocksWellFormed` is about upstreams that finish one call first;
* a Claude source does not forward thinking, nor a call without a piece of arguments;
* the final `output` for a Responses client lists the calls last, by index they are
  all there; the Gemini source overlooks an error when it writes content, and meets it at
  the next write;
* a Responses client of a call that was cut off sees its deltas and then `{}`, in the event
  that closes the call and in the final output; `ItemsWellFormed` says exactly this.

Left out: a Responses answer that sends some calls as they come and others only in its
snapshot, where the snapshot's index of one may be the `output_index` of another (`held` is
per kind); think tags inside text, usage, model names, and the text of events.

### Conversation

The adapter keeps nothing between requests, so a conversation is the client's
history. `Exchange` converts an answer of the upstream and the client notes what it
got; `convertChatToSource` is the request that the history causes now. So what
comes out of one converter goes back into another, turn after turn. The client says
something (a string, an array of parts, a picture), gives a result, gives one late
or of a call it has forgotten, forgets the beginning, declares tools of each kind.
A text is a sequence of the texts it was joined from; ids are fresh per step;
arguments are a value, an empty object, broken JSON, the `null` of a Gemini call
without any, or nothing. An empty `input` is left out of a Claude block and read back as nothing.

What the properties leave out, because the code does:

* for a Claude client: text and results given in arrays (`ConversationLoss`, below);
* the assistant's own earlier text, of a Responses client, does not reach Claude and Gemini upstreams;
* Gemini has no call ids: the converter invents one per call and names results by
  function, so pairing is promised only where both protocols have ids;
* an array of user content does not reach a Claude upstream;
* of several texts of a Responses answer one arrives: the first of a message's parts
  (`resp.go:118` breaks there), and of several messages the last; the finish reason of an
  answer with calls is "stop";
* ReqToResponses keeps the last system message only and drops developer messages.

Left out: items of a Responses request without a type (the code drops them), sampling
parameters, `tool_choice`, usage, images as data, nested
namespaces, model names.

## Runs

| Run | Question | Result |
|---|---|---|
| `KeyPoolTwoKeys` | two keys, one call at a time, everything else concurrent | holds |
| `KeyPoolRace` | two concurrent calls, one key value removed and added again | holds |
| `KeyPoolLive` | do calls return, with operators wanting the write lock | holds |
| `TraversalOrder` | one request, three routes, two channels with 2 and 1 rounds and deadlines of their own | holds |
| `TraversalSingle` | failover off: one channel, always answered, terminates | holds |
| `TraversalShared` | two requests on one channel and one key | holds |
| `FanoutRace` | three keys, three modes, every order of results, cancellations and draining | holds |
| `Lifecycle` | what reloads, stops, crashes and failing writes may lose; does a report reach the table | holds |
| `StreamConversion` | twelve directions: event order, whole texts and calls, true endings, no blocked goroutine | holds |
| `Conversation` | twelve directions: calls and results, roles, words, answers, tools | holds |
| `TraversalTimeout` | is a request that ran out of time answered | violated |
| `ConversationLoss` | does the result of a tool reach the upstream | violated |

Bounds. `MaxConsec` (errors counted per key) is one above the threshold, so the
pause, the longer second pause and the cap by `PauseMax` occur. `MaxLent` bounds
attempts that owe a report; it is 2 everywhere, so that while a call runs (which
takes one) an earlier attempt may report at any of its steps. `KeyPoolTwoKeys` leaves out
403, which counts as a broken connection (0) does, and 5xx, which 429 stands for;
the other two runs have them. Times are 1 or 2 ticks: enough to be inside, at and
after the end of a pause or a cooldown. Two keys or two callers suffice for the
races of the pool, which are between one call and one other actor. Two channels,
one of them with two keys and two rounds, are the smallest instance where order,
rounds and monopolizing differ. `Classes` leaves out results that take the same
branches as others. In `TraversalOrder`, whose one request reads the channels' health only
once, a 429 stands for all that send it on. In `TraversalShared` a 5xx stands for a broken
connection too. `TraversalOrder` has deadlines of channels (`Deadline`), so a cooldown may
be taken away before the second round. Three workers allow a winner, a loser before it and one after it. Symmetry is
used in safety runs only.

`Lifecycle`: two updates (one kept, one lost, or one in each of two pools), two pools
per process (a reload), two starts (a restart). The proofs remove these bounds.
`StreamConversion`: four fragments are two calls with a piece of arguments each,
in any order, or text, a call, its arguments and text again. `Conversation`: five
steps are a word, a call, a result given late after another word, and an answer
to it; or a forgotten beginning. Answers have up to two texts, two calls and a
thought, but an answer to a history of more than one message is one text or one call
(`IsPlain`), and a picture is never the first message.

Fairness. `KeyPoolLive`: a goroutine inside a call keeps running (weak fairness of
its steps), and the write lock is granted to a waiting writer because Go's RWMutex
queues later readers behind it (strong fairness of `LockReset`).
`TraversalSingle`: the handler goroutine runs, an upstream call ends (the HTTP
client has a timeout), and timers fire. Nothing is assumed of clients, operators,
upstream results or of the context ending.

`FanoutRace`: the caller, the drainer and the workers run, and upstream calls and
streams end. `StreamConversion`: both goroutines and the handler run, and the
upstream's stream goes on or ends (reads are under the request's context).
`Lifecycle`: the ticker of a running loop fires, Reload runs on, and writes do not
fail for ever (strong fairness of `Sync`); nothing makes a request, a signal or a crash happen.

Deadlock is checked in every run but `FanoutRace`, `StreamConversion`,
`Conversation`, `ConversationLoss` and `Lifecycle`, whose one request, stream, conversation or
bounded number of starts ends.

## What the code does otherwise than it says

Two runs end with a counterexample to what the documentation says.

* `TraversalTimeout`. `handler.go:564`: when the context ended between selecting a
  route and attempting it, `processAttempt` returns `stop` and nothing is written;
  net/http then sends an empty 200. docs/18:136 says a timeout returns 504.
* `ConversationLoss`. `claude_convert.go:787`: a Claude client writes the results of tools as
  blocks in a user message. ClaudeToChatRequest does not read them, and the
  message is missing from the upstream's request. docs/08 §3.4 (194-212) documents the exchange.

Others were met while modelling and are not runs.

* `keypool.go:211`: `IsPauseExpired` and `ResetPause` are two critical sections. An
  error report between them pauses the key; the reset erases that pause and its
  count (`CheckPick`, `ResetPick`).
* `keypool.go:87`: the reset in Next, meant for expired pauses, clears running ones
  too, when it finds one expired between its two tests of a key (`LockReset`).
* `retry.go:124`: `nextKey` looks at the context before it makes the error of
  an attempt. If the channel's `max_total_wait_ms` passes while the body of a 400 or 429 is read, the
  cooldown and the blame on the channel are dropped, and the next round may repeat the
  route inside its cooldown, where docs/18:114-118 says that a round boundary clears no
  cooldown that has not run out. It needs two eligible channels. `CooldownRespected` excepts
  exactly these cooldowns (`dropped`); without the exception `TraversalOrder` violates it.
* `stream.go:476`, `gemini_convert.go:396`: a `[DONE]` ends an answer without
  `response.completed` or a finish reason, the client gets a regular end and the
  handler reports success. docs/16:84-91 says that a missing terminal event is
  detected and only complete processing is reported as success. With `whole` for `complete`
  in it, Responses and Gemini upstreams violate `SuccessIsComplete`.
* `health.go:28` "allows one probe request through": `IsHealthy` changes nothing, so
  every request passes until one reports.
* `handler.go:80`: forgetSuccessfulRoute may delete a route that another request has
  just stored (`Forget`, `Delete`).

All of them are in the model, and every other property is checked with them.

## Proofs

`KeyPoolProofs` holds, for all entries, values, callers, strategies and
thresholds, from the named assumptions of `KeyState` and `KeyPool`:

* `TypeCorrect`: `Spec => []TypeOK`.
* `ThresholdCorrect`: `Spec => []ThresholdMeansPaused`. Given the types it is
  inductive: each update of a record keeps it, because `RecordError` sets the pause
  when it reaches the threshold and all that clear the pause clear the count.
* `HandedOutCorrect`: `Spec => []HandedOutWasOpen`, by `IInvCorrect`. By itself it
  is not inductive: when a call starts, `shut` starts from all entries, so a caller
  that is idle must hold no candidates (`IdleClean`).
* `SkipCorrect`: `Spec => SkipEndsOnlyByResume`. AddKey gives an entry a new state,
  so entries not yet created must not be skipped already (`UnusedFresh`).

`IInv == TypeOK /\ IdleClean /\ UnusedFresh /\ HandedOutWasOpen` was checked by TLC on
the pool's instances before it was proved. The proof of a step has one case per
action; record updates, sequences and the history variables have lemmas of their
own.

`FanoutProofs` holds for any set of keys, modes and results, from
`FanoutAssumption`:

* `ReportedCorrect`: `Spec => []ReportedAtMostOnce`. The invariant says for every
  result that is still in the channel, collected, or streaming (`Waiting`) that
  nothing was reported of it (`ReportInv`); it needs that no worker is in the
  channel twice (`QueueInv`).
* `WinnerCorrect`: `Spec => []WinnerUndisturbed`. A good response is open and not
  cancelled from the moment it enters the channel (`StreamInv`), and the winner is
  not among what is left to drain.
* `RaceCorrect`: `Spec => ImplementsRace`. A good result is never lost before there
  is a winner (`QueueInv`), so the caller fails only when all failed.

The conjunction `IInv` was model-checked with the constants of `FanoutRace` first.

`LifecycleProofs` holds for any set of updates and any number of pools and starts,
from `BoundsAssumption`:

* `TypeCorrect`: `Spec => []TypeOK`.
* `SavedCorrect`: `Spec => []SavedStaysSaved`. A write replaces the row, so it must be
  known of every row that is about to be written, at any distance from its snapshot,
  what it may miss. `StatesInv` says it of the pools (each knows what its predecessors
  know, and those that may still write know what the table has held), `RowsInv` of the rows
  in flight, `DiskInv` of the table, all up to `exposed`; `PoolsInv` says which pools exist and may write.
* `StopCorrect`: `Spec => []StopSaves`. `ToldInv` follows what was told from the pools into the
  current one, its row and the table.

`IInv` was model-checked with two and three pools first. The proof has one case per
action, and a lemma per conjunct the action disturbs.

`TraversalProofs` holds for any finite set of routes, any channels, orders, rounds,
thresholds and requests, from `TraversalAssumption` and those of `ChannelHealth`:

* `TypeCorrect`, and `InvCorrect: Spec => []IInv`. `IInv` is a conjunction per request, because no
  step of one request changes another's state; what they share (health,
  availability, the cached route) may change under any of them.
* `ReplayCorrect`, `AnsweredCorrect`, `KeyFaultCorrect`: `RepliesInv` says that the client
  has been answered exactly by the results that answer it, at every program counter, and
  that `all_routes_failed` never has the status of a key's fault.
* `RoundsCorrect`: `TriesInv`. The mark in `attempted` is what keeps a route from a second
  try in the round, so the bound on its tries is one lower while it is unmarked.
* `ExhaustedCorrect`: `ExhaustInv`. Behind the last pass stands the fact that what it
  has visited without an attempt or a wait is marked or belongs to a channel out
  of rounds; so a round ends only with nothing owed.
* `MonopolyCorrect`: `SpreadInv`. In the first round the lead of a channel is one visit
  of the current pass, and when the pass ends there is none. The preferred route is tried
  outside the passes; the property does not count it for the channel that leads.
* `HealthCorrect`: `Spec => []UnhealthyOnlyByFailures`.
* `BlamedCorrect`: `Spec => []BlamedOnlyForOutages`. The failures counted against a channel and
  the outages that requests have still to report are together no more than its `outages`;
  a request that settles moves one from the second to the first, and a success leaves only the second.
* `CooldownCorrect`: `Spec => CooldownRespected`, with or without deadlines of channels. `CoolingInv`
  says that a live request has noted every cooldown but that of the attempt it is about to
  settle and those in `dropped`; a route leaves `dropped` with its next 400 or 429.

`IInv` and `CoolingInv` were model-checked with the constants of the runs first. `NoMonopoly`
must leave out the preferred route of the leading channel: counted, a request that starts on
it and then visits the same channel first is two ahead without any fault of the loop.

`KeyPoolProofs` has two further theorems on top of `CallInv`, which says for every call
how far its scan has come and that it has missed no eligible key before that point:

* `NilCorrect`: `Spec => []NilOnlyWhenExhausted`;
* `MemberCorrect`: `Spec => []ExcludingPicksMember`.

`FanoutProofs` has `BlameCorrect: Spec => []BlameMatchesOutages`: the flags that the
loop sums up over the results it has taken (`Taken`) are those of all results when it
stops without a winner (`BlameInv`).

`StreamConversionProofs` holds for answers of any length and any number of tool calls, from
`StreamAssumption`:

* `SuccessCorrect`: `Spec => []SuccessIsComplete`; `FailureCorrect`: `Spec => []FailureIsTold`. The end of an answer is
  what the code takes for it: a terminal event, or a `[DONE]` where the source accepts one.
  `SourceInv` separates content from the end of an answer in the pipe (`Plain`, `Endings`) and ties the end to the
  upstream's; `TargetInv` and `ChatClientInv` say what a client has been told in each
  state of the two ends, `OutcomeInv` what the handler has made of them.
* The lemmas behind it are about the converters: which events an operator may write
  (`Adds`, `EndsWith`), that a chunk never ends an answer, that the ending event is the
  last written, so that a write cut short (`CutShort`) has not told of an end, and that no
  fragment and no snapshot makes a source write the end of an answer.

`StreamTextProofs` holds for the same answers, and for all twelve directions:

* `TextCorrect`: `Spec => []TextDelivered`, by `TextInvCorrect: Spec => []TextInv`. For each of text and reasoning
  `FlowInv` says that what the client has been told, followed by what is in the pipe, is what
  the source has forwarded (`Forwarded`), as long as the client has not left and the target has not failed
  (`Intact`); after that only the prefix is left, and nothing is written any more that
  could disturb it. A target that has ended well leaves an empty pipe, so at success
  what was told is all that was sent, and nothing of what a snapshot that never came would have had
  (`Withheld`). What a Responses upstream keeps for its snapshot (`held`)
  is forwarded at once when the terminal event comes, and the proof shows that the
  snapshot repeats none of what has already gone out.
* The lemmas behind it: what an event or a chunk says of a kind (`Word`, `Text`), that a converter
  writes for a chunk one delta with its data and otherwise only events that say nothing (`Says`, `Adds`),
  that a write cut short says a prefix (`TextCut`), and how the positions of a kind grow with the
  fragments read (`AscendingAdd`, `OfKindAppend`).

`Join` and `OfKind` are written with `FlattenSeq` and `Ascending`, whose definitions are functions,
so `SequenceInduction` can prove what they yield for every length. It has the one induction
all of this needs, as a statement about sets of numbers (`SetInduction`, from the
well-foundedness of `<`), because the library's schemes take an operator as parameter.
`TextInv` was checked by TLC on the constants of `StreamConversion` first.

`StreamEventsProofs` is about the order in which a client gets the events of an answer, and about
its calls:

* `TypeCorrect`: `Spec => []TypeOK`, by `TypeInvCorrect`. That the chunks have the right numbers
  in them rests on how an answer is put together (`ReadInv`): its calls are
  numbered in the order of their first fragments, and a piece of arguments follows the
  opening of its call.
* `ItemsCorrect`: `Spec => []ItemsWellFormed`, by `ItemsInvCorrect`. The events alone do not say enough: the
  invariant ties the translator's fields to them (`ItemsInv`). `next` is the number of
  items opened (`ItemEvents`), `active` and `toolCalls` are exactly the items that are open, with
  the deltas they have had (`ActiveItem`, `CallItems`), and `finalOutput` is what has been closed
  (`Accounted`), so that the terminal event repeats every item. What closes an item is the data
  of its deltas, for a call what `Salvage` makes of them (`Closed`).
* `BlocksCorrect`: `Spec => []BlocksWellFormed`, by `BlocksInvCorrect`. `active` and `next` are the block that is open
  (`BlocksInv`). A chunk without the name of its call opens no block, so it must be shown
  that its call's block is open: for a Chat upstream that sends a call at a time (`Sequential`), because
  the last fragment read is of that call and the chunk in the pipe is the one
  made of it (`ChatPipe`, `CallIsOpen`); the other sources name the call in every chunk (`NamesItsCalls`).
* `CallsCorrect`: `Spec => []CallsDelivered`, by `CallsInvCorrect`. For each call `CallFlow` says that what
  the client has heard of it, followed by what is in the pipe for its index, is what the source has forwarded;
  and that a call the client has not heard of comes with its name, because that chunk announces it. This
  needs `CallLink`, how a target knows which call a chunk is of: a Chat client by the index
  (`ChatLink`), a Responses client by `toolCalls` (`ResponsesLink`), a Claude client because the block of the
  last call is the open one (`MessagesLink`), and because the name comes once (`NamedOnce`). `CallIndexes` shows
  that each source gives each call an index of its own which stays as the answer grows. What a
  Responses upstream withholds goes out with its snapshot, call by call and salvaged (`SnapshotIsCalls`);
  until then the client has heard of none of it. Once the
  client has left or the target has failed, only `CallsSafe` is left: prefixes of the right calls. `CallsInv` rests on
  the three invariants before it.
* The lemmas behind them: what the appending of one event does to the counts, indexes and texts of a
  log, which events keep it well formed (`AddedFits`, `OpenFits`), one lemma per helper of
  the translators (`OpenToolCall`, `FinalizeActive`, `StartBlock`, ...), and that a write cut short leaves a
  well-formed log; that every helper of a target either tells of no call (`Quiet`) or tells the
  data of its chunk of one call, announced before or now (`TellsOld`, `TellsNew`).

These invariants too were checked by TLC with the constants of `StreamConversion` first.

Only model-checked: everything about the conversation, whose converters fold and select over sequences of messages (FoldLeft, SelectSeq), which take
operators as parameters; and all liveness, which is out of
the prover's reach. Facts by induction over finite sets (minima of the timers, the longest number of
rounds) are proved in the set form of well-foundedness, without the library's schemes.

## Not modelled

Header rules (a pure mapping, reached by unit tests); configuration parsing (its
results are the constants); the capture of usage from passing streams (it feeds the
log); logging, metrics, debug output, the daemon and the web assets (I/O); the
translator in `chat_convert.go`, which nothing calls. The components in the plan below are
not modelled yet: the WebSocket hub, minute statistics, the balancers and the model
index, interface capability, and saving the configuration with masked secrets.

## Plan

1. `KeyState`, `KeyPool`, `ChannelHealth`, `Traversal` (done).
2. `Fanout` and `Race` (done).
3. `Lifecycle`: pools, table, sync loops, reload, shutdown and crash (done).
4. `StreamConversion`: the translators, the two goroutines and the pipe (done).
5. `Conversation`: the message converters over several turns (done).
6. `Hub`: registration, broadcast queue, Stop.
7. `RetryLoop`: nextKey with rounds of its own; it ends.
8. Small algorithms, each against a reference definition: the balancers and the model
   index, interface capability, StatsRing, RateLimitWindow, restoring masked
   secrets, header rules.
9. Abstract specifications: `KeyLifecycle` (open, paused, skipped), implemented by
   `KeyPool`; `Dispatch` (one response, routes at most once a round), implemented by
   `Traversal`.
10. Proofs of every safety property of `KeyPool`, `Fanout`, `Lifecycle` and `Traversal`, and of the
   true ending, the words, the order of the events and the calls of a stream (done); `Conversation`
   stays with TLC.
