# TLA+ models of the bsky TypeScript SDK

This directory holds TLA+ specifications of the program in `src/`: the
`@bsky/jetstream` client (`packages/jetstream`) and the `@bsky/sdk` helpers
(`packages/sdk`), TLC configurations that check them on small instances, and
proofs that TLAPS checks for every value of the constants.

## 1. The system

### 1.1 jetstream: reading the event log

A *jetstream* server keeps a log of events with increasing sequence numbers
(seqs). Recent events are served live over a websocket (`subscribeEvents`),
older ones are sealed into an archive of compressed blocks that is read over
HTTP after asking for a plan (`planSnapshot`).

```
 planSnapshot ── planPages ──┐
 archive ── blockSource ── backfillBatches ── selector ──┐
                                                         ├─ cutoverReplay / snapshotRawBatches ─┐
 websocket ── transport ── liveEvents ───────────────────┘                                      │ batches
                                                                                        trackedStream
                                                                                                │ batches   ▲ ack
 CursorStore ◄── save ── CommitTracker ◄── track / done ────────────────────────────────────────┤           │
                                                                                        LexIndexer.run ── handlers
```

| Component | State it keeps | Operations | What is hard | What makes it correct |
|---|---|---|---|---|
| `CommitTracker` (`execute/commit-tracker.ts`, `run-tracker.ts`) | tracked seqs, out-of-order acks, watermark, the save in flight | track, ack, flush, the save loop | acks in any order; an ack while a save is in flight; a failing store; a crash at any point | the stored cursor covers acknowledged events only, never moves back, and reaches the watermark |
| `LexIndexer.run` (`lex-indexer.ts`) | slots, key tails, the first error | take an event, wait for a slot, run or queue a handler, settle, wind down | handlers that complete in any order; the synchronous fast path; stopping in the middle | bounded concurrency, per-key order, fail-fast without acknowledging what failed |
| `JetstreamRunner` (`runner.ts`) | none of its own | drive a source through the two above, flush at the end | acks after the end of a run; crashes and reruns | at-least-once: no event is skipped by a resume |
| live tail (`live/source.ts`, `live/transport.ts`) | highest delivered seq | dial, deliver, drop duplicates, redial | inclusive cursors, timestamps as cursors, connections lost at any point | no loss, no repeat |
| snapshot sweep (`engine/planner.ts`, `selector.ts`, `backfill-pipeline.ts`, `jetstream.ts`) | pinned tip, page cursor, seq window, last emitted seq | plan a page, read a block, re-plan | blocks that straddle boundaries, failures after part of a page, an archive that grows | no gap, no repeat, termination |
| cutover (`live/cutover.ts`) | resume point, replan budget | sweep, go live, sweep again | retention overtaking the backfill | one gapless ascending stream over both phases |
| prefetch scheduler (`engine/block-source.ts`) | queue of downloads, byte budgets, a wake latch | fetch ahead, hand over in order, tear down | one consumer and several producers on one latch | blocks in order, bounded memory, no lost wakeup |
| segment download (`xrpc/download.ts`, `xrpc/retry.ts`, `segment/*`) | bytes yielded, ETag, attempts | stream a segment, resume a cut stream | a response cut anywhere; a segment that changes between attempts | the frames are those of one version of the segment, each once |
| decoders (`live/decode*.ts`, `decode-*.ts`, `shape.ts`, `segment/block.ts`) | none | bytes to events | malformed input | classification: deliver, skip, malformed |

All of this runs on one JavaScript thread: steps interleave only where the code
awaits. The models take a synchronous stretch of code as one action.

### 1.2 sdk: acting on an account

| Component | State | Operations | What is hard | What makes it correct |
|---|---|---|---|---|
| preferences (`actions/preferences.ts`) | a promise chain per client; the preference array on the server | some thirty read-modify-write operations, a migration | several clients, a migration outside the chain | no update lost within a client, unrelated preferences preserved |
| records, graph, notifications (`actions/*.ts`) | records on the server | create, upsert with swap and retries, delete | a concurrent writer between read and write | an upsert never overwrites what it has not read |
| TIDs (`tid.ts`) | last timestamp, counter | next | many calls in a tick, a clock that moves back | strictly increasing |
| rich text (`rich-text/*`) | text and facets | insert, delete, detect, sanitize | byte and code-unit indices, facets across a cut | facets keep covering the same characters |
| moderation (`moderation/*`), age assurance | none | decide, merge, blur | precedence of many label settings | decisions match the declared behaviours |

Outside the models for good: lexicon JSON, generated code and exports, build
scripts and CI, zstd and SHA-256 bindings, test fixtures, formatting and logs.

## 2. What is modelled

| Module | Models | Composes |
|---|---|---|
| `AtLeastOnce` | what a cursor promises: events are handled, the cursor moves only over handled events | |
| `CommitTracker` | tracker, save loop, store, restarts | refines `AtLeastOnce` |
| `LexIndexer` | `LexIndexer.run` | |
| `Runner` | `JetstreamRunner.#drive` | `CommitTracker`, `LexIndexer` |
| `LiveTail` | `rawBatchStream`, `liveEvents`, the transport's redial decision, the server's log | |
| `ArchiveSweep` | `planPages`, `makeSelector`, `backfillBatches`, `snapshotRawBatches`, the archive | |
| `CutoverReplay` | `cutoverReplay` | `ArchiveSweep`, `LiveTail` |
| `SegmentStream` | `streamSegment`, `getBlock`, `streamSegmentFrames`, compaction on the server | |
| `BlockSource` | `blockSource` | extends `SegmentStream` |
| `Labels`, `Preferences` | the label vocabulary; each preference action as a function of the stored list, and what `getPreferences` reads from it | |
| `PrefsPromise` | abstract: what each action promises of the object `getPreferences` returns | extends `Preferences` |
| `PrefsWrite` | preference calls in flight: the promise chains of several clients, `getPreferences` and its migration, requests that fail | extends `PrefsPromise` |
| `ProfileUpsert` | concurrent `upsertProfile` calls | |
| `Tid` | `nextTid` under a clock that moves either way | |
| `RichText` | the `RichText` class under edit, and `detectFacets` | |
| `Decision`, `MuteWords`, `Moderation` | moderation decisions, muted words, every subject that is moderated | `Moderation` extends `Preferences` and both |
| `AgeAssurance` | the region that applies and the access its rules grant | |
| `Sdk` | the whole of `@bsky/sdk` above | extends all of them |
| `CommitTracker_proofs`, `LexIndexer_proofs`, `Runner_proofs` | theorems about the execution side | each extends its module; `Runner_proofs` cites the other two for the instances a runner holds |
| `LiveTail_proofs`, `ArchiveSweep_proofs`, `CutoverReplay_proofs` | theorems about the sources | `CutoverReplay_proofs` cites the other two |
| `BlockSource_proofs` | theorems about the prefetcher and its downloads | extends `BlockSource` |
| `Sdk_proofs` | theorems about every part of the sdk: preference calls, profile updates, TIDs, rich text, decisions, muted words, age assurance | extends `Sdk` |

`SdkValues` declares `None`, which stands for `undefined` in the sdk's modules, and the
lists these share. `Keep(s, I)` is the elements of `s` at the positions `I`, `Ranked` a
stable sort of them: both say for each place in the result which position it comes from
(the one with so many others up to it), without a fold, so that they can be reasoned about.
The modules `MC*` give the constants their values for TLC.
`PROJECT.json` maps every definition to the lines it stands for. Definitions
under a comment that begins "Mutant" are no part of a specification: each is a
wrong version of the definition after it, and shows which property notices.

### CommitTracker

One action per synchronous stretch. `Pull(n)` is one turn of `trackedStream`'s
generator: all of a batch is tracked before any of it is yielded. `Done(s)` is
an ack with all it triggers: the loop over the confirmed prefix, the trim, and
`scheduleSave`, which reaches `store.save` before its first await. `SaveApplies`
is the store making the value durable, `SaveResolves` the continuation of the
save loop, `SaveRejects` a failed save, whether the value arrived or not.
`savePromise` is `"stuck"` when `store.save` threw synchronously: `finally`
cleared the field before `scheduleSave` assigned the rejected promise to it.
What `flush()` awaits is settled by the step that ends the save loop, but its
continuation runs later, as `FlushSettles`: acks, and the save they start, may come
in between. `Restart` is a crash, or the next run of the application: a new tracker,
and a source that starts after the stored cursor. `acked` is a ghost, what any run
has acknowledged, and so is `flushMark`, the watermark when `flush()` was called.

### LexIndexer

`main` is where `run()` is suspended. `Take` is the arrival of the next event up
to the next await: it may dispatch the event at once, wait for a slot, or break
off. `Granted` is the continuation of the wait, which is where the code counts
the slot. `Dispatch` is the fast path or the chaining behind the key's tail.
`HandlerSettles`, `RunQueued` and `ForgetTail` are the three callbacks of a
dispatched event: its handler's promise, its turn in the chain, and
`run.finally`. A handler returns, throws, or returns a promise that does either
later. Batches of one event, as the live stream's, show every interleaving;
`Runner` has batches of several, taken without a callback in between.

### Runner

An indexer step that turns an event into `"ok"` is also `Done` of its seq, in the
same step, as `settle` calls `ctx.ack`. `PullBatch` happens when the processor
asks for a batch and has used up the last one. `FlushAtEnd` is the `finally` of
`#drive`: it runs when `run()` returned or threw, and handlers may still be
running then. `FlushEnds` is `flush()`'s own end, with which the runner's promise
settles. After `Restart` the source resumes from the stored cursor.
`RunAgain` is a rerun in the same process while something of the last run is still
under way: a stream that throws, or a `keyOf` that does, ends `run()` without
waiting for its handlers. The variables `prior*` are that run's processor and
tracker, a second instance of each module over the same store: `PriorWorks` lets
its handlers complete, and those queued behind them run, and acknowledges to the
old tracker; `PriorSaveLoop` is its save loop. The two loops write one cursor in any
order.

### LiveTail

`WireCursor` and `FloorFrom` are `getUrl` and the initialisation of `lastSeq`;
`Deliver` and `Malformed` are the body of the frame loop. The server is modelled
from what the code says of the wire: increasing seqs, an inclusive seq cursor,
no cursor meaning the tip, cursors from a threshold on being timestamps, and a
refusal (HTTP 400) of a seq cursor below retention. A timestamp below retention
is clamped, and what the consumer is owed then starts where the server starts.

### ArchiveSweep and CutoverReplay

`Plan` is one `planSnapshot` request (the first pins the tip), `NextBlock` one
decoded block with the seq window and the kinds filter applied, `PageDone` the
decision at the end of a page, `DownloadFails` the re-plan after a
`DownloadError`, `SweepEnds` the other failures and the abort. `CutoverReplay`
uses these actions unchanged, starts the live phase at `max(sealedTip, resume)`
with the dedup floor, and sweeps again when the live cursor is refused.
The archive seals whole blocks of any length, each named by its last seq (`Ends`);
a page ends at the end of a block or at the ceiling, and only sealed events expire
from the live log. `Wanted \subseteq Selected`: what the kinds filter keeps is part
of what the plan selects.

### SegmentStream and BlockSource

`SegmentStream` holds, for each download of a plan, the open response body, the
captured etag, the units of the file yielded so far and the attempts used. A unit
is a stretch of bytes. A plan gives each download its frames by where they end
(`ends`), so a segment's header is whatever lies before its first frame; a block is
one frame, and its body comes as one whole chunk, as `getBlock` reads it. Every
download has at least one frame: a plan names no segment without a block. `Respond`
is an answered request, where a resumed one is only accepted from the etag's
generation and at the right offset; `Chunk`, `RetryRequest`, `RetryBody` and
`Fail` are what else can happen to it. `Rewrite` is compaction. The end of the
file behind the last frame is never read (`Complete`), as in the code, which
leaves that response body open; no property speaks of it.

`BlockSource` adds the window `head..next-1` of prefetches. `PumpReads`,
`PumpWakes` and `PumpEnds` are the stretches of `Prefetch.#run` between its
awaits, `Yield`, `Await`, `HeadFails` and `HeadEnds` those of the main loop over
`drain()`, `Discard`, `Settled` and `Finish` the teardown. `wake` is the latch:
one slot, which says who waits. `Parks` looks at `aborted` only when the pump
runs, so a parked pump does not notice an abort by itself.

### Preferences, PrefsPromise and PrefsWrite

`Preferences` reads the stored list as the code does: `Interpret` is
`getPreferences` with its fall-backs for old and partial objects, `Apply` the
callback of each action, which answers a new list, or `None` when the code
returns `false` and nothing is put. Order in the list matters (the last object of
a type wins on reading, `map` and `filter` on writing), so it is a sequence.
What an action takes of the list it takes by position (`Chosen`: the elements at a
set of positions, in order), and what it puts back it puts over an object (`Over`,
the spread `{ ...g, ...f }`) or behind the list (`Assign`, `MoveToEnd`). `Setting` is
an optional field of the first object of a type. Names of feeds, labels and words are
model values or short sequences of symbols, and both TIDs and dates are numbers.
`PrefsCall` is what the parameters' types allow of a call.

`PrefsPromise` is the abstract side, written without the list: which field of the
object an action may change, and to what: `Promise` is that every other field is
`Untouched`, and that its own is as it says. `OpsActAsDocumented` compares the two
on every write of every reachable race; `OthersUntouched` is its first half.

`PrefsWrite` has one action for each stretch between two awaits. `Call` is the
synchronous part of an action: validation, drawing ids, chaining its cycles to
the client's tail (`addMutedWords` starts one for each word; `Keep` leaves out
the words that are empty once cleaned). `Read`, `Put` and
`Answer` are the two requests; `SkipWrite` the callback that answers `false`;
`Cleanup` the `finally` that drops the chain if nobody queued behind. `Ready` is
`prev.then(fn, fn)`: a cycle runs whatever became of the one before. `GetRead`,
`GetReturns`, `GetMigrates` and `GetSettles` are `getPreferences`, which reads
*outside* the chain, decides there whether to migrate, and then puts its decision
on the chain. `Fail` is a request refused, or applied with its answer lost;
`GiveUp` and `LandLate` a put the client has given up and the server applies later.

### ProfileUpsert

`Get` (nothing, an invalid record and a failed read all read as nothing),
`Update` and `UpdateThrows` (the caller's function and the check of its result),
then `Put_`, `InvalidSwap` (again, five attempts) or `PutFails`. A record is the
set of changes made to it; its cid is its content. `OtherWrites` is other
software on the same account.

### Tid

`NextTid` is one call; `ClockSet` moves the wall clock anywhere. `PerMs` and
`ClockIds` scale the code's 1000 and 1024 down; the order of the strings is that
of the numbers, as the digits are padded with the alphabet's zero.

### RichText

A text is a sequence of symbols that know their width in UTF-8 and in UTF-16; a
facet carries, beside its byte indices, the symbols it is *about*, which no code
reads: what its author marked and what was typed inside it. `InsertText` and
`DeleteText` edit at any boundary between symbols, `Construct` takes facets or
old entities and may clean newlines, `StartDetect` replaces the facets and
suspends, `Resolved` is what `detectFacets` does after the await, with whatever
the facets are by then. `Clean` is `clean()`'s loop, one replacement for each match
until there is none: each shortens the text, so as many rounds as it has symbols suffice.
`Offsets` is where each symbol of a text ends in bytes (or in UTF-16 units), and `Held`
how many symbols an offset leaves before it, which is what `slice` cuts by.
`TextAssumption` says that the facets a caller gives end where a symbol ends, unless
they end before they start and are filtered out; the lexicon asks that of a facet.

### Moderation

`Decide` is the dispatch over the `moderate*` functions; each is a function of a
view and of the preferences `Interpret` reads from a stored list, so a decision
goes through everything from the stored objects to what the UI shows. `Decision`
is the class (`add*`, `merge`, `downgrade`, `ui`), `MuteWords` the matching of
one text, `MuteSources` the texts of a post in the order the code visits them.
`matchMuteWords()` splits a text once and keeps, for the words that follow, the pieces
and variants it has already made of it: `Look` is what one muted word looks at, `Reach`
how far the search goes before it hits, and `Cached` what the words before have left.
`Moderate` is the only step: the code keeps no state, and what varies is who is
shown what under which list (`shown`).

### AgeAssurance and Sdk

`ComputeAccess` picks a region and the first rule that holds. `Sdk` composes the
six parts. They share no variable in the code and none here: a behaviour has one
part at work (`part`) while the others rest, which loses no interleaving and
lets one run hold them all.

## 3. What is checked

| Run | Bounds | Shows |
|---|---|---|
| `tracker` | 4 seqs with gaps, batches up to 2, 1 failed or throwing save, 1 restart | the inductive invariant (and with it the safety of the cursor), tightness of the watermark, durability of what `flush()` was called for, progress of the save loop, refinement of `AtLeastOnce` |
| `tracker_sync_throw` | 3 seqs | **finding**: after `store.save` throws synchronously, nothing saves any more |
| `indexer` | 5 events, 2 keys, 2 slots, an event without a handler | slot accounting, per-key order, truth of the outcome, no handler started after a failure, progress |
| `indexer_quiet` | 4 events | **finding**: a handler's failure does not end `run()` while the stream is quiet |
| `runner` | 3 events, 2 keys, one event without a handler, 1 failed save, 1 crash or rerun, one earlier run followed | the cursor stays below everything not handled, keys keep their order over reruns and overlapping runs, a clean run is durable, a run settles |
| `live_tail` | 5 seqs, 1 filtered out, 2 lost connections, 1 malformed frame, starts at 0, a seq, a timestamp | no loss, no repeat, everything arrives |
| `live_tail_tip` | the same, without a cursor | **finding**: events are lost when the first connection is lost before its first event |
| `snapshot` | 5 blocks of 2 seqs, a pruned and an empty block, cursor and ceiling inside blocks, 2 re-plans | no gap, no repeat, termination |
| `cutover` | 3 blocks of 2 seqs, 1 lost connection, 1 malformed frame, 2 replans | no gap and no repeat over both phases, everything arrives |
| `sdk` | 2 clients of one account with up to 3 calls each, 1 failing or late request; 2 upserts, 2 writes by others, 1 lost request; a clock of 4 ticks, 3 TIDs per tick; 5 texts, 2 edits, 2 detections; 111 subjects under 7 stored lists, signed in or out; 3 regions, every person and place | each action does what it promises and no more, no update of a client is lost by itself, calls settle; a swap discards nothing read; TIDs ascend; facets follow the text; decisions obey the settings, muted words mute; an assured age decides |
| `rich_text_utf8` | the same texts | **finding**: text that is not ASCII, inserted, leaves facets on other text |
| `blocks` | 2 segments and 3 blocks, 2 attempts each, 2 generations, 1 block at a time, limits of 2 and 1 units | plan order, no splice of two generations, budgets, teardown of everything launched, the source ends |

**Why these bounds are enough to be interesting.** Out-of-order acks need two
events behind a slow one; coalescing needs two acks during a save. Two slots and
three events of one key give a running, a queued and a waiting event at once.
Two keys let one fail while the other continues, in the run and in the one before it. Two lost connections let a
redial overlap a redial. Two re-plans let a recovered sweep fail again, and
share the budget with a re-backfill. A frame as large as the limit parks a pump
after one frame, and three kinds of hand-over occur (segment to block, block to
block, block to segment), with both budgets binding. Failures, restarts, drops, malformed
frames and re-plans are bounded by constants (`MaxFails`, `MaxRestarts`,
`MaxDrops`, `MaxBad`, `MaxReplans`, the last one the code's own).

In the sdk run, two clients give the races the chain does not cover beside those
it does; the scenarios of `MCPrefs` pair calls that touch the same part of the
list, start from new, old (v1) and partial lists, and one plays every action alone.
Two other writes make an upsert start over twice. Three TIDs in a millisecond of
room for three reach the rollover. Two edits around two detections let a
detection resolve against text and facets that have changed twice. The lists set
a label globally, for one labeler, to each of the three settings, with and
without adult content, and the subjects put each label on each kind of thing.
No bound of the run is a limit of the code, except `MAX_RETRIES`.

**Fairness.** `CommitTracker` assumes that the store answers and that a ready
continuation runs. `LexIndexer` assumes that handlers settle and ready callbacks
run; `FlowingSpec` adds that the stream delivers, ends or throws, and
`indexer_quiet` is the run without that. The sweep assumes that every request is
answered in some way, not that it succeeds. The live tail assumes that it dials
and that an open connection delivers; a stop is never forced. No fairness is
assumed of acks, failures, crashes, server appends or expiry. `BlockSource` assumes that
its generator and pumps run, that requests are answered or fail, and that the
consumer asks for the next frame or leaves. `PrefsWrite` assumes that requests
are answered one way or another and that promise callbacks run (weak fairness of
the union of its cycles' steps, which suffices as each cycle has finitely many);
calls, failures and late puts are never forced.

**Deadlock** is checked for `LexIndexer` and `Runner`, whose `Quiesced` step marks
the one state in which nothing is left to do. The others disable it: a run
ends, a log of bounded length is read to its end, a script of calls is used up.
`CallsSettle` is what takes its place for the preference chains.

**What the execution side's properties leave out on purpose.** An ack that comes
while `flush()` waits for the save loop is saved by it before `flush()` resolves; one
between the loop's end and `flush()`'s continuation starts a save that `flush()` does
not await. So `FlushResolvesDurable` speaks of the watermark at the call: at the time
`flush()` resolves the watermark may be past the store.

`NoStartAfterStop` is about failed handlers. A `keyOf` or a stream that throws, or an
aborted signal, does not set `stopped`: events queued by then still run
(`lex-indexer.ts:519-528`), in the model, too, and no property denies it.

When a run is started again
while handlers of a failed one are at work, the old tracker may save its lower
watermark over a newer one: the cursor moves back, events are then handled again
by a later resume, and two handlers of one key may be at work at once, one of each
run. `CleanRunIsDurable` exempts that case. That no event is skipped holds in it too:
`KeyPrefixHandled` without exception, `CursorBelowUnhandled` for every event in hand
that no run has handled. (An event the old run has handled and acknowledged may be in
hand of the new one, unhandled there, and below the cursor the old tracker saved.)

**What the sdk's properties leave out on purpose.** They are true of the code with
these exemptions, each of which is a way to lose something:

- `NoLostUpdate` speaks of one client. Two clients of one account that read
  before either has put do lose an update; the chain is a map in one process.
  So may a put given up by its client and applied later.
- `getPreferences` decides on its migration from a read outside the chain
  (`preferences.ts:211-280`). Two concurrent calls both migrate, and an
  `addSavedFeeds` acknowledged in between is replaced by the decision made
  before it. The migration's own cycle reads later, so `NoLostUpdate` does not
  count it.
- `ProfileSwapHonoured` covers upserts that read a profile. Two that read none
  (there was none, it was invalid, or the read failed) both put without a swap,
  and the second overwrites the first without an `InvalidSwap`, though the comment
  at `records.ts:197-199` counts on the retry loop for these races too.
- `TidsAscend` stops at `PerMs` TIDs in a millisecond: one more repeats the first
  of the next.
- `FacetsFollowText` holds while what is inserted is ASCII (finding 4).
- `detectFacets` sorts `this.facets` after its await (`rich-text.ts:393`). If a
  second detection has found nothing by then, facets are undefined and the first
  call throws: its entry in `detects` is then `"threw"`; no property forbids it.
- `updateMutedWord` changes every legacy word with the value, `removeMutedWord`
  the first only, and an update gives a legacy word a new id: the promise states
  what the code does.
- The v1 arrays of saved and pinned feeds only grow when v2 is written.
- In a quote with media, the quoted author stands for the author of the media
  when a muted word excludes people the user follows (`post.ts:396-438`).
  `MutedWordsMute` takes the sources as the code lists them.

## 4. What is proved

Every safety property that a passing run checks is also a theorem, except one
action property of the sdk, of which a half is proved (end of this section). A theorem holds for every
value of the constants that the assumptions below allow: any log, any batches, any
number of failures, restarts, connections, clients. `PROJECT.json` lists the
theorems; every one rests on `Invariance` of its module, `Spec => []IInv`, with one
step per action, and is read off `IInv` by a short argument. `IInv` is written beside
the properties at the end of the module it is about, as a conjunction of named parts,
and each held as an invariant of the module's run before it was proved; `tracker`
keeps it as one.

**CommitTracker.** `DurableCursorIsSafe` (the stored cursor covers acknowledged
events only), `CursorIsMonotonic`, `FlushIsDurable`, `WatermarkCatchesUp`,
`TypeCorrect`, and `Refinement`: the tracker implements `AtLeastOnce`.
That the store covers only acknowledged events says nothing of the save in flight,
so it is not inductive. `WindowInv` says where a tracker's numbers are: `tracked` is
the window of the stream after the confirmed prefix (`TrackedIsWindow`), that prefix
and all of `doneSet` are acknowledged (`ConfirmedAreAcked`), the watermark is the last
event of the prefix or absent (`MarkIsConfirmed`), and a save in flight names a
watermark of this run (`SaveIsConfirmed`). A tracker keeps that up whatever else
writes to its store; `StoredIsBehind` and `SaveIsAhead` (`stored <= saving <= mark`)
need it to be the only one, and so does `FlushIsCovered`: a `flush()` that waits does so
for the save loop that runs, whose end finds `saving` stored and equal to a mark no
smaller than the one at the call, and once it resolves the store can only move on.
`FlushIsDurable` is that, read at the continuation. `Done` is the step that needs the shape of the window,
`Restart` the one that needs the stream to ascend. Refinement follows because `stored`
changes only in `SaveApplies`, to a value at or below the watermark. Tightness needs one
more fact, `DoneAreDelivered`: an early ack names an event already pulled, so no later
batch brings a seq that is acknowledged on arrival. `FlushReachesStore` is the other
side of finding 1: with a store that never throws synchronously the save loop is never
stuck, and `flush()` does what its comment says.

**LexIndexer.** `SlotsAreExact`, `KeysAreOrdered`, `OutcomesAreTrue`,
`NothingStartsAfterStop` (once a handler failed, none starts), `TypeCorrect`. A key's order needs to know what its tail is
(`TailIsLast`), what a queued event waits for and that nothing of the key lies between
(`QueuedBehindPrev`), and that settling happens in order (`SettledInOrder`): without the
last, `ForgetTail` could drop a tail while an earlier event of the key is at work.
The count of slots is by cardinality (`SlotsCounted`), with the one slot that a throwing
`keyOf` keeps. `EndIsQuiet` and `FailureIsKnown` make the outcome true. `OrderInv` is
the part that outlives `run()`: handlers and queued events of an ended run go on by it.

**Runner.** `KeysAreHandledInOrder`, `UnhandledAreRedelivered`, `CleanRunsAreDurable`,
and `SharedStoreIsSafe`: two trackers saving to one store in any order never leave a
cursor over an unacknowledged event. The invariant holds two instances of each
component: the current run's and the prior run's tracker keep `WindowInv`, the current
processor `IInv`, the prior one `OrderInv`. What ties them together is `TakenSoFar`
(the processor has taken a prefix of what the tracker pulled), `HandledIsAcked`,
`TrackedIsHandled` (what is confirmed or waits is what *this* run handled) and
`OneWriter`: until a run was cut short, the tracker's full invariant holds.
`CleanRunsAreDurable` needs `EndIsClean`, since `flush()` and the end of `run()` are
steps apart. The instances' theorems are reached by lemmas that restate a component's
step under the substitution and cite its step lemma.

**LiveTail.** `DeliveryAscends`, and `NothingIsLost`: with a cursor, whether a seq or a
time, every owed event below the highest delivered one was delivered or reported as
malformed. (Without a cursor that is false: finding 3.) `NothingMissed` says it up to
where the *connection* has got, which is what a redial from the floor preserves;
`FloorIsHighest` that the floor hides nothing undelivered; `OwedSinceAccepted` that what
is owed is fixed by the first accepted connection.

**ArchiveSweep.** `SweepHasNoGap`, `SweepAscends`. `WindowInv` speaks of what was read
since the last (re-)plan: every wanted event up to `lastEmitted` was yielded, and
on a page it was yielded or is in a block still to be read (`PageIsRead`). A page after
the first starts at the end of a block (`PlanIsDue`), so no block is on two
pages. After a failure in the middle of a page
the window starts again at `lastEmitted`, and `YieldedUpTo(resume)` holds what came
before.

**CutoverReplay.** `ReplayHasNoGap`, `ReplayAscends`, over the sweep, the cutover and any
number of re-backfills. `NothingSkipped` is the global claim, below each yielded seq all
is reported; `SweepIsSound` and `LiveIsSound` say that a phase starts from a seq below
which all is reported, and that in the live phase nothing above the cursor had been
yielded before, so that its floor drops nothing it owes. The phases' own steps are
those of `ArchiveSweep_proofs` and `LiveTail_proofs`.

**BlockSource and SegmentStream.** `FramesInPlanOrder`, `NoSplicedSegment`, `BudgetsHold`,
`NothingIsLeft`, `TypeCorrect`, and `WakeupsAreKept`: the one slot of a latch names
exactly the side that waits there, and pump and drain never wait for each other. The
transfers have an invariant of their own (`TransferInv`): an open body goes on where
the last one broke off, in the generation the etag names. Order follows from
`BufferIsTail` (a buffer holds the last frames read) and `YieldedSoFar` (what was yielded
is the plan's frames up to the head's buffer); teardown from `LaunchedInOrder` and
`HeadIsHeld`.

**Sdk.** `NoUpdateIsLost` and `CyclesTakeTurns`: a client's cycles run one at a time, in
the order of its calls, so the list a cycle has read shows every change of its client
(`ReadIsCurrent`) and there is none it could discard. The chain is what makes it true:
a cycle waits for the one just before it, or found all of them settled when it was
chained (`Chained`), which is why `Cleanup` may forget the tail only when it is its own
cycle. `SwapsAreHonoured`: what an upsert puts is what it read with its own change
(`ProfileInv`). `TidsAreMonotone`: the last TID is the one its parts encode (`TidInv`),
and a later millisecond outweighs every counter with room. `AssuranceDecides`: with an
assured age the rules cannot tell two dates of an account apart.

`OthersAreUntouched`: no put of an action changes a field of the preferences object
that is not the action's own, whichever of the 28 actions, whatever typed objects the
list it read holds and in what order, and whoever calls in between. `Within(s, X)` is what a
sequence holds of a set, and `Frame(b, r, T)` that two lists hold the same but for
objects of the types `T`. Every shape of update has its frame (`AssignFrame`,
`MoveFrame`, `SavedFeedsFrame`, `PutLabelFrame`, ...), frames compose, and `Home` names
the type each field of the object is read from, so that `FieldKept` carries a frame
over to `Interpret`. Label settings are finer than a type: a put for one labeler
keeps those of every other (`PutLabelFrame`). `ListsAreTyped` is the invariant under
it: what a cycle has read is a list of typed objects, what it is to do a known call.

`SettingsAreHonoured`: what a verdict shows is what `Decide` makes of the subject and
the stored list (`ModerationInv`). That a lock does not depend on label
settings compares two runs of `Decide` under options that differ in those only
(`SameRules`): step by step the two decisions stay `Alike`, that is, about the same
subject with the same locks (`LocksOf`), through `merge`, `downgrade` and the dispatch.
That the strictest cause comes first is a fact about the sort of causes by priority
(`PrioritiesWeigh`), and so is taken from positions.

`WordsMute`: `matchMuteWords()` keeps the pieces of a text from one muted word to the
next. `Sound` says of what is kept of a piece that it is nothing or that piece's
variants, so looking at it answers as making it anew would; hence the words reported
are those that mute the text when read alone (`MatchesMean`). The other half follows which causes can come
of muted words (`Worded`, `Wordless`): none of an account's, a label's or a quoted
record's.

`FacetsFollow`: `TextInv` says that the symbols of a text are distinct, that each facet
ends at a boundary between symbols, and that the symbols it is about are exactly its
slice. Bytes and symbols are tied by `EndsAt`; an insertion or deletion shifts the ends
behind it by the bytes it brings or takes, so a facet moved by the code's arithmetic is
about the slice at its new place. `Walks` does the same for `segments()`.

Recursive functions (`Offsets`, `Chosen`, `Clean`, the walk of `segments()`) need an
induction, though not the library's: `Climb` shows that a *set* with 0 and the successor
of each of its numbers has them all, by the least one it lacks, and `IteratesExist` that
a function given by recursion over positions exists and stays in a set closed under its
step. Neither takes an operator as a parameter.

**Assumptions.** Only those the modules name. Seqs are positive and ascending
(`StreamAssumption`: "Dispatch is in ascending seq order"); batches, concurrency and
byte limits are at least 1; wanted events are among the selected ones and seqs lie below
the threshold from which a cursor is a timestamp; the frames of a download end in
ascending places and a block has one (`PlanAssumption`); a call names finitely many
words, names a known action and does not set the type of an object; stored lists start
as lists of typed objects (`ScenariosAssumption`); views and the muted words of a stored
list have the fields the lexicons require, and a labeler publishes a list of definitions
(`ViewsAssumption`, `StoredAssumption`, `LabelDefsAssumption`); the facets a caller gives end where a symbol does, or are filtered out
(`TextAssumption`); there is at least one TID in a millisecond and one clock id, and `None` is no
number. The bounds (`MaxFails`, `MaxDrops`, ...) may be any numbers.

**Only model-checked.**

- All liveness (`WatermarkIsSaved`, `SlotIsGranted`, `HandlerErrorRejectsRun`,
  `RunnerSettles`, `EverythingArrives`, `SweepSettles`, `SourceSettles`, `CallsSettle`):
  fairness and ENABLED are outside the prover's reach.
- What `OpsActAsDocumented` says of an action's own part of the preferences. Both sides
  of it build that part by `SelectSeq` and folds over the stored lists of feeds, words and
  labels; that the two agree for every list is one induction over data for each of the
  28 actions. That the other parts stay as they are is proved (`OthersAreUntouched`).

## 5. Findings

1. `commit-tracker.ts:58,70` — a store whose `save` throws synchronously wedges
   the tracker (run `tracker_sync_throw`).
2. `lex-indexer.ts:551` — "fails fast: first handler error rejects run" holds
   only when another event, or the end of the stream, arrives (run
   `indexer_quiet`; `indexer` shows that it does hold then).
3. `live/source.ts:108` — "no events are lost ... across reconnects" does not
   hold before the first event of a subscription without a cursor (run
   `live_tail_tip`).
4. `rich-text.ts:271` — `insert()` moves byte indices by a length in UTF-16
   units, against "richtext facets need to use utf8 indices"
   (`unicode.ts:5-6`; run `rich_text_utf8`).

## 6. Not modelled

- `create*` and `delete*` of records, the graph and the notification actions: one
  or two requests in sequence, with nothing kept between them.
- Which service a request is proxied to (the `service` option), headers, auth.
- Detection by regular expressions beyond a mention that follows a space (links,
  tags, cashtags, trimming of punctuation), and counts of graphemes: what is found
  is data; what edits do to the facets found is modelled.
- Case folding and the tables of punctuation in muted words: texts have no case
  and two punctuation symbols.
- The live frame decoders and the columnar block decoder: bytes to events, without
  state; their outcomes are choices in `LiveTail` and `ArchiveSweep`.
- The v1 wire and facade, the filters derived from registered handlers, the random-access segment reader.
- `streamSegmentFrames` never cancels its source iterator; `SegmentStream` does not
  read past the last frame either, and no property speaks of it.
- Lexicons, generated code, scripts and CI.

Hazards without a property (`PROJECT.json` has the full list): a rejection with
`undefined` (`lex-indexer.ts:466`), which the code acknowledges as a success; a
`lastCursor` of a batch emptied by the filters (`cutover.ts:134`).

## 7. Plan

In order of importance, with what each is to show:

1. *End-to-end resume*: `ArchiveSweep` and `CommitTracker` in one module, with the
   next sweep starting from the stored cursor, and pruned batches' `lastCursor`
   (`cutover.ts:134`) compared with the watermark.
2. *Filters*: wire filters derived from the registered handlers cover what the
   handlers need, and the selector agrees with the wire.

Theorems to prove next: that the resume of item 1 skips nothing, on top of
`ArchiveSweep_proofs` and `CommitTracker_proofs`; and that each action of `Preferences`
changes its own part as `PrefsPromise` says, one action at a time, with `Climb` in
the place of induction.
