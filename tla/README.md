# A TLA+ model of lore-rs

lore-rs is a set of Rust bindings to Lore, a version control system that ships
as a dynamic library with a C interface. This directory models the part of
lore-rs that decides something: how a call's events, its return status, a panic
and concurrent callers are turned into the one `Result` a caller gets. Lore
itself is not in the repository. It is modelled as the environment, from what
the code, its comments and its tests say of it, and the definitions that do so
are marked external in `PROJECT.json`.

All paths below are relative to `src/lore-rs/src/` unless they say otherwise.

## The system

| Component | Source | State it keeps | Operations |
|---|---|---|---|
| Call plumbing | `call.rs` | per call, on the caller's stack: the callback, `FailureContext`, the caught panic | `call_with_callback`, `dispatch`; one thin wrapper per Lore command |
| Outcomes | `error.rs` | none | `ErrorCode::from_raw`, `LoreError::resolve` |
| Store, buffered reads | `store.rs` | per item of a call: a `Reassembly` | `get`, `get_range`, `get_resolved` and their `_many` batches |
| Store, streaming read | `store.rs` | per call: position, the first failure | `read_to` |
| Store, completions | `store.rs` | per item of a call: its completion | `put`, `put_many`, `put_resolved`, `resolve`, `resolve_many`, `metadata`, `exists` |
| Store, mutable keys | `store.rs`, `globals.rs` | in Lore: one mutable store per place, a hash per key | `resolve`, `compare_and_swap_resolved`, `put_resolved`, the flags a `Backend` sets |
| Store, lifecycle | `store.rs`, `revision_tree.rs` | a handle of Lore's per value; in Lore: what is pending | `open`, `load_revision_tree`, `flush`, drop; `Lore::shutdown` |
| Library | `library.rs` | `LORE`, a process-wide `OnceLock` | `load`, `shutdown`, `set_thread_limit`, `configure_log` |
| Revision trees | `revision_tree.rs` | a handle of Lore's, and which tree it is of | `load`, `resolve_path`, `node`, `node_at`, `children`, `path_of`, `info`, drop |
| Repository verbs | `repository.rs`, `auth.rs` | none between calls | `status`, `stage`, `unstage`, `commit`, `push`, `switch`, `sync`, clone, info, branch, revision, instances, login |
| Events and types | `event.rs`, `types.rs`, `string.rs` | none | decoding of C structs |
| Bindings, generator | `src/lore-sys`, `src/generator` | none | generated code |
| Download | `src/lore-bin/src/lib.rs` | files in `OUT_DIR` | `fetch_binary` |

How they meet: every verb calls `call_with_callback` once (a read of an empty
range not at all). Lore runs the verb's callback on a thread of its own, one
event at a time, while the caller blocks. Events of a batch carry the position
of their item as an id and come interleaved. The callback records, the call
returns a status, and the verb folds both into its answer. Nothing else is
shared between threads except `LORE` and what lies inside Lore.

What is hard there, and which property speaks of it, is the `hazards` list of
`PROJECT.json`. In short: two levels of failure that say the same thing twice
(items and call); bytes that arrive in pieces whose sizes, order and number are
someone else's; u64 arithmetic at its limits; a panic under a C frame; a
library loaded by two threads at once; a swap that fails and happens anyway;
numbers that mean something in one tree only; writes that are on disk only after
a flush nobody waits for.

What makes each component correct:

* *Buffered reads*: an item that succeeds is exactly the slice it asked for;
  one item's failure is its own; no failure is lost.
* *Streaming read*: the sink holds a run from the content's start at any time,
  all of the content and no more after an Ok, and a sink's refusal is the
  read's error.
* *Completions*: an item gets what Lore reported of that item, and `None` is
  said only where Lore said so.
* *Mutable keys*: read-modify-write by several clients loses no update, among
  publications and retractions by others; what a key names is there.
* *Lifecycle*: a handle is closed by its owner's drop and not used after it; what
  a flush vouched for, and what was dropped before a shutdown, is on disk.
* *Download*: a path that is returned is the release's library.
* *Library*: one library for everyone, and it stays mapped.
* *Call*: a panic reaches the caller, a failure names its cause, a call returns.
* *Revision trees*: no node id of another tree is handed out.
* *Verbs*: a success holds all that decoded of the call, in order, and nothing is
  made up.

## The modules

```
LoreOutcome                 codes, call results, LoreError, resolve
 |- Reassembly              span and the reassembly of one item, as operators
 |   `- BatchRead           a batch read, from the call to the answer
 |       |- MCBatchRead     instances
 |       |- BatchRead_proofs
 |       `- (implements) ReadContract    what a read promises, without buffers
 |- StreamRead              read_to; StreamRead_proofs
 |- BatchItems              the verbs that hear of an item by one completion;
 |                          BatchItems_proofs
 |- MutableKey              clients sharing a key; MCMutableKey, MutableKey_proofs
 |- RepositoryVerbs         the folds of the repository verbs; RepositoryVerbs_proofs
 `- RevisionTree            one tree, its lookups and node ids; MCRevisionTree,
                            RevisionTree_proofs
LoreCall                    call_with_callback itself; LoreCall_proofs
 `- (implements) CallContract           what a verb can rely on of a call
LibraryLoad                 load and its race; MCLibraryLoad
 |- (with) Fetch            the build script's download
 `- Process                 a program from its build to its end; MCProcess,
                            Process_proofs (of load too)
```

**LoreOutcome** has the values everything else is decided by. `Resolve` is
`LoreError::resolve`: an item's failing code wins over the call's failure, and
without a code the call's result stands. Messages are left out here; LoreCall
has where they come from.

**Reassembly** is the struct of that name and `span`. `RecordHeader`,
`RecordData` and `RecordComplete` are the arms of `Reassembly::record`, `Fits`
the bounds check of a fragment, `Finish` is `finish`. Integers saturate at
`MaxU64` where the code saturates. A byte is the pair of the content's address
and the position in it, or `Zero` while unwritten, so a byte in the wrong place
is a different value and a hole can be seen. `SpanSelects` is what two bounds
mean, stated without `span`'s sums, for `span` to be held against.

**BatchRead** is a batch: `Build` makes the reassemblies and the call,
`LoreHeader`, `LoreData` and `LoreComplete` are events routed to their items,
`LoreReturn` the return, `Fold` the answer (`GetOutcomes` or `GetOne`). Lore
keeps its contract up to `Faults`: ids from outside the batch ("stray"),
fragments beyond the range ("overrun"), parts of a range repeated ("repeat"). A
read of one item (`get`, `get_range`) is a batch whose other positions ask for
nothing (`IsAlone`), so that one run goes through both.

**ReadContract** is what the docs of the reads promise, with no buffer and no
fragment: Lore has a verdict per item, the call returns, the answer follows.
BatchRead is checked to implement it (`ReadsAsPromised`), with the verdicts as
the mapped codes that reached the callback.

**StreamRead** is `read_to`: `Take` is the data arm (offset checked against what
has been written, after a failure nothing more is), `Write` the sink, which may
take a part of a fragment and refuse the rest, `Conclude` the order in which the
failures are looked at. The data arm knows no size, so bytes past the content's
end are written if Lore sends them in order: `SinkHoldsABeginning` allows them
only when Lore has (`sent.reach`), and `OkWroteItAll` is that no such read
succeeds.

**BatchItems** has the callbacks that file one completion per id (`File`), and
`PutOutcomes`, `ResolveOutcomes`, `ResolveOne`, `MetadataOne` and
`PutResolvedOne`, the folds. An address is a hash and the context of the item
that asked, so an answer filed under a wrong position shows.

**MutableKey** puts several clients around one key. Those that update it resolve
it, put the new content, swap, and start again from what a conflict names; those
that retract it swap it to `None`; those that publish it call `put_resolved`,
which takes the key whatever it names. `PutContent` is `put` under
`PutOptions::remote_write`, as the doc of the swap asks; Lore may write it to
the local store and fail to write it to the server (`MaxLost` times), which the
put does not report. `RawGlobals` is what a `Backend` does to the flags of a call,
and decides which mutable store the call reaches. A publication goes to both
stores, one after its content is stored (`StoreContent`), and may reach one of
them only, which `PublishOutcome` tells. A failing call may have written, may not
have, or may have its write still under way (`ApplyLate`). `erased` is a history
variable: whose updates a publication or a retraction, by design, took away.

**LoreCall** is the FFI call: `Emit*` are Lore's events, `Dispatch` the
trampoline with its `catch_unwind`, `Record` and `IntoMessages` are
`FailureContext`, `Conclude` what the caller makes of panic, status and
messages. Any event may fail to decode and any invocation may panic.

**CallContract** is a call as a verb sees it, with no context and no thread: the
callback is run for one event after the other (`Deliver`) until it panics or the
call ends, and `Return` follows from what it has seen. LoreCall implements it
(`CallsAsPromised`, with `SeenEvents` and `WithoutMessages` as the mapping). It is
what lets the other modules make one step of an event and its callback, and one
of the call's return: their `Lore*` actions run the callback while the call has
not returned, and their verbs look at what it left only afterwards. They leave
panics out, after which no verb goes on.

**LibraryLoad** has one action per step of `load` that another thread can come
between: `Get`, `Open` (dlopen), `Bind` (the function table), `GetOrInit`,
`DropLoser`. The system loader counts how often an image is open and unmaps it
at zero; two paths may lead to one image.

**RepositoryVerbs** gives each verb as the kinds of event it lists, keeps the
last of, cannot do without, and checks the identifier of (`Status`, `Stage`, ...
`Login`). `Keep` is the callback and `Conclude` the end of a verb. A commit's
events come in Lore's order (`CommitOrder`, from the comment in `commit`).
`Reports` is the type of what a verb can answer with, by its fold.

**RevisionTree** is one tree from `load` to drop. A node id is a number and the
same numbers occur in every tree; the module keeps, beside the id the caller
has, which tree Lore meant it in, and Lore looks an id up in the tree of the
handle, as it has nothing else to go by. `node_at` is two calls (`AskNodeAt`,
`NodeAtGoesOn`), the second of which says nothing of a tree.

**Fetch** is `fetch_binary_from`: attempts with a fresh process each (`Curl`), the
extraction (`Extract`), and a script that is killed and run again in the same
directory, which may hold a part of an archive, an older release's library of
the same name, or a torn one.

**Process** composes Fetch and LibraryLoad with the values a program makes. A
Store or a RevisionTree goes from "opening" to "live" when its call succeeded
and reported a handle (`Made`), from "live" to "dropping" and "gone" by `Drop`
and `CloseReturn`. Handles on one location share what is pending, so `FlushBegin`
takes all of it and a close spawns a flush of all of it (`SpawnedEnds`), which
nobody hears of. `Shutdown` has its contract as its guard (`AllGone`), waits for
spawned flushes or does not (`ShutdownReturn`, ten seconds), and the process may
exit at any point. `told` and `unheard` are history variables: what a flush
answered Ok about, and whether a failure happened that the code has no caller to
tell of. A call of Process ends with "Ok" or a failure, its inside being LoreCall's.

The MC modules only give constants their values. No definition of a module is
replaced by a configuration.

## The runs

`tlc -config <cfg> <module>`; all of them together take about three minutes.

| Run | Module, configuration | What it asks |
|---|---|---|
| batch | MCBatchRead, BatchRead.cfg | one item with every range a u64 of five values can name, as span puts it on the wire, and two interleaved; fragments in any order, ids lost, overruns: spans, slices, bytes, isolation of failures, unreported items, lost failures, refinement |
| batch_repeat | MCBatchRead, BatchReadRepeat.cfg | **violated**: a repeated part makes up for a skipped one |
| stream_read | StreamRead, StreamRead.cfg | fragments out of order, repeated, overrunning, and a sink that refuses |
| items | BatchItems, BatchItems.cfg | six verbs, batches of three, completions in any order or lost |
| lore_call | LoreCall, LoreCall.cfg | two calls of up to three events, panics and undecodable events anywhere; refinement |
| process | MCProcess, Process.cfg | three download attempts, three threads racing to load by four paths, two stores, a tree, two writes, flushes, drops, shutdown, exit |
| library_other | MCLibraryLoad, LibraryLoadOther.cfg | **violated**: the loser's library is unloaded |
| repository_verbs | RepositoryVerbs, RepositoryVerbs.cfg | thirteen verbs, streams of up to six events |
| repository_verbs_garbled | RepositoryVerbs, RepositoryVerbsGarbled.cfg | **violated**: a success lacks an event that did not decode |
| revision_tree | MCRevisionTree, RevisionTree.cfg | every walk through a tree with links to two others |
| mutable_key | MCMutableKey, MutableKeyRemote.cfg | five clients: two update, one publishes, one retracts, one is offline; one failing call; updates, the content behind the key, everyone's end |
| mutable_key_lost | MCMutableKey, MutableKeyLost.cfg | **violated**: the key names content the server does not hold |

**Bounds.** `MaxU64` is 4: enough for a content of three bytes with ranges
inside it, past its end, beyond it, and at the largest integer, where the
saturation happens. `MaxFragments` is 3 for an item alone or the first of a pair (a range in two
parts with one to spare, or a part, its repeat and another), 1 for the second of
a pair, whose range is one byte or has room for one, and 4 for a stream of three
bytes. Batches are of two or three items, the first number at which a
completion can be filed under a neighbour's position and a third go unreported.
`MaxEvents` is 3 in LoreCall, so that an error, a panic and an event after it
fit in any order, with `MaxCalls` 2 for a context left over from an earlier
call; it is 6 in RepositoryVerbs, the length of a commit with a link and a tally
in each of two groups, and 3 in the run that is about an event that does not
decode. MutableKey has two clients that compete by
swaps, so that one loses to the other, and one each that publishes and retracts,
so that every kind of write comes between a read and a swap; `MaxFailures` 1 is
one call that fails with its write still under way; `MaxLost` is 0 there, and 1
in the run that is about a remote write that fails. `ATTEMPTS` is 3 instead of
the code's 5: a first attempt, one with others on both sides, and a last. Two
stores and two writes are one flush under way while another store writes,
flushes and is dropped; one tree is loaded from a store that another thread
would drop. Three threads are the winner and two losers of the load's race.
Threads, stores and writes are symmetric (`SYMMETRY`, in a run of invariants
only).

Deadlock is checked only for the run of the loader alone (library_other), whose
threads may always load again; in the others a call, a walk, a client's loop or
the process is over at some point.

**Fairness.** Only two runs check liveness. In LoreCall, Lore goes on with a
call it has begun (completes it, ends it, returns) and the callback and the
caller go on (`WF` on each): that is what "the synchronous entry points do not
return before the final `End` event has been delivered" (`call.rs:98`) rests on,
and no fairness is asked of further events or of panics. In MutableKey one
weak fairness condition covers all clients and Lore's answers to them: as long as
one of them can go on, one does. A swap is lost only to a write that took, so
that is enough for all to get in; a failed call's late write is never asked to
happen, and calls fail finitely often.

**Mutants.** Each property has a variant of a definition (in the modules,
commented "Variant") that is a plausible slip in the code and violates it.

## What the violated runs show

* `batch_repeat`: `finish` (`store.rs:1386`) accepts a buffer when the sum of
  the fragments' lengths and the furthest end both equal its size. A part
  delivered twice counts twice. With two bytes of a four-byte range skipped and
  two repeated, both checks pass and the hole is returned as zeroes, which the
  comment at `store.rs:1275` and the doc at `error.rs:98` exclude. It takes a
  Lore that repeats a part; theorem `SuccessIsTheSlice` is that nothing else
  can do it.
* `library_other`: two first callers with different libraries; the loser's is
  loaded, its initializers run, and then unloaded when the unused closure of
  `get_or_init` is dropped (`library.rs:196`). `library.rs:177` says the library
  is never unloaded and `library.rs:195` that either library is the same one.
  Theorem `SameLibraryIsNeverUnloaded` is the case in which that is so.
* `repository_verbs_garbled`: two events of a push, the first of which has a name
  that is not UTF-8. The callback passes over it (`repository.rs:1286`, as do
  status's at 1090 and stage's at 1135), the second satisfies the verb, and the
  push succeeds with one entry. `repository.rs:906` says "One per repository
  pushed", `repository.rs:742` "Every path with pending changes or conflicts, or
  untracked", `repository.rs:1101` "reports each file whose staged state changed".
  `call.rs:63` leaves such an event to the callback, and none of them reports it.
  What a success has of the events that did decode is `HoldsWhatDecoded`, which
  holds (`DecodedIsHeld`).
* `mutable_key_lost`: one client, no failure of a call and no other client. Its
  put's remote write fails; Lore reports code NONE with `stored_remote` false
  (`event.rs:457`), `put_many` drops the flag with `..` (`store.rs:434`), `put`
  answers Ok, and the swap publishes a hash the server has nothing behind,
  although the content was stored first and under `remote_write`, as
  `store.rs:741` asks. `put_resolved` hands the flag out (`store.rs:161`). With
  every remote write landing (`MaxLost = 0`, run mutable_key) the order the doc
  asks for does keep the promise, late swaps included.

## What is proved

The proofs are in `*_proofs.tla`, checked by TLAPS, for all values of the
constants that satisfy the modules' assumptions.

**BatchRead_proofs.** `SpansSelect` comes first, a fact of `span` alone: for any
`MaxU64`, bounds and content the wire's offset and length select the caller's
range, saturation included. Of the batch, the inductive invariant `IInv` (in BatchRead) adds to the
type invariant, `NoForeignByte` and `WrittenIsCounted` three facts they are not
inductive without: every reassembly is the one its request was given
(`ItemIsTheRequests`: its start and length, and its size once a header came);
what was written lies in what Lore has sent unless a part was repeated
(`WrittenWasSent`), so that a first fragment adds to `covered` as many positions as
it writes, and a repeated one at least as many; and the answer, once
there is one, is the fold of what was recorded (`AnswerIsTheFold`). The
preservation has a lemma per action, and per action one for the record it
leaves: a header allocates the slice's size, a fragment that fits is copied, one
that does not is only marked. From the invariant:

* `TypeCorrect`, `BytesAreTheItemsOwn`;
* `CoveredCountsWritten`: `covered` is never less than the number of positions
  written, whatever Lore delivers, and is that number when nothing is repeated;
* `SuccessIsTheSlice`: with no part repeated (`"repeat" \notin Faults`), an item
  that is Ok is its slice. `covered` equals the size, `covered` is the number of
  bytes written, and as many bytes as the buffer has places fill it;
* `UnreportedIsNeverAnswered` and `FailedCallIsReported`, from the fold;
* `OneFailureIsOneItems`: a batch of which every item was reported, some failed,
  gives each item its own answer. It takes the invariant `CleanItems` beside
  `IInv`: of an item whose events all arrived and kept to the contract, the
  positions written are those sent, `covered` is their number, `end` is one past
  the last, and the completion recorded is Lore's; such an item, sent to its end,
  passes `finish`;
* `RangesAreSelected`: the spans of a batch's requests select what their bounds
  do, from `SpansSelect`;
* `ImplementsContract`: with no part repeated, BatchRead implements ReadContract
  (`ReadsAsPromised`). Initial states map to initial states; per action of
  BatchRead the step maps to a report, the return or the answer of the contract,
  or to a stutter. It takes `CallGoesOnce` beside `IInv` (the call returns once,
  after the completions it is a summary of) and, where the answer is given,
  `SuccessIsTheSlice`'s argument.

**StreamRead_proofs.** `written` is the length of the sink as long as the sink has
refused nothing; a fragment is written only where it begins there. Hence
`SinkIsABeginning`, `SuccessWroteItAll` and `RefusalIsReported`, for any content,
fragments and faults. The sink is no longer than Lore has sent (`sent.reach`, part
of the invariant), so within the content whenever Lore stays there; and a refusal
is answered with the sink's error, or Lore's own if the call or the item failed
too, never with a complaint about the stream.

**BatchItems_proofs.** A slot of `completions` holds nothing or what Lore reported
of that very item (`SlotsAreTheItemsOwn`), and the answer is the fold of slots
that nothing files into once the call has returned (`AnswerIsTheFold`). The rest
is each verb's reading of its slots, by cases of the verb and of the call's
result: `SuccessesAreTheItemsOwn`, `MissesAreReported`, `MissesDoNotFail`,
`UnaccountedFailuresAreReported`. That an answered None is a miss and no value
takes that `None` is not itself a resolved address (ItemsAssumption), as an
`Option`'s None is not a Some.

**LoreCall_proofs.** What the callback was run for is what `dispatch` is through
with, until a panic (`HandedSoFar`); what the context holds is what told of a
failure among those events (`RecordedSoFar`); and Lore returns only when
`dispatch` is through with all of them (`EndIsReached`). From these
`PanicsReachTheCaller` and `FailuresNameTheirCause`, for any number of calls and
events. `EventsAreHanded` and
`ImplementsContract` (`CallsAsPromised`) take two facts more: a stream has one
completion, End comes last and after it, and the status returned is the
completion's (`StreamTellsTheStatus`); and the callback has been run up to the
panic, or else for all that is handled (`RunUpToThePanic`). A `Dispatch` is then a
`Deliver`, or after a panic nothing a verb can tell, `Emit*` and Lore's return are
stutters, and `Return` is the contract's. `PanicReachesTheCaller` is a part of it
and has no run of its own.

**RevisionTree_proofs.** What Lore answers is the request's subject, captured
children are those sent, and the check of the tree lets through only what lies
in this one: `IdsStayInTheirTree`, `ListingsAreWhole`. TreeAssumption has what the
code relies on, that a revision has no link to itself.

**MutableKey_proofs.** The argument is about writes. A swap puts back what it
takes, or retracts; a publication or retraction accounts for what it erases
(`CarryAccounts`); and every write of the server's key is of content the server
holds (`ContentFirst`), those still under way after their call failed included.
`NoUpdateIsLost` assumes `UpdatesAreShared`, that clients that update do so on
the server: a swap in a client's own store is not seen by the others, as
`Backend`'s doc says. `KeysNameContent` is for `lost = 0`, no put having lost its
remote write; the run mutable_key_lost shows what happens otherwise.

**RepositoryVerbs_proofs.** By induction over the events of a call: every list
holds the positions of the decoded events of its kind, in order
(`ListedSoFar`, by `AppendLists`); what is kept of another kind is the last of
it (`KeptSoFar`); and a commit holds a tally exactly while the tally is the last
event, its group the latest counted, and each revision listed has taken the tally
of its own group (`TallyIsTheGroups`, by `GroupsGrow`: a tally begins a group and
nothing else does). `CountIsItsRepositorys` is not inductive without the first
two parts of the last: without them a revision could take a tally left over from
another group. The answer is `Conclude` of that state (`AnswerIsConcluded`), hence
`DecodedIsHeld`, `CountsAreTheirRepositorys` and `AnswersAreNotMadeUp`, for
streams of any length. The last takes `OthersDecode`, that `revision`'s event has
no text to garble, so that the one kept is the last Lore sent.

**Process_proofs.** First load, for any threads, paths and images. LibraryLoad's
`IInv` says the loader's count of an image is the number of threads that hold a
Lore from it plus the parked one. A parked Lore is never dropped, so its image's
count never reaches zero: `LoadsHandOutOneLibrary`, `OpensMatchLores`,
`CalledIntoIsMapped`. `SameLibraryIsNeverUnloaded` adds that all paths lead to one
complete image, which is load's contract, and then no step brings a count back to
zero. A program's behaviours are LibraryLoad's in the library's
variables (`ProgramsOnlyLoad`), so its theorems carry over. For the rest the
invariant says who owns what: a close is in progress exactly while a drop waits
for it, a flush borrows a live store, and what is not on disk has somebody who
will flush it, a store that is alive or being dropped or a spawned task
(`PendingIsOwned`). From it `FlushesAreDurable`, `CleanEndsAreDurable`,
`HandlesHaveOwners`, `EndsAreQuiet`; from Fetch's own, `FetchesTheRelease`.

**Only model-checked:** liveness (`EveryCallReturns`, `EveryoneGetsIn`), which
the prover cannot do: fairness and ENABLED are out of its reach. Every invariant
and every other action or refinement property of the passing runs is a theorem.

## What is not modelled

* The bindings (`src/lore-sys/src/bindings.rs`, 32 569 of the repository's 41 508
  lines) and their generator. The file is what bindgen makes of Lore's header,
  declarations without behaviour; only `Lore::from_library`, which looks the
  functions up when a library is loaded, does something, and is `Bind`. Of the
  other lines the model covers about a quarter, more than a third of those that
  are neither comments nor tests, and most of what is not the next point's
  conversions.
* The argument structs of `call.rs`, `event.rs`' decoding field by field and
  `types.rs`: conversions without state or choice, a field to a field. That a
  string may fail to decode is in LoreCall, RepositoryVerbs and RevisionTree,
  the flags of a backend in MutableKey, an item's wire range in Reassembly.
* `set_thread_limit`, `configure_log`, `version`, `lore_file_info`: single calls
  whose effects are Lore's.
* What the fields of the verbs' events, of `Node` and of `TreeInfo` say: copied.
* What becomes of a name that does not decode in a directory's listing: `children`
  passes over the entry (`revision_tree.rs:295`), as the verbs of the run
  repository_verbs_garbled do, and `ListingIsWhole` is about the other names.
* Content that is obliterated behind a key, and what Lore does with a tree's
  reference to its store: Lore's own, nothing in the repository depends on how.
* The delays between download attempts, and the names and URLs.

## What could come next

An abstract once-cell for `load` to implement, as CallContract is for a call; one
action per command for `call.rs`' wrappers would add lines and no behaviour.
A Lore of which more was known (whether a failed load may have reported its
handle, whether `shutdown` flushes for handles nobody closed) would make Process'
environment smaller, and `HandlesAreOwned` and `CleanEndIsDurable` stronger.
