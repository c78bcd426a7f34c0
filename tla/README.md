# TLA+ verification of homegrowph_harness

The repository is a C++ harness that runs a conversation with a model provider:
it streams a turn, executes the tools the model asks for in a sandbox, and sends
the results back, until the answer is complete.  This directory holds TLA+
specifications of its concurrent and protocol-heavy parts, the TLC
configurations that check them on small instances, and TLAPS proofs.  Paths
below are relative to `src/package/` of the repository unless they start with
`docs/`.

Run a check with `tlc -config <X>.cfg <Module>` and a proof with
`tlapm <Module>Proofs.tla`; `PROJECT.json` lists which configuration belongs to
which module, and which source lines each definition translates.

## 1. The system

| Part | State it keeps | Operations | Talks to | Hard behaviour |
|---|---|---|---|---|
| `event_port` | list of registrations; per registration a mutex, two condition variables, `closed`, one pending event; a sequence counter | Register, Read, Emit, Close, destruction of a Registration | any thread of the process | back-pressure, late notifications, close against blocked calls |
| `sessions` (Session) | state, generation, stage tokens, history, current messages, pending turn, tool index, results, failure, credential owner, watchdog | `register_session`, `declare_*`/`run_*` for request, response, tool, `close_session`, destructor, `loop` | run_turn, tool_runtime, secrets | stale stage objects, exceptions between two assignments, cleanup that fails, a deadline that aborts the process |
| `sessions` (run_turn) | two response builders, four pending errors, the summary's open/closed flag | one call | event_port, provider, the caller's callbacks | two threads, callbacks that throw, a join that may block |
| `provider` | none between calls | `compaction`, `request`, SSE transport, usage parsing | HTTP | which callback fires in which order, where a request fails |
| `tool_runtime` | files read so far, per workspace | `execute_tool` | sandbox | overlapping calls on one workspace, partial merge of a worker's answer |
| `sandbox/registry` | a state file and its lock; on Windows also an entry in the access list of every file under a registered path | refresh, reuse, release, release_all | file system, other processes | crash between write and rename, one path of several failing, access lists changed before the state file is saved |
| `sandbox/process` | child process, pipes, reader and writer threads, a global stop flag | `run` | kernel | deadline against exit against signal, pipes that outlive the child |
| `sandbox/executable` | none | wire format of a sandbox request | sandbox/process | none |
| `tools/filesystems` | per batch: commit phase and flags shared by the editor and a watcher thread; a temporary file per edit | `edit_file`, `watcher`, directory tools | kernel notifications | commit against foreign change against timeout |
| `tools/src` (TypeScript) | process runner, per-call state | grep, glob, read, write, shell | child processes | process trees and time limits |
| `events` | an SQLite table of rows with contiguous positions | `create`, append, insert_after, erase, query | SQLite | several stores on one file, multi-statement updates |
| `secrets` | nothing in memory; the keyring of the platform | get, set, erase, `resolve_secure_session` | keyutils / Windows credential store | a key replaced or removed between the calls that find, measure and read it |
| `context_usage` | none | token estimate | - | pure |
| `sessions/convert_history` | none | recorded events to a history, for one session or all | events | must agree with the response builder on streams that break off or interleave |
| `chat_thread` | user-interface state | Electron/React views | events, sessions | rendering |

What makes each correct:

* **event_port** - no thread sleeps through the change it waits for; an event
  stored is read once and in order, or dropped only with its registration; Emit
  gives an event to every open matching registration; Close ends every wait.
* **Session** - only the newest declaration runs, once; the stages follow the
  documented cycle; each tool call gets one result, in order, and what is sent
  next is a conversation a provider accepts; a key left behind was reported.
* **run_turn** - the request thread is joined and the join does not block; no
  failure of the provider is hidden by an observer that throws; what the caller
  is shown is in order.
* **events** - positions are contiguous after every operation, failed or not.
* **sandbox/registry** - every call takes effect at one moment or not at all; what
  is granted is on the disk; every entry in an access list can be released.
* **sandbox/process** - the call ends in bounded time, says why, and leaves
  nothing of its child running.
* **filesystems edit** - a file is replaced only if nobody else changed it
  before the commit, a timeout and a commit exclude each other, and what is
  reported is what happened to the file.
* **tool_runtime** - a workspace remembers exactly the files its workers had in
  their hands, so that the write tool overwrites nothing else; an answer says what
  was done.
* **secrets** - an answer was true at some moment of the call.
* **convert_history** - the history is the one the session had.

The hazards, each with its source line, are listed in `PROJECT.json`.

## 2. The modules

| Module | What it is |
|---|---|
| `PortChannel` | abstract: one-place channels that can be closed |
| `EventPort` | `event_port` with its mutexes, condition variables and late notifications |
| `MCEventPort` | instance: two registrations, one with a filter |
| `EventPortProofs` | TLAPS proofs about `EventPort` |
| `SessionLifecycle` | abstract: the life cycle a client of a session is promised |
| `Session` | `sessions/src/session`, `tool`, `loop`: the stage API, its failures and its ends |
| `MCSession` | instance: assistants that ask for nothing, one call, or several broken ones |
| `SessionProofs` | TLAPS proofs about `Session` |
| `RunTurn` | `sessions/src/request/turn.cpp` over a `PortChannel`, with the provider's two requests |
| `RunTurnProofs` | TLAPS proofs about `RunTurn` |
| `EditFile` | `edit_file` on Linux: the calling thread, its watcher thread and the atomics between them |
| `MCEditFile` | instance: a batch that comes back to its first file |
| `EditFileProofs` | TLAPS proofs about `EditFile` |
| `EventLog` | abstract: a list of events numbered from zero, whose calls take effect at one instant |
| `EventStore` | `events`: stores on one SQLite database, statement by statement |
| `MCEventStore` | instance: two threads on one store, a third on another |
| `EventStoreProofs` | TLAPS proofs about `EventStore` |
| `CapabilityMap` | abstract: a durable set of capabilities on which each call takes effect at one moment or not at all |
| `SandboxRegistry` | `sandbox/registry` on Linux: callers in several processes, the state file, its lock, its temporary file, crashes |
| `AclRegistry` | `sandbox/registry` on Windows: the entries in the access lists of a tree and the rows that say which to revoke |
| `SandboxProcess` | `sandbox/process`: one launch with its child, descendants, threads, deadline and stop signal |
| `MCSandbox` | instance: the three modules above side by side |
| `SandboxProofs` | TLAPS proofs about `SandboxRegistry`, `AclRegistry` and `SandboxProcess` |
| `ToolRuntime` | `tool_runtime`: overlapping tool calls, their workers and the memory of the files read |
| `Secrets` | `secrets`: one credential used by several processes |
| `ConvertHistory` | `sessions/src/convert_history` beside the response builder, on the same events |
| `ChunkMatcher` | the streaming search of `edit_file` |
| `StreamProofs` | TLAPS proofs about `ConvertHistory` and `ChunkMatcher` |
| `MCTools` | instance: the four modules above side by side |
| `ToolsProofs` | TLAPS proofs about `ToolRuntime` and `Secrets` |

`RunTurn` uses the abstract channel, which `EventPort` is shown to implement
(`ImplementsChannel`) and to which `RunTurn` is shown to keep (`UsesChannel`), so
the interleavings of the port are explored once.  `Session` sees a whole turn as
one blocking call that returns or throws; `RunTurn` is what happens inside it.
It sees a tool as one call, of which `ToolRuntime` is the inside; that takes the
registry as `CapabilityMap` has it and the launch as what `SandboxProcess` may
make of it.  `MCSandbox` and `MCTools` put parts that share no state side by
side: a variable `part`, chosen at the start, says whose behaviour it is, so that
one run covers them without multiplying their states.

### EventPort

A thread's program counter `pc[t]` says where in `Registry::publish`, `Read` or
`Close` it is, `at[t]` which registration it works on.  One action is one
critical section, or one notification made after the mutex was released, because
the code unlocks first and notifies then (`registry.cpp:70`, `port.cpp:52`,
`registration_state.cpp:28`).  `notify_one` wakes any one waiter or nobody;
`SpuriousWakeup` may happen at any time and is never counted on.  `holds[t]` is
the set of states a call keeps alive through its `shared_ptr`, `Alive` is
`weak_ptr::lock`.  `accepted`, `taken` and `due` are history variables.
Validation of arguments, the timestamp and the payload are left out.

### Session

The client may declare a stage as often as it likes, keeps every stage object
(`stages`) and may pass any of them to `run_*`.  A call refused with a
`logic_error` changes nothing and is no action.  Calls that block are split at
the point where they block: `RunRequest`/`TurnReturns`/`TurnThrows`,
`StartTool`/`ToolReturns`/`ToolThrows`, `Close`/`CloseErases`/`CloseThrows`,
`Throw`/`Cleanup`/`FailSession`, so that `Timeout` (which aborts the process)
can come in between.  A tool call is an id and whether it has a definition and
valid arguments; texts are left out.  Whether a request compacts is a free
choice, because it depends on token estimates; their sum may overflow
(`UsageOverflows`).  Erasing the key may succeed, fail, or fail although the key
is gone.  Register's argument checks come before any state and are left out.

### RunTurn

`slot` and `closed` are the turn's registration, `pc` the calling thread,
`request` the request thread.  Observers may throw at any call; where the code
catches, the exception becomes `eventLogError` or `streamError`; where it does
not, it unwinds past a joinable `std::thread` and `Terminate` ends the process.
When no thread can be had (`StartFails`), the turn throws with nothing but a
`summary_start` shown.
A stream callback is assumed to be given.  `shown` is the history of what it
received.  A request may fail at every point: before data arrives, while it
arrives, at the check of the summary; an HTTP error comes only before any data,
because the transport keeps the body of an error response for the exception
(`sse.cpp:132`).

### EditFile

`pc` is the calling thread in `edit_one` and `edit_watcher::stop`, `watcher` the
thread in `watcher_files`; the flags and `phase` are the members of
`WatcherState` (`linux_watcher.h:25`).  Each atomic store and each exchange is an
action of its own.  The flags of one call are only ever set, so a run of loads
that finds none of them set is one load of them all where it begins; the
release/acquire order is taken for sequential consistency, which these monotone
flags and the one exchanged phase cannot tell apart.  A file is a version number;
`queue` is the kernel's inotify queue, in which an event says only that some
watched file changed, so that the event of the edit's own rename looks like a
foreign one, as it does in the code.  The search for the old text is a free
choice between found once and not; `ChunkMatcher` is the search.  Things worth knowing that the model shows
and no document denies: after the first committed edit the phase stays
`Committed`, and the watcher ignores every change for the rest of the batch,
unless a later rename fails; and a rename that fails after an earlier one
succeeded opens the gate to the late event of the earlier one, which then ends
the batch as a foreign change.  `UnseenMeansUnchanged` states what is left.  `pthread_cancel` of a watcher that does not finish
in time unwinds through a `catch (...)` that does not rethrow, which ends the
process (`GiveUp`).

### EventStore

A table is a function from `row_position` to an event.  `rows` is what is
committed, `image` what the open transaction sees, `writer` the store that got
`BEGIN IMMEDIATE`, `mutex[s]` the mutex of `Store::Impl`.  Each statement is an
action: `append` is `ReadLast`, `Insert`, `Commit`; `insert_after` is `Look`,
`Stage`, `Restore`, `Insert`, `Commit`; `erase` is `Delete`, `Stage`, `Restore`,
`Commit`.  An `UPDATE` of positions is modelled by what it does to the primary
key: it fails if a row would move to a position that is taken (`Clash`) or if
`-row_position` is no 64-bit integer (`TooLarge`).  `MaxPosition` is `INT64_MAX`,
so the bound of the tables is the code's own.  Any statement may fail, a query
too; `Crash` is the death of the process that holds a store.  SQLite is modelled
from its use: one writer, readers of the committed table, an atomic commit (a
commit that reports an error is taken as not made).  A query is one `SELECT` and
one action.  Left out: a store that was moved from, timestamps and texts,
creating and opening a database.

### SandboxRegistry

`pc[c]` says where a caller is in `refresh_permissions`, `reuse_permissions`,
`release_permissions` or `release_all_permissions`; `call[c]` is what it asked
and `at[c]` the request it is at.  The steps are those another process can come
between: open the lock file, take the lock (shared for a reuse, exclusive for
the rest; each open is a lock of its own, so two threads of one process exclude
each other), load, one request after the other, create and write the temporary
file, rename it.  The temporary file is named after the process, which its
threads share.  `Canonical` says which path a path leads to and `Links` which
ones are symbolic links; the host may change under every step
(`HostChanges`).  An earlier version wrote `read_modify` for `read_write`, and
may have left such a file.  Every step of the system may fail (`Fail`,
`SaveFails`), and a process may die at any point (`Crash`): the kernel drops its
locks, its files stay.  The hash that names a capability is taken to be free of
collisions.  `GrantsDurable` and the refinement of `CapabilityMap` are the
properties.

### AclRegistry

A capability is a SID; a refresh adds an entry for it to every file of the
tree and writes a row, a release revokes the entries and takes the row out.
`Reconcile` and `Revoke` are one file each, because the process may die or throw
between two, and because files are replaced, linked or removed meanwhile
(`FileChanges`).  The named mutex lets one process work at a time; the
replacement of the state file is one step, since its own steps are those of
`SandboxRegistry`.  `lost` is a history variable: the SIDs of refreshes that
ended before their row was saved, and, at a root, those of refreshes that wrote
the root's entry and then could not look at the root again (`DropTree`): that
exception is made an error of the path, the row is skipped and the call goes on.
`AclAccounted` says that no other entry is without a row.  A path error of any
other kind does not keep the row from being written (`EndTree`).

### SandboxProcess

`stage` is the calling thread in `run`, `child` and `stray` the child and one
descendant, which may stay in the group or leave it; `writer` and `reader` are the
threads for stdin and for the output (stdout and stderr are read alike, and one
reader stands for both).  Linux and Windows share the module: on Linux the child
reports errors of its setup through a pipe and the watch is a loop that asks for
the child, the stop flag and the deadline in that order; on Windows it is one
wait, and closing the job ends every descendant.  A write to a pipe nobody
reads any more ends the process on Linux (`WriterBreaks`), because nothing blocks
`SIGPIPE`.  A read of the output that fails ends it early (`linux_process.cpp:240`,
`ioError`); that error is told in the result of a deadline and in no other, so a
child that exits by itself may have a clean result with less than its output:
`OutcomeTold` excepts it by name.  One call at a time is modelled,
one after the other, with a stop signal at any point.

### ToolRuntime

A caller takes a call through its checks (`ToolChecked`), the copy of the files
read (`ToolSnapshot`), the launch with the permissions its tool needs
(`ToolLaunch`), a worker, and `ToolMerge`.  The workers of `read_file`,
`write_file` and `edit_file` do to the disk what the tools do, in the steps
between which another worker can come; the other tools are `OtherWorker`.
A batch of edits goes file by file (`EditWorkerEdits`, with the outcomes of
`edit_one`: `did` are the files that were replaced, `clean` those without an error
or a note, `gate` the phase the deadline and the commit race for), then the
watcher puts its error or its note on them.  The answer is made of errors and notes
alone, as `edit_file.cpp:207` makes it (`EditWorkerAnswers`), so that what it has to
do with the disk is something to show (`AnswersTrue`).
`WorkerLost` ends a worker at any point: a deadline, a signal, an output that is
no answer.  `seen` and `toldRead` are history variables.  `WriteWorkerLooks` is
the `exists` of `logic.ts:39`, `WriteWorkerWrites` the `writeFile` of `:69`: a file
that another process makes in between is overwritten unread, which
`ReadMemoryExact` does not deny; it is about what the worker found.  A file named
twice in a batch counts once; `EditFile` has a batch that comes back to a file.

### Secrets

On Linux a call is a search followed by one or more calls on the key that was
found; a key whose link is gone fails.  On Windows a call is one call of the
system.  `witnessed` is a history variable: what the credential was since the
call began.

### ConvertHistory

`Stream` is an event of a provider: it is appended to the response builder of its
session and recorded in the common table.  `Taken` is the builder after it, with
what the protocol of the provider makes of it besides (`Regular`, whether the
finish_reason has come).  `Converted` folds the converter over
rows as `convert_history_rows` does, segment by segment where the provider
changes.  Texts are sequences of pieces, so that a piece that is lost, doubled
or out of order shows; a field may be absent (`Nothing`), null (`Null`) or an empty
string (`Empty`), and a message has `hasContent` and `hasReasoning` beside its
texts.  The converters apply a delta by `Applied`, the builder by `Built`.
`Regular` is the protocol of the providers; for a stream that keeps it the
converters and the builder must give the same messages (`HistoryAgrees`) but for
one field: a `reasoning_content` that was sent and never more than empty is left out
by the builder (`reasoning.cpp:24`) and kept as `""` by two of the converters
(`deepseek.cpp:234`, `bonsai.cpp:234`).  `AsBuilt` takes it out, and nothing else.
For any stream the converters neither lose nor invent text (`TextKept`).
Differences the model shows outside of that protocol, none of which a document
denies: the converters refuse arguments that come as an object, calls without an
id, events whose id is null and empty events, which the builder takes; they pass
over a delta that is no object (`openai.cpp:257`), at which the builder throws
(`response.cpp:74`); and `convert_all_history` returns a
session several times when the rows of two sessions alternate.

### ChunkMatcher

`consume` and `finish` for any cut of the file into chunks.  `Advance` and
`PrefixFunction` are the prefix function as the code calculates it, `Completed`
and `Pending` what a chunk makes of the checkpoints before it, `Begun` the
checkpoints it adds: the longest of them (`Longest`) and its chain of failures.
`MatcherAgrees` compares the verdict with the places of the pattern in the whole
text.

## 3. The runs

| Run | Shows | Bounds and why they are enough |
|---|---|---|
| `event_port_safety` | conservation of events, refinement of `PortChannel`, head-of-line order, an Emit that returns was delivered to all | 3 threads, 2 registrations, one of them filtered, 2 events: two emitters can block on one slot while a third thread reads, closes or destroys; one thread both emits and reads |
| `event_port_liveness` | no lost wakeup, Close ends every wait, every served Emit returns | 4 threads, 1 registration, 3 events: a second emitter waits behind a first |
| `session_stages` | only the newest declaration runs, the order of the stages with one refresh, pairing of calls and results, a key left behind was reported, blocked calls are under the watchdog, refinement of `SessionLifecycle`, the automatic loop ends though nobody answers | 7 declarations reach a second response after three tool calls, or fewer calls with repeated declarations in between; two full cycles of the automatic loop; replies with 0 to 3 calls, with and without ids, definitions and arguments; first request without a history; a failure in each kind of stage, before and after a failed close |
| `run_turn` | join, order, errors, termination | 3 data events per request: before, at and after the first failure |
| `edit_file` | a timeout is final, at most one late commit, nothing unseen, truthful reports, and the call returns without its deadline | a batch of 3 over 2 files with 2 foreign writes: an edit before, at and after a committed and a failed one, each with a write before and after it; the second edit of a file |
| `event_store` | contiguous positions, refinement of `EventLog`, no lock is kept | 3 threads on 2 stores, at most 4 rows (`MaxPosition` = 3): staging moves up to three rows, the table gets empty and full, and a full table cannot be renumbered; positions in the table, in front of it and the largest; 2 events of 2 sessions |
| `sandbox` | what the registry grants is durable, refinement of `CapabilityMap`, no access-list entry that nobody can release, a launch tells the truth, leaves nothing running and returns | registry: 2 callers of one process (the lock, the temporary file and the crash are shared), a directory under its own name, through a linked parent and by a symbolic link, and a second one that comes and goes; requests of two paths, so that one can fail; a state file of an earlier version. Lists: 2 processes, a directory and a file in it, both registered. Launch: 2 pieces of output, one read before and one after the child's end |
| `tools` | the memory of the files read and the answers of tool calls, true answers of `secrets`, histories that agree, a search that does not depend on the chunks | runtime: 2 callers, 2 workspaces, 2 files, 3 calls: a write after a read with another write in between, a batch of two edits with every pair of outcomes. secrets: 2 processes, a short and a long value, 3 keys. history: 4 rows of 2 sessions, of 15 kinds of event (fields that are absent, null and empty among them): a call in two pieces and its end, two responses one after the other. matcher: 5 patterns that overlap themselves in every way, chunks of 0 to 3 letters, texts up to 9: an occurrence over three chunks, and two that overlap |
| `session_timeout_doc`, `session_credential_doc`, `run_turn_doc`, `sandbox_process_doc` | statements of the documentation the code does not keep (see 6) | same instances |

The type invariants are conjuncts of the inductive invariants and are proved;
the runs leave them out.
Deadlock is not checked where a system may stop: threads that return from their
last call, a session that is closed, a turn that is over.  Counters are bounded
by `MaxEvents`, `MaxStages`, `MaxData`, `MaxChanges`, `MaxOutput`,
`MaxToolCalls`, `MaxKeys`, `MaxRows` and `MaxText` in the guards; `nextCallId`,
`generation` and the sequence number only grow with these.  The 64-bit limits of
tokens and sequence numbers are out of the bounds.

## 4. Fairness

* `EventPort`: weak fairness of each thread's step inside a call
  (`SchedulerFairness`), which is a fair operating-system scheduler; nobody is
  obliged to call anything.  `EmitTerminates` also needs a reader that keeps
  reading (`ReaderFairness`), because back-pressure is the design.  Spurious
  wakeups have no fairness.
* `Session` (`MCSpec`, for the automatic loop): weak fairness of the loop's own steps and of the
  deadline.  The provider, the tool and the keyring have none, as they may never
  answer.  The one exception is the destructor of a credential owner that
  already attempted its erasure: it calls nobody.
* `RunTurn` (`FairSpec`): both threads are scheduled and the provider ends each
  request somehow.  Without the latter nothing in run_turn bounds the wait; that
  is the session's watchdog.
* `EditFile` (`FairSpec`): both threads are scheduled and their system calls
  return.  The deadline (some 24 days away), failures of the watcher and the
  10-second limit of `stop` have no fairness, so that the call is not saved by
  them.
* `EventStore` (`FairSpec`): a thread that is in a call is scheduled; `BEGIN`
  gives up after its busy timeout of five seconds, so it never waits for ever.
  Nothing is assumed of who gets a mutex next, so `LocksReleased` says that every
  lock is given back, not that every call is served.
* `SandboxProcess` (`ProcessFairness`): the scheduler runs the caller and its
  threads, time passes, and a pipe with room takes data.  Nothing is assumed of
  the child, so only the deadline ends a call.  `CallReturns` excepts what the
  code leaves open (`Held`): the threads are joined without a deadline, so a
  descendant that keeps the pipes open holds the call, and so does a child when a
  thread could not be created.
* The registries, `ToolRuntime`, `Secrets` and the histories promise safety only.
  A lock is waited for without a limit (`flock`), so that no call of the registry
  can be shown to return while another holder stands still.

## 5. The proofs

Each proof follows the same argument: an inductive invariant `IInv` (the
property with what it needs), one lemma that every step keeps it, and the
temporal theorem from these.

**`EventPortProofs`**, from `PortAssumption` (which sets the constants are drawn
from).  `TypeCorrect`; `NoWakeupIsLost`; `Conservation`; `ImplementsChannel`.
`NoLostWakeup` is inductive together with the types, because it names every
place from which a wakeup may still come (a notification is made after the mutex
was released, so the thread that owes it has left the critical section).
`NothingLost` also needs that a destroyed registration is closed and empty
(`GoneIsEmpty`).  Delivery (`EmitDelivers`, an action property) and its order
(`HeadOfLine`) come from one invariant, `EmitInv`: events are told apart by their
numbers (`Numbered`), nobody has one twice (`AtMostOnce`), the list holds every
registration the caller holds (`Listed`), and for each call of `Emit` under way
(`Emission`), whoever must get the event has it, is still to be offered it or was
closed, while nobody it is still to be offered to has it, nor anybody younger.
The lemma `EmissionStays` says once which steps of *others* leave that alone:
those that give the event to nobody and make no registration older; without it
every action of every thread would have to be looked at for every call.

**`SessionProofs`**, from `SessionAssumption` (replies are sequences of calls,
the initial messages are the user's, an empty optional is no turn).
`TypeCorrect`; `FreshStage`; `ToolState`; `Implements` (the refinement of
`SessionLifecycle`); `Watched`; `KeyReported`; `RunInOrder`;
`EveryCallIsAnswered`; `HistoryOnlyGrows`.  They hold for any replies, any
initial conversation and any number of stages.  The strengthening is:
`PlaceOK`, the states each place of the client thread may see; `TokensOK`, every
stage object has a smaller token than the next one and only the last can be
active; `ActiveIsCurrent`, `FreshStageIsCurrent` also while `close_session` waits
for the keyring, since a failed erasure brings the client back to the same
state; `ToolsOK`.  The four need one another: that a tool call exists in the tool
state follows from what the *response stage object* announced, hence from
`ActiveIsCurrent`.  Most steps touch neither stages nor conversation; the lemma
`StepKinds` sorts them out once (`Quiet`, `Moves`, `DeclaresTrue`), and the
lemmas about the parts of the invariant and the refinement use it.  `Armed` and
`KeyOK` add what is known of the watchdog and the key at each place.
`RunInOrder` (`StagesRunInOrder`) is about the whole history of the stages that
ran.  It becomes inductive by what the *last* of them says of the session:
`LiveToken` (a stage that may still run is younger than all that ran, which is why
keeping old stage objects is harmless), `RanMatchesState` (the state and the index
of the next tool call are those the last stage leads to, also while
`close_session` waits), `RuntimeOK` (the refresh flag is kept exactly until the
first call reaches the runtime).  For `EveryCallIsAnswered` (`ConversationPaired`),
`TalkInv` adds the tool state, where the conversation is paired *but for its last
message*, and that the messages of a request are all of one role, without which a
summary could not take the place of the history.  That an assistant message and
as many results extend a paired history, and that a summary may precede results,
are lemmas about sequences (`AnswerPaired`, `SummaryPaired`).  `HistoryOnlyGrows`
(`HistoryKept`, an action property stated beside its proof) says that an answer is
filed with the conversation it was asked with: it rests on `TurnIsCurrent`, that
nothing between the provider's answer and its response stage, a close that failed
included, changes the history or the messages the turn was made of.

**`RunTurnProofs`**, from `TurnAssumption`.  `TypeCorrect`;
`NothingIsLeftBehind`; `ThreadIsJoined`; `NoFailureIsLost`; `ShownInOrder`;
`UsesChannel`; `NobodyWaitsInVain`.  The strengthening is
`LastWaits` (while `run_turn` reads, the request thread has emitted its last event
exactly when that event is in the slot, so the loop stops at a thread that only
has to return), `ErrorThrown` and `FailuresSurface`.  For `ShownInOrder`
(`StreamInOrder`) it is `ShownOrder`, the order among the things shown so far,
with `SummaryPhases`, which ties the two threads together: the caller has closed
the summary exactly when the request thread has finished it and its last event
of the summary is no longer in the slot, so no event of the answer can come
before the end of the summary; and `ErrorIsAttributed`.  `UsesChannel` shows that
each step does one operation of `PortChannel` to the registration or none.

**`EditFileProofs`**, from `EditAssumption` (the batch is a sequence of files and
not empty).  `TypeCorrect`; `TimeoutIsFinal`; `LateCommits`; `NothingUnseen`;
`ReportsAreTrue`; `NoWaitIsInVain`, for every batch and any number of foreign writes.  Two lemmas
say what the steps of one thread leave of the other (`WatcherLeavesEditor`,
`EditorLeavesWatcher`); after them each invariant needs only the actions that
touch it.  The strengthening is: `GateHeld` (a rename happens at `Committing`, a
replaced outcome closes the gate to the deadline, the timeout flag tells the
truth); `Late` (once the change is published nobody is past the checks any more,
except the one that was); `ChangesPend` (a change since the source was opened is
still in the kernel or the buffer, or the watcher no longer waits);
`GateGuarded`, `CurrentTrue`, `StoredTrue` (why an edit that was not made always
finds a reason to report, except at a gate lost to the deadline).

**`EventStoreProofs`**, from `StoreAssumption` (each caller has a store, the
requests are well formed, the database holds a list at first).  `TypeCorrect`;
`PositionsAreDense`; `ImplementsLog`; `NoLockIsOrphaned`, for any stores, callers,
calls and tables.
The first part calculates the tables: what staging and restoring make of a list
(`StageTable`, `OpenTable`, `CloseTable`, `FillTable`, `AppendTable`), and that
no statement meets a taken position.  The strengthening is `Progress`: at each
label, what the image is in terms of the committed rows, which stay as they are
because only one caller is in a transaction (`Alone`: it holds the mutex of the
store that holds the write lock).  At `committing` the image is the list with the
call carried out, so the commit is the step of `EventLog` and all others stutter.

**`SandboxProofs`**, for the registry of Linux, from `RegistryAssumption` (the requests are paths with
an access, a release names one path, the state file an earlier version left has
rows, and `None` is none of these).  `GrantsAreDurable`; `ImplementsMap`, for any
callers, processes, calls, paths, links and hosts.  The invariant `CallerOK` says
what is true of one caller at each point of its call: which rows it has in
memory in terms of the registered ones, which of its requests are answered, how
it holds the lock.  `Alone` says that an exclusive holder is alone, and the
lemma `OneCaller` that therefore a step of one caller leaves the invariant of
the others, because a caller without the lock relies on nothing in the file.
The last request of a reuse, the rename of a refresh or a release, and every
failure are the steps of `CapabilityMap`; the lemmas `Unseen` and `Decided` say so
once, and each action cites one of them.

For the registry of Windows, from `AclAssumption`: `EntriesAreAccounted` with the
invariant `AclInv`: only the owner of the mutex is at work, and every entry
belongs to a saved row, a lost one, or to what the owner has in memory or is at
work on (`OwnerOK`); while a tree is refreshed, its SID is in the lists of visited
files only, so that a tree dropped after its root leaves the root's entry and no
other (`EntriesBelong`: an entry is on a file of the tree of its root).  For the process: `OutcomeIsTold` and `NothingKeepsRunning`, for output of any
length, with `ProcessInv`: what the stage says of the child (`ChildOK`), of the
result (`ResultOK`), of the reader, which has everything when it ended without an
error (`ReaderOK`), and of the signals.

**`ToolsProofs`**, from `ToolAssumption` and `SecretsAssumption`.  `MemoryIsExact`
and `AnswersAreTrue`, for any callers, workspaces, files and calls, with `ToolInv`:
a worker's copy holds only files that were read or written in its workspace, a
response has done all it answers, and a batch without an error or a note so far has
either edited all its files or, its gate lost at the first, none (`BatchOK`): the
answer is made of errors and notes, and this is what ties it to the disk.  `CredentialsAreTrue`, for any number of
processes, with `SecretsInv`: a call in progress has witnessed the credential as
it is now.

**`StreamProofs`**, from `HistoryAssumption` (only a delta has a
finish_reason, an event names its provider and is of a kind the model has) and `MatcherAssumption` (patterns and
chunks are finite sequences).  `HistoryIsFaithful` (`HistoryAgrees`) and `TextIsKept` (`TextKept`), for any sessions, events and
number of rows.  Both are about folds over all rows, so the proof first finds what
a fold, a flattening and a grouping make of one more row.  The induction theorems
of the library cannot be instantiated here, so this rests on the least element of
a set of numbers (`LeastNatural`, from the well-foundedness of `<`): `Induction`
is stated for sets, the functions behind `FlattenSeq` and `FoldLeft` are shown to
exist and to be unique on their initial parts, and `FlattenAppend`, `FoldAppend`
and `GroupsAppend` are the results.  With these the converter becomes a machine
that reads a row at a time beside the builder, and the invariant is `HistoryInv`:
what the converter of a session's rows has written is the text of the builders
(`Written`), and while the responses are regular it stands where the builder
stands (`Alike`, `Paired`: it has, up to `AsBuilt`, the finished messages and the one
under way, or has failed at a call without its id or name).  That `AsBuilt` goes
with a delta, from `Applied` to `Built`, is part of the lemma `MessageStep`.  `GroupsAgree` follows the same
for the rows of all sessions cut into groups.

`MatcherIsRight` (`MatcherAgrees`), for any patterns, chunks and length of the text.
`IsPrefixFunction` says what the prefix function is for: the longest suffix of each
beginning of the pattern that begins it too (`PrefixFunctionIs`, from `AdvanceIs`:
one more letter extends the longest match or one down its chain of failures).  So
the scan of the boundary finds the longest suffix of the chunk that may begin an
occurrence (`LongestBest`), and its chain finds the others (`BegunLists`).  The
invariant is `MatcherInv`: the checkpoints are, in order, the places of the text so
far where an occurrence may have begun (`Lists`, `Tails`), and the place and note
recorded are those of the occurrences in it (`Told`).  A chunk keeps it: an
occurrence that ends in it is a checkpoint completed or lies inside it
(`PlacesGrow`), and they are recorded in rising order (`RecordedTells`).

Not proved: liveness, which the prover cannot do under fairness (`CloseEndsWaits`,
`EmitTerminates`, `LoopEnds`, `TurnEnds`, `EditReturns`, `LocksReleased`,
`CallReturns`).  These are model-checked.  What can be proved of them is their
safety part, that nobody waits for what nobody is going to do; it is stated with
the guards written out, since ENABLED is out of reach too: `NoLostWakeup` for the
port; `EachWaitIsOwed` for a turn (an empty slot that is read has a request thread
that still owes its last event, a full one a reader, and a joined thread only has
to return); `WatcherAnswers` for `edit_file` (a watcher it waits for is starting, on
its way out, or finds the stop signal); `LocksAtWork` for the event store (a mutex
belongs to one of the store's callers that is past waiting for it, the write lock
to one that is in the transaction, so waits go from the first to the second lock
and end there, and no lock outlives its call or its process).

## 6. What the runs found

* `session_timeout_doc`: `docs/BLOCK_SESSION.md:309` says the timeout is
  cancelled only after the cleanup.  The destructor of a session that was not
  closed cancels the watchdog first, because `SessionTimeout` is the last member
  (`session_internal.h:101`), and then erases the key with nothing to bound it.
* `session_credential_doc`: `docs/BLOCK_SESSION.md:349` says a cleanup failure
  under a primary exception is kept as secondary error.  After a close that
  failed, `cleanup_attempted_` makes the next failing stage skip the cleanup
  without a trace (`credential_owner.cpp:155`).
* `run_turn_doc`: `docs/BLOCK_SESSION.md:231` says the original exception is
  propagated after the request thread ended.  A stream callback that throws at
  `http_error`, or at a `summary_end` sent from inside the loop, ends the process
  (`turn.cpp:339`, `turn.cpp:229`).

* `sandbox_process_doc`: `docs/API_REFERENCE.md:959` and `docs/BLOCK_TOOLS.md:265`
  promise a structured result `process_timeout` when a process times out.
  `write_pipe` (`linux_process.cpp:252`) writes the child's stdin with a plain
  `write`, and nothing blocks `SIGPIPE`: when the child is killed, or ends, with
  some of its stdin unwritten, the next write ends the process that called.

Seen while modelling, without a statement that denies it:

* `request_edit_timeout` closes the gate first and stores the flag afterwards
  (`linux_watcher.cpp:383`, `:393`); an edit that loses the gate in between reports
  neither an error nor a note.  With today's deadline of 24 days the window is as
  good as never met; `ReportsTruthful` excepts it by name.
* The refresh of the sandbox permissions belongs to the first tool call that
  reaches the runtime.  A later call of a tool that needs another access is
  refused unless that access was registered before.
* A regular file may be registered as a root on Linux and gets its permission,
  and a path error besides, because `inspect_tree` expects a directory.
* On Windows the root of a tree may be left with an entry and no row: after the
  entry was written (`windows_filesystem_acl.cpp:411`), `is_directory(root)` may
  fail and throw (`:420`), which becomes an error of the path
  (`windows_filesystem.cpp:196`).  No release, `release_all` included, will find that
  entry, since they go by the rows.
* A batch of edits may be answered with ok although nothing was edited, when the
  deadline takes the gate before the first commit and its flag is not seen yet:
  `edit_file.cpp:207` looks at the error and the note, not at what was replaced.
* A stream callback that throws when it is told of a tool's result is caught like a
  failure of the tool; `ToolCallHandler::finish` is then run once more on the call
  that was moved from (`tool_call.cpp:359`, `:379`), with an id that refers into it,
  and an exception of the JSON library comes out instead.
* `events/API.md:104` has `out_of_range` for a position that does not exist;
  `insert_after.cpp:14` throws `overflow_error` first for the largest one.  `EventLog`
  does not tell the two apart.

## 7. What is not modelled, and the plan

Everything of the first plan is done but the following.

* The Windows variants of `edit_file` and of the watcher, the public watcher and
  the directory tools of `tools/filesystems`.
* The creation and opening of an event database (`events/create.cpp`): two
  creations of one id race for the file.
* Several calls of `sandbox::process` at once in one process: they share the stop
  flag and the signal handlers.
* The rules given to Landlock, a `TerminateJobObject` that fails, and the wiping
  of secrets from memory.
* The schemas and texts of tool calls and results.

Left out for good: `chat_thread` (rendering), the TypeScript tools apart from
the state of the files read (file input and output), `context_usage` (a pure
estimate, whose outcome `Session` chooses freely), the catalog generator and the
build, `sandbox/executable` and `sessions/excutable` (command lines and a wire
format).

Every safety invariant that a run checks is proved.
