------------------------------ MODULE EditFile ------------------------------
(***************************************************************************)
(* edit_file on Linux: the calling thread edits the files of a batch one   *)
(* after the other, a watcher thread reads the kernel's change events for  *)
(* all of them, and the two meet in the atomics of WatcherState.           *)
(*                                                                         *)
(* An edit reads its source, writes a temporary file, and renames it over  *)
(* the source if the gate edit_commit_phase lets it through.  A foreign    *)
(* process may change a watched file at any time; its event, like that of  *)
(* the edit's own rename, waits in the kernel until the watcher reads it.  *)
(*                                                                         *)
(* A file is a version number that every write moves on.  The flags of     *)
(* WatcherState are only ever set, so that a run of loads that finds none  *)
(* of them set is the same as one load of them all where it begins.        *)
(***************************************************************************)
EXTENDS Naturals, Sequences

CONSTANTS Files,
          Requests,    (* the files of the batch, in order                  *)
          MaxChanges   (* bound: how often other processes write            *)

ASSUME EditAssumption ==
    /\ Requests \in Seq(Files)
    /\ Requests # <<>>
    /\ MaxChanges \in Nat

VARIABLES
    pc,             (* where the calling thread is                          *)
    item,           (* which request it works on                            *)
    opened,         (* the version its source_file was opened at            *)
    outcome,        (* edit_item_outcome of the request                     *)
    outcomes,       (* those of the requests before it                      *)
    watcher,        (* where the watcher thread is                          *)
    buffer,         (* the events it read and did not look at               *)
    event,          (* WatcherResult::event_status                          *)
    error,          (* WatcherResult::error, or exception_                  *)
    ready, finished, fileChanged, cancel, timeout, stop, (* WatcherState    *)
    phase,          (* WatcherState::edit_commit_phase                      *)
    signal,         (* the eventfd that request_watcher_stop writes         *)
    disk,           (* the version of each file                             *)
    queue,          (* the events the kernel has for the watcher            *)
    overflow,       (* whether it dropped one: no, not told yet, told       *)
    changes,        (* how often other processes wrote                      *)
    late            (* history: renames after fileChanged was set           *)

editVars    == <<pc, item, opened, outcome, outcomes>>
watcherVars == <<watcher, buffer, event, error>>
flagVars    == <<ready, finished, fileChanged, cancel, timeout, stop>>
kernelVars  == <<disk, queue, overflow, changes>>
vars == <<editVars, watcherVars, flagVars, phase, signal, kernelVars, late>>

Current == Requests[item]

NoOutcome == [replaced |-> FALSE, attempted |-> FALSE, error |-> "none", note |-> "none"]

Init == /\ pc = "starting"
        /\ item = 1
        /\ opened = 0
        /\ outcome = NoOutcome
        /\ outcomes = <<>>
        /\ watcher = "starting"
        /\ buffer = 0
        /\ event = "None"
        /\ error = "none"
        /\ ready = FALSE
        /\ finished = FALSE
        /\ fileChanged = FALSE
        /\ cancel = FALSE
        /\ timeout = FALSE
        /\ stop = FALSE
        /\ phase = "Watching"
        /\ signal = FALSE
        /\ disk = [f \in Files |-> 0]
        /\ queue = 0
        /\ overflow = "no"
        /\ changes = 0
        /\ late = 0

-----------------------------------------------------------------------------
(* The watcher thread.                                                     *)

(* Everything watcher_files sets up before it says that it is ready, the   *)
(* stop signal among it.                                                   *)
WatcherReady ==
    /\ watcher = "starting"
    /\ ready' = TRUE
    /\ watcher' = "waiting"
    /\ UNCHANGED <<editVars, buffer, event, error, finished, fileChanged, cancel,
                   timeout, stop, phase, signal, kernelVars, late>>

(* A system call of it fails, or it throws.                                *)
WatcherFails(e) ==
    /\ watcher \in {"starting", "waiting", "matching"}
    /\ error' = e
    /\ event' = "None"
    /\ watcher' = "leaving"
    /\ UNCHANGED <<editVars, buffer, flagVars, phase, signal, kernelVars, late>>

(* Mutant: one event too few.                                              *)
ReadEventsOffByOne ==
    /\ watcher = "waiting"
    /\ queue > 0 \/ overflow = "queued"
    /\ buffer' = IF queue > 0 THEN queue - 1 ELSE 0
    /\ queue' = 0
    /\ overflow' = IF overflow = "queued" THEN "told" ELSE overflow
    /\ watcher' = "matching"
    /\ UNCHANGED <<editVars, event, error, flagVars, phase, signal, disk, changes, late>>

ReadEvents ==
    /\ watcher = "waiting"
    /\ queue > 0 \/ overflow = "queued"
    /\ buffer' = queue
    /\ queue' = 0
    /\ overflow' = IF overflow = "queued" THEN "told" ELSE overflow
    /\ watcher' = "matching"
    /\ UNCHANGED <<editVars, event, error, flagVars, phase, signal, disk, changes, late>>

(* publish_file_changed looks at the phase.  It cannot tell the rename of  *)
(* the edit from a foreign one; what it sees while an edit commits, or     *)
(* after one was committed, it ignores.                                    *)
MatchEvent ==
    /\ watcher = "matching"
    /\ buffer > 0
    /\ buffer' = buffer - 1
    /\ watcher' = IF phase = "Watching" THEN "publishing" ELSE "matching"
    /\ UNCHANGED <<editVars, event, error, flagVars, phase, signal, kernelVars, late>>

(* What it stores after it looked.  No other event in the buffer is stored *)
(* again, but a later one may say that a watched directory is gone.        *)
PublishChange ==
    /\ watcher = "publishing"
    /\ fileChanged' = TRUE
    /\ event' = "HasEvent"
    /\ buffer' = 0
    /\ watcher' = "cancelling"
    /\ UNCHANGED <<editVars, error, ready, finished, cancel, timeout, stop, phase,
                   signal, kernelVars, late>>

BufferDone ==
    /\ watcher = "matching"
    /\ buffer = 0
    /\ IF stop THEN event' = "NoEvent" /\ watcher' = "leaving"
       ELSE watcher' = "waiting" /\ UNCHANGED event
    /\ UNCHANGED <<editVars, buffer, error, flagVars, phase, signal, kernelVars, late>>

(* epoll_wait returns for the eventfd.                                     *)
StopSeen ==
    /\ watcher = "waiting"
    /\ signal
    /\ event' = "NoEvent"
    /\ watcher' = "leaving"
    /\ UNCHANGED <<editVars, buffer, error, flagVars, phase, signal, kernelVars, late>>

(* epoll_wait returns for the deadline, when there is nothing else.  After *)
(* an overflow the deadline is an error, unless epoll_wait is interrupted. *)
Deadline ==
    /\ watcher = "waiting"
    /\ queue = 0 /\ overflow # "queued" /\ ~signal
    /\ event' = "NoEvent"
    /\ \/ stop /\ watcher' = "leaving" /\ UNCHANGED error
       \/ ~stop /\ watcher' = "expiring" /\ UNCHANGED error
       \/ ~stop /\ overflow = "told" /\ watcher' = "leaving" /\ error' = "error"
    /\ UNCHANGED <<editVars, buffer, flagVars, phase, signal, kernelVars, late>>

(* request_edit_timeout: the exchange, then the flags that tell of it.     *)
RequestTimeout ==
    /\ watcher = "expiring"
    /\ IF phase = "Watching"
       THEN phase' = "TimedOut" /\ watcher' = "timing_out"
       ELSE watcher' = "leaving" /\ UNCHANGED phase
    /\ UNCHANGED <<editVars, buffer, event, error, flagVars, signal, kernelVars, late>>

PublishTimeout ==
    /\ watcher = "timing_out"
    /\ timeout' = TRUE
    /\ watcher' = "cancelling"
    /\ UNCHANGED <<editVars, buffer, event, error, ready, finished, fileChanged, cancel,
                   stop, phase, signal, kernelVars, late>>

PublishCancel ==
    /\ watcher = "cancelling"
    /\ cancel' = TRUE
    /\ \/ UNCHANGED <<event, error>>
       \/ fileChanged /\ event' = "None" /\ error' = "error"
    /\ watcher' = "leaving"
    /\ UNCHANGED <<editVars, buffer, ready, finished, fileChanged, timeout, stop, phase,
                   signal, kernelVars, late>>

(* The guards of watcher_files publish finished; only then does its caller *)
(* store the result, or the exception, and end the thread.                 *)
Leave ==
    /\ watcher = "leaving"
    /\ finished' = TRUE
    /\ watcher' = "left"
    /\ UNCHANGED <<editVars, buffer, event, error, ready, fileChanged, cancel, timeout,
                   stop, phase, signal, kernelVars, late>>

StoreResult ==
    /\ watcher = "left"
    /\ watcher' = "ended"
    /\ UNCHANGED <<editVars, buffer, event, error, flagVars, phase, signal, kernelVars,
                   late>>

-----------------------------------------------------------------------------
(* The calling thread.                                                     *)

Ready ==
    /\ pc = "starting"
    /\ ready
    /\ pc' = "open"
    /\ UNCHANGED <<item, opened, outcome, outcomes, watcherVars, flagVars, phase, signal,
                   kernelVars, late>>

(* The watcher finished before it was ready.  Its result is read with no   *)
(* regard to whether the watcher thread has stored it yet: the error may   *)
(* be seen or not.                                                         *)
StartupFailed(seen) ==
    /\ pc = "starting"
    /\ finished /\ ~ready
    /\ outcomes' = [i \in DOMAIN Requests |->
                      [NoOutcome EXCEPT !.error = IF seen THEN error ELSE "none"]]
    /\ item' = Len(Requests) + 1
    /\ pc' = "stop"
    /\ UNCHANGED <<opened, outcome, watcherVars, flagVars, phase, signal, kernelVars,
                   late>>

(* apply_watcher_timeout: a timeout is the outcome of an edit that has no  *)
(* other.                                                                  *)
ApplyTimeout(o) ==
    IF ~o.replaced /\ timeout /\ ~fileChanged /\ o.error = "none" /\ o.note = "none"
    THEN [o EXCEPT !.error = "timeout", !.note = "timeout"]
    ELSE o

(* The outcome of an edit that found itself cancelled.                     *)
Cancelled(o) ==
    IF ApplyTimeout(o) # o THEN ApplyTimeout(o) ELSE [o EXCEPT !.note = "file_changed"]

Open ==
    /\ pc = "open"
    /\ \/ pc' = "read" /\ opened' = disk[Current] /\ UNCHANGED outcome
       \/ pc' = "next" /\ outcome' = [outcome EXCEPT !.error = "file"] /\ UNCHANGED opened
    /\ UNCHANGED <<item, outcomes, watcherVars, flagVars, phase, signal, kernelVars, late>>

(* Reading and searching the source, with a look at cancel_requested at    *)
(* every chunk.  An input error that meets a cancellation carries its note. *)
Read ==
    /\ pc = "read"
    /\ \/ /\ cancel
          /\ outcome' = Cancelled(outcome)
          /\ pc' = "next"
       \/ /\ outcome' = IF cancel THEN [outcome EXCEPT !.error = "file",
                                                       !.note = "file_changed"]
                        ELSE [outcome EXCEPT !.error = "file"]
          /\ pc' = "next"
       \/ /\ ~cancel
          /\ \/ outcome' = outcome /\ pc' = "prepare"
             \/ outcome' = [outcome EXCEPT !.note = "not_unique"] /\ pc' = "next"
    /\ UNCHANGED <<item, opened, outcomes, watcherVars, flagVars, phase, signal,
                   kernelVars, late>>

(* prepare_temp_file: write, fsync; what was written is discarded again    *)
(* when it fails or is cancelled.                                          *)
Prepare ==
    /\ pc = "prepare"
    /\ \/ ~cancel /\ pc' = "gate" /\ UNCHANGED outcome
       \/ cancel /\ pc' = "failed" /\ UNCHANGED outcome
       \/ pc' = "failed" /\ outcome' = [outcome EXCEPT !.error = "file"]
    /\ UNCHANGED <<item, opened, outcomes, watcherVars, flagVars, phase, signal,
                   kernelVars, late>>

(* Mutant: of the flags, only those of a timeout are looked at.            *)
GateChecksTimeout ==
    /\ pc = "gate"
    /\ pc' = IF timeout THEN "failed" ELSE "begin"
    /\ UNCHANGED <<item, opened, outcome, outcomes, watcherVars, flagVars, phase, signal,
                   kernelVars, late>>

(* commit_replace and begin_edit_commit look at the flags.                 *)
Gate ==
    /\ pc = "gate"
    /\ pc' = IF fileChanged \/ cancel \/ timeout THEN "failed" ELSE "begin"
    /\ UNCHANGED <<item, opened, outcome, outcomes, watcherVars, flagVars, phase, signal,
                   kernelVars, late>>

(* Mutant: the exchange takes any phase for its expected one.              *)
BeginTakesAny ==
    /\ pc = "begin"
    /\ pc' = "rename" /\ phase' = "Committing"
    /\ UNCHANGED <<item, opened, outcome, outcomes, watcherVars, flagVars, signal,
                   kernelVars, late>>

(* begin_edit_commit exchanges the phase: it loses to a timeout only.      *)
Begin ==
    /\ pc = "begin"
    /\ IF phase \in {"Watching", "Committed"}
       THEN pc' = "rename" /\ phase' = "Committing"
       ELSE pc' = "failed" /\ UNCHANGED phase
    /\ UNCHANGED <<item, opened, outcome, outcomes, watcherVars, flagVars, signal,
                   kernelVars, late>>

(* The rename is the linearization point of the edit, and one more event   *)
(* for the watcher.                                                        *)
Rename ==
    /\ pc = "rename"
    /\ \/ /\ disk' = [disk EXCEPT ![Current] = @ + 1]
          /\ queue' = queue + 1
          /\ late' = IF fileChanged THEN late + 1 ELSE late
          /\ outcome' = [outcome EXCEPT !.attempted = TRUE, !.replaced = TRUE]
          /\ pc' = "mark"
       \/ /\ outcome' = [outcome EXCEPT !.attempted = TRUE, !.error = "file"]
          /\ pc' = "failed"
          /\ UNCHANGED <<disk, queue, late>>
    /\ UNCHANGED <<item, opened, outcomes, watcherVars, flagVars, phase, signal, overflow,
                   changes>>

MarkCommitted ==
    /\ pc = "mark"
    /\ phase' = "Committed"
    /\ pc' = "next"
    /\ UNCHANGED <<item, opened, outcome, outcomes, watcherVars, flagVars, signal,
                   kernelVars, late>>

(* An edit that was not made says why: first it asks for the timeout, then *)
(* for a cancellation.                                                     *)
ExplainTimeout ==
    /\ pc = "failed"
    /\ outcome' = ApplyTimeout(outcome)
    /\ pc' = "explain"
    /\ UNCHANGED <<item, opened, outcomes, watcherVars, flagVars, phase, signal,
                   kernelVars, late>>

ExplainChange ==
    /\ pc = "explain"
    /\ outcome' = IF outcome.note = "none" /\ (cancel \/ fileChanged)
                  THEN [outcome EXCEPT !.note = "file_changed"] ELSE outcome
    /\ pc' = "next"
    /\ UNCHANGED <<item, opened, outcomes, watcherVars, flagVars, phase, signal,
                   kernelVars, late>>

(* prepare_next_edit, and on to the next request: a failed commit opens    *)
(* the gate again, a successful one leaves it Committed.                   *)
NextItem ==
    /\ pc = "next"
    /\ outcomes' = Append(outcomes, outcome)
    /\ outcome' = NoOutcome
    /\ item' = item + 1
    /\ pc' = IF item < Len(Requests) THEN "open" ELSE "stop"
    /\ phase' = IF phase = "Committing" /\ ~(timeout \/ fileChanged \/ cancel)
                THEN "Watching" ELSE phase
    /\ UNCHANGED <<opened, watcherVars, flagVars, signal, kernelVars, late>>

(* Mutant: the flag is set, the watcher is not told.                       *)
SignalForgotten ==
    /\ pc = "signal"
    /\ pc' = "join"
    /\ UNCHANGED <<item, opened, outcome, outcomes, watcherVars, flagVars, phase, signal,
                   kernelVars, late>>

(* edit_watcher::stop: the flag, the signal, a bounded wait for finished;  *)
(* then the thread is cancelled, or joined.                                *)
Stop ==
    /\ pc = "stop"
    /\ stop' = TRUE
    /\ pc' = "signal"
    /\ UNCHANGED <<item, opened, outcome, outcomes, watcherVars, ready, finished,
                   fileChanged, cancel, timeout, phase, signal, kernelVars, late>>

Signal ==
    /\ pc = "signal"
    /\ signal' = (watcher \notin {"left", "ended"})
    /\ pc' = "join"
    /\ UNCHANGED <<item, opened, outcome, outcomes, watcherVars, flagVars, phase,
                   kernelVars, late>>

(* pthread_cancel unwinds the watcher through a catch (...) that does not  *)
(* rethrow, which ends the process.                                        *)
GiveUp ==
    /\ pc = "join"
    /\ ~finished
    /\ pc' = "aborted"
    /\ UNCHANGED <<item, opened, outcome, outcomes, watcherVars, flagVars, phase, signal,
                   kernelVars, late>>

(* Mutant: a failed watcher is taken for one that saw nothing.             *)
FinalizeForgetsError(o) ==
    IF ~o.replaced /\ o.note = "none" /\ event = "HasEvent"
    THEN [o EXCEPT !.note = "file_changed"]
    ELSE o

(* finalize_watcher_result for one request.                                *)
Finalize(o) ==
    IF error = "exception" THEN [o EXCEPT !.error = "exception"]
    ELSE IF error # "none" THEN IF o.error = "none" THEN [o EXCEPT !.error = error] ELSE o
    ELSE IF ~o.replaced /\ o.note = "none" /\ event = "HasEvent"
    THEN [o EXCEPT !.note = "file_changed"]
    ELSE o

Join ==
    /\ pc = "join"
    /\ watcher = "ended"
    /\ outcomes' = [i \in DOMAIN outcomes |-> Finalize(outcomes[i])]
    /\ pc' = "done"
    /\ UNCHANGED <<item, opened, outcome, watcherVars, flagVars, phase, signal,
                   kernelVars, late>>

-----------------------------------------------------------------------------
(* Another process writes one of the files; the kernel may have no room    *)
(* for the event, and then says so once.  A watcher that starts may or may *)
(* not have added its watch.                                               *)
ForeignChange(f) ==
    /\ changes < MaxChanges
    /\ changes' = changes + 1
    /\ disk' = [disk EXCEPT ![f] = @ + 1]
    /\ \/ queue' = queue + 1 /\ UNCHANGED overflow
       \/ overflow' = "queued" /\ UNCHANGED queue
       \/ watcher = "starting" /\ UNCHANGED <<queue, overflow>>
    /\ UNCHANGED <<editVars, watcherVars, flagVars, phase, signal, late>>

-----------------------------------------------------------------------------

(* What the watcher does when it is scheduled; it need neither fail nor    *)
(* reach its deadline, which is 24 days away.                              *)
WatcherRuns ==
    \/ WatcherReady \/ ReadEvents \/ MatchEvent \/ PublishChange \/ BufferDone
    \/ StopSeen \/ RequestTimeout \/ PublishTimeout \/ PublishCancel
    \/ Leave \/ StoreResult

WatcherStep ==
    WatcherRuns \/ Deadline \/ \E e \in {"error", "exception"} : WatcherFails(e)

EditRuns ==
    \/ Ready \/ \E seen \in BOOLEAN : StartupFailed(seen)
    \/ Open \/ Read \/ Prepare \/ Gate \/ Begin \/ Rename \/ MarkCommitted
    \/ ExplainTimeout \/ ExplainChange \/ NextItem
    \/ Stop \/ Signal \/ Join

Next == /\ pc # "aborted"
        /\ \/ WatcherStep
           \/ EditRuns
           \/ GiveUp
           \/ \E f \in Files : ForeignChange(f)

Spec == Init /\ [][Next]_vars

(* Both threads are scheduled and every system call returns.               *)
FairSpec == /\ Spec
            /\ WF_vars(pc # "aborted" /\ EditRuns)
            /\ WF_vars(pc # "aborted" /\ WatcherRuns)

-----------------------------------------------------------------------------
(* Properties.                                                             *)

Outcome == [replaced : BOOLEAN, attempted : BOOLEAN,
            error : {"none", "file", "timeout", "error", "exception"},
            note : {"none", "file_changed", "timeout", "not_unique"}]

(* Every variable has its type; there is one outcome per request, and      *)
(* nothing is carried over from one request to the next.                   *)
TypeOK ==
    /\ pc \in {"starting", "open", "read", "prepare", "gate", "begin", "rename", "mark",
               "failed", "explain", "next", "stop", "signal", "join", "done", "aborted"}
    /\ item \in 1 .. Len(Requests) + 1
    /\ pc \in {"starting", "open", "read", "prepare", "gate", "begin", "rename", "mark",
               "failed", "explain", "next"} => item <= Len(Requests)
    /\ opened \in Nat
    /\ outcome \in Outcome
    /\ pc \in {"starting", "open", "read", "prepare", "gate", "begin", "rename"}
          => outcome = NoOutcome
    /\ outcomes \in Seq(Outcome)
    /\ Len(outcomes) = item - 1
    /\ watcher \in {"starting", "waiting", "matching", "publishing", "cancelling",
                    "expiring", "timing_out", "leaving", "left", "ended"}
    /\ buffer \in Nat
    /\ event \in {"None", "HasEvent", "NoEvent"}
    /\ error \in {"none", "error", "exception"}
    /\ ready \in BOOLEAN /\ finished \in BOOLEAN /\ fileChanged \in BOOLEAN
    /\ cancel \in BOOLEAN /\ timeout \in BOOLEAN /\ stop \in BOOLEAN
    /\ phase \in {"Watching", "Committing", "Committed", "TimedOut"}
    /\ signal \in BOOLEAN
    /\ disk \in [Files -> Nat]
    /\ queue \in Nat
    /\ overflow \in {"no", "queued", "told"}
    /\ changes \in 0 .. MaxChanges
    /\ late \in Nat

(* A timeout is final for the whole batch, although it takes three stores  *)
(* and a commit many steps: once the watcher won the gate no rename is     *)
(* under way, and after a request that reports the timeout none was        *)
(* replaced.                                                               *)
TimeoutExcludesCommit ==
    /\ phase = "TimedOut" \/ timeout \/ watcher = "timing_out" =>
          pc \notin {"rename", "mark"} /\ ~outcome.replaced
    /\ \A i \in DOMAIN outcomes : outcomes[i].note = "timeout" =>
          \A j \in i .. Len(outcomes) : ~outcomes[j].replaced

(* Once a foreign change was published, at most the one edit that had      *)
(* already passed its checks is still committed.                           *)
OneLateCommit == late <= 1

(* What the edit relies on when it takes the gate: as long as nothing was  *)
(* committed, a watcher that is up, has been told everything and published *)
(* nothing means that the source is what it was when the edit opened it.   *)
UnseenMeansUnchanged ==
    /\ pc \in {"read", "prepare", "gate", "begin"}
    /\ phase = "Watching"
    /\ watcher = "waiting" /\ queue = 0 /\ overflow = "no"
    => disk[Current] = opened

Ok(o) == o.error = "none" /\ o.note = "none"

(* What edit_file reports is what it did: an edit is reported as made only *)
(* if it was, the loss of the gate to a timeout apart; and one that was    *)
(* made is reported otherwise only when the watcher itself had failed.     *)
ReportsTruthful ==
    pc = "done" => \A i \in DOMAIN Requests :
       /\ Ok(outcomes[i]) => outcomes[i].replaced \/ phase = "TimedOut"
       /\ outcomes[i].replaced => Ok(outcomes[i]) \/ error # "none"

(* edit_file returns, or the process ends.                                 *)
EditReturns == <>(pc \in {"done", "aborted"})

=============================================================================
