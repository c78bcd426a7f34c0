------------------------------- MODULE RunTurn -------------------------------
(***************************************************************************)
(* run_turn: one provider turn.  The calling thread registers on the event *)
(* port, starts the request thread and reads; the request thread runs the  *)
(* provider's compaction (a summary request first, when there is something *)
(* to summarize) and emits what it hears through the registration, which   *)
(* is the one-place channel of PortChannel.  The observers of the caller,  *)
(* event_log and stream, may throw whenever they are called.               *)
(***************************************************************************)
EXTENDS Naturals, Sequences

CONSTANTS Stream,   (* the registration of this turn                        *)
          NoEvent,  (* the null EventPtr                                    *)
          MaxData   (* bound: how many data events a request brings         *)

Event == [type : {"data", "finished", "http_error", "failed"},
          phase : {"summary", "request"}]

Error == [type : {"http_error", "failed"}, from : {"summary", "check_summary", "request"}]
NoError == [type |-> "none", from |-> "none"]

ASSUME TurnAssumption == NoEvent \notin Event /\ MaxData \in Nat

VARIABLES
    slot, closed,      (* the registration                                  *)
    pc,                (* where run_turn is                                 *)
    request,           (* where the request thread is                       *)
    compacts,          (* has_summary                                       *)
    received,          (* how many data events the current request brought  *)
    summaryFinished,   (* summary_finished                                  *)
    summaryClosed,     (* summary_closed                                    *)
    requestError,      (* request_error, and which request it is from       *)
    result,            (* request_result has a value                        *)
    eventLogError,     (* event_log_error is set                            *)
    streamError,       (* stream_error is set                               *)
    started,           (* the response builder saw an assistant delta       *)
    outcome,           (* how run_turn ended                                *)
    shown              (* history: what the stream callback was given       *)

port       == <<slot, closed>>
threadVars == <<request, received, summaryFinished, requestError, result>>
readerVars == <<eventLogError, streamError, started, shown, summaryClosed>>
vars == <<port, pc, compacts, threadVars, readerVars, outcome>>

Port == INSTANCE PortChannel WITH Registrations <- {Stream}, Events <- Event

Init == /\ Port!Init
        /\ pc = "start"
        /\ request = "none"
        /\ compacts \in BOOLEAN
        /\ received = 0
        /\ summaryFinished = ~compacts
        /\ summaryClosed = ~compacts
        /\ requestError = NoError
        /\ result = FALSE
        /\ eventLogError = FALSE
        /\ streamError = FALSE
        /\ started = FALSE
        /\ outcome = "none"
        /\ shown = <<>>

-----------------------------------------------------------------------------
(* The request thread.                                                     *)

Emit(type, phase) == Port!Put(Stream, [type |-> type, phase |-> phase])

(* The sink context an error is attributed to.                             *)
ErrorPhase == IF summaryFinished THEN "request" ELSE "summary"

(* An SSE event arrived; the callback blocks while the slot is full.       *)
Receive ==
    /\ request \in {"summary", "request"}
    /\ received < MaxData
    /\ received' = received + 1
    /\ Emit("data", request)
    /\ UNCHANGED <<pc, request, compacts, summaryFinished, requestError, result,
                   readerVars, outcome>>

(* on_finished of the summary request, then of the final one.              *)
FinishSummary ==
    /\ request = "summary"
    /\ Emit("finished", "summary")
    /\ summaryFinished' = TRUE
    /\ request' = "check_summary"
    /\ UNCHANGED <<pc, compacts, received, requestError, result, readerVars, outcome>>

(* The summary has text and a usage, both of which came as data, and the   *)
(* final request goes out.                                                 *)
SummaryAccepted ==
    /\ request = "check_summary"
    /\ received > 0
    /\ request' = "request"
    /\ received' = 0
    /\ UNCHANGED <<port, pc, compacts, summaryFinished, requestError, result,
                   readerVars, outcome>>

(* The last thing the callbacks say; what the request returns is stored    *)
(* after that.                                                             *)
FinishRequest ==
    /\ request = "request"
    /\ Emit("finished", "request")
    /\ request' = "returning"
    /\ UNCHANGED <<pc, compacts, received, summaryFinished, requestError, result,
                   readerVars, outcome>>

(* A request throws: before it receives anything, because its status is an *)
(* error and its body is kept for the HttpError, while it receives, or     *)
(* because the summary that came is of no use.                             *)
RequestThrows(error) ==
    /\ request \in {"summary", "check_summary", "request"}
    /\ error = "http_error" => request # "check_summary" /\ received = 0
    /\ requestError' = [type |-> error, from |-> request]
    /\ request' = "throwing"
    /\ UNCHANGED <<port, pc, compacts, received, summaryFinished, result, readerVars,
                   outcome>>

(* Mutant: an error is kept for the caller and not published.              *)
EmitErrorSwallowed ==
    /\ request = "throwing"
    /\ request' = "returning"
    /\ UNCHANGED <<port, pc, compacts, received, summaryFinished, requestError,
                   result, readerVars, outcome>>

EmitError ==
    /\ request = "throwing"
    /\ Emit(requestError.type, ErrorPhase)
    /\ request' = "returning"
    /\ UNCHANGED <<pc, compacts, received, summaryFinished, requestError, result,
                   readerVars, outcome>>

(* The thread stores its result, if it has one, and ends.                  *)
ThreadEnds ==
    /\ request = "returning"
    /\ result' = (requestError = NoError)
    /\ request' = "ended"
    /\ UNCHANGED <<port, pc, compacts, received, summaryFinished, requestError,
                   readerVars, outcome>>

-----------------------------------------------------------------------------
(* The calling thread, up to the loop that reads.                          *)

(* summary_start is shown before the request thread exists.                *)
Start ==
    /\ pc = "start"
    /\ pc' = "reading"
    /\ request' = IF compacts THEN "summary" ELSE "request"
    /\ shown' = IF compacts THEN <<"summary_start">> ELSE <<>>
    /\ UNCHANGED <<port, compacts, received, summaryFinished, summaryClosed,
                   requestError, result, eventLogError, streamError, started, outcome>>

StartThrows ==
    /\ pc = "start"
    /\ compacts
    /\ Port!Discard(Stream)
    /\ pc' = "done"
    /\ outcome' = "stream_error"
    /\ UNCHANGED <<compacts, threadVars, readerVars>>

(* No thread can be had, when summary_start was shown already.             *)
StartFails ==
    /\ pc = "start"
    /\ Port!Discard(Stream)
    /\ pc' = "done"
    /\ outcome' = "not_started"
    /\ shown' = IF compacts THEN <<"summary_start">> ELSE <<>>
    /\ UNCHANGED <<compacts, threadVars, summaryClosed, eventLogError, streamError,
                   started>>

-----------------------------------------------------------------------------
(* The loop: take an event, tell event_log, act on the event.              *)

(* event_log is told of every event until it throws once.                  *)
Observe(throws) == eventLogError' = (eventLogError \/ throws)

Read(types, phases) ==
    /\ pc = "reading"
    /\ slot[Stream] # NoEvent
    /\ slot[Stream].type \in types
    /\ slot[Stream].phase \in phases
    /\ Port!Take(Stream)

(* Mutant: an error leaves the summary open.                               *)
CloseSummaryForgotten(items) ==
    /\ shown' = shown \o items
    /\ UNCHANGED summaryClosed

(* close_summary, after the items were shown.                              *)
CloseSummary(items) ==
    /\ shown' = shown \o items \o (IF summaryClosed THEN <<>> ELSE <<"summary_end">>)
    /\ summaryClosed' = TRUE

(* Data is shown unless the builder or the callback failed before or fails *)
(* now; the events that follow are still drained.                          *)
ReadData(logThrows, appends) ==
    LET phase == slot[Stream].phase
    IN /\ Read({"data"}, {"summary", "request"})
       /\ Observe(logThrows)
       /\ IF streamError \/ ~appends
          THEN /\ streamError' = TRUE
               /\ UNCHANGED <<shown, started>>
          ELSE /\ shown' = Append(shown, phase)
               /\ started' = (started \/ phase = "request")
               /\ UNCHANGED streamError
       /\ UNCHANGED <<pc, compacts, threadVars, summaryClosed, outcome>>

(* A data event without text shows nothing; a delta in it, unless the      *)
(* event is only drained, counts as the start of the answer.               *)
ReadEmptyData(logThrows, delta) ==
    /\ Read({"data"}, {"summary", "request"})
    /\ Observe(logThrows)
    /\ started' = (started \/ (delta /\ ~streamError /\ slot[Stream].phase = "request"))
    /\ UNCHANGED <<pc, compacts, threadVars, streamError, shown, summaryClosed, outcome>>

ReadSummaryFinished(logThrows) ==
    /\ Read({"finished"}, {"summary"})
    /\ Observe(logThrows)
    /\ CloseSummary(<<>>)
    /\ UNCHANGED <<pc, compacts, threadVars, streamError, started, outcome>>

(* Mutant: the loop ends with the summary.                                 *)
LastEventAny == /\ Read({"finished"}, {"summary", "request"})
                /\ UNCHANGED <<shown, summaryClosed>>

(* The final request finished, or failed: the error is shown, and the      *)
(* summary, if it is still open, is closed.                                *)
LastEvent ==
    \/ /\ Read({"finished"}, {"request"})
       /\ UNCHANGED <<shown, summaryClosed>>
    \/ /\ Read({"http_error"}, {"summary", "request"})
       /\ CloseSummary(<<"http_error">>)
    \/ /\ Read({"failed"}, {"summary", "request"})
       /\ CloseSummary(<<>>)

LeaveLoop(logThrows) ==
    /\ LastEvent
    /\ Observe(logThrows)
    /\ pc' = "joining"
    /\ UNCHANGED <<compacts, threadVars, streamError, started, outcome>>

(* An exception leaves the loop: the stream callback threw at the error or *)
(* at summary_end, or the body of the error could not be serialized.  The  *)
(* request thread is still joinable, so its destructor ends the process.   *)
Terminate ==
    /\ \/ Read({"http_error"}, {"summary", "request"})
       \/ ~summaryClosed /\ Read({"finished"}, {"summary"})
       \/ ~summaryClosed /\ Read({"failed"}, {"summary", "request"})
    /\ pc' = "done"
    /\ outcome' = "terminated"
    /\ UNCHANGED <<compacts, threadVars, readerVars>>

-----------------------------------------------------------------------------
(* After the loop: join, close the summary if an end is still owed, then   *)
(* the first error in a fixed order, or the result.  The Registration goes *)
(* out of scope.                                                           *)

(* Mutant: the errors of the observers come first.                         *)
VerdictObserversFirst(complete) ==
    IF eventLogError THEN "event_log_error"
    ELSE IF streamError THEN "stream_error"
    ELSE IF requestError # NoError THEN "request_error"
    ELSE IF result /\ complete THEN "returned"
    ELSE "no_result"

Verdict(complete) ==
    IF requestError # NoError THEN "request_error"
    ELSE IF eventLogError THEN "event_log_error"
    ELSE IF streamError THEN "stream_error"
    ELSE IF result /\ complete THEN "returned"
    ELSE "no_result"

(* Mutant: the thread is detached.                                         *)
JoinForgotten == pc = "joining"

Join == pc = "joining" /\ request = "ended"

Finish ==
    /\ Join
    /\ CloseSummary(<<>>)
    /\ outcome' = Verdict(started)
    /\ pc' = "done"
    /\ Port!Discard(Stream)
    /\ UNCHANGED <<compacts, threadVars, eventLogError, streamError, started>>

-----------------------------------------------------------------------------

(* What the request thread does once the provider answers, and what the    *)
(* calling thread does.                                                    *)
RequestStep ==
    \/ Receive \/ FinishSummary \/ SummaryAccepted \/ FinishRequest
    \/ EmitError \/ ThreadEnds
    \/ \E error \in {"http_error", "failed"} : RequestThrows(error)

TurnStep ==
    \/ Start \/ StartThrows \/ StartFails
    \/ \E throws \in BOOLEAN :
          \/ \E appends \in BOOLEAN : ReadData(throws, appends)
          \/ \E delta \in BOOLEAN : ReadEmptyData(throws, delta)
          \/ ReadSummaryFinished(throws)
          \/ LeaveLoop(throws)
    \/ Terminate
    \/ Finish

Next == (outcome # "terminated" /\ RequestStep) \/ TurnStep

Spec == Init /\ [][Next]_vars

(* The provider ends each request, with or without an error, and both      *)
(* threads are scheduled.                                                  *)
FairSpec == Spec /\ WF_vars(outcome # "terminated" /\ RequestStep) /\ WF_vars(TurnStep)

-----------------------------------------------------------------------------
(* Properties.                                                             *)

Shown == {"summary_start", "summary", "summary_end", "request", "http_error"}

(* Every variable has its type.                                            *)
TypeOK ==
    /\ slot \in [{Stream} -> Event \cup {NoEvent}]
    /\ closed \in [{Stream} -> BOOLEAN]
    /\ pc \in {"start", "reading", "joining", "done"}
    /\ request \in {"none", "summary", "check_summary", "request", "throwing",
                    "returning", "ended"}
    /\ compacts \in BOOLEAN
    /\ received \in 0 .. MaxData
    /\ summaryFinished \in BOOLEAN
    /\ summaryClosed \in BOOLEAN
    /\ requestError \in Error \cup {NoError}
    /\ result \in BOOLEAN
    /\ eventLogError \in BOOLEAN
    /\ streamError \in BOOLEAN
    /\ started \in BOOLEAN
    /\ outcome \in {"none", "returned", "request_error", "event_log_error",
                    "stream_error", "not_started", "no_result", "terminated"}
    /\ shown \in Seq(Shown)

(* The loop stops at the last event the request thread will ever emit:     *)
(* when it is left nothing is in the slot and the thread has nothing more  *)
(* to say, so that the join cannot wait for a thread blocked in Emit.      *)
NothingLeftBehind ==
    pc \in {"joining", "done"} /\ outcome # "terminated" =>
       /\ slot[Stream] = NoEvent
       /\ request \in {"none", "returning", "ended"}

(* The process never goes on with a request thread that works on locals of *)
(* a run_turn that is over.                                                *)
JoinedBeforeReturn ==
    outcome \notin {"none", "terminated"} => request \in {"none", "ended"}

(* The caller sees the summary between its start and its end, the answer   *)
(* only after that, an HTTP error at most once and as the last thing but   *)
(* the end of the summary; when run_turn is over, every summary that was   *)
(* started has ended, unless there was no thread to ask for it.  An error  *)
(* on its way is attributed to the request that failed, a summary that came*)
(* but is of no use to the final one.                                      *)
StreamInOrder ==
    LET at(x) == {i \in DOMAIN shown : shown[i] = x}
    IN /\ \A i \in at("summary_start") : i = 1
       /\ at("summary_start") # {} <=> compacts /\ shown # <<>>
       /\ \A i \in at("summary"), j \in at("summary_end") : i < j
       /\ \A i \in at("summary_end"), j \in at("request") : i < j
       /\ \A i, j \in at("summary_end") : i = j
       /\ compacts /\ at("request") # {} => at("summary_end") # {}
       /\ \A i \in at("http_error") :
             \A j \in i + 1 .. Len(shown) : shown[j] = "summary_end"
       /\ pc = "done" /\ outcome \notin {"not_started", "terminated"}
             /\ shown # <<>> /\ compacts => at("summary_end") # {}
       /\ slot[Stream] # NoEvent /\ slot[Stream].type \in {"http_error", "failed"} =>
             /\ slot[Stream].type = requestError.type
             /\ slot[Stream].phase =
                   IF requestError.from = "summary" THEN "summary" ELSE "request"

(* An observer that throws hides no failure of the provider, and a turn    *)
(* that returns had no error at all and a response.                        *)
FailuresSurface ==
    /\ requestError # NoError /\ pc = "done" =>
          outcome \in {"request_error", "terminated"}
    /\ outcome = "returned" =>
          ~eventLogError /\ ~streamError /\ requestError = NoError /\ started

(* Whatever the provider answers and the observers throw, run_turn ends.   *)
TurnEnds == <>(pc = "done")

(* docs/BLOCK_SESSION.md says of http_error that the original exception is *)
(* propagated after the request thread ended.                              *)
OriginalPropagated == outcome # "terminated"

=============================================================================
