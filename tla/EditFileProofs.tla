--------------------------- MODULE EditFileProofs ---------------------------
(***************************************************************************)
(* What holds of edit_file for every batch of requests and however often   *)
(* other processes write.                                                  *)
(*                                                                         *)
(* The steps of the watcher leave the variables of the editor alone and    *)
(* only ever set flags, those of the editor leave the watcher alone; the   *)
(* two meet in phase.  Two lemmas say so once; each invariant then needs a *)
(* look at those actions only that touch what it speaks of.                *)
(***************************************************************************)
EXTENDS EditFile, SequenceTheorems, TLAPS

(* What a step of the watcher does, as far as the editor can tell.         *)
WatcherEffect ==
    /\ UNCHANGED <<editVars, stop, signal, disk, changes, late>>
    /\ (ready => ready') /\ (finished => finished') /\ (fileChanged => fileChanged')
    /\ (cancel => cancel') /\ (timeout => timeout')
    /\ phase' = phase \/ (phase = "Watching" /\ phase' = "TimedOut")
    /\ error # "none" => error' # "none"

(* What a step of the editor leaves alone.                                 *)
EditEffect == UNCHANGED <<watcherVars, ready, finished, fileChanged, cancel, timeout,
                          overflow, changes>>

LEMMA WatcherLeavesEditor ==
    ASSUME WatcherStep
    PROVE  WatcherEffect
<1> USE DEF WatcherEffect, editVars, kernelVars, flagVars
<1>1. CASE WatcherReady BY <1>1 DEF WatcherReady
<1>2. CASE ReadEvents BY <1>2 DEF ReadEvents
<1>3. CASE MatchEvent BY <1>3 DEF MatchEvent
<1>4. CASE PublishChange BY <1>4 DEF PublishChange
<1>5. CASE BufferDone BY <1>5 DEF BufferDone
<1>6. CASE StopSeen BY <1>6 DEF StopSeen
<1>7. CASE RequestTimeout BY <1>7 DEF RequestTimeout
<1>8. CASE PublishTimeout BY <1>8 DEF PublishTimeout
<1>9. CASE PublishCancel BY <1>9 DEF PublishCancel
<1>10. CASE Leave BY <1>10 DEF Leave
<1>11. CASE StoreResult BY <1>11 DEF StoreResult
<1>12. CASE Deadline BY <1>12 DEF Deadline
<1>13. ASSUME NEW e \in {"error", "exception"}, WatcherFails(e)
       PROVE  WatcherEffect
  BY <1>13 DEF WatcherFails
<1> QED BY <1>1, <1>2, <1>3, <1>4, <1>5, <1>6, <1>7, <1>8, <1>9, <1>10, <1>11, <1>12,
           <1>13 DEF WatcherStep, WatcherRuns

LEMMA EditorLeavesWatcher ==
    ASSUME EditRuns \/ GiveUp
    PROVE  EditEffect
<1> USE DEF EditEffect, watcherVars, kernelVars, flagVars
<1>1. CASE Ready BY <1>1 DEF Ready
<1>2. ASSUME NEW seen \in BOOLEAN, StartupFailed(seen)
      PROVE  EditEffect
  BY <1>2 DEF StartupFailed
<1>3. CASE Open BY <1>3 DEF Open
<1>4. CASE Read BY <1>4 DEF Read
<1>5. CASE Prepare BY <1>5 DEF Prepare
<1>6. CASE Gate BY <1>6 DEF Gate
<1>7. CASE Begin BY <1>7 DEF Begin
<1>8. CASE Rename BY <1>8 DEF Rename
<1>9. CASE MarkCommitted BY <1>9 DEF MarkCommitted
<1>10. CASE ExplainTimeout BY <1>10 DEF ExplainTimeout
<1>11. CASE ExplainChange BY <1>11 DEF ExplainChange
<1>12. CASE NextItem BY <1>12 DEF NextItem
<1>13. CASE Stop BY <1>13 DEF Stop
<1>14. CASE Signal BY <1>14 DEF Signal
<1>15. CASE Join BY <1>15 DEF Join
<1>16. CASE GiveUp BY <1>16 DEF GiveUp
<1> QED BY <1>1, <1>2, <1>3, <1>4, <1>5, <1>6, <1>7, <1>8, <1>9, <1>10, <1>11, <1>12,
           <1>13, <1>14, <1>15, <1>16 DEF EditRuns

-----------------------------------------------------------------------------
(* Types.                                                                  *)

LEMMA FunctionSeq ==
    ASSUME NEW S, NEW n \in Nat, NEW s \in [1 .. n -> S]
    PROVE  s \in Seq(S) /\ Len(s) = n
<1>1. s \in Seq(S)
  BY SeqDef
<1>2. Len(s) \in Nat /\ 1 .. Len(s) = 1 .. n
  BY <1>1, LenProperties
<1> QED BY <1>1, <1>2

LEMMA OutcomeTypes ==
    /\ NoOutcome \in Outcome
    /\ \A o \in Outcome :
          /\ \A e \in {"none", "file", "timeout", "error", "exception"} :
                [o EXCEPT !.error = e] \in Outcome
          /\ [o EXCEPT !.note = "file_changed"] \in Outcome
          /\ [o EXCEPT !.note = "not_unique"] \in Outcome
          /\ [o EXCEPT !.error = "file", !.note = "file_changed"] \in Outcome
          /\ [o EXCEPT !.error = "timeout", !.note = "timeout"] \in Outcome
          /\ [o EXCEPT !.attempted = TRUE, !.replaced = TRUE] \in Outcome
          /\ [o EXCEPT !.attempted = TRUE, !.error = "file"] \in Outcome
BY DEF NoOutcome, Outcome

LEMMA ApplyTimeoutType ==
    ASSUME NEW o \in Outcome
    PROVE  ApplyTimeout(o) \in Outcome /\ Cancelled(o) \in Outcome
BY OutcomeTypes DEF ApplyTimeout, Cancelled

LEMMA FinalizeType ==
    ASSUME NEW o \in Outcome, error \in {"none", "error", "exception"}
    PROVE  Finalize(o) \in Outcome
<1>1. \A e \in {"none", "error", "exception"} : [o EXCEPT !.error = e] \in Outcome
  BY OutcomeTypes
<1>2. [o EXCEPT !.note = "file_changed"] \in Outcome
  BY OutcomeTypes
<1> QED BY <1>1, <1>2 DEF Finalize

LEMMA TypeInit == Init => TypeOK
<1> SUFFICES ASSUME Init PROVE TypeOK
  OBVIOUS
<1>1. outcomes \in Seq(Outcome) /\ Len(outcomes) = 0
  BY DEF Init
<1>2. Len(Requests) \in Nat /\ Len(Requests) >= 1
  BY EditAssumption
<1>3. outcome \in Outcome
  BY OutcomeTypes DEF Init
<1>4. /\ item \in 1 .. Len(Requests) + 1 /\ item <= Len(Requests)
      /\ Len(outcomes) = item - 1
      /\ changes \in 0 .. MaxChanges
  BY <1>1, <1>2, EditAssumption DEF Init
<1>5. disk \in [Files -> Nat]
  BY DEF Init
<1> QED BY <1>1, <1>3, <1>4, <1>5 DEF Init, TypeOK

LEMMA WatcherTypes == TypeOK /\ WatcherStep => TypeOK'
<1> SUFFICES ASSUME TypeOK, WatcherStep PROVE TypeOK'
  OBVIOUS
<1> DEFINE Types == /\ watcher' \in {"starting", "waiting", "matching", "publishing",
                                     "cancelling", "expiring", "timing_out", "leaving",
                                     "left", "ended"}
                    /\ buffer' \in Nat
                    /\ event' \in {"None", "HasEvent", "NoEvent"}
                    /\ error' \in {"none", "error", "exception"}
                    /\ ready' \in BOOLEAN /\ finished' \in BOOLEAN
                    /\ fileChanged' \in BOOLEAN
                    /\ cancel' \in BOOLEAN /\ timeout' \in BOOLEAN
                    /\ phase' \in {"Watching", "Committing", "Committed", "TimedOut"}
                    /\ queue' \in Nat
                    /\ overflow' \in {"no", "queued", "told"}
<1>1. Types
  <2> USE DEF TypeOK, editVars, kernelVars, flagVars
  <2>1. CASE WatcherReady BY <2>1 DEF WatcherReady
  <2>2. CASE ReadEvents BY <2>2 DEF ReadEvents
  <2>3. CASE MatchEvent BY <2>3 DEF MatchEvent
  <2>4. CASE PublishChange BY <2>4 DEF PublishChange
  <2>5. CASE BufferDone BY <2>5 DEF BufferDone
  <2>6. CASE StopSeen BY <2>6 DEF StopSeen
  <2>7. CASE RequestTimeout BY <2>7 DEF RequestTimeout
  <2>8. CASE PublishTimeout BY <2>8 DEF PublishTimeout
  <2>9. CASE PublishCancel BY <2>9 DEF PublishCancel
  <2>10. CASE Leave BY <2>10 DEF Leave
  <2>11. CASE StoreResult BY <2>11 DEF StoreResult
  <2>12. CASE Deadline BY <2>12 DEF Deadline
  <2>13. ASSUME NEW e \in {"error", "exception"}, WatcherFails(e)
         PROVE  Types
    BY <2>13 DEF WatcherFails
  <2> QED BY <2>1, <2>2, <2>3, <2>4, <2>5, <2>6, <2>7, <2>8, <2>9, <2>10, <2>11, <2>12,
             <2>13 DEF WatcherStep, WatcherRuns
<1>2. UNCHANGED <<pc, item, opened, outcome, outcomes, stop, signal, disk, changes, late>>
  BY WatcherLeavesEditor DEF WatcherEffect, editVars
<1> QED BY <1>1, <1>2 DEF TypeOK

LEMMA EditTypes == TypeOK /\ (EditRuns \/ GiveUp) => TypeOK'
<1> SUFFICES ASSUME TypeOK, EditRuns \/ GiveUp PROVE TypeOK'
  OBVIOUS
<1>0. Len(Requests) \in Nat /\ Requests \in Seq(Files)
  BY EditAssumption
<1> DEFINE Types ==
      /\ pc' \in {"starting", "open", "read", "prepare", "gate", "begin", "rename", "mark",
                  "failed", "explain", "next", "stop", "signal", "join", "done", "aborted"}
      /\ pc' \in {"starting", "open", "read", "prepare", "gate", "begin", "rename", "mark",
                  "failed", "explain", "next"} => item' <= Len(Requests)
      /\ item' \in 1 .. Len(Requests) + 1
      /\ opened' \in Nat
      /\ outcome' \in Outcome
      /\ pc' \in {"starting", "open", "read", "prepare", "gate", "begin", "rename"}
            => outcome' = NoOutcome
      /\ outcomes' \in Seq(Outcome)
      /\ Len(outcomes') = item' - 1
      /\ stop' \in BOOLEAN
      /\ signal' \in BOOLEAN
      /\ phase' \in {"Watching", "Committing", "Committed", "TimedOut"}
      /\ disk' \in [Files -> Nat]
      /\ queue' \in Nat
      /\ late' \in Nat
<1>1. Types
  <2> USE <1>0 DEF TypeOK, watcherVars, kernelVars, flagVars
  <2>1. CASE Ready BY <2>1 DEF Ready
  <2>2. ASSUME NEW seen \in BOOLEAN, StartupFailed(seen)
        PROVE  Types
    <3>1. [NoOutcome EXCEPT !.error = IF seen THEN error ELSE "none"] \in Outcome
      BY OutcomeTypes
    <3>2. outcomes' \in [1 .. Len(Requests) -> Outcome]
      <4>1. DOMAIN Requests = 1 .. Len(Requests)
        BY EditAssumption
      <4> QED BY <2>2, <3>1, <4>1, Zenon DEF StartupFailed
    <3>3. outcomes' \in Seq(Outcome) /\ Len(outcomes') = Len(Requests)
      BY <1>0, <3>2, FunctionSeq
    <3> QED BY <2>2, <3>3 DEF StartupFailed
  <2>3. CASE Open
    <3>1. pc = "open" /\ Current \in Files
      BY <2>3 DEF Open, Current
    <3> QED BY <2>3, <3>1, OutcomeTypes DEF Open
  <2>4. CASE Read
    <3>1. outcome' \in Outcome
      BY <2>4, OutcomeTypes, ApplyTimeoutType DEF Read
    <3> QED BY <2>4, <3>1 DEF Read
  <2>5. CASE Prepare BY <2>5, OutcomeTypes DEF Prepare
  <2>6. CASE Gate BY <2>6 DEF Gate
  <2>7. CASE Begin BY <2>7 DEF Begin
  <2>8. CASE Rename
    <3>1. Current \in Files
      BY <2>8 DEF Rename, Current
    <3>2. [disk EXCEPT ![Current] = @ + 1] \in [Files -> Nat]
      BY <3>1
    <3>3. outcome' \in Outcome
      BY <2>8, OutcomeTypes DEF Rename
    <3>4. /\ pc' \in {"mark", "failed"} /\ pc = "rename"
          /\ queue' \in {queue, queue + 1} /\ late' \in {late, late + 1}
          /\ UNCHANGED <<item, opened, outcomes, stop, phase, signal>>
      BY <2>8, Zenon DEF Rename
    <3>5. disk' \in [Files -> Nat]
      BY <2>8, <3>2, Zenon DEF Rename
    <3>6. /\ pc' \notin {"starting", "open", "read", "prepare", "gate", "begin", "rename"}
          /\ item <= Len(Requests)
      BY <3>4
    <3> QED BY <3>3, <3>4, <3>5, <3>6
  <2>9. CASE MarkCommitted BY <2>9 DEF MarkCommitted
  <2>10. CASE ExplainTimeout BY <2>10, ApplyTimeoutType DEF ExplainTimeout
  <2>11. CASE ExplainChange BY <2>11, OutcomeTypes DEF ExplainChange
  <2>12. CASE NextItem
    <3>1. outcomes' \in Seq(Outcome) /\ Len(outcomes') = Len(outcomes) + 1
      BY <2>12 DEF NextItem
    <3>2. outcome' \in Outcome /\ outcome' = NoOutcome
      BY <2>12, OutcomeTypes DEF NextItem
    <3> QED BY <2>12, <3>1, <3>2 DEF NextItem
  <2>13. CASE Stop BY <2>13 DEF Stop
  <2>14. CASE Signal BY <2>14 DEF Signal
  <2>15. CASE Join
    <3>1. \A i \in DOMAIN outcomes : Finalize(outcomes[i]) \in Outcome
      BY FinalizeType
    <3>2. outcomes' \in [1 .. Len(outcomes) -> Outcome] /\ Len(outcomes) \in Nat
      BY <2>15, <3>1 DEF Join
    <3>3. outcomes' \in Seq(Outcome) /\ Len(outcomes') = Len(outcomes)
      BY <3>2, FunctionSeq
    <3> QED BY <2>15, <3>3 DEF Join
  <2>16. CASE GiveUp BY <2>16 DEF GiveUp
  <2> QED BY <2>1, <2>2, <2>3, <2>4, <2>5, <2>6, <2>7, <2>8, <2>9, <2>10, <2>11, <2>12,
             <2>13, <2>14, <2>15, <2>16 DEF EditRuns
<1>2. UNCHANGED <<watcher, buffer, event, error, ready, finished, fileChanged, cancel,
                  timeout, overflow, changes>>
  BY EditorLeavesWatcher DEF EditEffect, watcherVars
<1> QED BY <1>1, <1>2 DEF TypeOK

LEMMA Types == TypeOK /\ [Next]_vars => TypeOK'
<1> SUFFICES ASSUME TypeOK, [Next]_vars PROVE TypeOK'
  OBVIOUS
<1>1. ASSUME NEW f \in Files, ForeignChange(f)
      PROVE  TypeOK'
  BY <1>1, EditAssumption DEF ForeignChange, TypeOK, editVars, watcherVars, flagVars
<1>2. CASE UNCHANGED vars
  BY <1>2 DEF vars, TypeOK, editVars, watcherVars, flagVars, kernelVars
<1> QED BY <1>1, <1>2, WatcherTypes, EditTypes DEF Next

(* One outcome is kept per request, each begins with a fresh one, and      *)
(* every variable has its type, whatever the batch.                        *)
THEOREM TypeCorrect == Spec => []TypeOK
BY TypeInit, Types, PTL DEF Spec

-----------------------------------------------------------------------------
(* A late commit.                                                          *)

(* The one commit that comes late had passed its checks before the change  *)
(* was published; every later edit finds fileChanged at its gate.          *)
Late == \/ late = 0
        \/ late = 1 /\ fileChanged /\ pc \notin {"begin", "rename"}

LEMMA LateStep == TypeOK /\ Late /\ [Next]_vars => Late'
<1> SUFFICES ASSUME TypeOK, Late, [Next]_vars PROVE Late'
  OBVIOUS
<1> USE DEF Late
<1>1. CASE WatcherStep
  BY <1>1, WatcherLeavesEditor DEF WatcherEffect, editVars
<1>2. CASE EditRuns \/ GiveUp
  <2>1. fileChanged' = fileChanged
    BY <1>2, EditorLeavesWatcher DEF EditEffect
  <2>2. CASE Rename
    <3>1. /\ late = 0
          /\ late' = IF fileChanged THEN 1 ELSE 0
          /\ pc' \in {"mark", "failed"}
       \/ late' = 0
      BY <2>2 DEF Rename
    <3> QED BY <2>1, <3>1
  <2>3. CASE Gate
    BY <2>1, <2>3 DEF Gate, kernelVars
  <2>4. CASE Begin
    BY <2>1, <2>4 DEF Begin, kernelVars
  <2>5. ASSUME ~Rename, ~Gate, ~Begin
        PROVE  late' = late /\ pc' \notin {"begin", "rename"}
    <3> USE DEF kernelVars
    <3>1. CASE Ready BY <3>1 DEF Ready
    <3>2. ASSUME NEW seen \in BOOLEAN, StartupFailed(seen)
          PROVE  late' = late /\ pc' \notin {"begin", "rename"}
      BY <3>2 DEF StartupFailed
    <3>3. CASE Open BY <3>3 DEF Open
    <3>4. CASE Read BY <3>4 DEF Read
    <3>5. CASE Prepare BY <3>5 DEF Prepare
    <3>6. CASE MarkCommitted BY <3>6 DEF MarkCommitted
    <3>7. CASE ExplainTimeout BY <3>7 DEF ExplainTimeout
    <3>8. CASE ExplainChange BY <3>8 DEF ExplainChange
    <3>9. CASE NextItem BY <3>9 DEF NextItem
    <3>10. CASE Stop \/ Signal \/ Join \/ GiveUp
      BY <3>10 DEF Stop, Signal, Join, GiveUp
    <3> QED BY <1>2, <2>5, <3>1, <3>2, <3>3, <3>4, <3>5, <3>6, <3>7, <3>8, <3>9, <3>10
            DEF EditRuns
  <2> QED BY <2>1, <2>2, <2>3, <2>4, <2>5
<1>3. ASSUME NEW f \in Files, ForeignChange(f)
      PROVE  Late'
  BY <1>3 DEF ForeignChange, editVars, flagVars
<1>4. CASE UNCHANGED vars
  BY <1>4 DEF vars, editVars, flagVars
<1> QED BY <1>1, <1>2, <1>3, <1>4 DEF Next

(* Once a foreign change was published, at most the one edit that had      *)
(* already passed its checks is committed, however long the batch is.      *)
THEOREM LateCommits == Spec => []OneLateCommit
<1>1. Init => Late
  BY DEF Init, Late
<1>2. Late => OneLateCommit
  BY DEF Late, OneLateCommit
<1> QED BY <1>1, <1>2, LateStep, TypeInit, Types, PTL DEF Spec

-----------------------------------------------------------------------------
(* Timeouts.                                                               *)

(* Who has the gate: an edit that renames holds it, one that did has       *)
(* closed it for the deadline; and the flag of a timeout tells the truth.  *)
GateHeld ==
    /\ pc \in {"rename", "mark"} => phase = "Committing"
    /\ outcome.replaced => pc = "mark" \/ (pc = "next" /\ phase = "Committed")
    /\ timeout \/ watcher = "timing_out" => phase = "TimedOut"

(* A request that reports the timeout does so after the flag was set.      *)
NoteIsTrue ==
    /\ outcome.note = "timeout" => timeout
    /\ \A i \in DOMAIN outcomes : outcomes[i].note = "timeout" =>
          timeout /\ \A j \in i .. Len(outcomes) : ~outcomes[j].replaced

LEMMA OutcomeFields ==
    /\ ~NoOutcome.replaced /\ NoOutcome.note = "none" /\ NoOutcome.error = "none"
    /\ \A o \in Outcome :
          /\ \A e : /\ [o EXCEPT !.error = e].replaced = o.replaced
                    /\ [o EXCEPT !.error = e].note = o.note
                    /\ [o EXCEPT !.error = e].error = e
          /\ \A n : /\ [o EXCEPT !.note = n].replaced = o.replaced
                    /\ [o EXCEPT !.note = n].note = n
                    /\ [o EXCEPT !.note = n].error = o.error
                    /\ \A e : /\ [o EXCEPT !.error = e, !.note = n].replaced = o.replaced
                              /\ [o EXCEPT !.error = e, !.note = n].note = n
                              /\ [o EXCEPT !.error = e, !.note = n].error = e
          /\ [o EXCEPT !.attempted = TRUE, !.replaced = TRUE].replaced = TRUE
          /\ [o EXCEPT !.attempted = TRUE, !.replaced = TRUE].note = o.note
          /\ [o EXCEPT !.attempted = TRUE, !.replaced = TRUE].error = o.error
          /\ [o EXCEPT !.attempted = TRUE, !.error = "file"].replaced = o.replaced
          /\ [o EXCEPT !.attempted = TRUE, !.error = "file"].note = o.note
          /\ [o EXCEPT !.attempted = TRUE, !.error = "file"].error = "file"
BY DEF NoOutcome, Outcome

LEMMA ApplyTimeoutFields ==
    ASSUME NEW o \in Outcome
    PROVE  /\ ApplyTimeout(o).replaced = o.replaced
           /\ ApplyTimeout(o).note = "timeout" => timeout \/ o.note = "timeout"
           /\ Cancelled(o).replaced = o.replaced
           /\ Cancelled(o).note = "timeout" => timeout \/ o.note = "timeout"
<1>1. /\ ApplyTimeout(o).replaced = o.replaced
      /\ ApplyTimeout(o).note = "timeout" => timeout \/ o.note = "timeout"
  BY OutcomeFields DEF ApplyTimeout
<1>2. Cancelled(o) \in {ApplyTimeout(o), [o EXCEPT !.note = "file_changed"]}
  BY DEF Cancelled
<1>3. [o EXCEPT !.note = "file_changed"].replaced = o.replaced
  BY OutcomeFields
<1>4. [o EXCEPT !.note = "file_changed"].note = "file_changed"
  BY OutcomeFields
<1>5. CASE Cancelled(o) = ApplyTimeout(o) BY <1>1, <1>5
<1>6. CASE Cancelled(o) = [o EXCEPT !.note = "file_changed"] BY <1>1, <1>3, <1>4, <1>6
<1> QED BY <1>2, <1>5, <1>6

LEMMA FinalizeFields ==
    ASSUME NEW o \in Outcome
    PROVE  /\ Finalize(o).replaced = o.replaced
           /\ Finalize(o).note = "timeout" => o.note = "timeout"
BY OutcomeFields DEF Finalize

LEMMA WatcherGate == TypeOK /\ GateHeld /\ WatcherStep => GateHeld'
<1> SUFFICES ASSUME TypeOK, GateHeld, WatcherStep PROVE GateHeld'
  OBVIOUS
<1>1. UNCHANGED <<pc, outcome>>
  BY WatcherLeavesEditor DEF WatcherEffect, editVars
<1>2. phase' = phase \/ (phase = "Watching" /\ phase' = "TimedOut")
  BY WatcherLeavesEditor DEF WatcherEffect
<1> DEFINE Flag == timeout' \/ watcher' = "timing_out" => phase' = "TimedOut"
<1>3. Flag
  <2> USE DEF GateHeld, flagVars
  <2>1. CASE WatcherReady BY <2>1 DEF WatcherReady
  <2>2. CASE ReadEvents BY <2>2 DEF ReadEvents
  <2>3. CASE MatchEvent BY <2>3 DEF MatchEvent
  <2>4. CASE PublishChange BY <2>4 DEF PublishChange
  <2>5. CASE BufferDone BY <2>5 DEF BufferDone
  <2>6. CASE StopSeen BY <2>6 DEF StopSeen
  <2>7. CASE RequestTimeout BY <2>7 DEF RequestTimeout
  <2>8. CASE PublishTimeout BY <2>8 DEF PublishTimeout
  <2>9. CASE PublishCancel BY <2>9 DEF PublishCancel
  <2>10. CASE Leave BY <2>10 DEF Leave
  <2>11. CASE StoreResult BY <2>11 DEF StoreResult
  <2>12. CASE Deadline BY <2>12 DEF Deadline
  <2>13. ASSUME NEW e \in {"error", "exception"}, WatcherFails(e)
         PROVE  Flag
    BY <2>13 DEF WatcherFails
  <2> QED BY <2>1, <2>2, <2>3, <2>4, <2>5, <2>6, <2>7, <2>8, <2>9, <2>10, <2>11, <2>12,
             <2>13 DEF WatcherStep, WatcherRuns
<1> QED BY <1>1, <1>2, <1>3 DEF GateHeld

LEMMA EditGate == TypeOK /\ GateHeld /\ (EditRuns \/ GiveUp) => GateHeld'
<1> SUFFICES ASSUME TypeOK, GateHeld, EditRuns \/ GiveUp PROVE GateHeld'
  OBVIOUS
<1>0. UNCHANGED <<watcher, timeout>>
  BY EditorLeavesWatcher DEF EditEffect, watcherVars
<1> USE <1>0 DEF GateHeld
<1>1. CASE Ready BY <1>1 DEF Ready
<1>2. ASSUME NEW seen \in BOOLEAN, StartupFailed(seen)
      PROVE  GateHeld'
  BY <1>2 DEF StartupFailed
<1>3. /\ outcome \in Outcome
      /\ [outcome EXCEPT !.error = "file"].replaced = outcome.replaced
      /\ [outcome EXCEPT !.note = "not_unique"].replaced = outcome.replaced
      /\ [outcome EXCEPT !.error = "file", !.note = "file_changed"].replaced
           = outcome.replaced
      /\ Cancelled(outcome).replaced = outcome.replaced
  <2>1. outcome \in Outcome
    BY DEF TypeOK
  <2>2. Cancelled(outcome).replaced = outcome.replaced
    BY <2>1, ApplyTimeoutFields
  <2>3. [outcome EXCEPT !.error = "file", !.note = "file_changed"].replaced
          = outcome.replaced
    BY <2>1, OutcomeFields
  <2>4. /\ [outcome EXCEPT !.error = "file"].replaced = outcome.replaced
        /\ [outcome EXCEPT !.note = "not_unique"].replaced = outcome.replaced
    BY <2>1, OutcomeFields
  <2> QED BY <2>1, <2>2, <2>3, <2>4
<1>4. CASE Open
  <2>1. /\ pc' \in {"read", "next"} /\ phase' = phase
        /\ pc = "open" /\ outcome' \in {outcome, [outcome EXCEPT !.error = "file"]}
    BY <1>4, Zenon DEF Open
  <2> QED BY <1>3, <2>1
<1>5. CASE Read
  <2>1. /\ pc' \in {"prepare", "next"} /\ phase' = phase
        /\ pc = "read"
        /\ outcome' \in {outcome, Cancelled(outcome), [outcome EXCEPT !.error = "file"],
                        [outcome EXCEPT !.note = "not_unique"],
                        [outcome EXCEPT !.error = "file", !.note = "file_changed"]}
    BY <1>5, Zenon DEF Read
  <2> QED BY <1>3, <2>1
<1>6. CASE Prepare
  <2>1. /\ pc' \in {"gate", "failed"} /\ phase' = phase
        /\ pc = "prepare" /\ outcome' \in {outcome, [outcome EXCEPT !.error = "file"]}
    BY <1>6, Zenon DEF Prepare
  <2> QED BY <1>3, <2>1
<1>7. CASE Gate BY <1>7 DEF Gate
<1>8. CASE Begin BY <1>8 DEF Begin
<1>9. CASE Rename
  <2>1. /\ phase' = phase /\ phase = "Committing"
        /\ pc' = "mark" \/ (pc' = "failed" /\ ~outcome'.replaced)
    BY <1>3, <1>9, OutcomeFields, Zenon DEF Rename
  <2> QED BY <2>1
<1>10. CASE MarkCommitted BY <1>10 DEF MarkCommitted
<1>11. CASE ExplainTimeout BY <1>3, <1>11, ApplyTimeoutFields DEF ExplainTimeout
<1>12. CASE ExplainChange BY <1>3, <1>12, OutcomeFields DEF ExplainChange
<1>13. CASE NextItem BY <1>13, OutcomeFields DEF NextItem
<1>14. CASE Stop \/ Signal \/ Join \/ GiveUp
  BY <1>14 DEF Stop, Signal, Join, GiveUp
<1> QED BY <1>1, <1>2, <1>4, <1>5, <1>6, <1>7, <1>8, <1>9, <1>10, <1>11, <1>12, <1>13,
           <1>14 DEF EditRuns

LEMMA GateStep == TypeOK /\ GateHeld /\ [Next]_vars => GateHeld'
<1> SUFFICES ASSUME TypeOK, GateHeld, [Next]_vars PROVE GateHeld'
  OBVIOUS
<1>1. ASSUME NEW f \in Files, ForeignChange(f)
      PROVE  GateHeld'
  BY <1>1 DEF ForeignChange, editVars, watcherVars, flagVars, GateHeld
<1>2. CASE UNCHANGED vars
  BY <1>2 DEF vars, editVars, watcherVars, flagVars, GateHeld
<1> QED BY <1>1, <1>2, WatcherGate, EditGate DEF Next

(* Which actions of the editor touch its outcomes.                         *)
LEMMA OutcomesTouched ==
    ASSUME EditRuns \/ GiveUp
    PROVE  \/ UNCHANGED outcomes
           \/ \E seen \in BOOLEAN : StartupFailed(seen)
           \/ NextItem
           \/ Join
<1>1. CASE Ready \/ Open \/ Read \/ Prepare \/ Gate
  BY <1>1 DEF Ready, Open, Read, Prepare, Gate
<1>2. CASE Begin \/ Rename \/ MarkCommitted \/ ExplainTimeout \/ ExplainChange
  BY <1>2 DEF Begin, Rename, MarkCommitted, ExplainTimeout, ExplainChange
<1>3. CASE Stop \/ Signal \/ GiveUp
  BY <1>3 DEF Stop, Signal, GiveUp
<1> QED BY <1>1, <1>2, <1>3 DEF EditRuns

(* What may become of the outcome of the request at hand.                  *)
LEMMA OutcomeTouched ==
    ASSUME EditRuns \/ GiveUp
    PROVE  \/ outcome' \in {outcome, Cancelled(outcome), ApplyTimeout(outcome), NoOutcome,
                            [outcome EXCEPT !.error = "file"],
                            [outcome EXCEPT !.note = "not_unique"],
                            [outcome EXCEPT !.note = "file_changed"],
                            [outcome EXCEPT !.error = "file", !.note = "file_changed"]}
           \/ Rename
<1>1. CASE Ready \/ Gate \/ Begin \/ MarkCommitted \/ Stop \/ Signal \/ Join \/ GiveUp
  BY <1>1, Zenon DEF Ready, Gate, Begin, MarkCommitted, Stop, Signal, Join, GiveUp
<1>2. CASE Open BY <1>2, Zenon DEF Open
<1>3. CASE Read BY <1>3, Zenon DEF Read
<1>4. CASE Prepare BY <1>4, Zenon DEF Prepare
<1>5. CASE ExplainTimeout BY <1>5, Zenon DEF ExplainTimeout
<1>6. CASE ExplainChange BY <1>6, Zenon DEF ExplainChange
<1>7. CASE NextItem BY <1>7, Zenon DEF NextItem
<1>8. ASSUME NEW seen \in BOOLEAN, StartupFailed(seen)
      PROVE  outcome' = outcome
  BY <1>8 DEF StartupFailed
<1> QED BY <1>1, <1>2, <1>3, <1>4, <1>5, <1>6, <1>7, <1>8 DEF EditRuns

LEMMA EditNote == TypeOK /\ GateHeld /\ NoteIsTrue /\ (EditRuns \/ GiveUp) => NoteIsTrue'
<1> SUFFICES ASSUME TypeOK, GateHeld, NoteIsTrue, EditRuns \/ GiveUp PROVE NoteIsTrue'
  OBVIOUS
<1>0. timeout' = timeout
  BY EditorLeavesWatcher DEF EditEffect
<1>1. /\ outcome \in Outcome
      /\ outcomes \in Seq(Outcome)
      /\ Len(outcomes) \in Nat
      /\ DOMAIN outcomes = 1 .. Len(outcomes)
  BY DEF TypeOK
<1>2. outcome'.note = "timeout" => timeout
  <2>1. /\ Cancelled(outcome).note = "timeout" => timeout \/ outcome.note = "timeout"
        /\ ApplyTimeout(outcome).note = "timeout" => timeout \/ outcome.note = "timeout"
    BY <1>1, ApplyTimeoutFields
  <2>2. /\ NoOutcome.note = "none"
        /\ [outcome EXCEPT !.error = "file"].note = outcome.note
        /\ [outcome EXCEPT !.note = "not_unique"].note = "not_unique"
        /\ [outcome EXCEPT !.note = "file_changed"].note = "file_changed"
        /\ [outcome EXCEPT !.error = "file", !.note = "file_changed"].note
             = "file_changed"
    BY <1>1, OutcomeFields
  <2>3. ASSUME Rename PROVE outcome'.note = outcome.note
    <3>1. outcome' \in {[outcome EXCEPT !.attempted = TRUE, !.replaced = TRUE],
                        [outcome EXCEPT !.attempted = TRUE, !.error = "file"]}
      BY <2>3, Zenon DEF Rename
    <3>2. [outcome EXCEPT !.attempted = TRUE, !.replaced = TRUE].note = outcome.note
      BY <1>1, OutcomeFields
    <3>3. [outcome EXCEPT !.attempted = TRUE, !.error = "file"].note = outcome.note
      BY <1>1, OutcomeFields
    <3> QED BY <3>1, <3>2, <3>3, Zenon
  <2> QED BY <2>1, <2>2, <2>3, OutcomeTouched DEF NoteIsTrue
<1> DEFINE Noted == \A i \in DOMAIN outcomes' : outcomes'[i].note = "timeout" =>
                       timeout /\ \A j \in i .. Len(outcomes') : ~outcomes'[j].replaced
<1>3. ASSUME outcomes' = outcomes
      PROVE  Noted
  BY <1>3, Zenon DEF NoteIsTrue
<1>4. ASSUME NEW seen \in BOOLEAN, StartupFailed(seen)
      PROVE  Noted
  <2>1. \A e : [NoOutcome EXCEPT !.error = e].note = "none"
    <3>1. NoOutcome \in Outcome /\ NoOutcome.note = "none"
      BY OutcomeFields, OutcomeTypes
    <3> QED BY <3>1, OutcomeFields
  <2>2. outcomes' = [i \in DOMAIN Requests |->
                       [NoOutcome EXCEPT !.error = IF seen THEN error ELSE "none"]]
    BY <1>4 DEF StartupFailed
  <2>3. \A i \in DOMAIN outcomes' : outcomes'[i].note = "none"
    BY <2>1, <2>2
  <2> QED BY <2>3
<1>5. ASSUME NextItem
      PROVE  Noted
  <2>1. outcomes' = Append(outcomes, outcome)
    BY <1>5 DEF NextItem
  <2>2. /\ Len(outcomes') = Len(outcomes) + 1
        /\ DOMAIN outcomes' = 1 .. Len(outcomes) + 1
        /\ outcomes'[Len(outcomes) + 1] = outcome
        /\ \A i \in 1 .. Len(outcomes) : outcomes'[i] = outcomes[i]
    BY <1>1, <2>1
  <2>3. timeout => ~outcome.replaced
    BY <1>5 DEF GateHeld, NextItem
  <2>4. ASSUME NEW i \in 1 .. Len(outcomes) + 1, outcomes'[i].note = "timeout",
               NEW j \in i .. Len(outcomes) + 1
        PROVE  timeout /\ ~outcomes'[j].replaced
    <3>1. CASE i = Len(outcomes) + 1
      BY <1>1, <2>2, <2>3, <2>4, <3>1 DEF NoteIsTrue
    <3>2. CASE i \in 1 .. Len(outcomes)
      <4>1. timeout /\ \A k \in i .. Len(outcomes) : ~outcomes[k].replaced
        BY <1>1, <2>2, <2>4, <3>2 DEF NoteIsTrue
      <4>2. (j \in i .. Len(outcomes) /\ j \in 1 .. Len(outcomes)) \/ j = Len(outcomes) + 1
        BY <1>1
      <4> QED BY <2>2, <2>3, <4>1, <4>2
    <3> QED BY <1>1, <3>1, <3>2
  <2>5. \A i \in 1 .. Len(outcomes) + 1 : i \in i .. Len(outcomes) + 1
    BY <1>1
  <2> QED BY <2>2, <2>4, <2>5, Zenon
<1>6. ASSUME Join
      PROVE  Noted
  <2>1. outcomes' = [i \in DOMAIN outcomes |-> Finalize(outcomes[i])]
    BY <1>6 DEF Join
  <2>2. Len(outcomes') = Len(outcomes) /\ DOMAIN outcomes' = 1 .. Len(outcomes)
    <3>1. outcomes' \in [1 .. Len(outcomes) -> {Finalize(outcomes[i]) : i \in DOMAIN outcomes}]
      BY <1>1, <2>1
    <3> QED BY <1>1, <3>1, FunctionSeq
  <2>3. \A i \in 1 .. Len(outcomes) :
           /\ outcomes'[i].replaced = outcomes[i].replaced
           /\ outcomes'[i].note = "timeout" => outcomes[i].note = "timeout"
    <3>1. \A i \in 1 .. Len(outcomes) : outcomes[i] \in Outcome
                                        /\ outcomes'[i] = Finalize(outcomes[i])
      BY <1>1, <2>1
    <3> QED BY <3>1, FinalizeFields
  <2>4. \A i \in 1 .. Len(outcomes) : \A j \in i .. Len(outcomes) : j \in 1 .. Len(outcomes)
    BY <1>1
  <2> QED BY <1>1, <2>2, <2>3, <2>4, Zenon DEF NoteIsTrue
<1>7. Noted
  BY <1>3, <1>4, <1>5, <1>6, OutcomesTouched, Zenon
<1> QED BY <1>0, <1>2, <1>7 DEF NoteIsTrue

LEMMA NoteStep == TypeOK /\ GateHeld /\ NoteIsTrue /\ [Next]_vars => NoteIsTrue'
<1> SUFFICES ASSUME TypeOK, GateHeld, NoteIsTrue, [Next]_vars PROVE NoteIsTrue'
  OBVIOUS
<1>1. CASE WatcherStep
  BY <1>1, WatcherLeavesEditor DEF WatcherEffect, editVars, NoteIsTrue
<1>2. ASSUME NEW f \in Files, ForeignChange(f)
      PROVE  NoteIsTrue'
  BY <1>2 DEF ForeignChange, editVars, flagVars, NoteIsTrue
<1>3. CASE UNCHANGED vars
  BY <1>3 DEF vars, editVars, flagVars, NoteIsTrue
<1> QED BY <1>1, <1>2, <1>3, EditNote DEF Next

(* A timeout is final for the rest of the batch: once the watcher won the  *)
(* gate no rename is under way, and after a request that reports the       *)
(* timeout none was replaced.                                              *)
THEOREM TimeoutIsFinal == Spec => []TimeoutExcludesCommit
<1>1. Init => GateHeld /\ NoteIsTrue
  BY OutcomeFields DEF Init, GateHeld, NoteIsTrue
<1>2. TypeOK /\ GateHeld /\ NoteIsTrue => TimeoutExcludesCommit
  BY DEF GateHeld, NoteIsTrue, TimeoutExcludesCommit
<1> QED BY <1>1, <1>2, GateStep, NoteStep, TypeInit, Types, PTL DEF Spec

-----------------------------------------------------------------------------
(* Foreign changes.                                                        *)

(* A change the watcher has not dealt with: it is in the kernel or in the  *)
(* buffer, or the watcher no longer waits.                                 *)
Pending ==
    \/ overflow # "no"
    \/ queue > 0
    \/ watcher = "matching" /\ buffer > 0
    \/ watcher \in {"publishing", "cancelling", "expiring", "timing_out", "leaving", "left",
                    "ended"}

Unseen == /\ pc \in {"read", "prepare", "gate", "begin"}
          /\ phase = "Watching"
          /\ disk[Current] # opened

ChangesPend ==
    /\ pc \in {"open", "read", "prepare", "gate", "begin", "rename", "mark", "failed",
               "explain", "next"} => ready
    /\ ready => watcher # "starting"
    /\ Unseen => Pending

LEMMA WatcherPending ==
    ASSUME TypeOK, WatcherStep, phase' = "Watching", watcher # "starting", Pending
    PROVE  Pending'
<1> USE DEF Pending, TypeOK, kernelVars, flagVars
<1>1. CASE WatcherReady BY <1>1 DEF WatcherReady
<1>2. CASE ReadEvents BY <1>2 DEF ReadEvents
<1>3. CASE MatchEvent BY <1>3 DEF MatchEvent
<1>4. CASE PublishChange BY <1>4 DEF PublishChange
<1>5. CASE BufferDone BY <1>5 DEF BufferDone
<1>6. CASE StopSeen BY <1>6 DEF StopSeen
<1>7. CASE RequestTimeout BY <1>7 DEF RequestTimeout
<1>8. CASE PublishTimeout BY <1>8 DEF PublishTimeout
<1>9. CASE PublishCancel BY <1>9 DEF PublishCancel
<1>10. CASE Leave BY <1>10 DEF Leave
<1>11. CASE StoreResult BY <1>11 DEF StoreResult
<1>12. CASE Deadline BY <1>12 DEF Deadline
<1>13. ASSUME NEW e \in {"error", "exception"}, WatcherFails(e)
       PROVE  Pending'
  BY <1>13 DEF WatcherFails
<1> QED BY <1>1, <1>2, <1>3, <1>4, <1>5, <1>6, <1>7, <1>8, <1>9, <1>10, <1>11, <1>12,
           <1>13 DEF WatcherStep, WatcherRuns

LEMMA WatcherStarted ==
    ASSUME WatcherStep, watcher # "starting"
    PROVE  watcher' # "starting"
<1>1. CASE WatcherReady \/ ReadEvents \/ MatchEvent \/ PublishChange \/ BufferDone
  BY <1>1 DEF WatcherReady, ReadEvents, MatchEvent, PublishChange, BufferDone
<1>2. CASE StopSeen \/ RequestTimeout \/ PublishTimeout \/ PublishCancel
  BY <1>2 DEF StopSeen, RequestTimeout, PublishTimeout, PublishCancel
<1>3. CASE Leave \/ StoreResult \/ Deadline
  BY <1>3 DEF Leave, StoreResult, Deadline
<1>4. ASSUME NEW e \in {"error", "exception"}, WatcherFails(e)
      PROVE  watcher' # "starting"
  BY <1>4 DEF WatcherFails
<1> QED BY <1>1, <1>2, <1>3, <1>4 DEF WatcherStep, WatcherRuns

LEMMA WatcherReadies ==
    ASSUME WatcherStep, ready' # ready
    PROVE  watcher' = "waiting"
<1> USE DEF flagVars
<1>1. CASE WatcherReady BY <1>1 DEF WatcherReady
<1>2. CASE ReadEvents \/ MatchEvent \/ PublishChange \/ BufferDone
  BY <1>2 DEF ReadEvents, MatchEvent, PublishChange, BufferDone
<1>3. CASE StopSeen \/ RequestTimeout \/ PublishTimeout \/ PublishCancel
  BY <1>3 DEF StopSeen, RequestTimeout, PublishTimeout, PublishCancel
<1>4. CASE Leave \/ StoreResult \/ Deadline
  BY <1>4 DEF Leave, StoreResult, Deadline
<1>5. ASSUME NEW e \in {"error", "exception"}, WatcherFails(e)
      PROVE  watcher' = "waiting"
  BY <1>5 DEF WatcherFails
<1> QED BY <1>1, <1>2, <1>3, <1>4, <1>5 DEF WatcherStep, WatcherRuns

LEMMA WatcherPends == TypeOK /\ ChangesPend /\ WatcherStep => ChangesPend'
<1> SUFFICES ASSUME TypeOK, ChangesPend, WatcherStep PROVE ChangesPend'
  OBVIOUS
<1>1. /\ UNCHANGED <<pc, item, opened, disk>>
      /\ ready => ready'
      /\ phase' = "Watching" => phase = "Watching"
  BY WatcherLeavesEditor DEF WatcherEffect, editVars
<1>2. Current' = Current
  BY <1>1 DEF Current
<1>3. ready' => watcher' # "starting"
  <2>1. CASE ready
    BY <2>1, WatcherStarted DEF ChangesPend
  <2>2. CASE ~ready /\ ready'
    BY <2>2, WatcherReadies
  <2> QED BY <2>1, <2>2
<1>4. Unseen' => Pending'
  <2> SUFFICES ASSUME Unseen' PROVE Pending'
    OBVIOUS
  <2>1. Unseen /\ phase' = "Watching"
    BY <1>1, <1>2 DEF Unseen
  <2>2. Pending /\ watcher # "starting"
    BY <2>1 DEF ChangesPend, Unseen
  <2> QED BY <2>1, <2>2, WatcherPending
<1> QED BY <1>1, <1>3, <1>4 DEF ChangesPend

LEMMA EditPends == TypeOK /\ ChangesPend /\ (EditRuns \/ GiveUp) => ChangesPend'
<1> SUFFICES ASSUME TypeOK, ChangesPend, EditRuns \/ GiveUp PROVE ChangesPend'
  OBVIOUS
<1>1. UNCHANGED <<watcher, buffer, ready, overflow>>
  BY EditorLeavesWatcher DEF EditEffect, watcherVars
<1> DEFINE Goal == /\ Unseen' => Pending'
                   /\ pc' \in {"open", "read", "prepare", "gate", "begin", "rename", "mark",
                               "failed", "explain", "next"} => ready'
<1>2. CASE Read \/ Prepare \/ Gate
  <2>1. /\ pc \in {"read", "prepare", "gate"}
        /\ UNCHANGED <<item, opened, phase, disk, queue>>
    BY <1>2 DEF Read, Prepare, Gate, kernelVars
  <2>2. Current' = Current
    BY <2>1 DEF Current
  <2>3. Unseen' => Unseen
    BY <2>1, <2>2 DEF Unseen
  <2>4. Pending => Pending'
    BY <1>1, <2>1 DEF Pending
  <2>5. ready'
    BY <1>1, <2>1 DEF ChangesPend
  <2> QED BY <1>1, <2>3, <2>4, <2>5 DEF ChangesPend
<1>3. CASE Open
  <2>1. /\ pc = "open" /\ pc' \in {"read", "next"}
        /\ pc' = "read" => opened' = disk[Current]
        /\ UNCHANGED <<item, disk>>
    BY <1>3 DEF Open, kernelVars
  <2>2. Current' = Current
    BY <2>1 DEF Current
  <2>3. ~Unseen'
    BY <2>1, <2>2 DEF Unseen
  <2> QED BY <1>1, <2>1, <2>3 DEF ChangesPend
<1>4. ASSUME ~Read, ~Prepare, ~Gate, ~Open
      PROVE  /\ pc' \notin {"read", "prepare", "gate", "begin"}
             /\ pc' \in {"open", "rename", "mark", "failed", "explain", "next"} =>
                   \/ ready
                   \/ pc \in {"open", "begin", "rename", "mark", "failed", "explain", "next"}
  <2>1. CASE Ready BY <2>1 DEF Ready
  <2>2. ASSUME NEW seen \in BOOLEAN, StartupFailed(seen)
        PROVE  pc' = "stop"
    BY <2>2 DEF StartupFailed
  <2>3. CASE Begin BY <2>3 DEF Begin
  <2>4. CASE Rename BY <2>4 DEF Rename
  <2>5. CASE MarkCommitted BY <2>5 DEF MarkCommitted
  <2>6. CASE ExplainTimeout BY <2>6 DEF ExplainTimeout
  <2>7. CASE ExplainChange BY <2>7 DEF ExplainChange
  <2>8. CASE NextItem BY <2>8 DEF NextItem
  <2>9. CASE Stop \/ Signal \/ Join \/ GiveUp
    BY <2>9 DEF Stop, Signal, Join, GiveUp
  <2> QED BY <1>4, <2>1, <2>2, <2>3, <2>4, <2>5, <2>6, <2>7, <2>8, <2>9 DEF EditRuns
<1>5. ASSUME ~Read, ~Prepare, ~Gate, ~Open
      PROVE  ChangesPend'
  BY <1>1, <1>4, <1>5 DEF ChangesPend, Unseen
<1> QED BY <1>2, <1>3, <1>5

LEMMA PendStep == TypeOK /\ ChangesPend /\ [Next]_vars => ChangesPend'
<1> SUFFICES ASSUME TypeOK, ChangesPend, [Next]_vars PROVE ChangesPend'
  OBVIOUS
<1>1. ASSUME NEW f \in Files, ForeignChange(f)
      PROVE  ChangesPend'
  <2>1. UNCHANGED <<pc, item, opened, phase, ready, watcher, buffer>>
    BY <1>1 DEF ForeignChange, editVars, watcherVars, flagVars
  <2>2. overflow' # "no" \/ queue' > 0 \/ watcher = "starting"
    BY <1>1 DEF ForeignChange, TypeOK
  <2>3. Unseen' => watcher # "starting"
    BY <2>1 DEF Unseen, ChangesPend
  <2>4. Unseen' => Pending'
    BY <2>1, <2>2, <2>3 DEF Pending
  <2> QED BY <2>1, <2>4 DEF ChangesPend
<1>2. CASE UNCHANGED vars
  BY <1>2 DEF vars, editVars, watcherVars, flagVars, kernelVars, ChangesPend, Unseen,
              Pending, Current
<1> QED BY <1>1, <1>2, WatcherPends, EditPends DEF Next

(* What the edit relies on when it takes the gate, for every batch: as     *)
(* long as nothing was committed, a watcher that is up, has been told      *)
(* everything and published nothing means that the source is what it was.  *)
THEOREM NothingUnseen == Spec => []UnseenMeansUnchanged
<1>1. Init => ChangesPend
  BY DEF Init, ChangesPend, Unseen
<1>2. TypeOK /\ ChangesPend => UnseenMeansUnchanged
  BY DEF TypeOK, ChangesPend, Unseen, Pending, UnseenMeansUnchanged
<1> QED BY <1>1, <1>2, PendStep, TypeInit, Types, PTL DEF Spec

-----------------------------------------------------------------------------
(* Reports.                                                                *)

(* A watcher that ends without having been ready ends with an error, and   *)
(* finished tells that it is on its way out.                               *)
WatcherTells ==
    /\ watcher \in {"waiting", "matching", "publishing", "cancelling", "expiring",
                    "timing_out"} => ready
    /\ watcher \in {"leaving", "left", "ended"} => ready \/ error # "none"
    /\ finished => watcher \in {"left", "ended"}

(* A gate left at Committing by an earlier request is not tried again: the *)
(* flags that kept it there keep the edits from it.                        *)
GateGuarded ==
    phase = "Committing" =>
       \/ pc \in {"rename", "mark", "failed", "explain", "next"}
       \/ (fileChanged \/ cancel \/ timeout) /\ pc # "begin"

CurrentTrue ==
    /\ outcome.replaced => Ok(outcome)
    /\ pc = "mark" => outcome.replaced
    /\ pc \in {"failed", "explain"} /\ Ok(outcome) =>
          phase = "TimedOut" \/ fileChanged \/ cancel
    /\ pc = "next" /\ Ok(outcome) => outcome.replaced \/ phase = "TimedOut"

StoredTrue ==
    /\ pc \in {"stop", "signal", "join", "done"} => item = Len(Requests) + 1
    /\ \A i \in DOMAIN outcomes :
          /\ Ok(outcomes[i]) => \/ outcomes[i].replaced
                                \/ phase = "TimedOut"
                                \/ error # "none" /\ pc # "done"
          /\ outcomes[i].replaced => Ok(outcomes[i]) \/ error # "none"

LEMMA WatcherTellsStep == TypeOK /\ WatcherTells /\ [Next]_vars => WatcherTells'
<1> SUFFICES ASSUME TypeOK, WatcherTells, [Next]_vars PROVE WatcherTells'
  OBVIOUS
<1> USE DEF WatcherTells
<1>1. CASE WatcherStep
  <2> USE DEF flagVars
  <2>1. CASE WatcherReady BY <2>1 DEF WatcherReady
  <2>2. CASE ReadEvents BY <2>2 DEF ReadEvents
  <2>3. CASE MatchEvent BY <2>3 DEF MatchEvent
  <2>4. CASE PublishChange BY <2>4 DEF PublishChange
  <2>5. CASE BufferDone BY <2>5 DEF BufferDone
  <2>6. CASE StopSeen BY <2>6 DEF StopSeen
  <2>7. CASE RequestTimeout BY <2>7 DEF RequestTimeout
  <2>8. CASE PublishTimeout BY <2>8 DEF PublishTimeout
  <2>9. CASE PublishCancel BY <2>9 DEF PublishCancel
  <2>10. CASE Leave BY <2>10 DEF Leave
  <2>11. CASE StoreResult BY <2>11 DEF StoreResult
  <2>12. CASE Deadline BY <2>12 DEF Deadline
  <2>13. ASSUME NEW e \in {"error", "exception"}, WatcherFails(e)
         PROVE  WatcherTells'
    BY <2>13 DEF WatcherFails
  <2> QED BY <1>1, <2>1, <2>2, <2>3, <2>4, <2>5, <2>6, <2>7, <2>8, <2>9, <2>10, <2>11,
             <2>12, <2>13 DEF WatcherStep, WatcherRuns
<1>2. CASE EditRuns \/ GiveUp
  BY <1>2, EditorLeavesWatcher DEF EditEffect, watcherVars
<1>3. ASSUME NEW f \in Files, ForeignChange(f)
      PROVE  WatcherTells'
  BY <1>3 DEF ForeignChange, watcherVars, flagVars
<1>4. CASE UNCHANGED vars
  BY <1>4 DEF vars, watcherVars, flagVars
<1> QED BY <1>1, <1>2, <1>3, <1>4 DEF Next

LEMMA GateGuardedStep == TypeOK /\ GateGuarded /\ [Next]_vars => GateGuarded'
<1> SUFFICES ASSUME TypeOK, GateGuarded, [Next]_vars PROVE GateGuarded'
  OBVIOUS
<1> USE DEF GateGuarded
<1>1. CASE WatcherStep
  BY <1>1, WatcherLeavesEditor DEF WatcherEffect, editVars
<1>2. CASE EditRuns \/ GiveUp
  <2>0. UNCHANGED <<fileChanged, cancel, timeout>>
    BY <1>2, EditorLeavesWatcher DEF EditEffect
  <2> USE <2>0
  <2>1. CASE Ready BY <2>1 DEF Ready
  <2>2. ASSUME NEW seen \in BOOLEAN, StartupFailed(seen)
        PROVE  GateGuarded'
    BY <2>2 DEF StartupFailed
  <2>3. CASE Open BY <2>3 DEF Open
  <2>4. CASE Read BY <2>4 DEF Read
  <2>5. CASE Prepare BY <2>5 DEF Prepare
  <2>6. CASE Gate BY <2>6 DEF Gate
  <2>7. CASE Begin BY <2>7 DEF Begin
  <2>8. CASE Rename BY <2>8 DEF Rename
  <2>9. CASE MarkCommitted BY <2>9 DEF MarkCommitted
  <2>10. CASE ExplainTimeout BY <2>10 DEF ExplainTimeout
  <2>11. CASE ExplainChange BY <2>11 DEF ExplainChange
  <2>12. CASE NextItem BY <2>12 DEF NextItem
  <2>13. CASE Stop \/ Signal \/ Join \/ GiveUp
    BY <2>13 DEF Stop, Signal, Join, GiveUp
  <2> QED BY <1>2, <2>1, <2>2, <2>3, <2>4, <2>5, <2>6, <2>7, <2>8, <2>9, <2>10, <2>11,
             <2>12, <2>13 DEF EditRuns
<1>3. ASSUME NEW f \in Files, ForeignChange(f)
      PROVE  GateGuarded'
  BY <1>3 DEF ForeignChange, editVars, flagVars
<1>4. CASE UNCHANGED vars
  BY <1>4 DEF vars, editVars, flagVars
<1> QED BY <1>1, <1>2, <1>3, <1>4 DEF Next

LEMMA NotOk ==
    ASSUME NEW o \in Outcome
    PROVE  /\ ~Ok([o EXCEPT !.error = "file"])
           /\ ~Ok([o EXCEPT !.note = "not_unique"])
           /\ ~Ok([o EXCEPT !.note = "file_changed"])
           /\ ~Ok([o EXCEPT !.error = "file", !.note = "file_changed"])
           /\ ~Ok([o EXCEPT !.error = "timeout", !.note = "timeout"])
           /\ ~Ok([o EXCEPT !.attempted = TRUE, !.error = "file"])
           /\ ~Ok(Cancelled(o))
           /\ Ok(ApplyTimeout(o)) => ApplyTimeout(o) = o
<1>1. /\ ~Ok([o EXCEPT !.error = "file"])
      /\ ~Ok([o EXCEPT !.note = "not_unique"])
      /\ ~Ok([o EXCEPT !.note = "file_changed"])
      /\ ~Ok([o EXCEPT !.attempted = TRUE, !.error = "file"])
  BY OutcomeFields DEF Ok
<1>2. /\ ~Ok([o EXCEPT !.error = "file", !.note = "file_changed"])
      /\ ~Ok([o EXCEPT !.error = "timeout", !.note = "timeout"])
  BY OutcomeFields DEF Ok
<1>3. ApplyTimeout(o) \in {o, [o EXCEPT !.error = "timeout", !.note = "timeout"]}
  BY DEF ApplyTimeout
<1>4. Ok(ApplyTimeout(o)) => ApplyTimeout(o) = o
  BY <1>2, <1>3, Zenon
<1>5. Cancelled(o) = [o EXCEPT !.note = "file_changed"]
      \/ (Cancelled(o) = ApplyTimeout(o) /\ ApplyTimeout(o) # o)
  BY Zenon DEF Cancelled
<1>6. ~Ok(Cancelled(o))
  BY <1>1, <1>4, <1>5, Zenon
<1> QED BY <1>1, <1>2, <1>4, <1>6

LEMMA EditCurrent ==
    TypeOK /\ GateHeld /\ GateGuarded /\ CurrentTrue /\ (EditRuns \/ GiveUp) => CurrentTrue'
<1> SUFFICES ASSUME TypeOK, GateHeld, GateGuarded, CurrentTrue, EditRuns \/ GiveUp
             PROVE  CurrentTrue'
  OBVIOUS
<1>0. UNCHANGED <<fileChanged, cancel, timeout>>
  BY EditorLeavesWatcher DEF EditEffect
<1>1. outcome \in Outcome
  BY DEF TypeOK
<1>2. pc \in {"starting", "open", "read", "prepare", "gate", "begin", "rename", "failed",
              "explain"} => ~outcome.replaced
  BY DEF GateHeld
<1>3. /\ ~Ok([outcome EXCEPT !.error = "file"])
      /\ ~Ok([outcome EXCEPT !.note = "not_unique"])
      /\ ~Ok([outcome EXCEPT !.note = "file_changed"])
      /\ ~Ok([outcome EXCEPT !.error = "file", !.note = "file_changed"])
      /\ ~Ok([outcome EXCEPT !.attempted = TRUE, !.error = "file"])
      /\ ~Ok(Cancelled(outcome))
      /\ Ok(ApplyTimeout(outcome)) => ApplyTimeout(outcome) = outcome
  BY <1>1, NotOk
<1>4. /\ [outcome EXCEPT !.error = "file"].replaced = outcome.replaced
      /\ [outcome EXCEPT !.note = "not_unique"].replaced = outcome.replaced
      /\ [outcome EXCEPT !.note = "file_changed"].replaced = outcome.replaced
  BY <1>1, OutcomeFields
<1>5. /\ [outcome EXCEPT !.error = "file", !.note = "file_changed"].replaced
           = outcome.replaced
      /\ [outcome EXCEPT !.attempted = TRUE, !.error = "file"].replaced = outcome.replaced
  BY <1>1, OutcomeFields
<1>6. /\ Cancelled(outcome).replaced = outcome.replaced
      /\ ApplyTimeout(outcome).replaced = outcome.replaced
  BY <1>1, ApplyTimeoutFields
<1>7. ~NoOutcome.replaced
  BY OutcomeFields
<1> USE <1>0
<1>8. CASE Ready BY <1>8 DEF Ready, CurrentTrue
<1>9. ASSUME NEW seen \in BOOLEAN, StartupFailed(seen)
      PROVE  CurrentTrue'
  BY <1>9 DEF StartupFailed, CurrentTrue
<1>10. CASE Open
  <2>1. /\ pc = "open"
        /\ \/ pc' = "read" /\ outcome' = outcome
           \/ pc' = "next" /\ outcome' = [outcome EXCEPT !.error = "file"]
    BY <1>10, Zenon DEF Open
  <2> QED BY <1>2, <1>3, <1>4, <2>1 DEF CurrentTrue
<1>11. CASE Read
  <2>1. /\ pc = "read"
        /\ \/ pc' = "prepare" /\ outcome' = outcome
           \/ /\ pc' = "next"
              /\ outcome' \in {Cancelled(outcome), [outcome EXCEPT !.error = "file"],
                               [outcome EXCEPT !.note = "not_unique"],
                               [outcome EXCEPT !.error = "file", !.note = "file_changed"]}
    BY <1>11, Zenon DEF Read
  <2> QED BY <1>2, <1>3, <1>4, <1>5, <1>6, <2>1 DEF CurrentTrue
<1>12. CASE Prepare
  <2>1. /\ pc = "prepare"
        /\ \/ pc' = "gate" /\ outcome' = outcome
           \/ pc' = "failed" /\ cancel /\ outcome' = outcome
           \/ pc' = "failed" /\ outcome' = [outcome EXCEPT !.error = "file"]
    BY <1>12, Zenon DEF Prepare
  <2> QED BY <1>2, <1>3, <1>4, <2>1 DEF CurrentTrue
<1>13. CASE Gate
  <2>1. /\ pc = "gate" /\ outcome' = outcome /\ phase' = phase
        /\ \/ pc' = "begin"
           \/ pc' = "failed" /\ (fileChanged \/ cancel \/ timeout)
    BY <1>13 DEF Gate
  <2>2. timeout => phase = "TimedOut"
    BY DEF GateHeld
  <2> QED BY <1>2, <2>1, <2>2 DEF CurrentTrue
<1>14. CASE Begin
  <2>1. /\ pc = "begin" /\ outcome' = outcome
        /\ \/ pc' = "rename"
           \/ pc' = "failed" /\ phase' = phase /\ phase \notin {"Watching", "Committed"}
    BY <1>14 DEF Begin
  <2>2. pc = "begin" => phase # "Committing"
    BY DEF GateGuarded
  <2>3. pc' = "failed" => phase' = "TimedOut"
    BY <2>1, <2>2 DEF TypeOK
  <2> QED BY <1>2, <2>1, <2>3 DEF CurrentTrue
<1>15. CASE Rename
  <2>1. /\ pc = "rename"
        /\ \/ pc' = "mark"
              /\ outcome' = [outcome EXCEPT !.attempted = TRUE, !.replaced = TRUE]
           \/ pc' = "failed" /\ outcome' = [outcome EXCEPT !.attempted = TRUE, !.error = "file"]
    BY <1>15, Zenon DEF Rename
  <2>2. outcome = NoOutcome
    BY <2>1 DEF TypeOK
  <2>3. Ok([outcome EXCEPT !.attempted = TRUE, !.replaced = TRUE])
    BY <1>1, <2>2, OutcomeFields DEF Ok
  <2>4. [outcome EXCEPT !.attempted = TRUE, !.replaced = TRUE].replaced
    BY <1>1, OutcomeFields
  <2> QED BY <1>2, <1>3, <1>5, <2>1, <2>3, <2>4 DEF CurrentTrue
<1>16. CASE MarkCommitted BY <1>16 DEF MarkCommitted, CurrentTrue
<1>17. CASE ExplainTimeout
  <2>1. /\ pc = "failed" /\ pc' = "explain" /\ phase' = phase
        /\ outcome' = ApplyTimeout(outcome)
    BY <1>17 DEF ExplainTimeout
  <2> QED BY <1>2, <1>3, <1>6, <2>1 DEF CurrentTrue
<1>18. CASE ExplainChange
  <2>1. /\ pc = "explain" /\ pc' = "next" /\ phase' = phase
        /\ \/ outcome' = [outcome EXCEPT !.note = "file_changed"]
           \/ outcome' = outcome /\ (outcome.note # "none" \/ ~(cancel \/ fileChanged))
    BY <1>18, Zenon DEF ExplainChange
  <2>2. Ok(outcome) => outcome.note = "none"
    BY DEF Ok
  <2> QED BY <1>2, <1>3, <1>4, <2>1, <2>2 DEF CurrentTrue
<1>19. CASE NextItem
  <2>1. outcome' = NoOutcome /\ pc' \in {"open", "stop"}
    BY <1>19 DEF NextItem
  <2> QED BY <1>7, <2>1 DEF CurrentTrue
<1>20. CASE Stop \/ Signal \/ Join \/ GiveUp
  BY <1>20 DEF Stop, Signal, Join, GiveUp, CurrentTrue
<1> QED BY <1>8, <1>9, <1>10, <1>11, <1>12, <1>13, <1>14, <1>15, <1>16, <1>17, <1>18,
           <1>19, <1>20 DEF EditRuns

LEMMA CurrentStep ==
    TypeOK /\ GateHeld /\ GateGuarded /\ CurrentTrue /\ [Next]_vars => CurrentTrue'
<1> SUFFICES ASSUME TypeOK, GateHeld, GateGuarded, CurrentTrue, [Next]_vars
             PROVE  CurrentTrue'
  OBVIOUS
<1>1. CASE WatcherStep
  BY <1>1, WatcherLeavesEditor DEF WatcherEffect, editVars, CurrentTrue
<1>2. ASSUME NEW f \in Files, ForeignChange(f)
      PROVE  CurrentTrue'
  BY <1>2 DEF ForeignChange, editVars, flagVars, CurrentTrue
<1>3. CASE UNCHANGED vars
  BY <1>3 DEF vars, editVars, flagVars, CurrentTrue
<1> QED BY <1>1, <1>2, <1>3, EditCurrent DEF Next

LEMMA TimedOutStays ==
    ASSUME GateHeld, EditRuns \/ GiveUp, phase = "TimedOut"
    PROVE  phase' = "TimedOut"
<1>1. CASE Ready \/ Open \/ Read \/ Prepare \/ Gate
  BY <1>1 DEF Ready, Open, Read, Prepare, Gate
<1>2. CASE Begin \/ Rename \/ MarkCommitted \/ ExplainTimeout \/ ExplainChange \/ NextItem
  BY <1>2 DEF Begin, Rename, MarkCommitted, ExplainTimeout, ExplainChange, NextItem,
              GateHeld
<1>3. CASE Stop \/ Signal \/ Join \/ GiveUp
  BY <1>3 DEF Stop, Signal, Join, GiveUp
<1>4. ASSUME NEW seen \in BOOLEAN, StartupFailed(seen)
      PROVE  phase' = phase
  BY <1>4 DEF StartupFailed
<1> QED BY <1>1, <1>2, <1>3, <1>4 DEF EditRuns

LEMMA FinalizeTrue ==
    ASSUME NEW o \in Outcome, error \in {"none", "error", "exception"}
    PROVE  /\ Finalize(o).replaced = o.replaced
           /\ error # "none" => ~Ok(Finalize(o))
           /\ error = "none" /\ Ok(Finalize(o)) => Ok(o)
           /\ error = "none" /\ o.replaced /\ Ok(o) => Ok(Finalize(o))
<1>1. Finalize(o).replaced = o.replaced
  BY FinalizeFields
<1>2. CASE error = "none"
  <2>1. Finalize(o) = o \/ (~o.replaced /\ Finalize(o) = [o EXCEPT !.note = "file_changed"])
    BY <1>2 DEF Finalize
  <2> QED BY <1>1, <1>2, <2>1, NotOk
<1>3. CASE error # "none"
  <2>1. (Finalize(o) = o /\ o.error # "none") \/ Finalize(o) = [o EXCEPT !.error = error]
    BY <1>3 DEF Finalize
  <2>2. [o EXCEPT !.error = error].error = error
    BY OutcomeFields
  <2> QED BY <1>1, <1>3, <2>1, <2>2 DEF Ok
<1> QED BY <1>2, <1>3

LEMMA EditStored ==
    /\ TypeOK /\ GateHeld /\ WatcherTells /\ CurrentTrue /\ StoredTrue
    /\ EditRuns \/ GiveUp
    => StoredTrue'
<1> SUFFICES ASSUME TypeOK, GateHeld, WatcherTells, CurrentTrue, StoredTrue,
                    EditRuns \/ GiveUp
             PROVE  StoredTrue'
  OBVIOUS
<1>0. /\ outcomes \in Seq(Outcome)
      /\ Len(outcomes) \in Nat
      /\ DOMAIN outcomes = 1 .. Len(outcomes)
      /\ error \in {"none", "error", "exception"}
      /\ Len(Requests) \in Nat
      /\ item \in 1 .. Len(Requests) + 1
  BY EditAssumption DEF TypeOK
<1>1. error' = error
  BY EditorLeavesWatcher DEF EditEffect, watcherVars
<1>2. phase = "TimedOut" => phase' = "TimedOut"
  BY TimedOutStays
<1>3. pc' \in {"stop", "signal", "join", "done"} => item' = Len(Requests) + 1
  <2>1. CASE Ready \/ Open \/ Read \/ Prepare \/ Gate
    BY <2>1 DEF Ready, Open, Read, Prepare, Gate
  <2>2. CASE Begin \/ Rename \/ MarkCommitted \/ ExplainTimeout \/ ExplainChange
    BY <2>2 DEF Begin, Rename, MarkCommitted, ExplainTimeout, ExplainChange
  <2>3. CASE NextItem
    BY <1>0, <2>3 DEF NextItem, TypeOK
  <2>4. CASE Stop \/ Signal \/ Join \/ GiveUp
    BY <2>4 DEF Stop, Signal, Join, GiveUp, StoredTrue
  <2>5. ASSUME NEW seen \in BOOLEAN, StartupFailed(seen)
        PROVE  item' = Len(Requests) + 1
    BY <2>5 DEF StartupFailed
  <2> QED BY <2>1, <2>2, <2>3, <2>4, <2>5 DEF EditRuns
<1> DEFINE Told(o) == /\ Ok(o) => \/ o.replaced
                                  \/ phase' = "TimedOut"
                                  \/ error # "none" /\ pc' # "done"
                      /\ o.replaced => Ok(o) \/ error # "none"
<1>4. ASSUME outcomes' = outcomes, ~Join
      PROVE  \A i \in DOMAIN outcomes' : Told(outcomes'[i])
  <2>1. pc' # "done"
    <3>1. CASE Ready \/ Open \/ Read \/ Prepare \/ Gate
      BY <3>1 DEF Ready, Open, Read, Prepare, Gate
    <3>2. CASE Begin \/ Rename \/ MarkCommitted \/ ExplainTimeout \/ ExplainChange
      BY <3>2 DEF Begin, Rename, MarkCommitted, ExplainTimeout, ExplainChange
    <3>3. CASE NextItem \/ Stop \/ Signal \/ GiveUp
      BY <3>3 DEF NextItem, Stop, Signal, GiveUp
    <3>4. ASSUME NEW seen \in BOOLEAN, StartupFailed(seen)
          PROVE  pc' = "stop"
      BY <3>4 DEF StartupFailed
    <3> QED BY <1>4, <3>1, <3>2, <3>3, <3>4 DEF EditRuns
  <2> QED BY <1>2, <1>4, <2>1, Zenon DEF StoredTrue
<1>5. ASSUME NEW seen \in BOOLEAN, StartupFailed(seen)
      PROVE  \A i \in DOMAIN outcomes' : Told(outcomes'[i])
  <2>1. error # "none" /\ pc' = "stop"
    BY <1>5 DEF StartupFailed, WatcherTells
  <2>2. \A e : ~[NoOutcome EXCEPT !.error = e].replaced
    <3>1. NoOutcome \in Outcome /\ ~NoOutcome.replaced
      BY OutcomeFields, OutcomeTypes
    <3> QED BY <3>1, OutcomeFields
  <2>3. outcomes' = [i \in DOMAIN Requests |->
                       [NoOutcome EXCEPT !.error = IF seen THEN error ELSE "none"]]
    BY <1>5 DEF StartupFailed
  <2>4. \A i \in DOMAIN outcomes' : ~outcomes'[i].replaced
    BY <2>2, <2>3
  <2> QED BY <2>1, <2>4
<1>6. ASSUME NextItem
      PROVE  \A i \in DOMAIN outcomes' : Told(outcomes'[i])
  <2>1. outcomes' = Append(outcomes, outcome) /\ pc = "next" /\ pc' # "done"
    BY <1>6 DEF NextItem
  <2>2. /\ DOMAIN outcomes' = 1 .. Len(outcomes) + 1
        /\ outcomes'[Len(outcomes) + 1] = outcome
        /\ \A i \in 1 .. Len(outcomes) : outcomes'[i] = outcomes[i]
    BY <1>0, <2>1, outcome \in Outcome DEF TypeOK
  <2>3. Told(outcome)
    BY <1>2, <2>1 DEF CurrentTrue
  <2>4. \A i \in 1 .. Len(outcomes) : Told(outcomes[i])
    BY <1>0, <1>2, <2>1 DEF StoredTrue
  <2>5. \A i \in 1 .. Len(outcomes) + 1 : i \in 1 .. Len(outcomes) \/ i = Len(outcomes) + 1
    BY <1>0
  <2> QED BY <2>2, <2>3, <2>4, <2>5, Zenon
<1>7. ASSUME Join
      PROVE  \A i \in DOMAIN outcomes' : Told(outcomes'[i])
  <2>1. /\ outcomes' = [i \in DOMAIN outcomes |-> Finalize(outcomes[i])]
        /\ pc # "done"
    BY <1>7 DEF Join
  <2>2. \A i \in DOMAIN outcomes : outcomes[i] \in Outcome
    BY <1>0
  <2>3. ASSUME NEW i \in DOMAIN outcomes
        PROVE  Told(Finalize(outcomes[i]))
    <3>1. /\ Finalize(outcomes[i]).replaced = outcomes[i].replaced
          /\ error # "none" => ~Ok(Finalize(outcomes[i]))
          /\ error = "none" /\ Ok(Finalize(outcomes[i])) => Ok(outcomes[i])
          /\ error = "none" /\ outcomes[i].replaced /\ Ok(outcomes[i])
               => Ok(Finalize(outcomes[i]))
      BY <1>0, <2>2, FinalizeTrue
    <3>2. /\ Ok(outcomes[i]) =>
                outcomes[i].replaced \/ phase = "TimedOut" \/ error # "none"
          /\ outcomes[i].replaced => Ok(outcomes[i]) \/ error # "none"
      BY Zenon DEF StoredTrue
    <3> QED BY <1>2, <3>1, <3>2
  <2> QED BY <2>1, <2>3, Zenon
<1>8. \A i \in DOMAIN outcomes' : Told(outcomes'[i])
  BY <1>4, <1>5, <1>6, <1>7, OutcomesTouched, Zenon
<1> QED BY <1>1, <1>3, <1>8, Zenon DEF StoredTrue

LEMMA StoredStep ==
    /\ TypeOK /\ GateHeld /\ WatcherTells /\ CurrentTrue /\ StoredTrue
    /\ [Next]_vars
    => StoredTrue'
<1> SUFFICES ASSUME TypeOK, GateHeld, WatcherTells, CurrentTrue, StoredTrue, [Next]_vars
             PROVE  StoredTrue'
  OBVIOUS
<1>1. CASE WatcherStep
  <2>1. /\ UNCHANGED <<pc, item, outcomes>>
        /\ phase = "TimedOut" => phase' = "TimedOut"
        /\ error # "none" => error' # "none"
    BY <1>1, WatcherLeavesEditor DEF WatcherEffect, editVars
  <2> QED BY <2>1, Zenon DEF StoredTrue
<1>2. ASSUME NEW f \in Files, ForeignChange(f)
      PROVE  StoredTrue'
  BY <1>2 DEF ForeignChange, editVars, watcherVars, StoredTrue
<1>3. CASE UNCHANGED vars
  BY <1>3 DEF vars, editVars, watcherVars, StoredTrue
<1> QED BY <1>1, <1>2, <1>3, EditStored DEF Next

(* What edit_file reports is what it did, for every batch: an edit is      *)
(* reported as made only if it was, the loss of the gate to a timeout      *)
(* apart, and one that was made is reported otherwise only when the        *)
(* watcher had failed.                                                     *)
THEOREM ReportsAreTrue == Spec => []ReportsTruthful
<1>1. Init => GateHeld /\ WatcherTells /\ GateGuarded /\ CurrentTrue /\ StoredTrue
  BY OutcomeFields DEF Init, GateHeld, WatcherTells, GateGuarded, CurrentTrue, StoredTrue
<1>2. TypeOK /\ StoredTrue => ReportsTruthful
  <2> SUFFICES ASSUME TypeOK, StoredTrue, pc = "done",
                      NEW i \in DOMAIN Requests
               PROVE  /\ Ok(outcomes[i]) => outcomes[i].replaced \/ phase = "TimedOut"
                      /\ outcomes[i].replaced => Ok(outcomes[i]) \/ error # "none"
    BY DEF ReportsTruthful
  <2>1. i \in DOMAIN outcomes
    <3>1. Len(outcomes) = Len(Requests)
      BY EditAssumption DEF StoredTrue, TypeOK
    <3> QED BY <3>1, EditAssumption DEF TypeOK
  <2> QED BY <2>1, Zenon DEF StoredTrue
<1> QED BY <1>1, <1>2, GateStep, WatcherTellsStep, GateGuardedStep, CurrentStep,
           StoredStep, TypeInit, Types, PTL DEF Spec

-----------------------------------------------------------------------------
(* Waits.                                                                  *)

(* edit_file waits twice, for a watcher that is up and for one that ended. *)
(* Whenever it does, the watcher has said so or is still going to: before  *)
(* it is up it is starting or on its way out, and a stopped watcher that   *)
(* is not on its way out finds the stop signal when it polls.              *)
WatcherAnswers ==
    /\ pc = "starting" /\ ~ready /\ ~finished => watcher \in {"starting", "leaving"}
    /\ pc = "join" => stop /\ (watcher = "waiting" => signal)

(* Nobody sends the watcher back to its poll once it is past it, and a     *)
(* signal stays.                                                           *)
Answers ==
    /\ watcher \in {"left", "ended"} => finished
    /\ watcher \in {"left", "ended"} \/ pc # "join" \/ signal
    /\ pc \in {"signal", "join"} => stop

LEMMA AnswersStep == Answers /\ [Next]_vars => Answers'
<1> SUFFICES ASSUME Answers, [Next]_vars PROVE Answers'
  OBVIOUS
<1> USE DEF Answers
<1>1. CASE WatcherStep
  <2> USE DEF flagVars, editVars
  <2>0. UNCHANGED <<pc, stop, signal>> /\ (finished => finished')
    BY <1>1, WatcherLeavesEditor DEF WatcherEffect
  <2>1. watcher \in {"left", "ended"} => watcher' \in {"left", "ended"}
    BY <1>1 DEF WatcherStep, WatcherRuns, WatcherReady, ReadEvents, MatchEvent,
                PublishChange, BufferDone, StopSeen, RequestTimeout, PublishTimeout,
                PublishCancel, Leave, StoreResult, Deadline, WatcherFails
  <2>2. watcher' \in {"left", "ended"} => finished'
    BY <1>1, <2>0 DEF WatcherStep, WatcherRuns, WatcherReady, ReadEvents, MatchEvent,
                PublishChange, BufferDone, StopSeen, RequestTimeout, PublishTimeout,
                PublishCancel, Leave, StoreResult, Deadline, WatcherFails
  <2> QED BY <2>0, <2>1, <2>2
<1>2. CASE EditRuns \/ GiveUp
  <2>0. UNCHANGED <<watcher, finished>>
    BY <1>2, EditorLeavesWatcher DEF EditEffect, watcherVars
  <2> USE DEF flagVars
  <2>1. CASE Stop BY <2>0, <2>1 DEF Stop
  <2>2. CASE Signal
    <3>1. watcher \in {"left", "ended"} \/ signal'
      BY <2>2, Zenon DEF Signal
    <3>2. pc' = "join" /\ stop' = stop /\ pc = "signal"
      BY <2>2 DEF Signal
    <3> QED BY <2>0, <3>1, <3>2
  <2>3. CASE Join BY <2>0, <2>3 DEF Join
  <2>4. CASE GiveUp BY <2>0, <2>4 DEF GiveUp
  <2>5. CASE ~Stop /\ ~Signal /\ ~Join /\ ~GiveUp
    <3>1. pc' \notin {"signal", "join"}
      BY <1>2, <2>5 DEF EditRuns, Ready, StartupFailed, Open, Read, Prepare, Gate, Begin,
                        Rename, MarkCommitted, ExplainTimeout, ExplainChange, NextItem
    <3> QED BY <2>0, <3>1
  <2> QED BY <2>1, <2>2, <2>3, <2>4, <2>5
<1>3. ASSUME NEW f \in Files, ForeignChange(f)
      PROVE  Answers'
  BY <1>3 DEF ForeignChange, editVars, watcherVars, flagVars
<1>4. CASE UNCHANGED vars
  BY <1>4 DEF vars, editVars, watcherVars, flagVars
<1> QED BY <1>1, <1>2, <1>3, <1>4 DEF Next

(* No signal to or from the watcher is lost: edit_file never waits for a   *)
(* watcher that waits for something else, however the steps of the two     *)
(* fall and wherever the watcher fails.                                    *)
THEOREM NoWaitIsInVain == Spec => []WatcherAnswers
<1>1. Init => Answers /\ WatcherTells
  BY DEF Init, Answers, WatcherTells
<1>2. TypeOK /\ WatcherTells /\ Answers => WatcherAnswers
  BY DEF TypeOK, WatcherTells, Answers, WatcherAnswers
<1> QED BY <1>1, <1>2, AnswersStep, WatcherTellsStep, TypeInit, Types, PTL DEF Spec

=============================================================================
