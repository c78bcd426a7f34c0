---------------------------- MODULE RunTurnProofs ----------------------------
(***************************************************************************)
(* Proofs about RunTurn, for any number of data events: its types, that    *)
(* the loop leaves nothing behind and the thread is always joined, that no *)
(* failure is lost, that the caller is shown one well-formed stream, that  *)
(* the port is used as the channel it is, and that the two threads never   *)
(* wait for each other.                                                    *)
(***************************************************************************)
EXTENDS RunTurn, SequenceTheorems, TLAPS

(* The events after which the request thread emits nothing.                *)
IsLast(e) == \/ e.type \in {"http_error", "failed"}
             \/ e.type = "finished" /\ e.phase = "request"

(* While run_turn reads, the request thread has said its last word exactly *)
(* when its last event is in the slot: so the loop that stops at that      *)
(* event stops at a thread that only has to return, and a thread that      *)
(* returned always left the event that stops the loop.                     *)
LastWaits ==
    /\ pc = "start" => request = "none" /\ slot[Stream] = NoEvent
    /\ pc = "reading" =>
          /\ request # "none"
          /\ request \in {"returning", "ended"} <=>
                slot[Stream] # NoEvent /\ IsLast(slot[Stream])
    /\ pc = "joining" => request \in {"returning", "ended"} /\ slot[Stream] = NoEvent
    /\ pc = "done" /\ outcome # "terminated" =>
          request \in {"none", "ended"} /\ slot[Stream] = NoEvent
    /\ outcome # "none" <=> pc = "done"

(* An error is there only, and always, once the request thread threw it.   *)
ErrorThrown == /\ requestError # NoError => request \in {"throwing", "returning", "ended"}
               /\ request = "throwing" => requestError # NoError

IInv == TypeOK /\ LastWaits /\ ErrorThrown /\ FailuresSurface

USE DEF port, threadVars, readerVars

(* What the calling thread may take out of the slot.                       *)
LEMMA ReadTakes ==
    ASSUME TypeOK, NEW types, NEW phases, Read(types, phases)
    PROVE  /\ pc = "reading"
           /\ slot[Stream] \in Event
           /\ slot[Stream].type \in types
           /\ slot[Stream].phase \in phases
           /\ slot' = [slot EXCEPT ![Stream] = NoEvent]
           /\ slot'[Stream] = NoEvent
           /\ UNCHANGED closed
  BY DEF Read, TypeOK, Port!Take

LEMMA EmitPuts ==
    ASSUME TypeOK, NEW type \in {"data", "finished", "http_error", "failed"},
           NEW phase \in {"summary", "request"}, Emit(type, phase)
    PROVE  /\ slot[Stream] = NoEvent
           /\ slot' = [slot EXCEPT ![Stream] = [type |-> type, phase |-> phase]]
           /\ slot'[Stream] = [type |-> type, phase |-> phase]
           /\ slot'[Stream] \in Event
           /\ slot' \in [{Stream} -> Event \cup {NoEvent}]
           /\ UNCHANGED closed
  BY DEF Emit, TypeOK, Port!Put, Event

LEMMA InitIInv == Init => IInv
  <1> SUFFICES ASSUME Init PROVE IInv
    OBVIOUS
  <1>a. /\ slot = [r \in {Stream} |-> NoEvent] /\ closed = [r \in {Stream} |-> FALSE]
        /\ slot[Stream] = NoEvent
    BY DEF Init, Port!Init
  <1>b. MaxData \in Nat
    BY TurnAssumption
  <1>1. TypeOK
    <2>1. slot \in [{Stream} -> Event \cup {NoEvent}] /\ closed \in [{Stream} -> BOOLEAN]
      BY <1>a
    <2>2. shown \in Seq(Shown)
      BY DEF Init
    <2>3. /\ compacts \in BOOLEAN /\ summaryFinished \in BOOLEAN
          /\ summaryClosed \in BOOLEAN
      BY Zenon DEF Init
    <2>4. /\ result \in BOOLEAN /\ eventLogError \in BOOLEAN
          /\ streamError \in BOOLEAN /\ started \in BOOLEAN
      BY Zenon DEF Init
    <2>5. received \in 0 .. MaxData
      BY <1>b DEF Init
    <2>6. /\ pc = "start" /\ request = "none" /\ requestError = NoError
          /\ outcome = "none"
      BY Zenon DEF Init
    <2> QED  BY <2>1, <2>2, <2>3, <2>4, <2>5, <2>6 DEF TypeOK
  <1>2. LastWaits /\ ErrorThrown /\ FailuresSurface
    BY <1>a DEF Init, LastWaits, ErrorThrown, FailuresSurface
  <1> QED  BY <1>1, <1>2 DEF IInv

(* The request thread: it emits into the empty slot, its last event when   *)
(* it ends.                                                                *)
LEMMA RequestStepIInv ==
    ASSUME IInv, outcome # "terminated", RequestStep PROVE IInv'
  <1> USE DEF IInv
  <1>a. UNCHANGED <<pc, compacts, eventLogError, streamError, started, shown,
                    summaryClosed, outcome>>
    BY DEF RequestStep, Receive, FinishSummary, SummaryAccepted, FinishRequest,
           EmitError, ThreadEnds, RequestThrows
  <1>b. MaxData \in Nat
    BY TurnAssumption
  <1>c. request \notin {"none", "ended"} /\ pc \in {"reading", "joining"}
        /\ outcome = "none" /\ (request # "returning" => pc = "reading")
    BY DEF RequestStep, Receive, FinishSummary, SummaryAccepted, FinishRequest,
           EmitError, ThreadEnds, RequestThrows, LastWaits, TypeOK
  <1>1. CASE Receive
    <2>1. request \in {"summary", "request"} /\ request' = request
      BY <1>1 DEF Receive
    <2>2. /\ slot'[Stream] = [type |-> "data", phase |-> request]
          /\ slot' \in [{Stream} -> Event \cup {NoEvent}] /\ closed' = closed
      BY <1>1, <2>1, EmitPuts DEF Receive
    <2>3. received' \in 0 .. MaxData
      BY <1>1, <1>b DEF Receive, TypeOK
    <2>4. TypeOK'
      BY <1>1, <1>a, <2>1, <2>2, <2>3 DEF Receive, TypeOK
    <2>5. ~IsLast(slot'[Stream])
      BY <2>2 DEF IsLast
    <2> QED  BY <1>1, <1>a, <1>c, <2>1, <2>4, <2>5
             DEF Receive, LastWaits, ErrorThrown, FailuresSurface
  <1>2. CASE FinishSummary
    <2>2. /\ slot'[Stream] = [type |-> "finished", phase |-> "summary"]
          /\ slot' \in [{Stream} -> Event \cup {NoEvent}] /\ closed' = closed
      BY <1>2, EmitPuts DEF FinishSummary
    <2>4. TypeOK'
      BY <1>2, <1>a, <2>2 DEF FinishSummary, TypeOK
    <2>5. ~IsLast(slot'[Stream])
      BY <2>2 DEF IsLast
    <2> QED  BY <1>2, <1>a, <1>c, <2>4, <2>5
             DEF FinishSummary, LastWaits, ErrorThrown, FailuresSurface
  <1>3. CASE SummaryAccepted
    <2>4. TypeOK'
      BY <1>3, <1>a, <1>b DEF SummaryAccepted, TypeOK
    <2> QED  BY <1>3, <1>a, <1>c, <2>4
             DEF SummaryAccepted, LastWaits, ErrorThrown, FailuresSurface
  <1>4. CASE FinishRequest
    <2>2. /\ slot'[Stream] = [type |-> "finished", phase |-> "request"]
          /\ slot' \in [{Stream} -> Event \cup {NoEvent}] /\ closed' = closed
          /\ slot'[Stream] \in Event
      BY <1>4, EmitPuts DEF FinishRequest
    <2>4. TypeOK'
      BY <1>4, <1>a, <2>2 DEF FinishRequest, TypeOK
    <2>5. IsLast(slot'[Stream]) /\ slot'[Stream] # NoEvent
      BY <2>2, TurnAssumption DEF IsLast
    <2> QED  BY <1>4, <1>a, <1>c, <2>4, <2>5
             DEF FinishRequest, LastWaits, ErrorThrown, FailuresSurface
  <1>5. CASE EmitError
    <2>1. requestError.type \in {"http_error", "failed"}
      BY <1>5 DEF EmitError, ErrorThrown, TypeOK, Error
    <2>2. /\ slot'[Stream] = [type |-> requestError.type, phase |-> ErrorPhase]
          /\ slot' \in [{Stream} -> Event \cup {NoEvent}] /\ closed' = closed
          /\ slot'[Stream] \in Event
      BY <1>5, <2>1, EmitPuts DEF EmitError, ErrorPhase
    <2>4. TypeOK'
      BY <1>5, <1>a, <2>2 DEF EmitError, TypeOK
    <2>5. IsLast(slot'[Stream]) /\ slot'[Stream] # NoEvent
      BY <2>1, <2>2, TurnAssumption DEF IsLast
    <2> QED  BY <1>5, <1>a, <1>c, <2>4, <2>5
             DEF EmitError, LastWaits, ErrorThrown, FailuresSurface
  <1>6. ASSUME NEW error \in {"http_error", "failed"}, RequestThrows(error)
        PROVE  IInv'
    <2>1. requestError' \in Error /\ requestError' # NoError
      BY <1>6 DEF RequestThrows, Error, NoError
    <2>4. TypeOK'
      BY <1>6, <1>a, <2>1 DEF RequestThrows, TypeOK
    <2> QED  BY <1>6, <1>a, <1>c, <2>1, <2>4
             DEF RequestThrows, LastWaits, ErrorThrown, FailuresSurface
  <1>7. CASE ThreadEnds
    <2>1. result' \in BOOLEAN
      BY Zenon, <1>7 DEF ThreadEnds
    <2>2. TypeOK'
      BY <1>7, <1>a, <2>1 DEF ThreadEnds, TypeOK
    <2> QED  BY <1>7, <1>a, <1>c, <2>2
             DEF ThreadEnds, LastWaits, ErrorThrown, FailuresSurface
  <1> QED  BY <1>1, <1>2, <1>3, <1>4, <1>5, <1>6, <1>7 DEF RequestStep

LEMMA ItemsShown ==
    /\ <<>> \in Seq(Shown)
    /\ <<"summary_start">> \in Seq(Shown)
    /\ <<"summary_end">> \in Seq(Shown)
    /\ <<"http_error">> \in Seq(Shown)
  <1>1. {"summary_start", "summary_end", "http_error"} \subseteq Shown
    BY DEF Shown
  <1> QED  BY <1>1

(* What CloseSummary leaves in what the caller saw.                        *)
LEMMA CloseSummaryType ==
    ASSUME TypeOK, NEW items \in Seq(Shown), CloseSummary(items)
    PROVE  shown' \in Seq(Shown) /\ summaryClosed' \in BOOLEAN
  <1>1. (IF summaryClosed THEN <<>> ELSE <<"summary_end">>) \in Seq(Shown)
    BY ItemsShown
  <1>2. shown \in Seq(Shown)
    BY DEF TypeOK
  <1> QED  BY <1>1, <1>2 DEF CloseSummary

(* The loop while it goes on, or when it is left by an exception: what it  *)
(* takes out of the slot decides.                                          *)
LEMMA TurnStepIInv ==
    ASSUME IInv, TurnStep PROVE IInv'
  <1> USE DEF IInv
  <1>1. CASE Start
    <2>1. shown' \in Seq(Shown)
      BY <1>1, ItemsShown DEF Start
    <2>2. TypeOK'
      BY <1>1, <2>1 DEF Start, TypeOK
    <2> QED  BY <1>1, <2>2 DEF Start, LastWaits, ErrorThrown, FailuresSurface
  <1>2. CASE StartThrows
    <2>1. slot' = [slot EXCEPT ![Stream] = NoEvent] /\ slot'[Stream] = NoEvent
      BY <1>2 DEF StartThrows, Port!Discard, TypeOK
    <2>2. slot' \in [{Stream} -> Event \cup {NoEvent}] /\ closed' \in [{Stream} -> BOOLEAN]
      BY <1>2, <2>1 DEF StartThrows, Port!Discard, TypeOK
    <2>3. TypeOK'
      BY <1>2, <2>2 DEF StartThrows, TypeOK
    <2> QED  BY <1>2, <2>1, <2>3
             DEF StartThrows, LastWaits, ErrorThrown, FailuresSurface
  <1>9. CASE StartFails
    <2>1. slot' = [slot EXCEPT ![Stream] = NoEvent] /\ slot'[Stream] = NoEvent
      BY <1>9 DEF StartFails, Port!Discard, TypeOK
    <2>2. slot' \in [{Stream} -> Event \cup {NoEvent}] /\ closed' \in [{Stream} -> BOOLEAN]
      BY <1>9, <2>1 DEF StartFails, Port!Discard, TypeOK
    <2>3. shown' \in Seq(Shown)
      BY <1>9, ItemsShown DEF StartFails
    <2>4. TypeOK'
      BY <1>9, <2>2, <2>3 DEF StartFails, TypeOK
    <2> QED  BY <1>9, <2>1, <2>4
             DEF StartFails, LastWaits, ErrorThrown, FailuresSurface
  <1>3. ASSUME NEW throws \in BOOLEAN, NEW appends \in BOOLEAN, ReadData(throws, appends)
        PROVE  IInv'
    <2>1. /\ pc = "reading" /\ slot'[Stream] = NoEvent
          /\ slot[Stream] \in Event /\ slot[Stream].type = "data"
          /\ slot[Stream].phase \in {"summary", "request"}
          /\ slot' = [slot EXCEPT ![Stream] = NoEvent] /\ UNCHANGED closed
      BY <1>3, ReadTakes DEF ReadData
    <2>2. ~IsLast(slot[Stream])
      BY <2>1 DEF IsLast
    <2>3. shown' \in Seq(Shown) /\ started' \in BOOLEAN
      <3>1. /\ \/ shown' = shown /\ started' = started
               \/ /\ shown' = Append(shown, slot[Stream].phase)
                  /\ started' = (started \/ slot[Stream].phase = "request")
        BY <1>3 DEF ReadData
      <3>2. shown \in Seq(Shown) /\ started \in BOOLEAN
        BY DEF TypeOK
      <3>3. slot[Stream].phase \in Shown
        BY <2>1 DEF Shown
      <3>4. Append(shown, slot[Stream].phase) \in Seq(Shown)
        BY <3>2, <3>3
      <3> QED  BY <3>1, <3>2, <3>4
    <2>4. streamError' \in BOOLEAN /\ eventLogError' \in BOOLEAN
      BY <1>3 DEF ReadData, Observe, TypeOK
    <2>5. TypeOK'
      BY <1>3, <2>1, <2>3, <2>4 DEF ReadData, TypeOK
    <2> QED  BY <1>3, <2>1, <2>2, <2>5
             DEF ReadData, LastWaits, ErrorThrown, FailuresSurface
  <1>4. ASSUME NEW throws \in BOOLEAN, NEW delta \in BOOLEAN,
               ReadEmptyData(throws, delta)
        PROVE  IInv'
    <2>1. /\ pc = "reading" /\ slot'[Stream] = NoEvent /\ slot[Stream].type = "data"
          /\ slot' = [slot EXCEPT ![Stream] = NoEvent] /\ UNCHANGED closed
      BY <1>4, ReadTakes DEF ReadEmptyData
    <2>2. ~IsLast(slot[Stream])
      BY <2>1 DEF IsLast
    <2>4. eventLogError' \in BOOLEAN /\ started' \in BOOLEAN
      BY <1>4 DEF ReadEmptyData, Observe, TypeOK
    <2>5. TypeOK'
      BY <1>4, <2>1, <2>4 DEF ReadEmptyData, TypeOK
    <2> QED  BY <1>4, <2>1, <2>2, <2>5
             DEF ReadEmptyData, LastWaits, ErrorThrown, FailuresSurface
  <1>5. ASSUME NEW throws \in BOOLEAN, ReadSummaryFinished(throws)
        PROVE  IInv'
    <2>1. /\ pc = "reading" /\ slot'[Stream] = NoEvent
          /\ slot[Stream].type = "finished" /\ slot[Stream].phase = "summary"
          /\ slot' = [slot EXCEPT ![Stream] = NoEvent] /\ UNCHANGED closed
      BY <1>5, ReadTakes DEF ReadSummaryFinished
    <2>2. ~IsLast(slot[Stream])
      BY <2>1 DEF IsLast
    <2>3. shown' \in Seq(Shown) /\ summaryClosed' \in BOOLEAN
      BY <1>5, CloseSummaryType, ItemsShown DEF ReadSummaryFinished
    <2>4. eventLogError' \in BOOLEAN
      BY <1>5 DEF ReadSummaryFinished, Observe, TypeOK
    <2>5. TypeOK'
      BY <1>5, <2>1, <2>3, <2>4 DEF ReadSummaryFinished, TypeOK
    <2> QED  BY <1>5, <2>1, <2>2, <2>5
             DEF ReadSummaryFinished, LastWaits, ErrorThrown, FailuresSurface
  <1>6. ASSUME NEW throws \in BOOLEAN, LeaveLoop(throws)
        PROVE  IInv'
    <2>1. /\ pc = "reading" /\ slot'[Stream] = NoEvent /\ slot[Stream] \in Event
          /\ slot' = [slot EXCEPT ![Stream] = NoEvent] /\ UNCHANGED closed
          /\ IsLast(slot[Stream])
      BY <1>6, ReadTakes DEF LeaveLoop, LastEvent, IsLast
    <2>2. request \in {"returning", "ended"}
      BY <2>1, TurnAssumption DEF LastWaits
    <2>3. shown' \in Seq(Shown) /\ summaryClosed' \in BOOLEAN
      <3>1. CASE UNCHANGED <<shown, summaryClosed>>
        BY <3>1 DEF TypeOK
      <3>2. CASE CloseSummary(<<"http_error">>)
        BY <3>2, CloseSummaryType, ItemsShown
      <3>3. CASE CloseSummary(<<>>)
        BY <3>3, CloseSummaryType, ItemsShown
      <3> QED  BY <1>6, <3>1, <3>2, <3>3 DEF LeaveLoop, LastEvent
    <2>4. eventLogError' \in BOOLEAN
      BY <1>6 DEF LeaveLoop, Observe, TypeOK
    <2>5. TypeOK'
      BY <1>6, <2>1, <2>3, <2>4 DEF LeaveLoop, TypeOK
    <2> QED  BY <1>6, <2>1, <2>2, <2>5
             DEF LeaveLoop, LastWaits, ErrorThrown, FailuresSurface
  <1>7. CASE Terminate
    <2>1. /\ slot'[Stream] = NoEvent
          /\ slot' = [slot EXCEPT ![Stream] = NoEvent] /\ UNCHANGED closed
      BY <1>7, ReadTakes DEF Terminate
    <2>5. TypeOK'
      BY <1>7, <2>1 DEF Terminate, TypeOK
    <2> QED  BY <1>7, <2>1, <2>5
             DEF Terminate, LastWaits, ErrorThrown, FailuresSurface
  <1>8. CASE Finish
    <2>1. slot' = [slot EXCEPT ![Stream] = NoEvent] /\ slot'[Stream] = NoEvent
      BY <1>8 DEF Finish, Port!Discard, TypeOK
    <2>2. slot' \in [{Stream} -> Event \cup {NoEvent}] /\ closed' \in [{Stream} -> BOOLEAN]
      BY <1>8, <2>1 DEF Finish, Port!Discard, TypeOK
    <2>3. /\ outcome' \in {"returned", "request_error", "event_log_error",
                           "stream_error", "no_result"}
          /\ requestError # NoError => outcome' = "request_error"
          /\ outcome' = "returned" =>
                ~eventLogError /\ ~streamError /\ requestError = NoError /\ started
      <3>1. CASE requestError # NoError
        <4>1. outcome' = "request_error"
          BY <1>8, <3>1 DEF Finish, Verdict
        <4> QED  BY <3>1, <4>1
      <3>2. CASE requestError = NoError /\ eventLogError
        BY <1>8, <3>2 DEF Finish, Verdict
      <3>3. CASE requestError = NoError /\ ~eventLogError /\ streamError
        BY <1>8, <3>3 DEF Finish, Verdict
      <3>4. CASE requestError = NoError /\ ~eventLogError /\ ~streamError
        BY <1>8, <3>4 DEF Finish, Verdict
      <3> QED  BY <3>1, <3>2, <3>3, <3>4
    <2>7. shown' \in Seq(Shown) /\ summaryClosed' \in BOOLEAN
      BY <1>8, CloseSummaryType, ItemsShown DEF Finish
    <2>4. TypeOK'
      BY <1>8, <2>2, <2>3, <2>7 DEF Finish, TypeOK
    <2>5. LastWaits' /\ ErrorThrown'
      BY <1>8, <2>1, <2>3 DEF Finish, Join, LastWaits, ErrorThrown
    <2>6. FailuresSurface'
      BY <1>8, <2>3 DEF Finish, FailuresSurface
    <2> QED  BY <2>4, <2>5, <2>6
  <1> QED  BY <1>1, <1>2, <1>3, <1>4, <1>5, <1>6, <1>7, <1>8, <1>9 DEF TurnStep

LEMMA Invariant == Spec => []IInv
  <1>1. ASSUME IInv, [Next]_vars PROVE IInv'
    <2>1. CASE UNCHANGED vars
      <3>1. TypeOK'
        BY <1>1, <2>1 DEF IInv, vars, TypeOK
      <3> QED  BY <1>1, <2>1, <3>1
               DEF IInv, vars, LastWaits, ErrorThrown, FailuresSurface, IsLast
    <2> QED  BY <1>1, <2>1, RequestStepIInv, TurnStepIInv DEF Next
  <1> QED  BY <1>1, InitIInv, PTL DEF Spec

-----------------------------------------------------------------------------
(* The order of what the caller sees.                                      *)

Has(s, x) == \E i \in DOMAIN s : s[i] = x

(* The order of what was shown, s, in a turn that opens a summary or not,  *)
(* and has closed it or not.                                               *)
ShownOrder(s, opens, closes) ==
    /\ \A i \in DOMAIN s : s[i] = "summary_start" <=> opens /\ i = 1
    /\ Has(s, "summary_end") <=> opens /\ closes
    /\ \A i, j \in DOMAIN s : s[i] = "summary_end" /\ s[j] = "summary_end" => i = j
    /\ \A i, j \in DOMAIN s : s[i] = "summary" /\ s[j] = "summary_end" => i < j
    /\ \A i, j \in DOMAIN s : s[i] = "summary_end" /\ s[j] = "request" => i < j
    /\ ~closes => ~Has(s, "request")
    /\ \A i, j \in DOMAIN s : s[i] = "http_error" /\ i < j => s[j] = "summary_end"

ShownMatches ==
    /\ ShownOrder(shown, compacts, summaryClosed)
    /\ pc \in {"reading", "joining"} /\ compacts => shown # <<>>
    /\ pc = "start" => shown = <<>>
    /\ pc = "reading" => ~Has(shown, "http_error")
    /\ pc = "done" /\ outcome \notin {"not_started", "terminated"} /\ shown # <<>> =>
          summaryClosed

SummaryEnds == [type |-> "finished", phase |-> "summary"]

(* The caller closes the summary by the event the request thread left when *)
(* it finished the summary, so what is in the slot is of the phase the     *)
(* request thread is in, and nothing of the answer comes before that.      *)
SummaryPhases ==
    /\ ~compacts => summaryFinished /\ summaryClosed
    /\ pc = "start" => (summaryFinished <=> ~compacts)
    /\ request = "summary" => ~summaryFinished
    /\ request \in {"check_summary", "request"} => summaryFinished
    /\ requestError # NoError =>
          (requestError.from = "summary" <=> ~summaryFinished)
    /\ pc = "reading" =>
          /\ summaryFinished <=> summaryClosed \/ slot[Stream] = SummaryEnds
          /\ slot[Stream] = SummaryEnds => ~summaryClosed
          /\ slot[Stream] \in Event /\ slot[Stream].type \in {"data", "finished"}
                /\ slot[Stream] # SummaryEnds =>
             (slot[Stream].phase = "request" <=> summaryFinished)

(* An error in the slot is the one the request thread ended with.          *)
ErrorIsAttributed ==
    slot[Stream] \in Event /\ slot[Stream].type \in {"http_error", "failed"} =>
       /\ requestError # NoError
       /\ slot[Stream].type = requestError.type
       /\ slot[Stream].phase =
             IF requestError.from = "summary" THEN "summary" ELSE "request"

OrderInv == ShownMatches /\ SummaryPhases /\ ErrorIsAttributed

(* What a sequence holds once one more thing was appended.                 *)
LEMMA HasAppend ==
    ASSUME NEW s \in Seq(Shown), NEW x \in Shown
    PROVE  LET t == Append(s, x)
           IN /\ Len(s) \in Nat /\ DOMAIN s = 1 .. Len(s)
              /\ t \in Seq(Shown) /\ t # <<>>
              /\ DOMAIN t = 1 .. Len(s) + 1
              /\ \A i \in 1 .. Len(s) : t[i] = s[i]
              /\ t[Len(s) + 1] = x
              /\ s # <<>> => Len(s) >= 1
              /\ \A y : Has(t, y) <=> Has(s, y) \/ x = y
  <1> DEFINE n == Len(s)
             t == Append(s, x)
  <1>1. /\ n \in Nat /\ DOMAIN s = 1 .. n
        /\ t \in Seq(Shown) /\ t # <<>>
        /\ Len(t) = n + 1 /\ DOMAIN t = 1 .. n + 1
        /\ \A i \in 1 .. n : t[i] = s[i]
        /\ t[n + 1] = x
    BY AppendProperties, LenProperties
  <1>2. s # <<>> => n >= 1
    BY <1>1, EmptySeq
  <1> HIDE DEF n, t
  <1>3. ASSUME NEW y PROVE Has(t, y) <=> Has(s, y) \/ x = y
    BY <1>1 DEF Has
  <1> QED  BY <1>1, <1>2, <1>3 DEF n, t

(* One more thing shown keeps the order when it comes at its time.         *)
LEMMA ShowOne ==
    ASSUME NEW s \in Seq(Shown), NEW x \in {"summary", "request", "http_error"},
           NEW opens \in BOOLEAN, NEW closes \in BOOLEAN,
           ShownOrder(s, opens, closes),
           opens => s # <<>>,
           ~Has(s, "http_error"),
           x = "summary" => ~(opens /\ closes),
           x = "request" => closes
    PROVE  ShownOrder(Append(s, x), opens, closes)
  <1> DEFINE n == Len(s)
             t == Append(s, x)
  <1>0. x \in Shown
    BY DEF Shown
  <1>1. /\ n \in Nat /\ DOMAIN s = 1 .. n /\ DOMAIN t = 1 .. n + 1
        /\ \A i \in 1 .. n : t[i] = s[i]
        /\ t[n + 1] = x
        /\ opens => n >= 1
        /\ \A y : Has(t, y) <=> Has(s, y) \/ x = y
    BY <1>0, HasAppend
  <1> HIDE DEF n, t
  <1>4. \A i \in DOMAIN t : t[i] = "summary_start" <=> opens /\ i = 1
    BY <1>1 DEF ShownOrder
  <1>5. Has(t, "summary_end") <=> opens /\ closes
    BY <1>1 DEF ShownOrder
  <1>6. \A i, j \in DOMAIN t : t[i] = "summary_end" /\ t[j] = "summary_end" => i = j
    BY <1>1 DEF ShownOrder, Has
  <1>7. \A i, j \in DOMAIN t : t[i] = "summary" /\ t[j] = "summary_end" => i < j
    BY <1>1 DEF ShownOrder, Has
  <1>8. \A i, j \in DOMAIN t : t[i] = "summary_end" /\ t[j] = "request" => i < j
    BY <1>1 DEF ShownOrder, Has
  <1>9. ~closes => ~Has(t, "request")
    BY <1>1 DEF ShownOrder
  <1>10. \A i, j \in DOMAIN t : t[i] = "http_error" /\ i < j => t[j] = "summary_end"
    BY <1>1 DEF ShownOrder, Has
  <1> QED  BY <1>4, <1>5, <1>6, <1>7, <1>8, <1>9, <1>10 DEF ShownOrder, t

(* The end of an open summary may come at any time before the answer.      *)
LEMMA ShowEnd ==
    ASSUME NEW s \in Seq(Shown), s # <<>>, ShownOrder(s, TRUE, FALSE)
    PROVE  ShownOrder(Append(s, "summary_end"), TRUE, TRUE)
  <1> DEFINE n == Len(s)
             x == "summary_end"
             t == Append(s, x)
  <1>0. x \in Shown
    BY DEF Shown
  <1>1. /\ n \in Nat /\ DOMAIN s = 1 .. n /\ DOMAIN t = 1 .. n + 1
        /\ \A i \in 1 .. n : t[i] = s[i]
        /\ t[n + 1] = "summary_end"
        /\ n >= 1
        /\ \A y : Has(t, y) <=> Has(s, y) \/ x = y
    BY <1>0, HasAppend
  <1>2. ~Has(s, "summary_end") /\ ~Has(s, "request")
    BY DEF ShownOrder
  <1> HIDE DEF n, t
  <1>4. \A i \in DOMAIN t : t[i] = "summary_start" <=> i = 1
    BY <1>1 DEF ShownOrder
  <1>5. Has(t, "summary_end")
    BY <1>1
  <1>6. \A i, j \in DOMAIN t : t[i] = "summary_end" /\ t[j] = "summary_end" => i = j
    BY <1>1, <1>2 DEF Has
  <1>7. \A i, j \in DOMAIN t : t[i] = "summary" /\ t[j] = "summary_end" => i < j
    BY <1>1, <1>2 DEF Has
  <1>8. \A i, j \in DOMAIN t : t[i] = "summary_end" /\ t[j] = "request" => i < j
    BY <1>1, <1>2 DEF Has
  <1>10. \A i, j \in DOMAIN t : t[i] = "http_error" /\ i < j => t[j] = "summary_end"
    BY <1>1 DEF ShownOrder
  <1> QED  BY <1>4, <1>5, <1>6, <1>7, <1>8, <1>10 DEF ShownOrder, t

(* Closing the summary shows its end once, after the error if there is one. *)
LEMMA CloseSummaryOrder ==
    ASSUME TypeOK, ShownOrder(shown, compacts, summaryClosed),
           ~compacts => summaryClosed,
           compacts => shown # <<>>,
           NEW items \in {<<>>, <<"http_error">>},
           items # <<>> => ~Has(shown, "http_error"),
           CloseSummary(items)
    PROVE  /\ ShownOrder(shown', compacts, summaryClosed')
           /\ summaryClosed' = TRUE
           /\ compacts => shown' # <<>>
           /\ items = <<>> /\ ~Has(shown, "http_error") => ~Has(shown', "http_error")
  <1> DEFINE first == shown \o items
             end == IF summaryClosed THEN <<>> ELSE <<"summary_end">>
  <1>0. shown \in Seq(Shown) /\ summaryClosed \in BOOLEAN /\ compacts \in BOOLEAN
    BY DEF TypeOK
  <1>0a. "http_error" \in Shown /\ "summary_end" \in Shown
    BY DEF Shown
  <1>1. /\ first \in Seq(Shown) /\ ShownOrder(first, compacts, summaryClosed)
        /\ compacts => first # <<>>
        /\ items = <<>> => first = shown
    <2>1. CASE items = <<>>
      <3>1. first = shown
        BY <2>1, <1>0, ConcatEmptySeq
      <3> QED  BY <3>1, <1>0
    <2>2. CASE items = <<"http_error">>
      <3>1. first = Append(shown, "http_error")
        BY <2>2, <1>0, <1>0a, AppendIsConcat
      <3>2. ~Has(shown, "http_error")
        BY <2>2
      <3>3. Append(shown, "http_error") \in Seq(Shown)
            /\ Append(shown, "http_error") # <<>>
        BY <1>0, <1>0a, HasAppend
      <3>4. ShownOrder(Append(shown, "http_error"), compacts, summaryClosed)
        BY <3>2, <1>0, ShowOne
      <3> QED  BY <3>1, <3>3, <3>4
    <2> QED  BY <2>1, <2>2
  <1>2. shown' = first \o end /\ summaryClosed' = TRUE
    BY DEF CloseSummary
  <1> HIDE DEF first
  <1>3. CASE summaryClosed
    <2>1. shown' = first
      BY <1>1, <1>2, <1>3, ConcatEmptySeq
    <2> QED  BY <1>1, <1>2, <1>3, <2>1
  <1>4. CASE ~summaryClosed
    <2>1. shown' = Append(first, "summary_end")
      BY <1>1, <1>2, <1>4, <1>0a, AppendIsConcat
    <2>2. compacts = TRUE /\ summaryClosed = FALSE
      BY <1>0, <1>4
    <2>3. ShownOrder(first, TRUE, FALSE) /\ first # <<>>
      BY Zenon, <1>1, <2>2
    <2>4. ShownOrder(Append(first, "summary_end"), TRUE, TRUE)
      BY <1>1, <2>3, ShowEnd
    <2>5. /\ Append(first, "summary_end") # <<>>
          /\ \A y : Has(Append(first, "summary_end"), y) <=>
                    Has(first, y) \/ "summary_end" = y
      BY <1>1, <1>0a, HasAppend
    <2>6. /\ ShownOrder(shown', compacts, summaryClosed')
          /\ summaryClosed' = TRUE /\ shown' # <<>>
      BY Zenon, <1>2, <2>1, <2>2, <2>4, <2>5
    <2> QED  BY <1>1, <2>1, <2>5, <2>6
  <1> QED  BY <1>0, <1>3, <1>4

LEMMA InitOrder == Init => OrderInv
  <1> SUFFICES ASSUME Init PROVE OrderInv
    OBVIOUS
  <1>1. slot[Stream] = NoEvent /\ slot[Stream] \notin Event
    BY TurnAssumption DEF Init, Port!Init
  <1>2. shown = <<>> /\ DOMAIN shown = {}
    BY DEF Init
  <1>3. ShownMatches
    BY <1>2 DEF Init, ShownMatches, ShownOrder, Has
  <1> QED  BY <1>1, <1>3 DEF Init, OrderInv, SummaryPhases, ErrorIsAttributed

(* The request thread shows nothing; its phase is in step with its events. *)
LEMMA RequestStepOrder ==
    ASSUME IInv, OrderInv, outcome # "terminated", RequestStep PROVE OrderInv'
  <1> USE DEF IInv, OrderInv
  <1>a. UNCHANGED <<pc, compacts, eventLogError, streamError, started, shown,
                    summaryClosed, outcome>>
    BY DEF RequestStep, Receive, FinishSummary, SummaryAccepted, FinishRequest,
           EmitError, ThreadEnds, RequestThrows
  <1>b. ShownMatches'
    BY <1>a DEF ShownMatches, ShownOrder, Has
  <1>c. request \notin {"none", "ended"} /\ pc \in {"reading", "joining"}
        /\ (request # "returning" => pc = "reading")
    BY DEF RequestStep, Receive, FinishSummary, SummaryAccepted, FinishRequest,
           EmitError, ThreadEnds, RequestThrows, LastWaits, TypeOK
  <1>d. NoEvent \notin Event
    BY TurnAssumption
  <1>e. compacts \in BOOLEAN /\ summaryFinished \in BOOLEAN /\ summaryClosed \in BOOLEAN
    BY DEF TypeOK
  <1>1. CASE Receive
    <2>1. request \in {"summary", "request"}
          /\ UNCHANGED <<request, summaryFinished, requestError>>
      BY <1>1 DEF Receive
    <2>2. slot[Stream] = NoEvent /\ slot'[Stream] = [type |-> "data", phase |-> request]
      BY <1>1, <2>1, EmitPuts DEF Receive
    <2>3. slot[Stream] # SummaryEnds
      BY <1>d, <2>2 DEF SummaryEnds, Event
    <2>4. /\ slot'[Stream] # SummaryEnds
          /\ slot'[Stream].type = "data" /\ slot'[Stream].phase = request
      BY <2>2 DEF SummaryEnds
    <2>5. SummaryPhases'
      BY <1>a, <1>c, <1>e, <2>1, <2>3, <2>4 DEF SummaryPhases, SummaryEnds
    <2> QED  BY <1>b, <2>4, <2>5 DEF ErrorIsAttributed
  <1>2. CASE FinishSummary
    <2>1. request = "summary" /\ summaryFinished' = TRUE /\ request' = "check_summary"
          /\ requestError' = requestError /\ requestError = NoError
      BY <1>2 DEF FinishSummary, ErrorThrown
    <2>2. slot[Stream] = NoEvent /\ slot'[Stream] = SummaryEnds
      BY <1>2, EmitPuts DEF FinishSummary, SummaryEnds
    <2>3. slot[Stream] # SummaryEnds
      BY <1>d, <2>2 DEF SummaryEnds, Event
    <2>4. slot'[Stream].type = "finished"
      BY <2>2 DEF SummaryEnds
    <2>5. SummaryPhases'
      BY <1>a, <1>c, <1>e, <2>1, <2>2, <2>3 DEF SummaryPhases, SummaryEnds
    <2> QED  BY <1>b, <2>4, <2>5 DEF ErrorIsAttributed
  <1>3. CASE SummaryAccepted
    BY <1>3, <1>a, <1>b, <1>c
       DEF SummaryAccepted, SummaryPhases, ErrorIsAttributed, SummaryEnds
  <1>4. CASE FinishRequest
    <2>1. request = "request" /\ request' = "returning"
          /\ UNCHANGED <<summaryFinished, requestError>>
      BY <1>4 DEF FinishRequest
    <2>2. slot[Stream] = NoEvent
          /\ slot'[Stream] = [type |-> "finished", phase |-> "request"]
      BY <1>4, EmitPuts DEF FinishRequest
    <2>3. slot[Stream] # SummaryEnds
      BY <1>d, <2>2 DEF SummaryEnds, Event
    <2>4. /\ slot'[Stream] # SummaryEnds
          /\ slot'[Stream].type = "finished" /\ slot'[Stream].phase = "request"
      BY <2>2 DEF SummaryEnds
    <2>5. SummaryPhases'
      BY <1>a, <1>c, <1>e, <2>1, <2>3, <2>4 DEF SummaryPhases, SummaryEnds
    <2> QED  BY <1>b, <2>4, <2>5 DEF ErrorIsAttributed
  <1>5. CASE EmitError
    <2>0. request = "throwing" /\ request' = "returning"
          /\ UNCHANGED <<summaryFinished, requestError>>
      BY <1>5 DEF EmitError
    <2>1. requestError # NoError /\ requestError.type \in {"http_error", "failed"}
      BY <2>0 DEF ErrorThrown, TypeOK, Error
    <2>2. slot[Stream] = NoEvent
          /\ slot'[Stream] = [type |-> requestError.type, phase |-> ErrorPhase]
      BY <1>5, <2>1, EmitPuts DEF EmitError, ErrorPhase
    <2>3. slot[Stream] # SummaryEnds
      BY <1>d, <2>2 DEF SummaryEnds, Event
    <2>4. /\ slot'[Stream].type = requestError.type
          /\ slot'[Stream].phase = ErrorPhase
          /\ slot'[Stream].type \notin {"data", "finished"}
          /\ slot'[Stream] # SummaryEnds
      BY <2>1, <2>2 DEF SummaryEnds
    <2>5. SummaryPhases'
      BY <1>a, <1>c, <1>e, <2>0, <2>3, <2>4 DEF SummaryPhases, SummaryEnds
    <2>6. ErrorPhase = IF requestError.from = "summary" THEN "summary" ELSE "request"
      BY <2>1 DEF SummaryPhases, ErrorPhase
    <2> QED  BY <1>b, <2>0, <2>1, <2>4, <2>5, <2>6 DEF ErrorIsAttributed
  <1>6. ASSUME NEW error \in {"http_error", "failed"}, RequestThrows(error)
        PROVE  OrderInv'
    <2>1. requestError'.from = request
          /\ request \in {"summary", "check_summary", "request"}
          /\ request' = "throwing" /\ UNCHANGED <<slot, summaryFinished>>
      BY <1>6 DEF RequestThrows
    <2>2. ~(slot[Stream] \in Event /\ slot[Stream].type \in {"http_error", "failed"})
      BY <1>c, <1>d, <2>1 DEF LastWaits, IsLast
    <2>3. SummaryPhases'
      BY <1>a, <1>c, <2>1 DEF SummaryPhases, SummaryEnds
    <2> QED  BY <1>b, <2>1, <2>2, <2>3 DEF ErrorIsAttributed
  <1>7. CASE ThreadEnds
    BY <1>7, <1>a, <1>b, <1>c
       DEF ThreadEnds, SummaryPhases, ErrorIsAttributed, SummaryEnds
  <1> QED  BY <1>1, <1>2, <1>3, <1>4, <1>5, <1>6, <1>7 DEF RequestStep

(* What the caller takes out of the slot is shown at its time.             *)
LEMMA TurnStepOrder ==
    ASSUME IInv, OrderInv, TurnStep PROVE OrderInv'
  <1> USE DEF IInv, OrderInv
  <1>a. NoEvent \notin Event /\ SummaryEnds \in Event
    BY TurnAssumption DEF SummaryEnds, Event
  <1>b. /\ compacts \in BOOLEAN /\ summaryFinished \in BOOLEAN
        /\ summaryClosed \in BOOLEAN /\ shown \in Seq(Shown)
    BY DEF TypeOK
  <1>c. /\ <<>> \in {<<>>, <<"http_error">>}
        /\ <<"http_error">> \in {<<>>, <<"http_error">>}
    OBVIOUS
  <1>d. ~compacts => summaryClosed
    BY DEF SummaryPhases
  <1>1. CASE Start
    <2>1. /\ pc = "start" /\ pc' = "reading" /\ shown = <<>> /\ request = "none"
          /\ request' = IF compacts THEN "summary" ELSE "request"
          /\ shown' = IF compacts THEN <<"summary_start">> ELSE <<>>
          /\ UNCHANGED <<slot, compacts, summaryFinished, summaryClosed, requestError,
                         outcome>>
          /\ slot[Stream] = NoEvent
      BY <1>1 DEF Start, LastWaits, ShownMatches
    <2>2. /\ summaryFinished <=> ~compacts
          /\ summaryClosed <=> ~compacts
      BY <2>1 DEF SummaryPhases, ShownMatches, ShownOrder, Has
    <2>3. ShownMatches'
      <3>1. CASE compacts
        BY <2>1, <2>2, <3>1 DEF ShownMatches, ShownOrder, Has
      <3>2. CASE ~compacts
        BY <2>1, <2>2, <3>2 DEF ShownMatches, ShownOrder, Has
      <3> QED  BY <3>1, <3>2
    <2>4. SummaryPhases'
      BY <1>a, <2>1, <2>2 DEF SummaryPhases, ErrorThrown, SummaryEnds
    <2> QED  BY <1>a, <2>1, <2>3, <2>4 DEF ErrorIsAttributed
  <1>2. CASE StartThrows
    <2>1. slot'[Stream] = NoEvent
      BY <1>2 DEF StartThrows, Port!Discard, TypeOK
    <2>2. ShownMatches'
      BY <1>2 DEF StartThrows, ShownMatches, ShownOrder, Has
    <2> QED  BY <1>2, <1>a, <2>1, <2>2
             DEF StartThrows, SummaryPhases, ErrorIsAttributed
  <1>9. CASE StartFails
    <2>1. /\ slot'[Stream] = NoEvent /\ pc' = "done" /\ outcome' = "not_started"
          /\ shown' = IF compacts THEN <<"summary_start">> ELSE <<>>
          /\ UNCHANGED <<compacts, request, summaryFinished, summaryClosed, requestError>>
          /\ pc = "start" /\ shown = <<>> /\ request = "none"
      BY <1>9 DEF StartFails, Port!Discard, TypeOK, LastWaits, ShownMatches
    <2>2. (summaryFinished <=> ~compacts) /\ (summaryClosed <=> ~compacts)
      BY <2>1 DEF SummaryPhases, ShownMatches, ShownOrder, Has
    <2>3. ShownMatches'
      <3>1. CASE compacts
        BY <2>1, <2>2, <3>1 DEF ShownMatches, ShownOrder, Has
      <3>2. CASE ~compacts
        BY <2>1, <2>2, <3>2 DEF ShownMatches, ShownOrder, Has
      <3> QED  BY <3>1, <3>2
    <2> QED  BY <1>a, <2>1, <2>3
             DEF SummaryPhases, ErrorIsAttributed
  <1>3. ASSUME NEW throws \in BOOLEAN, NEW appends \in BOOLEAN, ReadData(throws, appends)
        PROVE  OrderInv'
    <2>1. /\ pc = "reading" /\ slot'[Stream] = NoEvent
          /\ slot[Stream] \in Event /\ slot[Stream].type = "data"
          /\ UNCHANGED <<pc, compacts, request, summaryFinished, requestError,
                         summaryClosed, outcome>>
      BY <1>3, ReadTakes DEF ReadData
    <2>2. slot[Stream].phase \in {"summary", "request"} /\ slot[Stream] # SummaryEnds
      BY <2>1 DEF Event, SummaryEnds
    <2>3. (summaryFinished <=> summaryClosed)
          /\ (slot[Stream].phase = "request" <=> summaryFinished)
      BY <2>1, <2>2 DEF SummaryPhases
    <2>4. ~Has(shown, "http_error") /\ (compacts => shown # <<>>)
      BY <2>1 DEF ShownMatches
    <2>5. CASE shown' = shown
      <3>1. ShownMatches'
        BY <2>1, <2>5 DEF ShownMatches, ShownOrder, Has
      <3> QED  BY <1>a, <2>1, <2>2, <2>3, <3>1 DEF SummaryPhases, ErrorIsAttributed, SummaryEnds
    <2>6. CASE shown' = Append(shown, slot[Stream].phase)
      <3>1. slot[Stream].phase \in Shown
        BY <2>2 DEF Shown
      <3>2. ShownOrder(shown', compacts, summaryClosed)
        BY <1>b, <2>2, <2>3, <2>4, <2>6, ShowOne DEF ShownMatches
      <3>3. shown' # <<>> /\ ~Has(shown', "http_error")
        BY <1>b, <2>2, <2>4, <2>6, <3>1, HasAppend
      <3>4. ShownMatches'
        BY <2>1, <3>2, <3>3 DEF ShownMatches
      <3> QED  BY <1>a, <2>1, <2>2, <2>3, <3>4 DEF SummaryPhases, ErrorIsAttributed, SummaryEnds
    <2> QED  BY <1>3, <2>5, <2>6 DEF ReadData
  <1>4. ASSUME NEW throws \in BOOLEAN, NEW delta \in BOOLEAN,
               ReadEmptyData(throws, delta)
        PROVE  OrderInv'
    <2>1. /\ pc = "reading" /\ slot'[Stream] = NoEvent
          /\ slot[Stream] \in Event /\ slot[Stream].type = "data"
          /\ UNCHANGED <<pc, compacts, request, summaryFinished, requestError,
                         summaryClosed, outcome, shown>>
      BY <1>4, ReadTakes DEF ReadEmptyData
    <2>2. slot[Stream] # SummaryEnds
      BY <2>1 DEF SummaryEnds
    <2>3. summaryFinished <=> summaryClosed
      BY <2>1, <2>2 DEF SummaryPhases
    <2>4. ShownMatches'
      BY <2>1 DEF ShownMatches, ShownOrder, Has
    <2> QED  BY <1>a, <2>1, <2>3, <2>4 DEF SummaryPhases, ErrorIsAttributed, SummaryEnds
  <1>5. ASSUME NEW throws \in BOOLEAN, ReadSummaryFinished(throws)
        PROVE  OrderInv'
    <2>1. /\ pc = "reading" /\ slot'[Stream] = NoEvent /\ slot[Stream] \in Event
          /\ slot[Stream].type = "finished" /\ slot[Stream].phase = "summary"
          /\ UNCHANGED <<pc, compacts, request, summaryFinished, requestError, outcome>>
          /\ CloseSummary(<<>>)
      BY <1>5, ReadTakes DEF ReadSummaryFinished
    <2>2. slot[Stream] = SummaryEnds
      BY <2>1 DEF Event, SummaryEnds
    <2>3. summaryFinished
      BY <2>1, <2>2 DEF SummaryPhases
    <2>4. ~Has(shown, "http_error") /\ (compacts => shown # <<>>)
      BY <2>1 DEF ShownMatches
    <2>5. /\ ShownOrder(shown', compacts, summaryClosed') /\ summaryClosed' = TRUE
          /\ compacts => shown' # <<>>
          /\ ~Has(shown', "http_error")
      BY <1>c, <1>d, <2>1, <2>4, CloseSummaryOrder DEF ShownMatches
    <2>6. ShownMatches'
      BY <2>1, <2>5 DEF ShownMatches
    <2> QED  BY <1>a, <2>1, <2>3, <2>5, <2>6 DEF SummaryPhases, ErrorIsAttributed, SummaryEnds
  <1>6. ASSUME NEW throws \in BOOLEAN, LeaveLoop(throws)
        PROVE  OrderInv'
    <2>1. /\ pc = "reading" /\ pc' = "joining" /\ slot'[Stream] = NoEvent
          /\ slot[Stream] \in Event /\ IsLast(slot[Stream])
          /\ UNCHANGED <<compacts, request, summaryFinished, requestError, outcome>>
      BY <1>6, ReadTakes DEF LeaveLoop, LastEvent, IsLast
    <2>2. request \in {"returning", "ended"}
      BY <1>a, <2>1 DEF LastWaits
    <2>4. ~Has(shown, "http_error") /\ (compacts => shown # <<>>)
      BY <2>1 DEF ShownMatches
    <2>5. /\ ShownOrder(shown', compacts, summaryClosed')
          /\ compacts => shown' # <<>>
          /\ ~compacts => summaryClosed'
      <3>1. CASE UNCHANGED <<shown, summaryClosed>>
        BY <1>d, <2>4, <3>1 DEF ShownMatches
      <3>2. CASE CloseSummary(<<"http_error">>)
        BY <1>c, <1>d, <2>4, <3>2, CloseSummaryOrder DEF ShownMatches
      <3>3. CASE CloseSummary(<<>>)
        BY <1>c, <1>d, <2>4, <3>3, CloseSummaryOrder DEF ShownMatches
      <3> QED  BY <1>6, <3>1, <3>2, <3>3 DEF LeaveLoop, LastEvent
    <2>6. ShownMatches'
      BY <2>1, <2>5 DEF ShownMatches
    <2> QED  BY <1>a, <2>1, <2>2, <2>5, <2>6 DEF SummaryPhases, ErrorIsAttributed
  <1>7. CASE Terminate
    <2>1. slot'[Stream] = NoEvent
      BY <1>7, ReadTakes DEF Terminate
    <2>2. /\ pc' = "done" /\ outcome' = "terminated"
          /\ UNCHANGED <<compacts, request, summaryFinished, requestError, shown,
                         summaryClosed>>
      BY <1>7 DEF Terminate
    <2>3. ShownMatches'
      BY <2>2 DEF ShownMatches, ShownOrder, Has
    <2> QED  BY <1>a, <2>1, <2>2, <2>3 DEF SummaryPhases, ErrorIsAttributed
  <1>8. CASE Finish
    <2>1. slot'[Stream] = NoEvent
      BY <1>8 DEF Finish, Port!Discard, TypeOK
    <2>2. /\ pc = "joining" /\ pc' = "done"
          /\ UNCHANGED <<compacts, request, summaryFinished, requestError>>
          /\ CloseSummary(<<>>)
      BY <1>8 DEF Finish, Join
    <2>3. /\ ShownOrder(shown', compacts, summaryClosed') /\ summaryClosed' = TRUE
      BY <1>c, <1>d, <2>2, CloseSummaryOrder DEF ShownMatches
    <2>4. ShownMatches'
      BY <2>2, <2>3 DEF ShownMatches
    <2> QED  BY <1>a, <2>1, <2>2, <2>3, <2>4 DEF SummaryPhases, ErrorIsAttributed
  <1> QED  BY <1>1, <1>2, <1>3, <1>4, <1>5, <1>6, <1>7, <1>8, <1>9 DEF TurnStep

LEMMA OrderInvariant == Spec => [](IInv /\ OrderInv)
  <1>1. ASSUME IInv, OrderInv, [Next]_vars PROVE OrderInv'
    <2>1. CASE UNCHANGED vars
      BY <1>1, <2>1 DEF vars, OrderInv, ShownMatches, ShownOrder, Has, SummaryPhases,
                        SummaryEnds, ErrorIsAttributed
    <2> QED  BY <1>1, <2>1, RequestStepOrder, TurnStepOrder DEF Next
  <1> QED  BY <1>1, InitOrder, Invariant, PTL DEF Spec

-----------------------------------------------------------------------------

(* Every variable of a turn keeps its type.                                *)
THEOREM TypeCorrect == Spec => []TypeOK
  <1>1. IInv => TypeOK
    BY DEF IInv
  <1> QED  BY <1>1, Invariant, PTL

(* When the loop of run_turn is left, the slot is empty and the request    *)
(* thread has only to return, so the join that follows cannot block.       *)
THEOREM NothingIsLeftBehind == Spec => []NothingLeftBehind
  <1>1. IInv => NothingLeftBehind
    BY DEF IInv, LastWaits, NothingLeftBehind
  <1> QED  BY <1>1, Invariant, PTL

(* run_turn never returns or throws while its request thread runs.         *)
THEOREM ThreadIsJoined == Spec => []JoinedBeforeReturn
  <1>1. IInv => JoinedBeforeReturn
    BY DEF IInv, LastWaits, JoinedBeforeReturn
  <1> QED  BY <1>1, Invariant, PTL

(* A failure of the provider comes out of run_turn whatever the observers  *)
(* throw, and a turn that returns had no error.                            *)
THEOREM NoFailureIsLost == Spec => []FailuresSurface
  <1>1. IInv => FailuresSurface
    BY DEF IInv
  <1> QED  BY <1>1, Invariant, PTL

(* What the caller is shown comes in order, whenever the observers throw   *)
(* and wherever the provider fails: the summary between its one start and  *)
(* its one end, the answer only after that, an HTTP error last but for the *)
(* end; and an error on its way names the request that failed.             *)
THEOREM ShownInOrder == Spec => []StreamInOrder
  <1>1. ASSUME IInv, OrderInv PROVE StreamInOrder
    <2> USE <1>1 DEF IInv, OrderInv
    <2>1. shown \in Seq(Shown) /\ DOMAIN shown = 1 .. Len(shown) /\ Len(shown) \in Nat
          /\ (shown # <<>> => Len(shown) >= 1)
      BY LenProperties, EmptySeq DEF TypeOK
    <2>2. slot[Stream] # NoEvent => slot[Stream] \in Event
      BY DEF TypeOK
    <2>3. ShownOrder(shown, compacts, summaryClosed)
      BY DEF ShownMatches
    <2>4. Has(shown, "request") => summaryClosed
      BY <2>3 DEF ShownOrder
    <2>5. pc = "done" /\ outcome \notin {"not_started", "terminated"} /\ shown # <<>> =>
             summaryClosed
      BY DEF ShownMatches
    <2> DEFINE at(x) == {i \in DOMAIN shown : shown[i] = x}
    <2>6. \A x : at(x) # {} <=> Has(shown, x)
      BY DEF Has
    <2>7. Has(shown, "summary_start") <=> compacts /\ shown # <<>>
      BY <2>1, <2>3 DEF ShownOrder, Has
    <2>8. \A i \in at("summary_start") : i = 1
      BY <2>3 DEF ShownOrder
    <2>9. \A i \in at("summary"), j \in at("summary_end") : i < j
      BY <2>3 DEF ShownOrder
    <2>10. \A i \in at("summary_end"), j \in at("request") : i < j
      BY <2>3 DEF ShownOrder
    <2>11. \A i, j \in at("summary_end") : i = j
      BY <2>3 DEF ShownOrder
    <2>12. compacts /\ summaryClosed => Has(shown, "summary_end")
      BY <2>3 DEF ShownOrder
    <2>13. \A i \in at("http_error") :
              \A j \in i + 1 .. Len(shown) : shown[j] = "summary_end"
      BY <2>1, <2>3 DEF ShownOrder
    <2>14. slot[Stream] # NoEvent /\ slot[Stream].type \in {"http_error", "failed"} =>
             /\ slot[Stream].type = requestError.type
             /\ slot[Stream].phase =
                   IF requestError.from = "summary" THEN "summary" ELSE "request"
      BY <2>2 DEF ErrorIsAttributed
    <2> HIDE <1>1
    <2> HIDE DEF IInv, OrderInv
    <2> QED  BY <2>4, <2>5, <2>6, <2>7, <2>8, <2>9, <2>10, <2>11, <2>12, <2>13, <2>14
             DEF StreamInOrder
  <1> QED  BY <1>1, OrderInvariant, PTL

-----------------------------------------------------------------------------
(* The registration of the turn is used as a one-place channel: what a     *)
(* step of either thread does to it is one operation of PortChannel.       *)

LEMMA RequestStepChannel ==
    ASSUME IInv, RequestStep
    PROVE  (\E event \in Event : Port!Put(Stream, event)) \/ UNCHANGED port
  <1>1. ASSUME NEW type \in {"data", "finished", "http_error", "failed"},
               NEW phase \in {"summary", "request"}, Emit(type, phase)
        PROVE  \E event \in Event : Port!Put(Stream, event)
    BY <1>1 DEF Emit, Event
  <1>2. CASE Receive
    BY <1>1, <1>2 DEF Receive
  <1>3. CASE FinishSummary
    BY <1>1, <1>3 DEF FinishSummary
  <1>4. CASE FinishRequest
    BY <1>1, <1>4 DEF FinishRequest
  <1>5. CASE EmitError
    <2>1. requestError \in Error
      BY <1>5 DEF EmitError, IInv, TypeOK, ErrorThrown
    <2>2. requestError.type \in {"data", "finished", "http_error", "failed"}
      BY <2>1 DEF Error
    <2>3. ErrorPhase \in {"summary", "request"}
      BY DEF ErrorPhase
    <2> QED  BY <1>1, <1>5, <2>2, <2>3 DEF EmitError
  <1>6. CASE \/ SummaryAccepted \/ ThreadEnds
             \/ \E error \in {"http_error", "failed"} : RequestThrows(error)
    BY <1>6 DEF SummaryAccepted, ThreadEnds, RequestThrows
  <1> QED  BY <1>2, <1>3, <1>4, <1>5, <1>6 DEF RequestStep

LEMMA TurnStepChannel ==
    ASSUME TurnStep
    PROVE  Port!Take(Stream) \/ Port!Discard(Stream) \/ UNCHANGED port
  BY DEF TurnStep, Start, StartThrows, StartFails, ReadData, ReadEmptyData, ReadSummaryFinished,
         LeaveLoop, LastEvent, Terminate, Finish, Read

(* run_turn asks nothing of its registration that EventPort does not       *)
(* implement: it and its request thread emit into the open, empty slot,    *)
(* take what is in it, and drop the registration at the end, and nothing   *)
(* is emitted after that.                                                  *)
THEOREM UsesChannel == Spec => Port!Spec
  <1>1. Init => Port!Init
    BY DEF Init
  <1>2. ASSUME IInv, [Next]_vars PROVE [Port!Next]_(Port!vars)
    <2>1. CASE RequestStep
      BY <1>2, <2>1, RequestStepChannel DEF Port!Next, Port!vars
    <2>2. CASE TurnStep
      BY <2>2, TurnStepChannel DEF Port!Next, Port!vars
    <2>3. CASE UNCHANGED vars
      BY <2>3 DEF vars, Port!vars
    <2> QED  BY <1>2, <2>1, <2>2, <2>3 DEF Next
  <1> QED  BY <1>1, <1>2, Invariant, PTL DEF Spec, Port!Spec

(* Nobody waits for what nobody owes: while run_turn waits at an empty     *)
(* slot the request thread is in a request, between two, or about to emit  *)
(* its error; an event that blocks Emit has run_turn at the read that      *)
(* takes it; and the thread that is joined has only to return.             *)
EachWaitIsOwed ==
    /\ pc = "reading" /\ slot[Stream] = NoEvent =>
          request \in {"summary", "check_summary", "request", "throwing"}
    /\ slot[Stream] # NoEvent /\ outcome # "terminated" => pc = "reading"
    /\ pc = "joining" => request \in {"returning", "ended"}

(* run_turn and its request thread never wait for each other, at whatever  *)
(* point a request fails and whichever observer throws.                    *)
THEOREM NobodyWaitsInVain == Spec => []EachWaitIsOwed
  <1>1. IInv => EachWaitIsOwed
    BY DEF IInv, TypeOK, LastWaits, EachWaitIsOwed
  <1> QED  BY <1>1, Invariant, PTL

=============================================================================
