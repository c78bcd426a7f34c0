---------------------------- MODULE ConvertHistory ----------------------------
(* convert_history: the messages of a session rebuilt from the provider      *)
(* events that a client recorded, beside ResponseBuilder, which assembled    *)
(* the same events while they came.  Sessions record into one database, and  *)
(* a client may record a response that broke off.                            *)
EXTENDS Naturals, Sequences, SequencesExt

CONSTANTS ChatSessions,
          Streams,   \* session -> the events its provider may send: [provider,
                     \* kind, id, content, reasoning, call, finish], the call
                     \* NoCall or [index, id, name, arguments]
          NoCall,
          Nothing,   \* a field that is absent; the id of an event that is empty too
          Null,      \* a field that is null
          Empty,     \* a field that is the empty string
          MaxRows    \* bound: the rows of the database

(* Only a delta has a choice, and with it a finish_reason.                 *)
ASSUME HistoryAssumption ==
    \A s \in ChatSessions : \A e \in Streams[s] :
       /\ e.kind \in {"delta", "skipped", "no_object", "wrong", "empty"}
       /\ e.finish \in BOOLEAN
       /\ e.finish => e.kind = "delta"
       /\ e.provider # Nothing

VARIABLES rows,     \* the recorded events, each with its session
          live,     \* session -> the ResponseBuilder of its response
          answers   \* session -> the messages its builders gave

historyVars == <<rows, live, answers>>

NoMessage == [content |-> <<>>, hasContent |-> FALSE,
              reasoning |-> <<>>, hasReasoning |-> FALSE, calls |-> <<>>]

NoResponse == [message |-> NoMessage, started |-> FALSE, failed |-> FALSE,
               id |-> Nothing, provider |-> Nothing, ended |-> FALSE,
               regular |-> TRUE]

HistoryInit ==
    /\ rows = <<>>
    /\ live = [s \in ChatSessions |-> NoResponse]
    /\ answers = [s \in ChatSessions |-> <<>>]

-----------------------------------------------------------------------------
(* A delta applied to a message by the three converters: pieces are        *)
(* appended, an id replaces the one before, and a field that was given, if *)
(* only as an empty string, is a field of the message.                     *)

Given(p) == p \notin {Nothing, Null}

Piece(p) == IF Given(p) /\ p # Empty THEN <<p>> ELSE <<>>

(* OpenAI's converter, and its parser, have no reasoning.                  *)
Reasoning(e) == IF e.provider = "openai" THEN Nothing ELSE e.reasoning

CallAt(m, i) ==
    IF i \in DOMAIN m.calls THEN m.calls[i]
    ELSE [id |-> Nothing, name |-> <<>>, arguments |-> <<>>]

WithCall(m, call) ==
    LET before == CallAt(m, call.index)
        after == [id |-> IF Given(call.id) THEN call.id ELSE before.id,
                  name |-> before.name \o Piece(call.name),
                  arguments |-> before.arguments \o Piece(call.arguments)]
    IN [i \in DOMAIN m.calls \cup {call.index} |->
          IF i = call.index THEN after ELSE m.calls[i]]

Applied(m, e) ==
    [content |-> m.content \o Piece(e.content),
     hasContent |-> m.hasContent \/ Given(e.content),
     reasoning |-> m.reasoning \o Piece(Reasoning(e)),
     hasReasoning |-> m.hasReasoning \/ Given(Reasoning(e)),
     calls |-> IF e.call = NoCall THEN m.calls ELSE WithCall(m, e.call)]

(* By the builder: an empty reasoning_content is none for reasoning_delta. *)
Built(m, e) ==
    [Applied(m, e) EXCEPT
        !.hasReasoning = m.hasReasoning \/ Piece(Reasoning(e)) # <<>>]

-----------------------------------------------------------------------------
(* convert_history_rows, a row at a time.                                  *)

Start == [history |-> <<>>, current |-> NoMessage, started |-> FALSE,
          id |-> Nothing, provider |-> Nothing, failed |-> FALSE]

Complete(m) ==
    \A i \in DOMAIN m.calls :
       m.calls[i].id \notin {Nothing, Empty} /\ m.calls[i].name # <<>>

FinishedKeeps(c) ==
    IF ~Complete(c.current) THEN [c EXCEPT !.failed = TRUE]
    ELSE [c EXCEPT !.history = Append(@, c.current), !.started = FALSE]

(* finish_message: a call without its id or its name throws.               *)
Finished(c) ==
    IF ~Complete(c.current) THEN [c EXCEPT !.failed = TRUE]
    ELSE [c EXCEPT !.history = Append(@, c.current), !.current = NoMessage,
                   !.started = FALSE, !.id = Nothing]

FlushedNever(c) == c

Flushed(c) == IF c.started THEN Finished(c) ELSE c

(* The converters take the arguments of a call as text only, and no null   *)
(* for the id of the event, which the builder does not read.               *)
Refused(e) ==
    \/ e.kind \in {"wrong", "empty"}
    \/ e.id = Null
    \/ e.call # NoCall /\ e.call.arguments = "object"

(* A message ends with its finish_reason, and when the next id comes.  An  *)
(* event without a delta, or whose delta is no object, is passed over.     *)
Project(c, e) ==
    LET split == /\ e.id # Nothing /\ c.id # Nothing
                 /\ e.id # c.id
        begun == IF split THEN Flushed(c) ELSE c
        open == IF begun.started THEN begun
                ELSE [begun EXCEPT !.started = TRUE, !.id = e.id]
        applied == [open EXCEPT !.current = Applied(@, e)]
    IN IF c.failed \/ e.kind \in {"skipped", "no_object"} THEN c
       ELSE IF Refused(e) THEN [c EXCEPT !.failed = TRUE]
       ELSE IF begun.failed THEN begun
       ELSE IF e.finish THEN Finished(applied) ELSE applied

(* Each run of rows of one provider is converted for itself.               *)
InSegment(c, e) ==
    Project(IF e.provider = c.provider THEN c
            ELSE [Flushed(c) EXCEPT !.provider = e.provider], e)

Converted(events) == Flushed(FoldLeft(InSegment, Start, events))

(* convert_history reads the rows of one session, convert_all_history cuts *)
(* all of them where the session changes.                                  *)
RowsOf(s) ==
    FlattenSeq([i \in DOMAIN rows |->
                   IF rows[i].session = s THEN <<rows[i].event>> ELSE <<>>])

Group(groups, row) ==
    IF groups # <<>> /\ Last(groups).session = row.session
    THEN [groups EXCEPT ![Len(groups)].events = Append(@, row.event)]
    ELSE Append(groups, [session |-> row.session, events |-> <<row.event>>])

Groups == FoldLeft(Group, <<>>, rows)

-----------------------------------------------------------------------------
(* ResponseBuilder: it takes an object for arguments that have not begun,  *)
(* and fails for a delta that is no object.                                *)

Appended(r, e) ==
    LET refused == \/ e.kind \in {"wrong", "no_object"}
                   \/ /\ e.call # NoCall /\ e.call.arguments = "object"
                      /\ CallAt(r.message, e.call.index).arguments # <<>>
    IN IF e.kind \in {"skipped", "empty"} THEN r
       ELSE IF refused THEN [r EXCEPT !.failed = TRUE]
       ELSE [r EXCEPT !.message = Built(@, e), !.started = TRUE]

(* A response as the protocol has it: one id, one provider, all arguments  *)
(* text, and nothing after the finish_reason, by which all calls are whole.*)
Regular(r, e) ==
    /\ r.regular
    /\ ~Refused(e)
    /\ r.provider \in {Nothing, e.provider}
    /\ e.kind = "delta" => ~r.ended /\ (r.id = e.id \/ ~r.started)
    /\ e.finish => Complete(Built(r.message, e))

Taken(r, e) ==
    [Appended(r, e) EXCEPT !.regular = Regular(r, e), !.provider = e.provider,
                           !.id = IF e.kind = "delta" THEN e.id ELSE r.id,
                           !.ended = r.ended \/ e.finish]

Stream(s, e) ==
    /\ Len(rows) < MaxRows
    /\ ~live[s].failed
    /\ rows' = Append(rows, [session |-> s, event |-> e])
    /\ live' = [live EXCEPT ![s] = Taken(live[s], e)]
    /\ UNCHANGED answers

(* The stream is over: finish() gives the message or throws.               *)
Responded(s) ==
    /\ ~live[s].failed
    /\ \/ /\ live[s].started
          /\ answers' = [answers EXCEPT ![s] = Append(@, live[s].message)]
          /\ live' = [live EXCEPT ![s] =
                [NoResponse EXCEPT !.regular = live[s].regular /\ live[s].ended]]
       \/ /\ ~live[s].started
          /\ live' = [live EXCEPT ![s].failed = TRUE]
          /\ UNCHANGED answers
    /\ UNCHANGED rows

HistoryNext ==
    \E s \in ChatSessions : Responded(s) \/ \E e \in Streams[s] : Stream(s, e)

HistorySpec == HistoryInit /\ [][HistoryNext]_historyVars

-----------------------------------------------------------------------------
(* Properties.                                                             *)

Content(messages) == FlattenSeq([i \in DOMAIN messages |-> messages[i].content])

(* The messages of a session, the one that is under way included.          *)
SoFar(s) ==
    IF live[s].started THEN Append(answers[s], live[s].message) ELSE answers[s]

(* A message as a builder has it: reasoning that is empty is none.         *)
AsBuilt(m) == [m EXCEPT !.hasReasoning = m.reasoning # <<>>]

AllAsBuilt(messages) == [i \in DOMAIN messages |-> AsBuilt(messages[i])]

(* While the responses of a session are regular, its converted history is  *)
(* what the session had, message for message, an answer that broke off in  *)
(* the middle of its text included; only a call cut short is an error.  The*)
(* one difference is a reasoning_content that was sent but never more than *)
(* empty: the converted message has the empty field, the session's none.   *)
HistoryAgrees ==
    \A s \in ChatSessions :
       LET converted == Converted(RowsOf(s))
       IN live[s].regular /\ ~live[s].failed =>
             IF Complete(live[s].message)
             THEN ~converted.failed /\ AllAsBuilt(converted.history) = SoFar(s)
             ELSE converted.failed

(* Whatever is recorded, and however the sessions interleave, a conversion *)
(* that does not throw loses no text and makes up none, and converting all *)
(* sessions gives each the text it has when it is converted alone.         *)
TextKept ==
    \A s \in ChatSessions :
       LET converted == Converted(RowsOf(s))
           parts == [i \in DOMAIN Groups |->
                       IF Groups[i].session = s THEN Converted(Groups[i].events)
                       ELSE Start]
       IN /\ ~converted.failed /\ ~live[s].failed =>
                Content(converted.history) = Content(SoFar(s))
          /\ ~converted.failed /\ (\A i \in DOMAIN parts : ~parts[i].failed) =>
                FlattenSeq([i \in DOMAIN parts |-> Content(parts[i].history)])
                   = Content(converted.history)
=============================================================================
