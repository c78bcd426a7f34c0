------------------------------- MODULE Session -------------------------------
(***************************************************************************)
(* A Session and the client that drives it through the stage API:          *)
(* register_session, declare_* and run_* for the request, response and     *)
(* tool stages, close_session, and the destruction of the object.          *)
(*                                                                         *)
(* The client may declare a stage as often as it likes, keeps every stage  *)
(* object it was given, and passes any of them to run_*.  A call that      *)
(* blocks (the provider turn, a tool, the erasure of the credential) is    *)
(* two actions, with the watchdog thread in between.  A call refused with  *)
(* a logic_error changes nothing and is no action.                         *)
(***************************************************************************)
EXTENDS Naturals, Sequences

CONSTANTS RawIds,           (* the tool-call ids the model makes up         *)
          NoId,             (* the id is missing or empty                   *)
          Replies,          (* the tool calls an assistant may ask for      *)
          Initial,          (* SessionConfig::history                       *)
          Prompt,           (* SessionConfig::session_current.messages      *)
          RefreshWorkspace, (* SessionConfig::refresh_workspace             *)
          None,             (* an empty optional                            *)
          MaxStages         (* bound: how many stages are declared          *)

(* A tool call: its id, and whether it has no tool definition, has a       *)
(* definition but no valid arguments, or can be handed to the runtime.     *)
SynthId(n) == <<"hh_tool_call", n>>
CallIds == RawIds \cup ({"hh_tool_call"} \X Nat)
Kinds == {"missing", "invalid", "valid"}

Call == [id : CallIds \cup {NoId}, kind : Kinds]  (* as the model asks for it *)
CanonicalCall == [id : CallIds, kind : Kinds]     (* as it is prepared        *)

User             == [role |-> "user"]
Summary          == [role |-> "summary"]
Assistant(calls) == [role |-> "assistant", calls |-> calls]
Result(id)       == [role |-> "tool", id |-> id]

ToolResult == [role : {"tool"}, id : CallIds]

Message == {User, Summary} \cup [role : {"assistant"}, calls : Seq(Call)]
                           \cup ToolResult

(* A turn between its provider response and the response stage.            *)
Turn == [messages : Seq(Message), calls : Seq(Call),
         usage : {"exact", "unavailable"}]

(* What the history variable executed keeps of a call.                     *)
Execution == [token : Nat, refresh : BOOLEAN]

ASSUME SessionAssumption ==
    /\ \A reply \in Replies : reply \in Seq(Call)
    /\ Initial \in Seq({User})
    /\ Prompt \in Seq({User})
    /\ RefreshWorkspace \in BOOLEAN
    /\ None \notin Turn
    /\ MaxStages \in Nat

VARIABLES
    pc,             (* where the client thread is                           *)
    stages,         (* the stage objects the client was given               *)
    running,        (* the stage a blocked run_* call works on              *)
    state,          (* SessionData::state                                   *)
    generation,     (* SessionData::generation                              *)
    nextToken,      (* SessionData::next_stage_token                        *)
    activeToken,    (* SessionData::active_stage_token, 0 for none          *)
    history,        (* SessionData::history                                 *)
    current,        (* SessionData::session_current.messages                *)
    pendingTurn,    (* SessionData::pending_turn                            *)
    toolIndex,      (* SessionData::tool_index                              *)
    canonical,      (* SessionData::canonical_tool_calls                    *)
    results,        (* SessionData::tool_results                            *)
    nextCallId,     (* ToolCallHandler::next_call_id_                       *)
    refreshPending, (* ToolCallHandler::refresh_pending_                    *)
    failure,        (* SessionData::failure: the state that failed          *)
    credential,     (* CredentialOwner: closed_, cleanup_attempted_,        *)
                    (* secondary_cleanup_error_                             *)
    keyring,        (* whether the session's API key is stored              *)
    watchdog,       (* SessionTimeout                                       *)
    ran,            (* history: the stages that were run                    *)
    executed,       (* history: the calls that reached the tool runtime     *)
    reported        (* history: whether a failed erasure reached the caller *)

stageVars  == <<generation, nextToken, activeToken>>
chatVars   == <<history, current, pendingTurn>>
toolVars   == <<toolIndex, canonical, results, nextCallId, refreshPending>>
ownerVars  == <<credential, keyring, reported>>
vars == <<pc, stages, running, state, stageVars, chatVars, toolVars, failure,
          ownerVars, watchdog, ran, executed>>

Init == /\ pc = "unregistered"
        /\ stages = {}
        /\ running = None
        /\ state = "request"
        /\ generation = 0
        /\ nextToken = 1
        /\ activeToken = 0
        /\ history = Initial
        /\ current = Prompt
        /\ pendingTurn = None
        /\ toolIndex = 0
        /\ canonical = <<>>
        /\ results = <<>>
        /\ nextCallId = 1
        /\ refreshPending = RefreshWorkspace
        /\ failure = None
        /\ credential = [closed |-> FALSE, attempted |-> FALSE, secondary |-> FALSE]
        /\ keyring = FALSE
        /\ watchdog = "unarmed"
        /\ ran = <<>>
        /\ executed = <<>>
        /\ reported = FALSE

-----------------------------------------------------------------------------
(* What the calls below share.                                             *)

(* The stage a declare_* call returns; x holds what else it carries.       *)
Stage(kind, x) ==
    [kind |-> kind, generation |-> generation, token |-> nextToken, carries |-> x]

(* declare_stage, for a stage object handed to the client.                 *)
DeclareStage(stage) ==
    /\ nextToken <= MaxStages
    /\ nextToken' = nextToken + 1
    /\ activeToken' = nextToken
    /\ stages' = stages \cup {stage}
    /\ UNCHANGED generation

(* Mutant: only the state is looked at.                                    *)
RequireStateOnly(stage, expected) == stage.kind = expected /\ state = expected

(* require_stage.                                                          *)
RequireStage(stage, expected) ==
    /\ stage.kind = expected
    /\ state = expected
    /\ stage.generation = generation
    /\ stage.token = activeToken

(* Mutant: the token of the stage that ran stays active.                   *)
CommitKeepsToken(next) ==
    /\ generation' = generation + 1
    /\ state' = next
    /\ UNCHANGED <<activeToken, nextToken>>

(* commit_stage.                                                           *)
CommitStage(next) ==
    /\ activeToken' = 0
    /\ generation' = generation + 1
    /\ state' = next
    /\ UNCHANGED nextToken

(* A stage throws: fail_session records where, and cleanup begins.         *)
Throw == /\ failure' = state
         /\ pc' = "cleanup"
         /\ running' = None

-----------------------------------------------------------------------------
(* register_session, once its arguments were accepted: store the key, then *)
(* build the Session and arm its watchdog.  Between the two a throw leaves *)
(* the key to the destructor of CredentialOwner.                           *)

Register ==
    /\ pc = "unregistered"
    /\ keyring' = TRUE
    /\ pc' = "registering"
    /\ UNCHANGED <<stages, running, state, stageVars, chatVars, toolVars, failure,
                   credential, reported, watchdog, ran, executed>>

Registered ==
    /\ pc = "registering"
    /\ watchdog' = "armed"
    /\ pc' = "idle"
    /\ UNCHANGED <<stages, running, state, stageVars, chatVars, toolVars, failure,
                   ownerVars, ran, executed>>

RegisterThrows ==
    /\ pc = "registering"
    /\ pc' = "dropping"
    /\ UNCHANGED <<stages, running, state, stageVars, chatVars, toolVars, failure,
                   ownerVars, watchdog, ran, executed>>

-----------------------------------------------------------------------------
(* The request stage.  Whether to compact depends on token estimates, which *)
(* are not modelled: it may come out either way, and the sum may overflow.  *)

DeclareRequest(compact) ==
    /\ pc = "idle"
    /\ state = "request"
    /\ DeclareStage(Stage("request", compact))
    /\ UNCHANGED <<pc, running, state, chatVars, toolVars, failure, ownerVars,
                   watchdog, ran, executed>>

UsageOverflows ==
    /\ pc = "idle"
    /\ state = "request"
    /\ Throw
    /\ UNCHANGED <<stages, state, stageVars, chatVars, toolVars, ownerVars,
                   watchdog, ran, executed>>

RunRequest(stage) ==
    /\ pc = "idle"
    /\ RequireStage(stage, "request")
    /\ pc' = "turn"
    /\ running' = stage
    /\ ran' = Append(ran, stage)
    /\ UNCHANGED <<stages, state, stageVars, chatVars, toolVars, failure, ownerVars,
                   watchdog, executed>>

(* The messages of the final provider request: a compacted one has the     *)
(* summary in the place of the history.                                    *)
RequestMessages(compact) ==
    IF compact /\ history # <<>> THEN <<Summary>> \o current ELSE history \o current

TurnReturns(reply, usage) ==
    /\ pc = "turn"
    /\ pendingTurn' = [messages |-> RequestMessages(running.carries),
                       calls |-> reply, usage |-> usage]
    /\ CommitStage("response")
    /\ pc' = "idle"
    /\ running' = None
    /\ UNCHANGED <<stages, history, current, toolVars, failure, ownerVars, watchdog,
                   ran, executed>>

TurnThrows ==
    /\ pc = "turn"
    /\ Throw
    /\ UNCHANGED <<stages, state, stageVars, chatVars, toolVars, ownerVars,
                   watchdog, ran, executed>>

-----------------------------------------------------------------------------
(* The response stage.  The history takes the turn before the usage is     *)
(* looked at and before the stream callback runs; both may throw.          *)

DeclareResponse ==
    /\ pc = "idle"
    /\ state = "response"
    /\ pendingTurn # None
    /\ DeclareStage(Stage("response", pendingTurn.calls # <<>>))
    /\ UNCHANGED <<pc, running, state, chatVars, toolVars, failure, ownerVars,
                   watchdog, ran, executed>>

RunResponse(stage, streamed) ==
    /\ pc = "idle"
    /\ RequireStage(stage, "response")
    /\ pendingTurn # None
    /\ history' = Append(pendingTurn.messages, Assistant(pendingTurn.calls))
    /\ pendingTurn' = None
    /\ ran' = Append(ran, stage)
    /\ \/ /\ pendingTurn.usage = "exact"
          /\ streamed
          /\ IF stage.carries
             THEN /\ toolIndex' = 0
                  /\ canonical' = <<>>
                  /\ results' = <<>>
                  /\ CommitStage("tool")
             ELSE /\ CommitStage("finished")
                  /\ UNCHANGED <<toolIndex, canonical, results>>
          /\ UNCHANGED <<pc, running, failure>>
       \/ /\ pendingTurn.usage = "unavailable" \/ ~streamed
          /\ Throw
          /\ UNCHANGED <<state, stageVars, toolIndex, canonical, results>>
    /\ UNCHANGED <<stages, current, nextCallId, refreshPending, ownerVars, watchdog,
                   executed>>

-----------------------------------------------------------------------------
(* The tool stage, one call at a time.                                     *)

LastMessage == history[Len(history)]

(* The call declare_tool prepares: it has an id, made up where it had none. *)
Prepare(raw) ==
    [index |-> toolIndex,
     synthesized |-> raw.id = NoId,
     call |-> IF raw.id = NoId THEN [raw EXCEPT !.id = SynthId(nextCallId)] ELSE raw]

DeclareTool ==
    /\ pc = "idle"
    /\ state = "tool"
    /\ \/ /\ LastMessage.role = "assistant"
          /\ toolIndex < Len(LastMessage.calls)
          /\ DeclareStage(Stage("tool", Prepare(LastMessage.calls[toolIndex + 1])))
          /\ UNCHANGED <<pc, running, failure>>
       \/ /\ ~(LastMessage.role = "assistant" /\ toolIndex < Len(LastMessage.calls))
          /\ Throw
          /\ UNCHANGED <<stages, stageVars>>
    /\ UNCHANGED <<state, chatVars, toolVars, ownerVars, watchdog, ran, executed>>

(* Only a call with a definition and valid arguments gets to the runtime,  *)
(* and the first one takes the refresh flag with it.                       *)
HandToRuntime(stage) ==
    IF stage.carries.call.kind = "valid"
    THEN /\ executed' = Append(executed, [token |-> stage.token,
                                          refresh |-> refreshPending])
         /\ refreshPending' = FALSE
    ELSE UNCHANGED <<refreshPending, executed>>

(* ToolCallHandler::execute up to the point where the runtime has the call. *)
StartTool(stage, streamed) ==
    LET x == stage.carries
    IN /\ pc = "idle"
       /\ RequireStage(stage, "tool")
       /\ x.index = toolIndex
       /\ ran' = Append(ran, stage)
       /\ nextCallId' = IF x.synthesized THEN nextCallId + 1 ELSE nextCallId
       /\ \/ /\ \/ x.synthesized /\ SynthId(nextCallId) # x.call.id
                \/ ~streamed
             /\ Throw
             /\ UNCHANGED <<refreshPending, executed>>
          \/ /\ x.synthesized => SynthId(nextCallId) = x.call.id
             /\ streamed
             /\ pc' = "tool"
             /\ running' = stage
             /\ HandToRuntime(stage)
             /\ UNCHANGED failure
       /\ UNCHANGED <<stages, state, stageVars, chatVars, toolIndex, canonical,
                      results, ownerVars, watchdog>>

(* Mutant: one call more than there are.                                   *)
MoreCallsInclusive == toolIndex < Len(LastMessage.calls)

MoreCalls == toolIndex + 1 < Len(LastMessage.calls)

(* Mutant: the assistant message keeps the calls as the model wrote them.  *)
CanonicalizeForgotten(calls) == UNCHANGED history

Canonicalize(calls) ==
    history' = [history EXCEPT ![Len(history)] = Assistant(calls)]

(* The call has its result: whatever went wrong in the tool is a result,   *)
(* after the last one the results are the messages of the next request.    *)
ToolReturns ==
    LET call  == running.carries.call
        calls == Append(canonical, call)
        done  == Append(results, Result(call.id))
    IN /\ pc = "tool"
       /\ toolIndex' = toolIndex + 1
       /\ IF MoreCalls
          THEN /\ canonical' = calls
               /\ results' = done
               /\ CommitStage("tool")
               /\ UNCHANGED <<history, current>>
          ELSE /\ Canonicalize(calls)
               /\ current' = done
               /\ canonical' = <<>>
               /\ results' = <<>>
               /\ CommitStage("request")
       /\ pc' = "idle"
       /\ running' = None
       /\ UNCHANGED <<stages, pendingTurn, nextCallId, refreshPending, failure,
                      ownerVars, watchdog, ran, executed>>

(* The stream callback threw when it was told of the result.  execute      *)
(* catches that like a failure of the tool and tries to finish once more,  *)
(* with the call it has moved from: what leaves is then another exception. *)
ToolThrows ==
    /\ pc = "tool"
    /\ Throw
    /\ UNCHANGED <<stages, state, stageVars, chatVars, toolVars, ownerVars,
                   watchdog, ran, executed>>

-----------------------------------------------------------------------------
(* The ends of a session.  A failed stage erases the key unless an erasure *)
(* was attempted before, keeps a failure of its own as a secondary error,  *)
(* and only then cancels the watchdog.  An erasure that is reported to have *)
(* failed may have removed the key all the same.                           *)

(* Mutant: the failure of the erasure is dropped.                           *)
CleanupForgets(erased, gone) ==
    /\ pc = "cleanup"
    /\ erased => gone
    /\ IF credential.closed \/ credential.attempted
       THEN UNCHANGED <<credential, keyring>>
       ELSE /\ keyring' = (keyring /\ ~gone)
            /\ credential' = [closed |-> erased, attempted |-> TRUE,
                              secondary |-> FALSE]
    /\ pc' = "cancel"
    /\ UNCHANGED <<stages, running, state, stageVars, chatVars, toolVars, failure,
                   reported, watchdog, ran, executed>>

Cleanup(erased, gone) ==
    /\ pc = "cleanup"
    /\ erased => gone
    /\ IF credential.closed \/ credential.attempted
       THEN UNCHANGED <<credential, keyring>>
       ELSE /\ keyring' = (keyring /\ ~gone)
            /\ credential' = [closed |-> erased, attempted |-> TRUE,
                              secondary |-> ~erased]
    /\ pc' = "cancel"
    /\ UNCHANGED <<stages, running, state, stageVars, chatVars, toolVars, failure,
                   reported, watchdog, ran, executed>>

FailSession ==
    /\ pc = "cancel"
    /\ watchdog' = "cancelled"
    /\ CommitStage("closed")
    /\ pc' = "idle"
    /\ UNCHANGED <<stages, running, chatVars, toolVars, failure, ownerVars, ran,
                   executed>>

(* Mutant: close_session cancels the watchdog before the erasure.          *)
CloseCancelsFirst ==
    /\ pc = "idle"
    /\ state # "closed"
    /\ credential' = [credential EXCEPT !.attempted = TRUE]
    /\ watchdog' = "cancelled"
    /\ pc' = "closing"
    /\ UNCHANGED <<stages, running, state, stageVars, chatVars, toolVars, failure,
                   keyring, reported, ran, executed>>

(* close_session: when the key cannot be erased it throws and the session  *)
(* is what it was, so that the client may go on with it or try again.      *)
Close ==
    /\ pc = "idle"
    /\ state # "closed"
    /\ credential' = [credential EXCEPT !.attempted = TRUE]
    /\ pc' = "closing"
    /\ UNCHANGED <<stages, running, state, stageVars, chatVars, toolVars, failure,
                   keyring, reported, watchdog, ran, executed>>

CloseErases ==
    /\ pc = "closing"
    /\ keyring' = FALSE
    /\ credential' = [credential EXCEPT !.closed = TRUE]
    /\ pc' = "closed"
    /\ UNCHANGED <<stages, running, state, stageVars, chatVars, toolVars, failure,
                   reported, watchdog, ran, executed>>

CloseThrows(gone) ==
    /\ pc = "closing"
    /\ keyring' = (keyring /\ ~gone)
    /\ reported' = TRUE
    /\ pc' = "idle"
    /\ UNCHANGED <<stages, running, state, stageVars, chatVars, toolVars, failure,
                   credential, watchdog, ran, executed>>

CloseReturns ==
    /\ pc = "closed"
    /\ watchdog' = "cancelled"
    /\ CommitStage("closed")
    /\ pc' = "gone"
    /\ UNCHANGED <<stages, running, chatVars, toolVars, failure, ownerVars, ran,
                   executed>>

(* The client lets go of a Session it did not close.  SessionTimeout is    *)
(* the last member and goes first, CredentialOwner after it.               *)
Drop ==
    /\ pc = "idle"
    /\ watchdog' = "cancelled"
    /\ pc' = "dropping"
    /\ UNCHANGED <<stages, running, state, stageVars, chatVars, toolVars, failure,
                   ownerVars, ran, executed>>

DropCredential(gone) ==
    /\ pc = "dropping"
    /\ keyring' = IF credential.closed \/ credential.attempted THEN keyring
                  ELSE keyring /\ ~gone
    /\ pc' = "gone"
    /\ UNCHANGED <<stages, running, state, stageVars, chatVars, toolVars, failure,
                   credential, reported, watchdog, ran, executed>>

(* Mutant: the deadline is looked at between two calls only.               *)
TimeoutPolled ==
    /\ watchdog = "armed"
    /\ pc = "idle"
    /\ watchdog' = "fired"
    /\ pc' = "aborted"
    /\ UNCHANGED <<stages, running, state, stageVars, chatVars, toolVars, failure,
                   ownerVars, ran, executed>>

(* The deadline has come while nobody cancelled: abort() ends the process. *)
Timeout ==
    /\ watchdog = "armed"
    /\ watchdog' = "fired"
    /\ pc' = "aborted"
    /\ UNCHANGED <<stages, running, state, stageVars, chatVars, toolVars, failure,
                   ownerVars, ran, executed>>

-----------------------------------------------------------------------------

(* What the calls do once they were made, the waits for the provider, for  *)
(* a tool and for the keyring apart.                                       *)
Internal == Registered \/ FailSession \/ CloseReturns

Outside ==
    \/ \E reply \in Replies, usage \in {"exact", "unavailable"} :
          TurnReturns(reply, usage)
    \/ TurnThrows \/ ToolReturns \/ ToolThrows
    \/ \E erased, gone \in BOOLEAN : Cleanup(erased, gone)
    \/ CloseErases
    \/ \E gone \in BOOLEAN : CloseThrows(gone) \/ DropCredential(gone)

Declare == \/ \E compact \in BOOLEAN : DeclareRequest(compact)
           \/ UsageOverflows \/ DeclareResponse \/ DeclareTool

Run == \E stage \in stages :
          \/ RunRequest(stage)
          \/ \E streamed \in BOOLEAN :
                RunResponse(stage, streamed) \/ StartTool(stage, streamed)

Next == \/ Register \/ RegisterThrows \/ Declare \/ Run \/ Close \/ Drop
        \/ Internal \/ Outside \/ Timeout

Spec == Init /\ [][Next]_vars

(* sessions::loop, the client that runs each stage as soon as it declared  *)
(* it, closes the finished session, and lets go of it when a call throws.  *)
Threw == state = "closed" \/ reported

LoopStep ==
    \/ Register
    \/ ~Threw /\ activeToken = 0 /\ Declare
    \/ ~Threw /\ Run
    \/ ~Threw /\ state = "finished" /\ Close
    \/ Threw /\ Drop
    \/ Internal

(* Nothing outside the process need ever answer; only the deadline comes.  *)
LoopNext == LoopStep \/ RegisterThrows \/ Outside \/ Timeout

-----------------------------------------------------------------------------
(* Properties.                                                             *)

StageOK(stage) ==
    \/ stage.kind \in {"request", "response"} /\ stage.carries \in BOOLEAN
    \/ /\ stage.kind = "tool"
       /\ stage.carries \in [index : Nat, synthesized : BOOLEAN, call : CanonicalCall]

(* Every variable has its type; a call that reaches the history, a result  *)
(* or the tool runtime has an id, whatever the model left out.             *)
TypeOK ==
    /\ pc \in {"unregistered", "registering", "idle", "turn", "tool", "cleanup",
               "cancel", "closing", "closed", "dropping", "gone", "aborted"}
    /\ state \in {"request", "response", "tool", "finished", "closed"}
    /\ \A stage \in stages : StageOK(stage)
    /\ running \in stages \cup {None}
    /\ pc = "turn" => running \in stages /\ running.kind = "request"
    /\ pc = "tool" => running \in stages /\ running.kind = "tool"
    /\ generation \in Nat
    /\ nextToken \in 1 .. MaxStages + 1
    /\ activeToken \in 0 .. MaxStages
    /\ history \in Seq(Message)
    /\ current \in Seq(Message)
    /\ pendingTurn \in Turn \cup {None}
    /\ toolIndex \in Nat
    /\ canonical \in Seq(CanonicalCall)
    /\ results \in Seq(ToolResult)
    /\ nextCallId \in Nat \ {0}
    /\ refreshPending \in BOOLEAN
    /\ failure \in {None, "request", "response", "tool"}
    /\ credential \in [closed : BOOLEAN, attempted : BOOLEAN, secondary : BOOLEAN]
    /\ keyring \in BOOLEAN
    /\ watchdog \in {"unarmed", "armed", "cancelled", "fired"}
    /\ ran \in Seq(stages)
    /\ executed \in Seq(Execution)
    /\ reported \in BOOLEAN

(* Among all the stage objects the client still has, the one that run_*    *)
(* would accept is the newest, and what it says is true of the session:    *)
(* the response has the tool calls it announced, the tool call is the next *)
(* one, and the id made up for it is the one execute will make up.         *)
FreshStageIsCurrent ==
    \A s \in stages : pc = "idle" /\ s.token = activeToken =>
       /\ s.token + 1 = nextToken
       /\ s.generation = generation
       /\ s.kind = state
       /\ s.kind = "response" => s.carries = (pendingTurn.calls # <<>>)
       /\ s.kind = "tool" =>
             LET raw == LastMessage.calls[toolIndex + 1]
                 x == s.carries
             IN /\ x.index = toolIndex
                /\ x.synthesized = (raw.id = NoId)
                /\ x.call = IF raw.id # NoId THEN raw
                            ELSE [raw EXCEPT !.id = SynthId(nextCallId)]

Follows(a, b) ==
    \/ a.kind = "request" /\ b.kind = "response"
    \/ a.kind = "response" /\ a.carries /\ b.kind = "tool" /\ b.carries.index = 0
    \/ a.kind = "tool" /\ b.kind = "tool" /\ b.carries.index = a.carries.index + 1
    \/ a.kind = "tool" /\ b.kind = "request"

(* However the client repeats declarations and keeps old stage objects, no *)
(* stage runs twice and the stages that run follow the protocol, each tool *)
(* call of a response once and in order.  The workspace is refreshed for   *)
(* the first call that reaches the tool runtime and for no other.          *)
StagesRunInOrder ==
    /\ ran # <<>> => ran[1].kind = "request"
    /\ \A i \in DOMAIN ran \ {1} :
          /\ ran[i - 1].token < ran[i].token
          /\ Follows(ran[i - 1], ran[i])
    /\ \A i \in DOMAIN executed :
          /\ executed[i].refresh = (RefreshWorkspace /\ i = 1)
          /\ i > 1 => executed[i - 1].token < executed[i].token

(* A history the provider accepts: each call of an assistant has its       *)
(* result, in order, right after it, and each result has its call, or the  *)
(* summary that took the place of the call.                                *)
Paired(h) ==
    \A i \in DOMAIN h :
       /\ h[i].role = "assistant" =>
             \A k \in DOMAIN h[i].calls :
                i + k \in DOMAIN h /\ h[i + k] = Result(h[i].calls[k].id)
       /\ h[i].role = "tool" =>
             \E j \in 1 .. i - 1 :
                /\ \A m \in j + 1 .. i : h[m].role = "tool"
                /\ \/ h[j].role = "summary"
                   \/ h[j].role = "assistant" /\ i - j \in DOMAIN h[j].calls

(* What a request sends, what a turn brings back and what a finished       *)
(* session returns is such a history, through compactions and through      *)
(* calls that had no id, no definition or no arguments.                    *)
ConversationPaired ==
    /\ state = "request" => Paired(history \o current)
    /\ state = "response" /\ pendingTurn # None => Paired(pendingTurn.messages)
    /\ state = "finished" => Paired(history)

(* In the tool state there is a next call, and the results so far are      *)
(* those of the calls before it: declare_tool never meets its two logic    *)
(* errors, nor execute a made-up id that is stale.                         *)
ToolStateHolds ==
    /\ state = "tool" =>
          /\ LastMessage.role = "assistant"
          /\ toolIndex < Len(LastMessage.calls)
          /\ Len(canonical) = toolIndex
          /\ Len(results) = toolIndex
          /\ \A i \in 1 .. toolIndex : results[i] = Result(canonical[i].id)
    /\ state = "response" /\ pc \in {"idle", "closing"} => pendingTurn # None

(* A key that outlives its session is a failure somebody was told of: it   *)
(* came out of close_session, or is kept as the secondary error, or only   *)
(* the destructor ever tried.  Until then every turn finds the key, unless *)
(* an erasure that was reported as failed removed it.                      *)
KeyAccountedFor ==
    /\ keyring /\ (state = "closed" \/ pc = "gone") =>
          \/ reported
          \/ credential.secondary
          \/ pc = "gone" /\ ~credential.attempted
    /\ pc = "turn" => keyring \/ reported

(* While a call is blocked, in the provider, a tool or the erasure of the  *)
(* key, the watchdog is armed.                                             *)
WatchdogCoversCalls ==
    pc \in {"turn", "tool", "cleanup", "closing"} => watchdog = "armed"

(* The stage functions implement the life cycle the client is promised.    *)
Lifecycle == INSTANCE SessionLifecycle WITH
    phase <- state,
    left  <- IF state = "tool" THEN Len(LastMessage.calls) - toolIndex ELSE 0

LifecycleSpec == Lifecycle!Spec

(* docs/BLOCK_SESSION.md says the timeout is cancelled only after the      *)
(* cleanup in fail_session or close_session.                               *)
CancelledAfterCleanup == watchdog = "cancelled" => credential.attempted

(* docs/BLOCK_SESSION.md says the credential is erased when the session    *)
(* ends, and that under a primary exception a failure to do so is kept as  *)
(* the secondary error.                                                    *)
SecondaryKept ==
    failure # None /\ state = "closed" /\ keyring => credential.secondary

=============================================================================
