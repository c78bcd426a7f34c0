---------------------------- MODULE SessionProofs ----------------------------
(***************************************************************************)
(* Proofs about Session, for any replies, any number of stages and any     *)
(* initial conversation: its types, that the newest declaration is true of *)
(* the session, that the tool state is sound, that the stages implement    *)
(* the life cycle, that blocked calls are under the watchdog, that a key   *)
(* left behind was reported, that stages run once and in their order, that *)
(* every call in a conversation has its result, and that the history only  *)
(* grows by what was asked and answered.                                   *)
(***************************************************************************)
EXTENDS Session, SequenceTheorems, TLAPS

(* What the place of the client says of the state.                         *)
PlaceOK ==
    /\ pc \in {"unregistered", "registering"} => state = "request" /\ activeToken = 0
    /\ pc = "turn" => state = "request"
    /\ pc = "tool" => state = "tool"
    /\ pc \in {"cleanup", "cancel"} => state \in {"request", "response", "tool"}
    /\ pc \in {"closing", "closed"} => state # "closed"

(* Stage objects are numbered in the order of their declaration, and only  *)
(* the last one can be active.                                             *)
TokensOK ==
    /\ \A s \in stages : s.token \in 1 .. nextToken - 1
    /\ activeToken \in {0, nextToken - 1}

(* FreshStageIsCurrent, also while close_session erases the key, because   *)
(* the client comes back to the same state when the erasure fails.         *)
ActiveIsCurrent ==
    \A s \in stages : pc \in {"idle", "closing"} /\ s.token = activeToken =>
       /\ s.generation = generation
       /\ s.kind = state
       /\ s.kind = "response" => s.carries = (pendingTurn.calls # <<>>)
       /\ s.kind = "tool" =>
             LET raw == LastMessage.calls[toolIndex + 1]
             IN /\ s.carries.index = toolIndex
                /\ s.carries.synthesized = (raw.id = NoId)
                /\ s.carries.call = IF raw.id # NoId THEN raw
                                    ELSE [raw EXCEPT !.id = SynthId(nextCallId)]

(* ToolStateHolds, with the last message there is.                         *)
ToolsOK == ToolStateHolds /\ (state = "tool" => history # <<>>)

IInv == TypeOK /\ PlaceOK /\ TokensOK /\ ActiveIsCurrent /\ ToolsOK

-----------------------------------------------------------------------------
(* The messages.                                                           *)

LEMMA CanonicalIsCall == CanonicalCall \subseteq Call
  BY DEF CanonicalCall, Call

LEMMA SynthIdType == ASSUME NEW n \in Nat PROVE SynthId(n) \in CallIds
  BY DEF SynthId, CallIds

LEMMA MessageTypes ==
    /\ User \in Message /\ Summary \in Message
    /\ \A calls \in Seq(Call) : Assistant(calls) \in Message
    /\ \A id \in CallIds : Result(id) \in Message
                           /\ Result(id) \in ToolResult
    /\ \A m \in Message : m.role = "assistant" => m.calls \in Seq(Call)
  BY DEF Message, ToolResult, User, Summary, Assistant, Result

LEMMA AssistantFields ==
    ASSUME NEW calls PROVE Assistant(calls).role = "assistant"
                           /\ Assistant(calls).calls = calls
  BY DEF Assistant

LEMMA SeqSubset ==
    ASSUME NEW S, NEW T, S \subseteq T, NEW seq \in Seq(S) PROVE seq \in Seq(T)
  OBVIOUS

LEMMA ResultsAreMessages ==
    ASSUME NEW seq \in Seq(ToolResult) PROVE seq \in Seq(Message)
  <1>1. ToolResult \subseteq Message
    BY DEF Message
  <1> QED  BY <1>1, SeqSubset

(* What declare_tool hands out has an id, whatever the model left out.     *)
LEMMA PrepareType ==
    ASSUME TypeOK, NEW raw \in Call
    PROVE  Prepare(raw) \in [index : Nat, synthesized : BOOLEAN, call : CanonicalCall]
  <1>1. SynthId(nextCallId) \in CallIds
    BY SynthIdType DEF TypeOK
  <1>2. (raw.id = NoId) \in BOOLEAN
    BY Zenon
  <1>3. (IF raw.id = NoId THEN [raw EXCEPT !.id = SynthId(nextCallId)] ELSE raw)
           \in CanonicalCall
    BY <1>1 DEF Call, CanonicalCall
  <1>4. toolIndex \in Nat
    BY DEF TypeOK
  <1> QED  BY <1>2, <1>3, <1>4 DEF Prepare

LEMMA RequestMessagesType ==
    ASSUME TypeOK, NEW compact PROVE RequestMessages(compact) \in Seq(Message)
  <1>1. history \in Seq(Message) /\ current \in Seq(Message) /\ <<Summary>> \in Seq(Message)
    BY MessageTypes DEF TypeOK
  <1> QED  BY <1>1 DEF RequestMessages

LEMMA LastMessageType ==
    ASSUME TypeOK, history # <<>>
    PROVE  /\ LastMessage \in Message
           /\ Len(history) \in 1 .. Len(history)
           /\ LastMessage.role = "assistant" => LastMessage.calls \in Seq(Call)
  <1>1. history \in Seq(Message)
    BY DEF TypeOK
  <1>2. Len(history) \in 1 .. Len(history) /\ history[Len(history)] \in Message
    BY <1>1
  <1> QED  BY <1>2, MessageTypes DEF LastMessage

USE DEF stageVars, chatVars, toolVars, ownerVars

(* A stage object handed out is kept with the others; nothing else of the  *)
(* types is disturbed.                                                     *)
LEMMA DeclareType ==
    ASSUME TypeOK, NEW stage, StageOK(stage), DeclareStage(stage)
    PROVE  /\ \A s \in stages' : StageOK(s)
           /\ stages \subseteq stages'
           /\ nextToken' \in 1 .. MaxStages + 1
           /\ activeToken' \in 0 .. MaxStages
           /\ generation' = generation
           /\ ran \in Seq(stages')
  <1>1. MaxStages \in Nat
    BY SessionAssumption
  <1>2. stages \subseteq stages' /\ ran \in Seq(stages)
    BY DEF DeclareStage, TypeOK
  <1>3. ran \in Seq(stages')
    BY <1>2, SeqSubset
  <1> QED  BY <1>1, <1>2, <1>3 DEF DeclareStage, TypeOK

LEMMA InitType == Init => TypeOK
  <1> SUFFICES ASSUME Init PROVE TypeOK
    OBVIOUS
  <1>1. Initial \in Seq(Message) /\ Prompt \in Seq(Message)
    BY SessionAssumption, SeqSubset, MessageTypes
  <1>2. MaxStages \in Nat /\ RefreshWorkspace \in BOOLEAN
    BY SessionAssumption
  <1>3. /\ history \in Seq(Message) /\ current \in Seq(Message)
        /\ refreshPending \in BOOLEAN /\ keyring \in BOOLEAN /\ reported \in BOOLEAN
    BY Zenon, <1>1, <1>2 DEF Init
  <1>4. credential \in [closed : BOOLEAN, attempted : BOOLEAN, secondary : BOOLEAN]
    BY DEF Init
  <1>5. nextToken \in 1 .. MaxStages + 1 /\ activeToken \in 0 .. MaxStages
    BY <1>2 DEF Init
  <1>6. /\ canonical \in Seq(CanonicalCall)
        /\ results \in Seq(ToolResult)
        /\ ran \in Seq(stages)
        /\ executed \in Seq(Execution)
    BY DEF Init
  <1>7. /\ pc = "unregistered" /\ stages = {} /\ running = None /\ state = "request"
        /\ generation = 0 /\ pendingTurn = None /\ toolIndex = 0 /\ nextCallId = 1
        /\ failure = None /\ watchdog = "unarmed"
    BY DEF Init
  <1> QED  BY <1>3, <1>4, <1>5, <1>6, <1>7 DEF TypeOK

LEMMA TypeStep ==
    ASSUME IInv, [Next]_vars PROVE TypeOK'
  <1> USE DEF IInv
  <1>a. TypeOK
    OBVIOUS
  <1>b. MaxStages \in Nat
    BY SessionAssumption
  <1>1. CASE Register
    BY <1>a, <1>1 DEF Register, TypeOK
  <1>2. CASE RegisterThrows
    BY <1>a, <1>2 DEF RegisterThrows, TypeOK
  <1>3. ASSUME NEW compact \in BOOLEAN, DeclareRequest(compact) PROVE TypeOK'
    <2>1. StageOK(Stage("request", compact))
      BY DEF StageOK, Stage
    <2> QED  BY <1>a, <1>3, <2>1, DeclareType DEF DeclareRequest, TypeOK
  <1>4. CASE UsageOverflows
    BY <1>a, <1>4 DEF UsageOverflows, Throw, TypeOK
  <1>5. CASE DeclareResponse
    <2>1. StageOK(Stage("response", pendingTurn.calls # <<>>))
      BY Zenon DEF StageOK, Stage
    <2> QED  BY <1>a, <1>5, <2>1, DeclareType DEF DeclareResponse, TypeOK
  <1>6. CASE DeclareTool
    <2>1. ASSUME LastMessage.role = "assistant", toolIndex < Len(LastMessage.calls),
                 DeclareStage(Stage("tool", Prepare(LastMessage.calls[toolIndex + 1]))),
                 UNCHANGED <<pc, running, failure>>
          PROVE  TypeOK'
      <3>1. history # <<>> /\ toolIndex \in Nat
        BY <1>6 DEF DeclareTool, ToolsOK, TypeOK
      <3>2. LastMessage.calls \in Seq(Call)
        BY <3>1, <2>1, LastMessageType
      <3>3. LastMessage.calls[toolIndex + 1] \in Call
        BY <3>1, <3>2, <2>1
      <3>4. StageOK(Stage("tool", Prepare(LastMessage.calls[toolIndex + 1])))
        BY <3>3, PrepareType DEF StageOK, Stage
      <3> QED  BY <1>a, <1>6, <2>1, <3>4, DeclareType DEF DeclareTool, TypeOK
    <2>2. ASSUME Throw, UNCHANGED <<stages, stageVars>> PROVE TypeOK'
      BY <1>a, <1>6, <2>2 DEF DeclareTool, Throw, TypeOK
    <2> QED  BY <1>6, <2>1, <2>2 DEF DeclareTool
  <1>7. ASSUME NEW stage \in stages, RunRequest(stage) PROVE TypeOK'
    BY <1>a, <1>7 DEF RunRequest, RequireStage, TypeOK
  <1>8. ASSUME NEW stage \in stages, NEW streamed \in BOOLEAN,
               RunResponse(stage, streamed)
        PROVE  TypeOK'
    <2>1. pendingTurn \in Turn
      BY <1>8 DEF RunResponse, TypeOK
    <2>7. stage.carries \in BOOLEAN
      BY <1>8 DEF RunResponse, RequireStage, TypeOK, StageOK
    <2>8. \/ /\ toolIndex' = 0 /\ canonical' = <<>> /\ results' = <<>>
             /\ CommitStage("tool")
          \/ CommitStage("finished") /\ UNCHANGED <<toolIndex, canonical, results>>
          \/ UNCHANGED <<state, stageVars, toolIndex, canonical, results>>
      BY <1>8, <2>7 DEF RunResponse
    <2>2. history' \in Seq(Message)
      <3>1. Assistant(pendingTurn.calls) \in Message /\ pendingTurn.messages \in Seq(Message)
        BY <2>1, MessageTypes DEF Turn
      <3> QED  BY <1>8, <3>1 DEF RunResponse
    <2>3. ran' \in Seq(stages)
      BY <1>8 DEF RunResponse, TypeOK
    <2>4. /\ toolIndex' \in Nat /\ canonical' \in Seq(CanonicalCall)
          /\ results' \in Seq(ToolResult)
      <3>1. <<>> \in Seq(CanonicalCall) /\ <<>> \in Seq(ToolResult)
        OBVIOUS
      <3>2. toolIndex \in Nat /\ canonical \in Seq(CanonicalCall) /\ results \in Seq(ToolResult)
        BY DEF TypeOK
      <3>3. \/ toolIndex' = 0 /\ canonical' = <<>> /\ results' = <<>>
            \/ toolIndex' = toolIndex /\ canonical' = canonical /\ results' = results
        BY <2>8
      <3>4. CASE toolIndex' = 0 /\ canonical' = <<>> /\ results' = <<>>
        BY <3>1, <3>4, Zenon, 0 \in Nat
      <3>5. CASE toolIndex' = toolIndex /\ canonical' = canonical /\ results' = results
        BY <3>2, <3>5, Zenon
      <3> QED  BY <3>3, <3>4, <3>5
    <2>5. /\ generation' \in Nat /\ nextToken' = nextToken
          /\ activeToken' \in 0 .. MaxStages
          /\ state' \in {"response", "tool", "finished"}
      <3>1. state = "response"
        BY <1>8 DEF RunResponse, RequireStage
      <3> QED  BY <1>b, <2>8, <3>1 DEF CommitStage, TypeOK
    <2>6. pc' \in {"idle", "cleanup"} /\ running' \in stages \cup {None}
          /\ failure' \in {None, "request", "response", "tool"}
      BY <1>8 DEF RunResponse, RequireStage, Throw, TypeOK
    <2> QED  BY <1>a, <1>8, <2>2, <2>3, <2>4, <2>5, <2>6 DEF RunResponse, TypeOK
  <1>9. ASSUME NEW stage \in stages, NEW streamed \in BOOLEAN,
               StartTool(stage, streamed)
        PROVE  TypeOK'
    <2>1. stage.kind = "tool" /\ state = "tool" /\ stage.token \in Nat
      BY <1>9 DEF StartTool, RequireStage, TypeOK
    <2>2. ran' \in Seq(stages)
      BY <1>9 DEF StartTool, TypeOK
    <2>3. nextCallId' \in Nat \ {0}
      BY <1>9 DEF StartTool, TypeOK
    <2>4. executed' \in Seq(Execution) /\ refreshPending' \in BOOLEAN
      <3>1. [token |-> stage.token, refresh |-> refreshPending]
               \in Execution
        BY <2>1 DEF TypeOK, Execution
      <3>2. HandToRuntime(stage) \/ UNCHANGED <<refreshPending, executed>>
        BY <1>9 DEF StartTool
      <3>3. executed \in Seq(Execution) /\ refreshPending \in BOOLEAN
        BY DEF TypeOK
      <3>4. Append(executed, [token |-> stage.token, refresh |-> refreshPending])
               \in Seq(Execution)
        BY <3>1, <3>3
      <3>5. \/ /\ executed' = Append(executed, [token |-> stage.token,
                                                refresh |-> refreshPending])
               /\ refreshPending' = FALSE
            \/ executed' = executed /\ refreshPending' = refreshPending
        BY <3>2, Zenon DEF HandToRuntime
      <3> QED  BY <3>3, <3>4, <3>5
    <2>5. /\ pc' \in {"tool", "cleanup"} /\ running' \in stages \cup {None}
          /\ failure' \in {None, "request", "response", "tool"}
          /\ pc' = "tool" => running' = stage
      BY <1>9, <2>1 DEF StartTool, Throw, TypeOK
    <2> QED  BY <1>a, <1>9, <2>1, <2>2, <2>3, <2>4, <2>5 DEF StartTool, TypeOK
  <1>10. CASE Close
    <2>1. credential' \in [closed : BOOLEAN, attempted : BOOLEAN, secondary : BOOLEAN]
      <3>1. credential \in [closed : BOOLEAN, attempted : BOOLEAN, secondary : BOOLEAN]
        BY DEF TypeOK
      <3>2. credential' = [credential EXCEPT !.attempted = TRUE]
        BY <1>10 DEF Close
      <3> QED  BY <3>1, <3>2
    <2> QED  BY <1>a, <1>10, <2>1 DEF Close, TypeOK
  <1>11. CASE Drop
    BY <1>a, <1>11 DEF Drop, TypeOK
  <1>12. CASE Registered
    BY <1>a, <1>12 DEF Registered, TypeOK
  <1>13. CASE FailSession
    BY <1>a, <1>b, <1>13 DEF FailSession, CommitStage, TypeOK
  <1>14. CASE CloseReturns
    BY <1>a, <1>b, <1>14 DEF CloseReturns, CommitStage, TypeOK
  <1>15. ASSUME NEW reply \in Replies, NEW usage \in {"exact", "unavailable"},
                TurnReturns(reply, usage)
         PROVE  TypeOK'
    <2>1. pendingTurn' \in Turn
      BY <1>15, RequestMessagesType, SessionAssumption DEF TurnReturns, Turn
    <2> QED  BY <1>a, <1>b, <1>15, <2>1 DEF TurnReturns, CommitStage, TypeOK
  <1>16. CASE TurnThrows
    BY <1>a, <1>16 DEF TurnThrows, Throw, PlaceOK, TypeOK
  <1>17. CASE ToolReturns
    <2>1. running.carries.call \in CanonicalCall
      BY <1>17 DEF ToolReturns, TypeOK, StageOK
    <2>2. /\ Append(canonical, running.carries.call) \in Seq(CanonicalCall)
          /\ Append(results, Result(running.carries.call.id))
                \in Seq(ToolResult)
      <3>1. running.carries.call.id \in CallIds
        BY <2>1 DEF CanonicalCall
      <3> QED  BY <2>1, <3>1, MessageTypes DEF TypeOK
    <2>3. /\ canonical' \in Seq(CanonicalCall)
          /\ results' \in Seq(ToolResult)
      <3>1. CASE MoreCalls
        BY <1>17, <2>2, <3>1 DEF ToolReturns
      <3>2. CASE ~MoreCalls
        <4>1. canonical' = <<>> /\ results' = <<>>
          BY <1>17, <3>2 DEF ToolReturns
        <4> QED  BY <4>1
      <3> QED  BY <3>1, <3>2
    <2>4. current' \in Seq(Message)
      <3>2. Append(results, Result(running.carries.call.id)) \in Seq(Message)
        BY <2>2, ResultsAreMessages
      <3> QED  BY <1>17, <3>2 DEF ToolReturns, TypeOK
    <2>5. history' \in Seq(Message)
      <3>1. Append(canonical, running.carries.call) \in Seq(Call)
        BY <2>2, CanonicalIsCall, SeqSubset
      <3>2. Assistant(Append(canonical, running.carries.call)) \in Message
        BY <3>1, MessageTypes
      <3>3. history \in Seq(Message) /\ Len(history) \in 1 .. Len(history)
        BY <1>17, LastMessageType DEF ToolReturns, PlaceOK, ToolsOK, TypeOK
      <3>4. [history EXCEPT ![Len(history)] =
                Assistant(Append(canonical, running.carries.call))] \in Seq(Message)
        BY <3>2, <3>3, ExceptSeq
      <3> QED  BY <1>17, <3>3, <3>4 DEF ToolReturns, Canonicalize
    <2>6. /\ generation' \in Nat /\ nextToken' = nextToken
          /\ activeToken' \in 0 .. MaxStages
          /\ state' \in {"request", "tool"} /\ toolIndex' \in Nat
      <3>1. /\ generation' = generation + 1 /\ nextToken' = nextToken /\ activeToken' = 0
            /\ state' \in {"request", "tool"} /\ toolIndex' = toolIndex + 1
        BY <1>17 DEF ToolReturns, CommitStage
      <3>2. generation \in Nat /\ toolIndex \in Nat
        BY DEF TypeOK
      <3> QED  BY <1>b, <3>1, <3>2
    <2> QED  BY <1>a, <1>17, <2>3, <2>4, <2>5, <2>6 DEF ToolReturns, TypeOK
  <1>18. CASE ToolThrows
    BY <1>a, <1>18 DEF ToolThrows, Throw, PlaceOK, TypeOK
  <1>19. ASSUME NEW erased \in BOOLEAN, NEW gone \in BOOLEAN, Cleanup(erased, gone)
         PROVE  TypeOK'
    <2>1. /\ keyring' \in BOOLEAN
          /\ credential' \in [closed : BOOLEAN, attempted : BOOLEAN, secondary : BOOLEAN]
      <3>1. CASE UNCHANGED <<credential, keyring>>
        BY <3>1 DEF TypeOK
      <3>2. CASE /\ keyring' = (keyring /\ ~gone)
                 /\ credential' = [closed |-> erased, attempted |-> TRUE,
                                   secondary |-> ~erased]
        <4>1. (keyring /\ ~gone) \in BOOLEAN /\ (~erased) \in BOOLEAN
          BY Zenon
        <4> QED  BY <3>2, <4>1
      <3> QED  BY <1>19, <3>1, <3>2 DEF Cleanup
    <2> QED  BY <1>a, <1>19, <2>1 DEF Cleanup, TypeOK
  <1>20. CASE CloseErases
    <2>1. credential' \in [closed : BOOLEAN, attempted : BOOLEAN, secondary : BOOLEAN]
      <3>1. credential \in [closed : BOOLEAN, attempted : BOOLEAN, secondary : BOOLEAN]
        BY DEF TypeOK
      <3>2. credential' = [credential EXCEPT !.closed = TRUE]
        BY <1>20 DEF CloseErases
      <3> QED  BY <3>1, <3>2
    <2> QED  BY <1>a, <1>20, <2>1, ZenonT(60) DEF CloseErases, TypeOK
  <1>21. ASSUME NEW gone \in BOOLEAN, CloseThrows(gone) PROVE TypeOK'
    <2>1. keyring' \in BOOLEAN
      BY <1>21 DEF CloseThrows, TypeOK
    <2> QED  BY <1>a, <1>21, <2>1 DEF CloseThrows, TypeOK
  <1>22. ASSUME NEW gone \in BOOLEAN, DropCredential(gone) PROVE TypeOK'
    <2>1. keyring' \in BOOLEAN
      BY <1>22 DEF DropCredential, TypeOK
    <2> QED  BY <1>a, <1>22, <2>1 DEF DropCredential, TypeOK
  <1>23. CASE Timeout
    BY <1>a, <1>23 DEF Timeout, TypeOK
  <1>24. CASE UNCHANGED vars
    BY <1>a, <1>24 DEF vars, TypeOK
  <1> QED  BY <1>1, <1>2, <1>3, <1>4, <1>5, <1>6, <1>7, <1>8, <1>9, <1>10, <1>11,
              <1>12, <1>13, <1>14, <1>15, <1>16, <1>17, <1>18, <1>19, <1>20, <1>21,
              <1>22, <1>23, <1>24 DEF Next, Declare, Run, Internal, Outside

-----------------------------------------------------------------------------
(* The steps that touch neither the stages nor the conversation.           *)
Quiet ==
    /\ UNCHANGED <<stages, state, stageVars, chatVars, toolVars>>
    /\ pc' \in {"idle", "closing"} => pc \in {"idle", "closing", "registering"}
    /\ PlaceOK'

(* The steps that do, the declarations apart.                              *)
Moves ==
    \/ \E stage \in stages, streamed \in BOOLEAN :
          RunResponse(stage, streamed) \/ StartTool(stage, streamed)
    \/ \E reply \in Replies, usage \in {"exact", "unavailable"} :
          TurnReturns(reply, usage)
    \/ ToolReturns \/ FailSession \/ CloseReturns

(* A declaration that hands out a stage object.                            *)
Declares(stage) ==
    /\ pc = "idle"
    /\ DeclareStage(stage)
    /\ stage.token = nextToken
    /\ stage.generation = generation
    /\ stage.kind = state
    /\ UNCHANGED <<pc, running, state, chatVars, toolVars>>

DeclaresTrue ==
    \/ Declares(Stage("request", TRUE)) /\ state = "request"
    \/ Declares(Stage("request", FALSE)) /\ state = "request"
    \/ Declares(Stage("response", pendingTurn.calls # <<>>)) /\ state = "response"
    \/ /\ Declares(Stage("tool", Prepare(LastMessage.calls[toolIndex + 1])))
       /\ state = "tool"

LEMMA StepKinds ==
    ASSUME IInv, [Next]_vars PROVE Quiet \/ Moves \/ DeclaresTrue
  <1> USE DEF IInv
  <1>1. CASE Register
    BY <1>1 DEF Register, PlaceOK, Quiet
  <1>2. CASE RegisterThrows
    BY <1>2 DEF RegisterThrows, PlaceOK, Quiet
  <1>3. ASSUME NEW compact \in BOOLEAN, DeclareRequest(compact) PROVE DeclaresTrue
    <2>1. Declares(Stage("request", compact)) /\ state = "request"
      BY <1>3 DEF DeclareRequest, Declares, Stage
    <2> QED  BY <2>1 DEF DeclaresTrue
  <1>4. CASE UsageOverflows
    BY <1>4 DEF UsageOverflows, Throw, PlaceOK, Quiet
  <1>5. CASE DeclareResponse
    <2>1. /\ Declares(Stage("response", pendingTurn.calls # <<>>))
          /\ state = "response"
      BY <1>5, Zenon DEF DeclareResponse, Declares, Stage
    <2> QED  BY <2>1 DEF DeclaresTrue
  <1>6. CASE DeclareTool
    <2>1. state = "tool" /\ ToolStateHolds
      BY <1>6 DEF DeclareTool, ToolsOK
    <2>2. /\ Declares(Stage("tool", Prepare(LastMessage.calls[toolIndex + 1])))
          /\ state = "tool"
      BY <1>6, <2>1 DEF DeclareTool, ToolStateHolds, Declares, Stage
    <2> QED  BY <2>2 DEF DeclaresTrue
  <1>7. ASSUME NEW stage \in stages, RunRequest(stage) PROVE Quiet
    BY <1>7 DEF RunRequest, RequireStage, PlaceOK, Quiet
  <1>10. CASE Close
    BY <1>10 DEF Close, PlaceOK, Quiet
  <1>11. CASE Drop
    BY <1>11 DEF Drop, PlaceOK, Quiet
  <1>12. CASE Registered
    BY <1>12 DEF Registered, PlaceOK, Quiet
  <1>16. CASE TurnThrows
    BY <1>16 DEF TurnThrows, Throw, PlaceOK, Quiet
  <1>18. CASE ToolThrows
    BY <1>18 DEF ToolThrows, Throw, PlaceOK, Quiet
  <1>19. ASSUME NEW erased \in BOOLEAN, NEW gone \in BOOLEAN, Cleanup(erased, gone)
         PROVE  Quiet
    BY <1>19 DEF Cleanup, PlaceOK, Quiet
  <1>20. CASE CloseErases
    BY <1>20 DEF CloseErases, PlaceOK, Quiet
  <1>21. ASSUME NEW gone \in BOOLEAN, CloseThrows(gone) PROVE Quiet
    BY <1>21 DEF CloseThrows, PlaceOK, Quiet
  <1>22. ASSUME NEW gone \in BOOLEAN, DropCredential(gone) PROVE Quiet
    BY <1>22 DEF DropCredential, PlaceOK, Quiet
  <1>23. CASE Timeout
    BY <1>23 DEF Timeout, PlaceOK, Quiet
  <1>24. CASE UNCHANGED vars
    BY <1>24 DEF vars, PlaceOK, Quiet
  <1> QED
    BY <1>1, <1>2, <1>3, <1>4, <1>5, <1>6, <1>7, <1>10, <1>11, <1>12, <1>16, <1>18,
       <1>19, <1>20, <1>21, <1>22, <1>23, <1>24
    DEF Next, Declare, Run, Internal, Outside, Moves

LEMMA PlaceStep ==
    ASSUME IInv, Quiet \/ Moves \/ DeclaresTrue PROVE PlaceOK'
  <1>1. CASE Quiet
    BY <1>1 DEF Quiet
  <1>2. CASE Moves
    <2>1. ASSUME NEW stage, NEW streamed, RunResponse(stage, streamed) PROVE PlaceOK'
      BY <2>1 DEF RunResponse, RequireStage, Throw, PlaceOK
    <2>2. ASSUME NEW stage, NEW streamed, StartTool(stage, streamed) PROVE PlaceOK'
      BY <2>2 DEF StartTool, RequireStage, Throw, PlaceOK
    <2>3. ASSUME NEW reply, NEW usage, TurnReturns(reply, usage) PROVE PlaceOK'
      BY <2>3 DEF TurnReturns, PlaceOK
    <2>4. CASE ToolReturns
      BY <2>4 DEF ToolReturns, PlaceOK
    <2>5. CASE FailSession
      BY <2>5 DEF FailSession, PlaceOK
    <2>6. CASE CloseReturns
      BY <2>6 DEF CloseReturns, PlaceOK
    <2> QED  BY <1>2, <2>1, <2>2, <2>3, <2>4, <2>5, <2>6 DEF Moves
  <1>3. ASSUME NEW stage, Declares(stage) PROVE PlaceOK'
    BY <1>3 DEF Declares, PlaceOK
  <1> QED  BY <1>1, <1>2, <1>3 DEF DeclaresTrue

(* What the moves leave of the numbering: no stage is active any more, or  *)
(* nothing changed and a blocked or failed call is under way.              *)
LEMMA MovesTokens ==
    ASSUME Moves
    PROVE  /\ stages' = stages /\ nextToken' = nextToken
           /\ \/ activeToken' = 0
              \/ activeToken' = activeToken /\ pc' \in {"tool", "cleanup"}
  <1> USE DEF CommitStage, Throw
  <1>1. ASSUME NEW stage, NEW streamed, RunResponse(stage, streamed)
        PROVE  /\ stages' = stages /\ nextToken' = nextToken
               /\ \/ activeToken' = 0
                  \/ activeToken' = activeToken /\ pc' \in {"tool", "cleanup"}
    BY <1>1 DEF RunResponse
  <1>2. ASSUME NEW stage, NEW streamed, StartTool(stage, streamed)
        PROVE  /\ stages' = stages /\ nextToken' = nextToken
               /\ activeToken' = activeToken /\ pc' \in {"tool", "cleanup"}
    BY <1>2 DEF StartTool
  <1>3. ASSUME NEW reply, NEW usage, TurnReturns(reply, usage)
        PROVE  stages' = stages /\ nextToken' = nextToken /\ activeToken' = 0
    BY <1>3 DEF TurnReturns
  <1>4. CASE ToolReturns
    BY <1>4 DEF ToolReturns
  <1>5. CASE FailSession
    BY <1>5 DEF FailSession
  <1>6. CASE CloseReturns
    BY <1>6 DEF CloseReturns
  <1> QED  BY <1>1, <1>2, <1>3, <1>4, <1>5, <1>6 DEF Moves

LEMMA TokensStep ==
    ASSUME IInv, Quiet \/ Moves \/ DeclaresTrue PROVE TokensOK'
  <1>a. TokensOK /\ nextToken \in Nat /\ nextToken >= 1
    BY SessionAssumption DEF IInv, TypeOK
  <1>1. CASE Quiet
    BY <1>a, <1>1 DEF Quiet, TokensOK
  <1>2. CASE Moves
    BY <1>a, <1>2, MovesTokens DEF TokensOK
  <1>3. ASSUME NEW stage, Declares(stage) PROVE TokensOK'
    BY <1>a, <1>3 DEF Declares, DeclareStage, TokensOK
  <1> QED  BY <1>1, <1>2, <1>3 DEF DeclaresTrue

(* An active stage that was there before a declaration is active no more.  *)
LEMMA DeclaredIsActive ==
    ASSUME IInv, NEW stage, Declares(stage),
           NEW s \in stages', s.token = activeToken'
    PROVE  s = stage
  <1>a. TokensOK /\ nextToken \in Nat /\ nextToken >= 1
    BY SessionAssumption DEF IInv, TypeOK
  <1> QED  BY <1>a DEF Declares, DeclareStage, TokensOK

LEMMA ActiveStep ==
    ASSUME IInv, Quiet \/ Moves \/ DeclaresTrue PROVE ActiveIsCurrent'
  <1>a. TokensOK /\ TypeOK /\ ActiveIsCurrent /\ PlaceOK
    BY DEF IInv
  <1>1. CASE Quiet
    <2>1. ASSUME NEW s \in stages, s.token = activeToken, pc = "registering" PROVE FALSE
      BY <1>a, <2>1 DEF TokensOK, PlaceOK
    <2>2. LastMessage' = LastMessage
      BY <1>1 DEF Quiet, LastMessage
    <2>3. ASSUME NEW s \in stages', pc' \in {"idle", "closing"}, s.token = activeToken'
          PROVE  s \in stages /\ pc \in {"idle", "closing"} /\ s.token = activeToken
      BY <1>1, <2>1, <2>3 DEF Quiet
    <2> QED  BY <1>a, <1>1, <2>2, <2>3 DEF Quiet, ActiveIsCurrent
  <1>2. CASE Moves
    <2>1. ASSUME NEW s \in stages', s.token = activeToken' PROVE pc' \in {"tool", "cleanup"}
      BY <1>a, <1>2, <2>1, MovesTokens DEF TokensOK
    <2> QED  BY <2>1 DEF ActiveIsCurrent
  <1>3. CASE DeclaresTrue
    <2>1. ASSUME NEW stage, Declares(stage), NEW s \in stages', s.token = activeToken'
          PROVE  /\ s = stage
                 /\ s.generation = generation'
                 /\ s.kind = state'
                 /\ pendingTurn' = pendingTurn
                 /\ LastMessage' = LastMessage /\ toolIndex' = toolIndex
                 /\ nextCallId' = nextCallId
      <3>1. s = stage
        BY <2>1, DeclaredIsActive
      <3> QED  BY <2>1, <3>1 DEF Declares, DeclareStage, LastMessage
    <2>2. ASSUME NEW x, Declares(Stage("request", x)) PROVE ActiveIsCurrent'
      BY <2>1, <2>2 DEF ActiveIsCurrent, Stage
    <2>3. ASSUME Declares(Stage("response", pendingTurn.calls # <<>>))
          PROVE  ActiveIsCurrent'
      <3>1. ASSUME NEW s \in stages', s.token = activeToken'
            PROVE  /\ s.kind = "response" /\ s.carries = (pendingTurn.calls # <<>>)
                   /\ s.generation = generation' /\ s.kind = state'
                   /\ pendingTurn' = pendingTurn
        <4>1. s = Stage("response", pendingTurn.calls # <<>>)
          BY <2>1, <2>3, <3>1
        <4>2. s.kind = "response" /\ s.carries = (pendingTurn.calls # <<>>)
          BY <4>1, Zenon DEF Stage
        <4> QED  BY <2>1, <2>3, <3>1, <4>2
      <3>2. ASSUME NEW s \in stages', s.token = activeToken'
            PROVE  s.carries = (pendingTurn'.calls # <<>>)
        BY <3>1, <3>2, Zenon
      <3> QED  BY <3>1, <3>2 DEF ActiveIsCurrent
    <2>4. ASSUME Declares(Stage("tool", Prepare(LastMessage.calls[toolIndex + 1])))
          PROVE  ActiveIsCurrent'
      <3> DEFINE raw == LastMessage.calls[toolIndex + 1]
      <3>1. ASSUME NEW s \in stages', s.token = activeToken'
            PROVE  /\ s.kind = "tool"
                   /\ s.carries.index = toolIndex
                   /\ s.carries.synthesized = (raw.id = NoId)
                   /\ s.carries.call = IF raw.id # NoId THEN raw
                                       ELSE [raw EXCEPT !.id = SynthId(nextCallId)]
        <4>1. s = Stage("tool", Prepare(raw))
          BY <2>1, <2>4, <3>1
        <4>2. s.kind = "tool" /\ s.carries = Prepare(raw)
          BY <4>1 DEF Stage
        <4>3. /\ Prepare(raw).index = toolIndex
              /\ Prepare(raw).synthesized = (raw.id = NoId)
              /\ Prepare(raw).call = IF raw.id = NoId
                                     THEN [raw EXCEPT !.id = SynthId(nextCallId)] ELSE raw
          BY Zenon DEF Prepare
        <4>4. Prepare(raw).call = IF raw.id # NoId THEN raw
                                  ELSE [raw EXCEPT !.id = SynthId(nextCallId)]
          BY <4>3
        <4> QED  BY <4>2, <4>3, <4>4, Zenon
      <3> HIDE DEF raw
      <3>2. ASSUME NEW s \in stages', s.token = activeToken'
            PROVE  /\ s.generation = generation' /\ s.kind = state' /\ raw' = raw
                   /\ toolIndex' = toolIndex /\ nextCallId' = nextCallId
        BY <2>1, <2>4, <3>2 DEF raw
      <3>3. SynthId(nextCallId)' = SynthId(nextCallId')
        BY DEF SynthId
      <3> QED  BY <3>1, <3>2, <3>3 DEF ActiveIsCurrent, raw
    <2> QED  BY <1>3, <2>2, <2>3, <2>4 DEF DeclaresTrue
  <1> QED  BY <1>1, <1>2, <1>3

(* A response that leads to the tool state asks for some calls, because    *)
(* the stage that runs says so and what it says is true of the turn.       *)
LEMMA ResponseAsks ==
    ASSUME IInv, NEW stage \in stages, NEW streamed, RunResponse(stage, streamed),
           state' = "tool"
    PROVE  /\ history' # <<>>
           /\ LastMessage'.role = "assistant"
           /\ LastMessage'.calls = pendingTurn.calls
           /\ Len(pendingTurn.calls) \in Nat \ {0}
           /\ toolIndex' = 0 /\ canonical' = <<>> /\ results' = <<>>
  <1>1. /\ pendingTurn \in Turn /\ state = "response" /\ pc = "idle"
        /\ stage.kind = "response" /\ stage.token = activeToken
    BY DEF RunResponse, RequireStage, IInv, TypeOK
  <1>2. stage.carries = (pendingTurn.calls # <<>>)
    BY <1>1, Zenon DEF IInv, ActiveIsCurrent
  <1>3. stage.carries
    BY <1>1 DEF RunResponse, CommitStage
  <1>4. pendingTurn.calls # <<>> /\ pendingTurn.calls \in Seq(Call)
    BY <1>1, <1>2, <1>3 DEF Turn
  <1>5. Len(pendingTurn.calls) \in Nat \ {0}
    BY <1>4
  <1>6. toolIndex' = 0 /\ canonical' = <<>> /\ results' = <<>>
    BY <1>1, <1>3 DEF RunResponse
  <1>7. /\ history' # <<>>
        /\ history'[Len(history')] = Assistant(pendingTurn.calls)
    <2>1. history' = Append(pendingTurn.messages, Assistant(pendingTurn.calls))
      BY DEF RunResponse
    <2>2. pendingTurn.messages \in Seq(Message)
      BY <1>1 DEF Turn
    <2>3. Assistant(pendingTurn.calls) \in Message
      BY <1>4, MessageTypes
    <2> QED  BY <2>1, <2>2, <2>3
  <1> QED  BY <1>5, <1>6, <1>7, AssistantFields DEF LastMessage

(* What the tool state says, in one piece per variable it reads.           *)
LEMMA ToolsStep ==
    ASSUME IInv, Quiet \/ Moves \/ DeclaresTrue PROVE ToolsOK'
  <1>a. TypeOK /\ PlaceOK /\ ActiveIsCurrent /\ ToolsOK
    BY DEF IInv
  <1>1. ASSUME UNCHANGED <<state, chatVars, toolVars>>,
               pc' \in {"idle", "closing"} => pc \in {"idle", "closing", "registering"}
        PROVE  ToolsOK'
    <2>1. LastMessage' = LastMessage
      BY <1>1 DEF LastMessage
    <2>2. (state = "tool" =>
              \A i \in 1 .. toolIndex : results[i] = Result(canonical[i].id))'
      BY <1>a, <1>1 DEF ToolsOK, ToolStateHolds, Result
    <2> QED  BY <1>a, <1>1, <2>1, <2>2 DEF ToolsOK, ToolStateHolds, PlaceOK
  <1>2. ASSUME NEW stage \in stages, NEW streamed, RunResponse(stage, streamed)
        PROVE  ToolsOK'
    <2>1. state = "response"
      BY <1>2 DEF RunResponse, RequireStage
    <2>3. CASE state' = "tool"
      <3>1. Len(canonical') = 0 /\ Len(results') = 0
        BY <1>2, <2>3, ResponseAsks
      <3> QED  BY <1>2, <2>3, <3>1, ResponseAsks DEF ToolsOK, ToolStateHolds
    <2>4. CASE state' # "tool"
      <3>1. state' = "response" => pc' = "cleanup"
        BY <1>2, <2>1 DEF RunResponse, CommitStage, Throw
      <3> QED  BY <2>4, <3>1 DEF ToolsOK, ToolStateHolds
    <2> QED  BY <2>3, <2>4
  <1>3. ASSUME NEW stage \in stages, NEW streamed, StartTool(stage, streamed)
        PROVE  ToolsOK'
    <2>1. /\ state' = "tool" /\ state = "tool"
          /\ UNCHANGED <<history, toolIndex, canonical, results>>
      BY <1>3 DEF StartTool, RequireStage
    <2>2. LastMessage' = LastMessage
      BY <2>1 DEF LastMessage
    <2>3. (\A i \in 1 .. toolIndex : results[i] = Result(canonical[i].id))'
      BY <1>a, <2>1 DEF ToolsOK, ToolStateHolds, Result
    <2> QED  BY <1>a, <2>1, <2>2, <2>3 DEF ToolsOK, ToolStateHolds
  <1>4. ASSUME NEW reply \in Replies, NEW usage \in {"exact", "unavailable"},
               TurnReturns(reply, usage)
        PROVE  ToolsOK'
    <2>1. pendingTurn' \in Turn
      BY <1>a, <1>4, RequestMessagesType, SessionAssumption DEF TurnReturns, Turn
    <2>2. pendingTurn' # None
      BY <2>1, SessionAssumption
    <2>3. state' = "response"
      BY <1>4 DEF TurnReturns, CommitStage
    <2> QED  BY <2>2, <2>3 DEF ToolsOK, ToolStateHolds
  <1>5. CASE ToolReturns
    <2>1. state = "tool" /\ toolIndex \in Nat
      BY <1>a, <1>5 DEF ToolReturns, PlaceOK, TypeOK
    <2>2. CASE MoreCalls
      <3> DEFINE call == running.carries.call
      <3>1. /\ state' = "tool" /\ toolIndex' = toolIndex + 1 /\ history' = history
            /\ canonical' = Append(canonical, call)
            /\ results' = Append(results, Result(call.id))
        BY <1>5, <2>2 DEF ToolReturns, CommitStage
      <3> HIDE DEF call
      <3>2. canonical \in Seq(CanonicalCall) /\ results \in Seq(ToolResult)
        BY <1>a DEF TypeOK
      <3>3. call \in CanonicalCall
        BY <1>a, <1>5 DEF ToolReturns, TypeOK, StageOK, call
      <3>4. Result(call.id) \in ToolResult
        BY <3>3, MessageTypes DEF CanonicalCall
      <3>5. Len(canonical) = toolIndex /\ Len(results) = toolIndex
        BY <1>a, <2>1 DEF ToolsOK, ToolStateHolds
      <3>6. Len(canonical') = toolIndex' /\ Len(results') = toolIndex'
        BY <2>1, <3>1, <3>2, <3>3, <3>4, <3>5
      <3>7. ASSUME NEW i \in 1 .. toolIndex'
            PROVE  results'[i] = Result(canonical'[i].id)
        <4>1. CASE i = toolIndex'
          BY <2>1, <3>1, <3>2, <3>3, <3>4, <3>5, <4>1
        <4>2. CASE i # toolIndex'
          <5>1. i \in 1 .. toolIndex
            BY <2>1, <3>1, <4>2
          <5>2. results[i] = Result(canonical[i].id)
            BY <1>a, <2>1, <5>1 DEF ToolsOK, ToolStateHolds
          <5>3. results'[i] = results[i] /\ canonical'[i] = canonical[i]
            BY <3>1, <3>2, <3>3, <3>4, <3>5, <5>1
          <5> QED  BY <5>2, <5>3
        <4> QED  BY <4>1, <4>2
      <3>8. LastMessage' = LastMessage
        BY <3>1 DEF LastMessage
      <3>9. LastMessage.role = "assistant" /\ history # <<>>
            /\ toolIndex' < Len(LastMessage.calls)
        BY <1>a, <2>1, <2>2, <3>1 DEF ToolsOK, ToolStateHolds, MoreCalls
      <3>10. (\A i \in 1 .. toolIndex : results[i] = Result(canonical[i].id))'
        BY <3>7 DEF Result
      <3> QED  BY <3>1, <3>6, <3>8, <3>9, <3>10 DEF ToolsOK, ToolStateHolds
    <2>3. CASE ~MoreCalls
      <3>1. state' = "request"
        BY <1>5, <2>3 DEF ToolReturns, CommitStage
      <3> QED  BY <3>1 DEF ToolsOK, ToolStateHolds
    <2> QED  BY <2>2, <2>3
  <1>6. CASE FailSession \/ CloseReturns
    <2>1. state' = "closed"
      BY <1>6 DEF FailSession, CloseReturns, CommitStage
    <2> QED  BY <2>1 DEF ToolsOK, ToolStateHolds
  <1>7. CASE Quiet
    BY <1>1, <1>7 DEF Quiet
  <1>8. ASSUME NEW stage, Declares(stage) PROVE ToolsOK'
    BY <1>1, <1>8 DEF Declares
  <1> QED  BY <1>2, <1>3, <1>4, <1>5, <1>6, <1>7, <1>8 DEF Moves, DeclaresTrue

LEMMA Invariant == Spec => []IInv
  <1>1. Init => IInv
    <2>1. Init => PlaceOK /\ TokensOK /\ ActiveIsCurrent /\ ToolsOK
      BY DEF Init, PlaceOK, TokensOK, ActiveIsCurrent, ToolsOK, ToolStateHolds
    <2> QED  BY <2>1, InitType DEF IInv
  <1>2. IInv /\ [Next]_vars => IInv'
    <2> SUFFICES ASSUME IInv, [Next]_vars PROVE IInv'
      OBVIOUS
    <2>1. Quiet \/ Moves \/ DeclaresTrue
      BY StepKinds
    <2> QED  BY <2>1, TypeStep, PlaceStep, TokensStep, ActiveStep, ToolsStep DEF IInv
  <1> QED  BY <1>1, <1>2, PTL DEF Spec

(* Every variable has its type, and every call that reaches the history, a *)
(* result or the tool runtime has an id, for any replies of the model.     *)
THEOREM TypeCorrect == Spec => []TypeOK
  <1>1. IInv => TypeOK
    BY DEF IInv
  <1> QED  BY <1>1, Invariant, PTL

(* Whatever stage objects the client keeps, the one a run_* call would     *)
(* accept is the newest, and it is true of the session.                    *)
THEOREM FreshStage == Spec => []FreshStageIsCurrent
  <1>1. IInv => FreshStageIsCurrent
    <2> SUFFICES ASSUME IInv, NEW s \in stages, pc = "idle", s.token = activeToken
                 PROVE  /\ s.token + 1 = nextToken
                        /\ s.generation = generation
                        /\ s.kind = state
                        /\ s.kind = "response" => s.carries = (pendingTurn.calls # <<>>)
                        /\ s.kind = "tool" =>
                              LET raw == LastMessage.calls[toolIndex + 1]
                                  x == s.carries
                              IN /\ x.index = toolIndex
                                 /\ x.synthesized = (raw.id = NoId)
                                 /\ x.call = IF raw.id # NoId THEN raw
                                             ELSE [raw EXCEPT !.id = SynthId(nextCallId)]
      BY DEF FreshStageIsCurrent
    <2>1. s.token + 1 = nextToken
      BY SessionAssumption DEF IInv, TokensOK, TypeOK
    <2>2. ActiveIsCurrent
      BY DEF IInv
    <2> QED  BY <2>1, <2>2 DEF ActiveIsCurrent
  <1> QED  BY <1>1, Invariant, PTL

(* In the tool state there is a next call, and the results so far are those *)
(* of the calls before it, in their order.                                 *)
THEOREM ToolState == Spec => []ToolStateHolds
  <1>1. IInv => ToolStateHolds
    BY DEF IInv, ToolsOK
  <1> QED  BY <1>1, Invariant, PTL

-----------------------------------------------------------------------------
(* The life cycle.                                                         *)
Left == IF state = "tool" THEN Len(LastMessage.calls) - toolIndex ELSE 0

LEMMA LifecycleStep ==
    ASSUME IInv, [Next]_vars PROVE [Lifecycle!Next]_<<state, Left>>
  <1> USE DEF CommitStage
  <1>a. TypeOK /\ PlaceOK /\ ToolsOK
    BY DEF IInv
  <1>1. ASSUME UNCHANGED <<state, history, toolIndex>> PROVE UNCHANGED <<state, Left>>
    BY <1>1 DEF Left, LastMessage
  <1>2. ASSUME NEW stage \in stages, NEW streamed, RunResponse(stage, streamed)
        PROVE  [Lifecycle!Next]_<<state, Left>>
    <2>1. state = "response" /\ Left = 0
      BY <1>2 DEF RunResponse, RequireStage, Left
    <2>2. CASE state' = "tool"
      <3>1. Left' \in Nat \ {0}
        BY <1>2, <2>2, ResponseAsks DEF Left
      <3> QED  BY <2>1, <2>2, <3>1 DEF Lifecycle!Next, Lifecycle!AskForTools, Left
    <2>3. CASE state' # "tool"
      <3>1. state' \in {"response", "finished"} /\ Left' = 0
        BY <1>2, <2>1, <2>3 DEF RunResponse, Left
      <3> QED  BY <2>1, <3>1 DEF Lifecycle!Next, Lifecycle!Finish, Left
    <2> QED  BY <2>2, <2>3
  <1>3. ASSUME NEW stage \in stages, NEW streamed, StartTool(stage, streamed)
        PROVE  UNCHANGED <<state, Left>>
    BY <1>1, <1>3 DEF StartTool
  <1>4. ASSUME NEW reply, NEW usage, TurnReturns(reply, usage) PROVE Lifecycle!Next
    BY <1>a, <1>4 DEF TurnReturns, PlaceOK, Lifecycle!Next, Lifecycle!Ask, Left
  <1>5. CASE ToolReturns
    <2>1. state = "tool" /\ toolIndex \in Nat /\ history # <<>>
          /\ LastMessage.role = "assistant" /\ toolIndex < Len(LastMessage.calls)
      BY <1>a, <1>5 DEF ToolReturns, PlaceOK, TypeOK, ToolsOK, ToolStateHolds
    <2>2. Len(LastMessage.calls) \in Nat
      BY <1>a, <2>1, LastMessageType
    <2>3. Left = Len(LastMessage.calls) - toolIndex
      BY <2>1 DEF Left
    <2>4. CASE MoreCalls
      <3>1. state' = "tool" /\ toolIndex' = toolIndex + 1 /\ LastMessage' = LastMessage
        BY <1>5, <2>4 DEF ToolReturns, LastMessage
      <3>2. Left' = Len(LastMessage.calls) - (toolIndex + 1)
        BY <3>1 DEF Left
      <3>3. Left' = Left - 1 /\ Left' # 0
        BY <2>1, <2>2, <2>3, <2>4, <3>2 DEF MoreCalls
      <3> QED  BY <2>1, <3>1, <3>3 DEF Lifecycle!Next, Lifecycle!HandleCall, Left
    <2>5. CASE ~MoreCalls
      <3>1. state' = "request"
        BY <1>5, <2>5 DEF ToolReturns
      <3>2. Left' = 0 /\ Left = 1
        BY <2>1, <2>2, <2>3, <2>5, <3>1 DEF MoreCalls, Left
      <3> QED  BY <2>1, <3>1, <3>2 DEF Lifecycle!Next, Lifecycle!HandleCall, Left
    <2> QED  BY <2>4, <2>5
  <1>6. CASE FailSession \/ CloseReturns
    <2>1. state # "closed" /\ state' = "closed"
      BY <1>a, <1>6 DEF FailSession, CloseReturns, PlaceOK
    <2> QED  BY <2>1 DEF Lifecycle!Next, Lifecycle!Close, Left
  <1>7. CASE Quiet
    BY <1>1, <1>7 DEF Quiet
  <1>8. ASSUME NEW stage, Declares(stage) PROVE UNCHANGED <<state, Left>>
    BY <1>1, <1>8 DEF Declares
  <1>9. Quiet \/ Moves \/ DeclaresTrue
    BY StepKinds
  <1> QED  BY <1>2, <1>3, <1>4, <1>5, <1>6, <1>7, <1>8, <1>9 DEF Moves, DeclaresTrue

(* The stage functions implement the promised life cycle: every step of    *)
(* the session is a step of SessionLifecycle or leaves its state alone.    *)
THEOREM Implements == Spec => LifecycleSpec
  <1>1. Init => Lifecycle!Init
    BY DEF Init, Lifecycle!Init
  <1>2. IInv /\ [Next]_vars => [Lifecycle!Next]_<<state, Left>>
    BY LifecycleStep
  <1> QED
    BY <1>1, <1>2, Invariant, PTL DEF Spec, LifecycleSpec, Lifecycle!Spec, Left

-----------------------------------------------------------------------------
(* The watchdog and the key.                                               *)

(* The watchdog is armed as long as the session may still be used.         *)
Armed ==
    pc \in {"turn", "tool", "cleanup", "cancel", "closing", "closed"}
       \/ (pc = "idle" /\ state # "closed") => watchdog = "armed"

(* Where the erasure of the key stands, place by place.                    *)
KeyOK ==
    /\ credential.closed => ~keyring /\ credential.attempted
    /\ pc \in {"unregistered", "registering"} =>
          ~credential.attempted /\ ~credential.closed
    /\ pc = "registering" => keyring
    /\ pc \in {"turn", "tool", "cleanup"} \/ (pc = "idle" /\ state # "closed") =>
          reported \/ (keyring /\ ~credential.attempted)
    /\ pc \in {"cancel", "closing"} => credential.attempted
    /\ state = "closed" =>
          credential.attempted /\ watchdog = "cancelled" /\ pc \notin {"closing", "aborted"}
    /\ pc = "closed" => credential.closed
    /\ credential.attempted /\ keyring /\ pc \notin {"closing", "aborted"} =>
          reported \/ credential.secondary

KInv == IInv /\ Armed /\ KeyOK

LEMMA ArmedStep ==
    ASSUME KInv, [Next]_vars PROVE Armed'
  <1> USE DEF Armed, CommitStage, Throw
  <1>a. Armed /\ PlaceOK
    BY DEF KInv, IInv
  <1>1. CASE Register
    BY <1>a, <1>1 DEF Register, PlaceOK
  <1>2. CASE RegisterThrows
    BY <1>a, <1>2 DEF RegisterThrows, PlaceOK
  <1>3. ASSUME NEW compact, DeclareRequest(compact) PROVE Armed'
    BY <1>a, <1>3 DEF DeclareRequest, PlaceOK
  <1>4. CASE UsageOverflows
    BY <1>a, <1>4 DEF UsageOverflows, PlaceOK
  <1>5. CASE DeclareResponse
    BY <1>a, <1>5 DEF DeclareResponse, PlaceOK
  <1>6. CASE DeclareTool
    BY <1>a, <1>6 DEF DeclareTool, PlaceOK
  <1>7. ASSUME NEW stage, RunRequest(stage) PROVE Armed'
    BY <1>a, <1>7 DEF RunRequest, RequireStage, PlaceOK
  <1>8. ASSUME NEW stage, NEW streamed, RunResponse(stage, streamed)
        PROVE  Armed'
    BY <1>a, <1>8 DEF RunResponse, RequireStage, PlaceOK
  <1>9. ASSUME NEW stage, NEW streamed, StartTool(stage, streamed) PROVE Armed'
    BY <1>a, <1>9 DEF StartTool, RequireStage, PlaceOK
  <1>10. CASE Close
    BY <1>a, <1>10 DEF Close, PlaceOK
  <1>11. CASE Drop
    BY <1>a, <1>11 DEF Drop, PlaceOK
  <1>12. CASE Registered
    BY <1>a, <1>12 DEF Registered, PlaceOK
  <1>13. CASE FailSession
    BY <1>a, <1>13 DEF FailSession, PlaceOK
  <1>14. CASE CloseReturns
    BY <1>a, <1>14 DEF CloseReturns, PlaceOK
  <1>15. ASSUME NEW reply, NEW usage, TurnReturns(reply, usage) PROVE Armed'
    BY <1>a, <1>15 DEF TurnReturns, PlaceOK
  <1>16. CASE TurnThrows
    BY <1>a, <1>16 DEF TurnThrows, PlaceOK
  <1>17. CASE ToolReturns
    BY <1>a, <1>17 DEF ToolReturns, PlaceOK
  <1>18. CASE ToolThrows
    BY <1>a, <1>18 DEF ToolThrows, PlaceOK
  <1>19. ASSUME NEW erased \in BOOLEAN, NEW gone \in BOOLEAN, Cleanup(erased, gone)
        PROVE  Armed'
    BY <1>a, <1>19 DEF Cleanup, PlaceOK
  <1>20. CASE CloseErases
    BY <1>a, <1>20 DEF CloseErases, PlaceOK
  <1>21. ASSUME NEW gone \in BOOLEAN, CloseThrows(gone) PROVE Armed'
    BY <1>a, <1>21 DEF CloseThrows, PlaceOK
  <1>22. ASSUME NEW gone \in BOOLEAN, DropCredential(gone) PROVE Armed'
    BY <1>a, <1>22 DEF DropCredential, PlaceOK
  <1>23. CASE Timeout
    BY <1>a, <1>23 DEF Timeout, PlaceOK
  <1>24. CASE UNCHANGED vars
    BY <1>a, <1>24 DEF vars, PlaceOK
  <1> QED  BY <1>1, <1>2, <1>3, <1>4, <1>5, <1>6, <1>7, <1>8, <1>9, <1>10, <1>11,
              <1>12, <1>13, <1>14, <1>15, <1>16, <1>17, <1>18, <1>19, <1>20, <1>21,
              <1>22, <1>23, <1>24 DEF KInv, Next, Declare, Run, Internal, Outside

LEMMA KeyStep ==
    ASSUME KInv, [Next]_vars PROVE KeyOK'
  <1> USE DEF KeyOK, CommitStage, Throw
  <1>a. /\ KeyOK /\ PlaceOK /\ Armed
        /\ credential \in [closed : BOOLEAN, attempted : BOOLEAN, secondary : BOOLEAN]
    BY DEF KInv, IInv, TypeOK
  <1>1. CASE Register
    BY <1>a, <1>1 DEF Register, PlaceOK
  <1>2. CASE RegisterThrows
    BY <1>a, <1>2 DEF RegisterThrows, PlaceOK
  <1>3. ASSUME NEW compact, DeclareRequest(compact) PROVE KeyOK'
    BY <1>a, <1>3 DEF DeclareRequest, PlaceOK
  <1>4. CASE UsageOverflows
    BY <1>a, <1>4 DEF UsageOverflows, PlaceOK
  <1>5. CASE DeclareResponse
    BY <1>a, <1>5 DEF DeclareResponse, PlaceOK
  <1>6. CASE DeclareTool
    BY <1>a, <1>6 DEF DeclareTool, PlaceOK
  <1>7. ASSUME NEW stage, RunRequest(stage) PROVE KeyOK'
    BY <1>a, <1>7 DEF RunRequest, RequireStage, PlaceOK
  <1>8. ASSUME NEW stage, NEW streamed, RunResponse(stage, streamed)
        PROVE  KeyOK'
    BY <1>a, <1>8 DEF RunResponse, RequireStage, PlaceOK
  <1>9. ASSUME NEW stage, NEW streamed, StartTool(stage, streamed) PROVE KeyOK'
    BY <1>a, <1>9 DEF StartTool, RequireStage, PlaceOK
  <1>10. CASE Close
    BY <1>a, <1>10 DEF Close, PlaceOK
  <1>11. CASE Drop
    BY <1>a, <1>11 DEF Drop, PlaceOK
  <1>12. CASE Registered
    BY <1>a, <1>12 DEF Registered, PlaceOK
  <1>13. CASE FailSession
    BY <1>a, <1>13 DEF FailSession, PlaceOK
  <1>14. CASE CloseReturns
    BY <1>a, <1>14 DEF CloseReturns, PlaceOK
  <1>15. ASSUME NEW reply, NEW usage, TurnReturns(reply, usage) PROVE KeyOK'
    BY <1>a, <1>15 DEF TurnReturns, PlaceOK
  <1>16. CASE TurnThrows
    BY <1>a, <1>16 DEF TurnThrows, PlaceOK
  <1>17. CASE ToolReturns
    BY <1>a, <1>17 DEF ToolReturns, PlaceOK
  <1>18. CASE ToolThrows
    BY <1>a, <1>18 DEF ToolThrows, PlaceOK
  <1>19. ASSUME NEW erased \in BOOLEAN, NEW gone \in BOOLEAN, Cleanup(erased, gone)
        PROVE  KeyOK'
    BY <1>a, <1>19 DEF Cleanup, PlaceOK
  <1>20. CASE CloseErases
    BY <1>a, <1>20 DEF CloseErases, PlaceOK
  <1>21. ASSUME NEW gone \in BOOLEAN, CloseThrows(gone) PROVE KeyOK'
    BY <1>a, <1>21 DEF CloseThrows, PlaceOK
  <1>22. ASSUME NEW gone \in BOOLEAN, DropCredential(gone) PROVE KeyOK'
    BY <1>a, <1>22 DEF DropCredential, PlaceOK
  <1>23. CASE Timeout
    BY <1>a, <1>23 DEF Timeout, PlaceOK
  <1>24. CASE UNCHANGED vars
    BY <1>a, <1>24 DEF vars, PlaceOK
  <1> QED  BY <1>1, <1>2, <1>3, <1>4, <1>5, <1>6, <1>7, <1>8, <1>9, <1>10, <1>11,
              <1>12, <1>13, <1>14, <1>15, <1>16, <1>17, <1>18, <1>19, <1>20, <1>21,
              <1>22, <1>23, <1>24 DEF KInv, Next, Declare, Run, Internal, Outside

LEMMA KeyInvariant == Spec => []KInv
  <1>1. Init => Armed /\ KeyOK
    BY DEF Init, Armed, KeyOK
  <1>2. IInv /\ Armed /\ KeyOK /\ [Next]_vars => (Armed /\ KeyOK)'
    BY ArmedStep, KeyStep DEF KInv
  <1>3. IInv /\ Armed /\ KeyOK => KInv
    BY DEF KInv
  <1> QED  BY <1>1, <1>2, <1>3, Invariant, PTL DEF Spec

(* A call that blocks, in the provider, a tool or the erasure of the key,  *)
(* is always under the watchdog.                                           *)
THEOREM Watched == Spec => []WatchdogCoversCalls
  <1>1. KInv => WatchdogCoversCalls
    BY DEF KInv, Armed, WatchdogCoversCalls
  <1> QED  BY <1>1, KeyInvariant, PTL

(* A key that outlives its session was reported, or is kept as a secondary *)
(* error, or was left to the destructor; and a turn that finds no key was  *)
(* preceded by a report.                                                   *)
THEOREM KeyReported == Spec => []KeyAccountedFor
  <1>1. KInv => KeyAccountedFor
    BY DEF KInv, KeyOK, KeyAccountedFor
  <1> QED  BY <1>1, KeyInvariant, PTL

-----------------------------------------------------------------------------
(* The order in which stages run.                                          *)

(* The history variable ran, and its last element, on their own.           *)
Ordered(r) ==
    /\ r # <<>> => r[1].kind = "request"
    /\ \A i \in DOMAIN r \ {1} :
          r[i - 1].token < r[i].token /\ Follows(r[i - 1], r[i])

Handed(e) ==
    \A i \in DOMAIN e :
       /\ e[i].refresh = (RefreshWorkspace /\ i = 1)
       /\ i > 1 => e[i - 1].token < e[i].token

LastRan == ran[Len(ran)]

(* A stage that may still run was declared after every stage that ran.     *)
LiveToken ==
    pc \in {"idle", "closing"} /\ ran # <<>> /\ activeToken # 0 =>
       LastRan.token < activeToken

(* The state, and the index in the tool state, are those the last stage    *)
(* that ran leads to; what close_session may come back to included.        *)
RanMatchesState ==
    /\ pc \in {"unregistered", "registering"} => ran = <<>>
    /\ pc \in {"idle", "closing"} =>
          /\ state = "request" => ran = <<>> \/ LastRan.kind = "tool"
          /\ state = "response" => ran # <<>> /\ LastRan.kind = "request"
          /\ state = "tool" =>
                /\ ran # <<>>
                /\ \/ LastRan.kind = "response" /\ LastRan.carries /\ toolIndex = 0
                   \/ LastRan.kind = "tool" /\ LastRan.carries.index + 1 = toolIndex
    /\ pc = "turn" => ran # <<>> /\ LastRan.kind = "request"
    /\ pc = "tool" =>
          ran # <<>> /\ LastRan.kind = "tool" /\ LastRan.carries.index = toolIndex

(* What the tool runtime has seen: nothing newer than the last stage, and  *)
(* the refresh flag is kept for the first call.                            *)
RuntimeOK ==
    /\ executed # <<>> => ran # <<>> /\ executed[Len(executed)].token <= LastRan.token
    /\ refreshPending = (RefreshWorkspace /\ executed = <<>>)

OrderInv ==
    /\ IInv
    /\ Ordered(ran) /\ Handed(executed)
    /\ LiveToken /\ RanMatchesState /\ RuntimeOK

LEMMA OrderedAppend ==
    ASSUME NEW S, NEW r \in Seq(S), NEW s \in S, Ordered(r),
           r = <<>> => s.kind = "request",
           r # <<>> => r[Len(r)].token < s.token /\ Follows(r[Len(r)], s)
    PROVE  /\ Ordered(Append(r, s))
           /\ Append(r, s) # <<>>
           /\ Append(r, s)[Len(Append(r, s))] = s
  <1> DEFINE t == Append(r, s)
  <1>1. /\ Len(t) = Len(r) + 1 /\ Len(r) \in Nat /\ DOMAIN t = 1 .. Len(t)
        /\ DOMAIN r = 1 .. Len(r)
        /\ t[Len(t)] = s /\ t # <<>>
        /\ \A i \in 1 .. Len(r) : t[i] = r[i]
    OBVIOUS
  <1>2. r # <<>> <=> Len(r) # 0
    OBVIOUS
  <1> HIDE DEF t
  <1>3. t[1].kind = "request"
    <2>1. CASE r = <<>>
      BY <1>1, <1>2, <2>1
    <2>2. CASE r # <<>>
      BY <1>1, <1>2, <2>2 DEF Ordered
    <2> QED  BY <2>1, <2>2
  <1>4. ASSUME NEW i \in DOMAIN t \ {1}
        PROVE  t[i - 1].token < t[i].token /\ Follows(t[i - 1], t[i])
    <2>1. CASE i = Len(t)
      <3>1. r # <<>> /\ t[i] = s /\ t[i - 1] = r[Len(r)]
        BY <1>1, <1>2, <2>1
      <3> QED  BY <3>1
    <2>2. CASE i # Len(t)
      <3>1. i \in DOMAIN r \ {1} /\ t[i] = r[i] /\ t[i - 1] = r[i - 1]
        BY <1>1, <2>2
      <3> QED  BY <3>1 DEF Ordered
    <2> QED  BY <2>1, <2>2
  <1>5. Ordered(t)
    BY <1>3, <1>4 DEF Ordered
  <1> QED  BY <1>1, <1>5 DEF t

LEMMA HandedAppend ==
    ASSUME NEW e \in Seq(Execution), NEW x \in Execution, Handed(e),
           x.refresh = (RefreshWorkspace /\ e = <<>>),
           e # <<>> => e[Len(e)].token < x.token
    PROVE  /\ Handed(Append(e, x))
           /\ Append(e, x) # <<>>
           /\ Append(e, x)[Len(Append(e, x))] = x
  <1> DEFINE f == Append(e, x)
  <1>1. /\ Len(f) = Len(e) + 1 /\ Len(e) \in Nat /\ DOMAIN f = 1 .. Len(f)
        /\ DOMAIN e = 1 .. Len(e)
        /\ f[Len(f)] = x /\ f # <<>>
        /\ \A i \in 1 .. Len(e) : f[i] = e[i]
    OBVIOUS
  <1>2. e = <<>> <=> Len(e) = 0
    OBVIOUS
  <1> HIDE DEF f
  <1>3. ASSUME NEW i \in DOMAIN f
        PROVE  /\ f[i].refresh = (RefreshWorkspace /\ i = 1)
               /\ i > 1 => f[i - 1].token < f[i].token
    <2>1. CASE i = Len(f)
      <3>1. f[i] = x /\ (i = 1 <=> e = <<>>)
        BY <1>1, <1>2, <2>1
      <3>2. f[i].refresh = (RefreshWorkspace /\ i = 1)
        BY <3>1, Zenon
      <3>3. i > 1 => f[i - 1] = e[Len(e)] /\ e # <<>>
        BY <1>1, <1>2, <2>1
      <3> QED  BY <3>1, <3>2, <3>3
    <2>2. CASE i # Len(f)
      <3>1. i \in DOMAIN e /\ f[i] = e[i] /\ (i > 1 => f[i - 1] = e[i - 1])
        BY <1>1, <2>2
      <3>2. e[i].refresh = (RefreshWorkspace /\ i = 1)
        BY <3>1, Zenon DEF Handed
      <3>3. i > 1 => e[i - 1].token < e[i].token
        BY <3>1 DEF Handed
      <3>4. f[i].refresh = (RefreshWorkspace /\ i = 1)
        BY <3>1, <3>2, Zenon
      <3> QED  BY <3>1, <3>3, <3>4
    <2> QED  BY <2>1, <2>2
  <1>4. Handed(f)
    BY <1>3, Zenon DEF Handed
  <1> QED  BY <1>1, <1>4 DEF f

(* A step that runs no stage: no call begins, and what ran is as it was.   *)
Rests ==
    /\ UNCHANGED <<ran, executed, refreshPending>>
    /\ pc' \in {"turn", "tool"} => pc' = pc
    /\ pc' \in {"unregistered", "registering"} => pc \in {"unregistered", "registering"}

Resumes ==
    \/ \E reply \in Replies, usage \in {"exact", "unavailable"} :
          TurnReturns(reply, usage)
    \/ ToolReturns \/ FailSession \/ CloseReturns

LEMMA OrderKinds ==
    ASSUME IInv, [Next]_vars PROVE Run \/ (Rests /\ (Quiet \/ DeclaresTrue \/ Resumes))
  <1> USE DEF Rests, Throw
  <1>1. ASSUME Register PROVE Rests
    BY <1>1 DEF Register
  <1>2. ASSUME RegisterThrows PROVE Rests
    BY <1>2 DEF RegisterThrows
  <1>3. ASSUME NEW compact, DeclareRequest(compact) PROVE Rests
    BY <1>3 DEF DeclareRequest
  <1>4. ASSUME UsageOverflows PROVE Rests
    BY <1>4 DEF UsageOverflows
  <1>5. ASSUME DeclareResponse PROVE Rests
    BY <1>5 DEF DeclareResponse
  <1>6. ASSUME DeclareTool PROVE Rests
    BY <1>6 DEF DeclareTool
  <1>10. ASSUME Close PROVE Rests
    BY <1>10 DEF Close
  <1>11. ASSUME Drop PROVE Rests
    BY <1>11 DEF Drop
  <1>12. ASSUME Registered PROVE Rests
    BY <1>12 DEF Registered
  <1>13. ASSUME FailSession PROVE Rests
    BY <1>13 DEF FailSession
  <1>14. ASSUME CloseReturns PROVE Rests
    BY <1>14 DEF CloseReturns
  <1>15. ASSUME NEW reply, NEW usage, TurnReturns(reply, usage) PROVE Rests
    BY <1>15 DEF TurnReturns
  <1>16. ASSUME TurnThrows PROVE Rests
    BY <1>16 DEF TurnThrows
  <1>17. ASSUME ToolReturns PROVE Rests
    BY <1>17 DEF ToolReturns
  <1>18. ASSUME ToolThrows PROVE Rests
    BY <1>18 DEF ToolThrows
  <1>19. ASSUME NEW erased, NEW gone, Cleanup(erased, gone) PROVE Rests
    BY <1>19 DEF Cleanup
  <1>20. ASSUME CloseErases PROVE Rests
    BY <1>20 DEF CloseErases
  <1>21. ASSUME NEW gone, CloseThrows(gone) PROVE Rests
    BY <1>21 DEF CloseThrows
  <1>22. ASSUME NEW gone, DropCredential(gone) PROVE Rests
    BY <1>22 DEF DropCredential
  <1>23. ASSUME Timeout PROVE Rests
    BY <1>23 DEF Timeout
  <1>24. ASSUME UNCHANGED vars PROVE Rests
    BY <1>24 DEF vars
  <1>25. Run \/ Rests
    BY <1>1, <1>2, <1>3, <1>4, <1>5, <1>6, <1>10, <1>11, <1>12, <1>13, <1>14, <1>15,
       <1>16, <1>17, <1>18, <1>19, <1>20, <1>21, <1>22, <1>23, <1>24
    DEF Next, Declare, Internal, Outside
  <1>26. Run \/ Quiet \/ DeclaresTrue \/ Resumes
    BY StepKinds DEF Moves, Run, Resumes
  <1> QED  BY <1>25, <1>26

(* The stage a run_* call accepts continues the order of those that ran.   *)
LEMMA AcceptedFollows ==
    ASSUME OrderInv, NEW stage \in stages, pc = "idle", stage.kind = state,
           stage.token = activeToken, state \in {"request", "response", "tool"},
           stage.kind = "tool" => stage.carries.index = toolIndex
    PROVE  /\ stage.token \in Nat
           /\ ran = <<>> => stage.kind = "request"
           /\ ran # <<>> => LastRan.token < stage.token /\ Follows(LastRan, stage)
  <1>1. stage.token \in Nat \ {0}
    BY SessionAssumption DEF OrderInv, IInv, TypeOK, TokensOK
  <1>2. RanMatchesState /\ LiveToken
    BY DEF OrderInv
  <1>3. toolIndex \in Nat
    BY DEF OrderInv, IInv, TypeOK
  <1>4. stage.kind = "tool" /\ LastRan.kind = "tool" /\ LastRan.carries.index + 1 = toolIndex
           => stage.carries.index = LastRan.carries.index + 1
    BY <1>3
  <1> QED  BY <1>1, <1>2, <1>4 DEF RanMatchesState, LiveToken, Follows

LEMMA RunStepOrder ==
    ASSUME OrderInv, NEW stage \in stages, NEW streamed \in BOOLEAN,
           RunRequest(stage) \/ RunResponse(stage, streamed) \/ StartTool(stage, streamed)
    PROVE  /\ Ordered(ran)' /\ Handed(executed)'
           /\ LiveToken' /\ RanMatchesState' /\ RuntimeOK'
  <1>a. /\ TypeOK /\ TokensOK /\ Ordered(ran) /\ Handed(executed) /\ RuntimeOK
        /\ ran \in Seq(stages) /\ executed \in Seq(Execution)
    BY DEF OrderInv, IInv, TypeOK
  <1>b. /\ pc = "idle" /\ stage.kind = state /\ stage.token = activeToken
        /\ state \in {"request", "response", "tool"}
        /\ stage.kind = "tool" => stage.carries.index = toolIndex
        /\ ran' = Append(ran, stage)
        /\ pc' \in {"turn", "tool", "cleanup", "idle"}
    BY DEF RunRequest, RunResponse, StartTool, RequireStage, Throw
  <1>c. /\ stage.token \in Nat
        /\ ran = <<>> => stage.kind = "request"
        /\ ran # <<>> => LastRan.token < stage.token /\ Follows(LastRan, stage)
    BY <1>b, AcceptedFollows
  <1>d. Ordered(ran') /\ ran' # <<>> /\ LastRan' = stage
    BY <1>a, <1>b, <1>c, OrderedAppend DEF LastRan
  <1>e. \A i \in DOMAIN executed : executed[i].token \in Nat
    <2>1. \A i \in DOMAIN executed : executed[i] \in Execution
      BY <1>a
    <2>2. \A y \in Execution : y.token \in Nat
      BY DEF Execution
    <2> QED  BY <2>1, <2>2
  <1>f. executed # <<>> => executed[Len(executed)].token < stage.token
    <2> SUFFICES ASSUME executed # <<>> PROVE executed[Len(executed)].token < stage.token
      OBVIOUS
    <2>1. Len(ran) \in 1 .. Len(ran) /\ ran # <<>>
      BY <1>a DEF RuntimeOK
    <2>2. LastRan \in stages
      BY <1>a, <2>1 DEF LastRan
    <2>3. LastRan.token \in Nat
      BY <1>a, <2>2 DEF TokensOK
    <2>4. Len(executed) \in DOMAIN executed
      BY <1>a
    <2> QED  BY <1>a, <1>c, <1>e, <2>1, <2>3, <2>4 DEF RuntimeOK
  <1>1. CASE RunRequest(stage)
    <2>1. pc' = "turn" /\ UNCHANGED <<executed, refreshPending>> /\ stage.kind = "request"
      BY <1>1, <1>b DEF RunRequest, RequireStage
    <2>2. LiveToken' /\ RanMatchesState'
      BY <1>d, <2>1 DEF LiveToken, RanMatchesState
    <2>3. RuntimeOK'
      BY <1>a, <1>c, <1>d, <1>e, <1>f, <2>1 DEF RuntimeOK
    <2> QED  BY <1>a, <1>d, <2>1, <2>2, <2>3
  <1>2. CASE RunResponse(stage, streamed)
    <2>1. /\ UNCHANGED <<executed, refreshPending>> /\ stage.kind = "response"
          /\ stage.carries \in BOOLEAN
          /\ \/ /\ pc' = "idle" /\ activeToken' = 0
                /\ \/ state' = "tool" /\ toolIndex' = 0 /\ stage.carries
                   \/ state' = "finished"
             \/ pc' = "cleanup"
      BY <1>2, <1>a, <1>b DEF RunResponse, RequireStage, CommitStage, Throw, TypeOK, StageOK
    <2>2. LiveToken' /\ RanMatchesState'
      BY <1>d, <2>1 DEF LiveToken, RanMatchesState
    <2>3. RuntimeOK'
      BY <1>a, <1>c, <1>d, <1>e, <1>f, <2>1 DEF RuntimeOK
    <2> QED  BY <1>a, <1>d, <2>1, <2>2, <2>3
  <1>3. CASE StartTool(stage, streamed)
    <2> DEFINE x == [token |-> stage.token, refresh |-> refreshPending]
    <2>1. /\ pc' \in {"tool", "cleanup"} /\ stage.kind = "tool" /\ toolIndex' = toolIndex
          /\ stage.carries.index = toolIndex
      BY <1>3, <1>b DEF StartTool, RequireStage, Throw
    <2>2. LiveToken' /\ RanMatchesState'
      BY <1>d, <2>1 DEF LiveToken, RanMatchesState
    <2>3. \/ UNCHANGED <<refreshPending, executed>>
          \/ executed' = Append(executed, x) /\ refreshPending' = FALSE
      <3>1. HandToRuntime(stage) \/ UNCHANGED <<refreshPending, executed>>
        BY <1>3 DEF StartTool
      <3> QED  BY <3>1, Zenon DEF HandToRuntime
    <2>4. CASE UNCHANGED <<refreshPending, executed>>
      <3>1. RuntimeOK'
        BY <1>a, <1>c, <1>d, <1>e, <1>f, <2>4 DEF RuntimeOK
      <3> QED  BY <1>a, <1>d, <2>2, <2>4, <3>1
    <2>5. CASE executed' = Append(executed, x) /\ refreshPending' = FALSE
      <3>1. x \in Execution /\ x.token = stage.token
        BY <1>a, <1>c DEF Execution, TypeOK
      <3>2. x.refresh = (RefreshWorkspace /\ executed = <<>>)
        BY <1>a, Zenon DEF RuntimeOK
      <3> HIDE DEF x
      <3>3. /\ Handed(executed') /\ executed' # <<>>
            /\ executed'[Len(executed')] = x
        BY <1>a, <1>f, <2>5, <3>1, <3>2, HandedAppend
      <3>4. executed'[Len(executed')].token <= LastRan'.token
        BY <1>c, <1>d, <3>1, <3>3
      <3>5. refreshPending' = (RefreshWorkspace /\ executed' = <<>>)
        BY <2>5, <3>3, Zenon
      <3>6. RuntimeOK'
        BY <1>d, <3>3, <3>4, <3>5, Zenon DEF RuntimeOK
      <3> QED  BY <1>d, <2>2, <3>3, <3>6
    <2> QED  BY <2>3, <2>4, <2>5
  <1> QED  BY <1>1, <1>2, <1>3

LEMMA RestStepOrder ==
    ASSUME OrderInv, Rests, Quiet \/ DeclaresTrue \/ Resumes
    PROVE  /\ Ordered(ran)' /\ Handed(executed)'
           /\ LiveToken' /\ RanMatchesState' /\ RuntimeOK'
  <1>a. /\ TypeOK /\ TokensOK /\ PlaceOK
        /\ Ordered(ran) /\ Handed(executed)
        /\ LiveToken /\ RanMatchesState /\ RuntimeOK
        /\ ran \in Seq(stages) /\ nextToken \in Nat
    BY SessionAssumption DEF OrderInv, IInv, TypeOK
  <1>b. /\ ran' = ran /\ executed' = executed /\ refreshPending' = refreshPending
        /\ LastRan' = LastRan
        /\ Ordered(ran') /\ Handed(executed') /\ RuntimeOK'
    BY <1>a DEF Rests, RuntimeOK, LastRan
  <1>1. CASE Quiet
    <2>1. /\ UNCHANGED <<state, activeToken, toolIndex>>
          /\ pc' \in {"idle", "closing"} => pc \in {"idle", "closing", "registering"}
      BY <1>1 DEF Quiet
    <2>2. LiveToken'
      BY <1>a, <1>b, <2>1 DEF LiveToken, RanMatchesState
    <2>3. RanMatchesState'
      BY <1>a, <1>b, <2>1 DEF RanMatchesState, Rests, PlaceOK
    <2> QED  BY <1>b, <2>2, <2>3
  <1>2. ASSUME NEW stage, Declares(stage) PROVE LiveToken' /\ RanMatchesState'
    <2>1. /\ pc = "idle" /\ UNCHANGED <<pc, state, toolIndex>> /\ activeToken' = nextToken
      BY <1>2 DEF Declares, DeclareStage
    <2>2. ran # <<>> => LastRan.token < nextToken
      <3>1. ran # <<>> => LastRan \in stages
        BY <1>a DEF LastRan
      <3> QED  BY <1>a, <3>1 DEF TokensOK
    <2>3. LiveToken'
      BY <1>b, <2>1, <2>2 DEF LiveToken
    <2>4. RanMatchesState'
      BY <1>a, <1>b, <2>1 DEF RanMatchesState
    <2> QED  BY <2>3, <2>4
  <1>3. CASE Resumes
    <2>1. activeToken' = 0
      BY <1>3 DEF Resumes, TurnReturns, ToolReturns, FailSession, CloseReturns, CommitStage
    <2>2. LiveToken'
      BY <2>1 DEF LiveToken
    <2>3. RanMatchesState'
      <3>1. ASSUME NEW reply, NEW usage, TurnReturns(reply, usage) PROVE RanMatchesState'
        BY <3>1, <1>a, <1>b DEF TurnReturns, CommitStage, RanMatchesState
      <3>2. CASE ToolReturns
        <4>1. /\ pc = "tool" /\ pc' = "idle" /\ state' \in {"tool", "request"}
              /\ toolIndex' = toolIndex + 1
          BY <3>2 DEF ToolReturns, CommitStage
        <4> QED  BY <4>1, <1>a, <1>b DEF RanMatchesState
      <3>3. CASE FailSession
        BY <3>3, <1>b DEF FailSession, CommitStage, RanMatchesState
      <3>4. CASE CloseReturns
        BY <3>4, <1>b DEF CloseReturns, CommitStage, RanMatchesState
      <3> QED  BY <1>3, <3>1, <3>2, <3>3, <3>4 DEF Resumes
    <2> QED  BY <1>b, <2>2, <2>3
  <1> QED  BY <1>b, <1>1, <1>2, <1>3 DEF DeclaresTrue

LEMMA OrderInvariant == Spec => []OrderInv
  <1> DEFINE Rest == Ordered(ran) /\ Handed(executed) /\ LiveToken
                     /\ RanMatchesState /\ RuntimeOK
  <1>1. Init => Rest
    <2> SUFFICES ASSUME Init PROVE Rest
      OBVIOUS
    <2>1. ran = <<>> /\ executed = <<>> /\ pc = "unregistered"
      BY DEF Init
    <2>2. refreshPending = RefreshWorkspace
      BY DEF Init
    <2>3. Ordered(ran) /\ Handed(executed)
      BY <2>1 DEF Ordered, Handed
    <2>4. LiveToken /\ RanMatchesState
      BY <2>1 DEF LiveToken, RanMatchesState
    <2>5. refreshPending = (RefreshWorkspace /\ executed = <<>>)
      BY <2>1, <2>2, SessionAssumption
    <2>6. RuntimeOK
      BY <2>1, <2>5 DEF RuntimeOK
    <2> QED  BY <2>3, <2>4, <2>6
  <1>2. IInv /\ Rest /\ [Next]_vars => Rest'
    <2> SUFFICES ASSUME OrderInv, [Next]_vars PROVE Rest'
      BY DEF OrderInv
    <2>1. Run \/ (Rests /\ (Quiet \/ DeclaresTrue \/ Resumes))
      BY OrderKinds DEF OrderInv
    <2>2. CASE Run
      <3>1. PICK stage \in stages :
               \/ RunRequest(stage)
               \/ \E streamed \in BOOLEAN :
                     RunResponse(stage, streamed) \/ StartTool(stage, streamed)
        BY <2>2 DEF Run
      <3>2. \E streamed \in BOOLEAN :
               \/ RunRequest(stage)
               \/ RunResponse(stage, streamed) \/ StartTool(stage, streamed)
        BY <3>1
      <3> QED  BY <3>2, RunStepOrder
    <2> QED  BY <2>1, <2>2, RestStepOrder
  <1>3. IInv /\ Rest => OrderInv
    BY DEF OrderInv
  <1> QED  BY <1>1, <1>2, <1>3, Invariant, PTL DEF Spec

(* However the client repeats declarations and keeps old stage objects, no *)
(* stage runs twice, those that run follow the protocol, each tool call    *)
(* once and in order, and the workspace is refreshed for the first call    *)
(* that reaches the runtime only.                                          *)
THEOREM RunInOrder == Spec => []StagesRunInOrder
  <1>1. OrderInv => StagesRunInOrder
    BY DEF OrderInv, Ordered, Handed, StagesRunInOrder
  <1> QED  BY <1>1, OrderInvariant, PTL

-----------------------------------------------------------------------------
(* The conversation.                                                       *)

(* What a position of a history owes, on its own.                          *)
Answered(h, i) ==
    h[i].role = "assistant" =>
       \A k \in DOMAIN h[i].calls :
          i + k \in DOMAIN h /\ h[i + k] = Result(h[i].calls[k].id)

Asked(h, i) ==
    h[i].role = "tool" =>
       \E j \in 1 .. i - 1 :
          /\ \A m \in j + 1 .. i : h[m].role = "tool"
          /\ \/ h[j].role = "summary"
             \/ h[j].role = "assistant" /\ i - j \in DOMAIN h[j].calls

(* The messages of the next request are the prompt, or the results of the  *)
(* last tool calls: never a mixture, so a summary may stand before them.   *)
OneRole(c) ==
    \/ \A i \in DOMAIN c : c[i].role = "user"
    \/ \A i \in DOMAIN c : c[i].role = "tool"

Front(h) == SubSeq(h, 1, Len(h) - 1)

(* While tools run only the last message is still to be answered.          *)
TalkInv ==
    /\ IInv
    /\ OneRole(current)
    /\ state = "tool" => Paired(Front(history))
    /\ ConversationPaired

LEMMA PairedByPosition ==
    ASSUME NEW h PROVE Paired(h) <=> \A i \in DOMAIN h : Answered(h, i) /\ Asked(h, i)
  BY DEF Paired, Answered, Asked

LEMMA MessageRoles ==
    /\ \A m \in ToolResult : m.role = "tool"
    /\ \A id : Result(id).role = "tool"
    /\ User.role = "user" /\ Summary.role = "summary"
  BY DEF ToolResult, Result, User, Summary

LEMMA UsersPaired ==
    ASSUME NEW h, \A i \in DOMAIN h : h[i].role = "user" PROVE Paired(h)
  BY DEF Paired

LEMMA ConcatFacts ==
    ASSUME NEW S, NEW f \in Seq(S), NEW g \in Seq(S), NEW t, t = f \o g
    PROVE  /\ t \in Seq(S)
           /\ DOMAIN t = 1 .. Len(f) + Len(g)
           /\ \A i \in 1 .. Len(f) : t[i] = f[i]
           /\ \A i \in 1 .. Len(g) : t[Len(f) + i] = g[i]
           /\ DOMAIN f = 1 .. Len(f) /\ DOMAIN g = 1 .. Len(g)
           /\ Len(f) \in Nat /\ Len(g) \in Nat
  OBVIOUS

LEMMA UsersConcat ==
    ASSUME NEW f \in Seq({User}), NEW g \in Seq({User})
    PROVE  Paired(f \o g) /\ OneRole(g)
  <1>1. \A i \in DOMAIN (f \o g) : (f \o g)[i] = User
    OBVIOUS
  <1>2. \A i \in DOMAIN g : g[i] = User
    OBVIOUS
  <1>3. Paired(f \o g)
    BY <1>1, MessageRoles, UsersPaired
  <1> QED  BY <1>2, <1>3, MessageRoles DEF OneRole

LEMMA SummaryPaired ==
    ASSUME NEW c \in Seq(Message), OneRole(c) PROVE Paired(<<Summary>> \o c)
  <1> DEFINE h == <<Summary>> \o c
  <1>1. /\ Len(<<Summary>>) = 1 /\ <<Summary>> \in Seq(Message) /\ <<Summary>>[1] = Summary
    BY MessageTypes
  <1>2. /\ DOMAIN h = 1 .. 1 + Len(c) /\ DOMAIN c = 1 .. Len(c) /\ Len(c) \in Nat
        /\ h[1] = Summary
        /\ \A i \in 1 .. Len(c) : h[1 + i] = c[i]
    BY <1>1, ConcatFacts
  <1> HIDE DEF h
  <1>3. \A i \in 2 .. 1 + Len(c) : h[i] = c[i - 1] /\ i - 1 \in DOMAIN c
    <2> TAKE i \in 2 .. 1 + Len(c)
    <2>1. i - 1 \in 1 .. Len(c) /\ 1 + (i - 1) = i
      BY <1>2
    <2> QED  BY <1>2, <2>1
  <1>4. ASSUME NEW i \in DOMAIN h PROVE Answered(h, i) /\ Asked(h, i)
    <2>1. CASE i = 1
      BY <1>2, <2>1, MessageRoles DEF Answered, Asked
    <2>2. CASE i # 1
      <3>1. i \in 2 .. 1 + Len(c)
        BY <1>2, <2>2
      <3>2. CASE \A k \in DOMAIN c : c[k].role = "user"
        BY <1>3, <3>1, <3>2 DEF Answered, Asked
      <3>3. CASE \A k \in DOMAIN c : c[k].role = "tool"
        <4>1. \A m \in 2 .. i : h[m].role = "tool"
          <5> TAKE m \in 2 .. i
          <5>1. m \in 2 .. 1 + Len(c)
            BY <1>2, <3>1
          <5> QED  BY <1>3, <3>3, <5>1
        <4>2. 1 \in 1 .. i - 1 /\ h[1].role = "summary" /\ h[i].role = "tool"
          BY <1>2, <3>1, <4>1, MessageRoles
        <4> QED  BY <4>1, <4>2 DEF Answered, Asked
      <3> QED  BY <3>2, <3>3 DEF OneRole
    <2> QED  BY <2>1, <2>2
  <1> QED  BY <1>4, PairedByPosition DEF h

(* An assistant message and the results of its calls, one for one and in   *)
(* their order, extend a paired history.                                   *)
LEMMA AnswerPaired ==
    ASSUME NEW h \in Seq(Message), Paired(h), NEW calls \in Seq(Call),
           NEW done \in Seq(ToolResult), Len(done) = Len(calls),
           \A i \in 1 .. Len(calls) : done[i] = Result(calls[i].id)
    PROVE  Paired(Append(h, Assistant(calls)) \o done)
  <1> DEFINE n == Len(h)
             g == Append(h, Assistant(calls))
             t == g \o done
  <1>1. /\ n \in Nat /\ DOMAIN h = 1 .. n /\ Len(calls) \in Nat
        /\ DOMAIN calls = 1 .. Len(calls)
    OBVIOUS
  <1>2. /\ g \in Seq(Message) /\ Len(g) = n + 1
        /\ \A i \in 1 .. n : g[i] = h[i]
        /\ g[n + 1] = Assistant(calls)
    BY MessageTypes
  <1>3. done \in Seq(Message)
    BY ResultsAreMessages
  <1> HIDE DEF n, g
  <1>4. /\ DOMAIN t = 1 .. n + 1 + Len(calls)
        /\ \A i \in 1 .. n + 1 : t[i] = g[i]
        /\ \A i \in 1 .. Len(calls) : t[n + 1 + i] = done[i]
    <2>1. t = g \o done
      OBVIOUS
    <2> HIDE DEF t
    <2>2. /\ DOMAIN t = 1 .. Len(g) + Len(done)
          /\ \A i \in 1 .. Len(g) : t[i] = g[i]
          /\ \A i \in 1 .. Len(done) : t[Len(g) + i] = done[i]
      <3>1. g \in Seq(Message)
        BY <1>2
      <3>2. PICK u : u = done
        OBVIOUS
      <3>3. u \in Seq(Message) /\ t = g \o u
        BY <1>3, <2>1, <3>2
      <3>4. /\ DOMAIN t = 1 .. Len(g) + Len(u)
            /\ \A i \in 1 .. Len(g) : t[i] = g[i]
            /\ \A i \in 1 .. Len(u) : t[Len(g) + i] = u[i]
        BY <3>1, <3>3, ConcatFacts
      <3> QED  BY <3>2, <3>4
    <2> QED  BY <1>2, <2>2
  <1> HIDE DEF t
  <1>5. /\ \A i \in 1 .. n : t[i] = h[i]
        /\ t[n + 1] = Assistant(calls)
        /\ \A k \in 1 .. Len(calls) : t[n + 1 + k] = Result(calls[k].id)
    BY <1>1, <1>2, <1>4
  <1>6. ASSUME NEW i \in 1 .. n PROVE Answered(t, i) /\ Asked(t, i)
    <2>1. i \in DOMAIN h /\ t[i] = h[i] /\ Answered(h, i) /\ Asked(h, i)
      BY <1>1, <1>5, PairedByPosition
    <2>2. Answered(t, i)
      <3> SUFFICES ASSUME h[i].role = "assistant", NEW k \in DOMAIN h[i].calls
                   PROVE  i + k \in DOMAIN t /\ t[i + k] = Result(h[i].calls[k].id)
        BY <2>1 DEF Answered
      <3>1. i + k \in DOMAIN h /\ h[i + k] = Result(h[i].calls[k].id)
        BY <2>1 DEF Answered
      <3>2. i + k \in 1 .. n
        BY <1>1, <3>1
      <3> QED  BY <1>1, <1>4, <1>5, <3>1, <3>2
    <2>3. Asked(t, i)
      <3> SUFFICES ASSUME h[i].role = "tool"
                   PROVE  \E j \in 1 .. i - 1 :
                             /\ \A m \in j + 1 .. i : t[m].role = "tool"
                             /\ \/ t[j].role = "summary"
                                \/ t[j].role = "assistant" /\ i - j \in DOMAIN t[j].calls
        BY <2>1 DEF Asked
      <3>1. PICK j \in 1 .. i - 1 :
               /\ \A m \in j + 1 .. i : h[m].role = "tool"
               /\ \/ h[j].role = "summary"
                  \/ h[j].role = "assistant" /\ i - j \in DOMAIN h[j].calls
        BY <2>1 DEF Asked
      <3>2. j \in 1 .. n /\ \A m \in j + 1 .. i : m \in 1 .. n
        BY <1>1
      <3>3. t[j] = h[j] /\ \A m \in j + 1 .. i : t[m] = h[m]
        BY <1>5, <3>2
      <3> QED  BY <3>1, <3>3
    <2> QED  BY <2>2, <2>3
  <1>7. Answered(t, n + 1) /\ Asked(t, n + 1)
    <2>1. t[n + 1].role = "assistant" /\ t[n + 1].calls = calls
      BY <1>5, AssistantFields
    <2>2. \A k \in DOMAIN calls : n + 1 + k \in DOMAIN t
      BY <1>1, <1>4
    <2> QED  BY <1>1, <1>5, <2>1, <2>2 DEF Answered, Asked
  <1>8. ASSUME NEW i \in n + 2 .. n + 1 + Len(calls) PROVE Answered(t, i) /\ Asked(t, i)
    <2>1. \A m \in n + 2 .. i : t[m].role = "tool"
      <3> TAKE m \in n + 2 .. i
      <3>1. m - (n + 1) \in 1 .. Len(calls) /\ n + 1 + (m - (n + 1)) = m
        BY <1>1
      <3>2. t[m] = Result(calls[m - (n + 1)].id)
        BY <1>5, <3>1
      <3> QED  BY <3>2, MessageRoles
    <2>2. t[n + 1].role = "assistant" /\ i - (n + 1) \in DOMAIN t[n + 1].calls
      BY <1>1, <1>5, AssistantFields
    <2>3. n + 1 \in 1 .. i - 1 /\ i \in n + 2 .. i /\ (n + 1) + 1 = n + 2
      BY <1>1
    <2>4. t[i].role = "tool"
      BY <2>1, <2>3
    <2>5. Answered(t, i)
      BY <2>4 DEF Answered
    <2>6. Asked(t, i)
      BY <2>1, <2>2, <2>3 DEF Asked
    <2> QED  BY <2>5, <2>6
  <1>9. \A i \in DOMAIN t : i \in 1 .. n \/ i = n + 1 \/ i \in n + 2 .. n + 1 + Len(calls)
    BY <1>1, <1>4
  <1> QED  BY <1>6, <1>7, <1>8, <1>9, PairedByPosition DEF t, g

LEMMA NoCallsPaired ==
    ASSUME NEW h \in Seq(Message), Paired(h), NEW calls \in Seq(Call), calls = <<>>
    PROVE  Paired(Append(h, Assistant(calls)))
  <1>1. PICK done : done = <<>>
    OBVIOUS
  <1>2. done \in Seq(ToolResult) /\ Len(done) = 0 /\ Len(calls) = 0
    BY <1>1
  <1>3. \A i \in 1 .. Len(calls) : done[i] = Result(calls[i].id)
    BY <1>2
  <1>4. Paired(Append(h, Assistant(calls)) \o done)
    BY <1>2, <1>3, AnswerPaired
  <1>5. ASSUME NEW g \in Seq(Message) PROVE g \o done = g
    BY <1>1, ConcatEmptySeq
  <1>6. Append(h, Assistant(calls)) \in Seq(Message)
    <2>1. Assistant(calls) \in Message
      BY MessageTypes
    <2> QED  BY <2>1
  <1>7. Append(h, Assistant(calls)) \o done = Append(h, Assistant(calls))
    BY <1>5, <1>6, Zenon
  <1> QED  BY <1>4, <1>7, Zenon

LEMMA FrontAppend ==
    ASSUME NEW S, NEW h \in Seq(S), NEW m \in S PROVE Front(Append(h, m)) = h
  <1> DEFINE g == Append(h, m)
             f == SubSeq(g, 1, Len(h))
  <1>1. Len(h) \in Nat /\ Len(g) = Len(h) + 1 /\ \A i \in 1 .. Len(h) : g[i] = h[i] /\ g[i] \in S
    OBVIOUS
  <1>2. Front(g) = f
    BY <1>1 DEF Front
  <1> HIDE DEF g
  <1>3. /\ f \in Seq(S) /\ Len(f) = Len(h)
        /\ \A i \in 1 .. Len(h) : f[i] = h[i]
    BY <1>1, SubSeqProperties, 1 \in Int, Len(h) \in Int
  <1> HIDE DEF f
  <1>4. f = h
    BY <1>3, SeqEqual
  <1> QED  BY <1>2, <1>4 DEF g

(* Writing the last message anew is dropping it and appending the new one. *)
LEMMA FrontExcept ==
    ASSUME NEW S, NEW h \in Seq(S), h # <<>>, NEW m \in S
    PROVE  /\ Front(h) \in Seq(S)
           /\ [h EXCEPT ![Len(h)] = m] = Append(Front(h), m)
  <1> DEFINE n == Len(h) - 1
             f == SubSeq(h, 1, n)
             g == [h EXCEPT ![Len(h)] = m]
             a == Append(f, m)
  <1>1. /\ n \in Nat /\ Len(h) = n + 1 /\ Len(h) \in 1 .. Len(h)
        /\ \A i \in 1 .. n : h[i] \in S
    OBVIOUS
  <1>2. f \in Seq(S) /\ Len(f) = n /\ \A i \in 1 .. n : f[i] = h[i]
    <2> HIDE DEF n
    <2> QED  BY <1>1, SubSeqProperties, 1 \in Int, n \in Int
  <1>3. /\ g \in Seq(S) /\ Len(g) = n + 1
        /\ \A i \in 1 .. n : g[i] = h[i]
        /\ g[n + 1] = m
    <2>1. /\ g \in Seq(S) /\ Len(g) = Len(h)
          /\ \A j \in 1 .. Len(h) : g[j] = IF j = Len(h) THEN m ELSE h[j]
      BY <1>1, ExceptSeq
    <2> HIDE DEF g, n
    <2> QED  BY <1>1, <2>1
  <1>4. Front(h) = f
    BY DEF Front
  <1> HIDE DEF f, n, g
  <1>5. /\ a \in Seq(S) /\ Len(a) = n + 1
        /\ \A i \in 1 .. n : a[i] = h[i]
        /\ a[n + 1] = m
    BY <1>1, <1>2
  <1> HIDE DEF a
  <1>6. g = a
    <2>1. \A i \in 1 .. Len(g) : g[i] = a[i]
      BY <1>1, <1>3, <1>5
    <2> QED  BY <1>3, <1>5, <2>1, SeqEqual
  <1> QED  BY <1>2, <1>4, <1>6 DEF g, a

LEMMA TalkStep ==
    ASSUME TalkInv, [Next]_vars
    PROVE  /\ OneRole(current)'
           /\ (state = "tool" => Paired(Front(history)))'
           /\ ConversationPaired'
  <1> DEFINE Goal == /\ OneRole(current)'
                     /\ (state = "tool" => Paired(Front(history)))'
                     /\ ConversationPaired'
  <1>a. /\ IInv /\ TypeOK /\ PlaceOK /\ ToolsOK
        /\ OneRole(current) /\ ConversationPaired
        /\ history \in Seq(Message) /\ current \in Seq(Message)
        /\ state = "tool" => Paired(Front(history))
    BY DEF TalkInv, IInv, TypeOK
  <1>1. ASSUME UNCHANGED <<state, history, current, pendingTurn>> PROVE Goal
    BY <1>a, <1>1 DEF ConversationPaired
  <1>2. ASSUME NEW stage \in stages, NEW streamed, RunResponse(stage, streamed)
        PROVE  Goal
    <2>1. /\ state = "response" /\ pc = "idle" /\ pendingTurn \in Turn
          /\ stage.kind = "response" /\ stage.token = activeToken
          /\ current' = current /\ pendingTurn' = None
          /\ history' = Append(pendingTurn.messages, Assistant(pendingTurn.calls))
          /\ state' \in {"response", "tool", "finished"}
          /\ state' = "finished" => ~stage.carries
      BY <1>a, <1>2 DEF RunResponse, RequireStage, CommitStage, TypeOK
    <2>2. /\ pendingTurn.messages \in Seq(Message) /\ pendingTurn.calls \in Seq(Call)
          /\ Paired(pendingTurn.messages)
      <3>1. pendingTurn # None
        BY <2>1, SessionAssumption
      <3> QED  BY <1>a, <2>1, <3>1 DEF Turn, ConversationPaired
    <2>3. Front(history') = pendingTurn.messages
      <3>1. Assistant(pendingTurn.calls) \in Message
        BY <2>2, MessageTypes
      <3> QED  BY <2>1, <2>2, <3>1, FrontAppend
    <2>4. ASSUME state' = "finished" PROVE Paired(history')
      <3>1. stage.carries = (pendingTurn.calls # <<>>)
        BY <1>a, <2>1, Zenon DEF IInv, ActiveIsCurrent
      <3>2. pendingTurn.calls = <<>>
        BY <2>1, <2>4, <3>1
      <3> QED  BY <2>1, <2>2, <3>2, NoCallsPaired
    <2> QED  BY <1>a, <2>1, <2>2, <2>3, <2>4 DEF ConversationPaired
  <1>3. ASSUME NEW stage, NEW streamed, StartTool(stage, streamed) PROVE Goal
    BY <1>1, <1>3 DEF StartTool
  <1>4. ASSUME NEW reply \in Replies, NEW usage, TurnReturns(reply, usage) PROVE Goal
    <2>1. /\ state = "request" /\ state' = "response"
          /\ history' = history /\ current' = current
          /\ pendingTurn'.messages = RequestMessages(running.carries)
      BY <1>a, <1>4 DEF TurnReturns, CommitStage, PlaceOK
    <2>2. Paired(history \o current) /\ Paired(<<Summary>> \o current)
      BY <1>a, <2>1, SummaryPaired DEF ConversationPaired
    <2>3. Paired(RequestMessages(running.carries))
      BY <2>2 DEF RequestMessages
    <2> QED  BY <1>a, <2>1, <2>3 DEF ConversationPaired
  <1>5. CASE ToolReturns
    <2> DEFINE call  == running.carries.call
               calls == Append(canonical, call)
               done  == Append(results, Result(call.id))
    <2>1. /\ state = "tool" /\ pendingTurn' = pendingTurn
          /\ running \in stages /\ running.kind = "tool"
          /\ toolIndex \in Nat /\ history # <<>>
          /\ canonical \in Seq(CanonicalCall) /\ results \in Seq(ToolResult)
          /\ Len(canonical) = toolIndex /\ Len(results) = toolIndex
          /\ \A i \in 1 .. toolIndex : results[i] = Result(canonical[i].id)
      BY <1>a, <1>5 DEF ToolReturns, PlaceOK, TypeOK, ToolsOK, ToolStateHolds
    <2>2. CASE MoreCalls
      <3>1. state' = "tool" /\ history' = history /\ current' = current
        BY <1>5, <2>2 DEF ToolReturns, CommitStage
      <3> QED  BY <1>a, <2>1, <3>1 DEF ConversationPaired
    <2>3. CASE ~MoreCalls
      <3>1. /\ state' = "request" /\ current' = done
            /\ history' = [history EXCEPT ![Len(history)] = Assistant(calls)]
        BY <1>5, <2>3 DEF ToolReturns, CommitStage, Canonicalize
      <3>2. call \in CanonicalCall /\ Result(call.id) \in ToolResult
        <4>1. StageOK(running)
          BY <1>a, <2>1 DEF TypeOK
        <4>2. call \in CanonicalCall
          BY <2>1, <4>1 DEF StageOK
        <4>3. call.id \in CallIds
          BY <4>2 DEF CanonicalCall
        <4> QED  BY <4>2, <4>3, MessageTypes
      <3> HIDE DEF call
      <3>3. /\ Len(calls) = toolIndex + 1 /\ Len(done) = toolIndex + 1
            /\ calls \in Seq(CanonicalCall) /\ done \in Seq(ToolResult)
            /\ \A i \in 1 .. toolIndex : calls[i] = canonical[i] /\ done[i] = results[i]
            /\ calls[toolIndex + 1] = call /\ done[toolIndex + 1] = Result(call.id)
        BY <2>1, <3>2
      <3> HIDE DEF calls, done
      <3>4. \A i \in 1 .. Len(calls) : done[i] = Result(calls[i].id)
        <4> TAKE i \in 1 .. Len(calls)
        <4>1. i = toolIndex + 1 \/ i \in 1 .. toolIndex
          BY <2>1, <3>3
        <4> QED  BY <2>1, <3>3, <4>1
      <3>5. calls \in Seq(Call)
        BY <3>3, SeqSubset, CanonicalIsCall
      <3>6. Assistant(calls) \in Message
        BY <3>5, MessageTypes
      <3>7. /\ Front(history) \in Seq(Message)
            /\ history' = Append(Front(history), Assistant(calls))
        BY <1>a, <2>1, <3>1, <3>6, FrontExcept
      <3>8. Paired(history' \o current')
        BY <1>a, <2>1, <3>1, <3>3, <3>4, <3>5, <3>7, AnswerPaired
      <3>9. OneRole(current')
        <4>1. \A i \in DOMAIN done : done[i] \in ToolResult
          BY <3>3
        <4> QED  BY <3>1, <4>1, MessageRoles DEF OneRole
      <3> QED  BY <3>1, <3>8, <3>9 DEF ConversationPaired
    <2> QED  BY <2>2, <2>3
  <1>6. CASE FailSession \/ CloseReturns
    <2>1. state' = "closed" /\ UNCHANGED <<history, current, pendingTurn>>
      BY <1>6 DEF FailSession, CloseReturns, CommitStage
    <2> QED  BY <1>a, <2>1 DEF ConversationPaired
  <1>7. CASE Quiet
    BY <1>1, <1>7 DEF Quiet
  <1>8. ASSUME NEW stage, Declares(stage) PROVE Goal
    BY <1>1, <1>8 DEF Declares
  <1>9. Quiet \/ Moves \/ DeclaresTrue
    BY <1>a, StepKinds
  <1> QED  BY <1>2, <1>3, <1>4, <1>5, <1>6, <1>7, <1>8, <1>9 DEF Moves, DeclaresTrue

LEMMA TalkInvariant == Spec => []TalkInv
  <1> DEFINE Talk == /\ OneRole(current)
                     /\ state = "tool" => Paired(Front(history))
                     /\ ConversationPaired
  <1>1. Init => Talk
    <2>1. Paired(Initial \o Prompt) /\ OneRole(Prompt)
      BY UsersConcat, SessionAssumption
    <2> QED  BY <2>1 DEF Init, ConversationPaired
  <1>2. IInv /\ Talk /\ [Next]_vars => Talk'
    BY TalkStep DEF TalkInv
  <1>3. IInv /\ Talk => TalkInv
    BY DEF TalkInv
  <1> QED  BY <1>1, <1>2, <1>3, Invariant, PTL DEF Spec

(* What a request sends, what a turn brings back and what a finished       *)
(* session returns has a result for every call and a call, or the summary  *)
(* in its place, for every result, whatever the model replies.             *)
THEOREM EveryCallIsAnswered == Spec => []ConversationPaired
  <1>1. TalkInv => ConversationPaired
    BY DEF TalkInv
  <1> QED  BY <1>1, TalkInvariant, PTL

-----------------------------------------------------------------------------
(* What becomes of the history.                                            *)

(* The turn that waits for its response stage was asked with the history   *)
(* and the messages that the session still has, or with a summary in the   *)
(* place of the history.                                                   *)
AskedWith(messages) ==
    \/ messages = history \o current
    \/ history # <<>> /\ messages = <<Summary>> \o current

TurnIsCurrent ==
    state = "response" /\ pendingTurn # None => AskedWith(pendingTurn.messages)

(* The answer is filed behind what it answers.                             *)
Files(calls) == \E messages \in Seq(Message) :
                   /\ AskedWith(messages)
                   /\ history' = Append(messages, Assistant(calls))

(* Its calls get the ids they were handled with, as many as they were.     *)
Canonicalizes(calls) == /\ Canonicalize(calls)
                        /\ LastMessage.role = "assistant"
                        /\ Len(calls) = Len(LastMessage.calls)

(* The history of a session only ever grows by the messages of a request   *)
(* and their answer, apart from a compaction, which puts a summary in the  *)
(* place of what came before, and from the ids of the last answer's calls. *)
HistoryKept ==
    [][history' # history =>
          \E calls \in Seq(Call) : Files(calls) \/ Canonicalizes(calls)]_vars

LEMMA RequestIsAsked == ASSUME NEW compact PROVE AskedWith(RequestMessages(compact))
  BY DEF AskedWith, RequestMessages

LEMMA TurnStays ==
    ASSUME IInv, TurnIsCurrent, Quiet \/ Moves \/ DeclaresTrue PROVE TurnIsCurrent'
  <1>1. ASSUME UNCHANGED <<state, chatVars>> PROVE TurnIsCurrent'
    BY <1>1 DEF TurnIsCurrent, AskedWith
  <1>2. ASSUME NEW stage \in stages, NEW streamed, RunResponse(stage, streamed)
        PROVE  TurnIsCurrent'
    BY <1>2 DEF RunResponse, TurnIsCurrent
  <1>3. ASSUME NEW stage \in stages, NEW streamed, StartTool(stage, streamed)
        PROVE  TurnIsCurrent'
    BY <1>1, <1>3 DEF StartTool
  <1>4. ASSUME NEW reply \in Replies, NEW usage \in {"exact", "unavailable"},
               TurnReturns(reply, usage)
        PROVE  TurnIsCurrent'
    <2>1. /\ pendingTurn'.messages = RequestMessages(running.carries)
          /\ history' = history /\ current' = current
      BY <1>4 DEF TurnReturns
    <2>2. AskedWith(pendingTurn'.messages)
      BY <2>1, RequestIsAsked, Zenon
    <2> QED  BY <2>1, <2>2, Zenon DEF TurnIsCurrent, AskedWith
  <1>5. CASE ToolReturns
    <2>1. state' # "response"
      BY <1>5 DEF ToolReturns, CommitStage
    <2> QED  BY <2>1 DEF TurnIsCurrent
  <1>6. CASE FailSession \/ CloseReturns
    <2>1. state' = "closed"
      BY <1>6 DEF FailSession, CloseReturns, CommitStage
    <2> QED  BY <2>1 DEF TurnIsCurrent
  <1>7. CASE Quiet
    BY <1>1, <1>7 DEF Quiet
  <1>8. ASSUME NEW stage, Declares(stage) PROVE TurnIsCurrent'
    BY <1>1, <1>8 DEF Declares
  <1> QED  BY <1>2, <1>3, <1>4, <1>5, <1>6, <1>7, <1>8 DEF Moves, DeclaresTrue

LEMMA HistoryStep ==
    ASSUME IInv, TurnIsCurrent, Quiet \/ Moves \/ DeclaresTrue, history' # history
    PROVE  \E calls \in Seq(Call) : Files(calls) \/ Canonicalizes(calls)
  <1>a. TypeOK /\ PlaceOK /\ ToolsOK
    BY DEF IInv
  <1>1. ASSUME NEW stage \in stages, NEW streamed, RunResponse(stage, streamed)
        PROVE  \E calls \in Seq(Call) : Files(calls)
    <2>1. /\ state = "response" /\ pendingTurn # None
          /\ history' = Append(pendingTurn.messages, Assistant(pendingTurn.calls))
      BY <1>1 DEF RunResponse, RequireStage
    <2>2. pendingTurn.messages \in Seq(Message) /\ pendingTurn.calls \in Seq(Call)
      BY <1>a, <2>1 DEF TypeOK, Turn
    <2>3. AskedWith(pendingTurn.messages)
      BY <2>1 DEF TurnIsCurrent
    <2>4. Files(pendingTurn.calls)
      BY <2>1, <2>2, <2>3, Zenon DEF Files
    <2> QED  BY <2>2, <2>4, Zenon
  <1>2. ASSUME ToolReturns PROVE \E calls \in Seq(Call) : Canonicalizes(calls)
    <2> DEFINE calls == Append(canonical, running.carries.call)
    <2>1. /\ state = "tool" /\ running.carries.call \in CanonicalCall
          /\ canonical \in Seq(CanonicalCall) /\ toolIndex \in Nat
      BY <1>a, <1>2 DEF ToolReturns, PlaceOK, TypeOK, StageOK
    <2>2. ~MoreCalls /\ Canonicalize(calls)
      BY <1>2 DEF ToolReturns
    <2>3. calls \in Seq(CanonicalCall) /\ Len(calls) = Len(canonical) + 1
      BY <2>1
    <2>4. calls \in Seq(Call)
      BY <2>3, CanonicalIsCall, SeqSubset
    <2> HIDE DEF calls
    <2>5. /\ LastMessage.role = "assistant" /\ history # <<>>
          /\ toolIndex < Len(LastMessage.calls) /\ Len(canonical) = toolIndex
      BY <1>a, <2>1 DEF ToolsOK, ToolStateHolds
    <2>6. LastMessage.calls \in Seq(Call)
      BY <1>a, <2>5, LastMessageType
    <2>7. Len(calls) = Len(LastMessage.calls)
      BY <2>1, <2>2, <2>3, <2>5, <2>6 DEF MoreCalls
    <2> QED  BY <2>2, <2>4, <2>5, <2>7, Zenon DEF Canonicalizes
  <1>3. ASSUME NEW stage \in stages, NEW streamed, StartTool(stage, streamed)
        PROVE  FALSE
    BY <1>3 DEF StartTool
  <1>4. ASSUME NEW reply \in Replies, NEW usage \in {"exact", "unavailable"},
               TurnReturns(reply, usage)
        PROVE  FALSE
    BY <1>4 DEF TurnReturns
  <1>5. ASSUME FailSession \/ CloseReturns PROVE FALSE
    BY <1>5 DEF FailSession, CloseReturns
  <1>6. ASSUME Quiet PROVE FALSE
    BY <1>6 DEF Quiet
  <1>7. ASSUME NEW stage, Declares(stage) PROVE FALSE
    BY <1>7 DEF Declares
  <1> QED  BY <1>1, <1>2, <1>3, <1>4, <1>5, <1>6, <1>7 DEF Moves, DeclaresTrue

(* An answer is filed with the conversation it was asked with, whatever    *)
(* the client declares, closes or tries again between the two, and nothing *)
(* else but the ids of its calls ever changes the history of a session.    *)
THEOREM HistoryOnlyGrows == Spec => HistoryKept
  <1>1. Init => TurnIsCurrent
    BY DEF Init, TurnIsCurrent
  <1>2. IInv /\ TurnIsCurrent /\ [Next]_vars => TurnIsCurrent'
    BY StepKinds, TurnStays
  <1>3. IInv /\ TurnIsCurrent /\ [Next]_vars =>
           [history' # history =>
              \E calls \in Seq(Call) : Files(calls) \/ Canonicalizes(calls)]_vars
    BY StepKinds, HistoryStep, Zenon
  <1> QED  BY <1>1, <1>2, <1>3, Invariant, PTL DEF Spec, HistoryKept

=============================================================================
