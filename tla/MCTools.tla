------------------------------- MODULE MCTools -------------------------------
(* Four parts around a tool call side by side: a behaviour is one of the tool *)
(* runtime, of the credentials, of the histories that are converted, or of    *)
(* the matcher of edit_file.                                                  *)
(*                                                                            *)
(* Two callers share a workspace and one file of it, and a second workspace;  *)
(* a batch of edits has a second file.                                        *)
(* The values of the credential are a short and a long one.  One session of   *)
(* the history may be sent all kinds of events and the other only text, and   *)
(* the patterns of the matcher overlap themselves in every way.               *)
EXTENDS ToolRuntime, Secrets, ConvertHistory, ChunkMatcher

CONSTANTS w, x, doc, memo,  \* workspaces and files
          shorter, longer,
          s, t

Tool(tool, workspace, targets, shape) ==
    [tool |-> tool, workspace |-> workspace, targets |-> targets, shape |-> shape]

MCToolCalls ==
    {Tool("read", w, {doc}, "good"), Tool("write", w, {doc}, "good"),
     Tool("write", x, {doc}, "good"), Tool("edit_file", w, {doc, memo}, "good"),
     Tool("edit_file", w, {doc}, "bad_item"), Tool("glob", w, {}, "good"),
     Tool("none", w, {}, "unsupported")}

MCSize == [value \in {shorter, longer} |-> IF value = shorter THEN 1 ELSE 2]

SecretCall(op, value) == [op |-> op, value |-> value]

MCSecretCalls == {SecretCall("get", Absent), SecretCall("set", shorter),
                  SecretCall("set", longer), SecretCall("erase", Absent)}

Event(kind, id, content, call, finish) ==
    [provider |-> "openai", kind |-> kind, id |-> id, content |-> content,
     reasoning |-> content, call |-> call, finish |-> finish]

NoEvent(kind) == Event(kind, Nothing, Nothing, NoCall, FALSE)

Called(id, name, arguments) ==
    [index |-> 0, id |-> id, name |-> name, arguments |-> arguments]

MCStreams ==
    [session \in ChatSessions |->
        {Event("delta", "r1", "one", NoCall, FALSE)} \cup
        IF session = t THEN {}
        ELSE {[Event("delta", "r1", "two", NoCall, TRUE) EXCEPT !.provider = "bonsai"],
              Event("delta", "r2", "two", NoCall, FALSE),
              Event("delta", "r1", Nothing, NoCall, TRUE),
              Event("delta", Nothing, Nothing, NoCall, TRUE),
              Event("delta", "r1", Nothing, Called("c", "n", Nothing), FALSE),
              Event("delta", "r1", Nothing, Called(Nothing, Nothing, "part"), FALSE),
              Event("delta", "r1", Nothing, Called("c", "n", "object"), FALSE),
              [Event("delta", "r1", Empty, NoCall, FALSE) EXCEPT !.provider = "bonsai"],
              Event("delta", "r1", Null, Called(Empty, Empty, Null), FALSE),
              Event("delta", Null, "two", NoCall, FALSE),
              NoEvent("skipped"), NoEvent("no_object"), NoEvent("wrong"),
              NoEvent("empty")}]

MCPatterns == {<<>>, <<"a">>, <<"a", "a">>, <<"a", "b", "a">>, <<"a", "a", "b", "a", "a">>}

MCChunks == UNION {[1 .. n -> {"a", "b"}] : n \in 0 .. 3}

VARIABLE part

toolsVars == <<part, toolVars, secretVars, historyVars, matcherVars>>

ToolsInit ==
    /\ part \in {"runtime", "secrets", "history", "matcher"}
    /\ ToolInit /\ SecretsInit /\ HistoryInit /\ MatcherInit
    /\ part # "runtime" => existing = {}
    /\ part # "secrets" => system = "linux"
    /\ part # "matcher" => pattern = <<>>

ToolsNext ==
    /\ \/ part = "runtime" /\ ToolNext /\ UNCHANGED <<secretVars, historyVars, matcherVars>>
       \/ part = "secrets" /\ SecretsNext /\ UNCHANGED <<toolVars, historyVars, matcherVars>>
       \/ part = "history" /\ HistoryNext /\ UNCHANGED <<toolVars, secretVars, matcherVars>>
       \/ part = "matcher" /\ MatcherNext /\ UNCHANGED <<toolVars, secretVars, historyVars>>
    /\ UNCHANGED part

ToolsSpec == ToolsInit /\ [][ToolsNext]_toolsVars
=============================================================================
