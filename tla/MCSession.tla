------------------------------ MODULE MCSession ------------------------------
(* The assistant asks for nothing, for one call with an id, or for several *)
(* of which some lack an id, a definition or valid arguments.              *)
EXTENDS Session

CONSTANTS a, b

Raw(id, kind) == [id |-> id, kind |-> kind]

MCReplies == {<<>>,
              <<Raw(a, "valid")>>,
              <<Raw(NoId, "invalid"), Raw(NoId, "valid")>>,
              <<Raw(NoId, "valid"), Raw(a, "missing"), Raw(b, "valid")>>}

NoMessages == <<>>
OneMessage == <<User>>

(* The client either calls whatever it likes, or is the automatic loop.    *)
VARIABLE client

clientVars == <<vars, client>>

MCInit == Init /\ client \in {"free", "loop"}

MCNext ==
    /\ \/ client = "free" /\ Next
       \/ client = "loop" /\ LoopNext
    /\ UNCHANGED client

MCSpec ==
    /\ MCInit
    /\ [][MCNext]_clientVars
    /\ WF_clientVars(client = "loop" /\ LoopStep /\ UNCHANGED client)
    /\ WF_clientVars(client = "loop" /\ Timeout /\ UNCHANGED client)
    /\ WF_clientVars(/\ client = "loop" /\ credential.attempted
                     /\ \E gone \in BOOLEAN : DropCredential(gone)
                     /\ UNCHANGED client)

(* From the time its watchdog is armed, the loop comes to an end though    *)
(* the provider, a tool or the keyring may never answer.                   *)
LoopEnds ==
    client = "loop" /\ watchdog = "armed" ~> pc \in {"gone", "aborted"}
=============================================================================
