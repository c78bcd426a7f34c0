----------------------------- MODULE ToolRuntime -----------------------------
(* tool_runtime::execute_tool, called by several threads: each call checks  *)
(* its tool call, launches a worker in the sandbox, and turns what becomes  *)
(* of it into one result.  The calls share the memory of the files read so  *)
(* far in each workspace, which lets the write tool overwrite them, and the *)
(* permissions of the sandbox registry; the workers share the disk.         *)
EXTENDS Naturals, FiniteSets

CONSTANTS ToolCallers,
          Workspaces,
          ToolFiles,   \* the files the tools are asked about
          ToolCalls,   \* [tool, workspace, targets, shape]: shape is good, or
                       \* malformed for the runtime or for the edit_file worker
          MaxToolCalls \* bound: the calls made altogether

ASSUME ToolAssumption ==
    /\ ToolCalls \in SUBSET [tool : STRING, workspace : Workspaces,
                             targets : SUBSET ToolFiles, shape : STRING]
    /\ \A call \in ToolCalls : call.tool = "write" =>
          \E f \in ToolFiles : call.targets = {f}

VARIABLES
    readFiles,  \* workspace -> read_files_by_workspace
    existing,   \* the files on the disk
    rights,     \* the capabilities in the sandbox registry
    toolRuns,   \* caller -> the call it is in
    seen,       \* workspace -> the files a worker there did read or write
    toldRead,   \* workspace -> the files of which a caller was told so
    toolsBegun

toolVars == <<readFiles, existing, rights, toolRuns, seen, toldRead, toolsBegun>>

(* The memory it works with, the files it came by, those it changed, those *)
(* it has neither an error nor a note for, and the gate of a batch of      *)
(* edits: open, committed by the last one, or expired.                     *)
NoRun == [pc |-> "idle", call |-> "none", refresh |-> FALSE, reads |-> {},
          found |-> {}, did |-> {}, clean |-> {}, gate |-> "open", answer |-> "none"]

ToolInit ==
    /\ readFiles = [w \in Workspaces |-> {}]
    /\ existing \in SUBSET ToolFiles
    /\ rights = {}
    /\ toolRuns = [c \in ToolCallers |-> NoRun]
    /\ seen = [w \in Workspaces |-> {}]
    /\ toldRead = [w \in Workspaces |-> {}]
    /\ toolsBegun = 0

-----------------------------------------------------------------------------
(* tool_specs.                                                             *)

Typescript == {"read", "write", "glob", "webfetch"}

Right(root, access) == <<root, access>>

(* The TypeScript tools see their runtime, edit_file its executable, and   *)
(* all but the tools for the network and the list their workspace.         *)
Needs(call) ==
    {Right(IF call.tool \in Typescript THEN "runtime" ELSE "editor", "read_only")}
    \cup CASE call.tool \in {"read", "glob"} -> {Right(call.workspace, "read_only")}
           [] call.tool \in {"write", "edit_file"} -> {Right(call.workspace, "read_write")}
           [] OTHER -> {}

To(c, pc) == toolRuns' = [toolRuns EXCEPT ![c].pc = pc]

Answer(c, answer) ==
    toolRuns' = [toolRuns EXCEPT ![c].pc = "answered", ![c].answer = answer]

-----------------------------------------------------------------------------
(* Before the worker.                                                      *)

(* The sessions ask for a refresh with the first of their calls only.      *)
ToolBegin(c, call, refresh) ==
    /\ toolRuns[c].pc \in (IF refresh THEN {"idle"} ELSE {"idle", "answered"})
    /\ toolsBegun < MaxToolCalls
    /\ toolsBegun' = toolsBegun + 1
    /\ toolRuns' = [toolRuns EXCEPT ![c] =
          [NoRun EXCEPT !.pc = "check", !.call = call, !.refresh = refresh]]
    /\ UNCHANGED <<readFiles, existing, rights, seen, toldRead>>

(* A malformed call, a workspace that is no directory and a missing        *)
(* executable throw; an unknown tool and bad arguments have an error.      *)
ToolChecked(c) ==
    LET call == toolRuns[c].call
    IN /\ toolRuns[c].pc = "check"
       /\ \/ Answer(c, "thrown")
          \/ call.shape = "unsupported" /\ Answer(c, "unsupported_tool")
          \/ /\ call.tool = "edit_file" /\ call.shape = "no_objects"
             /\ Answer(c, "invalid_arguments")
          \/ /\ call.shape \in {"good", "bad_item"}
             /\ To(c, IF call.tool \in Typescript THEN "snapshot" ELSE "launch")
       /\ UNCHANGED <<readFiles, existing, rights, seen, toldRead, toolsBegun>>

(* read_files, under the mutex; from here the call works on its copy.      *)
ToolSnapshot(c) ==
    /\ toolRuns[c].pc = "snapshot"
    /\ toolRuns' = [toolRuns EXCEPT ![c].pc = "launch",
                      ![c].reads = readFiles[toolRuns[c].call.workspace]]
    /\ UNCHANGED <<readFiles, existing, rights, seen, toldRead, toolsBegun>>

(* The sandbox registers what it can of a refresh, grants a reuse only     *)
(* what is registered, and starts nothing with less than all of it.        *)
ToolLaunch(c) ==
    LET needs == Needs(toolRuns[c].call)
    IN /\ toolRuns[c].pc = "launch"
       /\ \E granted \in SUBSET needs :
             /\ IF toolRuns[c].refresh
                THEN rights' = rights \cup granted
                ELSE granted \subseteq rights /\ UNCHANGED rights
             /\ \/ granted # needs /\ Answer(c, "sandbox_registry_failed")
                \/ granted = needs /\ To(c, "worker")
       /\ UNCHANGED <<readFiles, existing, seen, toldRead, toolsBegun>>

-----------------------------------------------------------------------------
(* The workers.                                                            *)

Working(c, tool) == toolRuns[c].pc = "worker" /\ toolRuns[c].call.tool = tool

(* What the worker does on the disk counts, whatever becomes of it later.  *)
Marks(c, f) == seen' = [seen EXCEPT ![toolRuns[c].call.workspace] = @ \cup {f}]

ReadWorker(c, f) ==
    /\ Working(c, "read")
    /\ f \in toolRuns[c].call.targets
    /\ \/ /\ f \in existing
          /\ toolRuns' = [toolRuns EXCEPT ![c].pc = "response", ![c].reads = @ \cup {f}]
          /\ Marks(c, f)
       \/ Answer(c, "tool_execution_error") /\ UNCHANGED seen
    /\ UNCHANGED <<readFiles, existing, rights, toldRead, toolsBegun>>

(* An existing file needs to have been read.                               *)
WriteWorkerLooks(c, f) ==
    /\ Working(c, "write")
    /\ f \in toolRuns[c].call.targets
    /\ \/ /\ f \in existing => f \in toolRuns[c].reads
          /\ toolRuns' = [toolRuns EXCEPT ![c].pc = "write",
                            ![c].found = existing \cap {f}]
       \/ Answer(c, "tool_execution_error")
    /\ UNCHANGED <<readFiles, existing, rights, seen, toldRead, toolsBegun>>

WriteWorkerWrites(c, f) ==
    /\ toolRuns[c].pc = "write"
    /\ f \in toolRuns[c].call.targets
    /\ \/ /\ existing' = existing \cup {f}
          /\ toolRuns' = [toolRuns EXCEPT ![c].pc = "response",
                            ![c].reads = @ \cup {f}, ![c].did = @ \cup {f}]
          /\ Marks(c, f)
       \/ Answer(c, "tool_execution_error") /\ UNCHANGED <<existing, seen>>
    /\ UNCHANGED <<readFiles, rights, toldRead, toolsBegun>>

(* The other TypeScript tools neither read whole files nor write.          *)
OtherWorker(c) ==
    /\ toolRuns[c].pc = "worker"
    /\ toolRuns[c].call.tool \in Typescript \ {"read", "write"}
    /\ To(c, "response") \/ Answer(c, "tool_execution_error")
    /\ UNCHANGED <<readFiles, existing, rights, seen, toldRead, toolsBegun>>

(* edit_file takes its requests apart before it edits the first of them.   *)
EditWorkerParses(c) ==
    /\ Working(c, "edit_file")
    /\ IF toolRuns[c].call.shape = "bad_item"
       THEN Answer(c, "invalid_request") ELSE To(c, "edit")
    /\ UNCHANGED <<readFiles, existing, rights, seen, toldRead, toolsBegun>>

(* One file after the other, with what edit() makes of it (EditFile has it *)
(* step by step): it is edited; or there is an error or a note; or its edit*)
(* lost the gate to the deadline and has neither.  Only an open gate can   *)
(* expire, for good, and a failed commit opens it again.                   *)
EditWorkerEdits(c, f) ==
    LET run == toolRuns[c]
        Outcome(did, clean, gate) ==
            toolRuns' = [toolRuns EXCEPT ![c].found = @ \cup {f}, ![c].did = @ \cup did,
                                         ![c].clean = @ \cup clean, ![c].gate = gate]
    IN /\ run.pc = "edit"
       /\ f \in run.call.targets \ run.found
       /\ \/ run.gate # "expired" /\ f \in existing /\ Outcome({f}, {f}, "committed")
          \/ Outcome({}, {}, run.gate)
          \/ run.gate = "committed" /\ Outcome({}, {}, "open")
          \/ run.gate = "open" /\ Outcome({}, {}, "expired")
          \/ run.gate # "committed" /\ Outcome({}, {f}, "expired")
       /\ UNCHANGED <<readFiles, existing, rights, seen, toldRead, toolsBegun>>

EditWorkerAnswersAny(c) ==
    LET run == toolRuns[c]
    IN /\ run.pc = "edit"
       /\ run.found = run.call.targets
       /\ \E clean \in {run.clean, run.clean \cap run.did, {}} :
             Answer(c, IF clean # {} THEN "ok" ELSE "edit_refused")
       /\ UNCHANGED <<readFiles, existing, rights, seen, toldRead, toolsBegun>>

(* After the last file the watcher has its say: it may have failed, or seen*)
(* a change, which is noted for what was not edited.  The answer is ok when*)
(* no file has an error or a note.                                         *)
EditWorkerAnswers(c) ==
    LET run == toolRuns[c]
    IN /\ run.pc = "edit"
       /\ run.found = run.call.targets
       /\ \E clean \in {run.clean, run.clean \cap run.did, {}} :
             Answer(c, IF clean = run.call.targets THEN "ok" ELSE "edit_refused")
       /\ UNCHANGED <<readFiles, existing, rights, seen, toldRead, toolsBegun>>

(* The worker cannot be launched or dies, the deadline passes, or there is *)
(* no use for its output: all that is left is what it did on the disk.     *)
WorkerLost(c) ==
    /\ toolRuns[c].pc \in {"worker", "write", "edit", "response"}
    /\ \E answer \in {"process_timeout", "sandbox_process_failed", "invalid_tool_output"} :
          Answer(c, answer)
    /\ UNCHANGED <<readFiles, existing, rights, seen, toldRead, toolsBegun>>

-----------------------------------------------------------------------------
(* After the worker: merge_read_files, under the mutex.                    *)

ToolMergeReplaces(c) ==
    LET run == toolRuns[c]
        workspace == run.call.workspace
    IN /\ run.pc = "response"
       /\ readFiles' = [readFiles EXCEPT ![workspace] = run.reads]
       /\ toldRead' = [toldRead EXCEPT ![workspace] = @ \cup run.reads]
       /\ Answer(c, "ok")
       /\ UNCHANGED <<existing, rights, seen, toolsBegun>>

(* A list that is wrong in the middle is merged up to there and thrown at. *)
ToolMerge(c) ==
    LET run == toolRuns[c]
        workspace == run.call.workspace
    IN /\ run.pc = "response"
       /\ \/ /\ readFiles' = [readFiles EXCEPT ![workspace] = @ \cup run.reads]
             /\ toldRead' = [toldRead EXCEPT ![workspace] = @ \cup run.reads]
             /\ Answer(c, "ok")
          \/ \E some \in SUBSET run.reads :
                /\ readFiles' = [readFiles EXCEPT ![workspace] = @ \cup some]
                /\ Answer(c, "thrown")
                /\ UNCHANGED toldRead
       /\ UNCHANGED <<existing, rights, seen, toolsBegun>>

(* The disk is not the tools' alone.                                       *)
DiskChanges(f) ==
    /\ existing' = IF f \in existing THEN existing \ {f} ELSE existing \cup {f}
    /\ UNCHANGED <<readFiles, rights, toolRuns, seen, toldRead, toolsBegun>>

ToolStep(c) ==
    \/ ToolChecked(c) \/ ToolSnapshot(c) \/ ToolLaunch(c)
    \/ OtherWorker(c) \/ EditWorkerParses(c) \/ EditWorkerAnswers(c) \/ WorkerLost(c)
    \/ \E f \in ToolFiles : \/ ReadWorker(c, f) \/ WriteWorkerLooks(c, f)
                            \/ WriteWorkerWrites(c, f) \/ EditWorkerEdits(c, f)
    \/ ToolMerge(c)

ToolNext ==
    \/ \E c \in ToolCallers :
          ToolStep(c) \/ \E call \in ToolCalls, refresh \in BOOLEAN :
                            ToolBegin(c, call, refresh)
    \/ \E f \in ToolFiles : DiskChanges(f)

ToolSpec == ToolInit /\ [][ToolNext]_toolVars

-----------------------------------------------------------------------------
(* Properties.                                                             *)

(* The memory of a workspace has every file a caller was told it has read, *)
(* however calls overlap, and no file that no worker of the workspace had  *)
(* in its hands: the write tool overwrites nothing else on its account.    *)
ReadMemoryExact ==
    /\ \A w \in Workspaces : /\ toldRead[w] \subseteq readFiles[w]
                             /\ readFiles[w] \subseteq seen[w]
    /\ \A c \in ToolCallers : toolRuns[c].pc = "write" =>
          toolRuns[c].found \subseteq seen[toolRuns[c].call.workspace]

(* An answer says what was done.  A write that is ok has written its file. *)
(* A batch of edits that is ok edited all of its files, or none of them:   *)
(* then its deadline took the gate before the first, which such an answer  *)
(* does not tell.  A refusal of the call, of its arguments or by the       *)
(* sandbox says that nothing was changed; the other answers say nothing of *)
(* what was.                                                               *)
AnswersTrue ==
    \A c \in ToolCallers : LET run == toolRuns[c] IN run.pc = "answered" =>
       /\ run.answer = "ok" /\ run.call.tool = "write" => run.did = run.call.targets
       /\ run.answer = "ok" /\ run.call.tool = "edit_file" =>
             run.did = run.call.targets \/ (run.did = {} /\ run.gate = "expired")
       /\ run.answer \in {"unsupported_tool", "invalid_arguments", "invalid_request",
                          "sandbox_registry_failed"} => run.did = {}
=============================================================================
