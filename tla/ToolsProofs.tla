------------------------------ MODULE ToolsProofs ------------------------------
(***************************************************************************)
(* Proofs about ToolRuntime and Secrets, for any number of callers: what   *)
(* the memory of the read files holds, and that the answers are true,      *)
(* however the calls overlap.                                              *)
(***************************************************************************)
EXTENDS ToolRuntime, Secrets, FiniteSetTheorems, TLAPS

-----------------------------------------------------------------------------
(* The tool runtime.                                                       *)

Places == {"idle", "check", "snapshot", "launch", "worker", "write", "edit", "response",
           "answered"}

Replies == {"none", "ok", "thrown", "unsupported_tool", "invalid_arguments",
            "invalid_request", "sandbox_registry_failed", "tool_execution_error",
            "edit_refused", "process_timeout", "sandbox_process_failed",
            "invalid_tool_output"}

Run == [pc : Places, call : ToolCalls \cup {"none"}, refresh : BOOLEAN,
        reads : SUBSET ToolFiles, found : SUBSET ToolFiles, did : SUBSET ToolFiles,
        clean : SUBSET ToolFiles, gate : {"open", "committed", "expired"},
        answer : Replies]

Memory == [Workspaces -> SUBSET ToolFiles]

(* What the answer says of the call, and of its batch.                     *)
AnswerOK(run, answer) ==
    /\ answer = "ok" /\ run.call.tool = "write" => run.did = run.call.targets
    /\ answer = "ok" /\ run.call.tool = "edit_file" =>
          run.did = run.call.targets \/ (run.did = {} /\ run.gate = "expired")
    /\ answer \in {"unsupported_tool", "invalid_arguments", "invalid_request",
                   "sandbox_registry_failed"} => run.did = {}

(* As long as every file so far has neither an error nor a note, either all*)
(* of them were edited or the first one lost the gate: a gate that an edit *)
(* went through cannot expire, and one that expired lets no edit through.  *)
BatchOK(run) ==
    /\ run.did \subseteq run.found
    /\ run.clean \subseteq run.found
    /\ run.clean = run.found => \/ run.gate = "open" /\ run.found = {}
                                \/ run.gate = "committed" /\ run.did = run.found
                                \/ run.gate = "expired" /\ run.did = {}

(* The properties of one call, and what it knows at each of its places:    *)
(* a worker holds no file that none of its workspace had, and nothing was  *)
(* changed before a worker was at work.                                    *)
RunOK(run, known) ==
    /\ run \in Run
    /\ run.pc # "idle" =>
          /\ run.call \in ToolCalls
          /\ run.reads \subseteq known[run.call.workspace]
    /\ run.pc \in {"check", "snapshot", "launch", "worker", "write"} => run.did = {}
    /\ run.pc \in {"check", "snapshot", "launch", "worker"} =>
          run.found = {} /\ run.clean = {} /\ run.gate = "open"
    /\ run.pc = "write" =>
          /\ run.call.tool = "write"
          /\ run.found \subseteq known[run.call.workspace]
    /\ run.pc = "edit" => run.call.tool = "edit_file" /\ BatchOK(run)
    /\ run.pc = "response" =>
          /\ run.call.tool # "edit_file"
          /\ run.call.tool = "write" => run.did = run.call.targets
    /\ run.pc = "answered" => AnswerOK(run, run.answer)

RunsOK(runs, known) ==
    /\ runs \in [ToolCallers -> Run]
    /\ \A c \in ToolCallers : RunOK(runs[c], known)

MemoryOK(told, memory, known) ==
    /\ told \in Memory /\ memory \in Memory /\ known \in Memory
    /\ \A v \in Workspaces : told[v] \subseteq memory[v] /\ memory[v] \subseteq known[v]

ToolInv ==
    /\ existing \in SUBSET ToolFiles
    /\ RunsOK(toolRuns, seen)
    /\ MemoryOK(toldRead, readFiles, seen)

(* A step of one call: the others keep what they know, as the files seen   *)
(* only grow.                                                              *)
LEMMA OneRun ==
    ASSUME ToolInv, NEW c \in ToolCallers,
           toolRuns' \in [ToolCallers -> Run],
           \A d \in ToolCallers \ {c} : toolRuns'[d] = toolRuns[d],
           seen' \in Memory, \A v \in Workspaces : seen[v] \subseteq seen'[v],
           RunOK(toolRuns'[c], seen')
    PROVE  RunsOK(toolRuns', seen')
  <1>1. ASSUME NEW d \in ToolCallers, d # c PROVE RunOK(toolRuns'[d], seen')
    <2>1. toolRuns'[d] = toolRuns[d]
      BY <1>1
    <2>2. RunOK(toolRuns[d], seen)
      BY DEF ToolInv, RunsOK
    <2>3. toolRuns[d].call \in ToolCalls => toolRuns[d].call.workspace \in Workspaces
      BY ToolAssumption
    <2>4. RunOK(toolRuns[d], seen')
      BY <2>2, <2>3 DEF RunOK
    <2> QED
      BY <2>1, <2>4
  <1> QED
    BY <1>1 DEF RunsOK

(* A step that leaves what was seen and what is remembered as they are.    *)
LEMMA QuietRun ==
    ASSUME ToolInv, NEW c \in ToolCallers, NEW run,
           toolRuns' = [toolRuns EXCEPT ![c] = run], RunOK(run, seen),
           UNCHANGED <<existing, seen, toldRead, readFiles>>
    PROVE  ToolInv'
  <1>1. toolRuns \in [ToolCallers -> Run] /\ run \in Run
    BY DEF ToolInv, RunsOK, RunOK
  <1>2. /\ toolRuns' \in [ToolCallers -> Run]
        /\ \A d \in ToolCallers \ {c} : toolRuns'[d] = toolRuns[d]
        /\ toolRuns'[c] = run
    BY <1>1
  <1>3. seen' = seen /\ seen \in Memory
    BY DEF ToolInv, MemoryOK
  <1>4. RunOK(toolRuns'[c], seen')
    BY <1>2, <1>3
  <1>5. RunsOK(toolRuns', seen')
    BY <1>2, <1>3, <1>4, OneRun
  <1> QED
    BY <1>5 DEF ToolInv, MemoryOK

(* What is known of the call that takes a step.                            *)
LEMMA RunKnown ==
    ASSUME ToolInv, NEW c \in ToolCallers
    PROVE  /\ toolRuns \in [ToolCallers -> Run]
           /\ RunOK(toolRuns[c], seen)
           /\ toolRuns[c] \in Run
           /\ toolRuns[c].pc # "idle" =>
                 /\ toolRuns[c].call \in ToolCalls
                 /\ toolRuns[c].call.workspace \in Workspaces
                 /\ toolRuns[c].call.targets \in SUBSET ToolFiles
  BY ToolAssumption, SMT DEF ToolInv, RunsOK, RunOK

LEMMA ToolInitInv == ToolInit => ToolInv
  <1> SUFFICES ASSUME ToolInit PROVE ToolInv
    OBVIOUS
  <1>1. NoRun \in Run
    BY DEF NoRun, Run, Places, Replies
  <1>2. NoRun.pc = "idle"
    BY DEF NoRun
  <1>3. RunOK(NoRun, seen)
    BY <1>1, <1>2 DEF RunOK
  <1> QED
    BY <1>1, <1>3 DEF ToolInit, ToolInv, RunsOK, MemoryOK, Memory

LEMMA BeforeWorkerInv ==
    ASSUME ToolInv, NEW c \in ToolCallers,
           \/ \E call \in ToolCalls, refresh \in BOOLEAN : ToolBegin(c, call, refresh)
           \/ ToolChecked(c) \/ ToolSnapshot(c) \/ ToolLaunch(c)
    PROVE  ToolInv'
  <1> DEFINE run == toolRuns[c]
  <1>0. RunOK(run, seen) /\ run \in Run /\ toolRuns \in [ToolCallers -> Run]
    BY RunKnown
  <1>1. ASSUME NEW call \in ToolCalls, NEW refresh \in BOOLEAN, ToolBegin(c, call, refresh)
        PROVE  ToolInv'
    <2> DEFINE new == [NoRun EXCEPT !.pc = "check", !.call = call, !.refresh = refresh]
    <2>1. RunOK(new, seen)
      BY ToolAssumption DEF RunOK, Run, Places, Replies, NoRun
    <2>2. toolRuns' = [toolRuns EXCEPT ![c] = new]
      BY <1>1 DEF ToolBegin
    <2>3. UNCHANGED <<existing, seen, toldRead, readFiles>>
      BY <1>1 DEF ToolBegin
    <2> HIDE DEF new
    <2> QED
      BY <2>1, <2>2, <2>3, QuietRun
  <1>2. ASSUME NEW pc \in {"snapshot", "launch", "worker"}, To(c, pc),
               run.pc \in {"check", "snapshot", "launch"},
               UNCHANGED <<existing, seen, toldRead, readFiles>>
        PROVE  ToolInv'
    <2> DEFINE new == [run EXCEPT !.pc = pc]
    <2>1. RunOK(new, seen)
      BY <1>0, <1>2 DEF RunOK, Run, Places, Replies
    <2>2. toolRuns' = [toolRuns EXCEPT ![c] = new]
      BY <1>0, <1>2 DEF To
    <2> HIDE DEF new
    <2> QED
      BY <1>2, <2>1, <2>2, QuietRun
  <1>3. ASSUME NEW answer \in {"thrown", "unsupported_tool", "invalid_arguments",
                               "sandbox_registry_failed"},
               Answer(c, answer), run.pc \in {"check", "launch"},
               UNCHANGED <<existing, seen, toldRead, readFiles>>
        PROVE  ToolInv'
    <2> DEFINE new == [run EXCEPT !.pc = "answered", !.answer = answer]
    <2>1. RunOK(new, seen)
      BY <1>0, <1>3 DEF RunOK, Run, Places, Replies, AnswerOK
    <2>2. toolRuns' = [toolRuns EXCEPT ![c] = new]
      BY <1>0, <1>3 DEF Answer
    <2> HIDE DEF new
    <2> QED
      BY <1>3, <2>1, <2>2, QuietRun
  <1>4. CASE ToolChecked(c)
    BY <1>2, <1>3, <1>4 DEF ToolChecked
  <1>5. CASE ToolSnapshot(c)
    <2> DEFINE new == [run EXCEPT !.pc = "launch", !.reads = readFiles[run.call.workspace]]
    <2>1. run.pc = "snapshot"
      BY <1>5 DEF ToolSnapshot
    <2>2. run.call.workspace \in Workspaces
      BY <2>1, RunKnown
    <2>3. readFiles[run.call.workspace] \in SUBSET seen[run.call.workspace]
      BY <2>2 DEF ToolInv, MemoryOK
    <2>4. seen[run.call.workspace] \in SUBSET ToolFiles
      BY <2>2 DEF ToolInv, MemoryOK, Memory
    <2>5. RunOK(new, seen)
      BY <1>0, <2>1, <2>3, <2>4 DEF RunOK, Run, Places, Replies
    <2>6. toolRuns' = [toolRuns EXCEPT ![c] = new]
      BY <1>0, <1>5 DEF ToolSnapshot
    <2>7. UNCHANGED <<existing, seen, toldRead, readFiles>>
      BY <1>5 DEF ToolSnapshot
    <2> HIDE DEF new
    <2> QED
      BY <2>5, <2>6, <2>7, QuietRun
  <1>6. CASE ToolLaunch(c)
    <2>1. run.pc = "launch" /\ UNCHANGED <<existing, seen, toldRead, readFiles>>
      BY <1>6 DEF ToolLaunch
    <2>2. Answer(c, "sandbox_registry_failed") \/ To(c, "worker")
      BY <1>6 DEF ToolLaunch
    <2> QED
      BY <2>1, <2>2, <1>2, <1>3
  <1> QED
    BY <1>1, <1>4, <1>5, <1>6

(* A step of a worker that has a file in its hands, or none.               *)
LEMMA WorkerRun ==
    ASSUME ToolInv, NEW c \in ToolCallers, NEW run, NEW f \in ToolFiles,
           toolRuns[c].pc # "idle",
           toolRuns' = [toolRuns EXCEPT ![c] = run],
           seen' = [seen EXCEPT ![toolRuns[c].call.workspace] = @ \cup {f}],
           RunOK(run, seen'), existing' \in SUBSET ToolFiles,
           UNCHANGED <<toldRead, readFiles>>
    PROVE  ToolInv'
  <1>1. toolRuns \in [ToolCallers -> Run] /\ run \in Run
    BY DEF ToolInv, RunsOK, RunOK
  <1>2. /\ toolRuns' \in [ToolCallers -> Run]
        /\ \A d \in ToolCallers \ {c} : toolRuns'[d] = toolRuns[d]
        /\ toolRuns'[c] = run
    BY <1>1
  <1>3. toolRuns[c].call.workspace \in Workspaces
    BY RunKnown
  <1>4. seen \in Memory
    BY DEF ToolInv, MemoryOK
  <1>5. seen' \in Memory /\ \A v \in Workspaces : seen[v] \subseteq seen'[v]
    BY <1>3, <1>4 DEF Memory
  <1>6. RunOK(toolRuns'[c], seen')
    BY <1>2
  <1>7. RunsOK(toolRuns', seen')
    BY <1>2, <1>5, <1>6, OneRun
  <1>8. MemoryOK(toldRead', readFiles', seen')
    BY <1>5 DEF ToolInv, MemoryOK
  <1> QED
    BY <1>7, <1>8 DEF ToolInv

LEMMA AnswerInv ==
    ASSUME ToolInv, NEW c \in ToolCallers, NEW answer \in Replies,
           Answer(c, answer), toolRuns[c].pc # "idle",
           AnswerOK(toolRuns[c], answer),
           UNCHANGED <<existing, seen, toldRead, readFiles>>
    PROVE  ToolInv'
  <1> DEFINE run == toolRuns[c]
             new == [run EXCEPT !.pc = "answered", !.answer = answer]
  <1>0. RunOK(run, seen) /\ run \in Run /\ toolRuns \in [ToolCallers -> Run]
    BY RunKnown
  <1>1. AnswerOK(new, answer)
    BY <1>0 DEF AnswerOK, Run
  <1>2. RunOK(new, seen)
    BY <1>0, <1>1 DEF RunOK, Run, Places
  <1>3. toolRuns' = [toolRuns EXCEPT ![c] = new]
    BY <1>0 DEF Answer
  <1> HIDE DEF new
  <1> QED
    BY <1>2, <1>3, QuietRun

LEMMA WorkerInv ==
    ASSUME ToolInv, NEW c \in ToolCallers, NEW f \in ToolFiles,
           \/ ReadWorker(c, f) \/ WriteWorkerLooks(c, f) \/ WriteWorkerWrites(c, f)
           \/ EditWorkerEdits(c, f)
    PROVE  ToolInv'
  <1> DEFINE run == toolRuns[c]
  <1>0. RunOK(run, seen) /\ run \in Run /\ toolRuns \in [ToolCallers -> Run]
    BY RunKnown
  <1>1. seen \in Memory /\ existing \in SUBSET ToolFiles
    BY DEF ToolInv, MemoryOK
  <1>2. ASSUME Answer(c, "tool_execution_error"), run.pc # "idle",
               UNCHANGED <<existing, seen, toldRead, readFiles>>
        PROVE  ToolInv'
    BY <1>2, AnswerInv DEF Replies, AnswerOK
  <1>3. CASE ReadWorker(c, f)
    <2>1. run.pc = "worker" /\ run.call.tool = "read" /\ UNCHANGED <<existing, toldRead, readFiles>>
      BY <1>3 DEF ReadWorker, Working
    <2>2. CASE Answer(c, "tool_execution_error") /\ UNCHANGED seen
      BY <1>2, <2>1, <2>2
    <2>3. CASE /\ toolRuns' = [toolRuns EXCEPT ![c].pc = "response", ![c].reads = @ \cup {f}]
               /\ Marks(c, f)
      <3> DEFINE new == [run EXCEPT !.pc = "response", !.reads = @ \cup {f}]
      <3>1. run.call.workspace \in Workspaces
        BY <2>1, RunKnown
      <3>2. /\ seen' = [seen EXCEPT ![run.call.workspace] = @ \cup {f}]
            /\ seen'[run.call.workspace] = seen[run.call.workspace] \cup {f}
        BY <2>3, <1>1, <3>1 DEF Marks, Memory
      <3>3. RunOK(new, seen')
        BY <1>0, <2>1, <3>2 DEF RunOK, Run, Places
      <3>4. toolRuns' = [toolRuns EXCEPT ![c] = new]
        BY <1>0, <2>3
      <3> HIDE DEF new
      <3> QED
        BY <1>1, <2>1, <3>2, <3>3, <3>4, WorkerRun
    <2> QED
      BY <1>3, <2>2, <2>3 DEF ReadWorker
  <1>4. CASE WriteWorkerLooks(c, f)
    <2>1. /\ run.pc = "worker" /\ run.call.tool = "write"
          /\ UNCHANGED <<existing, seen, toldRead, readFiles>>
      BY <1>4 DEF WriteWorkerLooks, Working
    <2>2. CASE Answer(c, "tool_execution_error")
      BY <1>2, <2>1, <2>2
    <2>3. CASE /\ f \in existing => f \in run.reads
               /\ toolRuns' = [toolRuns EXCEPT ![c].pc = "write",
                                 ![c].found = existing \cap {f}]
      <3> DEFINE new == [run EXCEPT !.pc = "write", !.found = existing \cap {f}]
      <3>1. RunOK(new, seen)
        BY <1>0, <1>1, <2>1, <2>3 DEF RunOK, Run, Places
      <3>2. toolRuns' = [toolRuns EXCEPT ![c] = new]
        BY <1>0, <2>3
      <3> HIDE DEF new
      <3> QED
        BY <2>1, <3>1, <3>2, QuietRun
    <2> QED
      BY <1>4, <2>2, <2>3 DEF WriteWorkerLooks
  <1>5. CASE WriteWorkerWrites(c, f)
    <2>1. run.pc = "write" /\ f \in run.call.targets /\ UNCHANGED <<toldRead, readFiles>>
      BY <1>5 DEF WriteWorkerWrites
    <2>2. run.call \in ToolCalls /\ run.call.tool = "write" /\ run.did = {}
      BY <1>0, <2>1 DEF RunOK
    <2>3. run.call.targets = {f}
      BY <2>1, <2>2, ToolAssumption
    <2>4. CASE Answer(c, "tool_execution_error") /\ UNCHANGED <<existing, seen>>
      BY <1>2, <2>1, <2>4
    <2>5. CASE /\ existing' = existing \cup {f}
               /\ toolRuns' = [toolRuns EXCEPT ![c].pc = "response",
                            ![c].reads = @ \cup {f}, ![c].did = @ \cup {f}]
               /\ Marks(c, f)
      <3> DEFINE new == [run EXCEPT !.pc = "response", !.reads = @ \cup {f},
                                    !.did = @ \cup {f}]
      <3>1. run.call.workspace \in Workspaces
        BY <2>1, RunKnown
      <3>2. /\ seen' = [seen EXCEPT ![run.call.workspace] = @ \cup {f}]
            /\ seen'[run.call.workspace] = seen[run.call.workspace] \cup {f}
        BY <2>5, <1>1, <3>1 DEF Marks, Memory
      <3>3. RunOK(new, seen')
        BY <1>0, <2>1, <2>2, <2>3, <3>2 DEF RunOK, Run, Places
      <3>4. toolRuns' = [toolRuns EXCEPT ![c] = new]
        BY <1>0, <2>5
      <3>5. existing' \in SUBSET ToolFiles
        BY <1>1, <2>5
      <3> HIDE DEF new
      <3> QED
        BY <2>1, <3>2, <3>3, <3>4, <3>5, WorkerRun
    <2> QED
      BY <1>5, <2>4, <2>5 DEF WriteWorkerWrites
  <1>6. CASE EditWorkerEdits(c, f)
    <2>1. run.pc = "edit" /\ UNCHANGED <<existing, seen, toldRead, readFiles>>
      BY <1>6 DEF EditWorkerEdits
    <2>2. /\ f \notin run.found /\ BatchOK(run) /\ run.gate \in {"open", "committed", "expired"}
          /\ run.found \in SUBSET ToolFiles /\ run.did \in SUBSET ToolFiles
          /\ run.clean \in SUBSET ToolFiles
      BY <1>0, <1>6, <2>1 DEF EditWorkerEdits, RunOK, Run
    <2>3. ASSUME NEW did \in SUBSET {f}, NEW clean \in SUBSET {f},
                 NEW gate \in {"open", "committed", "expired"},
                 toolRuns' = [toolRuns EXCEPT ![c].found = @ \cup {f}, ![c].did = @ \cup did,
                                ![c].clean = @ \cup clean, ![c].gate = gate],
                 \/ clean = {}
                 \/ run.gate # "expired" /\ did = {f} /\ gate = "committed"
                 \/ run.gate # "committed" /\ did = {} /\ gate = "expired"
          PROVE  ToolInv'
      <3> DEFINE edited == [run EXCEPT !.found = @ \cup {f}, !.did = @ \cup did,
                                       !.clean = @ \cup clean, !.gate = gate]
      <3>1. /\ edited.found = run.found \cup {f} /\ edited.did = run.did \cup did
            /\ edited.clean = run.clean \cup clean /\ edited.gate = gate
            /\ edited.pc = run.pc /\ edited.call = run.call /\ edited.reads = run.reads
            /\ edited \in Run
        BY <1>0, <2>2, <2>3 DEF Run
      <3>2. toolRuns' = [toolRuns EXCEPT ![c] = edited]
        BY <1>0, <2>3
      <3> HIDE DEF edited
      <3>3. BatchOK(edited)
        <4>1. edited.did \subseteq edited.found /\ edited.clean \subseteq edited.found
          BY <2>2, <2>3, <3>1 DEF BatchOK
        <4>2. CASE clean = {}
          BY <2>2, <3>1, <4>1, <4>2 DEF BatchOK
        <4>3. ASSUME clean # {}, edited.clean = edited.found
              PROVE  run.clean = run.found
          <5>1. PICK cleanBefore, foundBefore :
                    cleanBefore = run.clean /\ foundBefore = run.found
            OBVIOUS
          <5>2. cleanBefore \subseteq foundBefore /\ f \notin foundBefore
            BY <2>2, <5>1 DEF BatchOK
          <5>3. clean = {f}
            BY <4>3
          <5>4. cleanBefore \cup {f} = foundBefore \cup {f}
            BY <3>1, <4>3, <5>1, <5>3, Zenon
          <5>5. cleanBefore = foundBefore
            BY <5>2, <5>4
          <5> QED
            BY <5>1, <5>5
        <4>4. CASE run.gate # "expired" /\ did = {f} /\ gate = "committed"
          <5>1. ASSUME clean # {}, edited.clean = edited.found
                PROVE  edited.did = edited.found
            <6>1. run.clean = run.found
              BY <4>3, <5>1
            <6>2. run.did = run.found
              BY <2>2, <4>4, <6>1 DEF BatchOK
            <6> QED
              BY <3>1, <4>4, <6>2
          <5>2. edited.gate = "committed"
            BY <3>1, <4>4
          <5>3. CASE clean # {}
            BY <4>1, <5>1, <5>2, <5>3 DEF BatchOK
          <5> QED
            BY <4>2, <5>3
        <4>5. CASE run.gate # "committed" /\ did = {} /\ gate = "expired"
          BY <2>2, <3>1, <4>1, <4>2, <4>3, <4>5 DEF BatchOK
        <4> QED
          BY <2>3, <4>2, <4>4, <4>5
      <3>4. RunOK(edited, seen)
        BY <1>0, <2>1, <3>1, <3>3 DEF RunOK
      <3> QED
        BY <2>1, <3>2, <3>4, QuietRun
    <2> DEFINE Outcome(did, clean, gate) ==
            toolRuns' = [toolRuns EXCEPT ![c].found = @ \cup {f}, ![c].did = @ \cup did,
                                         ![c].clean = @ \cup clean, ![c].gate = gate]
    <2>4. ASSUME NEW gate \in {"open", "committed", "expired"}, Outcome({}, {}, gate)
          PROVE  ToolInv'
      <3>1. PICK none \in SUBSET {f} : none = {}
        OBVIOUS
      <3>2. Outcome(none, none, gate)
        BY <2>4, <3>1, Zenon
      <3> QED
        BY <2>3, <3>1, <3>2, Zenon
    <2>5. CASE run.gate # "expired" /\ Outcome({f}, {f}, "committed")
      <3>1. PICK one \in SUBSET {f} : one = {f}
        OBVIOUS
      <3>2. PICK gate \in {"open", "committed", "expired"} : gate = "committed"
        OBVIOUS
      <3>3. Outcome(one, one, gate)
        BY <2>5, <3>1, <3>2, Zenon
      <3> QED
        BY <2>3, <2>5, <3>1, <3>2, <3>3, Zenon
    <2>6. CASE run.gate # "committed" /\ Outcome({}, {f}, "expired")
      <3>1. PICK none \in SUBSET {f} : none = {}
        OBVIOUS
      <3>2. PICK one \in SUBSET {f} : one = {f}
        OBVIOUS
      <3>3. PICK gate \in {"open", "committed", "expired"} : gate = "expired"
        OBVIOUS
      <3>4. Outcome(none, one, gate)
        BY <2>6, <3>1, <3>2, <3>3, Zenon
      <3> QED
        BY <2>3, <2>6, <3>1, <3>2, <3>3, <3>4, Zenon
    <2>7. \/ run.gate # "expired" /\ Outcome({f}, {f}, "committed")
          \/ run.gate # "committed" /\ Outcome({}, {f}, "expired")
          \/ Outcome({}, {}, run.gate) \/ Outcome({}, {}, "open")
          \/ Outcome({}, {}, "expired")
      BY <1>6, Zenon DEF EditWorkerEdits
    <2> HIDE DEF Outcome
    <2> QED
      BY <2>2, <2>4, <2>5, <2>6, <2>7
  <1> QED
    BY <1>3, <1>4, <1>5, <1>6

LEMMA MergeInv ==
    ASSUME ToolInv, NEW c \in ToolCallers, ToolMerge(c)
    PROVE  ToolInv'
  <1> DEFINE run == toolRuns[c]
             home == run.call.workspace
  <1>0. RunOK(run, seen) /\ run \in Run /\ toolRuns \in [ToolCallers -> Run]
    BY RunKnown
  <1>1. run.pc = "response" /\ UNCHANGED <<existing, seen>>
    BY DEF ToolMerge
  <1>2. home \in Workspaces /\ run.reads \subseteq seen[home]
    BY <1>0, <1>1, RunKnown DEF RunOK
  <1>3. PICK some \in SUBSET run.reads, answer \in {"ok", "thrown"} :
           /\ readFiles' = [readFiles EXCEPT ![home] = @ \cup some]
           /\ Answer(c, answer)
           /\ toldRead' = (IF answer = "ok" THEN [toldRead EXCEPT ![home] = @ \cup some]
                                            ELSE toldRead)
           /\ answer = "ok" => some = run.reads
    <2>1. CASE /\ readFiles' = [readFiles EXCEPT ![home] = @ \cup run.reads]
               /\ toldRead' = [toldRead EXCEPT ![home] = @ \cup run.reads]
               /\ Answer(c, "ok")
      BY <2>1
    <2>2. CASE \E some \in SUBSET run.reads :
                /\ readFiles' = [readFiles EXCEPT ![home] = @ \cup some]
                /\ Answer(c, "thrown")
                /\ UNCHANGED toldRead
      BY <2>2
    <2> QED
      BY <2>1, <2>2 DEF ToolMerge
  <1>4. MemoryOK(toldRead', readFiles', seen')
    <2>1. toldRead \in Memory /\ readFiles \in Memory /\ seen \in Memory
      BY DEF ToolInv, MemoryOK
    <2>2. some \in SUBSET ToolFiles
      BY <1>0, <1>3 DEF Run
    <2>3. readFiles' \in Memory /\ toldRead' \in Memory
      BY <2>1, <2>2, <1>2, <1>3 DEF Memory
    <2>4. ASSUME NEW v \in Workspaces
          PROVE  toldRead'[v] \subseteq readFiles'[v] /\ readFiles'[v] \subseteq seen[v]
      <3>1. toldRead[v] \subseteq readFiles[v] /\ readFiles[v] \subseteq seen[v]
        BY DEF ToolInv, MemoryOK
      <3>2. readFiles'[v] = IF v = home THEN readFiles[v] \cup some ELSE readFiles[v]
        BY <2>1, <1>2, <1>3 DEF Memory
      <3>3. \/ toldRead'[v] = toldRead[v]
            \/ v = home /\ toldRead'[v] = toldRead[v] \cup some
        BY <2>1, <1>2, <1>3 DEF Memory
      <3> QED
        BY <3>1, <3>2, <3>3, <1>2, <1>3
    <2> QED
      BY <1>1, <2>1, <2>3, <2>4 DEF MemoryOK
  <1>5. RunsOK(toolRuns', seen')
    <2> DEFINE new == [run EXCEPT !.pc = "answered", !.answer = answer]
    <2>1. toolRuns' = [toolRuns EXCEPT ![c] = new]
      BY <1>0, <1>3 DEF Answer
    <2>2. RunOK(new, seen)
      BY <1>0, <1>1, <1>3 DEF RunOK, Run, Places, Replies, AnswerOK
    <2> HIDE DEF new
    <2>3. new \in Run
      BY <2>2 DEF RunOK
    <2>4. /\ toolRuns' \in [ToolCallers -> Run]
          /\ \A d \in ToolCallers \ {c} : toolRuns'[d] = toolRuns[d]
          /\ toolRuns'[c] = new
      BY <1>0, <2>1, <2>3
    <2>5. seen' = seen /\ seen \in Memory
      BY <1>1 DEF ToolInv, MemoryOK
    <2>6. RunOK(toolRuns'[c], seen')
      BY <2>2, <2>4, <2>5
    <2> QED
      BY <2>4, <2>5, <2>6, OneRun
  <1> QED
    BY <1>1, <1>4, <1>5 DEF ToolInv

LEMMA ToolStepInv ==
    ASSUME ToolInv, NEW c \in ToolCallers, ToolStep(c)
    PROVE  ToolInv'
  <1> DEFINE run == toolRuns[c]
  <1>0. RunOK(run, seen) /\ run \in Run /\ toolRuns \in [ToolCallers -> Run]
    BY RunKnown
  <1>1. CASE ToolChecked(c) \/ ToolSnapshot(c) \/ ToolLaunch(c)
    BY <1>1, BeforeWorkerInv
  <1>2. ASSUME NEW pc \in {"response", "edit"}, To(c, pc), run.pc = "worker",
               pc = "edit" => run.call.tool = "edit_file",
               pc = "response" => run.call.tool \notin {"edit_file", "write"},
               UNCHANGED <<existing, seen, toldRead, readFiles>>
        PROVE  ToolInv'
    <2> DEFINE new == [run EXCEPT !.pc = pc]
    <2>1. RunOK(new, seen)
      BY <1>0, <1>2 DEF RunOK, Run, Places, BatchOK
    <2>2. toolRuns' = [toolRuns EXCEPT ![c] = new]
      BY <1>0, <1>2 DEF To
    <2> HIDE DEF new
    <2> QED
      BY <1>2, <2>1, <2>2, QuietRun
  <1>3. CASE OtherWorker(c)
    <2>1. /\ run.pc = "worker" /\ run.call.tool \notin {"edit_file", "write"}
          /\ UNCHANGED <<existing, seen, toldRead, readFiles>>
      BY <1>3 DEF OtherWorker, Typescript
    <2>2. CASE Answer(c, "tool_execution_error")
      BY <2>1, <2>2, AnswerInv DEF Replies, AnswerOK
    <2> QED
      BY <1>2, <1>3, <2>1, <2>2 DEF OtherWorker
  <1>4. CASE EditWorkerParses(c)
    <2>1. /\ run.pc = "worker" /\ run.call.tool = "edit_file" /\ run.did = {}
          /\ UNCHANGED <<existing, seen, toldRead, readFiles>>
      BY <1>0, <1>4 DEF EditWorkerParses, Working, RunOK
    <2>2. CASE Answer(c, "invalid_request")
      BY <2>1, <2>2, AnswerInv DEF Replies, AnswerOK
    <2> QED
      BY <1>2, <1>4, <2>1, <2>2 DEF EditWorkerParses
  <1>5. CASE EditWorkerAnswers(c)
    <2>1. /\ run.pc = "edit" /\ run.found = run.call.targets
          /\ UNCHANGED <<existing, seen, toldRead, readFiles>>
      BY <1>5 DEF EditWorkerAnswers
    <2>2. BatchOK(run) /\ run.call.tool = "edit_file"
      BY <1>0, <2>1 DEF RunOK
    <2>3. PICK clean \in {run.clean, run.clean \cap run.did, {}} :
             Answer(c, IF clean = run.call.targets THEN "ok" ELSE "edit_refused")
      BY <1>5 DEF EditWorkerAnswers
    <2>4. CASE clean = run.call.targets
      <3>1. run.clean = run.found \/ run.did = run.found
        BY <2>1, <2>2, <2>3, <2>4 DEF BatchOK
      <3>2. AnswerOK(run, "ok")
        BY <2>1, <2>2, <3>1 DEF BatchOK, AnswerOK
      <3>3. Answer(c, "ok") /\ "ok" \in Replies /\ run.pc # "idle"
        BY <2>1, <2>3, <2>4 DEF Replies
      <3> QED
        BY <2>1, <3>2, <3>3, AnswerInv
    <2>5. CASE clean # run.call.targets
      <3>1. Answer(c, "edit_refused") /\ AnswerOK(run, "edit_refused")
        BY <2>3, <2>5 DEF AnswerOK
      <3> QED
        BY <2>1, <3>1, AnswerInv DEF Replies
    <2> QED
      BY <2>4, <2>5
  <1>6. CASE WorkerLost(c)
    BY <1>6, AnswerInv DEF WorkerLost, Replies, AnswerOK
  <1>7. CASE \E f \in ToolFiles : \/ ReadWorker(c, f) \/ WriteWorkerLooks(c, f)
                                  \/ WriteWorkerWrites(c, f) \/ EditWorkerEdits(c, f)
    BY <1>7, WorkerInv
  <1>8. CASE ToolMerge(c)
    BY <1>8, MergeInv
  <1> QED
    BY <1>1, <1>3, <1>4, <1>5, <1>6, <1>7, <1>8 DEF ToolStep

LEMMA ToolNextInv == ToolInv /\ [ToolNext]_toolVars => ToolInv'
  <1> SUFFICES ASSUME ToolInv, [ToolNext]_toolVars PROVE ToolInv'
    OBVIOUS
  <1>1. CASE \E c \in ToolCallers : ToolStep(c)
    BY <1>1, ToolStepInv
  <1>2. CASE \E c \in ToolCallers, call \in ToolCalls, refresh \in BOOLEAN :
                ToolBegin(c, call, refresh)
    BY <1>2, BeforeWorkerInv
  <1>3. ASSUME NEW f \in ToolFiles, DiskChanges(f) PROVE ToolInv'
    <2>1. existing' \in SUBSET ToolFiles
      BY <1>3 DEF DiskChanges, ToolInv
    <2> QED
      BY <1>3, <2>1 DEF DiskChanges, ToolInv
  <1>4. CASE UNCHANGED toolVars
    BY <1>4 DEF toolVars, ToolInv
  <1> QED
    BY <1>1, <1>2, <1>3, <1>4 DEF ToolNext

LEMMA ToolInvHolds == ToolSpec => []ToolInv
  BY ToolInitInv, ToolNextInv, PTL DEF ToolSpec

(* The memory of the files read is exact, however many calls overlap: no   *)
(* file a caller was told of is missing, and none is in it, or in the      *)
(* hands of the write tool, that no worker of the workspace has had.       *)
THEOREM MemoryIsExact == ToolSpec => []ReadMemoryExact
  <1>1. ToolInv => ReadMemoryExact
    BY DEF ToolInv, RunsOK, RunOK, MemoryOK, ReadMemoryExact
  <1> QED
    BY <1>1, ToolInvHolds, PTL

(* A write that answers ok was made, a batch of edits that does was made as*)
(* a whole or, its deadline having passed first, not at all, and a refused *)
(* call did nothing.                                                       *)
THEOREM AnswersAreTrue == ToolSpec => []AnswersTrue
  <1>1. ToolInv => AnswersTrue
    BY DEF ToolInv, RunsOK, RunOK, AnswerOK, AnswersTrue
  <1> QED
    BY <1>1, ToolInvHolds, PTL

-----------------------------------------------------------------------------
(* The credentials.                                                        *)

Values == {call.value : call \in SecretCalls} \cup {Absent}

Job == [step : {"idle", "search", "size", "read", "update", "add", "unlink", "answered"},
        op : {"none", "get", "set", "erase"},
        value : Values, key : Nat \cup {Absent},
        room : {Size[v] : v \in Values} \cup {0},
        status : {"none", "success", "not_found", "failed"}]

(* The keys are numbered, and the one in the keyring has a value.          *)
KeysOK(link, load) ==
    /\ load = [k \in DOMAIN load |-> load[k]]
    /\ DOMAIN load \subseteq Nat
    /\ IsFiniteSet(DOMAIN load)
    /\ \A k \in DOMAIN load : load[k] \in Values
    /\ link \in DOMAIN load \cup {Absent}

(* The property of one call, and which operation comes to which place.     *)
JobOK(job, wit) ==
    /\ job \in Job
    /\ job.step # "answered" => job.status = "none"
    /\ job.step # "idle" => job.op # "none"
    /\ job.step \in {"size", "read"} => job.op = "get"
    /\ job.step \in {"update", "add"} => job.op = "set"
    /\ job.step = "unlink" => job.op = "erase"
    /\ job.step \in {"size", "read", "update", "unlink"} => job.key # Absent
    /\ job.status = "success" =>
          (IF job.op = "erase" THEN Absent ELSE job.value) \in wit
    /\ job.status = "not_found" => Absent \in wit

SecretsInv ==
    /\ secretJobs \in [SecretCallers -> Job]
    /\ witnessed = [c \in SecretCallers |-> witnessed[c]]
    /\ KeysOK(linked, payload)
    /\ \A c \in SecretCallers : JobOK(secretJobs[c], witnessed[c])

LEMMA SecretsInitInv == SecretsInit => SecretsInv
  <1> SUFFICES ASSUME SecretsInit PROVE SecretsInv
    OBVIOUS
  <1>1. NoSecretJob \in Job
    BY DEF NoSecretJob, Job, Values
  <1>2. NoSecretJob.status = "none" /\ NoSecretJob.step = "idle"
    BY DEF NoSecretJob
  <1>3. \A wit : JobOK(NoSecretJob, wit)
    BY <1>1, <1>2 DEF JobOK
  <1>4. DOMAIN payload = {}
    BY DEF SecretsInit
  <1>5. IsFiniteSet(DOMAIN payload)
    BY <1>4, FS_EmptySet
  <1>6. KeysOK(linked, payload)
    BY <1>4, <1>5 DEF KeysOK, SecretsInit
  <1> QED
    BY <1>1, <1>3, <1>6 DEF SecretsInit, SecretsInv

(* One call takes a step: the others have witnessed one more credential.   *)
LEMMA OneJob ==
    ASSUME SecretsInv, NEW c \in SecretCallers, NEW job,
           Changes(c, job), KeysOK(linked', payload'),
           JobOK(job, IF job.step = "idle" THEN {}
                      ELSE witnessed[c] \cup {Stored(linked', payload')})
    PROVE  SecretsInv'
  <1>1. secretJobs \in [SecretCallers -> Job] /\ job \in Job
    BY DEF SecretsInv, JobOK
  <1>2. /\ secretJobs' \in [SecretCallers -> Job]
        /\ secretJobs'[c] = job
        /\ \A d \in SecretCallers \ {c} : secretJobs'[d] = secretJobs[d]
    BY <1>1 DEF Changes
  <1>3. witnessed' = [d \in SecretCallers |->
            IF secretJobs'[d].step = "idle" THEN {}
            ELSE witnessed[d] \cup {Stored(linked', payload')}]
    BY DEF Changes, Witness
  <1>4. witnessed' = [d \in SecretCallers |-> witnessed'[d]]
    BY <1>3
  <1>5. ASSUME NEW d \in SecretCallers PROVE JobOK(secretJobs'[d], witnessed'[d])
    <2>1. CASE d = c
      BY <1>2, <1>3, <2>1
    <2>2. CASE d # c
      <3>1. JobOK(secretJobs[d], witnessed[d])
        BY DEF SecretsInv
      <3>2. secretJobs'[d] = secretJobs[d]
        BY <1>2, <2>2
      <3>3. secretJobs[d].step # "idle" => witnessed[d] \subseteq witnessed'[d]
        BY <1>3, <3>2
      <3>4. secretJobs[d].step = "idle" => secretJobs[d].status = "none"
        BY <3>1 DEF JobOK
      <3> QED
        BY <3>1, <3>2, <3>3, <3>4 DEF JobOK
    <2> QED
      BY <2>1, <2>2
  <1> QED
    BY <1>2, <1>4, <1>5 DEF SecretsInv

LEMMA SecretCallInv ==
    ASSUME SecretsInv, NEW c \in SecretCallers,
           \/ \E call \in SecretCalls : SecretBegin(c, call)
           \/ SecretEnd(c) \/ SecretFails(c) \/ SearchKey(c) \/ ReadSize(c)
           \/ ReadValue(c)
    PROVE  SecretsInv'
  <1> DEFINE job == secretJobs[c]
  <1>0. JobOK(job, witnessed[c]) /\ KeysOK(linked, payload)
    BY DEF SecretsInv
  <1>1. linked' = linked /\ payload' = payload
    BY DEF SecretBegin, SecretEnd, SecretFails, SearchKey, ReadSize, ReadValue, Keeps
  <1>2. KeysOK(linked', payload')
    BY <1>0, <1>1
  <1>3. ASSUME NEW new, Changes(c, new),
               JobOK(new, IF new.step = "idle" THEN {}
                          ELSE witnessed[c] \cup {Stored(linked', payload')})
        PROVE  SecretsInv'
    BY <1>2, <1>3, OneJob
  <1>4. ASSUME NEW call \in SecretCalls, SecretBegin(c, call) PROVE SecretsInv'
    <2> DEFINE new == [NoSecretJob EXCEPT !.step = "search", !.op = call.op,
                                          !.value = call.value]
    <2>1. \A wit : JobOK(new, wit)
      BY SecretsAssumption DEF JobOK, NoSecretJob, Job, Values
    <2>2. Changes(c, new)
      BY <1>4 DEF SecretBegin
    <2> HIDE DEF new
    <2> QED
      BY <2>1, <2>2, <1>3
  <1>5. CASE SecretEnd(c)
    <2>1. \A wit : JobOK(NoSecretJob, wit)
      BY DEF JobOK, NoSecretJob, Job, Values
    <2> QED
      BY <2>1, <1>3, <1>5 DEF SecretEnd
  <1>6. CASE SecretFails(c)
    <2> DEFINE new == [job EXCEPT !.step = "answered", !.status = "failed"]
    <2>1. \A wit : JobOK(new, wit)
      BY <1>0, <1>6 DEF JobOK, Job, SecretFails
    <2>2. Changes(c, new)
      BY <1>6 DEF SecretFails, Answered
    <2> HIDE DEF new
    <2> QED
      BY <2>1, <2>2, <1>3
  <1>7. CASE SearchKey(c)
    <2>1. job.step = "search"
      BY <1>7 DEF SearchKey, Step
    <2>2. CASE linked # Absent /\ Changes(c, [job EXCEPT !.step = First[job.op], !.key = linked])
      <3> DEFINE at == First[job.op]
                 new == [job EXCEPT !.step = at, !.key = linked]
      <3>1. linked \in Nat
        BY <1>0, <2>2 DEF KeysOK
      <3>2. job.op \in {"get", "set", "erase"}
        BY <1>0, <2>1 DEF JobOK, Job
      <3>3. First["get"] = "size" /\ First["set"] = "update" /\ First["erase"] = "unlink"
        BY DEF First
      <3>4. /\ at \in {"size", "update", "unlink"} /\ job.op # "none"
            /\ at = "size" => job.op = "get"
            /\ at = "update" => job.op = "set"
            /\ at = "unlink" => job.op = "erase"
        BY <3>2, <3>3
      <3> HIDE DEF at
      <3>5. \A wit : JobOK(new, wit)
        BY <1>0, <2>1, <2>2, <3>1, <3>4 DEF JobOK, Job
      <3>6. Changes(c, new)
        BY <2>2 DEF at
      <3> HIDE DEF new
      <3> QED
        BY <3>5, <3>6, <1>3
    <2>3. CASE job.op = "set" /\ Changes(c, [job EXCEPT !.step = "add"])
      <3> DEFINE new == [job EXCEPT !.step = "add"]
      <3>1. \A wit : JobOK(new, wit)
        BY <1>0, <2>1, <2>3 DEF JobOK, Job
      <3>2. Changes(c, new)
        BY <2>3
      <3> HIDE DEF new
      <3> QED
        BY <3>1, <3>2, <1>3
    <2>4. CASE linked = Absent /\ job.op # "set" /\ Answered(c, "not_found")
      <3> DEFINE new == [job EXCEPT !.step = "answered", !.status = "not_found"]
      <3>1. Stored(linked', payload') = Absent
        BY <1>1, <2>4 DEF Stored
      <3>2. JobOK(new, witnessed[c] \cup {Absent})
        BY <1>0, <2>1, <2>4 DEF JobOK, Job
      <3>3. Changes(c, new)
        BY <2>4 DEF Answered
      <3>4. new.step # "idle"
        BY <1>0 DEF JobOK, Job
      <3> HIDE DEF new
      <3> QED
        BY <3>1, <3>2, <3>3, <3>4, <1>3
    <2> QED
      BY <1>7, <2>2, <2>3, <2>4 DEF SearchKey
  <1>8. CASE ReadSize(c)
    <2> DEFINE new == [job EXCEPT !.step = "read", !.room = Size[payload[linked]]]
    <2>1. job.step = "size" /\ Changes(c, new)
      BY <1>8 DEF ReadSize, Step
    <2>2. payload[linked] \in Values
      BY <1>0, <1>8, <2>1 DEF KeysOK, JobOK, ReadSize, Alive
    <2>3. \A wit : JobOK(new, wit)
      BY <1>0, <2>1, <2>2 DEF JobOK, Job
    <2> HIDE DEF new
    <2> QED
      BY <2>1, <2>3, <1>3
  <1>9. CASE ReadValue(c)
    <2>1. job.step = "read" /\ linked # Absent
      BY <1>0, <1>9 DEF ReadValue, Step, Alive, JobOK
    <2>2. payload[linked] \in Values
      BY <1>0, <2>1 DEF KeysOK
    <2>3. CASE Changes(c, Read(c))
      <3> DEFINE new == [job EXCEPT !.step = "answered", !.status = "success",
                                    !.value = payload[linked]]
      <3>1. Stored(linked', payload') = payload[linked]
        BY <1>1, <2>1 DEF Stored
      <3>2. JobOK(new, witnessed[c] \cup {payload[linked]})
        BY <1>0, <2>1, <2>2 DEF JobOK, Job
      <3>3. Changes(c, new)
        BY <2>3 DEF Read
      <3>4. new.step # "idle"
        BY <1>0 DEF JobOK, Job
      <3> HIDE DEF new
      <3> QED
        BY <3>1, <3>2, <3>3, <3>4, <1>3
    <2>4. CASE Changes(c, [job EXCEPT !.room = Size[payload[linked]]])
      <3> DEFINE new == [job EXCEPT !.room = Size[payload[linked]]]
      <3>1. \A wit : JobOK(new, wit)
        BY <1>0, <2>1, <2>2 DEF JobOK, Job
      <3>2. Changes(c, new)
        BY <2>4
      <3> HIDE DEF new
      <3> QED
        BY <3>1, <3>2, <1>3
    <2> QED
      BY <1>9, <2>3, <2>4 DEF ReadValue
  <1> QED
    BY <1>4, <1>5, <1>6, <1>7, <1>8, <1>9

(* A call that changes the credential, and the answer it has for it.       *)
LEMMA SecretWriteInv ==
    ASSUME SecretsInv, NEW c \in SecretCallers,
           UpdateKey(c) \/ AddKey(c) \/ UnlinkKey(c) \/ CredentialCall(c)
    PROVE  SecretsInv'
  <1> DEFINE job == secretJobs[c]
             new == [job EXCEPT !.step = "answered", !.status = "success"]
  <1>0. JobOK(job, witnessed[c]) /\ KeysOK(linked, payload)
    BY DEF SecretsInv
  <1>1. ASSUME Answered(c, "success"), KeysOK(linked', payload'), job.step # "idle",
               job.step # "answered",
               Stored(linked', payload') = IF job.op = "erase" THEN Absent ELSE job.value
        PROVE  SecretsInv'
    <2>1. JobOK(new, witnessed[c] \cup {Stored(linked', payload')})
      BY <1>0, <1>1 DEF JobOK, Job
    <2>2. Changes(c, new)
      BY <1>1 DEF Answered
    <2>3. new.step # "idle"
      BY <1>0 DEF JobOK, Job
    <2> HIDE DEF new
    <2> QED
      BY <1>1, <2>1, <2>2, <2>3, OneJob
  <1>2. job.value \in Values
    BY <1>0 DEF JobOK, Job
  <1>3. ASSUME NEW k \in DOMAIN payload, payload' = [payload EXCEPT ![k] = job.value],
               linked = k, linked' = k, Answered(c, "success"), job.step \in {"update", "add"}
        PROVE  SecretsInv'
    <2>1. payload = [j \in DOMAIN payload |-> payload[j]]
      BY <1>0 DEF KeysOK
    <2>2. payload' = [j \in DOMAIN payload |-> IF j = k THEN job.value ELSE payload[j]]
      BY <1>3, <2>1
    <2>3. DOMAIN payload' = DOMAIN payload /\ payload'[k] = job.value
      BY <2>2
    <2>4. KeysOK(linked', payload')
      BY <1>0, <1>2, <1>3, <2>2, <2>3 DEF KeysOK
    <2>5. k # Absent
      BY <1>0, SecretsAssumption DEF KeysOK
    <2> QED
      BY <1>0, <1>1, <1>3, <2>3, <2>4, <2>5 DEF Stored, JobOK
  <1>4. CASE UpdateKey(c)
    <2>1. job.step = "update" /\ linked # Absent
      BY <1>0, <1>4 DEF UpdateKey, Step, Alive, JobOK
    <2>2. linked \in DOMAIN payload
      BY <1>0, <2>1 DEF KeysOK
    <2> QED
      BY <1>3, <1>4, <2>1, <2>2 DEF UpdateKey
  <1>5. CASE AddKey(c)
    <2>1. job.step = "add" /\ Answered(c, "success")
      BY <1>5 DEF AddKey, Step
    <2>2. CASE linked # Absent /\ payload' = [payload EXCEPT ![linked] = job.value]
               /\ UNCHANGED linked
      BY <1>0, <1>3, <2>1, <2>2 DEF KeysOK
    <2>3. CASE /\ linked' = 1 + Cardinality(DOMAIN payload)
               /\ payload' = [k \in DOMAIN payload \cup {linked'} |->
                     IF k = linked' THEN job.value ELSE payload[k]]
      <3>1. linked' \in Nat /\ linked' # Absent
        BY <1>0, <2>3, FS_CardinalityType, SecretsAssumption DEF KeysOK
      <3>2. IsFiniteSet(DOMAIN payload \cup {linked'})
        BY <1>0, FS_AddElement DEF KeysOK
      <3>3. /\ DOMAIN payload' = DOMAIN payload \cup {linked'}
            /\ payload'[linked'] = job.value
        BY <2>3
      <3>4. KeysOK(linked', payload')
        BY <1>0, <1>2, <2>3, <3>1, <3>2, <3>3 DEF KeysOK
      <3> QED
        BY <1>0, <1>1, <2>1, <3>1, <3>3, <3>4 DEF Stored, JobOK
    <2> QED
      BY <1>5, <2>2, <2>3 DEF AddKey
  <1>6. ASSUME linked' = Absent, UNCHANGED payload, Answered(c, "success"),
               job.op = "erase", job.step \in {"unlink", "search"}
        PROVE  SecretsInv'
    <2>1. KeysOK(linked', payload')
      BY <1>0, <1>6 DEF KeysOK
    <2> QED
      BY <1>1, <1>6, <2>1 DEF Stored
  <1>7. CASE UnlinkKey(c)
    BY <1>0, <1>6, <1>7 DEF UnlinkKey, Step, JobOK
  <1>8. CASE CredentialCall(c)
    <2>1. job.step = "search" /\ job.op # "none"
      BY <1>0, <1>8 DEF CredentialCall, Step, JobOK
    <2>2. CASE job.op = "set" /\ linked' = 1 /\ payload' = <<job.value>>
               /\ Answered(c, "success")
      <3>1. DOMAIN payload' = {1} /\ payload'[1] = job.value
            /\ payload' = [k \in {1} |-> payload'[k]]
        BY <2>2
      <3>2. IsFiniteSet(DOMAIN payload')
        BY <3>1, FS_Singleton
      <3>3. KeysOK(linked', payload')
        BY <1>2, <2>2, <3>1, <3>2 DEF KeysOK
      <3>4. Stored(linked', payload') = job.value
        BY <2>2, <3>1, SecretsAssumption DEF Stored
      <3> QED
        BY <1>1, <2>1, <2>2, <3>3, <3>4
    <2>3. CASE linked = Absent /\ Keeps /\ Answered(c, "not_found")
      <3> DEFINE none == [job EXCEPT !.step = "answered", !.status = "not_found"]
      <3>1. Stored(linked', payload') = Absent
        BY <2>3 DEF Stored, Keeps
      <3>2. JobOK(none, witnessed[c] \cup {Absent}) /\ none.step # "idle"
        BY <1>0, <2>1 DEF JobOK, Job
      <3>3. Changes(c, none)
        BY <2>3 DEF Answered
      <3>4. KeysOK(linked', payload')
        BY <1>0, <2>3 DEF Keeps
      <3> HIDE DEF none
      <3> QED
        BY <3>1, <3>2, <3>3, <3>4, OneJob
    <2>4. CASE job.op = "get" /\ linked # Absent /\ Keeps /\ Changes(c, Read(c))
      <3> DEFINE read == [job EXCEPT !.step = "answered", !.status = "success",
                                     !.value = payload[linked]]
      <3>1. payload[linked] \in Values
        BY <1>0, <2>4 DEF KeysOK
      <3>2. Stored(linked', payload') = payload[linked]
        BY <2>4 DEF Stored, Keeps
      <3>3. JobOK(read, witnessed[c] \cup {payload[linked]}) /\ read.step # "idle"
        BY <1>0, <2>1, <2>4, <3>1 DEF JobOK, Job
      <3>4. Changes(c, read)
        BY <2>4 DEF Read
      <3>5. KeysOK(linked', payload')
        BY <1>0, <2>4 DEF Keeps
      <3> HIDE DEF read
      <3> QED
        BY <3>2, <3>3, <3>4, <3>5, OneJob
    <2>5. CASE job.op = "erase" /\ linked' = Absent /\ UNCHANGED payload
               /\ Answered(c, "success")
      BY <1>6, <2>1, <2>5
    <2> QED
      BY <1>8, <2>2, <2>3, <2>4, <2>5 DEF CredentialCall
  <1> QED
    BY <1>4, <1>5, <1>7, <1>8

LEMMA SecretsNextInv == SecretsInv /\ [SecretsNext]_secretVars => SecretsInv'
  <1> SUFFICES ASSUME SecretsInv, [SecretsNext]_secretVars PROVE SecretsInv'
    OBVIOUS
  <1>1. CASE SecretsNext
    BY <1>1, SecretCallInv, SecretWriteInv DEF SecretsNext
  <1>2. CASE UNCHANGED secretVars
    BY <1>2 DEF secretVars, SecretsInv
  <1> QED
    BY <1>1, <1>2

(* Whatever the calls of others do between its steps, the answer of a call *)
(* on a credential was true at some time of the call.                      *)
THEOREM CredentialsAreTrue == SecretsSpec => []SecretsTrue
  <1>1. SecretsInv => SecretsTrue
    BY DEF SecretsInv, SecretsTrue, JobOK
  <1> QED
    BY <1>1, SecretsInitInv, SecretsNextInv, PTL DEF SecretsSpec
=============================================================================
