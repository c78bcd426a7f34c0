--------------------------- MODULE SandboxProcess ---------------------------
(* sandbox::process: one call after the other that registers its paths,     *)
(* launches a child, feeds and drains it by threads, watches for its end, a *)
(* stop signal and the deadline, and joins the threads.  The child and the  *)
(* descendants it starts do as they like.  Linux and Windows share the      *)
(* shape; what differs is said at each action.                              *)
EXTENDS Naturals

CONSTANT MaxOutput  \* bound: the pieces of output of one call

VARIABLES
    platform,  \* linux or windows
    stage,     \* where the calling thread is
    child,     \* none, setup, failing, running, ended or reaped
    cause,     \* how the child ended: none, setup, exit or killed
    stray,     \* a descendant: none, in the group of the child, or escaped
    setupPipe, \* whether a setup error of the child is in its pipe
    input,     \* the stdin data: none, small enough for the pipe, or large
    writer, reader,  \* the threads: none, busy or done
    produced, got,   \* the output written by the child's side and read here
    ioError,   \* whether the reader met an error
    result,    \* process_final_state
    late,      \* whether the deadline has passed
    stop,      \* stop_requested
    signalled, \* whether SIGTERM or SIGINT came during the call
    handlers   \* ours or default

childVars == <<child, cause, stray, setupPipe>>
pipeVars == <<input, writer, reader, produced, got, ioError>>
signalVars == <<stop, signalled, handlers>>
processVars ==
    <<platform, stage, childVars, pipeVars, result, late, signalVars>>

NoResult == [registered |-> TRUE, started |-> FALSE, timedOut |-> FALSE,
             terminated |-> FALSE, error |-> "none"]

ProcessInit ==
    /\ platform \in {"linux", "windows"}
    /\ stage = "idle"
    /\ child = "none" /\ cause = "none" /\ stray = "none" /\ setupPipe = FALSE
    /\ input = "none" /\ writer = "none" /\ reader = "none"
    /\ produced = 0 /\ got = 0 /\ ioError = FALSE
    /\ result = NoResult
    /\ late = FALSE
    /\ stop = FALSE /\ signalled = FALSE /\ handlers = "default"

-----------------------------------------------------------------------------
(* Before the launch.                                                      *)

CallProcess(data) ==
    /\ stage \in {"idle", "returned"}
    /\ stage' = "registry"
    /\ input' = data
    /\ child' = "none" /\ cause' = "none" /\ stray' = "none" /\ setupPipe' = FALSE
    /\ writer' = "none" /\ reader' = "none"
    /\ produced' = 0 /\ got' = 0 /\ ioError' = FALSE
    /\ result' = NoResult
    /\ late' = FALSE /\ signalled' = FALSE
    /\ UNCHANGED <<platform, stop, handlers>>

(* A final error, or fewer permissions than requests, ends the call before *)
(* anything is launched.                                                   *)
Register(registered) ==
    /\ stage = "registry"
    /\ result' = [result EXCEPT !.registered = registered]
    /\ stage' = IF registered THEN "pipes" ELSE "returned"
    /\ UNCHANGED <<platform, childVars, pipeVars, late, signalVars>>

Returns(error) ==
    /\ stage' = "returned"
    /\ result' = [result EXCEPT !.error = error]
    /\ handlers' = "default"

(* create_pipe; on Windows also the container, the job and the attributes. *)
MakePipes ==
    /\ stage = "pipes"
    /\ \/ stage' = (IF platform = "linux" THEN "signals" ELSE "launch")
          /\ UNCHANGED <<result, handlers>>
       \/ Returns("launch")
    /\ UNCHANGED <<platform, childVars, pipeVars, late, stop, signalled>>

(* stop_requested is cleared first, so a signal of an earlier call is not  *)
(* taken for one of this call.                                             *)
InstallSignals ==
    /\ stage = "signals"
    /\ stop' = FALSE
    /\ \/ stage' = "launch" /\ handlers' = "ours" /\ UNCHANGED result
       \/ Returns("launch")
    /\ UNCHANGED <<platform, childVars, pipeVars, late, signalled>>

(* fork leaves a child that has its setup to do; CreateProcessW reports    *)
(* what fails in it, and a child that cannot be put in the job or resumed  *)
(* is terminated.                                                          *)
Launch ==
    /\ stage = "launch"
    /\ \/ /\ child' = (IF platform = "linux" THEN "setup" ELSE "running")
          /\ result' = [result EXCEPT !.started = TRUE]
          /\ stage' = (IF platform = "linux" THEN "started" ELSE "threads")
          /\ UNCHANGED handlers
       \/ Returns("launch") /\ UNCHANGED child
    /\ UNCHANGED <<platform, cause, stray, setupPipe, pipeVars, late, stop, signalled>>

-----------------------------------------------------------------------------
(* The child and its descendants.                                          *)

Alive == child \in {"setup", "failing", "running"}

(* run_child: a step that fails is written to the error pipe before _exit. *)
ChildSetup ==
    /\ child = "setup"
    /\ \/ child' = "running" /\ UNCHANGED <<cause, setupPipe>>
       \/ child' = "failing" /\ setupPipe' = TRUE /\ UNCHANGED cause
    /\ UNCHANGED <<platform, stage, stray, pipeVars, result, late, signalVars>>

ChildExits ==
    /\ child \in {"failing", "running"}
    /\ child' = "ended"
    /\ cause' = IF child = "failing" THEN "setup" ELSE "exit"
    /\ UNCHANGED <<platform, stage, stray, setupPipe, pipeVars, result, late, signalVars>>

ChildSpawns(where) ==
    /\ child = "running"
    /\ stray = "none"
    /\ where = "escaped" => platform = "linux"
    /\ stray' = where
    /\ UNCHANGED <<platform, stage, child, cause, setupPipe, pipeVars, result, late,
                   signalVars>>

StrayEnds ==
    /\ stray # "none"
    /\ stray' = "none"
    /\ UNCHANGED <<platform, stage, child, cause, setupPipe, pipeVars, result, late,
                   signalVars>>

Prints ==
    /\ child = "running" \/ stray # "none"
    /\ produced < MaxOutput
    /\ produced' = produced + 1
    /\ UNCHANGED <<platform, stage, childVars, input, writer, reader, got, ioError,
                   result, late, signalVars>>

KillChild ==
    /\ child' = "reaped"
    /\ cause' = IF Alive THEN "killed" ELSE cause
    /\ UNCHANGED <<stray, setupPipe>>

(* kill(-pid) reaches the group, TerminateJobObject all of the job; then   *)
(* the child is waited for.                                                *)
KillGroup ==
    /\ child' = "reaped"
    /\ cause' = IF Alive THEN "killed" ELSE cause
    /\ stray' = IF stray = "group" THEN "none" ELSE stray
    /\ UNCHANGED setupPipe

-----------------------------------------------------------------------------
(* The threads of the call.                                                *)

(* The parent closes the child's ends and makes the error pipe            *)
(* nonblocking; when that fails there is no thread yet to wait for.       *)
PrepareParent ==
    /\ stage = "started"
    /\ \/ stage' = "threads" /\ UNCHANGED <<childVars, result, handlers>>
       \/ /\ KillGroup
          /\ stage' = "returned"
          /\ result' = [result EXCEPT !.terminated = TRUE, !.error = "launch"]
          /\ handlers' = "default"
    /\ UNCHANGED <<platform, pipeVars, late, stop, signalled>>

(* A thread that cannot be created throws with the earlier ones running.   *)
StartThreads ==
    /\ stage = "threads"
    /\ \/ stage' = "watch" /\ writer' = "busy" /\ reader' = "busy"
       \/ /\ stage' = "unwinding"
          /\ \E started \in 0 .. 2 : /\ writer' = IF started = 0 THEN "none" ELSE "busy"
                                     /\ reader' = IF started = 2 THEN "busy" ELSE "none"
    /\ UNCHANGED <<platform, childVars, input, produced, got, ioError, result, late,
                   signalVars>>

StdinOpen == Alive \/ stray # "none"

(* What fits into the pipe is written at once, the rest when it is read.   *)
WriterEnds ==
    /\ writer = "busy"
    /\ input = "none" \/ StdinOpen
    /\ writer' = "done"
    /\ UNCHANGED <<platform, stage, childVars, input, reader, produced, got, ioError,
                   result, late, signalVars>>

(* Nobody is left to read: nothing in the program handles or blocks        *)
(* SIGPIPE, so on Linux the write ends the process that called.            *)
WriterBreaks ==
    /\ writer = "busy"
    /\ input # "none" /\ ~StdinOpen
    /\ writer' = "done"
    /\ stage' = IF platform = "linux" THEN "hostdead" ELSE stage
    /\ UNCHANGED <<platform, childVars, input, reader, produced, got, ioError, result,
                   late, signalVars>>

(* The output ends when everyone who may write has closed the pipe.        *)
ReaderReads ==
    /\ reader = "busy"
    /\ \/ got < produced /\ got' = got + 1 /\ UNCHANGED reader
       \/ /\ got = produced /\ ~Alive /\ stray = "none"
          /\ reader' = "done"
          /\ UNCHANGED got
    /\ UNCHANGED <<platform, stage, childVars, input, writer, produced, ioError, result,
                   late, signalVars>>

ReaderFails ==
    /\ reader = "busy"
    /\ reader' = "done"
    /\ ioError' = TRUE
    /\ UNCHANGED <<platform, stage, childVars, input, writer, produced, got, result,
                   late, signalVars>>

-----------------------------------------------------------------------------
(* The watch.                                                              *)

StopSignal ==
    /\ handlers = "ours"
    /\ stop' = TRUE
    /\ signalled' = TRUE
    /\ UNCHANGED <<platform, stage, childVars, pipeVars, result, late, handlers>>

DeadlinePasses ==
    /\ stage \in {"watch", "check"}
    /\ late' = TRUE
    /\ UNCHANGED <<platform, stage, childVars, pipeVars, result, signalVars>>

(* consume_child_setup_error: the error is read once.                      *)
Consumed ==
    /\ result' = IF setupPipe THEN [result EXCEPT !.error = "setup"] ELSE result
    /\ setupPipe' = FALSE
    /\ UNCHANGED <<child, cause, stray>>

Consume ==
    /\ platform = "linux" /\ stage = "watch"
    /\ Consumed
    /\ stage' = "check"
    /\ UNCHANGED <<platform, pipeVars, late, signalVars>>

WatchAgain == stage' = "watch" /\ UNCHANGED <<childVars, result>>

CheckWithoutDeadline ==
    /\ platform = "linux" /\ stage = "check"
    /\ IF child = "ended"
       THEN /\ child' = "reaped" /\ stage' = "ended"
            /\ UNCHANGED <<cause, stray, setupPipe, result>>
       ELSE \/ /\ stop
               /\ KillGroup
               /\ result' = [result EXCEPT !.terminated = TRUE, !.error = "canceled"]
               /\ stage' = "ended"
            \/ ~stop /\ WatchAgain
    /\ UNCHANGED <<platform, pipeVars, late, signalVars>>

(* waitpid without blocking, then the stop flag, then the deadline.        *)
Check ==
    /\ platform = "linux" /\ stage = "check"
    /\ IF child = "ended"
       THEN /\ child' = "reaped" /\ stage' = "ended"
            /\ UNCHANGED <<cause, stray, setupPipe, result>>
       ELSE \/ /\ stop
               /\ KillGroup
               /\ result' = [result EXCEPT !.terminated = TRUE, !.error = "canceled"]
               /\ stage' = "ended"
            \/ /\ ~stop /\ late
               /\ KillGroup
               /\ result' = [result EXCEPT !.terminated = TRUE, !.timedOut = TRUE]
               /\ stage' = "ended"
            \/ ~stop /\ ~late /\ WatchAgain
    /\ UNCHANGED <<platform, pipeVars, late, signalVars>>

(* waitpid or WaitForSingleObject itself fails.                            *)
WaitFails ==
    /\ stage = (IF platform = "linux" THEN "check" ELSE "watch")
    /\ KillGroup
    /\ result' = [result EXCEPT !.terminated = TRUE, !.error = "wait"]
    /\ stage' = "ended"
    /\ UNCHANGED <<platform, pipeVars, late, signalVars>>

WindowsWait ==
    /\ platform = "windows" /\ stage = "watch"
    /\ \/ /\ child = "ended"
          /\ child' = "reaped"
          /\ UNCHANGED <<cause, stray, setupPipe, result>>
       \/ /\ child # "ended" /\ late
          /\ KillGroup
          /\ result' = [result EXCEPT !.terminated = TRUE, !.timedOut = TRUE]
    /\ stage' = "ended"
    /\ UNCHANGED <<platform, pipeVars, late, signalVars>>

EndWithoutConsuming ==
    /\ stage = "ended"
    /\ stage' = "joining"
    /\ UNCHANGED <<platform, childVars, pipeVars, result, late, signalVars>>

(* The error pipe is read once more after the child was reaped.            *)
End ==
    /\ stage = "ended"
    /\ IF platform = "linux" THEN Consumed ELSE UNCHANGED <<childVars, result>>
    /\ stage' = "joining"
    /\ UNCHANGED <<platform, pipeVars, late, signalVars>>

(* The threads are joined without a deadline.  Closing the job kills what  *)
(* is left of it.                                                          *)
Join ==
    /\ stage = "joining"
    /\ writer # "busy" /\ reader # "busy"
    /\ stage' = "returned"
    /\ handlers' = "default"
    /\ stray' = IF platform = "windows" THEN "none" ELSE stray
    /\ UNCHANGED <<platform, child, cause, setupPipe, pipeVars, result, late, stop,
                   signalled>>

(* The destructors run in reverse: the threads are joined before the guard *)
(* or the job kills the child.                                             *)
Unwind ==
    /\ stage = "unwinding"
    /\ writer # "busy" /\ reader # "busy"
    /\ KillGroup
    /\ Returns("launch")
    /\ UNCHANGED <<platform, pipeVars, late, stop, signalled>>

-----------------------------------------------------------------------------

HostSteps ==
    \/ \E registered \in BOOLEAN : Register(registered)
    \/ MakePipes \/ InstallSignals \/ Launch \/ PrepareParent \/ StartThreads
    \/ Consume \/ Check \/ WindowsWait \/ End \/ Join \/ Unwind

ProcessNext ==
    \/ stage # "hostdead"
       /\ \/ \E data \in {"none", "small", "large"} : CallProcess(data)
          \/ HostSteps \/ WaitFails
          \/ WriterEnds \/ WriterBreaks \/ ReaderReads \/ ReaderFails
          \/ ChildSetup \/ ChildExits \/ StrayEnds \/ Prints
          \/ \E where \in {"group", "escaped"} : ChildSpawns(where)
          \/ StopSignal \/ DeadlinePasses

(* The scheduler runs the caller and its threads, and time passes; nothing *)
(* is assumed of the child, except that a pipe with room takes data.       *)
ProcessFairness ==
    /\ WF_processVars(stage # "hostdead" /\ HostSteps)
    /\ WF_processVars(stage # "hostdead" /\ DeadlinePasses /\ ~late)
    /\ WF_processVars(stage # "hostdead" /\ WriterBreaks)
    /\ WF_processVars(stage # "hostdead" /\ input # "large" /\ WriterEnds)
    /\ WF_processVars(stage # "hostdead" /\ ReaderReads)

ProcessSpec == ProcessInit /\ [][ProcessNext]_processVars /\ ProcessFairness

-----------------------------------------------------------------------------
(* Properties.                                                             *)

(* The result says what happened, whatever came first of the end of the    *)
(* child, a stop signal and the deadline: a setup that failed has its      *)
(* error, a child that was killed has a reason, only a signal of this call *)
(* cancels it, and a clean result is of a child that ended by itself and   *)
(* has all of its output, unless reading it failed: an error of read() is  *)
(* kept for a deadline that passes and told in no other result.            *)
OutcomeTold ==
    stage = "returned" =>
       /\ ~result.started => result.error # "none" \/ ~result.registered
       /\ cause = "setup" => result.error # "none"
       /\ cause = "killed" => result.timedOut \/ result.error # "none"
       /\ result.timedOut => late
       /\ result.error = "canceled" => signalled
       /\ result.started /\ ~result.terminated /\ result.error = "none" =>
             cause = "exit" /\ (got = produced \/ ioError)

(* A call that returned has reaped its child and put the signal handlers   *)
(* back; when it terminated the child nothing of the group is left.        *)
NoneLeftRunning ==
    stage = "returned" =>
       /\ child \in {"none", "reaped"}
       /\ handlers = "default"
       /\ result.terminated \/ platform = "windows" => stray # "group"

(* A child that never ends and never reads cannot hold the call for ever.  *)
(* Only a descendant that keeps the pipes open can, when it left the group *)
(* or the child ended by itself, and a thread that could not be created.   *)
Held == (stage = "joining" /\ stray # "none") \/ stage = "unwinding"

CallReturns ==
    <>[]Held \/ (stage = "watch" ~> stage \in {"returned", "hostdead"})

(* docs/API_REFERENCE.md: when a process times out the caller gets a result *)
(* for it, so a call that timed out still has its process to return in.     *)
ProcessTimeoutReported == result.timedOut => stage # "hostdead"
=============================================================================
