--------------------------- MODULE SandboxRegistry ---------------------------
(* The sandbox registry on Linux: registry, release and release_all, called  *)
(* by the threads of several processes that share a state file, the lock     *)
(* file beside it and a host file system that changes under them.  A process *)
(* may die at any point.  The identity of a capability is its canonical path *)
(* and its access; the hash that names it is left out.                       *)
EXTENDS Naturals, Sequences

CONSTANTS Callers,    \* the threads that call the registry
          Pid,        \* caller -> its process, which names the temporary file
          Calls,      \* what they may ask for: [op, requests]
          Paths,      \* the paths they name
          Canonical,  \* path -> what std::filesystem::canonical makes of it
          Links,      \* the paths whose last component is a symbolic link
          Nodes,      \* what the host may have at a path: [kind, inside]
          FirstFiles, \* the states an earlier version may have left
          None

Rows == [path : Paths, access : {"read_only", "read_write"}]

Row(request) == [path |-> Canonical[request.path], access |-> request.access]

RowsAt(asked, indices) == {Row(asked.requests[i]) : i \in indices}

Wish(asked) ==
    [op |-> asked.op, wants |-> RowsAt(asked, DOMAIN asked.requests)]

ASSUME RegistryAssumption ==
    /\ Canonical \in [Paths -> Paths]
    /\ \A asked \in Calls :
          /\ asked.requests \in Seq(Rows)
          /\ asked.op \in {"refresh", "reuse", "release", "release_all"}
          /\ asked.op = "release" => Len(asked.requests) = 1
    /\ \A content \in FirstFiles \ {None} : content \in
          SUBSET [path : Paths, access : {"read_only", "read_write", "read_modify"}]
    /\ None \notin Calls \cup {Wish(asked) : asked \in Calls}
    /\ \A content \in SUBSET Rows : content # None

VARIABLES
    host,      \* canonical path -> the node found there
    file,      \* the rows of the state file, or None
    lockFile,  \* whether the lock file exists
    temp,      \* process -> the rows in its temporary file, or None
    held,      \* caller -> how it holds the lock
    pc, call, at,
    mem,       \* caller -> the rows it loaded and changed
    granted,   \* caller -> the requests it got a permission for
    faulty,    \* caller -> the requests it got a path error for
    failed     \* caller -> final_error

local == <<pc, call, at, mem, granted, faulty, failed>>
disk == <<file, lockFile, temp>>
registryVars == <<host, disk, held, local>>

Idle == [c \in Callers |-> "idle"]

Init ==
    /\ host \in [{Canonical[p] : p \in Paths} -> Nodes]
    /\ file \in FirstFiles
    /\ lockFile = (file # None)
    /\ temp = [p \in {Pid[c] : c \in Callers} |-> None]
    /\ held = [c \in Callers |-> "none"]
    /\ pc = Idle
    /\ call = [c \in Callers |-> None]
    /\ at = [c \in Callers |-> 1]
    /\ mem = [c \in Callers |-> {}]
    /\ granted = [c \in Callers |-> {}]
    /\ faulty = [c \in Callers |-> {}]
    /\ failed = [c \in Callers |-> FALSE]

-----------------------------------------------------------------------------
(* The host.                                                               *)

(* inspect_registry_path follows nothing and accepts directories and files *)
(* with a single link.                                                     *)
Accepted(kind) == kind \in {"directory", "regular"}

KindOf(path) == IF path \in Links THEN "symlink" ELSE host[Canonical[path]].kind

Exists(path) == host[Canonical[path]].kind # "missing"

(* inspect_tree reports what it meets below the root, and a root that is   *)
(* not a directory.                                                        *)
TreeErrors(path) ==
    LET node == host[Canonical[path]]
    IN node.kind # "directory" \/ \E kind \in node.inside : ~Accepted(kind)

HostChanges(path, node) ==
    /\ host' = [host EXCEPT ![path] = node]
    /\ UNCHANGED <<disk, held, local>>

-----------------------------------------------------------------------------
(* The state file and its lock.                                            *)

(* Earlier versions wrote read_modify for read_write.                      *)
Loaded(content) ==
    {[row EXCEPT !.access = IF @ = "read_modify" THEN "read_write" ELSE @] :
        row \in content}

Writes(c) == call[c].op # "reuse"

Fail(c) ==
    /\ failed' = [failed EXCEPT ![c] = TRUE]
    /\ pc' = [pc EXCEPT ![c] = "reply"]
    /\ UNCHANGED <<call, at, mem, granted, faulty>>

Begin(c, asked) ==
    /\ pc[c] = "idle"
    /\ call' = [call EXCEPT ![c] = asked]
    /\ pc' = [pc EXCEPT ![c] = "start"]
    /\ UNCHANGED <<host, disk, held, at, mem, granted, faulty, failed>>

(* An empty list of requests is answered at once, and so is a release of a *)
(* path that does not exist.                                               *)
Start(c) ==
    /\ pc[c] = "start"
    /\ \/ /\ call[c].op \in {"refresh", "reuse"} /\ call[c].requests = <<>>
          /\ pc' = [pc EXCEPT ![c] = "reply"]
          /\ UNCHANGED faulty
       \/ /\ call[c].op = "release" /\ ~Exists(call[c].requests[1].path)
          /\ faulty' = [faulty EXCEPT ![c] = {1}]
          /\ pc' = [pc EXCEPT ![c] = "reply"]
       \/ /\ call[c].op \in {"refresh", "reuse"} => call[c].requests # <<>>
          /\ call[c].op = "release" => Exists(call[c].requests[1].path)
          /\ pc' = [pc EXCEPT ![c] = "open"]
          /\ UNCHANGED faulty
    /\ UNCHANGED <<host, disk, held, call, at, mem, granted, failed>>

OpenLock(c) ==
    /\ pc[c] = "open"
    /\ \/ /\ Writes(c) \/ lockFile
          /\ lockFile' = (lockFile \/ Writes(c))
          /\ pc' = [pc EXCEPT ![c] = "lock"]
          /\ UNCHANGED <<call, at, mem, granted, faulty, failed>>
       \/ Fail(c) /\ UNCHANGED lockFile
    /\ UNCHANGED <<host, file, temp, held>>

(* Every open of the lock file is a lock of its own, so threads of one     *)
(* process exclude each other too.                                         *)
Free(c, mode) ==
    \A d \in Callers \ {c} :
       held[d] = "none" \/ (mode = "shared" /\ held[d] = "shared")

TakeLockShared(c) ==
    /\ pc[c] = "lock"
    /\ Free(c, "shared")
    /\ held' = [held EXCEPT ![c] = "shared"]
    /\ pc' = [pc EXCEPT ![c] = "load"]
    /\ UNCHANGED <<host, disk, call, at, mem, granted, faulty, failed>>

TakeLock(c) ==
    LET mode == IF Writes(c) THEN "exclusive" ELSE "shared"
    IN /\ pc[c] = "lock"
       /\ Free(c, mode)
       /\ held' = [held EXCEPT ![c] = mode]
       /\ pc' = [pc EXCEPT ![c] = "load"]
       /\ UNCHANGED <<host, disk, call, at, mem, granted, faulty, failed>>

LockFails(c) ==
    pc[c] = "lock" /\ Fail(c) /\ UNCHANGED <<host, disk, held>>

Load(c) ==
    /\ pc[c] = "load"
    /\ \/ /\ file # None \/ Writes(c)
          /\ mem' = [mem EXCEPT ![c] = IF file = None THEN {} ELSE Loaded(file)]
          /\ pc' = [pc EXCEPT ![c] =
                       IF call[c].op \in {"refresh", "reuse"} THEN "grant" ELSE "remove"]
          /\ UNCHANGED <<call, at, granted, faulty, failed>>
       \/ Fail(c)
    /\ UNCHANGED <<host, disk, held>>

-----------------------------------------------------------------------------
(* What a call does under the lock.                                        *)

Request(c) == call[c].requests[at[c]]

GrantedTo(c) == granted' = [granted EXCEPT ![c] = @ \cup {at[c]}]

FaultAt(c) == faulty' = [faulty EXCEPT ![c] = @ \cup {at[c]}]

(* refresh_one: what inspect_tree reports does not withhold the permission.*)
RefreshOne(c) ==
    /\ call[c].op = "refresh"
    /\ \/ /\ Accepted(KindOf(Request(c).path))
          /\ mem' = [mem EXCEPT ![c] = @ \cup {Row(Request(c))}]
          /\ GrantedTo(c)
          /\ IF TreeErrors(Request(c).path) THEN FaultAt(c) ELSE UNCHANGED faulty
       \/ /\ ~Accepted(KindOf(Request(c).path))
          /\ FaultAt(c)
          /\ UNCHANGED <<mem, granted>>

ReuseOne(c) ==
    /\ call[c].op = "reuse"
    /\ IF Accepted(KindOf(Request(c).path)) /\ Row(Request(c)) \in mem[c]
       THEN GrantedTo(c) /\ UNCHANGED faulty
       ELSE FaultAt(c) /\ UNCHANGED granted
    /\ UNCHANGED mem

Grant(c) ==
    /\ pc[c] = "grant"
    /\ at[c] <= Len(call[c].requests)
    /\ RefreshOne(c) \/ ReuseOne(c)
    /\ at' = [at EXCEPT ![c] = @ + 1]
    /\ UNCHANGED <<host, disk, held, pc, call, failed>>

(* A reuse never writes the file.                                          *)
Granted(c) ==
    /\ pc[c] = "grant"
    /\ at[c] > Len(call[c].requests)
    /\ pc' = [pc EXCEPT ![c] = IF Writes(c) THEN "create" ELSE "reply"]
    /\ UNCHANGED <<host, disk, held, call, at, mem, granted, faulty, failed>>

Kept(c) ==
    IF call[c].op = "release"
    THEN {row \in mem[c] : row.path # Canonical[call[c].requests[1].path]}
    ELSE {}

(* With nothing to remove the file is left alone.                          *)
Remove(c) ==
    /\ pc[c] = "remove"
    /\ mem' = [mem EXCEPT ![c] = Kept(c)]
    /\ pc' = [pc EXCEPT ![c] = IF Kept(c) = mem[c] THEN "reply" ELSE "create"]
    /\ UNCHANGED <<host, disk, held, call, at, granted, faulty, failed>>

-----------------------------------------------------------------------------
(* save_registry_state: a temporary file named after the process, then a   *)
(* rename.                                                                 *)

CreateTemp(c) ==
    /\ pc[c] = "create"
    /\ \/ /\ temp' = [temp EXCEPT ![Pid[c]] = {}]
          /\ pc' = [pc EXCEPT ![c] = "write"]
          /\ UNCHANGED <<call, at, mem, granted, faulty, failed>>
       \/ Fail(c) /\ UNCHANGED temp
    /\ UNCHANGED <<host, file, lockFile, held>>

WriteTemp(c) ==
    /\ pc[c] = "write"
    /\ temp' = [temp EXCEPT ![Pid[c]] = mem[c]]
    /\ pc' = [pc EXCEPT ![c] = "rename"]
    /\ UNCHANGED <<host, file, lockFile, held, call, at, mem, granted, faulty, failed>>

Rename(c) ==
    /\ pc[c] = "rename"
    /\ file' = temp[Pid[c]]
    /\ temp' = [temp EXCEPT ![Pid[c]] = None]
    /\ pc' = [pc EXCEPT ![c] = "reply"]
    /\ UNCHANGED <<host, lockFile, held, call, at, mem, granted, faulty, failed>>

SaveFailsQuietly(c) ==
    /\ pc[c] \in {"write", "rename"}
    /\ temp' = [temp EXCEPT ![Pid[c]] = None]
    /\ pc' = [pc EXCEPT ![c] = "reply"]
    /\ UNCHANGED <<host, file, lockFile, held, call, at, mem, granted, faulty, failed>>

(* A write, a sync, a close or a rename that fails takes the temporary     *)
(* file away; the permissions are already in the result.                   *)
SaveFails(c) ==
    /\ pc[c] \in {"write", "rename"}
    /\ temp' = [temp EXCEPT ![Pid[c]] = None]
    /\ Fail(c)
    /\ UNCHANGED <<host, file, lockFile, held>>

-----------------------------------------------------------------------------
(* The end of calls, by their return or by the death of the process.       *)

Ended(gone) ==
    /\ held' = [c \in Callers |-> IF c \in gone THEN "none" ELSE held[c]]
    /\ pc' = [c \in Callers |-> IF c \in gone THEN "idle" ELSE pc[c]]
    /\ call' = [c \in Callers |-> IF c \in gone THEN None ELSE call[c]]
    /\ at' = [c \in Callers |-> IF c \in gone THEN 1 ELSE at[c]]
    /\ mem' = [c \in Callers |-> IF c \in gone THEN {} ELSE mem[c]]
    /\ granted' = [c \in Callers |-> IF c \in gone THEN {} ELSE granted[c]]
    /\ faulty' = [c \in Callers |-> IF c \in gone THEN {} ELSE faulty[c]]
    /\ failed' = [c \in Callers |-> IF c \in gone THEN FALSE ELSE failed[c]]

Reply(c) == pc[c] = "reply" /\ Ended({c}) /\ UNCHANGED <<host, disk>>

(* The kernel drops the locks of a dead process; its files stay.           *)
Crash(pid) ==
    /\ Ended({c \in Callers : Pid[c] = pid})
    /\ UNCHANGED <<host, disk>>

-----------------------------------------------------------------------------

Work(c) ==
    \/ Start(c) \/ OpenLock(c) \/ TakeLock(c) \/ LockFails(c) \/ Load(c) \/ Grant(c) \/ Granted(c)
    \/ Remove(c) \/ CreateTemp(c) \/ WriteTemp(c) \/ Rename(c) \/ SaveFails(c)
    \/ Reply(c)

Next ==
    \/ \E c \in Callers : Work(c) \/ \E asked \in Calls : Begin(c, asked)
    \/ \E pid \in {Pid[c] : c \in Callers} : Crash(pid)
    \/ \E path \in DOMAIN host, node \in Nodes : HostChanges(path, node)

Spec == Init /\ [][Next]_registryVars

-----------------------------------------------------------------------------
(* Properties.                                                             *)

Registered == IF file = None THEN {} ELSE Loaded(file)

GrantedRows(c) == RowsAt(call[c], granted[c])

(* When a call is about to report, every permission it grants without a    *)
(* final error is in the state file that the next process will load, and   *)
(* every request it does not grant has an error.                           *)
GrantsDurable ==
    \A c \in Callers : pc[c] = "reply" /\ ~failed[c] =>
       /\ GrantedRows(c) \subseteq Registered
       /\ call[c].op \in {"refresh", "reuse"} =>
             DOMAIN call[c].requests \subseteq granted[c] \cup faulty[c]

Asking == [c \in Callers |-> IF call[c] = None THEN None ELSE Wish(call[c])]

Answering ==
    [c \in Callers |->
        IF pc[c] # "reply" THEN None
        ELSE [granted |-> GrantedRows(c),
              failed |-> failed[c] \/ (call[c].op = "release" /\ faulty[c] # {})]]

(* The registry's processes, lock and files implement a durable map on     *)
(* which each call takes effect at one moment, or not at all when it       *)
(* reports a failure or its process dies.                                  *)
Map == INSTANCE CapabilityMap WITH
    rows <- Registered, request <- Asking, answer <- Answering,
    Requests <- {Wish(asked) : asked \in Calls}

MapSpec == Map!Spec
=============================================================================
